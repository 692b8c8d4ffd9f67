------------------------- MODULE ConfigParserProofs -------------------------
(***************************************************************************)
(* The parser keeps its shape, and notes an error before it gives up, for  *)
(* every text, every set of names and every set of files.                  *)
(***************************************************************************)
EXTENDS ConfigParser, SequenceTheorems, FiniteSetTheorems, TLAPS

Smaller(S, x) == {y \in S : y < x}

\* A finite set of natural numbers that is not empty has a least element.
LEMMA LeastElement ==
    ASSUME NEW S \in SUBSET Nat, IsFiniteSet(S), S # {}
    PROVE  Min(S) \in S /\ \A y \in S : Min(S) <= y
<1> DEFINE Below == {Smaller(S, x) : x \in S}
<1>a. ASSUME NEW x \in S
      PROVE  Smaller(S, x) \in SUBSET S /\ IsFiniteSet(Smaller(S, x))
  <2>1. Smaller(S, x) \subseteq S
    BY DEF Smaller
  <2> QED
    BY <2>1, FS_Subset
<1>1. Below \subseteq FiniteSubsetsOf(S) /\ Below # {}
  BY <1>a DEF FiniteSubsetsOf
<1>2. PICK T \in Below : \A U \in Below : ~(<<U, T>> \in StrictSubsetOrdering(S))
  BY <1>1, FS_StrictSubsetOrderingWellFounded, WFMin
<1>3. PICK x \in S : T = Smaller(S, x)
  BY <1>2
<1>4. ASSUME NEW y \in S, y < x
      PROVE  FALSE
  <2>1. Smaller(S, y) \in Below
    OBVIOUS
  <2>2. \A z \in S : z < y => z < x
    BY <1>4
  <2>3. y \in Smaller(S, x) /\ y \notin Smaller(S, y)
    BY <1>4 DEF Smaller
  <2>4. Smaller(S, y) \subseteq T /\ Smaller(S, y) # T
    BY <1>3, <2>2, <2>3 DEF Smaller
  <2>5. T \in SUBSET S /\ Smaller(S, y) \in SUBSET S
    BY <1>3, <1>a
  <2>6. <<Smaller(S, y), T>> \in StrictSubsetOrdering(S)
    BY <2>4, <2>5 DEF StrictSubsetOrdering
  <2> QED
    BY <1>2, <2>1, <2>6
<1>5. \A y \in S : x <= y
  BY <1>4
<1> QED
  BY <1>5 DEF Min
-----------------------------------------------------------------------------
(* Reading tokens *)

States == [text : Seq(InputTokens), open : BOOLEAN, pos : Nat, t : Tokens,
           hasErrors : BOOLEAN, ok : BOOLEAN]

\* A parser in a place of its text, which has noted an error if it has failed.
Good(s) ==
    /\ s \in States
    /\ s.pos \in 1..(Len(s.text) + 1)
    /\ ~s.ok => s.hasErrors

\* What comes of s when it reads on.
Later(s, r) ==
    /\ Good(r)
    /\ r.text = s.text
    /\ s.hasErrors => r.hasErrors

\* No token of a text is UNKNOWN.
LEMMA UnknownIsNoInput == "UNKNOWN" \notin InputTokens /\ BadComment # "UNKNOWN"
  BY NameAssumption DEF InputTokens, Chars, OpenString, BadComment

\* A token behind another one is in the text, or at its end.
LEMMA BehindInText ==
    ASSUME NEW text \in Seq(InputTokens), NEW i \in 1..Len(text)
    PROVE  Behind(text, i) \in 1..(Len(text) + 1)
<1>1. Len(text) \in Nat
  OBVIOUS
<1> QED
  BY <1>1 DEF Behind

LEMMA BehindCommentInText ==
    ASSUME NEW text \in Seq(InputTokens), NEW i \in 1..Len(text)
    PROVE  BehindComment(text, i) \in 1..(Len(text) + 1)
<1> DEFINE good == {j \in (i + 1)..Len(text) : text[j] # BadComment}
<1>1. Len(text) \in Nat
  OBVIOUS
<1>2. CASE good = {}
  BY <1>1, <1>2 DEF BehindComment
<1>3. CASE good # {}
  <2>1. good \in SUBSET Nat /\ good \subseteq (i + 1)..Len(text)
    BY <1>1
  <2>2. IsFiniteSet((i + 1)..Len(text))
    <3>1. i + 1 \in Int /\ Len(text) \in Int
      BY <1>1
    <3> QED
      BY <3>1, FS_Interval
  <2>a. IsFiniteSet(good)
    BY <2>1, <2>2, FS_Subset
  <2>3. Min(good) \in good
    BY <1>3, <2>1, <2>a, LeastElement
  <2>4. Min(good) \in 1..Len(text)
    BY <1>1, <2>1, <2>3
  <2>5. BehindComment(text, i) = Behind(text, Min(good))
    BY <1>3 DEF BehindComment
  <2> QED
    BY <2>4, <2>5, BehindInText
<1> QED
  BY <1>2, <1>3

\* A reader that has moved on, and forgotten no error.
MoveTo(s, pos, t, error) == [s EXCEPT !.pos = pos, !.t = t, !.hasErrors = error]

LEMMA MovedOn ==
    ASSUME NEW s, Good(s), NEW pos \in 1..(Len(s.text) + 1), NEW t \in Tokens,
           NEW error \in BOOLEAN, s.hasErrors => error
    PROVE  /\ Later(s, MoveTo(s, pos, t, error))
           /\ MoveTo(s, pos, t, error).ok = s.ok
           /\ MoveTo(s, pos, t, error).t = t
           /\ MoveTo(s, pos, t, error).hasErrors = error
<1> DEFINE r == MoveTo(s, pos, t, error)
<1>1. s \in States /\ Len(s.text) \in Nat /\ pos \in Nat
  BY DEF Good, States
<1>2. r \in States
  BY <1>1 DEF States, MoveTo
<1>3. /\ r.pos = pos /\ r.t = t /\ r.hasErrors = error
      /\ r.text = s.text /\ r.ok = s.ok
  BY <1>1 DEF States, MoveTo
<1> HIDE DEF r
<1>4. Later(s, r)
  BY <1>2, <1>3 DEF Good, Later
<1> QED
  BY <1>3, <1>4 DEF r

\* readToken notes an error when it gives no token.
LEMMA ReadTokenGood ==
    ASSUME NEW s, Good(s)
    PROVE  /\ Later(s, ReadToken(s))
           /\ ReadToken(s).ok = s.ok
           /\ ReadToken(s).t = "UNKNOWN" => ReadToken(s).hasErrors
<1>1. s \in States /\ s.pos \in 1..(Len(s.text) + 1) /\ Len(s.text) \in Nat
  BY DEF Good, States
<1>2. CASE s.pos > Len(s.text)
  <2>1. ReadToken(s) = MoveTo(s, s.pos, "END_OF_FILE", s.hasErrors)
    BY <1>1, <1>2 DEF ReadToken, MoveTo, States
  <2>2. "END_OF_FILE" \in Tokens /\ s.hasErrors \in BOOLEAN
    BY <1>1 DEF Tokens, States
  <2>3. "END_OF_FILE" # "UNKNOWN"
    OBVIOUS
  <2> QED
    BY <1>1, <2>1, <2>2, <2>3, MovedOn
<1>3. CASE ~(s.pos > Len(s.text)) /\ s.text[s.pos] = BadComment
  <2>1. ReadToken(s) = MoveTo(s, BehindComment(s.text, s.pos), "UNKNOWN", TRUE)
    BY <1>3 DEF ReadToken, MoveTo
  <2>2. BehindComment(s.text, s.pos) \in 1..(Len(s.text) + 1)
    BY <1>1, <1>3, BehindCommentInText DEF States
  <2>3. "UNKNOWN" \in Tokens
    BY DEF Tokens
  <2> DEFINE pos == BehindComment(s.text, s.pos)
             r == MoveTo(s, pos, "UNKNOWN", TRUE)
  <2> HIDE DEF pos
  <2>4. Later(s, r) /\ r.ok = s.ok /\ r.hasErrors
    BY <2>2, <2>3, MovedOn DEF pos
  <2> HIDE DEF r
  <2> QED
    BY <2>1, <2>4 DEF r, pos
<1>4. CASE ~(s.pos > Len(s.text)) /\ s.text[s.pos] # BadComment
  <2> DEFINE error == s.hasErrors \/ s.text[s.pos] = OpenString
  <2>1. ReadToken(s) = MoveTo(s, Behind(s.text, s.pos), s.text[s.pos], error)
    BY <1>1, <1>4 DEF ReadToken, MoveTo
  <2>2. Behind(s.text, s.pos) \in 1..(Len(s.text) + 1)
    BY <1>1, <1>4, BehindInText DEF States
  <2>3. s.text[s.pos] \in InputTokens
    BY <1>1, <1>4 DEF States
  <2>4. s.text[s.pos] \in Tokens /\ s.text[s.pos] # "UNKNOWN"
    BY <2>3, UnknownIsNoInput DEF Tokens
  <2>5. error \in BOOLEAN /\ (s.hasErrors => error)
    BY <1>1 DEF States
  <2> DEFINE t == s.text[s.pos]
             pos == Behind(s.text, s.pos)
  <2>6. t \in Tokens /\ pos \in 1..(Len(s.text) + 1)
    BY <2>2, <2>4
  <2>7. ReadToken(s) = MoveTo(s, pos, t, error) /\ t # "UNKNOWN"
    BY <2>1, <2>4
  <2> HIDE DEF error, t, pos
  <2>8. /\ Later(s, MoveTo(s, pos, t, error))
        /\ MoveTo(s, pos, t, error).ok = s.ok
        /\ MoveTo(s, pos, t, error).t = t
    BY <2>5, <2>6, MovedOn
  <2> QED
    BY <2>7, <2>8
<1> QED
  BY <1>2, <1>3, <1>4

\* printError and the macros built on it.
LEMMA PrintErrorGood ==
    ASSUME NEW s, Good(s)
    PROVE  /\ Later(s, PrintError(s))
           /\ PrintError(s).hasErrors
           /\ PrintError(s).ok = s.ok
<1> DEFINE e == [s EXCEPT !.hasErrors = TRUE]
<1>1. Good(e) /\ e.text = s.text /\ e.hasErrors /\ e.ok = s.ok
  BY DEF Good, States
<1> QED
  BY <1>1, ReadTokenGood DEF PrintError, Later

LEMMA ReadGood ==
    ASSUME NEW s, Good(s)
    PROVE  Later(s, Read(s))
<1>1. CASE s.ok
  <2> DEFINE next == ReadToken(s)
  <2>1. Good(next) /\ next.text = s.text /\ (s.hasErrors => next.hasErrors)
    BY ReadTokenGood DEF Later
  <2>2. next.t = "UNKNOWN" => next.hasErrors
    BY ReadTokenGood
  <2>3. Read(s) = [next EXCEPT !.ok = next.t # "UNKNOWN"]
    BY <1>1 DEF Read
  <2> QED
    BY <2>1, <2>2, <2>3 DEF Later, Good, States
<1>2. CASE ~s.ok
  BY <1>2 DEF Read, Later
<1> QED
  BY <1>1, <1>2

LEMMA ExpectGood ==
    ASSUME NEW s, Good(s), NEW type
    PROVE  Later(s, Expect(s, type))
<1>1. CASE ~s.ok \/ Type(s.t) = type
  BY <1>1 DEF Expect, Later
<1>2. CASE ~(~s.ok \/ Type(s.t) = type)
  <2> DEFINE e == PrintError(s)
  <2>1. Later(s, e) /\ e.hasErrors
    BY PrintErrorGood
  <2>2. Expect(s, type) = [e EXCEPT !.ok = FALSE]
    BY <1>2 DEF Expect
  <2> HIDE DEF e
  <2> QED
    BY <2>1, <2>2 DEF Later, Good, States
<1> QED
  BY <1>1, <1>2

\* One reading after another.
LEMMA LaterStill ==
    ASSUME NEW s, NEW r, NEW q, Later(s, r), Later(r, q)
    PROVE  Later(s, q)
  BY DEF Later

LEMMA NeedGood ==
    ASSUME NEW s, Good(s), NEW type
    PROVE  Later(s, Need(s, type))
<1>1. Later(s, Read(s))
  BY ReadGood
<1>2. Later(Read(s), Expect(Read(s), type))
  BY <1>1, ExpectGood DEF Later
<1> QED
  BY <1>1, <1>2, LaterStill DEF Need

\* A reader between two calls.
Idle(s) == s \in Readers /\ s.pos \in 1..(Len(s.text) + 1)

LEMMA IdleIsGood ==
    ASSUME NEW s, Idle(s)
    PROVE  Good(s) /\ Later(s, s) /\ s.ok
<1>1. s \in States /\ s.ok
  BY DEF Idle, Readers, States
<1> QED
  BY <1>1 DEF Idle, Good, Later

LEMMA ResumeGood ==
    ASSUME NEW s, Good(s)
    PROVE  Idle(Resume(s)) /\ Later(s, Resume(s)) /\ Resume(s).hasErrors = s.hasErrors
<1>1. Resume(s) = [s EXCEPT !.ok = TRUE]
  BY DEF Resume
<1>2. Resume(s) \in Readers /\ Resume(s) \in States
  BY <1>1 DEF Good, States, Readers
<1>3. Resume(s).pos = s.pos /\ Resume(s).text = s.text /\ Resume(s).ok
      /\ Resume(s).hasErrors = s.hasErrors
  BY <1>1 DEF Good, States
<1> QED
  BY <1>2, <1>3 DEF Idle, Good, Later

\* What EXPECT lets through is of the type asked for; a name is an identifier.
LEMMA NeedGives ==
    ASSUME NEW s, Good(s), NEW type, Need(s, type).ok
    PROVE  s.ok /\ Type(Need(s, type).t) = type
<1> DEFINE r == Read(s)
<1>1. Good(r) /\ (~s.ok => ~r.ok)
  BY ReadGood DEF Later, Read
<1>2. CASE ~r.ok \/ Type(r.t) = type
  BY <1>1, <1>2 DEF Need, Expect
<1>3. CASE ~(~r.ok \/ Type(r.t) = type)
  <2> DEFINE e == PrintError(r)
  <2>1. Good(e)
    BY <1>1, PrintErrorGood DEF Later
  <2>2. Need(s, type) = [e EXCEPT !.ok = FALSE]
    BY <1>3 DEF Need, Expect
  <2> HIDE DEF e
  <2> QED
    BY <2>1, <2>2 DEF Good, States
<1> QED
  BY <1>2, <1>3

LEMMA IdentifierIsName ==
    ASSUME NEW t \in Tokens, Type(t) = "IDENTIFIER"
    PROVE  t \in Names /\ t # "UNKNOWN"
<1>1. CASE t \in Names
  BY <1>1, NameAssumption
<1>2. CASE t \notin Names
  <2>1. t \notin Strings \cup {OpenString}
    BY <1>2 DEF Type
  <2>2. t = "IDENTIFIER"
    BY <1>2, <2>1 DEF Type
  <2>3. "IDENTIFIER" \notin Chars \cup {OpenString, BadComment, "UNKNOWN", "END_OF_FILE"}
    BY DEF Chars, OpenString, BadComment
  <2> QED
    BY <1>2, <2>1, <2>2, <2>3 DEF Tokens, InputTokens
<1> QED
  BY <1>1, <1>2

\* A token that is known has been read without an error.
LEMMA ReadKnown ==
    ASSUME NEW s, Good(s), s.ok, Read(s).t # "UNKNOWN"
    PROVE  Read(s).ok
<1> DEFINE next == ReadToken(s)
<1>1. Good(next)
  BY ReadTokenGood DEF Later
<1>2. Read(s) = [next EXCEPT !.ok = next.t # "UNKNOWN"]
  BY DEF Read
<1> HIDE DEF next
<1> QED
  BY <1>1, <1>2 DEF Good, States

\* What has been read when a function has gone on reads on between two calls.
LEMMA OkIsIdle ==
    ASSUME NEW s, Good(s), s.ok
    PROVE  Idle(s)
  BY DEF Good, Idle, States, Readers

LEMMA NewReaderIdle ==
    ASSUME NEW text \in Seq(InputTokens), NEW open \in BOOLEAN
    PROVE  Idle(NewReader(text, open))
<1>1. Len(text) \in Nat /\ "UNKNOWN" \in Tokens
  BY DEF Tokens
<1> QED
  BY <1>1 DEF NewReader, Idle, Readers
-----------------------------------------------------------------------------
(* Modules and calls *)

\* The tree b is made of modules that are there, with Module::null among them.
TreeOK(b) ==
    /\ b \in Seq(Modules) /\ NullModule \in DOMAIN b
    /\ \A m \in DOMAIN b : /\ b[m].next \in DOMAIN b \cup {NULL}
                           /\ \A i \in DOMAIN b[m].list : b[m].list[i] \in DOMAIN b

\* The call f waits for a module of b.
FrameOK(f, b) ==
    /\ f \in Frames
    /\ f.fn \in {"list", "chain", "include"} => f.me \in DOMAIN b
    /\ f.fn = "list" => b[f.me].name = "ModuleList"
    /\ f.fn = "include" => b[f.me].name = "Include" /\ Idle(f.reader)

CallsOK(s, b) == s \in Seq(Frames) /\ \A i \in DOMAIN s : FrameOK(s[i], b)

\* c has all modules of b, with their names.
Grown(b, c) ==
    /\ DOMAIN b \subseteq DOMAIN c
    /\ \A m \in DOMAIN b : c[m].name = b[m].name

LEMMA CallsGrow ==
    ASSUME NEW s, NEW b, NEW c, CallsOK(s, b), Grown(b, c)
    PROVE  CallsOK(s, c)
  BY DEF CallsOK, FrameOK, Grown

LEMMA PushCall ==
    ASSUME NEW s, NEW b, CallsOK(s, b), NEW f, FrameOK(f, b)
    PROVE  /\ CallsOK(Append(s, f), b)
           /\ Append(s, f) # <<>>
           /\ Append(s, f)[Len(Append(s, f))] = f
<1> DEFINE r == Append(s, f)
<1>1. f \in Frames /\ s \in Seq(Frames)
  BY DEF CallsOK, FrameOK
<1>2. /\ r \in Seq(Frames)
      /\ Len(r) = Len(s) + 1 /\ Len(s) \in Nat
      /\ \A i \in DOMAIN s : r[i] = s[i]
      /\ r[Len(s) + 1] = f
      /\ r # <<>>
  BY <1>1
<1>3. ASSUME NEW i \in DOMAIN r PROVE FrameOK(r[i], b)
  <2>1. i \in DOMAIN s \/ i = Len(s) + 1
    BY <1>1, <1>2
  <2> QED
    BY <1>2, <2>1 DEF CallsOK
<1> HIDE DEF r
<1>4. CallsOK(r, b) /\ r # <<>> /\ r[Len(r)] = f
  BY <1>2, <1>3 DEF CallsOK
<1> QED
  BY <1>4 DEF r

LEMMA PopCall ==
    ASSUME NEW s, NEW b, CallsOK(s, b), s # <<>>
    PROVE  /\ CallsOK(SubSeq(s, 1, Len(s) - 1), b)
           /\ FrameOK(s[Len(s)], b)
<1>1. s \in Seq(Frames) /\ Len(s) \in Nat \ {0}
  BY DEF CallsOK
<1> DEFINE r == SubSeq(s, 1, Len(s) - 1)
<1>2. r \in Seq(Frames) /\ Len(r) = Len(s) - 1 /\ \A i \in 1..(Len(s) - 1) : r[i] = s[i]
  <2> DEFINE n == Len(s) - 1
  <2>1. 1 \in Int /\ n \in Int /\ \A i \in 1..n : s[i] \in Frames
    BY <1>1
  <2> HIDE DEF n
  <2>2. /\ SubSeq(s, 1, n) \in Seq(Frames)
        /\ Len(SubSeq(s, 1, n)) = IF 1 <= n THEN n - 1 + 1 ELSE 0
        /\ \A i \in 1..(n - 1 + 1) : SubSeq(s, 1, n)[i] = s[1 + i - 1]
    BY <2>1, SubSeqProperties
  <2>n. n \in Nat
    BY <1>1 DEF n
  <2>3. (IF 1 <= n THEN n - 1 + 1 ELSE 0) = n /\ n - 1 + 1 = n
    BY <2>n
  <2>4. \A i \in 1..n : 1 + i - 1 = i
    OBVIOUS
  <2> QED
    BY <2>2, <2>3, <2>4 DEF n
<1>3. \A i \in DOMAIN r : FrameOK(r[i], b)
  BY <1>1, <1>2 DEF CallsOK
<1>4. FrameOK(s[Len(s)], b)
  BY <1>1 DEF CallsOK
<1> QED
  BY <1>2, <1>3, <1>4 DEF CallsOK

\* A call is replaced by another one.
LEMMA ChangeCall ==
    ASSUME NEW s, NEW b, CallsOK(s, b), s # <<>>, NEW f, FrameOK(f, b)
    PROVE  LET r == [s EXCEPT ![Len(s)] = f]
           IN  CallsOK(r, b) /\ r # <<>> /\ r[Len(r)] = f
<1>1. s \in Seq(Frames) /\ Len(s) \in Nat \ {0} /\ f \in Frames
  BY DEF CallsOK, FrameOK
<1> DEFINE r == [s EXCEPT ![Len(s)] = f]
<1>2. /\ r \in Seq(Frames) /\ Len(r) = Len(s) /\ r[Len(s)] = f
      /\ \A i \in DOMAIN s : r[i] = s[i] \/ r[i] = f
  BY <1>1
<1>3. DOMAIN r = DOMAIN s
  OBVIOUS
<1>4. \A i \in DOMAIN r : FrameOK(r[i], b)
  BY <1>2, <1>3 DEF CallsOK
<1> QED
  BY <1>1, <1>2, <1>4 DEF CallsOK

\* A module is made.
LEMMA GrowTree ==
    ASSUME NEW b, TreeOK(b), NEW m \in Modules, m.next = NULL, m.list = <<>>
    PROVE  /\ TreeOK(Append(b, m)) /\ Grown(b, Append(b, m))
           /\ Len(b) + 1 \in DOMAIN Append(b, m)
           /\ Append(b, m)[Len(b) + 1] = m
<1> DEFINE c == Append(b, m)
<1>1. b \in Seq(Modules) /\ Len(b) \in Nat
  BY DEF TreeOK
<1>2. /\ c \in Seq(Modules) /\ DOMAIN b \subseteq DOMAIN c
      /\ \A k \in DOMAIN b : c[k] = b[k]
      /\ Len(b) + 1 \in DOMAIN c /\ c[Len(b) + 1] = m
      /\ \A k \in DOMAIN c : k \in DOMAIN b \/ k = Len(b) + 1
  BY <1>1
<1> HIDE DEF c
<1>3. ASSUME NEW k \in DOMAIN c
      PROVE  /\ c[k].next \in DOMAIN c \cup {NULL}
             /\ \A i \in DOMAIN c[k].list : c[k].list[i] \in DOMAIN c
  <2>1. CASE k \in DOMAIN b
    BY <1>2, <2>1 DEF TreeOK
  <2>2. CASE k = Len(b) + 1
    BY <1>2, <2>2
  <2> QED
    BY <1>2, <2>1, <2>2
<1>4. TreeOK(c) /\ Grown(b, c)
  BY <1>2, <1>3 DEF TreeOK, Grown
<1> QED
  BY <1>2, <1>4 DEF c

\* A module is linked, or put into a list.
LEMMA LinkTree ==
    ASSUME NEW b, TreeOK(b), NEW m \in DOMAIN b, NEW n \in DOMAIN b \cup {NULL}
    PROVE  TreeOK([b EXCEPT ![m].next = n]) /\ Grown(b, [b EXCEPT ![m].next = n])
<1> DEFINE new == [b[m] EXCEPT !.next = n]
           c == [b EXCEPT ![m] = new]
<1>1. b \in Seq(Modules) /\ b[m] \in Modules /\ n \in Nat
  <2>1. b \in Seq(Modules)
    BY DEF TreeOK
  <2>2. b[m] \in Modules /\ DOMAIN b \subseteq Nat
    BY <2>1
  <2>3. n \in Nat
    BY <2>2 DEF NULL
  <2> QED
    BY <2>1, <2>2, <2>3
<1>2. new \in Modules /\ new.next = n /\ new.list = b[m].list /\ new.name = b[m].name
  BY <1>1 DEF Modules
<1>3. c = [b EXCEPT ![m].next = n]
  OBVIOUS
<1> HIDE DEF new
<1>4. /\ c \in Seq(Modules) /\ DOMAIN c = DOMAIN b
      /\ \A k \in DOMAIN b : c[k] = IF k = m THEN new ELSE b[k]
  BY <1>1, <1>2
<1> HIDE DEF c
<1>5. TreeOK(c) /\ Grown(b, c)
  BY <1>2, <1>4 DEF TreeOK, Grown
<1> QED
  BY <1>3, <1>5

LEMMA FillTree ==
    ASSUME NEW b, TreeOK(b), NEW m \in DOMAIN b, NEW n \in DOMAIN b
    PROVE  LET c == [b EXCEPT ![m].list = Append(b[m].list, n)]
           IN  TreeOK(c) /\ Grown(b, c)
<1> DEFINE list == Append(b[m].list, n)
           new == [b[m] EXCEPT !.list = list]
           c == [b EXCEPT ![m] = new]
<1>1. b \in Seq(Modules) /\ b[m] \in Modules /\ n \in Nat /\ b[m].list \in Seq(Nat)
  <2>1. b \in Seq(Modules)
    BY DEF TreeOK
  <2>2. b[m] \in Modules /\ DOMAIN b \subseteq Nat
    BY <2>1
  <2>3. n \in Nat /\ b[m].list \in Seq(Nat)
    BY <2>2 DEF Modules
  <2> QED
    BY <2>1, <2>2, <2>3
<1>2. list \in Seq(Nat) /\ \A i \in DOMAIN list : list[i] \in DOMAIN b
  <2>1. /\ list \in Seq(Nat)
        /\ \A i \in DOMAIN list :
              \/ i \in DOMAIN b[m].list /\ list[i] = b[m].list[i]
              \/ list[i] = n
    BY <1>1
  <2> QED
    BY <2>1 DEF TreeOK
<1>3. c = [b EXCEPT ![m].list = Append(b[m].list, n)]
  OBVIOUS
<1> HIDE DEF list
<1>4. new \in Modules /\ new.next = b[m].next /\ new.list = list /\ new.name = b[m].name
  BY <1>1, <1>2 DEF Modules
<1> HIDE DEF new
<1>5. /\ c \in Seq(Modules) /\ DOMAIN c = DOMAIN b
      /\ \A k \in DOMAIN b : c[k] = IF k = m THEN new ELSE b[k]
  BY <1>1, <1>4
<1> HIDE DEF c
<1>6. TreeOK(c) /\ Grown(b, c)
  BY <1>2, <1>4, <1>5 DEF TreeOK, Grown
<1> QED
  BY <1>3, <1>6
-----------------------------------------------------------------------------
(* The inductive invariant *)

Functions == {"getRoot", "getModuleList", "getModule", "getNextModule",
              "parameters", "positional", "named", "construct", "include",
              "return", "undefined"}

Shape ==
    /\ input \in Seq(InputTokens)
    /\ Idle(reader)
    /\ pc \in Functions
    /\ params \in Params
    /\ TreeOK(built)
    /\ CallsOK(stack, built)
    /\ deleted \subseteq Ids
    /\ returned \in Ids \cup {NULL}

Waits(fn) == stack # <<>> /\ Top.fn = fn

\* Each function is called by one that waits for it, or for what it gives.
Called ==
    /\ pc = "getModuleList" => Waits("list")
    /\ pc = "getNextModule" => Waits("chain")
    /\ pc = "include" => Waits("include")
    /\ pc = "named" => reader.t \in Names

\* Who returns no module has noted an error, but for the end of a chain.
Noted ==
    (pc = "return" /\ returned = NULL /\ ~Waits("chain")) => reader.hasErrors

IInv == Shape /\ Called /\ Noted

LEMMA NoParamsIsParams == NoParams \in Params
  BY DEF NoParams, Params

LEMMA IInvInit == Init => IInv
<1> SUFFICES ASSUME Init
             PROVE  IInv
  OBVIOUS
<1>1. input \in Seq(InputTokens) /\ Idle(reader)
  BY InputAssumption, NewReaderIdle DEF Init
<1>2. NoParams \in Params
  BY NoParamsIsParams
<1>3. New("NULL", NoParams) \in Modules /\ New("NULL", NoParams).next = NULL
      /\ New("NULL", NoParams).list = <<>>
  BY <1>2 DEF New, Modules, NoParams, Params, NULL
<1>4. TreeOK(built)
  <2> DEFINE m == New("NULL", NoParams)
  <2>1. m \in Modules /\ m.next = NULL /\ m.list = <<>> /\ built = <<m>>
    BY <1>3 DEF Init
  <2> HIDE DEF m
  <2>2. built \in Seq(Modules) /\ DOMAIN built = {1} /\ built[1] = m
    BY <2>1
  <2> QED
    BY <2>1, <2>2 DEF TreeOK, NullModule
<1>5. CallsOK(stack, built)
  BY DEF Init, CallsOK
<1> QED
  BY <1>1, <1>2, <1>4, <1>5 DEF Init, IInv, Shape, Called, Noted, Functions

\* A step that goes on in a function, or returns no module because of an error,
\* and leaves calls and modules alone.
LEMMA GoesOn ==
    ASSUME IInv, UNCHANGED <<input, stack, built, deleted>>,
           Idle(reader'), params' \in Params, returned' \in Ids \cup {NULL},
           pc' \in Functions \ {"getModuleList", "getNextModule", "include"},
           pc' = "named" => reader'.t \in Names,
           pc' = "return" => reader'.hasErrors
    PROVE  IInv'
<1>1. Shape'
  BY DEF IInv, Shape, Ids
<1> QED
  BY <1>1 DEF IInv, Called, Noted

\* A reader that stops has noted an error.
LEMMA StopNoted ==
    ASSUME NEW s, Good(s), ~s.ok
    PROVE  Resume(s).hasErrors
  BY ResumeGood DEF Good

LEMMA PrintErrorIdle ==
    ASSUME NEW s, Idle(s)
    PROVE  Idle(PrintError(s)) /\ PrintError(s).hasErrors
  BY IdleIsGood, PrintErrorGood, OkIsIdle DEF Later

LEMMA CannotOpenKeeps == IInv /\ CannotOpen => IInv'
<1> SUFFICES ASSUME IInv, CannotOpen
             PROVE  IInv'
  OBVIOUS
<1> DEFINE r == [reader EXCEPT !.pos = Len(reader.text) + 1]
<1>1. Idle(r)
  <2>0. reader \in Readers
    BY DEF IInv, Shape, Idle
  <2>a. reader.text \in Seq(InputTokens)
    BY <2>0 DEF Readers
  <2>1. reader \in Readers /\ Len(reader.text) \in Nat
    BY <2>0, <2>a
  <2>2. Len(reader.text) + 1 \in Nat /\ Len(reader.text) + 1 \in 1..(Len(reader.text) + 1)
    BY <2>1
  <2>3. r \in Readers /\ r.text = reader.text /\ r.pos = Len(reader.text) + 1
    BY <2>1, <2>2 DEF Readers
  <2> QED
    BY <2>2, <2>3 DEF Idle
<1>2. reader' = PrintError(r)
  BY DEF CannotOpen
<1> HIDE DEF r
<1> QED
  BY <1>1, <1>2, PrintErrorIdle, GoesOn DEF CannotOpen, Return, IInv, Shape, Functions

LEMMA UnexpectedKeeps == IInv /\ Unexpected => IInv'
<1> SUFFICES ASSUME IInv, Unexpected
             PROVE  IInv'
  OBVIOUS
<1>1. Idle(reader') /\ reader'.hasErrors
  BY PrintErrorIdle DEF Unexpected, IInv, Shape
<1> QED
  BY <1>1, GoesOn DEF Unexpected, Return, IInv, Shape, Functions

LEMMA IdentifierKeeps == IInv /\ Identifier => IInv'
<1> SUFFICES ASSUME IInv, Identifier
             PROVE  IInv'
  OBVIOUS
<1>1. Idle(reader) /\ Good(Read(reader))
  BY IdleIsGood, ReadGood DEF IInv, Shape, Later
<1>2. Idle(reader') /\ (~Read(reader).ok => reader'.hasErrors)
  BY <1>1, ResumeGood, StopNoted DEF Identifier
<1>3. reader.t \in Names
  BY <1>1, IdentifierIsName DEF Identifier, Idle, Readers
<1>4. Place \in Nat
  BY <1>1 DEF Place, Idle, Readers
<1>5. params' \in Params
  BY <1>3, <1>4, NoParamsIsParams DEF Identifier, Params
<1> QED
  BY <1>2, <1>5, GoesOn DEF Identifier, Return, IInv, Shape, Functions

LEMMA UndefinedKeeps == IInv /\ (StatsOutOfRange \/ DeletedTwice \/ UsedDeleted) => IInv'
  BY GoesOn DEF StatsOutOfRange, DeletedTwice, UsedDeleted, IInv, Shape, Functions
-----------------------------------------------------------------------------
(* Parameters *)

LEMMA EndParametersKeeps ==
    ASSUME IInv, NEW s, Good(s), EndParameters(s), params' \in Params,
           UNCHANGED <<input, stack, built, deleted>>
    PROVE  IInv'
<1> DEFINE behind == Read(Resume(s))
<1>1. Good(behind)
  BY ResumeGood, IdleIsGood, ReadGood DEF Later
<1>2. /\ reader' = Resume(behind)
      /\ IF behind.ok THEN pc' = "construct" /\ UNCHANGED returned ELSE Return(NULL)
  BY DEF EndParameters
<1> HIDE DEF behind
<1>3. Idle(reader') /\ (~behind.ok => reader'.hasErrors)
  BY <1>1, <1>2, ResumeGood, StopNoted
<1> QED
  BY <1>2, <1>3, GoesOn DEF Return, IInv, Shape, Functions

LEMMA TextIsText ==
    ASSUME NEW t
    PROVE  Text(t) \in Texts
  BY DEF Text, Texts

LEMMA TakePositionalKeeps ==
    ASSUME IInv, NEW s, Good(s), TakePositional(s),
           UNCHANGED <<input, stack, built, deleted>>
    PROVE  IInv'
<1> DEFINE behind == Read(s)
<1>1. Good(behind)
  BY ReadGood DEF Later
<1>2. params' \in Params
  <2>1. params \in Params /\ Text(s.t) \in Texts
    BY TextIsText DEF IInv, Shape
  <2>2. params' = [params EXCEPT !.positional = Append(params.positional, Text(s.t))]
    BY <2>1 DEF TakePositional, Params
  <2>3. params.positional \in Seq(Texts)
    BY <2>1 DEF Params
  <2>4. Append(params.positional, Text(s.t)) \in Seq(Texts)
    BY <2>1, <2>3
  <2> QED
    BY <2>1, <2>2, <2>4 DEF Params
<1>3. CASE behind.ok
  <2>1. reader' = behind /\ pc' = "positional" /\ UNCHANGED returned
    BY <1>3 DEF TakePositional
  <2>2. Idle(reader')
    BY <1>1, <1>3, <2>1, OkIsIdle
  <2> QED
    BY <1>2, <2>1, <2>2, GoesOn DEF IInv, Shape, Functions
<1>4. CASE ~behind.ok
  <2>1. EndParameters(behind)
    BY <1>4 DEF TakePositional
  <2> QED
    BY <1>1, <1>2, <2>1, EndParametersKeeps
<1> QED
  BY <1>3, <1>4

LEMMA CallNamedKeeps ==
    ASSUME IInv, NEW s, Good(s), s.ok, Type(s.t) = "IDENTIFIER", CallNamed(s),
           UNCHANGED <<input, stack, built, deleted>>
    PROVE  IInv'
<1>1. Idle(s) /\ s.t \in Names
  BY OkIsIdle, IdentifierIsName DEF Good, States
<1> QED
  BY <1>1, GoesOn DEF CallNamed, IInv, Shape, Functions

\* A name has been read without an error.
LEMMA NameIsOk ==
    ASSUME NEW s, Good(s), s.ok, Type(Read(s).t) = "IDENTIFIER"
    PROVE  Read(s).ok
<1>1. Read(s).t \in Tokens
  BY ReadGood DEF Later, Good, States
<1> QED
  BY <1>1, IdentifierIsName, ReadKnown

LEMMA ReadParametersKeeps == IInv /\ ReadParameters => IInv'
<1> SUFFICES ASSUME IInv, ReadParameters
             PROVE  IInv'
  OBVIOUS
<1> DEFINE s == Read(reader)
<1>1. Good(reader) /\ reader.ok /\ Good(s)
  BY IdleIsGood, ReadGood DEF IInv, Shape, Later
<1>2. Type(s.t) = "IDENTIFIER" => s.ok
  BY <1>1, NameIsOk
<1>3. /\ CASE Type(s.t) = "STRING" -> TakePositional(s)
           [] Type(s.t) = "IDENTIFIER" -> CallNamed(s)
           [] OTHER -> EndParameters(s) /\ UNCHANGED params
      /\ UNCHANGED <<input, stack, built, deleted>>
  BY DEF ReadParameters
<1> HIDE DEF s
<1>4. params \in Params
  BY DEF IInv, Shape
<1>5. CASE Type(s.t) = "STRING"
  BY <1>1, <1>3, <1>5, TakePositionalKeeps
<1>6. CASE Type(s.t) = "IDENTIFIER"
  BY <1>1, <1>2, <1>3, <1>6, CallNamedKeeps
<1>7. CASE Type(s.t) \notin {"STRING", "IDENTIFIER"}
  BY <1>1, <1>3, <1>4, <1>7, EndParametersKeeps
<1> QED
  BY <1>5, <1>6, <1>7

LEMMA PositionalKeeps == IInv /\ Positional => IInv'
<1> SUFFICES ASSUME IInv, Positional
             PROVE  IInv'
  OBVIOUS
<1> DEFINE s == IF reader.t = "," THEN Read(reader) ELSE reader
<1>1. Good(reader) /\ reader.ok /\ Good(s)
  BY IdleIsGood, ReadGood DEF IInv, Shape, Later
<1>2. Type(s.t) = "IDENTIFIER" => s.ok
  BY <1>1, NameIsOk
<1>3. /\ CASE Type(s.t) = "IDENTIFIER" -> CallNamed(s)
           [] reader.t = "," /\ Type(s.t) = "STRING" -> TakePositional(s)
           [] reader.t # "," \/ s.t = ")" -> EndParameters(s) /\ UNCHANGED params
           [] OTHER -> EndParameters(Expect(s, "STRING")) /\ UNCHANGED params
      /\ UNCHANGED <<input, stack, built, deleted>>
  BY DEF Positional
<1> HIDE DEF s
<1>4. params \in Params /\ Good(Expect(s, "STRING"))
  BY <1>1, ExpectGood DEF IInv, Shape, Later
<1>5. \/ Type(s.t) = "IDENTIFIER" /\ CallNamed(s)
      \/ TakePositional(s)
      \/ EndParameters(s) /\ UNCHANGED params
      \/ EndParameters(Expect(s, "STRING")) /\ UNCHANGED params
  BY <1>3
<1>6. CASE Type(s.t) = "IDENTIFIER" /\ CallNamed(s)
  BY <1>1, <1>2, <1>3, <1>6, CallNamedKeeps
<1>7. CASE TakePositional(s)
  BY <1>1, <1>3, <1>7, TakePositionalKeeps
<1>8. CASE EndParameters(s) /\ UNCHANGED params
  BY <1>1, <1>3, <1>4, <1>8, EndParametersKeeps
<1>9. CASE EndParameters(Expect(s, "STRING")) /\ UNCHANGED params
  BY <1>3, <1>4, <1>9, EndParametersKeeps
<1> QED
  BY <1>5, <1>6, <1>7, <1>8, <1>9

LEMMA NamedKeeps == IInv /\ Named => IInv'
<1> SUFFICES ASSUME IInv, Named
             PROVE  IInv'
  OBVIOUS
<1> DEFINE equals == Need(reader, "=")
           value == Need(equals, "STRING")
           s == Read(value)
           id == Need(s, "IDENTIFIER")
           named == Set(params.named, reader.t, Text(value.t))
<1>1. Good(reader) /\ reader.t \in Names /\ params \in Params
  BY IdleIsGood DEF IInv, Shape, Called, Named
<1>2. Good(equals) /\ Good(value) /\ Good(s) /\ Good(id)
  BY <1>1, NeedGood, ReadGood DEF Later
<1>3. id.ok => Type(id.t) = "IDENTIFIER"
  BY <1>2, NeedGives
<1>4. /\ params' = IF value.ok THEN [params EXCEPT !.named = named] ELSE params
      /\ CASE s.ok /\ s.t = "," /\ id.ok -> reader' = id /\ UNCHANGED <<pc, returned>>
           [] s.ok /\ s.t = "," /\ ~id.ok -> EndParameters(id)
           [] OTHER -> EndParameters(s)
      /\ UNCHANGED <<input, stack, built, deleted>> /\ pc = "named"
  BY <1>1 DEF Named, Params
<1>5. named \in SUBSET (Names \X Texts)
  <2>1. params.named \in SUBSET (Names \X Texts)
    BY <1>1 DEF Params
  <2>2. <<reader.t, Text(value.t)>> \in Names \X Texts
    BY <1>1, TextIsText
  <2> QED
    BY <2>1, <2>2 DEF Set
<1> HIDE DEF equals, value, s, id, named
<1>6. params' \in Params
  BY <1>1, <1>4, <1>5 DEF Params
<1>7. \/ id.ok /\ reader' = id /\ UNCHANGED <<pc, returned>>
      \/ EndParameters(id)
      \/ EndParameters(s)
  BY <1>4
<1>8. CASE id.ok /\ reader' = id /\ UNCHANGED <<pc, returned>>
  <2>1. Idle(reader') /\ reader'.t \in Names
    BY <1>2, <1>3, <1>8, OkIsIdle, IdentifierIsName DEF Good, States
  <2> QED
    BY <1>4, <1>6, <1>8, <2>1, GoesOn DEF IInv, Shape, Functions
<1>9. CASE EndParameters(id)
  BY <1>2, <1>4, <1>6, <1>9, EndParametersKeeps
<1>10. CASE EndParameters(s)
  BY <1>2, <1>4, <1>6, <1>10, EndParametersKeeps
<1> QED
  BY <1>7, <1>8, <1>9, <1>10
-----------------------------------------------------------------------------
(* Lists, blocks and chains *)

LEMMA NewIsModule ==
    ASSUME NEW name \in Names \cup {"", "[", "[[", "ModuleList", "NULL"}, NEW p \in Params
    PROVE  /\ New(name, p) \in Modules /\ New(name, p).name = name
           /\ New(name, p).next = NULL /\ New(name, p).list = <<>>
<1>1. NULL \in Nat
  BY DEF NULL
<1>2. <<>> \in Seq(Nat)
  BY EmptySeq
<1> QED
  BY <1>1, <1>2 DEF New, Modules, Params

\* What has been built is there still.
LEMMA IdsGrow ==
    ASSUME Shape, Grown(built, built')
    PROVE  /\ CallsOK(stack, built')
           /\ deleted \subseteq Ids' /\ returned \in Ids' \cup {NULL} /\ Ids \subseteq Ids'
<1>1. CallsOK(stack, built')
  BY CallsGrow DEF Shape
<1> QED
  BY <1>1 DEF Shape, Grown, Ids

\* A module is made, and the rest of its chain is read.
LEMMA MakeKeeps ==
    ASSUME IInv, UNCHANGED <<input, params, deleted, returned>>, Idle(reader'),
           NEW m \in Modules, m.next = NULL, m.list = <<>>,
           built' = Append(built, m), CallNextModule(Len(built) + 1, stack)
    PROVE  IInv'
<1> DEFINE f == [fn |-> "chain", me |-> Len(built) + 1]
<1>1. /\ TreeOK(built') /\ Grown(built, built') /\ Len(built) + 1 \in DOMAIN built'
  BY GrowTree DEF IInv, Shape
<1>2. /\ CallsOK(stack, built') /\ deleted \subseteq Ids' /\ returned \in Ids' \cup {NULL}
  BY <1>1, IdsGrow DEF IInv
<1>3. FrameOK(f, built')
  <2>1. Len(built) \in Nat
    BY DEF IInv, Shape, TreeOK
  <2> QED
    BY <1>1, <2>1 DEF FrameOK, Frames
<1>4. stack' = Append(stack, f) /\ pc' = "getNextModule"
  BY DEF CallNextModule
<1> HIDE DEF f
<1>5. CallsOK(stack', built') /\ stack' # <<>> /\ Top' = f
  BY <1>2, <1>3, <1>4, PushCall DEF Top
<1>6. Shape'
  BY <1>1, <1>2, <1>4, <1>5 DEF IInv, Shape, Functions
<1> QED
  BY <1>4, <1>5, <1>6 DEF IInv, Called, Noted, Waits, f

\* A list is made, to be filled.
LEMMA FillKeeps ==
    ASSUME IInv, UNCHANGED <<input, params, deleted, returned>>, Idle(reader'),
           NEW frames, CallsOK(frames, built), CallModuleList(frames)
    PROVE  IInv'
<1> DEFINE f == [fn |-> "list", me |-> Len(built) + 1]
           m == New("ModuleList", NoParams)
<1>1. m \in Modules /\ m.name = "ModuleList" /\ m.next = NULL /\ m.list = <<>>
  BY NewIsModule, NoParamsIsParams
<1>2. built' = Append(built, m) /\ stack' = Append(frames, f) /\ pc' = "getModuleList"
  BY DEF CallModuleList, FillList
<1> HIDE DEF m
<1>3. /\ TreeOK(built') /\ Grown(built, built')
      /\ Len(built) + 1 \in DOMAIN built' /\ built'[Len(built) + 1] = m
  BY <1>1, <1>2, GrowTree DEF IInv, Shape
<1>4. /\ deleted \subseteq Ids' /\ returned \in Ids' \cup {NULL} /\ CallsOK(frames, built')
  BY <1>3, IdsGrow, CallsGrow DEF IInv
<1>5. FrameOK(f, built')
  <2>1. Len(built) \in Nat
    BY DEF IInv, Shape, TreeOK
  <2> QED
    BY <1>1, <1>3, <2>1 DEF FrameOK, Frames
<1> HIDE DEF f
<1>6. CallsOK(stack', built') /\ stack' # <<>> /\ Top' = f
  BY <1>2, <1>4, <1>5, PushCall DEF Top
<1>7. Shape'
  BY <1>2, <1>3, <1>4, <1>6 DEF IInv, Shape, Functions
<1> QED
  BY <1>2, <1>6, <1>7 DEF IInv, Called, Noted, Waits, f

LEMMA ConstructKeeps == IInv /\ Construct => IInv'
<1> SUFFICES ASSUME IInv, Construct
             PROVE  IInv'
  OBVIOUS
<1> DEFINE name == IF reader.hasErrors THEN "fake" ELSE params.name
<1>1. params \in Params /\ Idle(reader) /\ params.name \in Names \cup {""}
  BY DEF IInv, Shape, Params
<1>2. name \in Names \cup {""}
  BY <1>1, NameAssumption
<1>3. \/ /\ built' = Append(built, New(name, params))
         /\ CallNextModule(Len(built) + 1, stack)
         /\ UNCHANGED <<reader, returned>>
      \/ /\ reader' = PrintError(reader)
         /\ Return(NULL)
         /\ UNCHANGED <<stack, built>>
  BY DEF Construct
<1>4. UNCHANGED <<input, params, deleted>>
  BY DEF Construct
<1> HIDE DEF name
<1>5. CASE /\ built' = Append(built, New(name, params))
           /\ CallNextModule(Len(built) + 1, stack)
           /\ UNCHANGED <<reader, returned>>
  <2> DEFINE m == New(name, params)
  <2>1. m \in Modules /\ m.next = NULL /\ m.list = <<>>
    BY <1>1, <1>2, NewIsModule
  <2> HIDE DEF m
  <2> QED
    BY <1>1, <1>4, <1>5, <2>1, MakeKeeps DEF m
<1>6. CASE /\ reader' = PrintError(reader)
           /\ Return(NULL)
           /\ UNCHANGED <<stack, built>>
  BY <1>1, <1>4, <1>6, PrintErrorIdle, GoesOn DEF Return, Functions
<1> QED
  BY <1>3, <1>5, <1>6

LEMMA GetRootKeeps == IInv /\ GetRoot => IInv'
<1> SUFFICES ASSUME IInv, GetRoot
             PROVE  IInv'
  OBVIOUS
<1>1. Idle(reader) /\ Good(Read(reader)) /\ CallsOK(stack, built)
  BY IdleIsGood, ReadGood DEF IInv, Shape, Later
<1>2. Idle(reader') /\ (~Read(reader).ok => reader'.hasErrors)
  BY <1>1, ResumeGood, StopNoted DEF GetRoot
<1>3. CASE Read(reader).ok
  BY <1>1, <1>2, <1>3, FillKeeps DEF GetRoot
<1>4. CASE ~Read(reader).ok
  BY <1>2, <1>4, GoesOn DEF GetRoot, Return, IInv, Shape, Functions
<1> QED
  BY <1>3, <1>4

LEMMA BlockKeeps == IInv /\ Block => IInv'
<1> SUFFICES ASSUME IInv, Block
             PROVE  IInv'
  OBVIOUS
<1> DEFINE frames == Append(stack, [fn |-> "block", me |-> NULL])
<1>1. Idle(reader) /\ Good(Read(reader)) /\ CallsOK(stack, built)
  BY IdleIsGood, ReadGood DEF IInv, Shape, Later
<1>2. Idle(reader') /\ (~Read(reader).ok => reader'.hasErrors)
  BY <1>1, ResumeGood, StopNoted DEF Block
<1>3. FrameOK([fn |-> "block", me |-> NULL], built)
  BY DEF FrameOK, Frames, NULL
<1>4. CallsOK(frames, built)
  BY <1>1, <1>3, PushCall
<1>5. CASE Read(reader).ok
  BY <1>2, <1>4, <1>5, FillKeeps DEF Block
<1>6. CASE ~Read(reader).ok
  BY <1>2, <1>6, GoesOn DEF Block, Return, IInv, Shape, Functions
<1> QED
  BY <1>5, <1>6

LEMMA ServerOrPathKeeps == IInv /\ ServerOrPath => IInv'
<1> SUFFICES ASSUME IInv, ServerOrPath
             PROVE  IInv'
  OBVIOUS
<1>1. PICK first \in {Read(reader)} :
        \E name \in {IF first.t = "[" THEN Read(first) ELSE first} :
        \E bracket \in {Need(name, "]")} :
        \E s \in {IF first.t = "[" THEN Need(bracket, "]") ELSE bracket} :
        \E behind \in {Read(Resume(s))} :
          /\ reader' = Resume(behind)
          /\ built' =
               IF ~s.ok THEN built
               ELSE Append(built, New(IF s.hasErrors THEN "fake"
                                      ELSE IF first.t = "[" THEN "[[" ELSE "[",
                                      [NoParams EXCEPT !.positional = <<Text(name.t)>>,
                                                       !.at = Place]))
          /\ IF s.ok /\ behind.ok
             THEN CallNextModule(Len(built) + 1, stack) /\ UNCHANGED returned
             ELSE Return(NULL) /\ UNCHANGED stack
  BY DEF ServerOrPath
<1>2. Good(reader) /\ Idle(reader) /\ Good(first)
  BY <1>1, IdleIsGood, ReadGood DEF IInv, Shape, Later
<1>3. PICK name \in {IF first.t = "[" THEN Read(first) ELSE first} :
        \E bracket \in {Need(name, "]")} :
        \E s \in {IF first.t = "[" THEN Need(bracket, "]") ELSE bracket} :
        \E behind \in {Read(Resume(s))} :
          /\ reader' = Resume(behind)
          /\ built' =
               IF ~s.ok THEN built
               ELSE Append(built, New(IF s.hasErrors THEN "fake"
                                      ELSE IF first.t = "[" THEN "[[" ELSE "[",
                                      [NoParams EXCEPT !.positional = <<Text(name.t)>>,
                                                       !.at = Place]))
          /\ IF s.ok /\ behind.ok
             THEN CallNextModule(Len(built) + 1, stack) /\ UNCHANGED returned
             ELSE Return(NULL) /\ UNCHANGED stack
  BY <1>1
<1>4. Good(name)
  BY <1>2, <1>3, ReadGood DEF Later
<1> DEFINE p == [NoParams EXCEPT !.positional = <<Text(name.t)>>, !.at = Place]
<1>5. PICK s : \E kind \in {"fake", "[", "[["} : \E behind \in {Read(Resume(s))} :
        /\ Good(s)
        /\ reader' = Resume(behind)
        /\ built' = IF ~s.ok THEN built ELSE Append(built, New(kind, p))
        /\ IF s.ok /\ behind.ok
           THEN CallNextModule(Len(built) + 1, stack) /\ UNCHANGED returned
           ELSE Return(NULL) /\ UNCHANGED stack
  <2>1. Good(Need(name, "]"))
    BY <1>4, NeedGood DEF Later
  <2>2. Good(Need(Need(name, "]"), "]"))
    BY <2>1, NeedGood DEF Later
  <2> HIDE DEF p
  <2>3. PICK s : \E behind \in {Read(Resume(s))} :
          /\ Good(s)
          /\ reader' = Resume(behind)
          /\ built' =
               IF ~s.ok THEN built
               ELSE Append(built, New(IF s.hasErrors THEN "fake"
                                      ELSE IF first.t = "[" THEN "[[" ELSE "[", p))
          /\ IF s.ok /\ behind.ok
             THEN CallNextModule(Len(built) + 1, stack) /\ UNCHANGED returned
             ELSE Return(NULL) /\ UNCHANGED stack
    BY <1>3, <2>1, <2>2 DEF p
  <2> DEFINE kind == IF s.hasErrors THEN "fake" ELSE IF first.t = "[" THEN "[[" ELSE "["
  <2>4. kind \in {"fake", "[", "[["}
    OBVIOUS
  <2> QED
    BY <2>3, <2>4
<1> DEFINE behind == Read(Resume(s))
<1>6. Good(s) /\ Good(behind)
  BY <1>5, ResumeGood, IdleIsGood, ReadGood DEF Later
<1>7. Idle(reader') /\ reader' = Resume(behind)
  BY <1>5, <1>6, ResumeGood
<1>8. p \in Params
  <2>1. Place \in Nat
    BY <1>2 DEF Place, Idle, Readers
  <2>2. <<Text(name.t)>> \in Seq(Texts)
    BY TextIsText
  <2> QED
    BY <2>1, <2>2, NoParamsIsParams DEF Params
<1> HIDE DEF p, behind
<1>9. PICK kind \in {"fake", "[", "[["} :
        /\ built' = IF ~s.ok THEN built ELSE Append(built, New(kind, p))
        /\ IF s.ok /\ behind.ok
           THEN CallNextModule(Len(built) + 1, stack) /\ UNCHANGED returned
           ELSE Return(NULL) /\ UNCHANGED stack
  BY <1>5 DEF behind
<1> DEFINE m == New(kind, p)
<1>10. m \in Modules /\ m.next = NULL /\ m.list = <<>>
  BY <1>8, NameAssumption, NewIsModule
<1>11. UNCHANGED <<input, params, deleted>>
  BY DEF ServerOrPath
<1> HIDE DEF m
<1>12. CASE s.ok /\ behind.ok
  BY <1>7, <1>9, <1>10, <1>11, <1>12, MakeKeeps DEF m
<1>13. CASE ~s.ok \/ ~behind.ok
  <2>1. reader'.hasErrors
    <3>1. CASE ~behind.ok
      BY <1>6, <1>7, <3>1, StopNoted
    <3>2. CASE ~s.ok
      <4>1. Resume(s).hasErrors /\ Good(Resume(s))
        BY <1>6, <3>2, StopNoted, ResumeGood, IdleIsGood
      <4>2. behind.hasErrors
        BY <4>1, ReadGood DEF Later, behind
      <4> QED
        BY <1>6, <1>7, <4>2, ResumeGood
    <3> QED
      BY <1>13, <3>1, <3>2
  <2>2. pc' = "return" /\ returned' = NULL /\ UNCHANGED stack
    BY <1>9, <1>13 DEF Return
  <2>3. TreeOK(built') /\ Grown(built, built')
    <3>1. CASE s.ok
      BY <1>9, <1>10, <3>1, GrowTree DEF m, IInv, Shape
    <3>2. CASE ~s.ok
      BY <1>9, <3>2 DEF IInv, Shape, Grown
    <3> QED
      BY <3>1, <3>2
  <2>4. CallsOK(stack', built') /\ deleted' \subseteq Ids'
    BY <1>11, <2>2, <2>3, IdsGrow DEF IInv
  <2>5. Shape'
    BY <1>7, <1>11, <2>2, <2>3, <2>4 DEF IInv, Shape, Functions
  <2> QED
    BY <2>1, <2>2, <2>5 DEF IInv, Called, Noted
<1> QED
  BY <1>12, <1>13

LEMMA GetModuleListKeeps == IInv /\ GetModuleList => IInv'
<1> SUFFICES ASSUME IInv, GetModuleList
             PROVE  IInv'
  OBVIOUS
<1>1. stack # <<>> /\ Top.fn = "list" /\ CallsOK(stack, built)
  BY DEF GetModuleList, IInv, Called, Waits, Shape
<1>2. CASE reader.t \in {"}", "END_OF_FILE"}
  <2>1. Top.me \in Ids /\ Top.me # NULL
    <3>1. FrameOK(Top, built)
      BY <1>1, PopCall DEF Top
    <3>2. Top.me \in Ids /\ built \in Seq(Modules)
      BY <1>1, <3>1 DEF FrameOK, Ids, IInv, Shape, TreeOK
    <3> QED
      BY <3>2 DEF Ids, NULL
  <2>2. CallsOK(Pop, built)
    BY <1>1, PopCall DEF Pop
  <2>3. Shape'
    BY <1>2, <2>1, <2>2 DEF GetModuleList, Return, IInv, Shape, Ids, Functions
  <2>4. pc' = "return" /\ returned' # NULL
    BY <1>2, <2>1 DEF GetModuleList, Return
  <2> QED
    BY <2>3, <2>4 DEF IInv, Called, Noted
<1>3. CASE reader.t \notin {"}", "END_OF_FILE"}
  BY <1>3, GoesOn DEF GetModuleList, IInv, Shape, Functions
<1> QED
  BY <1>2, <1>3

LEMMA ListTakesKeeps == IInv /\ ListTakes => IInv'
<1> SUFFICES ASSUME IInv, ListTakes
             PROVE  IInv'
  OBVIOUS
<1>1. /\ stack # <<>> /\ Top.fn = "list" /\ returned # NULL /\ pc' = "getModuleList"
      /\ UNCHANGED <<input, reader, stack, params, deleted, returned>>
  BY DEF ListTakes, ListPuts
<1>2. Top.me \in DOMAIN built /\ returned \in DOMAIN built
  <2>1. FrameOK(Top, built)
    BY <1>1, PopCall DEF Top, IInv, Shape
  <2> QED
    BY <1>1, <2>1 DEF FrameOK, IInv, Shape, Ids
<1>3. TreeOK(built') /\ Grown(built, built')
  <2>1. CASE returned = NullModule
    BY <2>1 DEF ListTakes, ListPuts, IInv, Shape, Grown
  <2>2. CASE returned # NullModule
    BY <1>2, <2>2, FillTree DEF ListTakes, ListPuts, IInv, Shape
  <2> QED
    BY <2>1, <2>2
<1>4. CallsOK(stack, built') /\ deleted \subseteq Ids' /\ returned \in Ids' \cup {NULL}
  BY <1>3, IdsGrow DEF IInv
<1>5. Shape'
  BY <1>1, <1>3, <1>4 DEF IInv, Shape, Functions
<1>6. Waits("list")'
  BY <1>1 DEF Waits, Top
<1> QED
  BY <1>1, <1>5, <1>6 DEF IInv, Called, Noted

\* A call ends, and a module or an error is returned.
LEMMA ReturnKeeps ==
    ASSUME IInv, UNCHANGED <<input, params>>, Idle(reader'),
           stack # <<>>, stack' = Pop, TreeOK(built'), Grown(built, built'),
           deleted' \subseteq Ids', NEW m \in Ids \cup {NULL},
           pc' = "return", returned' = m, m = NULL => reader'.hasErrors
    PROVE  IInv'
<1>1. CallsOK(Pop, built) /\ CallsOK(Pop, built')
  BY PopCall, CallsGrow DEF Pop, IInv, Shape
<1>2. Shape'
  BY <1>1, IdsGrow DEF IInv, Shape, Functions
<1> QED
  BY <1>2 DEF IInv, Called, Noted

LEMMA SameTree == ASSUME Shape PROVE Grown(built, built)
  BY DEF Grown

LEMMA DropListKeeps == IInv /\ DropList => IInv'
<1> SUFFICES ASSUME IInv, DropList
             PROVE  IInv'
  OBVIOUS
<1>1. reader.hasErrors
  BY DEF DropList, IInv, Noted, Waits
<1> QED
  BY <1>1, ReturnKeeps, SameTree DEF DropList, IInv, Shape, Ids

LEMMA ChainKeeps == IInv /\ Chain => IInv'
<1> SUFFICES ASSUME IInv, Chain
             PROVE  IInv'
  OBVIOUS
<1>1. /\ stack # <<>> /\ Top.fn = "chain"
      /\ built' = [built EXCEPT ![Top.me].next = returned]
      /\ Return(Top.me) /\ stack' = Pop
      /\ UNCHANGED <<input, reader, params, deleted>>
  BY DEF Chain, EndChain
<1>2. Top.me \in Ids /\ Top.me # NULL /\ returned \in Ids \cup {NULL}
  <2>1. FrameOK(Top, built)
    BY <1>1, PopCall DEF Top, IInv, Shape
  <2>2. Top.me \in Ids /\ built \in Seq(Modules)
    BY <1>1, <2>1 DEF FrameOK, Ids, IInv, Shape, TreeOK
  <2> QED
    BY <2>2 DEF Ids, NULL, IInv, Shape
<1>3. TreeOK(built') /\ Grown(built, built')
  BY <1>1, <1>2, LinkTree DEF Ids, IInv, Shape
<1>4. deleted' \subseteq Ids'
  BY <1>1, <1>3, IdsGrow DEF IInv
<1>5. Idle(reader')
  BY <1>1 DEF IInv, Shape
<1> QED
  BY <1>1, <1>2, <1>3, <1>4, <1>5, ReturnKeeps DEF Return

LEMMA GetNextModuleKeeps == IInv /\ GetNextModule => IInv'
<1> SUFFICES ASSUME IInv, GetNextModule
             PROVE  IInv'
  OBVIOUS
<1> DEFINE arrow == Need(reader, ">")
           behind == Read(arrow)
<1>1. Idle(reader) /\ Good(reader) /\ Waits("chain")
  BY IdleIsGood DEF GetNextModule, IInv, Shape, Called
<1>2. Good(behind) /\ Good(Read(reader))
  BY <1>1, NeedGood, ReadGood DEF Later
<1>3. /\ CASE reader.t = ";" -> reader' = Resume(Read(reader)) /\ Return(NULL)
           [] reader.t = "-" ->
                /\ reader' = Resume(behind)
                /\ IF behind.ok THEN pc' = "getModule" /\ UNCHANGED returned
                   ELSE Return(NULL)
           [] OTHER -> reader' = PrintError(reader) /\ Return(NULL)
      /\ UNCHANGED <<input, stack, params, built, deleted>>
  BY DEF GetNextModule
<1> HIDE DEF arrow, behind
<1>4. Idle(reader')
  BY <1>1, <1>2, <1>3, ResumeGood, PrintErrorIdle
<1>5. \/ pc' = "getModule" /\ UNCHANGED returned
      \/ pc' = "return" /\ returned' = NULL
  BY <1>3 DEF Return
<1>6. Shape'
  BY <1>3, <1>4, <1>5 DEF IInv, Shape, Ids, Functions
<1>7. Waits("chain")'
  BY <1>1, <1>3 DEF Waits, Top
<1> QED
  BY <1>5, <1>6, <1>7 DEF IInv, Called, Noted

\* What m reaches has been built.
LEMMA UnderIsBuilt == ASSUME NEW m PROVE Under(m) \subseteq Ids
  BY DEF Under, Ids

\* The rest of the chain of a module is read.
LEMMA CallNextKeeps ==
    ASSUME IInv, UNCHANGED <<input, params, built, deleted, returned>>, Idle(reader'),
           NEW m \in Ids, NEW frames, CallsOK(frames, built), CallNextModule(m, frames)
    PROVE  IInv'
<1> DEFINE f == [fn |-> "chain", me |-> m]
<1>1. FrameOK(f, built)
  <2>1. m \in Nat
    BY DEF IInv, Shape, TreeOK, Ids
  <2> QED
    BY <2>1 DEF FrameOK, Frames, Ids
<1>2. stack' = Append(frames, f) /\ pc' = "getNextModule"
  BY DEF CallNextModule
<1> HIDE DEF f
<1>3. CallsOK(stack', built') /\ stack' # <<>> /\ Top' = f
  BY <1>1, <1>2, PushCall DEF Top
<1>4. Shape'
  BY <1>2, <1>3 DEF IInv, Shape, Ids, Functions
<1> QED
  BY <1>2, <1>3, <1>4 DEF IInv, Called, Noted, Waits, f

LEMMA EndBlockKeeps == IInv /\ EndBlock => IInv'
<1> SUFFICES ASSUME IInv, EndBlock
             PROVE  IInv'
  OBVIOUS
<1>1. /\ stack # <<>> /\ Top.fn = "block" /\ pc = "return"
      /\ reader' = Resume(Read(reader))
      /\ UNCHANGED <<input, params, built, deleted>>
  BY DEF EndBlock
<1>2. Good(reader) /\ Good(Read(reader))
  BY IdleIsGood, ReadGood DEF IInv, Shape, Later
<1>3. Idle(reader') /\ (~Read(reader).ok => reader'.hasErrors)
  BY <1>1, <1>2, ResumeGood, StopNoted
<1>4. returned = NULL => reader'.hasErrors
  <2>1. returned = NULL => reader.hasErrors
    BY <1>1 DEF IInv, Noted, Waits
  <2>2. reader.hasErrors => Read(reader).hasErrors
    BY <1>2, ReadGood DEF Later
  <2> QED
    BY <1>1, <1>2, <2>1, <2>2, ResumeGood
<1>5. CASE Read(reader).ok /\ returned # NULL
  <2>1. returned \in Ids /\ CallsOK(Pop, built)
    BY <1>1, <1>5, PopCall DEF Pop, IInv, Shape
  <2>2. CallNextModule(returned, Pop) /\ UNCHANGED returned
    BY <1>5 DEF EndBlock
  <2> QED
    BY <1>1, <1>3, <2>1, <2>2, CallNextKeeps
<1>6. CASE ~(Read(reader).ok /\ returned # NULL)
  <2>1. Return(NULL) /\ stack' = Pop
    BY <1>6 DEF EndBlock
  <2>2. TreeOK(built') /\ Grown(built, built') /\ deleted' \subseteq Ids'
    BY <1>1, SameTree DEF IInv, Shape, Ids
  <2> QED
    BY <1>1, <1>3, <1>4, <1>6, <2>1, <2>2, ReturnKeeps DEF Return
<1> QED
  BY <1>5, <1>6

LEMMA UnbalancedBlockKeeps == IInv /\ UnbalancedBlock => IInv'
<1> SUFFICES ASSUME IInv, UnbalancedBlock
             PROVE  IInv'
  OBVIOUS
<1>1. /\ stack # <<>> /\ reader' = PrintError(reader)
      /\ pc' = "return" /\ returned' = NULL /\ stack' = Pop
      /\ deleted' = deleted \/ deleted' = deleted \cup Under(returned)
      /\ UNCHANGED <<input, params, built>>
  BY DEF UnbalancedBlock, DeleteBlock, Return
<1>2. Idle(reader') /\ reader'.hasErrors
  BY <1>1, PrintErrorIdle DEF IInv, Shape
<1>3. TreeOK(built') /\ Grown(built, built') /\ deleted' \subseteq Ids'
  BY <1>1, SameTree, UnderIsBuilt DEF IInv, Shape, Ids
<1> QED
  BY <1>1, <1>2, <1>3, ReturnKeeps

LEMMA ActivateKeeps == IInv /\ Activate => IInv'
<1> SUFFICES ASSUME IInv, Activate
             PROVE  IInv'
  OBVIOUS
<1>1. UNCHANGED <<input, params, built, deleted>>
  BY DEF Activate
<1>2. CASE CallNextModule(NullModule, stack) /\ UNCHANGED <<reader, returned>>
  <2>1. NullModule \in Ids
    BY DEF IInv, Shape, TreeOK, Ids
  <2> QED
    BY <1>1, <1>2, <2>1, CallNextKeeps DEF IInv, Shape
<1>3. CASE reader' = PrintError(reader) /\ Return(NULL) /\ UNCHANGED stack
  BY <1>1, <1>3, PrintErrorIdle, GoesOn DEF Return, IInv, Shape, Functions
<1> QED
  BY <1>2, <1>3 DEF Activate
-----------------------------------------------------------------------------
(* Includes *)

LEMMA IncludeKeeps == IInv /\ Include => IInv'
<1> SUFFICES ASSUME IInv, Include
             PROVE  IInv'
  OBVIOUS
<1> DEFINE m == New("Include", params)
<1>1. /\ params \in Params /\ params.name = "Include"
      /\ built' = Append(built, m) /\ pc' = "include"
      /\ UNCHANGED <<input, reader, params, deleted, returned>>
  BY DEF Include, IInv, Shape
<1>2. m \in Modules /\ m.name = "Include" /\ m.next = NULL /\ m.list = <<>>
  <2>1. params.name \in Names \cup {""}
    BY <1>1 DEF Params
  <2> QED
    BY <1>1, <2>1, NewIsModule
<1>3. PICK error \in BOOLEAN :
        stack' = Append(stack, [fn |-> "include", me |-> Len(built) + 1,
                                files |-> params.positional, error |-> error,
                                reader |-> reader])
  BY DEF Include
<1> DEFINE f == [fn |-> "include", me |-> Len(built) + 1,
                 files |-> params.positional, error |-> error, reader |-> reader]
<1> HIDE DEF m
<1>4. /\ TreeOK(built') /\ Grown(built, built')
      /\ Len(built) + 1 \in DOMAIN built' /\ built'[Len(built) + 1] = m
  BY <1>1, <1>2, GrowTree DEF IInv, Shape
<1>5. /\ CallsOK(stack, built') /\ deleted \subseteq Ids' /\ returned \in Ids' \cup {NULL}
  BY <1>4, IdsGrow DEF IInv
<1>6. FrameOK(f, built')
  <2>1. Len(built) + 1 \in Nat
    BY DEF IInv, Shape, TreeOK
  <2>2. params.positional \in Seq(Texts) /\ Idle(reader) /\ reader \in Readers
    BY <1>1 DEF Params, IInv, Shape, Idle
  <2>3. f \in Frames
    BY <2>1, <2>2 DEF Frames
  <2> QED
    BY <1>2, <1>4, <2>2, <2>3 DEF FrameOK
<1>7. f.fn = "include"
  OBVIOUS
<1> HIDE DEF f
<1>8. CallsOK(stack', built') /\ stack' # <<>> /\ Top' = f
  BY <1>3, <1>5, <1>6, PushCall DEF Top, f
<1>9. Shape'
  BY <1>1, <1>4, <1>5, <1>8 DEF IInv, Shape, Functions
<1> QED
  BY <1>1, <1>7, <1>8, <1>9 DEF IInv, Called, Noted, Waits

LEMMA IncludeFrame ==
    ASSUME IInv, Waits("include")
    PROVE  /\ Top.fn = "include" /\ Top.me \in Ids
           /\ Top.files \in Seq(Texts) /\ Top.error \in BOOLEAN
           /\ Top.reader \in Readers /\ Idle(Top.reader)
           /\ built[Top.me].name = "Include" /\ FrameOK(Top, built)
<1>1. FrameOK(Top, built) /\ Top.fn = "include"
  BY PopCall DEF Top, Waits, IInv, Shape
<1>2. Top \in [fn : {"include"}, me : Nat, files : Seq(Texts), error : BOOLEAN,
               reader : Readers]
  BY <1>1 DEF FrameOK, Frames
<1> QED
  BY <1>1, <1>2 DEF FrameOK, Ids

LEMMA IncludeFileKeeps == IInv /\ IncludeFile => IInv'
<1> SUFFICES ASSUME IInv, IncludeFile
             PROVE  IInv'
  OBVIOUS
<1> DEFINE f == [Top EXCEPT !.files = Tail(Top.files)]
<1>1. /\ Waits("include") /\ Top.files # <<>> /\ pc' = "getRoot"
      /\ UNCHANGED <<input, params, built, deleted, returned>>
  BY DEF IncludeFile, IInv, Called
<1>2. Idle(reader')
  <2>1. CASE reader' = NewReader(<<>>, FALSE)
    BY <2>1, EmptySeq, NewReaderIdle
  <2>2. CASE Head(Top.files) \in DOMAIN Files /\ reader' = NewReader(Files[Head(Top.files)], TRUE)
    BY <2>2, FileAssumption, NewReaderIdle
  <2> QED
    BY <2>1, <2>2 DEF IncludeFile
<1>3. FrameOK(f, built)
  <2>1. Tail(Top.files) \in Seq(Texts)
    BY <1>1, IncludeFrame
  <2>2. Top \in [fn : {"include"}, me : Nat, files : Seq(Texts), error : BOOLEAN,
                 reader : Readers]
    BY <1>1, IncludeFrame DEF FrameOK, Frames
  <2>3. f \in Frames /\ f.fn = Top.fn /\ f.me = Top.me /\ f.reader = Top.reader
    BY <2>1, <2>2 DEF Frames
  <2> QED
    BY <1>1, <2>3, IncludeFrame DEF FrameOK
<1>4. stack' = [stack EXCEPT ![Len(stack)] = f]
  BY DEF IncludeFile, Top
<1>5. CallsOK(stack', built')
  BY <1>1, <1>3, <1>4, ChangeCall DEF Waits, IInv, Shape
<1>6. Shape'
  BY <1>1, <1>2, <1>5 DEF IInv, Shape, Ids, Functions
<1> QED
  BY <1>1, <1>6 DEF IInv, Called, Noted

LEMMA IncludeTakesKeeps == IInv /\ IncludeTakes => IInv'
<1> SUFFICES ASSUME IInv, IncludeTakes
             PROVE  IInv'
  OBVIOUS
<1> DEFINE f == [Top EXCEPT !.error = TRUE]
<1>1. /\ Waits("include") /\ pc' = "include"
      /\ UNCHANGED <<input, reader, params, returned>>
  BY DEF IncludeTakes, Waits
<1>2. FrameOK(f, built) /\ f.fn = "include"
  <2>1. Top \in [fn : {"include"}, me : Nat, files : Seq(Texts), error : BOOLEAN,
                 reader : Readers]
    BY <1>1, IncludeFrame DEF FrameOK, Frames
  <2>2. f \in Frames /\ f.fn = Top.fn /\ f.me = Top.me /\ f.reader = Top.reader
    BY <2>1 DEF Frames
  <2> QED
    BY <1>1, <2>2, IncludeFrame DEF FrameOK
<1>3. /\ CallsOK(stack', built') /\ Waits("include")' /\ TreeOK(built')
      /\ deleted' \subseteq Ids' /\ returned' \in Ids' \cup {NULL}
  <2>1. CASE returned = NULL
    <3>1. stack' = [stack EXCEPT ![Len(stack)] = f] /\ UNCHANGED <<built, deleted>>
      BY <2>1 DEF IncludeTakes, Top
    <3> HIDE DEF f
    <3>2. CallsOK(stack', built) /\ stack' # <<>> /\ stack'[Len(stack')] = f
      BY <1>1, <1>2, <3>1, ChangeCall DEF Waits, IInv, Shape
    <3>3. Waits("include")'
      BY <1>2, <3>2 DEF Waits, Top
    <3>4. UNCHANGED Ids
      BY <3>1 DEF Ids
    <3> QED
      BY <1>1, <3>1, <3>2, <3>3, <3>4 DEF IInv, Shape
  <2>2. CASE returned # NULL
    <3>1. /\ built' = [built EXCEPT ![Top.me].list = Append(built[Top.me].list, returned)]
          /\ deleted' = deleted \cup Under(returned)
          /\ UNCHANGED stack
      BY <2>2 DEF IncludeTakes
    <3>2. Top.me \in DOMAIN built /\ returned \in DOMAIN built
      BY <1>1, <2>2, IncludeFrame DEF Ids, IInv, Shape
    <3>3. TreeOK(built') /\ Grown(built, built')
      BY <3>1, <3>2, FillTree DEF IInv, Shape
    <3>4. /\ CallsOK(stack, built') /\ Ids \subseteq Ids' /\ deleted \subseteq Ids'
          /\ returned \in Ids' \cup {NULL}
      BY <3>3, IdsGrow DEF IInv
    <3>5. Waits("include")'
      BY <1>1, <3>1 DEF Waits, Top
    <3> QED
      BY <1>1, <3>1, <3>3, <3>4, <3>5, UnderIsBuilt
  <2> QED
    BY <2>1, <2>2
<1>4. Shape'
  BY <1>1, <1>3 DEF IInv, Shape, Functions
<1> QED
  BY <1>1, <1>3, <1>4 DEF IInv, Called, Noted

LEMMA IncludeEndsKeeps == IInv /\ IncludeEnds => IInv'
<1> SUFFICES ASSUME IInv, IncludeEnds
             PROVE  IInv'
  OBVIOUS
<1>1. Waits("include") /\ UNCHANGED <<input, params, built>>
  BY DEF IncludeEnds, IInv, Called
<1>2. Top.me \in Ids /\ Idle(Top.reader)
  BY <1>1, IncludeFrame
<1>3. CASE Top.error
  <2>1. /\ deleted' = deleted \cup Under(Top.me) /\ reader' = PrintError(Top.reader)
        /\ Return(NULL) /\ stack' = Pop
    BY <1>3 DEF IncludeEnds
  <2>2. Idle(reader') /\ reader'.hasErrors
    BY <1>2, <2>1, PrintErrorIdle
  <2>3. TreeOK(built') /\ Grown(built, built') /\ deleted' \subseteq Ids'
    BY <1>1, <2>1, SameTree, UnderIsBuilt DEF IInv, Shape, Ids
  <2> QED
    BY <1>1, <2>1, <2>2, <2>3, ReturnKeeps DEF Waits, Return
<1>4. CASE ~Top.error
  <2>1. reader' = Top.reader /\ CallNextModule(Top.me, Pop) /\ UNCHANGED <<deleted, returned>>
    BY <1>4 DEF IncludeEnds
  <2>2. CallsOK(Pop, built)
    BY <1>1, PopCall DEF Pop, Waits, IInv, Shape
  <2> QED
    BY <1>1, <1>2, <2>1, <2>2, CallNextKeeps
<1> QED
  BY <1>3, <1>4
-----------------------------------------------------------------------------
(* The theorems *)

LEMMA IInvNext == IInv /\ [Next]_vars => IInv'
<1> SUFFICES ASSUME IInv, [Next]_vars
             PROVE  IInv'
  OBVIOUS
<1>1. CASE UNCHANGED vars
  BY <1>1 DEF vars, IInv, Shape, Called, Noted, Waits, Top, Ids
<1>2. CASE Step
  BY <1>2, CannotOpenKeeps, GetRootKeeps, GetModuleListKeeps, ListTakesKeeps,
     DropListKeeps, IdentifierKeeps, ReadParametersKeeps, PositionalKeeps, NamedKeeps,
     ConstructKeeps, UndefinedKeeps, ActivateKeeps, ServerOrPathKeeps, BlockKeeps,
     EndBlockKeeps, UnbalancedBlockKeeps, IncludeKeeps, IncludeFileKeeps,
     IncludeTakesKeeps, IncludeEndsKeeps, UnexpectedKeeps, GetNextModuleKeeps,
     ChainKeeps DEF Step
<1>3. CASE Done
  BY <1>1, <1>3 DEF Done
<1> QED
  BY <1>1, <1>2, <1>3 DEF Next

LEMMA IInvAlways == Spec => []IInv
<1> QED
  BY IInvInit, IInvNext, PTL DEF Spec

\* For every text, with all the errors it may have, and whatever files it
\* includes: calls nest as the parser expects when it returns, and lists and
\* chains are made of modules that have been built.
THEOREM ParserTypeCorrect == Spec => []TypeOK
<1>1. IInv => TypeOK
  BY DEF IInv, Shape, TypeOK, Idle, TreeOK, CallsOK, FrameOK, Ids, Functions
<1> QED
  BY <1>1, IInvAlways, PTL

\* For every text and whatever files it includes: a parser that ends without a
\* root has noted an error, so that the daemon stops before it uses the root.
THEOREM FailureAlwaysNoted == Spec => []FailureNoted
<1>1. IInv => FailureNoted
  BY DEF IInv, Noted, Waits, FailureNoted, Finished
<1> QED
  BY <1>1, IInvAlways, PTL
=============================================================================
