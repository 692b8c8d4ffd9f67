------------------------- MODULE ParserTextProofs --------------------------
(***************************************************************************)
(* What the parser has made is what is written: for every text, every set  *)
(* of names and every set of files.                                        *)
(*                                                                         *)
(* Outside of Includes, the text up to the last token fixes what has been  *)
(* made and what the calls wait with: the places that are open in it, each *)
(* at its depth.  In an Include the same is kept for the parser that has   *)
(* called it.  What the calls wait with is above the modules that are made *)
(* next, and no module of a place is lost.                                 *)
(***************************************************************************)
EXTENDS ParserTreeProofs

-----------------------------------------------------------------------------
(* The text *)

\* The tokens that are single characters.
LBrace == "{"
RBrace == "}"
LBracket == "["
RBracket == "]"
LParen == "("
RParen == ")"
Comma == ","
EqualSign == "="
Semicolon == ";"
Dash == "-"
Greater == ">"

Singles == {LBrace, RBrace, LBracket, RBracket, LParen, RParen, Comma, EqualSign, Semicolon,
            Dash, Greater}

LEMMA SinglesAreNoNames ==
    /\ Singles \cap (Names \cup Strings) = {}
    /\ "END_OF_FILE" \notin Names \cup Strings \cup Singles
    /\ Singles \subseteq InputTokens
<1>1. Singles \subseteq Chars
  BY Zenon DEF Singles, Chars, LBrace, RBrace, LBracket, RBracket, LParen, RParen, Comma,
     EqualSign, Semicolon, Dash, Greater
<1>2. (Names \cup Strings) \cap (Chars \cup {OpenString, BadComment, "UNKNOWN", "END_OF_FILE", ""}) = {}
  BY NameAssumption, Zenon
<1>a. Chars \cap (Names \cup Strings) = {} /\ "END_OF_FILE" \notin Names \cup Strings
  BY <1>2, Zenon
<1>b. "END_OF_FILE" \notin Singles
  BY Zenon DEF Singles, LBrace, RBrace, LBracket, RBracket, LParen, RParen, Comma,
     EqualSign, Semicolon, Dash, Greater
<1>c. Chars \subseteq InputTokens
  BY Zenon DEF InputTokens
<1> HIDE DEF Chars
<1> QED
  BY <1>1, <1>a, <1>b, <1>c

\* They are all different.
LEMMA SinglesDiffer ==
    /\ LBrace # RBrace /\ LBrace # Semicolon /\ RBrace # Semicolon
    /\ {LBrace, RBrace, Semicolon} \cap {LBracket, RBracket, LParen, RParen, Comma, EqualSign,
                                        Dash, Greater} = {}
    /\ {LBracket} \cap {RBracket, RParen, Comma, EqualSign, Dash, Greater, LParen} = {}
    /\ {RBracket, RParen} \cap {LParen, Comma, EqualSign, Dash, Greater} = {}
    /\ {LParen, Comma, EqualSign} \cap {Dash, Greater} = {}
    /\ Dash # Greater /\ Comma # EqualSign
  BY Zenon DEF Singles, LBrace, RBrace, LBracket, RBracket, LParen, RParen, Comma,
     EqualSign, Semicolon, Dash, Greater

LEMMA DepthIs ==
    \A i : Depth(i) = Cardinality({j \in 1..i : input[j] = LBrace})
                     - Cardinality({j \in 1..i : input[j] = RBrace})
  BY Zenon DEF Depth, LBrace, RBrace

LEMMA HeadsAre ==
    Heads = {i \in DOMAIN input :
               \/ /\ input[i] \in Names \ {"ActivateModule"}
                  /\ i = Len(input) \/ input[i + 1] # EqualSign
                  /\ i = 1 \/ input[i - 1] # LBracket
               \/ /\ input[i] = LBracket
                  /\ i = 1 \/ input[i - 1] \notin Names \cup {LBracket}}
  BY Zenon DEF Heads, EqualSign, LBracket

LEMMA GuardsAre ==
    \A i, j : Guards(i, j) <=>
                 /\ i < j
                 /\ \A k \in i..j : input[k] = Semicolon => Depth(k) > Depth(i)
  BY Zenon DEF Guards, Semicolon

Closers == {RParen, RBracket}
InParentheses == Names \cup Strings \cup {Comma, EqualSign, LBracket}

LEMMA TextClosedIs ==
    TextClosed <=>
      \A i \in DOMAIN input : input[i] \in {LParen, LBracket} =>
        \E j \in (i + 1)..Len(input) :
            /\ input[j] \in Closers
            /\ \A k \in (i + 1)..(j - 1) : input[k] \in InParentheses
  BY Zenon DEF TextClosed, LParen, LBracket, Closers, RParen, RBracket, InParentheses, Comma,
     EqualSign

LEMMA ActivationLastIs ==
    ActivationLast <=>
      \A i, j \in DOMAIN input :
        (input[i] = "ActivateModule" /\ i < j /\ input[j] = Dash) =>
            \E k \in i..j : input[k] = Semicolon
  BY Zenon DEF ActivationLast, Dash, Semicolon

Count(S, i) == Cardinality(S \cap 1..i)

LEMMA CountStep ==
    ASSUME NEW S
    PROVE  /\ Count(S, 0) = 0
           /\ \A i \in Nat : Count(S, i) \in Nat
           /\ \A i \in Nat \ {0} : Count(S, i) = Count(S, i - 1) + IF i \in S THEN 1 ELSE 0
           /\ \A i, j \in Nat : i <= j => Count(S, i) <= Count(S, j)
<1>1. \A i \in Nat : IsFiniteSet(S \cap 1..i) /\ Count(S, i) \in Nat
  <2> SUFFICES ASSUME NEW i \in Nat PROVE IsFiniteSet(S \cap 1..i) /\ Count(S, i) \in Nat
    OBVIOUS
  <2>1. IsFiniteSet(1..i)
    BY FS_Interval
  <2>2. IsFiniteSet(S \cap 1..i)
    BY <2>1, FS_Subset
  <2> QED
    BY <2>2, FS_CardinalityType DEF Count
<1>2. Count(S, 0) = 0
  <2>1. S \cap 1..0 = {}
    OBVIOUS
  <2> QED
    BY <2>1, FS_EmptySet DEF Count
<1>3. ASSUME NEW i \in Nat \ {0}
      PROVE  Count(S, i) = Count(S, i - 1) + IF i \in S THEN 1 ELSE 0
  <2>1. CASE i \in S
    <3>1. S \cap 1..i = (S \cap 1..(i - 1)) \cup {i} /\ i \notin S \cap 1..(i - 1)
      BY <2>1
    <3>2. i - 1 \in Nat
      OBVIOUS
    <3> QED
      BY <1>1, <2>1, <3>1, <3>2, FS_AddElement DEF Count
  <2>2. CASE i \notin S
    <3>1. S \cap 1..i = S \cap 1..(i - 1)
      BY <2>2
    <3>2. Count(S, i) = Count(S, i - 1) /\ Count(S, i) \in Nat
      BY <1>1, <3>1 DEF Count
    <3> QED
      BY <2>2, <3>2
  <2> QED
    BY <2>1, <2>2
<1>4. ASSUME NEW i \in Nat, NEW j \in Nat, i <= j PROVE Count(S, i) <= Count(S, j)
  <2>1. S \cap 1..i \subseteq S \cap 1..j
    BY <1>4
  <2> QED
    BY <1>1, <2>1, FS_Subset DEF Count
<1> QED
  BY <1>1, <1>2, <1>3, <1>4

Opening == {j \in DOMAIN input : input[j] = LBrace}
Closing == {j \in DOMAIN input : input[j] = RBrace}

LEMMA DepthStep ==
    ASSUME input \in Seq(InputTokens)
    PROVE  /\ Depth(0) = 0
           /\ \A i \in 0..Len(input) : Depth(i) \in Int
           /\ \A i \in DOMAIN input :
                Depth(i) = Depth(i - 1) + (IF input[i] = LBrace THEN 1 ELSE 0)
                                        - (IF input[i] = RBrace THEN 1 ELSE 0)
<1>1. Len(input) \in Nat /\ DOMAIN input = 1..Len(input)
  OBVIOUS
<1>2. ASSUME NEW i \in 0..Len(input) PROVE Depth(i) = Count(Opening, i) - Count(Closing, i)
  <2>1. {j \in 1..i : input[j] = LBrace} = Opening \cap 1..i
    BY <1>1 DEF Opening
  <2>2. {j \in 1..i : input[j] = RBrace} = Closing \cap 1..i
    BY <1>1 DEF Closing
  <2> QED
    BY <2>1, <2>2, DepthIs DEF Count
<1>3. \A i \in 0..Len(input) : Count(Opening, i) \in Nat /\ Count(Closing, i) \in Nat
  <2>1. 0..Len(input) \subseteq Nat
    BY <1>1
  <2> QED
    BY <2>1, CountStep
<1>4. Count(Opening, 0) = 0 /\ Count(Closing, 0) = 0
  BY CountStep
<1>5. ASSUME NEW i \in DOMAIN input
      PROVE  Depth(i) = Depth(i - 1) + (IF input[i] = LBrace THEN 1 ELSE 0)
                                     - (IF input[i] = RBrace THEN 1 ELSE 0)
  <2>1. i \in Nat \ {0} /\ i \in 0..Len(input) /\ i - 1 \in 0..Len(input)
    BY <1>1
  <2>2. /\ Count(Opening, i) = Count(Opening, i - 1) + IF i \in Opening THEN 1 ELSE 0
        /\ Count(Closing, i) = Count(Closing, i - 1) + IF i \in Closing THEN 1 ELSE 0
    BY <2>1, CountStep
  <2>3. (i \in Opening <=> input[i] = LBrace) /\ (i \in Closing <=> input[i] = RBrace)
    BY DEF Opening, Closing
  <2>4. /\ Count(Opening, i - 1) \in Nat /\ Count(Closing, i - 1) \in Nat
        /\ Depth(i) = Count(Opening, i) - Count(Closing, i)
        /\ Depth(i - 1) = Count(Opening, i - 1) - Count(Closing, i - 1)
    BY <1>2, <1>3, <2>1
  <2> QED
    BY <2>2, <2>3, <2>4, SinglesDiffer
<1>6. Depth(0) = 0
  BY <1>1, <1>2, <1>4
<1>7. \A i \in 0..Len(input) : Depth(i) \in Int
  BY <1>2, <1>3
<1> QED
  BY <1>5, <1>6, <1>7

\* The modules of the text that begin before i, and those of them that guard
\* what is written at i.
Before(i) == {h \in Heads : h < i}
OpenAt(i) ==
    {h \in Heads : h < i /\ \A k \in h..(i - 1) : input[k] = Semicolon => Depth(k) > Depth(h)}

\* These, with their depths.
OpenText(i) == {<<h, Depth(h)>> : h \in OpenAt(i)}

\* Tokens that are neither braces nor semicolons.
Quiet(q, i) == \A k \in q..(i - 1) : input[k] \notin {Semicolon, LBrace, RBrace}

LEMMA QuietDepth ==
    ASSUME input \in Seq(InputTokens), NEW q \in DOMAIN input, NEW i \in q..(Len(input) + 1),
           Quiet(q, i)
    PROVE  \A k \in (q - 1)..(i - 1) : Depth(k) = Depth(q - 1)
<1>1. Len(input) \in Nat /\ DOMAIN input = 1..Len(input) /\ q \in Nat \ {0} /\ i \in Nat
      /\ q <= i /\ i <= Len(input) + 1
  OBVIOUS
<1> DEFINE B == {n \in 0..(i - q) : Depth(q - 1 + n) = Depth(q - 1)}
<1>2. 0 \in B
  BY <1>1
<1>3. ASSUME NEW n \in 1..(i - q), n - 1 \in B PROVE n \in B
  <2>1. q - 1 + n \in DOMAIN input /\ q - 1 + n \in q..(i - 1) /\ q - 1 + n - 1 = q - 1 + (n - 1)
    BY <1>1
  <2>2. input[q - 1 + n] \notin {Semicolon, LBrace, RBrace}
    BY <2>1 DEF Quiet
  <2>3. Depth(q - 1 + n) = Depth(q - 1 + n - 1) + 0 - 0
    BY <2>1, <2>2, DepthStep
  <2>4. Depth(q - 1 + n - 1) = Depth(q - 1)
    BY <1>3, <2>1
  <2>5. Depth(q - 1) \in Int
    BY <1>1, DepthStep
  <2> QED
    BY <1>3, <2>3, <2>4, <2>5
<1>a. i - q \in Nat
  BY <1>1
<1>4. 0..(i - q) \subseteq B
  <2> HIDE DEF B
  <2> QED
    BY <1>2, <1>3, <1>a, SetInduction
<1>5. ASSUME NEW k \in (q - 1)..(i - 1) PROVE Depth(k) = Depth(q - 1)
  <2>1. k - (q - 1) \in 0..(i - q) /\ q - 1 + (k - (q - 1)) = k
    BY <1>1
  <2>2. k - (q - 1) \in B
    BY <1>4, <2>1
  <2> QED
    BY <2>1, <2>2
<1> QED
  BY <1>5

\* What is open behind quiet tokens.
LEMMA QuietOpens ==
    ASSUME input \in Seq(InputTokens), NEW q \in DOMAIN input, NEW i \in q..(Len(input) + 1),
           Quiet(q, i)
    PROVE  /\ OpenAt(i) = OpenAt(q) \cup {h \in Heads : q <= h /\ h < i}
           /\ Before(i) = Before(q) \cup {h \in Heads : q <= h /\ h < i}
<1>1. Len(input) \in Nat /\ DOMAIN input = 1..Len(input) /\ q \in Nat \ {0} /\ i \in Nat
      /\ q <= i /\ i <= Len(input) + 1 /\ Heads \subseteq 1..Len(input)
  BY HeadsAre
<1>2. Before(i) = Before(q) \cup {h \in Heads : q <= h /\ h < i}
  <2>1. ASSUME NEW h \in Heads PROVE h < i <=> h < q \/ (q <= h /\ h < i)
    BY <1>1
  <2> QED
    BY <2>1 DEF Before
<1>3. ASSUME NEW h \in Heads, h < q
      PROVE  h \in OpenAt(i) <=> h \in OpenAt(q)
  <2>1. h < i
    BY <1>1, <1>3
  <2>2. \A k \in h..(i - 1) : k \in h..(q - 1) \/ k \in q..(i - 1)
    BY <1>1, <1>3
  <2>3. \A k \in h..(q - 1) : k \in h..(i - 1)
    BY <1>1, <1>3
  <2> QED
    BY <1>3, <2>1, <2>2, <2>3 DEF OpenAt, Quiet
<1>4. ASSUME NEW h \in Heads, q <= h, h < i
      PROVE  h \in OpenAt(i)
  <2>1. h..(i - 1) \subseteq q..(i - 1)
    BY <1>1, <1>4
  <2> QED
    BY <1>4, <2>1 DEF OpenAt, Quiet
<1>5. \A h \in Heads : h < q \/ q <= h
  BY <1>1
<1>6. \A h \in OpenAt(i) : h \in Heads /\ h < i
  BY DEF OpenAt
<1>7. \A h \in OpenAt(q) : h \in Heads /\ h < q
  BY DEF OpenAt
<1> QED
  BY <1>2, <1>3, <1>4, <1>5, <1>6, <1>7

\* One token, which is no module.
LEMMA TokenOpens ==
    ASSUME input \in Seq(InputTokens), NEW i \in DOMAIN input, i \notin Heads
    PROVE  /\ OpenAt(i + 1) = {h \in OpenAt(i) : input[i] = Semicolon => Depth(i) > Depth(h)}
           /\ Before(i + 1) = Before(i)
<1>1. Len(input) \in Nat /\ i \in 1..Len(input) /\ Heads \subseteq 1..Len(input)
  BY HeadsAre
<1>2. \A h \in Heads : h < i + 1 <=> h < i
  BY <1>1
<1>3. ASSUME NEW h \in Heads, h < i
      PROVE  h..(i + 1 - 1) = h..(i - 1) \cup {i}
  BY <1>1, <1>3
<1> QED
  BY <1>2, <1>3 DEF OpenAt, Before

\* A module that is not a name begins with no other token.
LEMMA HeadTokens ==
    ASSUME NEW h \in Heads
    PROVE  /\ input[h] \in Names \cup {LBracket}
           /\ input[h] \notin Singles \ {LBracket}
<1>1. input[h] \in Names \cup {LBracket}
  BY HeadsAre
<1> QED
  BY <1>1, SinglesAreNoNames

\* What is open behind a module, and what follows it up to its chain.
LEMMA HeadOpens ==
    ASSUME input \in Seq(InputTokens), NEW q \in DOMAIN input, NEW i \in (q + 1)..(Len(input) + 1),
           Quiet(q, i), \A k \in (q + 1)..(i - 1) : k \notin Heads
    PROVE  /\ q \in Heads => /\ OpenText(i) = OpenText(q) \cup {<<q, Depth(q - 1)>>}
                             /\ Before(i) = Before(q) \cup {q}
           /\ q \notin Heads => OpenText(i) = OpenText(q) /\ Before(i) = Before(q)
           /\ Depth(i - 1) = Depth(q - 1)
<1>1. Len(input) \in Nat /\ DOMAIN input = 1..Len(input) /\ q \in Nat \ {0} /\ i \in Nat
      /\ q + 1 <= i /\ i <= Len(input) + 1 /\ Heads \subseteq 1..Len(input)
  BY HeadsAre
<1>2. {h \in Heads : q <= h /\ h < i} = Heads \cap {q}
  <2>1. ASSUME NEW h \in Heads PROVE (q <= h /\ h < i) <=> h = q
    <3>1. CASE h \in (q + 1)..(i - 1)
      BY <3>1
    <3>2. CASE h \notin (q + 1)..(i - 1)
      BY <1>1, <3>2
    <3> QED
      BY <3>1, <3>2
  <2> QED
    BY <2>1
<1>3. i \in q..(Len(input) + 1) /\ i - 1 \in (q - 1)..(i - 1) /\ q \in (q - 1)..(i - 1)
  BY <1>1
<1>4. /\ OpenAt(i) = OpenAt(q) \cup (Heads \cap {q})
      /\ Before(i) = Before(q) \cup (Heads \cap {q})
  BY <1>2, <1>3, QuietOpens
<1>5. Depth(i - 1) = Depth(q - 1) /\ Depth(q) = Depth(q - 1)
  BY <1>3, QuietDepth
<1>6. CASE q \in Heads
  BY <1>4, <1>5, <1>6 DEF OpenText
<1>7. CASE q \notin Heads
  BY <1>4, <1>5, <1>7 DEF OpenText
<1> QED
  BY <1>5, <1>6, <1>7

-----------------------------------------------------------------------------
(* What the calls wait with *)

\* The blocks among the first n calls of s.
BlocksOf(s) == {j \in DOMAIN s : s[j].fn = "block"}
Blocks(s, n) == Count(BlocksOf(s), n)

\* The chains among them that have begun in the configuration, with their depths.
Opens(b, s, n) ==
    {<<b[s[j].me].at, Blocks(s, j)>> :
        j \in {k \in 1..n : s[k].fn \in {"chain", "include"} /\ b[s[k].me].at > 0}}

Opener(f, b, d) ==
    IF f.fn \in {"chain", "include"} /\ b[f.me].at > 0 THEN {<<b[f.me].at, d>>} ELSE {}

LEMMA MeasureStep ==
    ASSUME NEW s, NEW b, NEW n \in Nat \ {0}, n \in DOMAIN s
    PROVE  /\ Blocks(s, n) = Blocks(s, n - 1) + IF s[n].fn = "block" THEN 1 ELSE 0
           /\ Opens(b, s, n) = Opens(b, s, n - 1) \cup Opener(s[n], b, Blocks(s, n))
           /\ Blocks(s, n) \in Nat /\ Blocks(s, n - 1) \in Nat
<1>1. Blocks(s, n) = Blocks(s, n - 1) + IF s[n].fn = "block" THEN 1 ELSE 0
  <2>1. n \in BlocksOf(s) <=> s[n].fn = "block"
    BY DEF BlocksOf
  <2> QED
    BY <2>1, CountStep DEF Blocks
<1>2. 1..n = 1..(n - 1) \cup {n} /\ n - 1 \in Nat
  OBVIOUS
<1>3. Opens(b, s, n) = Opens(b, s, n - 1) \cup Opener(s[n], b, Blocks(s, n))
  <2> DEFINE J(m) == {k \in 1..m : s[k].fn \in {"chain", "include"} /\ b[s[k].me].at > 0}
  <2>1. CASE s[n].fn \in {"chain", "include"} /\ b[s[n].me].at > 0
    <3>1. J(n) = J(n - 1) \cup {n}
      BY <1>2, <2>1
    <3> QED
      BY <2>1, <3>1 DEF Opens, Opener
  <2>2. CASE ~(s[n].fn \in {"chain", "include"} /\ b[s[n].me].at > 0)
    <3>1. J(n) = J(n - 1)
      BY <1>2, <2>2
    <3> QED
      BY <2>2, <3>1 DEF Opens, Opener
  <2> QED
    BY <2>1, <2>2
<1> QED
  BY <1>1, <1>2, <1>3, CountStep DEF Blocks

LEMMA MeasureStart ==
    ASSUME NEW s, NEW b
    PROVE  Blocks(s, 0) = 0 /\ Opens(b, s, 0) = {}
<1>1. 1..0 = {}
  OBVIOUS
<1> QED
  BY <1>1, CountStep DEF Blocks, Opens

\* The first n calls are the same, and so are the places of their modules.
SameUpTo(s, r, n) ==
    /\ 1..n \subseteq DOMAIN s /\ 1..n \subseteq DOMAIN r
    /\ \A j \in 1..n : r[j].fn = s[j].fn /\ r[j].me = s[j].me

SameAts(s, n, b, c) ==
    \A j \in 1..n : s[j].fn \in {"chain", "include"} => c[s[j].me].at = b[s[j].me].at

LEMMA SameMeasures ==
    ASSUME NEW s, NEW r, NEW n \in Nat, SameUpTo(s, r, n),
           NEW b, NEW c, SameAts(s, n, b, c)
    PROVE  Blocks(r, n) = Blocks(s, n) /\ Opens(c, r, n) = Opens(b, s, n)
<1>1. ASSUME NEW j \in 0..n PROVE Blocks(r, j) = Blocks(s, j)
  <2>1. 1..j \subseteq 1..n
    OBVIOUS
  <2>2. BlocksOf(r) \cap 1..j = BlocksOf(s) \cap 1..j
    BY <2>1 DEF BlocksOf, SameUpTo
  <2> QED
    BY <2>2 DEF Blocks, Count
<1>2. \A j \in 1..n : j \in 0..n
  OBVIOUS
<1>3. {k \in 1..n : r[k].fn \in {"chain", "include"} /\ c[r[k].me].at > 0}
        = {k \in 1..n : s[k].fn \in {"chain", "include"} /\ b[s[k].me].at > 0}
  BY DEF SameUpTo, SameAts
<1>4. Opens(c, r, n) = Opens(b, s, n)
  BY <1>1, <1>2, <1>3 DEF Opens, SameUpTo, SameAts
<1> QED
  BY <1>1, <1>4

\* A chain is at most as deep as the calls are.
LEMMA OpensDepth ==
    ASSUME NEW s, NEW b, NEW n \in Nat, NEW o \in Opens(b, s, n)
    PROVE  o[2] <= Blocks(s, n) /\ o[2] \in Nat
<1>1. PICK j \in 1..n : o = <<b[s[j].me].at, Blocks(s, j)>>
  BY DEF Opens
<1>2. o[2] = Blocks(s, j) /\ j \in Nat /\ j <= n
  BY <1>1
<1>3. Blocks(s, j) \in Nat /\ Blocks(s, j) <= Blocks(s, n)
  <2>1. /\ \A i \in Nat : Count(BlocksOf(s), i) \in Nat
        /\ \A i, k \in Nat : i <= k => Count(BlocksOf(s), i) <= Count(BlocksOf(s), k)
    BY CountStep
  <2> QED
    BY <1>2, <2>1 DEF Blocks
<1> QED
  BY <1>2, <1>3

\* The chains that are not of the list or the block on top.
Lower(b, s, n) == {o \in Opens(b, s, n) : o[2] < Blocks(s, n)}

LEMMA PushMeasures ==
    ASSUME NEW s \in Seq(Frames), NEW f \in Frames, NEW b
    PROVE  LET r == Append(s, f)
               n == Len(s)
           IN  /\ Len(r) = n + 1 /\ r # <<>> /\ r[n + 1] = f /\ n \in Nat
               /\ Blocks(r, n + 1) = Blocks(s, n) + IF f.fn = "block" THEN 1 ELSE 0
               /\ Opens(b, r, n + 1) = Opens(b, s, n) \cup Opener(f, b, Blocks(r, n + 1))
<1> DEFINE r == Append(s, f)
           n == Len(s)
<1>1. /\ DOMAIN r = DOMAIN s \cup {n + 1} /\ \A i \in DOMAIN s : r[i] = s[i]
      /\ r[n + 1] = f /\ n \in Nat /\ DOMAIN s = 1..n /\ Len(r) = n + 1 /\ r # <<>>
  BY PushFollows
<1> HIDE DEF r, n
<1>2. Blocks(r, n) = Blocks(s, n) /\ Opens(b, r, n) = Opens(b, s, n)
  <2>1. SameUpTo(s, r, n) /\ SameAts(s, n, b, b)
    BY <1>1 DEF SameUpTo, SameAts
  <2>2. n \in Nat
    BY <1>1
  <2> QED
    BY <2>1, <2>2, SameMeasures
<1>3. n + 1 \in Nat \ {0} /\ n + 1 \in DOMAIN r /\ n + 1 - 1 = n
  BY <1>1
<1>4. /\ Blocks(r, n + 1) = Blocks(r, n) + IF f.fn = "block" THEN 1 ELSE 0
      /\ Opens(b, r, n + 1) = Opens(b, r, n) \cup Opener(f, b, Blocks(r, n + 1))
  <2>1. PICK m : m = n + 1
    OBVIOUS
  <2>2. m \in Nat \ {0} /\ m \in DOMAIN r /\ m - 1 = n /\ r[m] = f
    BY <1>1, <1>3, <2>1
  <2>3. /\ Blocks(r, m) = Blocks(r, m - 1) + IF r[m].fn = "block" THEN 1 ELSE 0
        /\ Opens(b, r, m) = Opens(b, r, m - 1) \cup Opener(r[m], b, Blocks(r, m))
    BY <2>2, MeasureStep
  <2>4. /\ Blocks(r, m) = Blocks(r, n) + IF f.fn = "block" THEN 1 ELSE 0
        /\ Opens(b, r, m) = Opens(b, r, n) \cup Opener(f, b, Blocks(r, m))
    BY <2>2, <2>3
  <2> QED
    BY <1>1, <2>1, <2>4
<1> QED
  BY <1>1, <1>2, <1>4 DEF r, n

LEMMA PopMeasures ==
    ASSUME NEW s \in Seq(Frames), s # <<>>, NEW b
    PROVE  LET r == SubSeq(s, 1, Len(s) - 1)
               n == Len(s)
           IN  /\ Len(r) = n - 1 /\ n \in DOMAIN s /\ n - 1 \in Nat
               /\ Blocks(s, n) = Blocks(r, n - 1) + IF s[n].fn = "block" THEN 1 ELSE 0
               /\ Opens(b, s, n) = Opens(b, r, n - 1) \cup Opener(s[n], b, Blocks(s, n))
               /\ Blocks(r, n - 1) \in Nat /\ Blocks(s, n) \in Nat
<1> DEFINE r == SubSeq(s, 1, Len(s) - 1)
           n == Len(s)
<1>1. /\ DOMAIN r = 1..(n - 1) /\ \A i \in DOMAIN r : i \in DOMAIN s /\ r[i] = s[i]
      /\ n \in DOMAIN s /\ n \in Nat /\ Len(r) = n - 1
  BY PopSeq
<1>2. n \in Nat \ {0} /\ n - 1 \in Nat
  <2>1. DOMAIN s = 1..n
    OBVIOUS
  <2> QED
    BY <1>1, <2>1
<1> HIDE DEF r, n
<1>3. Blocks(r, n - 1) = Blocks(s, n - 1) /\ Opens(b, r, n - 1) = Opens(b, s, n - 1)
  <2>1. SameUpTo(s, r, n - 1) /\ SameAts(s, n - 1, b, b)
    BY <1>1 DEF SameUpTo, SameAts
  <2>2. n - 1 \in Nat
    BY <1>2
  <2> QED
    BY <2>1, <2>2, SameMeasures
<1>4. /\ Blocks(s, n) = Blocks(s, n - 1) + IF s[n].fn = "block" THEN 1 ELSE 0
      /\ Opens(b, s, n) = Opens(b, s, n - 1) \cup Opener(s[n], b, Blocks(s, n))
      /\ Blocks(s, n) \in Nat /\ Blocks(s, n - 1) \in Nat
  BY <1>1, <1>2, MeasureStep
<1> QED
  BY <1>1, <1>2, <1>3, <1>4 DEF r, n

\* All chains are lower than a list that has been opened by a block.
LEMMA ListIsHigher ==
    ASSUME NEW s \in Seq(Frames), s # <<>>, s[Len(s)].fn = "list",
           NEW b, ListsOK(s, b), \A j \in DOMAIN s : s[j].fn # "include"
    PROVE  Lower(b, s, Len(s)) = Opens(b, s, Len(s))
<1> DEFINE n == Len(s)
<1>1. n \in Nat \ {0} /\ DOMAIN s = 1..n /\ n \in DOMAIN s
  BY PopSeq
<1>a. s[n].fn = "list"
  OBVIOUS
<1> HIDE DEF n
<1>2. Opens(b, s, n) = Opens(b, s, n - 1) /\ Blocks(s, n) = Blocks(s, n - 1)
      /\ Blocks(s, n) \in Nat
  <2>1. /\ Blocks(s, n) = Blocks(s, n - 1) + IF s[n].fn = "block" THEN 1 ELSE 0
        /\ Opens(b, s, n) = Opens(b, s, n - 1) \cup Opener(s[n], b, Blocks(s, n))
        /\ Blocks(s, n) \in Nat /\ Blocks(s, n - 1) \in Nat
    BY <1>1, MeasureStep
  <2>2. Opener(s[n], b, Blocks(s, n)) = {}
    BY <1>a DEF Opener
  <2> QED
    BY <1>a, <2>1, <2>2
<1>3. CASE n = 1
  BY <1>2, <1>3, MeasureStart DEF Lower, n
<1>4. CASE n > 1
  <2>1. s[n - 1].fn = "block"
    BY <1>1, <1>4 DEF ListsOK, n
  <2>2. n - 1 \in Nat \ {0} /\ n - 1 \in DOMAIN s /\ n - 1 - 1 \in Nat
    BY <1>1, <1>4
  <2>3. /\ Opens(b, s, n - 1) = Opens(b, s, n - 1 - 1)
        /\ Blocks(s, n - 1) = Blocks(s, n - 1 - 1) + 1 /\ Blocks(s, n - 1 - 1) \in Nat
    <3>1. /\ Blocks(s, n - 1) = Blocks(s, n - 1 - 1) + IF s[n - 1].fn = "block" THEN 1 ELSE 0
          /\ Opens(b, s, n - 1) = Opens(b, s, n - 1 - 1) \cup Opener(s[n - 1], b, Blocks(s, n - 1))
          /\ Blocks(s, n - 1) \in Nat /\ Blocks(s, n - 1 - 1) \in Nat
      BY <2>2, MeasureStep
    <3>2. Opener(s[n - 1], b, Blocks(s, n - 1)) = {}
      BY <2>1 DEF Opener
    <3> QED
      BY <2>1, <3>1, <3>2
  <2>4. \A o \in Opens(b, s, n) : o[2] <= Blocks(s, n - 1 - 1) /\ o[2] \in Nat
    BY <1>2, <2>2, <2>3, OpensDepth
  <2>5. \A o \in Opens(b, s, n) : o[2] < Blocks(s, n)
    BY <1>2, <2>3, <2>4
  <2> QED
    BY <2>5 DEF Lower, n
<1> QED
  BY <1>1, <1>3, <1>4

-----------------------------------------------------------------------------
(* Reading the text *)

\* The parser s has read the text up to the i-th token, or to its end.
At(s, i) ==
    /\ Good(s) /\ s.ok /\ s.text = input /\ ~s.hasErrors
    /\ s.t # OpenString
    /\ \/ i = 0 /\ s.pos = 1 /\ s.t = "UNKNOWN"
       \/ i \in DOMAIN input /\ s.pos = i + 1 /\ s.t = input[i]
       \/ i = Len(input) + 1 /\ s.pos = i /\ s.t = "END_OF_FILE"

LEMMA EndsAreNoTokens ==
    /\ "END_OF_FILE" \notin InputTokens /\ "UNKNOWN" \notin InputTokens
    /\ OpenString \notin {"END_OF_FILE", "UNKNOWN"}
    /\ Singles \subseteq InputTokens
<1>1. OpenString \notin {"END_OF_FILE", "UNKNOWN"}
  BY Zenon DEF OpenString
<1>2. (Names \cup Strings) \cap (Chars \cup {OpenString, BadComment, "UNKNOWN", "END_OF_FILE", ""}) = {}
  BY NameAssumption, Zenon
<1>3. "END_OF_FILE" \notin Names \cup Strings
  BY <1>2, Zenon
<1>4. "END_OF_FILE" \notin Chars
  BY Zenon DEF Chars
<1>5. "END_OF_FILE" # BadComment
  BY Zenon DEF BadComment
<1>6. "END_OF_FILE" \notin InputTokens
  BY <1>1, <1>3, <1>4, <1>5, Zenon DEF InputTokens
<1> QED
  BY <1>1, <1>6, UnknownIsNoInput, SinglesAreNoNames

LEMMA AtToken ==
    ASSUME input \in Seq(InputTokens), NEW s, NEW i, At(s, i)
    PROVE  /\ i \in 0..(Len(input) + 1) /\ Len(input) \in Nat /\ DOMAIN input = 1..Len(input)
           /\ i \in DOMAIN input => s.t = input[i] /\ s.pos = i + 1
           /\ s.t \in InputTokens => i \in DOMAIN input /\ s.t = input[i]
           /\ i \in DOMAIN input => s.t \in InputTokens
           /\ i = Len(input) + 1 <=> s.t = "END_OF_FILE"
           /\ i = 0 <=> s.t = "UNKNOWN"
<1>1. Len(input) \in Nat /\ DOMAIN input = 1..Len(input)
      /\ \A k \in DOMAIN input : input[k] \in InputTokens
  OBVIOUS
<1> QED
  BY <1>1, EndsAreNoTokens DEF At

LEMMA ReadsOn ==
    ASSUME input \in Seq(InputTokens), NEW s, NEW i, At(s, i), ~Read(s).hasErrors
    PROVE  /\ i # Len(input) + 1 => At(Read(s), i + 1)
           /\ i = Len(input) + 1 => At(Read(s), i)
<1>1. /\ Good(s) /\ s.ok /\ s.text = input /\ ~s.hasErrors /\ s \in States
      /\ i \in 0..(Len(input) + 1) /\ Len(input) \in Nat /\ DOMAIN input = 1..Len(input)
  BY AtToken DEF At, Good
<1> DEFINE n == ReadToken(s)
<1>2. Good(n) /\ n.text = input /\ n \in States
  BY <1>1, ReadTokenGood DEF Later, Good
<1>3. Read(s) = [n EXCEPT !.ok = n.t # "UNKNOWN"]
  BY <1>1 DEF Read
<1>4. /\ Read(s).t = n.t /\ Read(s).pos = n.pos /\ Read(s).text = n.text
      /\ Read(s).hasErrors = n.hasErrors /\ Read(s).ok = (n.t # "UNKNOWN")
  BY <1>2, <1>3 DEF States
<1>5. Good(Read(s))
  BY <1>1, ReadGood DEF Later
<1>6. CASE i \in {Len(input), Len(input) + 1}
  <2>1. s.pos = Len(input) + 1
    <3>1. \/ i = 0 /\ s.pos = 1
          \/ i \in 1..Len(input) /\ s.pos = i + 1
          \/ i = Len(input) + 1 /\ s.pos = i
      BY <1>1 DEF At
    <3>2. Len(input) \in Nat /\ i \in {Len(input), Len(input) + 1}
      BY <1>1, <1>6
    <3> QED
      BY <3>1, <3>2
  <2>2. n = [s EXCEPT !.t = "END_OF_FILE"]
    BY <1>1, <2>1 DEF ReadToken
  <2>3. n.t = "END_OF_FILE" /\ n.pos = s.pos
    BY <1>1, <2>2 DEF States
  <2> HIDE DEF n
  <2>4. Read(s).t = "END_OF_FILE" /\ Read(s).pos = Len(input) + 1 /\ Read(s).ok
        /\ Read(s).text = input
    BY <1>2, <1>4, <2>1, <2>3
  <2> QED
    BY <1>1, <1>5, <1>6, <2>4, EndsAreNoTokens DEF At
<1>7. CASE i \in 0..(Len(input) - 1)
  <2>1. s.pos = i + 1 /\ i + 1 \in DOMAIN input /\ i # Len(input) + 1 /\ ~(s.pos > Len(input))
    BY <1>1, <1>7 DEF At
  <2>2. input[i + 1] # BadComment
    <3>1. SUFFICES ASSUME input[i + 1] = BadComment PROVE FALSE
      OBVIOUS
    <3>2. n = [s EXCEPT !.pos = BehindComment(s.text, s.pos), !.t = "UNKNOWN",
                        !.hasErrors = TRUE]
      BY <1>1, <2>1, <3>1 DEF ReadToken
    <3>3. n.hasErrors
      BY <1>1, <3>2 DEF States
    <3> QED
      BY <1>4, <3>3
  <2>3. n = [s EXCEPT !.pos = Behind(s.text, s.pos), !.t = s.text[s.pos],
                      !.hasErrors = @ \/ s.text[s.pos] = OpenString]
    BY <1>1, <2>1, <2>2 DEF ReadToken
  <2>4. /\ n.pos = Behind(input, i + 1) /\ n.t = input[i + 1]
        /\ n.hasErrors = (s.hasErrors \/ input[i + 1] = OpenString)
    BY <1>1, <2>1, <2>3 DEF States
  <2>5. input[i + 1] # OpenString
    BY <1>4, <2>4
  <2>6. n.pos = i + 1 + 1
    BY <2>4, <2>5 DEF Behind
  <2>7. input[i + 1] \in InputTokens
    BY <2>1
  <2> HIDE DEF n
  <2>8. Read(s).t = input[i + 1] /\ Read(s).pos = i + 1 + 1 /\ Read(s).ok /\ Read(s).text = input
    BY <1>2, <1>4, <2>4, <2>6, <2>7, EndsAreNoTokens
  <2> QED
    BY <1>5, <2>1, <2>5, <2>8 DEF At
<1>8. i \in {Len(input), Len(input) + 1} \/ i \in 0..(Len(input) - 1)
  <2>1. i \in 0..(Len(input) + 1) /\ Len(input) \in Nat
    BY <1>1
  <2> QED
    BY <2>1
<1> QED
  BY <1>6, <1>7, <1>8

LEMMA ResumeAt ==
    ASSUME NEW s, NEW i, At(s, i)
    PROVE  Resume(s) = s
<1>1. s \in States /\ s.ok
  BY DEF At, Good
<1> QED
  BY <1>1 DEF Resume, States

LEMMA TypeIs ==
    ASSUME NEW t, NEW type, Type(t) = type
    PROVE  /\ type = "STRING" => t \in Strings \cup {OpenString} \/ t = "STRING"
           /\ type = "IDENTIFIER" => t \in Names \/ t = "IDENTIFIER"
           /\ type \notin {"IDENTIFIER", "STRING"} => t = type
<1>1. CASE t \in Names
  BY <1>1 DEF Type
<1>2. CASE t \notin Names /\ t \in Strings \cup {OpenString}
  BY <1>2 DEF Type
<1>3. CASE t \notin Names /\ t \notin Strings \cup {OpenString}
  <2>1. Type(t) = t
    BY <1>3 DEF Type
  <2> QED
    BY <2>1
<1> QED
  BY <1>1, <1>2, <1>3

LEMMA NeedsOn ==
    ASSUME input \in Seq(InputTokens), NEW s, NEW i, At(s, i), NEW type, ~Need(s, type).hasErrors
    PROVE  /\ Need(s, type) = Read(s) /\ Type(Read(s).t) = type
           /\ i # Len(input) + 1 => At(Need(s, type), i + 1)
           /\ i = Len(input) + 1 => At(Need(s, type), i)
<1>1. Good(s) /\ s.ok
  BY DEF At
<1>2. Good(Read(s)) /\ Later(Read(s), Need(s, type))
  BY <1>1, ReadGood, ExpectGood DEF Later, Need
<1>3. ~Read(s).hasErrors
  BY <1>2 DEF Later
<1>4. Read(s).ok
  BY <1>2, <1>3 DEF Good
<1>5. Type(Read(s).t) = type
  <2>1. SUFFICES ASSUME Type(Read(s).t) # type PROVE FALSE
    OBVIOUS
  <2>2. Need(s, type) = [PrintError(Read(s)) EXCEPT !.ok = FALSE]
    BY <1>4, <2>1 DEF Need, Expect
  <2>3. PrintError(Read(s)) \in States /\ PrintError(Read(s)).hasErrors
    BY <1>2, PrintErrorGood DEF Later, Good
  <2>4. Need(s, type).hasErrors
    BY <2>2, <2>3 DEF States
  <2> QED
    BY <2>4
<1>6. Need(s, type) = Read(s)
  BY <1>5 DEF Need, Expect
<1> QED
  BY <1>3, <1>5, <1>6, ReadsOn

-----------------------------------------------------------------------------
(* What has been read, and what waits *)

\* The places of the modules that have been made.
MadeOf(b) == {b[m].at : m \in DOMAIN b} \ {0}

Begins(i) == i = 1 \/ input[i - 1] \in {Semicolon, LBrace, Greater}

\* The first n calls of s wait with what is open before i, and what is made is
\* what is written before i.
Between(s, b, n, i) ==
    /\ i \in Nat \ {0} /\ Depth(i - 1) = Blocks(s, n)
    /\ Opens(b, s, n) = OpenText(i)
    /\ MadeOf(b) = Before(i)

\* No call waits with Module::null.
NoneActive(s, n) == \A j \in 1..n : s[j].me # NullModule

Activated(i) ==
    \E k \in 1..(i - 1) : /\ input[k] = "ActivateModule"
                          /\ \A l \in k..(i - 1) : input[l] # Semicolon

\* A name has been read, and perhaps some of its parameters.
Pending(s, b, p) ==
    /\ p.at \in DOMAIN input /\ input[p.at] = p.name /\ p.name \in Names
    /\ Begins(p.at)
    /\ Between(s, b, Len(s), p.at) /\ NoneActive(s, Len(s))

InParams(q, i) ==
    /\ i \in Nat /\ q + 2 <= i /\ input[q + 1] \in {LParen, LBracket}
    /\ \A k \in (q + 2)..(i - 1) :
          input[k] \in Names \cup Strings \cup {Comma, EqualSign} /\ k \notin Heads

Plain(q, i) == Quiet(q, i) /\ \A k \in (q + 1)..(i - 1) : k \notin Heads

\* The chain of the n-th call goes on at i.
AtNext(r, s, b, n, i) ==
    /\ At(r, i) /\ Between(s, b, n, i)
    /\ n \in Nat \ {0} /\ NoneActive(s, n - 1)
    /\ s[n].me = NullModule => Activated(i)

\* The calls are about to get what has been read before i.
ReturnsTo(s, b, i) ==
    /\ i \in Nat \ {0} /\ Depth(i - 1) = Blocks(s, Len(s)) /\ MadeOf(b) = Before(i)
    /\ NoneActive(s, Len(s) - 1)
    /\ OpensList(s) => Opens(b, s, Len(s)) = OpenText(i)
    /\ ~OpensList(s) => /\ i > 1 /\ input[i - 1] = Semicolon
                        /\ Lower(b, s, Len(s)) = OpenText(i)

ReadsOf(r, f, s, b, p, i) ==
    /\ At(r, i)
    /\ f = "getRoot" => i = 0 /\ s = <<>> /\ MadeOf(b) = {}
    /\ f \in {"getModuleList", "getModule"} =>
         Begins(i) /\ Between(s, b, Len(s), i) /\ NoneActive(s, Len(s))
    /\ f \in Pendings => Pending(s, b, p) /\ p.at < i
    /\ f = "parameters" => i \in DOMAIN input /\ i = p.at + 1 /\ input[i] \in {LParen, LBracket}
    /\ f \in {"positional", "named"} => InParams(p.at, i)
    /\ f = "construct" => Plain(p.at, i) /\ input[p.at + 1] # EqualSign
    /\ f = "getNextModule" => AtNext(r, s, b, Len(s), i)
    /\ f = "return" => ReturnsTo(s, b, i)

\* No error has been noted, nor will be at the next token.
CleanAt(r, f) ==
    /\ ~r.hasErrors /\ f # "undefined"
    /\ f \in {"construct", "getNextModule"} => r.t \in {Semicolon, Dash}

\* Outside of Includes, the text has been read up to i.
Here(i) ==
    /\ IInv /\ OwnInv /\ Structure /\ Outside /\ TextClosed /\ ActivationLast
    /\ CleanAt(reader, pc)
    /\ ReadsOf(reader, pc, stack, built, params, i)

Goes == CleanAt(reader', pc')
There(j) == ReadsOf(reader', pc', stack', built', params', j)

LEMMA HereIs ==
    ASSUME NEW i, Here(i)
    PROVE  /\ input \in Seq(InputTokens) /\ Len(input) \in Nat /\ DOMAIN input = 1..Len(input)
           /\ At(reader, i) /\ i \in 0..(Len(input) + 1) /\ ~reader.hasErrors
           /\ TreeOK(built) /\ stack \in Seq(Frames) /\ Len(stack) \in Nat
           /\ DOMAIN stack = 1..Len(stack) /\ params \in Params /\ reader.ok
<1>1. input \in Seq(InputTokens) /\ TreeOK(built) /\ stack \in Seq(Frames) /\ params \in Params
      /\ Idle(reader)
  BY MeIsBuilt DEF Here, IInv, Shape
<1>2. At(reader, i) /\ ~reader.hasErrors
  BY DEF Here, ReadsOf, CleanAt
<1>3. reader.ok
  BY <1>2 DEF At
<1> QED
  BY <1>1, <1>2, <1>3, AtToken

LEMMA MadeKept ==
    ASSUME AtsKept, DOMAIN built' = DOMAIN built
    PROVE  MadeOf(built') = MadeOf(built)
  BY DEF MadeOf, AtsKept

LEMMA MadeNew ==
    ASSUME IInv, NEW m, NewModule(m), built' = Append(built, m)
    PROVE  MadeOf(built') = MadeOf(built) \cup ({m.at} \ {0})
<1>1. built \in Seq(Modules) /\ m \in Modules
  BY DEF IInv, Shape, TreeOK, NewModule
<1>2. /\ DOMAIN built' = DOMAIN built \cup {Len(built) + 1} /\ Len(built) + 1 \notin DOMAIN built
      /\ \A k \in DOMAIN built : built'[k] = built[k]
      /\ built'[Len(built) + 1] = m
  BY <1>1
<1> QED
  BY <1>2 DEF MadeOf

LEMMA OpensKept ==
    ASSUME IInv, AtsKept, NEW n \in Nat, n <= Len(stack)
    PROVE  Opens(built', stack, n) = Opens(built, stack, n)
<1>1. stack \in Seq(Frames)
  BY DEF IInv, Shape, CallsOK
<1>2. DOMAIN stack = 1..Len(stack) /\ Len(stack) \in Nat
  BY <1>1
<1>3. \A j \in DOMAIN stack : stack[j].fn \in {"chain", "include"} => stack[j].me \in DOMAIN built
  BY DEF IInv, Shape, CallsOK, FrameOK
<1>4. SameAts(stack, n, built, built')
  BY <1>2, <1>3 DEF SameAts, AtsKept
<1>5. SameUpTo(stack, stack, n)
  BY <1>2 DEF SameUpTo
<1> QED
  BY <1>4, <1>5, SameMeasures

LEMMA NoneActivePush ==
    ASSUME NEW s \in Seq(Frames), NEW f \in Frames, NoneActive(s, Len(s))
    PROVE  /\ NoneActive(Append(s, f), Len(Append(s, f)) - 1)
           /\ f.me # NullModule => NoneActive(Append(s, f), Len(Append(s, f)))
<1> DEFINE r == Append(s, f)
<1>1. /\ Len(r) = Len(s) + 1 /\ DOMAIN s = 1..Len(s) /\ r[Len(s) + 1] = f /\ Len(s) \in Nat
      /\ \A i \in DOMAIN s : r[i] = s[i]
  BY PushFollows
<1> HIDE DEF r
<1>2. Len(r) - 1 = Len(s) /\ \A j \in 1..Len(r) : j \in 1..Len(s) \/ j = Len(s) + 1
  BY <1>1
<1>3. NoneActive(r, Len(r) - 1)
  BY <1>1, <1>2 DEF NoneActive
<1>4. f.me # NullModule => NoneActive(r, Len(r))
  BY <1>1, <1>2 DEF NoneActive
<1> QED
  BY <1>3, <1>4 DEF r

LEMMA NoneActivePop ==
    ASSUME NEW s \in Seq(Frames), s # <<>>, NoneActive(s, Len(s) - 1)
    PROVE  LET r == SubSeq(s, 1, Len(s) - 1)
           IN  NoneActive(r, Len(r)) /\ NoneActive(r, Len(r) - 1)
<1> DEFINE r == SubSeq(s, 1, Len(s) - 1)
<1>1. /\ DOMAIN r = 1..(Len(s) - 1) /\ \A i \in DOMAIN r : i \in DOMAIN s /\ r[i] = s[i]
      /\ Len(s) \in Nat /\ Len(r) = Len(s) - 1
  BY PopSeq
<1> HIDE DEF r
<1>2. NoneActive(r, Len(r))
  BY <1>1 DEF NoneActive
<1>3. NoneActive(r, Len(r) - 1)
  BY <1>1, <1>2 DEF NoneActive
<1> QED
  BY <1>2, <1>3 DEF r

-----------------------------------------------------------------------------
(* The steps outside of Includes *)

LEMMA CannotOpenThere == CannotOpen /\ IInv => ~Goes
<1> SUFFICES ASSUME CannotOpen, IInv PROVE ~Goes
  OBVIOUS
<1> DEFINE s == [reader EXCEPT !.pos = Len(reader.text) + 1]
<1>1. Idle(s)
  <2>0. reader \in Readers
    BY DEF IInv, Shape, Idle
  <2>a. reader.text \in Seq(InputTokens)
    BY <2>0 DEF Readers
  <2>1. reader \in Readers /\ Len(reader.text) \in Nat
    BY <2>0, <2>a
  <2>2. Len(reader.text) + 1 \in Nat /\ Len(reader.text) + 1 \in 1..(Len(reader.text) + 1)
    BY <2>1
  <2>3. s \in Readers /\ s.text = reader.text /\ s.pos = Len(reader.text) + 1
    BY <2>1, <2>2 DEF Readers
  <2> QED
    BY <2>2, <2>3 DEF Idle
<1>2. reader' = PrintError(s)
  BY DEF CannotOpen
<1> HIDE DEF s
<1>3. reader'.hasErrors
  BY <1>1, <1>2, PrintErrorIdle
<1> QED
  BY <1>3 DEF Goes, CleanAt

\* A parser that reads a token, and goes on.
LEMMA ReadHere ==
    ASSUME NEW i, Here(i), reader' = Resume(Read(reader)), Goes
    PROVE  /\ Read(reader).ok /\ reader' = Read(reader)
           /\ i # Len(input) + 1 => At(reader', i + 1)
           /\ i = Len(input) + 1 => At(reader', i)
<1>1. Good(Read(reader)) /\ Good(reader)
  BY IdleIsGood, ReadGood DEF Later, Here, IInv, Shape
<1>2. ~Read(reader).hasErrors
  BY <1>1, ResumeGood DEF Goes, CleanAt
<1>3. /\ i # Len(input) + 1 => At(Read(reader), i + 1)
      /\ i = Len(input) + 1 => At(Read(reader), i)
  BY <1>2, HereIs, ReadsOn
<1>4. Read(reader).ok
  BY <1>1, <1>2 DEF Good
<1>5. reader' = Read(reader)
  BY <1>3, ResumeAt
<1> QED
  BY <1>3, <1>4, <1>5

\* A new list opens.
Fills(frames, j) ==
    /\ j \in Nat \ {0} /\ Begins(j)
    /\ frames \in Seq(Frames) /\ NoneActive(frames, Len(frames))
    /\ Depth(j - 1) = Blocks(frames, Len(frames))
    /\ Opens(built, frames, Len(frames)) = OpenText(j) /\ MadeOf(built) = Before(j)
    /\ \A k \in DOMAIN frames :
          frames[k].fn \in {"chain", "include"} => frames[k].me \in DOMAIN built

LEMMA FillThere ==
    ASSUME NEW i, Here(i), NEW j, At(reader', j),
           NEW frames, Fills(frames, j), CallModuleList(frames)
    PROVE  There(j)
<1>z. /\ j \in Nat \ {0} /\ Begins(j)
      /\ frames \in Seq(Frames) /\ NoneActive(frames, Len(frames))
      /\ Depth(j - 1) = Blocks(frames, Len(frames))
      /\ Opens(built, frames, Len(frames)) = OpenText(j) /\ MadeOf(built) = Before(j)
  BY DEF Fills
<1>y. \A k \in DOMAIN frames :
          frames[k].fn \in {"chain", "include"} => frames[k].me \in DOMAIN built
  BY DEF Fills
<1> DEFINE f == [fn |-> "list", me |-> Len(built) + 1]
           m == New("ModuleList", NoParams)
<1>0. IInv /\ OwnInv /\ TreeOK(built)
  BY HereIs DEF Here
<1>1. m \in Modules /\ m.next = NULL /\ m.list = <<>> /\ m.at = 0
  BY NewIsModule, NoParamsIsParams DEF New, NoParams
<1>2. built' = Append(built, m) /\ stack' = Append(frames, f) /\ pc' = "getModuleList"
  BY DEF CallModuleList, FillList
<1>3. f \in Frames /\ f.fn = "list" /\ f.me = Len(built) + 1 /\ f.me # NullModule
  <2>1. Len(built) \in Nat /\ Len(built) # 0
    BY <1>0 DEF TreeOK, NullModule
  <2> QED
    BY <2>1 DEF Frames, NullModule
<1> HIDE DEF f, m
<1>4. NewModule(m)
  BY <1>1 DEF NewModule
<1>5. AtsKept /\ MadeOf(built') = MadeOf(built)
  BY <1>0, <1>1, <1>2, <1>4, AppendKeepsAts, MadeNew
<1>6. Opens(built', frames, Len(frames)) = Opens(built, frames, Len(frames))
  <2>1. DOMAIN frames = 1..Len(frames) /\ Len(frames) \in Nat
    BY <1>z
  <2>2. SameAts(frames, Len(frames), built, built')
    BY <1>5, <1>y, <2>1 DEF SameAts, AtsKept
  <2>3. SameUpTo(frames, frames, Len(frames))
    BY <2>1 DEF SameUpTo
  <2> QED
    BY <2>1, <2>2, <2>3, SameMeasures
<1>7. /\ Len(stack') = Len(frames) + 1
      /\ Blocks(stack', Len(stack')) = Blocks(frames, Len(frames)) + 0
      /\ Opens(built', stack', Len(stack')) = Opens(built', frames, Len(frames))
  <2>1. /\ Len(stack') = Len(frames) + 1
        /\ Blocks(stack', Len(frames) + 1) = Blocks(frames, Len(frames)) + IF f.fn = "block" THEN 1 ELSE 0
        /\ Opens(built', stack', Len(frames) + 1)
             = Opens(built', frames, Len(frames)) \cup Opener(f, built', Blocks(stack', Len(frames) + 1))
    BY <1>z, <1>2, <1>3, PushMeasures
  <2>2. Opener(f, built', Blocks(stack', Len(frames) + 1)) = {}
    BY <1>3 DEF Opener
  <2> QED
    BY <1>3, <2>1, <2>2
<1>8. Blocks(frames, Len(frames)) \in Nat
  <2>1. Len(frames) \in Nat
    BY <1>z
  <2> QED
    BY <2>1, CountStep DEF Blocks
<1>9. Between(stack', built', Len(stack'), j)
  BY <1>z, <1>5, <1>6, <1>7, <1>8 DEF Between
<1>10. NoneActive(stack', Len(stack'))
  BY <1>z, <1>2, <1>3, NoneActivePush
<1> QED
  BY <1>z, <1>2, <1>9, <1>10 DEF There, ReadsOf, Pendings

LEMMA GetRootThere ==
    ASSUME NEW i, Here(i), GetRoot, Goes
    PROVE  \E j : There(j)
<1>1. /\ pc = "getRoot" /\ reader' = Resume(Read(reader))
      /\ Read(reader).ok => CallModuleList(stack)
  BY DEF GetRoot
<1>2. i = 0 /\ stack = <<>> /\ MadeOf(built) = {}
  BY <1>1 DEF Here, ReadsOf
<1>3. At(reader', 1) /\ CallModuleList(stack)
  <2>1. 0 # Len(input) + 1 /\ 0 + 1 = 1
    BY HereIs
  <2> QED
    BY <1>1, <1>2, <2>1, ReadHere
<1>4. Begins(1)
  BY DEF Begins
<1>5. OpenText(1) = {} /\ Before(1) = {} /\ Depth(1 - 1) = 0
  <2>1. \A h \in Heads : ~(h < 1)
    BY HereIs, HeadsAre
  <2> QED
    BY <2>1, HereIs, DepthStep DEF OpenText, OpenAt, Before
<1>6. Len(stack) = 0 /\ DOMAIN stack = {} /\ stack \in Seq(Frames)
  BY <1>2
<1>7. Blocks(stack, Len(stack)) = 0 /\ Opens(built, stack, Len(stack)) = {}
  BY <1>6, MeasureStart
<1>8. NoneActive(stack, Len(stack))
  BY <1>6 DEF NoneActive
<1>a. 1 \in Nat \ {0}
  OBVIOUS
<1>b. Fills(stack, 1)
  BY <1>2, <1>4, <1>5, <1>6, <1>7, <1>8, <1>a DEF Fills
<1>9. There(1)
  BY <1>3, <1>b, FillThere
<1> QED
  BY <1>9

LEMMA BlockThere ==
    ASSUME NEW i, Here(i), Block, Goes
    PROVE  \E j : There(j)
<1> DEFINE block == [fn |-> "block", me |-> NULL]
           frames == Append(stack, block)
<1>1. /\ pc = "getModule" /\ reader' = Resume(Read(reader)) /\ reader.t = LBrace
      /\ Read(reader).ok => CallModuleList(frames)
  BY Zenon DEF Block, LBrace
<1>2. block \in Frames /\ block.fn = "block" /\ block.me = NULL /\ NULL # NullModule
  BY DEF Frames, NULL, NullModule
<1>3. /\ Begins(i) /\ Between(stack, built, Len(stack), i) /\ NoneActive(stack, Len(stack))
  BY <1>1 DEF Here, ReadsOf
<1> HIDE DEF block
<1>4. LBrace \in InputTokens
  BY EndsAreNoTokens DEF Singles
<1>5. i \in DOMAIN input /\ input[i] = LBrace /\ i \in Nat \ {0} /\ i # Len(input) + 1
  BY <1>1, <1>4, HereIs, AtToken
<1>6. At(reader', i + 1) /\ CallModuleList(frames)
  BY <1>1, <1>5, ReadHere
<1>7. Begins(i + 1)
  BY <1>5 DEF Begins
<1>8. i \notin Heads
  BY <1>5, HeadTokens, SinglesDiffer DEF Singles
<1>9. OpenText(i + 1) = OpenText(i) /\ Before(i + 1) = Before(i)
  <2>1. OpenAt(i + 1) = OpenAt(i) /\ Before(i + 1) = Before(i)
    BY <1>5, <1>8, HereIs, TokenOpens, SinglesDiffer
  <2> QED
    BY <2>1 DEF OpenText
<1>10. Depth(i) = Depth(i - 1) + 1 /\ Depth(i - 1) \in Int
  <2>1. i - 1 \in 0..Len(input)
    BY <1>5, HereIs
  <2> QED
    BY <1>5, <2>1, HereIs, DepthStep, SinglesDiffer
<1>11. frames \in Seq(Frames)
  BY <1>2, HereIs
<1>12. /\ Blocks(frames, Len(frames)) = Blocks(stack, Len(stack)) + 1
       /\ Opens(built, frames, Len(frames)) = Opens(built, stack, Len(stack))
  <2>1. /\ Len(frames) = Len(stack) + 1
        /\ Blocks(frames, Len(stack) + 1) = Blocks(stack, Len(stack)) + IF block.fn = "block" THEN 1 ELSE 0
        /\ Opens(built, frames, Len(stack) + 1)
             = Opens(built, stack, Len(stack)) \cup Opener(block, built, Blocks(frames, Len(stack) + 1))
    BY <1>2, HereIs, PushMeasures
  <2>2. Opener(block, built, Blocks(frames, Len(stack) + 1)) = {}
    BY <1>2 DEF Opener
  <2> QED
    BY <1>2, <2>1, <2>2
<1>13. NoneActive(frames, Len(frames))
  BY <1>2, <1>3, HereIs, NoneActivePush
<1>14. \A k \in DOMAIN frames : frames[k].fn \in {"chain", "include"} => frames[k].me \in DOMAIN built
  <2>1. \A k \in DOMAIN stack : stack[k].fn \in {"chain", "include"} => stack[k].me \in DOMAIN built
    BY DEF Here, IInv, Shape, CallsOK, FrameOK
  <2>2. \A k \in DOMAIN frames : (k \in DOMAIN stack /\ frames[k] = stack[k]) \/ frames[k] = block
    BY <1>2, HereIs, PushFollows
  <2> QED
    BY <1>2, <2>1, <2>2
<1> HIDE DEF frames
<1>15. PICK j : j = i + 1
  OBVIOUS
<1>16. Depth(j - 1) = Depth(i) /\ OpenText(j) = OpenText(i) /\ Before(j) = Before(i)
  <2>1. j - 1 = i
    BY <1>5, <1>15
  <2> QED
    BY <1>9, <1>15, <2>1
<1>17. /\ Depth(j - 1) = Blocks(frames, Len(frames))
       /\ Opens(built, frames, Len(frames)) = OpenText(j) /\ MadeOf(built) = Before(j)
  BY <1>3, <1>10, <1>12, <1>16 DEF Between
<1>18. j \in Nat \ {0} /\ At(reader', j) /\ Begins(j)
  BY <1>5, <1>6, <1>7, <1>15
<1>19. Fills(frames, j)
  BY <1>11, <1>13, <1>14, <1>17, <1>18 DEF Fills
<1>20. There(j)
  BY <1>6, <1>18, <1>19, FillThere
<1> QED
  BY <1>20

LEMMA HereTree ==
    ASSUME NEW i, Here(i)
    PROVE  /\ IInv /\ OwnInv /\ Structure /\ Outside
           /\ stack # <<>> =>
                /\ Top \in Frames /\ Top = stack[Len(stack)] /\ Len(stack) \in DOMAIN stack
                /\ Pop = SubSeq(stack, 1, Len(stack) - 1) /\ Pop \in Seq(Frames)
                /\ FrameOK(Top, built)
                /\ Top.fn # "list" => ~OpensList(Pop)
                /\ Top.fn \in {"list", "include"} => Top.me \notin {NULL, NullModule}
<1>1. IInv /\ OwnInv /\ Structure /\ Outside
  BY DEF Here
<1> QED
  BY <1>1, TopIsCall

LEMMA PrintErrorStops ==
    ASSUME IInv, reader' = PrintError(reader)
    PROVE  ~Goes
<1>1. reader'.hasErrors
  BY PrintErrorIdle DEF IInv, Shape
<1> QED
  BY <1>1 DEF Goes, CleanAt

\* What is below the call on top.
LEMMA PopHere ==
    ASSUME NEW i, Here(i), stack # <<>>
    PROVE  /\ Len(Pop) = Len(stack) - 1 /\ Len(stack) - 1 \in Nat /\ Len(Pop) \in Nat
           /\ Blocks(stack, Len(stack)) = Blocks(Pop, Len(Pop)) + IF Top.fn = "block" THEN 1 ELSE 0
           /\ Opens(built, stack, Len(stack))
                = Opens(built, Pop, Len(Pop)) \cup Opener(Top, built, Blocks(stack, Len(stack)))
           /\ Blocks(Pop, Len(Pop)) \in Nat /\ Blocks(stack, Len(stack)) \in Nat
           /\ NoneActive(stack, Len(stack) - 1) => NoneActive(Pop, Len(Pop)) /\ NoneActive(Pop, Len(Pop) - 1)
<1>1. stack \in Seq(Frames) /\ Pop = SubSeq(stack, 1, Len(stack) - 1) /\ Top = stack[Len(stack)]
  BY HereIs, HereTree
<1>2. /\ Len(Pop) = Len(stack) - 1 /\ Len(stack) - 1 \in Nat
      /\ Blocks(stack, Len(stack)) = Blocks(Pop, Len(stack) - 1) + IF Top.fn = "block" THEN 1 ELSE 0
      /\ Opens(built, stack, Len(stack))
           = Opens(built, Pop, Len(stack) - 1) \cup Opener(Top, built, Blocks(stack, Len(stack)))
      /\ Blocks(Pop, Len(stack) - 1) \in Nat /\ Blocks(stack, Len(stack)) \in Nat
  BY <1>1, PopMeasures
<1>3. NoneActive(stack, Len(stack) - 1) => NoneActive(Pop, Len(Pop)) /\ NoneActive(Pop, Len(Pop) - 1)
  BY <1>1, NoneActivePop
<1> QED
  BY <1>2, <1>3

LEMMA GetModuleListThere ==
    ASSUME NEW i, Here(i), GetModuleList, Goes
    PROVE  \E j : There(j)
<1>1. /\ pc = "getModuleList" /\ UNCHANGED <<reader, built>> /\ stack # <<>> /\ Top.fn = "list"
  BY HereTree DEF GetModuleList, IInv, Called, Waits
<1>2. /\ At(reader, i) /\ Begins(i) /\ Between(stack, built, Len(stack), i)
      /\ NoneActive(stack, Len(stack))
  BY <1>1 DEF Here, ReadsOf
<1>3. CASE pc' = "getModule" /\ UNCHANGED stack
  <2>1. There(i)
    BY <1>1, <1>2, <1>3 DEF There, ReadsOf, Pendings
  <2> QED
    BY <2>1
<1>4. CASE pc' = "return" /\ stack' = Pop
  <2>1. Opener(Top, built, Blocks(stack, Len(stack))) = {}
    BY <1>1 DEF Opener
  <2>2. /\ Blocks(Pop, Len(Pop)) = Blocks(stack, Len(stack))
        /\ Opens(built, Pop, Len(Pop)) = Opens(built, stack, Len(stack))
    BY <1>1, <2>1, PopHere
  <2>3. NoneActive(Pop, Len(Pop) - 1)
    <3>1. NoneActive(stack, Len(stack) - 1)
      BY <1>2, HereIs DEF NoneActive
    <3> QED
      BY <1>1, <3>1, PopHere
  <2>4. OpensList(Pop)
    <3>1. Len(stack) \in DOMAIN stack /\ stack[Len(stack)].fn = "list"
      BY <1>1, HereTree
    <3>2. Len(stack) > 1 => stack[Len(stack) - 1].fn \in {"block", "include"}
      BY <3>1, HereTree DEF Structure, ListsOK
    <3>3. Pop # <<>> => Len(stack) > 1 /\ Pop[Len(Pop)] = stack[Len(stack) - 1]
      <4>1. Pop = SubSeq(stack, 1, Len(stack) - 1) /\ stack \in Seq(Frames)
        BY <1>1, HereTree, HereIs
      <4>2. /\ Pop \in Seq(Frames) /\ Len(Pop) = Len(stack) - 1 /\ DOMAIN Pop = 1..(Len(stack) - 1)
            /\ \A k \in DOMAIN Pop : Pop[k] = stack[k]
        BY <1>1, <4>1, PopSeq
      <4>3. Pop # <<>> => Len(Pop) \in DOMAIN Pop
        BY <4>2
      <4> QED
        BY <4>2, <4>3, HereIs
    <3> QED
      BY <3>2, <3>3 DEF OpensList
  <2>5. ReturnsTo(Pop, built, i)
    BY <1>2, <2>2, <2>3, <2>4 DEF ReturnsTo, Between
  <2>6. There(i)
    BY <1>1, <1>2, <1>4, <2>5 DEF There, ReadsOf, Pendings
  <2> QED
    BY <2>6
<1>5. \/ pc' = "return" /\ stack' = Pop
      \/ pc' = "getModule" /\ UNCHANGED stack
  <2>1. \/ Return(Top.me) /\ stack' = Pop
        \/ pc' = "getModule" /\ UNCHANGED <<stack, returned>>
    BY Zenon DEF GetModuleList
  <2> QED
    BY <2>1 DEF Return
<1> QED
  BY <1>3, <1>4, <1>5

LEMMA ListTakesThere ==
    ASSUME NEW i, Here(i), ListTakes, Goes
    PROVE  \E j : There(j)
<1>1. /\ pc = "return" /\ stack # <<>> /\ Top.fn = "list" /\ returned # NULL
      /\ pc' = "getModuleList" /\ UNCHANGED <<reader, stack>>
  BY DEF ListTakes, ListPuts
<1>2. At(reader, i) /\ ReturnsTo(stack, built, i)
  BY <1>1 DEF Here, ReadsOf
<1>3. IInv /\ OwnInv /\ AtsKept
  <2>1. Stays \/ Gets
    BY <1>1, ListTakesKind, HereTree DEF Here
  <2> QED
    BY <2>1, KindsKeepAts, HereTree DEF Kinds
<1>4. DOMAIN built' = DOMAIN built
  BY DEF ListTakes, ListPuts
<1>5. ~OpensList(stack) /\ stack[Len(stack)].fn = "list"
  BY <1>1, HereTree DEF OpensList
<1>6. Lower(built, stack, Len(stack)) = Opens(built, stack, Len(stack))
  <2>1. stack \in Seq(Frames) /\ ListsOK(stack, built) /\ \A j \in DOMAIN stack : stack[j].fn # "include"
    BY HereIs, HereTree DEF Structure, Outside
  <2> QED
    BY <1>1, <1>5, <2>1, ListIsHigher
<1>7. Opens(built', stack, Len(stack)) = Opens(built, stack, Len(stack)) /\ MadeOf(built') = MadeOf(built)
  <2>1. Len(stack) \in Nat /\ Len(stack) <= Len(stack)
    BY HereIs
  <2> QED
    BY <1>3, <1>4, <2>1, OpensKept, MadeKept
<1>8. Between(stack, built', Len(stack), i) /\ Begins(i)
  BY <1>2, <1>5, <1>6, <1>7 DEF ReturnsTo, Between, Begins
<1>9. NoneActive(stack, Len(stack))
  <2>1. Len(stack) \in Nat /\ stack[Len(stack)].me # NullModule /\ NoneActive(stack, Len(stack) - 1)
    BY <1>1, <1>2, HereIs, HereTree DEF ReturnsTo
  <2> QED
    BY <2>1 DEF NoneActive
<1>10. There(i)
  BY <1>1, <1>2, <1>8, <1>9 DEF There, ReadsOf, Pendings
<1> QED
  BY <1>10

LEMMA DropListThere == \A i : ~(Here(i) /\ DropList)
<1> SUFFICES ASSUME NEW i, Here(i), DropList PROVE FALSE
  OBVIOUS
<1>1. pc = "return" /\ Top.fn = "list" /\ returned = NULL
  BY DEF DropList
<1>2. reader.hasErrors
  BY <1>1, HereTree DEF IInv, Noted, Waits
<1> QED
  BY <1>2, HereIs

\* The module that a call returns to the one that waits.
LEMMA ChainThere ==
    ASSUME NEW i, Here(i), Chain, Goes
    PROVE  \E j : There(j)
<1>1. /\ pc = "return" /\ stack # <<>> /\ Top.fn = "chain" /\ pc' = "return"
      /\ stack' = Pop /\ UNCHANGED reader
  BY DEF Chain, EndChain, Return
<1>2. At(reader, i) /\ ReturnsTo(stack, built, i)
  BY <1>1 DEF Here, ReadsOf
<1>3. AtsKept
  <2>1. Links
    BY ChainKind, HereTree
  <2> QED
    BY <2>1, KindsKeepAts, HereTree DEF Kinds
<1>4. DOMAIN built' = DOMAIN built
  BY DEF Chain, EndChain
<1>5. ~OpensList(stack) /\ ~OpensList(Pop)
  BY <1>1, HereTree DEF OpensList
<1>6. Opens(built', stack, Len(stack)) = Opens(built, stack, Len(stack)) /\ MadeOf(built') = MadeOf(built)
  <2>1. Len(stack) \in Nat /\ Len(stack) <= Len(stack)
    BY HereIs
  <2> QED
    BY <1>3, <1>4, <2>1, HereTree, OpensKept, MadeKept
<1>7. Opens(built', Pop, Len(Pop)) = Opens(built, Pop, Len(Pop))
  <2>1. /\ Pop \in Seq(Frames) /\ Len(Pop) = Len(stack) - 1 /\ DOMAIN Pop = 1..(Len(stack) - 1)
        /\ \A k \in DOMAIN Pop : k \in DOMAIN stack /\ Pop[k] = stack[k]
    <3>1. Pop = SubSeq(stack, 1, Len(stack) - 1) /\ stack \in Seq(Frames)
      BY <1>1, HereTree, HereIs
    <3> QED
      BY <1>1, <3>1, PopSeq
  <2>2. Len(Pop) \in Nat
    BY <2>1
  <2>3. \A j \in DOMAIN stack : stack[j].fn \in {"chain", "include"} => stack[j].me \in DOMAIN built
    BY HereTree DEF IInv, Shape, CallsOK, FrameOK
  <2>4. SameAts(Pop, Len(Pop), built, built')
    BY <1>3, <2>1, <2>3 DEF SameAts, AtsKept
  <2>5. SameUpTo(Pop, Pop, Len(Pop))
    BY <2>1 DEF SameUpTo
  <2> QED
    BY <2>2, <2>4, <2>5, SameMeasures
<1>8. /\ Blocks(stack, Len(stack)) = Blocks(Pop, Len(Pop)) /\ Blocks(stack, Len(stack)) \in Nat
      /\ Opens(built, stack, Len(stack))
           = Opens(built, Pop, Len(Pop)) \cup Opener(Top, built, Blocks(stack, Len(stack)))
  BY <1>1, PopHere
<1>9. Lower(built', Pop, Len(Pop)) = OpenText(i)
  <2>1. \A o \in Opener(Top, built, Blocks(stack, Len(stack))) : ~(o[2] < Blocks(stack, Len(stack)))
    BY <1>8 DEF Opener
  <2>2. Lower(built, stack, Len(stack)) = OpenText(i)
    BY <1>2, <1>5 DEF ReturnsTo
  <2> QED
    BY <1>7, <1>8, <2>1, <2>2 DEF Lower
<1>10. NoneActive(Pop, Len(Pop) - 1)
  BY <1>1, <1>2, PopHere DEF ReturnsTo
<1>11. ReturnsTo(Pop, built', i)
  BY <1>2, <1>5, <1>6, <1>8, <1>9, <1>10 DEF ReturnsTo
<1>12. There(i)
  BY <1>1, <1>2, <1>11 DEF There, ReadsOf, Pendings
<1> QED
  BY <1>12

\* A module waits with its chain.
LEMMA NextThere ==
    ASSUME NEW i, Here(i), NEW f \in Frames, stack' = Append(stack, f),
           f.fn \in {"chain", "include"}, AtsKept, f.me \in DOMAIN built',
           NEW j \in Nat \ {0}, NEW r, At(r, j),
           Depth(j - 1) = Blocks(stack, Len(stack)),
           OpenText(j) = Opens(built, stack, Len(stack))
                           \cup IF built'[f.me].at > 0 THEN {<<built'[f.me].at, Depth(j - 1)>>} ELSE {},
           MadeOf(built') = Before(j), NoneActive(stack, Len(stack)),
           f.me = NullModule => Activated(j)
    PROVE  AtNext(r, stack', built', Len(stack'), j)
<1>1. stack \in Seq(Frames) /\ IInv
  BY HereIs, HereTree
<1>2. /\ Len(stack') = Len(stack) + 1 /\ Len(stack) \in Nat
      /\ Blocks(stack', Len(stack) + 1) = Blocks(stack, Len(stack)) + IF f.fn = "block" THEN 1 ELSE 0
      /\ Opens(built', stack', Len(stack) + 1)
           = Opens(built', stack, Len(stack)) \cup Opener(f, built', Blocks(stack', Len(stack) + 1))
      /\ stack'[Len(stack) + 1] = f
  BY <1>1, PushMeasures
<1>3. Blocks(stack, Len(stack)) \in Nat
  BY <1>2, CountStep DEF Blocks
<1>4. Blocks(stack', Len(stack')) = Blocks(stack, Len(stack))
  BY <1>2, <1>3
<1>5. Opens(built', stack, Len(stack)) = Opens(built, stack, Len(stack))
  <2>1. Len(stack) <= Len(stack)
    BY <1>2
  <2> QED
    BY <1>1, <1>2, <2>1, OpensKept
<1>6. Opens(built', stack', Len(stack')) = OpenText(j)
  <2>1. Opener(f, built', Blocks(stack, Len(stack)))
          = IF built'[f.me].at > 0 THEN {<<built'[f.me].at, Depth(j - 1)>>} ELSE {}
    BY DEF Opener
  <2> QED
    BY <1>2, <1>4, <1>5, <2>1
<1>7. Between(stack', built', Len(stack'), j)
  BY <1>4, <1>6 DEF Between
<1>8. NoneActive(stack', Len(stack') - 1)
  BY <1>1, NoneActivePush
<1>9. Len(stack') \in Nat \ {0} /\ stack'[Len(stack')] = f
  BY <1>2
<1> QED
  BY <1>7, <1>8, <1>9 DEF AtNext

LEMMA SinglesAreTokens ==
    /\ LBrace \in Singles /\ RBrace \in Singles /\ LBracket \in Singles /\ RBracket \in Singles
    /\ LParen \in Singles /\ RParen \in Singles /\ Comma \in Singles /\ EqualSign \in Singles
    /\ Semicolon \in Singles /\ Dash \in Singles /\ Greater \in Singles
    /\ Singles \subseteq InputTokens /\ Singles \cap (Names \cup Strings) = {}
    /\ Names \cup Strings \subseteq InputTokens
  BY SinglesAreNoNames DEF Singles, InputTokens

\* A type of token is a name, a string, or the token itself.
LEMMA TypeOfToken ==
    ASSUME NEW t \in Tokens
    PROVE  /\ Type(t) = "IDENTIFIER" => t \in Names
           /\ Type(t) = "STRING" => t \in Strings \/ t = OpenString
<1>1. Type(t) = "STRING" => t \in Strings \/ t = OpenString
  <2> SUFFICES ASSUME Type(t) = "STRING" PROVE t \in Strings \/ t = OpenString
    OBVIOUS
  <2>1. CASE t \in Names
    BY <2>1 DEF Type
  <2>2. CASE t = "STRING" /\ t \notin Names /\ t \notin Strings
    <3>1. "STRING" \notin Chars /\ "STRING" # BadComment /\ "STRING" \notin {"UNKNOWN", "END_OF_FILE"}
          /\ "STRING" # OpenString
      BY Zenon DEF Chars, BadComment, OpenString
    <3>2. t \in Names \cup Strings \cup Chars \cup {OpenString, BadComment} \cup {"UNKNOWN", "END_OF_FILE"}
      BY Zenon DEF Tokens, InputTokens
    <3> HIDE DEF Chars, OpenString, BadComment
    <3> QED
      BY <2>2, <3>1, <3>2, Zenon
  <2> QED
    BY <2>1, <2>2, TypeIs
<1> QED
  BY <1>1, IdentifierIsName

LEMMA AtTokens ==
    ASSUME NEW s, NEW i, At(s, i)
    PROVE  s.t \in Tokens /\ s.t # OpenString
  BY DEF At, Good, States

\* The macros read on, and forget no error.
LEMMA LaterReads ==
    ASSUME NEW s, Good(s)
    PROVE  /\ Good(Read(s)) /\ (~Read(s).hasErrors => ~s.hasErrors)
           /\ \A type : Good(Need(s, type)) /\ (~Need(s, type).hasErrors => ~s.hasErrors)
<1>1. Later(s, Read(s))
  BY ReadGood
<1>2. \A type : Later(s, Need(s, type))
  BY NeedGood
<1>3. s \in States /\ Read(s) \in States /\ \A type : Need(s, type) \in States
  BY <1>1, <1>2 DEF Later, Good
<1> QED
  BY <1>1, <1>2, <1>3 DEF Later, States

LEMMA HeadIs ==
    ASSUME NEW h
    PROVE  h \in Heads <=>
             /\ h \in DOMAIN input
             /\ \/ /\ input[h] \in Names \ {"ActivateModule"}
                   /\ h = Len(input) \/ input[h + 1] # EqualSign
                   /\ h = 1 \/ input[h - 1] # LBracket
                \/ /\ input[h] = LBracket
                   /\ h = 1 \/ input[h - 1] \notin Names \cup {LBracket}
  BY HeadsAre, Zenon

-----------------------------------------------------------------------------
(* Names and parameters *)

LEMMA IdentifierThere ==
    ASSUME NEW i, Here(i), Identifier, Goes
    PROVE  \E j : There(j)
<1>1. /\ pc = "getModule" /\ Type(reader.t) = "IDENTIFIER"
      /\ params' = [NoParams EXCEPT !.name = reader.t, !.at = Place]
      /\ reader' = Resume(Read(reader)) /\ UNCHANGED <<stack, built>>
  BY DEF Identifier
<1>2. /\ At(reader, i) /\ Begins(i) /\ Between(stack, built, Len(stack), i)
      /\ NoneActive(stack, Len(stack))
  BY <1>1 DEF Here, ReadsOf
<1>3. reader.t \in Names
  BY <1>1, <1>2, AtTokens, TypeOfToken
<1>4. reader.t \in InputTokens
  BY <1>3, SinglesAreTokens
<1>5. i \in DOMAIN input /\ input[i] = reader.t /\ reader.pos = i + 1 /\ i \in Nat \ {0}
      /\ i # Len(input) + 1
  BY <1>2, <1>4, HereIs, AtToken
<1>6. At(reader', i + 1) /\ reader' = Read(reader) /\ Read(reader).ok
  BY <1>1, <1>5, ReadHere
<1>7. params'.name = input[i] /\ params'.at = i
  <2>1. Place = i
    BY <1>5, HereTree DEF Place, Outside
  <2> QED
    BY <1>1, <1>5, <2>1 DEF NoParams
<1>8. pc' = IF reader'.t \in {LParen, LBracket} THEN "parameters" ELSE "construct"
  BY <1>6, Zenon DEF Identifier, LParen, LBracket
<1>9. Pending(stack', built', params')
  BY <1>1, <1>2, <1>3, <1>5, <1>7 DEF Pending
<1>10. pc' = "parameters" => i + 1 \in DOMAIN input /\ input[i + 1] \in {LParen, LBracket}
  BY <1>6, <1>8, HereIs, AtToken, SinglesAreTokens
<1>11. pc' = "construct" => Plain(i, i + 1) /\ input[i + 1] # EqualSign
  <2>1. SUFFICES ASSUME pc' = "construct" PROVE Plain(i, i + 1) /\ input[i + 1] # EqualSign
    OBVIOUS
  <2>2. reader'.t \in {Semicolon, Dash}
    BY <2>1 DEF Goes, CleanAt
  <2>3. input[i + 1] \in {Semicolon, Dash}
    BY <1>6, <2>2, HereIs, AtToken, SinglesAreTokens
  <2>4. input[i] \notin Singles
    BY <1>3, <1>5, SinglesAreTokens
  <2>5. \A k \in i..((i + 1) - 1) : k = i
    BY <1>5
  <2>6. \A k \in (i + 1)..((i + 1) - 1) : FALSE
    BY <1>5
  <2>7. Quiet(i, i + 1)
    <3>1. {Semicolon, LBrace, RBrace} \subseteq Singles
      BY SinglesAreTokens
    <3> QED
      BY <2>4, <2>5, <3>1 DEF Quiet
  <2>8. Plain(i, i + 1)
    BY <2>6, <2>7 DEF Plain
  <2>9. EqualSign \notin {Semicolon, Dash}
    BY SinglesDiffer
  <2> QED
    BY <2>3, <2>8, <2>9
<1>12. params'.at < i + 1 /\ i + 1 = params'.at + 1
  BY <1>5, <1>7
<1>13. pc' \in {"parameters", "construct"}
  BY <1>8
<1>14. There(i + 1)
  BY <1>6, <1>7, <1>9, <1>10, <1>11, <1>12, <1>13 DEF There, ReadsOf, Pendings
<1> QED
  BY <1>14

\* More has been read of the parameters of a name.
LEMMA PendingThere ==
    ASSUME NEW i, Here(i), pc \in Pendings, UNCHANGED <<stack, built>>,
           params'.at = params.at, params'.name = params.name,
           NEW j, At(reader', j),
           \/ pc' \in {"positional", "named"} /\ InParams(params.at, j)
           \/ /\ pc' = "construct" /\ Plain(params.at, j) /\ input[params.at + 1] # EqualSign
              /\ params.at < j
    PROVE  There(j)
<1>1. Pending(stack, built, params)
  BY DEF Here, ReadsOf
<1>2. Pending(stack', built', params')
  BY <1>1 DEF Pending
<1>3. params'.at < j
  <2>1. params.at \in Nat
    BY HereIs DEF Params
  <2> QED
    BY <2>1 DEF InParams
<1> QED
  BY <1>2, <1>3 DEF There, ReadsOf, Pendings

\* The parameters end where they should.
LEMMA EndParametersThere ==
    ASSUME NEW i, Here(i), pc \in Pendings, UNCHANGED <<stack, built>>,
           params'.at = params.at, params'.name = params.name,
           NEW s, NEW e, At(s, e), InParams(params.at, e), EndParameters(s), Goes
    PROVE  \E j : There(j)
<1> DEFINE q == params.at
<1>1. /\ Pending(stack, built, params) /\ input \in Seq(InputTokens) /\ TextClosed
      /\ Len(input) \in Nat /\ DOMAIN input = 1..Len(input)
  BY HereIs DEF Here, ReadsOf
<1>2. q \in DOMAIN input /\ q \in Nat \ {0} /\ input[q] \in Names
  BY <1>1 DEF Pending
<1>3. Good(s) /\ Resume(s) = s
  BY ResumeAt DEF At
<1>4. reader' = Resume(Read(s)) /\ (Read(s).ok => pc' = "construct")
  BY <1>3 DEF EndParameters
<1>5. Good(Read(s)) /\ ~Read(s).hasErrors
  <2>1. Good(Read(s))
    BY <1>3, LaterReads
  <2> QED
    BY <1>4, <2>1, ResumeGood DEF Goes, CleanAt
<1>6. pc' = "construct"
  BY <1>4, <1>5 DEF Good
<1>7. /\ e # Len(input) + 1 => At(Read(s), e + 1)
      /\ e = Len(input) + 1 => At(Read(s), e)
  BY <1>1, <1>5, ReadsOn
<1>8. reader' = Read(s) /\ Read(s).t \in {Semicolon, Dash}
  <2>1. reader' = Read(s)
    BY <1>4, <1>7, ResumeAt
  <2> QED
    BY <1>6, <2>1 DEF Goes, CleanAt
<1>9. Read(s).t \in InputTokens
  BY <1>8, SinglesAreTokens
<1>10. e \in 0..(Len(input) + 1)
  BY <1>1, AtToken
<1>11. e # Len(input) + 1
  <2>1. Len(input) + 1 \notin DOMAIN input
    BY <1>1
  <2> QED
    BY <1>1, <1>7, <1>9, <2>1, AtToken
<1>12. At(Read(s), e + 1) /\ e + 1 \in DOMAIN input /\ input[e + 1] \in {Semicolon, Dash}
  BY <1>1, <1>7, <1>8, <1>9, <1>11, AtToken
<1>13. /\ e \in Nat /\ q + 2 <= e /\ input[q + 1] \in {LParen, LBracket}
       /\ \A k \in (q + 2)..(e - 1) :
             input[k] \in Names \cup Strings \cup {Comma, EqualSign} /\ k \notin Heads
  BY DEF InParams
<1> HIDE DEF q
<1>14. PICK j \in ((q + 1) + 1)..Len(input) :
            /\ input[j] \in Closers
            /\ \A k \in ((q + 1) + 1)..(j - 1) : input[k] \in InParentheses
  <2>1. q + 1 \in DOMAIN input
    BY <1>1, <1>2, <1>12, <1>13
  <2> QED
    BY <1>1, <1>13, <2>1, TextClosedIs
<1>15. Closers \cap (Names \cup Strings \cup {Comma, EqualSign, Semicolon, Dash, LBracket}) = {}
  BY SinglesAreTokens, SinglesDiffer DEF Closers
<1>16. InParentheses \cap {Semicolon, Dash} = {}
  BY SinglesAreTokens, SinglesDiffer DEF InParentheses
<1>17. j = e
  <2>1. ~(j < e)
    <3>1. j < e => j \in (q + 2)..(e - 1)
      BY <1>2, <1>13, <1>14
    <3> QED
      BY <1>13, <1>14, <1>15, <3>1
  <2>2. j # e + 1
    BY <1>12, <1>14, <1>15
  <2>3. ~(j > e + 1)
    <3>1. j > e + 1 => e + 1 \in ((q + 1) + 1)..(j - 1)
      BY <1>1, <1>2, <1>13, <1>14
    <3> QED
      BY <1>12, <1>14, <1>16, <3>1
  <2>4. j \in Int /\ e \in Int
    BY <1>13, <1>14, <1>1, <1>2
  <2> QED
    BY <2>1, <2>2, <2>3, <2>4
<1>18. \A k \in q..((e + 1) - 1) : k = q \/ k = q + 1 \/ k \in (q + 2)..(e - 1) \/ k = e
  BY <1>2, <1>13
<1>19. Quiet(q, e + 1)
  <2>1. input[q] \notin Singles
    BY <1>2, SinglesAreTokens
  <2>2. \A k \in (q + 2)..(e - 1) : input[k] \notin {Semicolon, LBrace, RBrace}
    BY <1>13, SinglesAreTokens, SinglesDiffer
  <2>3. input[e] \in Closers
    BY <1>14, <1>17
  <2>4. {LParen, LBracket} \cap {Semicolon, LBrace, RBrace} = {} /\ Closers \cap {Semicolon, LBrace, RBrace} = {}
    BY SinglesDiffer DEF Closers
  <2>5. {Semicolon, LBrace, RBrace} \subseteq Singles
    BY SinglesAreTokens
  <2>6. input[q] \notin {Semicolon, LBrace, RBrace} /\ input[q + 1] \notin {Semicolon, LBrace, RBrace}
        /\ input[e] \notin {Semicolon, LBrace, RBrace}
    BY <1>13, <2>1, <2>3, <2>4, <2>5
  <2>7. \A k \in q..((e + 1) - 1) : input[k] \notin {Semicolon, LBrace, RBrace}
    BY <1>18, <2>2, <2>6
  <2> QED
    BY <2>7 DEF Quiet
<1>20. \A k \in (q + 1)..((e + 1) - 1) : k \notin Heads
  <2>1. \A k \in (q + 1)..((e + 1) - 1) : k = q + 1 \/ k \in (q + 2)..(e - 1) \/ k = e
    BY <1>2, <1>13
  <2>2. q + 1 \notin Heads
    <3>1. q + 1 # 1 /\ (q + 1) - 1 = q
      BY <1>2
    <3>2. input[q + 1] \notin Names
      BY <1>13, SinglesAreTokens
    <3>3. input[q] # LBracket
      BY <1>2, SinglesAreTokens
    <3>4. ASSUME q + 1 \in Heads PROVE FALSE
      <4>1. q + 1 = 1 \/ input[(q + 1) - 1] \notin Names \cup {LBracket}
        <5>1. PICK h : h = q + 1
          OBVIOUS
        <5>2. h \in Heads /\ input[h] \notin Names
          BY <3>2, <3>4, <5>1
        <5>3. h = 1 \/ input[h - 1] \notin Names \cup {LBracket}
          BY <5>2, HeadIs
        <5> QED
          BY <5>1, <5>3
      <4> QED
        BY <1>2, <3>1, <4>1
    <3> QED
      BY <3>4
  <2>3. e \notin Heads
    <3>1. input[e] \in Closers
      BY <1>14, <1>17
    <3> QED
      BY <1>15, <3>1, HeadTokens
  <2> QED
    BY <1>13, <2>1, <2>2, <2>3
<1>21. Plain(q, e + 1) /\ input[q + 1] # EqualSign /\ q < e + 1
  <2>1. Plain(q, e + 1)
    BY <1>19, <1>20 DEF Plain
  <2>2. EqualSign \notin {LParen, LBracket}
    BY Zenon DEF EqualSign, LParen, LBracket
  <2>3. input[q + 1] # EqualSign
    BY <1>13, <2>2
  <2>4. q < e + 1
    BY <1>2, <1>13
  <2> QED
    BY <2>1, <2>3, <2>4
<1>22. There(e + 1)
  BY <1>6, <1>8, <1>12, <1>21, PendingThere DEF q
<1> QED
  BY <1>22

LEMMA FailedParameters ==
    ASSUME NEW s, Good(s), s.hasErrors, EndParameters(s)
    PROVE  ~Goes
<1>1. Good(Resume(s)) /\ Resume(s).hasErrors
  BY ResumeGood, IdleIsGood DEF Later
<1>2. Good(Read(Resume(s))) /\ Read(Resume(s)).hasErrors
  BY <1>1, ReadGood DEF Later
<1>3. reader' = Resume(Read(Resume(s)))
  BY DEF EndParameters
<1>4. reader'.hasErrors
  BY <1>2, <1>3, ResumeGood
<1> QED
  BY <1>4 DEF Goes, CleanAt

LEMMA InParamsStep ==
    ASSUME NEW q \in Nat, NEW e, InParams(q, e),
           input[e] \in Names \cup Strings \cup {Comma, EqualSign}, e \notin Heads
    PROVE  InParams(q, e + 1)
<1>1. e \in Nat /\ q + 2 <= e
  BY DEF InParams
<1>2. \A k \in (q + 2)..((e + 1) - 1) : k \in (q + 2)..(e - 1) \/ k = e
  BY <1>1
<1>3. e + 1 \in Nat /\ q + 2 <= e + 1
  BY <1>1
<1> QED
  BY <1>2, <1>3 DEF InParams

\* Strings and the signs between parameters begin no module.
LEMMA NoHead ==
    ASSUME NEW e, input[e] \in Strings \cup {Comma, EqualSign}
    PROVE  e \notin Heads
<1>1. LBracket \notin Strings \cup {Comma, EqualSign} /\ Comma \notin Names /\ EqualSign \notin Names
  BY SinglesAreTokens, SinglesDiffer
<1>2. Names \cap Strings = {}
  BY NameAssumption, Zenon
<1> QED
  BY <1>1, <1>2, HeadIs

LEMMA PendingQ ==
    ASSUME NEW i, Here(i), pc \in Pendings
    PROVE  params.at \in Nat \ {0} /\ params.at < i /\ Pending(stack, built, params)
           /\ params.at \in DOMAIN input /\ input[params.at] = params.name /\ params.name \in Names
<1>1. Pending(stack, built, params) /\ params.at < i
  BY DEF Here, ReadsOf
<1> QED
  BY <1>1, HereIs DEF Pending

LEMMA TakePositionalThere ==
    ASSUME NEW i, Here(i), pc \in Pendings, UNCHANGED <<stack, built>>,
           NEW s, NEW e, At(s, e), InParams(params.at, e), Type(s.t) = "STRING",
           TakePositional(s), Goes
    PROVE  \E j : There(j)
<1>1. s.t \in Strings
  BY AtTokens, TypeOfToken
<1>2. s.t \in InputTokens /\ input \in Seq(InputTokens)
  BY <1>1, SinglesAreTokens, HereIs
<1>3. e \in DOMAIN input /\ input[e] = s.t /\ e # Len(input) + 1
  <2>1. e \in DOMAIN input /\ input[e] = s.t
    BY <1>2, AtToken
  <2> QED
    BY <2>1, HereIs
<1>4. Good(Read(s))
  BY LaterReads DEF At
<1>5. params'.at = params.at /\ params'.name = params.name
  <2>1. params \in Params
    BY HereIs
  <2>2. params' = [params EXCEPT !.positional = Append(params.positional, Text(s.t))]
    BY <2>1 DEF TakePositional, Params
  <2> DEFINE l == Append(params.positional, Text(s.t))
  <2> HIDE DEF l
  <2>3. params' = [params EXCEPT !.positional = l]
    BY <2>2 DEF l
  <2> QED
    BY <2>1, <2>3 DEF Params
<1>6. Read(s).ok
  <2>1. ~Read(s).ok => EndParameters(Read(s))
    BY DEF TakePositional
  <2> QED
    BY <1>4, <2>1, FailedParameters DEF Good
<1>7. reader' = Read(s) /\ pc' = "positional"
  BY <1>6 DEF TakePositional
<1>8. At(reader', e + 1)
  <2>1. ~Read(s).hasErrors
    BY <1>7 DEF Goes, CleanAt
  <2> QED
    BY <1>2, <1>3, <1>7, <2>1, ReadsOn
<1>9. InParams(params.at, e + 1)
  BY <1>1, <1>3, NoHead, InParamsStep, PendingQ
<1>10. There(e + 1)
  BY <1>5, <1>7, <1>8, <1>9, PendingThere
<1> QED
  BY <1>10

LEMMA CallNamedThere ==
    ASSUME NEW i, Here(i), pc \in Pendings, UNCHANGED <<stack, built>>,
           NEW s, NEW e, At(s, e), InParams(params.at, e), CallNamed(s)
    PROVE  \E j : There(j)
<1>1. reader' = s /\ pc' = "named" /\ params' = params
  BY DEF CallNamed
<1>2. There(e)
  BY <1>1, PendingThere
<1> QED
  BY <1>2

LEMMA EndThere ==
    ASSUME NEW i, Here(i), pc \in Pendings, UNCHANGED <<stack, built>>,
           NEW s, NEW e, At(s, e), InParams(params.at, e), EndParameters(s), UNCHANGED params, Goes
    PROVE  \E j : There(j)
<1>1. params'.at = params.at /\ params'.name = params.name
  OBVIOUS
<1> QED
  BY <1>1, EndParametersThere

\* An error in the parameters is no way on.
LEMMA ErrorStops ==
    ASSUME NEW s, Good(s),
           \/ TakePositional(s) \/ CallNamed(s) \/ EndParameters(s),
           Goes
    PROVE  ~s.hasErrors
<1> SUFFICES ASSUME s.hasErrors PROVE FALSE
  OBVIOUS
<1>1. ~EndParameters(s)
  BY FailedParameters
<1>2. ~CallNamed(s)
  BY DEF CallNamed, Goes, CleanAt
<1>3. Good(Read(s)) /\ Read(s).hasErrors
  BY ReadGood DEF Later
<1>4. CASE TakePositional(s)
  <2>1. ~EndParameters(Read(s))
    BY <1>3, FailedParameters
  <2>2. reader' = Read(s)
    BY <1>4, <2>1 DEF TakePositional
  <2> QED
    BY <1>3, <2>2 DEF Goes, CleanAt
<1> QED
  BY <1>1, <1>2, <1>4

LEMMA ReadParametersThere ==
    ASSUME NEW i, Here(i), ReadParameters, Goes
    PROVE  \E j : There(j)
<1> DEFINE s == Read(reader)
<1>1. /\ CASE Type(s.t) = "STRING" -> TakePositional(s)
           [] Type(s.t) = "IDENTIFIER" -> CallNamed(s)
           [] OTHER -> EndParameters(s) /\ UNCHANGED params
      /\ UNCHANGED <<stack, built>> /\ pc = "parameters"
  BY DEF ReadParameters
<1>a. pc \in Pendings
  BY <1>1 DEF Pendings
<1>2. /\ At(reader, i) /\ i \in DOMAIN input /\ i = params.at + 1
      /\ input[i] \in {LParen, LBracket}
      /\ input \in Seq(InputTokens) /\ Good(reader)
  BY <1>1, HereIs DEF Here, ReadsOf, At
<1>3. Good(s)
  BY <1>2, LaterReads
<1>4. s = Read(reader)
  OBVIOUS
<1> HIDE DEF s
<1>5. \/ Type(s.t) = "STRING" /\ TakePositional(s)
      \/ CallNamed(s)
      \/ EndParameters(s) /\ UNCHANGED params
  BY <1>1
<1>6. ~s.hasErrors
  BY <1>3, <1>5, ErrorStops
<1>7. At(s, i + 1)
  <2>1. i # Len(input) + 1
    BY <1>2, HereIs
  <2> QED
    BY <1>2, <1>4, <1>6, <2>1, ReadsOn
<1>8. InParams(params.at, i + 1)
  <2>1. params.at \in Nat /\ i = params.at + 1
    BY <1>2, <1>a, PendingQ
  <2>2. \A k \in (params.at + 2)..((i + 1) - 1) : FALSE
    BY <2>1
  <2> QED
    BY <1>2, <2>1, <2>2 DEF InParams
<1> QED
  BY <1>1, <1>a, <1>5, <1>7, <1>8, TakePositionalThere, CallNamedThere, EndThere

LEMMA PositionalThere ==
    ASSUME NEW i, Here(i), Positional, Goes
    PROVE  \E j : There(j)
<1> DEFINE s == IF reader.t = Comma THEN Read(reader) ELSE reader
<1>0. Positional <=>
        /\ pc = "positional"
        /\ \E x \in {s} :
             CASE Type(x.t) = "IDENTIFIER" -> CallNamed(x)
               [] reader.t = Comma /\ Type(x.t) = "STRING" -> TakePositional(x)
               [] reader.t # Comma \/ x.t = RParen -> EndParameters(x) /\ UNCHANGED params
               [] OTHER -> EndParameters(Expect(x, "STRING")) /\ UNCHANGED params
        /\ UNCHANGED <<input, stack, built, deleted, registered>>
  BY Zenon DEF Positional, Comma, RParen
<1>1. /\ CASE Type(s.t) = "IDENTIFIER" -> CallNamed(s)
           [] reader.t = Comma /\ Type(s.t) = "STRING" -> TakePositional(s)
           [] reader.t # Comma \/ s.t = RParen -> EndParameters(s) /\ UNCHANGED params
           [] OTHER -> EndParameters(Expect(s, "STRING")) /\ UNCHANGED params
      /\ UNCHANGED <<stack, built>> /\ pc = "positional"
  BY <1>0
<1>a. pc \in Pendings
  BY <1>1 DEF Pendings
<1>2. At(reader, i) /\ InParams(params.at, i) /\ input \in Seq(InputTokens) /\ Good(reader)
  BY <1>1, HereIs DEF Here, ReadsOf, At
<1>3. Good(s) /\ s = IF reader.t = Comma THEN Read(reader) ELSE reader
  BY <1>2, LaterReads
<1> HIDE DEF s
<1>4. \/ Type(s.t) = "STRING" /\ TakePositional(s)
      \/ CallNamed(s)
      \/ EndParameters(s) /\ UNCHANGED params
      \/ Type(s.t) # "STRING" /\ EndParameters(Expect(s, "STRING"))
  BY <1>1
<1>5. ~(Type(s.t) # "STRING" /\ EndParameters(Expect(s, "STRING")))
  <2> SUFFICES ASSUME Type(s.t) # "STRING", EndParameters(Expect(s, "STRING")) PROVE FALSE
    OBVIOUS
  <2>1. CASE s.ok
    <3>1. Expect(s, "STRING") = [PrintError(s) EXCEPT !.ok = FALSE]
      BY <2>1 DEF Expect
    <3>2. Good(PrintError(s)) /\ PrintError(s).hasErrors
      BY <1>3, PrintErrorGood DEF Later
    <3>3. Expect(s, "STRING").hasErrors /\ Good(Expect(s, "STRING"))
      BY <3>1, <3>2 DEF Good, States
    <3> QED
      BY <3>3, FailedParameters
  <2>2. CASE ~s.ok
    <3>1. Expect(s, "STRING") = s /\ s.hasErrors
      BY <1>3, <2>2 DEF Expect, Good
    <3>2. EndParameters(s)
      BY <3>1
    <3> QED
      BY <1>3, <3>1, <3>2, FailedParameters
  <2> QED
    BY <2>1, <2>2
<1>6. ~s.hasErrors
  BY <1>3, <1>4, <1>5, ErrorStops
<1>7. \E e : At(s, e) /\ InParams(params.at, e)
  <2>1. CASE reader.t = Comma
    <3>1. i \in DOMAIN input /\ input[i] = Comma /\ i # Len(input) + 1
      <4>1. reader.t \in InputTokens
        BY <2>1, SinglesAreTokens
      <4> QED
        BY <1>2, <2>1, <4>1, HereIs, AtToken
    <3>2. At(s, i + 1)
      BY <1>2, <1>3, <1>6, <2>1, <3>1, ReadsOn
    <3>3. InParams(params.at, i + 1)
      <4>1. i \notin Heads
        BY <3>1, NoHead
      <4>2. params.at \in Nat
        BY <1>a, PendingQ
      <4> QED
        BY <1>2, <3>1, <4>1, <4>2, InParamsStep
    <3> QED
      BY <3>2, <3>3
  <2>2. CASE reader.t # Comma
    BY <1>2, <1>3, <2>2
  <2> QED
    BY <2>1, <2>2
<1>8. PICK e : At(s, e) /\ InParams(params.at, e)
  BY <1>7
<1> QED
  BY <1>1, <1>a, <1>4, <1>5, <1>8, TakePositionalThere, CallNamedThere, EndThere

LEMMA NamedThere ==
    ASSUME NEW i, Here(i), Named, Goes
    PROVE  \E j : There(j)
<1> DEFINE equals == Need(reader, EqualSign)
           value == Need(equals, "STRING")
           s == Read(value)
           id == Need(s, "IDENTIFIER")
           named == Set(params.named, reader.t, Text(value.t))
<1>0. /\ pc = "named"
      /\ params' = IF value.ok THEN [params EXCEPT !.named = Set(@, reader.t, Text(value.t))] ELSE params
      /\ CASE s.ok /\ s.t = Comma /\ id.ok -> reader' = id /\ UNCHANGED <<pc, returned>>
           [] s.ok /\ s.t = Comma /\ ~id.ok -> EndParameters(id)
           [] OTHER -> EndParameters(s)
      /\ UNCHANGED <<input, stack, built, deleted, registered>>
  <2>1. Named <=>
          /\ pc = "named"
          /\ \E e \in {Need(reader, EqualSign)} : \E v \in {Need(e, "STRING")} :
             \E x \in {Read(v)} : \E y \in {Need(x, "IDENTIFIER")} :
               /\ params' = IF v.ok
                            THEN [params EXCEPT !.named = Set(@, reader.t, Text(v.t))]
                            ELSE params
               /\ CASE x.ok /\ x.t = Comma /\ y.ok -> reader' = y /\ UNCHANGED <<pc, returned>>
                    [] x.ok /\ x.t = Comma /\ ~y.ok -> EndParameters(y)
                    [] OTHER -> EndParameters(x)
          /\ UNCHANGED <<input, stack, built, deleted, registered>>
    BY Zenon DEF Named, Comma, EqualSign
  <2> QED
    BY <2>1
<1>a. pc \in Pendings /\ UNCHANGED <<stack, built>>
  BY <1>0 DEF Pendings
<1>b. params'.at = params.at /\ params'.name = params.name
  <2>1. params \in Params
    BY HereIs
  <2>2. params' = IF value.ok THEN [params EXCEPT !.named = named] ELSE params
    BY <1>0, <2>1 DEF Params
  <2> HIDE DEF value, named
  <2> QED
    BY <2>1, <2>2 DEF Params
<1>1. At(reader, i) /\ InParams(params.at, i) /\ input \in Seq(InputTokens) /\ Good(reader) /\ reader.t \in Names
  BY <1>0, HereIs, HereTree DEF Here, ReadsOf, At, IInv, Called
<1>2. /\ Good(equals) /\ Good(value) /\ Good(s) /\ Good(id)
      /\ ~id.hasErrors => ~s.hasErrors /\ (~s.hasErrors => ~value.hasErrors)
      /\ ~s.hasErrors => ~value.hasErrors
      /\ ~value.hasErrors => ~equals.hasErrors
  <2>1. Good(equals)
    BY <1>1, LaterReads
  <2>2. Good(value) /\ (~value.hasErrors => ~equals.hasErrors)
    BY <2>1, LaterReads
  <2>3. Good(s) /\ (~s.hasErrors => ~value.hasErrors)
    BY <2>2, LaterReads
  <2>4. Good(id) /\ (~id.hasErrors => ~s.hasErrors)
    BY <2>3, LaterReads
  <2> QED
    BY <2>1, <2>2, <2>3, <2>4
<1>c. equals = Need(reader, EqualSign) /\ value = Need(equals, "STRING") /\ s = Read(value)
      /\ id = Need(s, "IDENTIFIER")
  OBVIOUS
<1> HIDE DEF equals, value, s, id, named
<1>3. \/ reader' = id /\ pc' = "named" /\ s.t = Comma
      \/ EndParameters(s)
  <2>1. \/ s.t = Comma /\ reader' = id /\ UNCHANGED <<pc, returned>>
        \/ ~id.ok /\ EndParameters(id)
        \/ EndParameters(s)
    BY <1>0
  <2>2. ~(~id.ok /\ EndParameters(id))
    BY <1>2, FailedParameters DEF Good
  <2> QED
    BY <1>0, <2>1, <2>2
<1>4. ~s.hasErrors /\ (reader' = id => ~id.hasErrors)
  <2>1. reader' = id => ~id.hasErrors
    BY DEF Goes, CleanAt
  <2>2. EndParameters(s) => ~s.hasErrors
    BY <1>2, FailedParameters
  <2> QED
    BY <1>2, <1>3, <2>1, <2>2
<1>5. ~value.hasErrors /\ ~equals.hasErrors
  BY <1>2, <1>4
<1>6. i \in DOMAIN input /\ input[i] = reader.t /\ i \in Nat /\ DOMAIN input = 1..Len(input)
      /\ Len(input) \in Nat
  <2>1. reader.t \in InputTokens
    BY <1>1, SinglesAreTokens
  <2>2. i \in DOMAIN input /\ input[i] = reader.t
    BY <1>1, <2>1, AtToken
  <2> QED
    BY <2>2, HereIs
<1>7. At(equals, i + 1) /\ i + 1 \in DOMAIN input /\ input[i + 1] = EqualSign
  <2>1. i # Len(input) + 1
    BY <1>6
  <2>2. At(equals, i + 1) /\ equals = Read(reader) /\ Type(Read(reader).t) = EqualSign
    BY <1>1, <1>5, <1>c, <2>1, NeedsOn
  <2>3. EqualSign \notin {"IDENTIFIER", "STRING"}
    BY Zenon DEF EqualSign
  <2>4. equals.t = EqualSign
    BY <2>2, <2>3, TypeIs
  <2> QED
    BY <1>1, <2>2, <2>4, SinglesAreTokens, AtToken
<1>8. At(value, (i + 1) + 1) /\ (i + 1) + 1 \in DOMAIN input /\ input[(i + 1) + 1] \in Strings
  <2>1. i + 1 # Len(input) + 1
    BY <1>6, <1>7
  <2>2. At(value, (i + 1) + 1) /\ value = Read(equals) /\ Type(Read(equals).t) = "STRING"
    BY <1>1, <1>5, <1>7, <1>c, <2>1, NeedsOn
  <2>3. value.t \in Strings
    BY <2>2, AtTokens, TypeOfToken
  <2> QED
    BY <1>1, <2>2, <2>3, SinglesAreTokens, AtToken
<1>9. At(s, (i + 1) + 1 + 1)
  <2>1. (i + 1) + 1 # Len(input) + 1
    BY <1>6, <1>8
  <2> QED
    BY <1>1, <1>4, <1>8, <1>c, <2>1, ReadsOn
<1>10. InParams(params.at, (i + 1) + 1 + 1)
  <2>0. params.at \in Nat
    BY <1>a, PendingQ
  <2>1. i \notin Heads
    <3>1. i # Len(input)
      BY <1>6, <1>7
    <3>2. input[i] # LBracket
      BY <1>1, <1>6, SinglesAreTokens
    <3> QED
      BY <1>7, <3>1, <3>2, HeadIs
  <2>2. InParams(params.at, i + 1)
    BY <1>1, <1>6, <2>0, <2>1, InParamsStep
  <2>3. InParams(params.at, (i + 1) + 1)
    <3>1. i + 1 \notin Heads
      BY <1>7, NoHead
    <3> QED
      BY <1>7, <2>0, <2>2, <3>1, InParamsStep
  <2>4. (i + 1) + 1 \notin Heads
    BY <1>8, NoHead
  <2> QED
    BY <1>8, <2>0, <2>3, <2>4, InParamsStep
<1>11. CASE EndParameters(s)
  BY <1>a, <1>b, <1>9, <1>10, <1>11, EndParametersThere
<1>12. CASE reader' = id /\ pc' = "named" /\ s.t = Comma
  <2> DEFINE e == (i + 1) + 1 + 1
  <2>0. At(s, e) /\ InParams(params.at, e)
    BY <1>9, <1>10
  <2> HIDE DEF e
  <2>1. e \in DOMAIN input /\ input[e] = Comma /\ e # Len(input) + 1
    <3>1. s.t \in InputTokens
      BY <1>12, SinglesAreTokens
    <3>2. e \in DOMAIN input /\ input[e] = s.t
      BY <1>1, <2>0, <3>1, AtToken
    <3> QED
      BY <1>6, <1>12, <3>2
  <2>2. At(id, e + 1)
    BY <1>1, <1>4, <1>12, <1>c, <2>0, <2>1, NeedsOn
  <2>3. InParams(params.at, e + 1)
    <3>1. e \notin Heads
      BY <2>1, NoHead
    <3>2. params.at \in Nat
      BY <1>a, PendingQ
    <3> QED
      BY <2>0, <2>1, <3>1, <3>2, InParamsStep
  <2>4. There(e + 1)
    BY <1>a, <1>b, <1>12, <2>2, <2>3, PendingThere
  <2> QED
    BY <2>4
<1> QED
  BY <1>3, <1>11, <1>12

-----------------------------------------------------------------------------
(* Modules and their chains *)

\* The module that is written at q waits for its chain.
LEMMA ChainBegins ==
    ASSUME NEW i, Here(i), NEW q \in Heads, NEW j, At(reader', j), q < j, Plain(q, j),
           Between(stack, built, Len(stack), q), NoneActive(stack, Len(stack)),
           NEW m, NewModule(m), m.at = q, built' = Append(built, m),
           NEW f \in Frames, f.fn \in {"chain", "include"}, f.me = Len(built) + 1,
           stack' = Append(stack, f)
    PROVE  AtNext(reader', stack', built', Len(stack'), j)
<1>1. input \in Seq(InputTokens) /\ Len(input) \in Nat /\ DOMAIN input = 1..Len(input) /\ IInv
  BY HereIs, HereTree
<1>2. q \in DOMAIN input /\ q \in Nat \ {0}
  BY <1>1, HeadIs
<1>3. j \in 0..(Len(input) + 1)
  BY <1>1, AtToken
<1>4. j \in Nat \ {0} /\ j \in (q + 1)..(Len(input) + 1)
  BY <1>1, <1>2, <1>3
<1>5. /\ OpenText(j) = OpenText(q) \cup {<<q, Depth(q - 1)>>} /\ Before(j) = Before(q) \cup {q}
      /\ Depth(j - 1) = Depth(q - 1)
  BY <1>1, <1>2, <1>4, HeadOpens DEF Plain
<1>6. AtsKept /\ f.me \in DOMAIN built' /\ built'[f.me] = m
  BY <1>1, AppendKeepsAts
<1>7. MadeOf(built') = Before(j)
  <2>1. MadeOf(built') = MadeOf(built) \cup {q}
    BY <1>1, <1>2, MadeNew
  <2> QED
    BY <1>5, <2>1 DEF Between
<1>8. Depth(j - 1) = Blocks(stack, Len(stack))
  BY <1>5 DEF Between
<1>9. OpenText(j) = Opens(built, stack, Len(stack))
        \cup IF built'[f.me].at > 0 THEN {<<built'[f.me].at, Depth(j - 1)>>} ELSE {}
  <2>1. built'[f.me].at = q /\ q > 0
    BY <1>2, <1>6
  <2> QED
    BY <1>5, <2>1 DEF Between
<1>10. f.me # NullModule
  <2>1. Len(built) \in Nat /\ Len(built) # 0
    BY <1>1 DEF IInv, Shape, TreeOK, NullModule
  <2> QED
    BY <2>1 DEF NullModule
<1> QED
  BY <1>4, <1>6, <1>7, <1>8, <1>9, <1>10, NextThere

\* What has been read when a module is made.
LEMMA ConstructHere ==
    ASSUME NEW i, Here(i), pc = "construct"
    PROVE  /\ params.at \in DOMAIN input /\ params.at < i /\ params.at \in Nat \ {0}
           /\ Plain(params.at, i) /\ At(reader, i)
           /\ input[params.at] = params.name
           /\ params.name # "ActivateModule" <=> params.at \in Heads
           /\ Between(stack, built, Len(stack), params.at) /\ NoneActive(stack, Len(stack))
<1> DEFINE q == params.at
<1>1. Pending(stack, built, params) /\ q < i /\ Plain(q, i) /\ input[q + 1] # EqualSign /\ At(reader, i)
  BY DEF Here, ReadsOf, Pendings
<1>2. /\ q \in DOMAIN input /\ q \in Nat \ {0} /\ input[q] = params.name /\ params.name \in Names
      /\ Begins(q) /\ Between(stack, built, Len(stack), q) /\ NoneActive(stack, Len(stack))
  BY <1>1, HereIs DEF Pending
<1> HIDE DEF q
<1>3. q = 1 \/ input[q - 1] # LBracket
  <2>1. LBracket \notin {Semicolon, LBrace, Greater}
    BY SinglesDiffer
  <2> QED
    BY <1>2, <2>1 DEF Begins
<1>4. params.name # LBracket
  BY <1>2, SinglesAreTokens
<1>5. params.name # "ActivateModule" <=> q \in Heads
  BY <1>1, <1>2, <1>3, <1>4, HeadIs
<1> QED
  BY <1>1, <1>2, <1>5 DEF q

LEMMA ConstructThere ==
    ASSUME NEW i, Here(i), Construct, Goes
    PROVE  \E j : There(j)
<1>0. pc = "construct" /\ ~reader.hasErrors /\ IInv
  BY HereIs, HereTree DEF Construct
<1>1. /\ params.name \notin {"ActivateModule", "Include"}
      /\ \/ /\ built' = Append(built, New(params.name, params))
            /\ CallNextModule(Len(built) + 1, stack) /\ UNCHANGED <<reader, returned>>
         \/ reader' = PrintError(reader)
  BY <1>0 DEF Construct
<1>2. /\ built' = Append(built, New(params.name, params))
      /\ CallNextModule(Len(built) + 1, stack) /\ UNCHANGED reader
  BY <1>0, <1>1, PrintErrorStops
<1> DEFINE f == [fn |-> "chain", me |-> Len(built) + 1]
           m == New(params.name, params)
<1>3. stack' = Append(stack, f) /\ pc' = "getNextModule" /\ built' = Append(built, m)
  BY <1>2 DEF CallNextModule
<1>4. f \in Frames /\ f.fn = "chain" /\ f.me = Len(built) + 1
  <2>1. Len(built) + 1 \in Nat
    BY <1>0 DEF IInv, Shape, TreeOK
  <2> QED
    BY <2>1 DEF Frames
<1>5. /\ params.at < i /\ Plain(params.at, i) /\ At(reader, i) /\ params.at \in Heads
      /\ Between(stack, built, Len(stack), params.at) /\ NoneActive(stack, Len(stack))
  BY <1>0, <1>1, ConstructHere
<1>6. NewModule(m) /\ m.at = params.at
  <2>1. params \in Params /\ params.name \in Names
    BY <1>0, HereIs, PendingQ DEF Pendings
  <2>2. m \in Modules /\ m.next = NULL /\ m.list = <<>>
    BY <2>1, NewIsModule
  <2>3. m.at = params.at
    BY DEF New
  <2> QED
    BY <1>0, <2>2, <2>3 DEF NewModule
<1> HIDE DEF f, m
<1>7. At(reader', i)
  BY <1>2, <1>5
<1>8. AtNext(reader', stack', built', Len(stack'), i)
  BY <1>3, <1>4, <1>5, <1>6, <1>7, ChainBegins
<1>9. There(i)
  BY <1>3, <1>7, <1>8 DEF There, ReadsOf, Pendings
<1> QED
  BY <1>9

\* The chain of an Include goes on when its files have been read.
LEMMA IncludeThere ==
    ASSUME NEW i, Here(i), Include
    PROVE  AtNext(reader', stack', built', Len(stack'), i)
<1>0. pc = "construct" /\ params.name = "Include" /\ ~reader.hasErrors /\ IInv
      /\ built' = Append(built, New("Include", params)) /\ UNCHANGED reader
  BY HereTree DEF Include
<1>1. PICK error \in BOOLEAN :
         stack' = Append(stack, [fn |-> "include", me |-> Len(built) + 1,
                                 files |-> params.positional, error |-> error,
                                 reader |-> reader])
  BY DEF Include
<1> DEFINE f == [fn |-> "include", me |-> Len(built) + 1, files |-> params.positional,
                 error |-> error, reader |-> reader]
           m == New("Include", params)
<1>3. stack' = Append(stack, f) /\ built' = Append(built, m)
  BY <1>0, <1>1
<1>4. f \in Frames /\ f.fn = "include" /\ f.me = Len(built) + 1
  <2>1. Len(built) + 1 \in Nat
    BY <1>0 DEF IInv, Shape, TreeOK
  <2>2. params.positional \in Seq(Texts)
    BY HereIs DEF Params
  <2>3. reader \in Readers
    BY <1>0 DEF IInv, Shape, Idle
  <2> QED
    BY <2>1, <2>2, <2>3 DEF Frames
<1>5. /\ params.at < i /\ Plain(params.at, i) /\ At(reader, i) /\ params.at \in Heads
      /\ Between(stack, built, Len(stack), params.at) /\ NoneActive(stack, Len(stack))
  <2>1. params.name # "ActivateModule"
    BY <1>0
  <2> QED
    BY <1>0, <2>1, ConstructHere
<1>6. NewModule(m) /\ m.at = params.at
  <2>1. params \in Params /\ "Include" \in Names
    BY <1>0, HereIs, PendingQ DEF Pendings
  <2>2. m \in Modules /\ m.next = NULL /\ m.list = <<>>
    BY <2>1, NewIsModule
  <2>3. m.at = params.at
    BY DEF New
  <2> QED
    BY <1>0, <2>2, <2>3 DEF NewModule
<1> HIDE DEF f, m
<1>7. At(reader', i)
  BY <1>0, <1>5
<1> QED
  BY <1>3, <1>4, <1>5, <1>6, <1>7, ChainBegins

LEMMA ActivateThere ==
    ASSUME NEW i, Here(i), Activate, Goes
    PROVE  \E j : There(j)
<1>0. /\ pc = "construct" /\ params.name = "ActivateModule" /\ UNCHANGED built
      /\ CallNextModule(NullModule, stack) /\ UNCHANGED reader
  <2>1. ~(reader' = PrintError(reader))
    BY HereTree, PrintErrorStops
  <2> QED
    BY <2>1 DEF Activate
<1> DEFINE f == [fn |-> "chain", me |-> NullModule]
           q == params.at
<1>1. stack' = Append(stack, f) /\ pc' = "getNextModule"
  BY <1>0 DEF CallNextModule
<1>2. f \in Frames /\ f.fn = "chain" /\ f.me = NullModule
  BY DEF Frames, NullModule
<1>3. /\ q < i /\ Plain(q, i) /\ At(reader, i) /\ q \notin Heads /\ q \in DOMAIN input
      /\ q \in Nat \ {0} /\ input[q] = "ActivateModule"
      /\ Between(stack, built, Len(stack), q) /\ NoneActive(stack, Len(stack))
  BY <1>0, ConstructHere
<1> HIDE DEF f, q
<1>4. input \in Seq(InputTokens) /\ Len(input) \in Nat /\ DOMAIN input = 1..Len(input) /\ IInv
      /\ i \in 0..(Len(input) + 1)
  BY HereIs, HereTree
<1>5. i \in Nat \ {0} /\ i \in (q + 1)..(Len(input) + 1)
  BY <1>3, <1>4
<1>6. OpenText(i) = OpenText(q) /\ Before(i) = Before(q) /\ Depth(i - 1) = Depth(q - 1)
  BY <1>3, <1>4, <1>5, HeadOpens DEF Plain
<1>7. /\ Depth(i - 1) = Blocks(stack, Len(stack)) /\ OpenText(i) = Opens(built, stack, Len(stack))
      /\ MadeOf(built') = Before(i)
  BY <1>0, <1>3, <1>6 DEF Between
<1>8. AtsKept /\ f.me \in DOMAIN built' /\ built'[f.me].at = 0
  BY <1>0, <1>2, <1>4, SameKeepsAts, HereTree DEF Structure, IInv, Shape, TreeOK
<1>9. Activated(i)
  <2>1. q \in 1..(i - 1) /\ \A l \in q..(i - 1) : input[l] # Semicolon
    BY <1>3, <1>4 DEF Plain, Quiet
  <2> QED
    BY <1>3, <2>1 DEF Activated
<1>10. OpenText(i) = Opens(built, stack, Len(stack))
         \cup IF built'[f.me].at > 0 THEN {<<built'[f.me].at, Depth(i - 1)>>} ELSE {}
  BY <1>7, <1>8
<1>11. At(reader', i)
  BY <1>0, <1>3
<1>12. AtNext(reader', stack', built', Len(stack'), i)
  BY <1>1, <1>2, <1>3, <1>5, <1>7, <1>8, <1>9, <1>10, <1>11, NextThere
<1>13. There(i)
  BY <1>1, <1>11, <1>12 DEF There, ReadsOf, Pendings
<1> QED
  BY <1>13

LEMMA SPWithBrackets ==
    /\ SPName = IF SPFirst.t = LBracket THEN Read(SPFirst) ELSE SPFirst
    /\ SPBracket = Need(SPName, RBracket)
    /\ SPEnd = IF SPFirst.t = LBracket THEN Need(SPBracket, RBracket) ELSE SPBracket
    /\ SPFirst = Read(reader)
  BY Zenon DEF SPName, SPBracket, SPEnd, SPFirst, LBracket, RBracket

\* A bracket that is needed is there.
LEMMA BracketRead ==
    ASSUME input \in Seq(InputTokens), NEW s, NEW n, At(s, n), ~Need(s, RBracket).hasErrors
    PROVE  /\ At(Need(s, RBracket), n + 1) /\ n \in Nat
           /\ n + 1 \in DOMAIN input /\ input[n + 1] = RBracket
<1> DEFINE r == Need(s, RBracket)
<1>1. /\ r = Read(s) /\ Type(Read(s).t) = RBracket
      /\ n # Len(input) + 1 => At(r, n + 1)
      /\ n = Len(input) + 1 => At(r, n)
  BY NeedsOn
<1>2. n \in 0..(Len(input) + 1) /\ Len(input) \in Nat /\ DOMAIN input = 1..Len(input)
  BY AtToken
<1>3. RBracket \notin {"IDENTIFIER", "STRING"}
  BY Zenon DEF RBracket
<1>4. r.t = RBracket /\ RBracket \in InputTokens
  BY <1>1, <1>3, TypeIs, SinglesAreTokens
<1> HIDE DEF r
<1>5. n # Len(input) + 1
  <2>1. Len(input) + 1 \notin DOMAIN input
    BY <1>2
  <2> QED
    BY <1>1, <1>4, <2>1, AtToken
<1>6. At(r, n + 1)
  BY <1>1, <1>5
<1> QED
  BY <1>2, <1>4, <1>6, AtToken DEF r

LEMMA ServerOrPathThere ==
    ASSUME NEW i, Here(i), ServerOrPath, Goes
    PROVE  \E j : There(j)
<1>0. /\ IInv /\ input \in Seq(InputTokens) /\ Len(input) \in Nat /\ DOMAIN input = 1..Len(input)
      /\ TextClosed
  BY HereIs, HereTree DEF Here
<1>1. /\ pc = "getModule" /\ reader.t = LBracket /\ reader' = Resume(SPBehind)
      /\ built' = IF ~SPEnd.ok THEN built ELSE Append(built, SPModule)
      /\ IF SPEnd.ok /\ SPBehind.ok
         THEN CallNextModule(Len(built) + 1, stack) /\ UNCHANGED returned
         ELSE Return(NULL) /\ UNCHANGED stack
  <2>1. "[" = LBracket
    BY Zenon DEF LBracket
  <2> QED
    BY <2>1, ServerOrPathParts
<1>2. /\ Later(reader, SPFirst) /\ Later(SPFirst, SPName) /\ Later(SPName, SPBracket)
      /\ Later(SPBracket, SPEnd) /\ Later(SPEnd, Resume(SPEnd)) /\ Later(Resume(SPEnd), SPBehind)
  BY <1>0, ServerOrPathGood
<1>3. /\ Good(SPBehind) /\ ~SPBehind.hasErrors /\ ~SPEnd.hasErrors /\ ~SPBracket.hasErrors
      /\ ~SPName.hasErrors /\ ~SPFirst.hasErrors /\ SPEnd.ok /\ SPBehind.ok
  <2>1. Good(SPBehind) /\ reader'.hasErrors = SPBehind.hasErrors
    BY <1>1, <1>2, ResumeGood DEF Later
  <2>2. ~SPBehind.hasErrors
    BY <2>1 DEF Goes, CleanAt
  <2>3. ~SPEnd.hasErrors
    BY <1>2, <2>2 DEF Later
  <2>4. ~SPBracket.hasErrors
    BY <1>2, <2>3 DEF Later
  <2>5. ~SPName.hasErrors
    BY <1>2, <2>4 DEF Later
  <2> QED
    BY <1>2, <2>1, <2>2, <2>3, <2>4, <2>5 DEF Later, Good
<1>4. built' = Append(built, SPModule) /\ CallNextModule(Len(built) + 1, stack)
  BY <1>1, <1>3
<1>5. /\ At(reader, i) /\ Begins(i) /\ Between(stack, built, Len(stack), i)
      /\ NoneActive(stack, Len(stack))
  BY <1>1 DEF Here, ReadsOf
<1>6. i \in DOMAIN input /\ input[i] = LBracket /\ i \in Nat \ {0} /\ i # Len(input) + 1
      /\ reader.pos = i + 1
  <2>1. reader.t \in InputTokens
    BY <1>1, SinglesAreTokens
  <2>2. i \in DOMAIN input /\ input[i] = LBracket /\ reader.pos = i + 1
    BY <1>0, <1>1, <1>5, <2>1, AtToken
  <2> QED
    BY <1>0, <2>2
<1>7. i \in Heads
  <2>1. {Semicolon, LBrace, Greater} \cap (Names \cup {LBracket}) = {}
    BY SinglesDiffer, SinglesAreTokens
  <2>2. i = 1 \/ input[i - 1] \notin Names \cup {LBracket}
    BY <1>5, <2>1 DEF Begins
  <2> QED
    BY <1>6, <2>2, HeadIs
<1>8. At(SPFirst, i + 1)
  BY <1>0, <1>3, <1>5, <1>6, SPWithBrackets, ReadsOn
\* The name is at n, behind one bracket or two; the last bracket is at e.
<1>9. \E n \in Nat : \E e \in Nat :
        /\ At(SPName, n) /\ At(SPEnd, e) /\ input[n - 1] = LBracket /\ n \in DOMAIN input
        /\ i < n /\ n < e /\ e \in DOMAIN input
        /\ \A k \in (i + 1)..(n - 1) : input[k] = LBracket /\ input[k - 1] = LBracket
        /\ \A k \in (n + 1)..e : input[k] = RBracket
  <2>1. CASE SPFirst.t # LBracket
    <3>1. SPName = SPFirst /\ SPEnd = Need(SPFirst, RBracket)
      BY <2>1, SPWithBrackets
    <3>2. At(SPEnd, (i + 1) + 1) /\ (i + 1) + 1 \in DOMAIN input /\ input[(i + 1) + 1] = RBracket
      BY <1>0, <1>3, <1>8, <3>1, BracketRead
    <3>3. PICK n, e : n = i + 1 /\ e = (i + 1) + 1
      OBVIOUS
    <3>4. /\ n - 1 = i /\ n \in Nat /\ e \in Nat /\ n \in DOMAIN input /\ i < n /\ n < e
          /\ \A k \in (i + 1)..(n - 1) : FALSE
          /\ \A k \in (n + 1)..e : k = e
      BY <1>0, <1>6, <3>2, <3>3
    <3> QED
      BY <1>6, <1>8, <3>1, <3>2, <3>3, <3>4
  <2>2. CASE SPFirst.t = LBracket
    <3>1. SPName = Read(SPFirst) /\ SPBracket = Need(SPName, RBracket) /\ SPEnd = Need(SPBracket, RBracket)
      BY <2>2, SPWithBrackets
    <3>2. i + 1 \in DOMAIN input /\ input[i + 1] = LBracket /\ i + 1 # Len(input) + 1
      <4>1. SPFirst.t \in InputTokens
        BY <2>2, SinglesAreTokens
      <4>2. i + 1 \in DOMAIN input /\ input[i + 1] = LBracket
        BY <1>0, <1>8, <2>2, <4>1, AtToken
      <4> QED
        BY <1>0, <4>2
    <3>3. At(SPName, (i + 1) + 1)
      BY <1>0, <1>3, <1>8, <3>1, <3>2, ReadsOn
    <3>4. PICK n : n = (i + 1) + 1
      OBVIOUS
    <3>5. At(SPName, n)
      BY <3>3, <3>4
    <3>6. At(SPBracket, n + 1) /\ n + 1 \in DOMAIN input /\ input[n + 1] = RBracket
      BY <1>0, <1>3, <3>1, <3>5, BracketRead
    <3>7. PICK l : l = n + 1
      OBVIOUS
    <3>8. At(SPEnd, l + 1) /\ l + 1 \in DOMAIN input /\ input[l + 1] = RBracket
      <4>1. At(SPBracket, l)
        BY <3>6, <3>7
      <4> QED
        BY <1>0, <1>3, <3>1, <4>1, BracketRead
    <3>9. PICK e : e = l + 1
      OBVIOUS
    <3>10. /\ n - 1 = i + 1 /\ n \in Nat /\ e \in Nat /\ n \in DOMAIN input /\ i < n /\ n < e
           /\ \A k \in (i + 1)..(n - 1) : k = i + 1 /\ k - 1 = i
           /\ \A k \in (n + 1)..e : k = l \/ k = e
      BY <1>0, <1>6, <3>4, <3>7, <3>8, <3>9
    <3>11. \A k \in (i + 1)..(n - 1) : input[k] = LBracket /\ input[k - 1] = LBracket
      BY <1>6, <3>2, <3>10
    <3>12. \A k \in (n + 1)..e : input[k] = RBracket
      BY <3>6, <3>7, <3>8, <3>9, <3>10
    <3>13. input[n - 1] = LBracket /\ At(SPEnd, e) /\ e \in DOMAIN input
      BY <3>2, <3>8, <3>9, <3>10
    <3> QED
      BY <3>5, <3>10, <3>11, <3>12, <3>13
  <2> QED
    BY <2>1, <2>2
<1>10. PICK n \in Nat : \E e \in Nat :
        /\ At(SPName, n) /\ At(SPEnd, e) /\ input[n - 1] = LBracket /\ n \in DOMAIN input
        /\ i < n /\ n < e /\ e \in DOMAIN input
        /\ \A k \in (i + 1)..(n - 1) : input[k] = LBracket /\ input[k - 1] = LBracket
        /\ \A k \in (n + 1)..e : input[k] = RBracket
  BY <1>9
<1>11. PICK e \in Nat :
        /\ At(SPName, n) /\ At(SPEnd, e) /\ input[n - 1] = LBracket /\ n \in DOMAIN input
        /\ i < n /\ n < e /\ e \in DOMAIN input
        /\ \A k \in (i + 1)..(n - 1) : input[k] = LBracket /\ input[k - 1] = LBracket
        /\ \A k \in (n + 1)..e : input[k] = RBracket
  BY <1>10
<1>12. At(SPBehind, e + 1) /\ reader' = SPBehind
  <2>1. SPBehind = Read(SPEnd)
    BY <1>11, ResumeAt DEF SPBehind
  <2>2. e # Len(input) + 1
    BY <1>0, <1>11
  <2>3. At(SPBehind, e + 1)
    BY <1>0, <1>3, <1>11, <2>1, <2>2, ReadsOn
  <2> QED
    BY <1>1, <2>3, ResumeAt
<1>13. \A k \in i..((e + 1) - 1) : k = i \/ k \in (i + 1)..(n - 1) \/ k = n \/ k \in (n + 1)..e
  BY <1>6, <1>11
<1>14. {LBracket, RBracket} \cap {Semicolon, LBrace, RBrace} = {}
  BY SinglesDiffer
<1>15. input[n] \notin {Semicolon, LBrace, RBrace}
  <2>0. PICK h : h = n - 1
    OBVIOUS
  <2>1. h \in DOMAIN input /\ input[h] = LBracket /\ h + 1 = n
    BY <1>0, <1>6, <1>11, <2>0
  <2>2. PICK j \in (h + 1)..Len(input) :
            input[j] \in Closers /\ \A k \in (h + 1)..(j - 1) : input[k] \in InParentheses
    BY <1>0, <2>1, TextClosedIs
  <2>3. j = n \/ n \in (h + 1)..(j - 1)
    BY <1>0, <1>6, <1>11, <2>0, <2>1, <2>2
  <2>4. (Closers \cup InParentheses) \cap {Semicolon, LBrace, RBrace} = {}
    BY SinglesDiffer, SinglesAreTokens DEF Closers, InParentheses
  <2> QED
    BY <2>2, <2>3, <2>4
<1>16. Quiet(i, e + 1)
  <2>1. \A k \in i..((e + 1) - 1) : input[k] \notin {Semicolon, LBrace, RBrace}
    BY <1>6, <1>11, <1>13, <1>14, <1>15
  <2> QED
    BY <2>1 DEF Quiet
<1>17. \A k \in (i + 1)..((e + 1) - 1) : k \notin Heads
  <2>1. \A k \in (i + 1)..((e + 1) - 1) : k \in (i + 1)..(n - 1) \/ k = n \/ k \in (n + 1)..e
    BY <1>6, <1>11
  <2>2. ASSUME NEW k \in Nat, k > 1, input[k - 1] = LBracket PROVE k \notin Heads
    <3>1. k # 1
      BY <2>2
    <3> QED
      BY <2>2, <3>1, HeadIs
  <2>3. \A k \in (i + 1)..(n - 1) : k \in Nat /\ k > 1
    BY <1>6, <1>11
  <2>4. n > 1
    BY <1>6, <1>11
  <2>5. ASSUME NEW k \in (n + 1)..e PROVE k \notin Heads
    <3>1. RBracket \notin Names \cup {LBracket}
      BY SinglesAreTokens, SinglesDiffer
    <3> QED
      BY <1>11, <3>1, HeadTokens
  <2> QED
    BY <1>11, <2>1, <2>2, <2>3, <2>4, <2>5
<1>18. Plain(i, e + 1)
  BY <1>16, <1>17 DEF Plain
<1> DEFINE f == [fn |-> "chain", me |-> Len(built) + 1]
<1>19. f \in Frames /\ f.fn = "chain" /\ f.me = Len(built) + 1
  <2>1. Len(built) + 1 \in Nat
    BY <1>0 DEF IInv, Shape, TreeOK
  <2> QED
    BY <2>1 DEF Frames
<1>20. stack' = Append(stack, f) /\ pc' = "getNextModule"
  BY <1>4 DEF CallNextModule
<1> HIDE DEF f
<1>21. NewModule(SPModule) /\ SPModule.at = i
  <2>1. Place = i
    BY <1>6, HereTree DEF Place, Outside
  <2> QED
    BY <1>0, <1>1, <2>1, SPModuleIsNew
<1>22. At(reader', e + 1) /\ i < e + 1
  BY <1>6, <1>11, <1>12
<1>23. AtNext(reader', stack', built', Len(stack'), e + 1)
  BY <1>4, <1>5, <1>7, <1>18, <1>19, <1>20, <1>21, <1>22, ChainBegins
<1>24. There(e + 1)
  BY <1>20, <1>22, <1>23 DEF There, ReadsOf, Pendings
<1> QED
  BY <1>24

LEMMA EndBlockThere ==
    ASSUME NEW i, Here(i), EndBlock, Goes
    PROVE  \E j : There(j)
<1>0. /\ IInv /\ OwnInv /\ input \in Seq(InputTokens) /\ Len(input) \in Nat
      /\ DOMAIN input = 1..Len(input)
  BY HereIs, HereTree
<1>1. /\ pc = "return" /\ stack # <<>> /\ Top.fn = "block" /\ reader.t = RBrace
      /\ reader' = Resume(Read(reader)) /\ UNCHANGED built
      /\ (Read(reader).ok /\ returned # NULL) => CallNextModule(returned, Pop)
  BY Zenon DEF EndBlock, RBrace
<1>2. OpensList(stack)
  BY <1>1, HereTree DEF OpensList
<1>3. /\ At(reader, i) /\ Depth(i - 1) = Blocks(stack, Len(stack)) /\ MadeOf(built) = Before(i)
      /\ Opens(built, stack, Len(stack)) = OpenText(i) /\ NoneActive(stack, Len(stack) - 1)
  BY <1>1, <1>2 DEF Here, ReadsOf, ReturnsTo
<1>4. i \in DOMAIN input /\ input[i] = RBrace /\ i \in Nat \ {0} /\ i # Len(input) + 1
  <2>1. reader.t \in InputTokens
    BY <1>1, SinglesAreTokens
  <2>2. i \in DOMAIN input /\ input[i] = RBrace
    BY <1>0, <1>1, <1>3, <2>1, AtToken
  <2> QED
    BY <1>0, <2>2
<1>5. At(reader', i + 1) /\ Read(reader).ok
  BY <1>1, <1>4, ReadHere
<1>6. returned # NULL /\ returned # NullModule
  <2>1. returned # NULL
    BY <1>0, <1>1, HereIs DEF IInv, Noted, Waits
  <2> QED
    BY <1>0, <1>1, <1>2, <2>1 DEF OwnInv, Opened
<1>7. CallNextModule(returned, Pop) /\ returned \in DOMAIN built
  <2>1. returned \in DOMAIN built
    BY <1>0, <1>6 DEF IInv, Shape, Ids
  <2> QED
    BY <1>1, <1>5, <1>6, <2>1
<1> DEFINE f == [fn |-> "chain", me |-> returned]
<1>8. f \in Frames /\ f.fn = "chain" /\ f.me = returned
  <2>1. returned \in Nat
    BY <1>0, <1>7 DEF IInv, Shape, TreeOK
  <2> QED
    BY <2>1 DEF Frames
<1>9. stack' = Append(Pop, f) /\ pc' = "getNextModule"
  BY <1>7 DEF CallNextModule
<1> HIDE DEF f
<1>10. built[returned].at = 0
  BY <1>1, <1>2, <1>6, HereTree DEF Structure, Given
<1>11. /\ Len(Pop) \in Nat
       /\ Blocks(stack, Len(stack)) = Blocks(Pop, Len(Pop)) + 1 /\ Blocks(Pop, Len(Pop)) \in Nat
       /\ Opens(built, stack, Len(stack)) = Opens(built, Pop, Len(Pop))
       /\ NoneActive(Pop, Len(Pop))
  <2>1. Opener(Top, built, Blocks(stack, Len(stack))) = {}
    BY <1>1 DEF Opener
  <2> QED
    BY <1>1, <1>3, <2>1, PopHere
<1>12. /\ Len(stack') = Len(Pop) + 1 /\ stack'[Len(Pop) + 1] = f
       /\ Blocks(stack', Len(Pop) + 1) = Blocks(Pop, Len(Pop))
       /\ Opens(built, stack', Len(Pop) + 1) = Opens(built, Pop, Len(Pop))
  <2>1. /\ Len(stack') = Len(Pop) + 1 /\ stack'[Len(Pop) + 1] = f
        /\ Blocks(stack', Len(Pop) + 1) = Blocks(Pop, Len(Pop)) + IF f.fn = "block" THEN 1 ELSE 0
        /\ Opens(built, stack', Len(Pop) + 1)
             = Opens(built, Pop, Len(Pop)) \cup Opener(f, built, Blocks(stack', Len(Pop) + 1))
    BY <1>1, <1>8, <1>9, HereTree, PushMeasures
  <2>2. Opener(f, built, Blocks(stack', Len(Pop) + 1)) = {}
    BY <1>8, <1>10 DEF Opener
  <2>3. Opens(built, stack', Len(Pop) + 1) = Opens(built, Pop, Len(Pop))
    BY <2>1, <2>2
  <2>4. Blocks(stack', Len(Pop) + 1) = Blocks(Pop, Len(Pop))
    BY <1>8, <1>11, <2>1
  <2> QED
    BY <2>1, <2>3, <2>4
<1>13. i \notin Heads
  BY <1>4, SinglesAreTokens, SinglesDiffer, HeadTokens
<1>14. OpenText(i + 1) = OpenText(i) /\ Before(i + 1) = Before(i)
  <2>1. OpenAt(i + 1) = OpenAt(i) /\ Before(i + 1) = Before(i)
    BY <1>0, <1>4, <1>13, TokenOpens, SinglesDiffer
  <2> QED
    BY <2>1 DEF OpenText
<1>15. Depth(i) = Depth(i - 1) - 1
  BY <1>0, <1>3, <1>4, <1>11, DepthStep, SinglesDiffer
<1>16. PICK j : j = i + 1
  OBVIOUS
<1>17. j \in Nat \ {0} /\ Depth(j - 1) = Depth(i)
  <2>1. j - 1 = i /\ j \in Nat \ {0}
    BY <1>4, <1>16
  <2> QED
    BY <2>1
<1>18. Between(stack', built', Len(stack'), j)
  BY <1>1, <1>3, <1>11, <1>12, <1>14, <1>15, <1>16, <1>17 DEF Between
<1>19. NoneActive(stack', Len(stack') - 1)
  BY <1>1, <1>8, <1>9, <1>11, HereTree, NoneActivePush
<1>20. Len(stack') \in Nat \ {0} /\ stack'[Len(stack')].me # NullModule
  BY <1>6, <1>8, <1>11, <1>12
<1>21. AtNext(reader', stack', built', Len(stack'), j)
  BY <1>5, <1>16, <1>18, <1>19, <1>20 DEF AtNext
<1>22. There(j)
  BY <1>5, <1>9, <1>16, <1>21 DEF There, ReadsOf, Pendings
<1> QED
  BY <1>22

LEMMA GetNextModuleThere ==
    ASSUME NEW i, Here(i), GetNextModule, Goes
    PROVE  \E j : There(j)
<1>0. /\ IInv /\ OwnInv /\ input \in Seq(InputTokens) /\ Len(input) \in Nat
      /\ DOMAIN input = 1..Len(input) /\ ActivationLast
  BY HereIs, HereTree DEF Here
<1>1. /\ pc = "getNextModule" /\ reader.t \in {Semicolon, Dash}
      /\ At(reader, i) /\ Between(stack, built, Len(stack), i)
      /\ Len(stack) \in Nat \ {0} /\ NoneActive(stack, Len(stack) - 1)
      /\ stack[Len(stack)].me = NullModule => Activated(i)
  BY DEF Here, ReadsOf, CleanAt, AtNext, GetNextModule
<1>2. i \in DOMAIN input /\ input[i] = reader.t /\ i \in Nat \ {0} /\ i # Len(input) + 1
  <2>1. reader.t \in InputTokens
    BY <1>1, SinglesAreTokens
  <2>2. i \in DOMAIN input /\ input[i] = reader.t
    BY <1>0, <1>1, <2>1, AtToken
  <2> QED
    BY <1>0, <2>2
<1>3. i \notin Heads
  BY <1>1, <1>2, SinglesAreTokens, SinglesDiffer, HeadTokens
<1>4. /\ stack # <<>> /\ Top.fn = "chain" /\ ~OpensList(stack)
  BY <1>0, <1>1, HereTree DEF IInv, Called, Waits, OpensList
<1>a. /\ reader.t = Semicolon => reader' = Resume(Read(reader)) /\ Return(NULL)
      /\ reader.t = Dash =>
           /\ reader' = Resume(Read(Need(reader, Greater)))
           /\ Read(Need(reader, Greater)).ok => pc' = "getModule"
      /\ UNCHANGED <<stack, built>>
  <2>1. GetNextModule <=>
          /\ pc = "getNextModule"
          /\ \E arrow \in {Need(reader, Greater)} : \E behind \in {Read(arrow)} :
               CASE reader.t = Semicolon -> reader' = Resume(Read(reader)) /\ Return(NULL)
                 [] reader.t = Dash ->
                      /\ reader' = Resume(behind)
                      /\ IF behind.ok THEN pc' = "getModule" /\ UNCHANGED returned
                         ELSE Return(NULL)
                 [] OTHER -> reader' = PrintError(reader) /\ Return(NULL)
          /\ UNCHANGED <<input, stack, params, built, deleted, registered>>
    BY Zenon DEF GetNextModule, Greater, Semicolon, Dash
  <2>2. Semicolon # Dash
    BY SinglesDiffer
  <2> QED
    BY <2>1, <2>2
<1>5. CASE reader.t = Semicolon
  <2>1. reader' = Resume(Read(reader)) /\ pc' = "return"
    BY <1>5, <1>a DEF Return
  <2>2. PICK j : j = i + 1
    OBVIOUS
  <2>3. At(reader', j)
    BY <1>2, <2>1, <2>2, ReadHere
  <2>4. j \in Nat \ {0} /\ j > 1 /\ j - 1 = i
    BY <1>2, <2>2
  <2>5. Depth(i) = Depth(i - 1) /\ Depth(i - 1) \in Int
    <3>1. i - 1 \in 0..Len(input)
      BY <1>0, <1>2
    <3> QED
      BY <1>0, <1>2, <1>5, <3>1, DepthStep, SinglesDiffer
  <2>6. /\ OpenAt(j) = {h \in OpenAt(i) : Depth(i) > Depth(h)} /\ Before(j) = Before(i)
    BY <1>0, <1>2, <1>3, <1>5, <2>2, TokenOpens
  <2>7. Lower(built, stack, Len(stack)) = OpenText(j)
    <3>1. Blocks(stack, Len(stack)) = Depth(i) /\ Opens(built, stack, Len(stack)) = OpenText(i)
      BY <1>1, <2>5 DEF Between
    <3>2. Lower(built, stack, Len(stack)) = {o \in OpenText(i) : o[2] < Depth(i)}
      BY <3>1 DEF Lower
    <3>3. \A h \in OpenAt(i) : Depth(h) \in Int
      <4>1. OpenAt(i) \subseteq Heads
        BY DEF OpenAt
      <4>2. Heads \subseteq 0..Len(input)
        BY <1>0, HeadsAre
      <4> QED
        BY <1>0, <4>1, <4>2, DepthStep
    <3>4. \A h \in OpenAt(i) : Depth(h) < Depth(i) <=> Depth(i) > Depth(h)
      BY <2>5, <3>3
    <3>5. {o \in OpenText(i) : o[2] < Depth(i)} = {<<h, Depth(h)>> : h \in {g \in OpenAt(i) : Depth(g) < Depth(i)}}
      BY DEF OpenText
    <3>6. {g \in OpenAt(i) : Depth(g) < Depth(i)} = OpenAt(j)
      BY <2>6, <3>4
    <3> QED
      BY <3>2, <3>5, <3>6 DEF OpenText
  <2>8. ReturnsTo(stack', built', j)
    BY <1>1, <1>2, <1>4, <1>5, <1>a, <2>4, <2>5, <2>6, <2>7 DEF ReturnsTo, Between
  <2>9. There(j)
    BY <2>1, <2>3, <2>8 DEF There, ReadsOf, Pendings
  <2> QED
    BY <2>9
<1>6. CASE reader.t = Dash
  <2> DEFINE arrow == Need(reader, Greater)
  <2>1. reader' = Resume(Read(arrow)) /\ (Read(arrow).ok => pc' = "getModule")
    BY <1>6, <1>a
  <2>2. Good(reader) /\ Good(arrow) /\ Good(Read(arrow)) /\ (~Read(arrow).hasErrors => ~arrow.hasErrors)
    <3>1. Good(reader)
      BY <1>1 DEF At
    <3>2. Good(arrow)
      BY <3>1, LaterReads
    <3> QED
      BY <3>1, <3>2, LaterReads
  <2>3. ~Read(arrow).hasErrors /\ ~arrow.hasErrors /\ Read(arrow).ok
    <3>1. reader'.hasErrors = Read(arrow).hasErrors
      BY <2>1, <2>2, ResumeGood
    <3> QED
      BY <2>2, <3>1 DEF Goes, CleanAt, Good
  <2>4. At(arrow, i + 1) /\ Type(Read(reader).t) = Greater /\ arrow = Read(reader)
    BY <1>0, <1>1, <1>2, <2>3, NeedsOn
  <2> HIDE DEF arrow
  <2>5. i + 1 \in DOMAIN input /\ input[i + 1] = Greater /\ i + 1 # Len(input) + 1
    <3>1. Greater \notin {"IDENTIFIER", "STRING"}
      BY Zenon DEF Greater
    <3>2. arrow.t = Greater /\ Greater \in InputTokens
      BY <2>4, <3>1, TypeIs, SinglesAreTokens
    <3>3. i + 1 \in DOMAIN input /\ input[i + 1] = Greater
      BY <1>0, <2>4, <3>2, AtToken
    <3> QED
      BY <1>0, <3>3
  <2>6. At(Read(arrow), (i + 1) + 1)
    BY <1>0, <2>3, <2>4, <2>5, ReadsOn
  <2>7. PICK j : j = (i + 1) + 1
    OBVIOUS
  <2>8. At(reader', j) /\ pc' = "getModule"
    BY <2>1, <2>3, <2>6, <2>7, ResumeAt
  <2>9. /\ j \in Nat \ {0} /\ j - 1 = i + 1 /\ j \in (i + 1)..(Len(input) + 1)
        /\ \A k \in i..(j - 1) : k = i \/ k = i + 1
        /\ \A k \in (i + 1)..(j - 1) : k = i + 1
    BY <1>0, <1>2, <2>5, <2>7
  <2>10. Begins(j)
    BY <2>5, <2>9 DEF Begins
  <2>11. Quiet(i, j)
    <3>1. {Dash, Greater} \cap {Semicolon, LBrace, RBrace} = {}
      BY SinglesDiffer
    <3>2. \A k \in i..(j - 1) : input[k] \in {Dash, Greater}
      BY <1>2, <1>6, <2>5, <2>9
    <3> QED
      BY <3>1, <3>2 DEF Quiet
  <2>12. i + 1 \notin Heads
    BY <2>5, SinglesAreTokens, SinglesDiffer, HeadTokens
  <2>13. OpenText(j) = OpenText(i) /\ Before(j) = Before(i) /\ Depth(j - 1) = Depth(i - 1)
    BY <1>0, <1>2, <1>3, <2>9, <2>11, <2>12, HeadOpens
  <2>14. Between(stack', built', Len(stack'), j)
    BY <1>1, <1>a, <2>9, <2>13 DEF Between
  <2>15. ~Activated(i)
    <3> SUFFICES ASSUME Activated(i) PROVE FALSE
      OBVIOUS
    <3>1. PICK k \in 1..(i - 1) : input[k] = "ActivateModule" /\ \A l \in k..(i - 1) : input[l] # Semicolon
      BY DEF Activated
    <3>2. k \in DOMAIN input /\ k < i /\ k \in Nat
      BY <1>0, <1>2, <3>1
    <3>3. PICK l \in k..i : input[l] = Semicolon
      BY <1>0, <1>2, <1>6, <3>1, <3>2, ActivationLastIs
    <3>4. l = i \/ l \in k..(i - 1)
      BY <1>2, <3>2, <3>3
    <3> QED
      BY <1>2, <1>6, <3>1, <3>3, <3>4, SinglesDiffer
  <2>16. NoneActive(stack', Len(stack'))
    <3>1. stack[Len(stack)].me # NullModule /\ stack' = stack
      BY <1>1, <1>a, <2>15
    <3> QED
      BY <1>1, <3>1 DEF NoneActive
  <2>17. There(j)
    BY <2>8, <2>10, <2>14, <2>16 DEF There, ReadsOf, Pendings
  <2> QED
    BY <2>17
<1> QED
  BY <1>1, <1>5, <1>6

LEMMA InputKeeps ==
    ASSUME UNCHANGED input
    PROVE  /\ Heads' = Heads
           /\ \A i : Depth(i)' = Depth(i)
           /\ \A i : Before(i)' = Before(i)
           /\ \A i : OpenText(i)' = OpenText(i)
           /\ \A i : Begins(i)' = Begins(i)
           /\ \A i : Activated(i)' = Activated(i)
           /\ \A q, i : Plain(q, i)' = Plain(q, i)
           /\ \A q, i : InParams(q, i)' = InParams(q, i)
<1>1. Heads' = Heads
  BY DEF Heads
<1>2. ASSUME NEW i PROVE Depth(i)' = Depth(i)
  BY DEF Depth
<1>3. ASSUME NEW i PROVE Before(i)' = Before(i)
  BY <1>1 DEF Before
<1>4. ASSUME NEW i PROVE OpenText(i)' = OpenText(i)
  BY <1>1, <1>2 DEF OpenText, OpenAt
<1>5. ASSUME NEW i PROVE Begins(i)' = Begins(i)
  BY DEF Begins
<1>6. ASSUME NEW i PROVE Activated(i)' = Activated(i)
  BY DEF Activated
<1>7. ASSUME NEW q, NEW i PROVE Plain(q, i)' = Plain(q, i)
  BY <1>1 DEF Plain, Quiet
<1>8. ASSUME NEW q, NEW i PROVE InParams(q, i)' = InParams(q, i)
  BY <1>1 DEF InParams
<1> QED
  BY <1>1, <1>2, <1>3, <1>4, <1>5, <1>6, <1>7, <1>8

LEMMA NextKept ==
    ASSUME UNCHANGED input, NEW i, AtNext(reader', stack', built', Len(stack'), i)
    PROVE  AtNext(reader, stack, built, Len(stack), i)'
  BY InputKeeps DEF AtNext, At, Between

LEMMA ThereKept ==
    ASSUME UNCHANGED input, NEW j, There(j)
    PROVE  ReadsOf(reader, pc, stack, built, params, j)'
<1>1. At(reader', j) = At(reader, j)'
  BY DEF At
<1> QED
  BY <1>1, NextKept, InputKeeps DEF There, ReadsOf, Between, Pending, ReturnsTo

-----------------------------------------------------------------------------
(* No error is taken back *)

LEMMA StepKeepsInput == Step => UNCHANGED input
<1>1. ReadParameters => UNCHANGED input
  BY DEF ReadParameters
<1>2. Positional => UNCHANGED input
  BY DEF Positional
<1>3. Named => UNCHANGED input
  BY DEF Named
<1>4. ServerOrPath => UNCHANGED input
  BY ServerOrPathParts
<1>5. GetNextModule => UNCHANGED input
  BY DEF GetNextModule
<1>6. CannotOpen \/ GetRoot \/ GetModuleList \/ ListTakes \/ DropList \/ Identifier
      \/ StatsOutOfRange \/ Unexpected \/ Block \/ DeletedTwice \/ UsedDeleted
      => UNCHANGED input
  BY DEF CannotOpen, GetRoot, GetModuleList, ListTakes, ListPuts, DropList, Identifier,
         StatsOutOfRange, Unexpected, Block, DeletedTwice, UsedDeleted
<1>7. Construct \/ Activate => UNCHANGED input
  BY DEF Construct, Activate
<1>8. EndBlock \/ UnbalancedBlock \/ Chain => UNCHANGED input
  BY DEF EndBlock, UnbalancedBlock, DeleteBlock, Chain, EndChain
<1>9. Include \/ IncludeFile \/ IncludeTakes \/ IncludeEnds => UNCHANGED input
  BY DEF Include, IncludeFile, IncludeTakes, IncludeEnds
<1> QED
  BY <1>1, <1>2, <1>3, <1>4, <1>5, <1>6, <1>7, <1>8, <1>9 DEF Step

\* What was read before is without an error if what is read on is.
LEMMA CleanReads ==
    ASSUME IInv, reader' = Resume(Read(reader)), Goes
    PROVE  ~reader.hasErrors
<1>1. Good(reader)
  BY IdleIsGood DEF IInv, Shape
<1>2. Good(Read(reader)) /\ (~Read(reader).hasErrors => ~reader.hasErrors)
  BY <1>1, LaterReads
<1>3. ~Read(reader).hasErrors
  BY <1>2, ResumeGood DEF Goes, CleanAt
<1> QED
  BY <1>2, <1>3

LEMMA CleanBeforeReading ==
    ASSUME IInv, GetRoot \/ Identifier \/ Block \/ EndBlock, Goes
    PROVE  CleanAt(reader, pc)
<1>1. /\ reader' = Resume(Read(reader))
      /\ pc \in {"getRoot", "getModule", "return"}
  BY DEF GetRoot, Identifier, Block, EndBlock
<1>2. ~reader.hasErrors
  BY <1>1, CleanReads
<1> QED
  BY <1>1, <1>2 DEF CleanAt

LEMMA CleanBeforeReturning ==
    ASSUME IInv, GetModuleList \/ ListTakes \/ Chain, Goes
    PROVE  CleanAt(reader, pc)
<1>1. UNCHANGED reader /\ pc \in {"getModuleList", "return"}
  BY DEF GetModuleList, ListTakes, ListPuts, Chain, EndChain
<1> QED
  BY <1>1 DEF CleanAt, Goes

LEMMA CleanBeforeParameters ==
    ASSUME IInv, ReadParameters \/ Positional \/ Named, Goes
    PROVE  CleanAt(reader, pc)
<1>0. Good(reader)
  BY IdleIsGood DEF IInv, Shape
<1>1. CASE ReadParameters
  <2> DEFINE s == Read(reader)
  <2>1. /\ CASE Type(s.t) = "STRING" -> TakePositional(s)
             [] Type(s.t) = "IDENTIFIER" -> CallNamed(s)
             [] OTHER -> EndParameters(s) /\ UNCHANGED params
        /\ pc = "parameters"
    BY <1>1 DEF ReadParameters
  <2>2. Good(s) /\ (~s.hasErrors => ~reader.hasErrors)
    BY <1>0, LaterReads
  <2> HIDE DEF s
  <2>3. ~s.hasErrors
    BY <2>1, <2>2, ErrorStops
  <2> QED
    BY <2>1, <2>2, <2>3 DEF CleanAt
<1>2. CASE Positional
  <2> DEFINE s == IF reader.t = Comma THEN Read(reader) ELSE reader
  <2>0. Positional <=>
          /\ pc = "positional"
          /\ \E x \in {s} :
               CASE Type(x.t) = "IDENTIFIER" -> CallNamed(x)
                 [] reader.t = Comma /\ Type(x.t) = "STRING" -> TakePositional(x)
                 [] reader.t # Comma \/ x.t = RParen -> EndParameters(x) /\ UNCHANGED params
                 [] OTHER -> EndParameters(Expect(x, "STRING")) /\ UNCHANGED params
          /\ UNCHANGED <<input, stack, built, deleted, registered>>
    BY Zenon DEF Positional, Comma, RParen
  <2>1. /\ \/ TakePositional(s) \/ CallNamed(s) \/ EndParameters(s)
           \/ EndParameters(Expect(s, "STRING"))
        /\ pc = "positional"
    BY <1>2, <2>0
  <2>2. Good(s) /\ (~s.hasErrors => ~reader.hasErrors)
    BY <1>0, LaterReads
  <2> HIDE DEF s
  <2>3. Later(s, Expect(s, "STRING"))
    BY <2>2, ExpectGood
  <2>4. Good(Expect(s, "STRING")) /\ (s.hasErrors => Expect(s, "STRING").hasErrors)
    BY <2>3 DEF Later
  <2>5. ~s.hasErrors
    BY <2>1, <2>2, <2>4, ErrorStops, FailedParameters
  <2> QED
    BY <2>1, <2>2, <2>5 DEF CleanAt
<1>3. CASE Named
  <2> DEFINE equals == Need(reader, EqualSign)
             value == Need(equals, "STRING")
             s == Read(value)
             id == Need(s, "IDENTIFIER")
  <2>1. /\ pc = "named"
        /\ CASE s.ok /\ s.t = Comma /\ id.ok -> reader' = id /\ UNCHANGED <<pc, returned>>
             [] s.ok /\ s.t = Comma /\ ~id.ok -> EndParameters(id)
             [] OTHER -> EndParameters(s)
    <3>1. Named <=>
            /\ pc = "named"
            /\ \E e \in {Need(reader, EqualSign)} : \E v \in {Need(e, "STRING")} :
               \E x \in {Read(v)} : \E y \in {Need(x, "IDENTIFIER")} :
                 /\ params' = IF v.ok
                              THEN [params EXCEPT !.named = Set(@, reader.t, Text(v.t))]
                              ELSE params
                 /\ CASE x.ok /\ x.t = Comma /\ y.ok -> reader' = y /\ UNCHANGED <<pc, returned>>
                      [] x.ok /\ x.t = Comma /\ ~y.ok -> EndParameters(y)
                      [] OTHER -> EndParameters(x)
            /\ UNCHANGED <<input, stack, built, deleted, registered>>
      BY Zenon DEF Named, Comma, EqualSign
    <3> QED
      BY <1>3, <3>1
  <2>2. Good(equals) /\ (~equals.hasErrors => ~reader.hasErrors)
    BY <1>0, LaterReads
  <2>3. Good(value) /\ (~value.hasErrors => ~equals.hasErrors)
    BY <2>2, LaterReads
  <2>4. Good(s) /\ (~s.hasErrors => ~value.hasErrors)
    BY <2>3, LaterReads
  <2>5. Good(id) /\ (~id.hasErrors => ~s.hasErrors)
    BY <2>4, LaterReads
  <2> HIDE DEF equals, value, s, id
  <2>6. reader' = id \/ EndParameters(id) \/ EndParameters(s)
    BY <2>1
  <2>7. ~s.hasErrors
    BY <2>4, <2>5, <2>6, FailedParameters DEF Goes, CleanAt
  <2> QED
    BY <2>1, <2>2, <2>3, <2>4, <2>7 DEF CleanAt
<1> QED
  BY <1>1, <1>2, <1>3

LEMMA CleanBeforeMaking ==
    ASSUME IInv, Construct \/ Activate \/ ServerOrPath, Goes
    PROVE  CleanAt(reader, pc)
<1>1. CASE Construct \/ Activate
  <2>1. \/ UNCHANGED reader /\ pc = "construct" /\ pc' = "getNextModule"
        \/ reader' = PrintError(reader)
    BY <1>1 DEF Construct, Activate, CallNextModule
  <2>2. UNCHANGED reader /\ pc = "construct" /\ pc' = "getNextModule"
    BY <2>1, PrintErrorStops
  <2> QED
    BY <2>2 DEF CleanAt, Goes
<1>2. CASE ServerOrPath
  <2>1. /\ Later(reader, SPFirst) /\ Later(SPFirst, SPName) /\ Later(SPName, SPBracket)
        /\ Later(SPBracket, SPEnd) /\ Later(SPEnd, Resume(SPEnd)) /\ Later(Resume(SPEnd), SPBehind)
    BY ServerOrPathGood
  <2>2. pc = "getModule" /\ reader' = Resume(SPBehind)
    BY <1>2, ServerOrPathParts
  <2>3. ~SPBehind.hasErrors
    BY <2>1, <2>2, ResumeGood DEF Later, Goes, CleanAt
  <2>4. ~SPEnd.hasErrors
    BY <2>1, <2>3 DEF Later
  <2>5. ~reader.hasErrors
    BY <2>1, <2>4 DEF Later
  <2> QED
    BY <2>2, <2>5 DEF CleanAt
<1> QED
  BY <1>1, <1>2

LEMMA CleanBeforeNext ==
    ASSUME IInv, GetNextModule, Goes
    PROVE  CleanAt(reader, pc)
<1>0. Good(reader)
  BY IdleIsGood DEF IInv, Shape
<1>1. /\ pc = "getNextModule"
      /\ \/ reader.t = Semicolon /\ reader' = Resume(Read(reader))
         \/ reader.t = Dash /\ reader' = Resume(Read(Need(reader, Greater)))
         \/ reader' = PrintError(reader)
  <2>1. GetNextModule <=>
          /\ pc = "getNextModule"
          /\ \E arrow \in {Need(reader, Greater)} : \E behind \in {Read(arrow)} :
               CASE reader.t = Semicolon -> reader' = Resume(Read(reader)) /\ Return(NULL)
                 [] reader.t = Dash ->
                      /\ reader' = Resume(behind)
                      /\ IF behind.ok THEN pc' = "getModule" /\ UNCHANGED returned
                         ELSE Return(NULL)
                 [] OTHER -> reader' = PrintError(reader) /\ Return(NULL)
          /\ UNCHANGED <<input, stack, params, built, deleted, registered>>
    BY Zenon DEF GetNextModule, Greater, Semicolon, Dash
  <2> QED
    BY <2>1
<1>2. CASE reader.t = Semicolon /\ reader' = Resume(Read(reader))
  BY <1>1, <1>2, CleanReads DEF CleanAt
<1>3. CASE reader.t = Dash /\ reader' = Resume(Read(Need(reader, Greater)))
  <2> DEFINE arrow == Need(reader, Greater)
  <2>1. Good(arrow) /\ (~arrow.hasErrors => ~reader.hasErrors)
    BY <1>0, LaterReads
  <2>2. Good(Read(arrow)) /\ (~Read(arrow).hasErrors => ~arrow.hasErrors)
    BY <2>1, LaterReads
  <2>3. ~Read(arrow).hasErrors
    BY <1>3, <2>2, ResumeGood DEF Goes, CleanAt
  <2>4. ~reader.hasErrors
    BY <2>1, <2>2, <2>3
  <2> QED
    BY <1>1, <1>3, <2>4 DEF CleanAt
<1> QED
  BY <1>1, <1>2, <1>3, PrintErrorStops

\* Outside of Includes no file is read.
LEMMA OutsideReadsNoFile ==
    ASSUME IInv, Outside
    PROVE  ~IncludeFile /\ ~IncludeTakes /\ ~IncludeEnds
<1>1. stack # <<>> => Len(stack) \in DOMAIN stack
  BY DEF IInv, Shape, CallsOK
<1>2. stack # <<>> => Top.fn # "include"
  BY <1>1 DEF Outside, Top
<1>3. pc # "include"
  BY <1>2 DEF IInv, Called, Waits
<1> QED
  BY <1>2, <1>3 DEF IncludeFile, IncludeTakes, IncludeEnds

\* A step that goes on has begun without an error.
LEMMA CleanBefore ==
    ASSUME IInv, OwnInv, Outside, Step, ~Include, Goes
    PROVE  CleanAt(reader, pc)
<1>1. CASE CannotOpen \/ Unexpected \/ UnbalancedBlock
  <2>1. CannotOpen => FALSE
    BY CannotOpenThere
  <2>2. Unexpected \/ UnbalancedBlock => reader' = PrintError(reader)
    BY DEF Unexpected, UnbalancedBlock, DeleteBlock
  <2> QED
    BY <1>1, <2>1, <2>2, PrintErrorStops
<1>2. CASE StatsOutOfRange \/ DeletedTwice \/ UsedDeleted
  BY <1>2 DEF StatsOutOfRange, DeletedTwice, UsedDeleted, Goes, CleanAt
<1>3. CASE DropList
  BY <1>3 DEF DropList, Goes
<1> QED
  BY <1>1, <1>2, <1>3, CleanBeforeReading, CleanBeforeReturning, CleanBeforeParameters,
     CleanBeforeMaking, CleanBeforeNext, OutsideReadsNoFile DEF Step

\* It has read what it goes on with.
LEMMA OutsideThere ==
    ASSUME NEW i, Here(i), Step, ~Include, Goes
    PROVE  \E j : There(j)
<1>0. IInv /\ Outside
  BY HereTree
<1>1. ~CannotOpen /\ ~Unexpected /\ ~UnbalancedBlock
  <2>1. ~CannotOpen
    BY <1>0, CannotOpenThere
  <2>2. Unexpected \/ UnbalancedBlock => reader' = PrintError(reader)
    BY DEF Unexpected, UnbalancedBlock, DeleteBlock
  <2> QED
    BY <1>0, <2>1, <2>2, PrintErrorStops
<1>2. ~StatsOutOfRange /\ ~DeletedTwice /\ ~UsedDeleted
  BY DEF StatsOutOfRange, DeletedTwice, UsedDeleted, Goes, CleanAt
<1>3. ~DropList /\ ~IncludeFile /\ ~IncludeTakes /\ ~IncludeEnds
  BY <1>0, DropListThere, OutsideReadsNoFile
<1> QED
  BY <1>1, <1>2, <1>3, GetRootThere, GetModuleListThere, ListTakesThere, IdentifierThere,
     ReadParametersThere, PositionalThere, NamedThere, ConstructThere, ActivateThere,
     ServerOrPathThere, BlockThere, EndBlockThere, GetNextModuleThere, ChainThere DEF Step

-----------------------------------------------------------------------------
(* The calls below an Include *)

LEMMA InsideIsOne ==
    ASSUME stack \in Seq(Frames), NEW n, Inside(n)
    PROVE  ~Outside /\ \A m : Inside(m) => m = n
<1>1. DOMAIN stack \subseteq Nat
  OBVIOUS
<1>2. ~Outside
  BY DEF Inside, Outside
<1>3. ASSUME NEW m, Inside(m) PROVE m = n
  <2>1. m \in Nat /\ n \in Nat /\ ~(m < n) /\ ~(n < m)
    BY <1>1, <1>3 DEF Inside
  <2> QED
    BY <2>1
<1> QED
  BY <1>2, <1>3

\* Without an Include there is none after a step either.
LEMMA OutsideKept ==
    ASSUME IInv, OwnInv, Kinds, Outside, ~Include
    PROVE  Outside'
<1>0. stack \in Seq(Frames)
  BY MeIsBuilt
<1>1. CASE UNCHANGED stack
  BY <1>1 DEF Outside
<1>2. CASE Stays
  BY <1>2 DEF Stays, SameCall, Outside
<1>3. CASE Makes
  <2>1. PICK f, frames : /\ frames \in {stack, Append(stack, [fn |-> "block", me |-> NULL])}
                         /\ f \in Frames /\ f.fn # "include" /\ stack' = Append(frames, f)
    BY <1>3 DEF Makes
  <2>2. frames \in Seq(Frames) /\ \A j \in DOMAIN frames : frames[j].fn # "include"
    <3> DEFINE g == [fn |-> "block", me |-> NULL]
    <3>1. g \in Frames /\ g.fn # "include"
      BY DEF Frames, NULL
    <3> HIDE DEF g
    <3>2. CASE frames = stack
      BY <1>0, <3>2 DEF Outside
    <3>3. CASE frames = Append(stack, g)
      BY <1>0, <3>1, <3>3 DEF Outside
    <3> QED
      BY <2>1, <3>2, <3>3 DEF g
  <2>3. \A j \in DOMAIN Append(frames, f) : Append(frames, f)[j].fn # "include"
    BY <2>1, <2>2
  <2> QED
    BY <2>1, <2>3 DEF Outside
<1>4. stack # <<>> => Pop \in Seq(Frames) /\ \A j \in DOMAIN Pop : Pop[j].fn # "include"
  BY <1>0, PopSeq DEF Outside, Pop
<1>5. CASE stack # <<>> /\ stack' = Pop
  BY <1>4, <1>5 DEF Outside
<1>6. ASSUME NEW frames \in Seq(Frames), \A j \in DOMAIN frames : frames[j].fn # "include",
             NEW m, CallNextModule(m, frames)
      PROVE  Outside'
  <2> DEFINE f == [fn |-> "chain", me |-> m]
  <2>1. f.fn # "include" /\ stack' = Append(frames, f)
    BY <1>6 DEF CallNextModule
  <2> HIDE DEF f
  <2>2. DOMAIN Append(frames, f) = DOMAIN frames \cup {Len(frames) + 1}
        /\ (\A j \in DOMAIN frames : Append(frames, f)[j] = frames[j])
        /\ Append(frames, f)[Len(frames) + 1] = f
    OBVIOUS
  <2> QED
    BY <1>6, <2>1, <2>2 DEF Outside
<1>7. CASE Turns
  <2>1. PICK m : stack # <<>> /\ CallNextModule(m, Pop)
    BY <1>7 DEF Turns
  <2> QED
    BY <1>4, <1>6, <2>1
<1>8. CASE Activates
  BY <1>0, <1>6, <1>8 DEF Activates, Outside
<1> QED
  BY <1>1, <1>2, <1>3, <1>5, <1>7, <1>8 DEF Kinds, Loses, Pops, Gets, Links

\* The first n calls are as they were.
Below(n) == n \in DOMAIN stack' /\ \A j \in 1..n : SameCall(stack[j], stack'[j])

\* An Include and the calls below it stay until it has read its files.
LEMMA InsideKinds ==
    ASSUME IInv, OwnInv, Kinds, NEW n, Inside(n)
    PROVE  Below(n) \/ (n = Len(stack) /\ (Pops \/ Turns))
<1>0. stack \in Seq(Frames) /\ n \in DOMAIN stack /\ Len(stack) \in Nat /\ n \in Nat \ {0}
      /\ DOMAIN stack = 1..Len(stack) /\ stack # <<>> /\ n <= Len(stack) /\ 1..n \subseteq DOMAIN stack
  BY MeIsBuilt DEF Inside
<1>1. ASSUME NEW frames \in Seq(Frames), n \in DOMAIN frames, \A j \in 1..n : frames[j] = stack[j]
      PROVE  /\ stack' = frames => Below(n)
             /\ \A f : stack' = Append(frames, f) => Below(n)
  <2>1. \A j \in 1..n : j \in DOMAIN frames
    BY <1>0, <1>1
  <2>2. ASSUME NEW f
        PROVE  n \in DOMAIN Append(frames, f) /\ \A j \in 1..n : Append(frames, f)[j] = frames[j]
    <3>1. DOMAIN Append(frames, f) = 1..(Len(frames) + 1) /\ DOMAIN frames = 1..Len(frames)
          /\ Len(frames) \in Nat
      OBVIOUS
    <3>2. \A j \in DOMAIN frames : Append(frames, f)[j] = frames[j]
      OBVIOUS
    <3> QED
      BY <1>1, <2>1, <3>1, <3>2
  <2>3. stack' = frames => Below(n)
    BY <1>1 DEF Below, SameCall
  <2>4. ASSUME NEW f, stack' = Append(frames, f) PROVE Below(n)
    BY <1>1, <2>2, <2>4 DEF Below, SameCall
  <2> QED
    BY <2>3, <2>4
<1>2. CASE Stays
  BY <1>0, <1>2 DEF Stays, Below
<1>3. CASE Makes
  <2>1. PICK f, frames : /\ frames \in {stack, Append(stack, [fn |-> "block", me |-> NULL])}
                         /\ stack' = Append(frames, f)
    BY <1>3 DEF Makes
  <2>2. frames \in Seq(Frames) /\ n \in DOMAIN frames /\ \A j \in 1..n : frames[j] = stack[j]
    <3> DEFINE g == [fn |-> "block", me |-> NULL]
    <3>1. g \in Frames
      BY DEF Frames, NULL
    <3> HIDE DEF g
    <3>2. CASE frames = stack
      BY <1>0, <3>2
    <3>3. CASE frames = Append(stack, g)
      <4>1. /\ DOMAIN Append(stack, g) = DOMAIN stack \cup {Len(stack) + 1}
            /\ \A i \in DOMAIN stack : Append(stack, g)[i] = stack[i]
            /\ Append(stack, g) \in Seq(Frames)
        BY <1>0, <3>1, PushFollows
      <4> QED
        BY <1>0, <3>3, <4>1
    <3> QED
      BY <2>1, <3>2, <3>3 DEF g
  <2> QED
    BY <1>1, <2>1, <2>2
<1>4. CASE UNCHANGED stack
  BY <1>0, <1>1, <1>4
<1>5. Pop \in Seq(Frames) /\ (n # Len(stack) => n \in DOMAIN Pop /\ \A j \in 1..n : Pop[j] = stack[j])
  <2>1. DOMAIN Pop = 1..(Len(stack) - 1) /\ Pop \in Seq(Frames)
        /\ \A j \in DOMAIN Pop : Pop[j] = stack[j]
    BY <1>0, PopSeq DEF Pop
  <2>2. n # Len(stack) => n \in DOMAIN Pop /\ 1..n \subseteq DOMAIN Pop
    BY <1>0, <2>1
  <2> QED
    BY <2>1, <2>2
<1>6. CASE Pops
  BY <1>1, <1>5, <1>6 DEF Pops
<1>7. CASE Links
  <2>1. n # Len(stack)
    BY <1>7 DEF Links, Inside, Top
  <2> QED
    BY <1>1, <1>5, <1>7, <2>1 DEF Links
<1>8. CASE Turns
  BY <1>1, <1>5, <1>8 DEF Turns, CallNextModule
<1>9. CASE Activates
  BY <1>0, <1>1, <1>9 DEF Activates, CallNextModule
<1> QED
  BY <1>2, <1>3, <1>4, <1>6, <1>7, <1>8, <1>9 DEF Kinds, Loses, Gets

\* What is made in an Include has no place.
LEMMA MadeInside ==
    ASSUME IInv, Structure, ~Outside, AtsKept
    PROVE  MadeOf(built') = MadeOf(built)
<1>1. \A m \in DOMAIN built' \ DOMAIN built : built'[m].at = 0
  BY NewIsPlaceless DEF AtsKept
<1> QED
  BY <1>1 DEF MadeOf, AtsKept

\* The chain of an Include goes on where it has stopped.
LEMMA NextBelow ==
    ASSUME IInv, OwnInv, Structure, AtsKept, NEW n, Inside(n), Below(n), stack' \in Seq(Frames),
           NEW r, NEW i, AtNext(r, stack, built, n, i)
    PROVE  AtNext(r, stack', built', n, i)
<1>1. ~Outside
  BY DEF Inside, Outside
<1>2. MadeOf(built') = MadeOf(built)
  BY <1>1, MadeInside
<1>3. stack \in Seq(Frames) /\ n \in DOMAIN stack
  BY MeIsBuilt DEF Inside
<1>4. n \in Nat \ {0} /\ 1..n \subseteq DOMAIN stack /\ n \in 1..n
  BY <1>3
<1>5. 1..n \subseteq DOMAIN stack'
  <2>1. n \in DOMAIN stack'
    BY DEF Below
  <2> QED
    BY <2>1
<1>6. SameUpTo(stack, stack', n)
  BY <1>4, <1>5 DEF SameUpTo, Below, SameCall
<1>7. SameAts(stack, n, built, built')
  <2>1. \A j \in DOMAIN stack : stack[j].fn \in {"chain", "include"} => stack[j].me \in DOMAIN built
    BY DEF IInv, Shape, CallsOK, FrameOK
  <2> QED
    BY <1>4, <2>1 DEF SameAts, AtsKept
<1>8. Blocks(stack', n) = Blocks(stack, n) /\ Opens(built', stack', n) = Opens(built, stack, n)
  BY <1>4, <1>6, <1>7, SameMeasures
<1>9. \A j \in 1..n : stack'[j].me = stack[j].me
  BY DEF Below, SameCall
<1>10. NoneActive(stack, n - 1) => NoneActive(stack', n - 1)
  <2>1. 1..(n - 1) \subseteq 1..n
    BY <1>4
  <2> QED
    BY <1>9, <2>1 DEF NoneActive
<1> QED
  BY <1>2, <1>4, <1>8, <1>9, <1>10 DEF AtNext, Between

\* An Include that has been filled waits with its chain as it has waited before.
LEMMA NextTurns ==
    ASSUME stack \in Seq(Frames), stack # <<>>, Top.fn = "include",
           NEW i, NEW r, AtNext(r, stack, built, Len(stack), i),
           UNCHANGED built, CallNextModule(Top.me, Pop)
    PROVE  AtNext(r, stack', built', Len(stack'), i)
<1> DEFINE f == [fn |-> "chain", me |-> Top.me]
           n == Len(stack)
<1>1. Pop \in Seq(Frames) /\ n \in Nat \ {0} /\ Len(Pop) = n - 1 /\ Top = stack[n]
      /\ DOMAIN stack = 1..n /\ DOMAIN Pop = 1..(n - 1) /\ \A j \in DOMAIN Pop : Pop[j] = stack[j]
  BY PopSeq DEF Pop, Top
<1>2. f \in Frames /\ f.fn = "chain" /\ f.me = Top.me
  <2>1. Top \in Frames
    BY <1>1
  <2>2. Top.me \in Nat
    BY <2>1 DEF Frames
  <2> QED
    BY <2>2 DEF Frames
<1>3. stack' = Append(Pop, f)
  BY DEF CallNextModule
<1> HIDE DEF f, n
<1>4. /\ Len(stack') = n /\ stack'[n] = f
      /\ Blocks(stack', n) = Blocks(Pop, n - 1) + IF f.fn = "block" THEN 1 ELSE 0
      /\ Opens(built, stack', n) = Opens(built, Pop, n - 1) \cup Opener(f, built, Blocks(stack', n))
  <2>1. LET q == Append(Pop, f)
            k == Len(Pop)
        IN  /\ Len(q) = k + 1 /\ q # <<>> /\ q[k + 1] = f /\ k \in Nat
            /\ Blocks(q, k + 1) = Blocks(Pop, k) + IF f.fn = "block" THEN 1 ELSE 0
            /\ Opens(built, q, k + 1) = Opens(built, Pop, k) \cup Opener(f, built, Blocks(q, k + 1))
    BY <1>1, <1>2, PushMeasures
  <2>2. Len(Pop) + 1 = n
    BY <1>1
  <2> QED
    BY <1>1, <1>3, <2>1, <2>2
<1>5. /\ Blocks(stack, n) = Blocks(Pop, n - 1) + IF stack[n].fn = "block" THEN 1 ELSE 0
      /\ Opens(built, stack, n) = Opens(built, Pop, n - 1) \cup Opener(stack[n], built, Blocks(stack, n))
  BY PopMeasures DEF n, Pop
<1>6. Blocks(stack', n) = Blocks(stack, n)
  BY <1>1, <1>2, <1>4, <1>5
<1>7. Opens(built, stack', n) = Opens(built, stack, n)
  BY <1>1, <1>2, <1>4, <1>5, <1>6 DEF Opener
<1>8. NoneActive(stack, n - 1) => NoneActive(stack', n - 1)
  <2>1. \A j \in 1..(n - 1) : stack'[j] = stack[j]
    BY <1>1, <1>2, <1>3, PushFollows
  <2> QED
    BY <2>1 DEF NoneActive
<1>9. stack'[n].me = stack[n].me
  BY <1>1, <1>2, <1>4
<1>10. AtNext(r, stack, built, n, i)
  BY DEF n
<1> QED
  BY <1>4, <1>6, <1>7, <1>8, <1>9, <1>10 DEF AtNext, Between

-----------------------------------------------------------------------------
(* What is made is what is written *)

\* The text is one that AsWritten is about, and has been read without an error.
Clean ==
    /\ TextClosed /\ ActivationLast
    /\ Outside => CleanAt(reader, pc)
    /\ \A n \in DOMAIN stack : Inside(n) => CleanAt(stack[n].reader, "getNextModule")

TextInv ==
    Clean =>
      /\ Outside => \E i : ReadsOf(reader, pc, stack, built, params, i)
      /\ \A n \in DOMAIN stack : Inside(n) => \E i : AtNext(stack[n].reader, stack, built, n, i)

LEMMA InitText == Init => TextInv
<1> SUFFICES ASSUME Init PROVE TextInv
  OBVIOUS
<1>a. NoParams.at = 0
  BY DEF NoParams
<1>b. New("NULL", NoParams).at = 0
  BY <1>a DEF New
<1>1. /\ stack = <<>> /\ pc = "getRoot" /\ DOMAIN built = {NullModule}
      /\ \A m \in DOMAIN built : built[m].at = 0
  <2>1. stack = <<>> /\ pc = "getRoot" /\ built = <<New("NULL", NoParams)>>
    BY DEF Init
  <2> QED
    BY <1>b, <2>1 DEF NullModule
<1>2. Outside /\ DOMAIN stack = {}
  BY <1>1 DEF Outside
<1>3. MadeOf(built) = {}
  BY <1>1 DEF MadeOf
<1>4. input \in Seq(InputTokens)
  BY InputAssumption DEF Init
<1>5. PICK open \in BOOLEAN : reader = NewReader(input, open)
  BY DEF Init
<1>6. Good(reader) /\ reader.ok
  BY <1>4, <1>5, NewReaderIdle, IdleIsGood
<1>7. At(reader, 0)
  BY <1>5, <1>6, EndsAreNoTokens DEF At, NewReader
<1>8. ReadsOf(reader, pc, stack, built, params, 0)
  BY <1>1, <1>3, <1>7 DEF ReadsOf, Pendings
<1> QED
  BY <1>2, <1>8 DEF TextInv

LEMMA TextClosedPrimed == UNCHANGED input /\ TextClosed' => TextClosed
<1>1. TextClosed' <=> \A i \in DOMAIN input' : input'[i] \in {"(", "["} =>
        \E j \in (i + 1)..Len(input') :
            /\ input'[j] \in {")", "]"}
            /\ \A k \in (i + 1)..(j - 1) :
                  input'[k] \in Names \cup Strings \cup {",", "=", "["}
  BY Zenon DEF TextClosed
<1> QED
  BY <1>1, Zenon DEF TextClosed

LEMMA ActivationLastPrimed == UNCHANGED input /\ ActivationLast' => ActivationLast
<1>1. ActivationLast' <=> \A i, j \in DOMAIN input' :
        (input'[i] = "ActivateModule" /\ i < j /\ input'[j] = Dash) =>
            \E k \in i..j : input'[k] = Semicolon
  BY Zenon DEF ActivationLast, Dash, Semicolon
<1> QED
  BY <1>1, ActivationLastIs

\* Where there is an Include, one is the first.
LEMMA FirstInside ==
    ASSUME IInv, ~Outside
    PROVE  \E n \in DOMAIN stack : Inside(n)
<1> DEFINE S == {j \in DOMAIN stack : stack[j].fn = "include"}
<1>1. DOMAIN stack = 1..Len(stack) /\ Len(stack) \in Nat
  BY DEF IInv, Shape, CallsOK
<1>2. S \in SUBSET Nat /\ S # {}
  BY <1>1 DEF Outside
<1>3. IsFiniteSet(S)
  <2>1. IsFiniteSet(1..Len(stack))
    BY <1>1, FS_Interval
  <2>2. S \subseteq 1..Len(stack)
    BY <1>1
  <2> QED
    BY <2>1, <2>2, FS_Subset
<1>4. Min(S) \in S /\ \A y \in S : Min(S) <= y
  BY <1>2, <1>3, LeastElement
<1>5. Inside(Min(S))
  <2> DEFINE n == Min(S)
  <2>0. n \in Nat /\ \A y \in S : n <= y /\ y \in Nat
    BY <1>2, <1>4
  <2> HIDE DEF n
  <2>a. \A j \in S : ~(j < n)
    BY <2>0
  <2>1. \A j \in DOMAIN stack : j < Min(S) => j \notin S
    BY <2>a DEF n
  <2> QED
    BY <1>4, <2>1 DEF Inside
<1> QED
  BY <1>4, <1>5

\* The text is the same, and so is what is asked of it.
LEMMA CleanKept ==
    ASSUME UNCHANGED input, Clean'
    PROVE  /\ TextClosed /\ ActivationLast
           /\ Outside' => Goes
           /\ \A n \in DOMAIN stack' : Inside(n)' => CleanAt(stack'[n].reader, "getNextModule")
<1>1. TextClosed' => TextClosed
  BY TextClosedPrimed
<1>2. ActivationLast' => ActivationLast
  BY ActivationLastPrimed
<1> QED
  BY <1>1, <1>2 DEF Clean, Goes, CleanAt

LEMMA TextOutside ==
    ASSUME IInv, OwnInv, Structure, TextInv, Step, Kinds, Outside, ~Include, Clean'
    PROVE  Clean /\ Outside' /\ \E i : ReadsOf(reader, pc, stack, built, params, i)'
<1>1. UNCHANGED input
  BY StepKeepsInput
<1>2. Outside'
  BY OutsideKept
<1>3. TextClosed /\ ActivationLast /\ Goes
  BY <1>1, <1>2, CleanKept
<1>4. CleanAt(reader, pc)
  BY <1>3, CleanBefore
<1>5. Clean
  BY <1>3, <1>4 DEF Clean, Inside, Outside
<1>6. PICK i : ReadsOf(reader, pc, stack, built, params, i)
  BY <1>5 DEF TextInv
<1>7. Here(i)
  BY <1>3, <1>4, <1>6 DEF Here
<1>8. PICK j : There(j)
  BY <1>3, <1>7, OutsideThere
<1> QED
  BY <1>1, <1>2, <1>5, <1>8, ThereKept

LEMMA BelowKept ==
    ASSUME UNCHANGED input, NEW n, NEW i, AtNext(stack'[n].reader, stack', built', n, i)
    PROVE  AtNext(stack[n].reader, stack, built, n, i)'
  BY InputKeeps DEF AtNext, At, Between

\* An Include is the first one.
LEMMA IncludeIsInside ==
    ASSUME stack \in Seq(Frames), Include, Outside
    PROVE  \E n \in DOMAIN stack' : Inside(n)'
<1>1. PICK f : f.fn = "include" /\ stack' = Append(stack, f)
  <2>1. PICK error \in BOOLEAN :
           stack' = Append(stack, [fn |-> "include", me |-> Len(built) + 1,
                                   files |-> params.positional, error |-> error,
                                   reader |-> reader])
    BY DEF Include
  <2> DEFINE f == [fn |-> "include", me |-> Len(built) + 1, files |-> params.positional,
                   error |-> error, reader |-> reader]
  <2>2. f.fn = "include" /\ stack' = Append(stack, f)
    BY <2>1
  <2> HIDE DEF f
  <2> QED
    BY <2>2
<1>2. PICK n : n = Len(stack) + 1
  OBVIOUS
<1>3. /\ DOMAIN stack' = 1..n /\ n \in DOMAIN stack' /\ stack'[n] = f
      /\ \A j \in DOMAIN stack' : j < n => j \in DOMAIN stack /\ stack'[j] = stack[j]
  BY <1>1, <1>2
<1>4. \A j \in DOMAIN stack' : j < n => stack'[j].fn # "include"
  BY <1>3 DEF Outside
<1>5. Inside(n)'
  BY <1>1, <1>2, <1>3, <1>4 DEF Inside
<1> QED
  BY <1>3, <1>5

\* The files of an Include are read.
LEMMA TextIncluded ==
    ASSUME IInv, OwnInv, Structure, TextInv, Include, Outside, Clean', NEW n, Inside(n)'
    PROVE  Clean /\ ~Outside' /\ \E i : AtNext(stack[n].reader, stack, built, n, i)'
<1>1. UNCHANGED <<input, reader>> /\ pc = "construct"
  BY DEF Include
<1>2. stack \in Seq(Frames)
  BY MeIsBuilt
<1>3. PICK f : f.fn = "include" /\ f.reader = reader /\ stack' = Append(stack, f)
  <2>1. PICK error \in BOOLEAN :
           stack' = Append(stack, [fn |-> "include", me |-> Len(built) + 1,
                                   files |-> params.positional, error |-> error,
                                   reader |-> reader])
    BY DEF Include
  <2> DEFINE f == [fn |-> "include", me |-> Len(built) + 1, files |-> params.positional,
                   error |-> error, reader |-> reader]
  <2>2. f.fn = "include" /\ f.reader = reader /\ stack' = Append(stack, f)
    BY <2>1
  <2> HIDE DEF f
  <2> QED
    BY <2>2
<1>4. /\ DOMAIN stack' = 1..(Len(stack) + 1) /\ Len(stack) \in Nat /\ DOMAIN stack = 1..Len(stack)
      /\ \A j \in DOMAIN stack : stack'[j] = stack[j]
      /\ stack'[Len(stack) + 1] = f
      /\ Len(stack') = Len(stack) + 1
  BY <1>2, <1>3
<1>5. n = Len(stack')
  <2>1. n \in DOMAIN stack' /\ stack'[n].fn = "include"
    BY DEF Inside
  <2>2. n \notin DOMAIN stack
    BY <1>4, <2>1 DEF Outside
  <2> QED
    BY <1>4, <2>1, <2>2
<1>6. stack'[n].reader = reader /\ n \in DOMAIN stack'
  BY <1>3, <1>4, <1>5
<1>7. TextClosed /\ ActivationLast /\ CleanAt(reader, "getNextModule")
  <2>1. TextClosed /\ ActivationLast /\ CleanAt(stack'[n].reader, "getNextModule")
    BY <1>1, <1>6, CleanKept
  <2> QED
    BY <1>6, <2>1
<1>8. CleanAt(reader, pc)
  BY <1>1, <1>7 DEF CleanAt
<1>9. Clean
  BY <1>7, <1>8 DEF Clean, Inside, Outside
<1>10. PICK i : ReadsOf(reader, pc, stack, built, params, i)
  BY <1>9 DEF TextInv
<1>11. Here(i)
  BY <1>7, <1>8, <1>10 DEF Here
<1>12. AtNext(reader', stack', built', Len(stack'), i)
  BY <1>11, IncludeThere
<1>13. AtNext(stack'[n].reader, stack', built', n, i)
  BY <1>1, <1>5, <1>6, <1>12
<1>14. ~Outside'
  BY DEF Inside, Outside
<1> QED
  BY <1>1, <1>9, <1>13, <1>14, BelowKept

LEMMA TextInside ==
    ASSUME IInv, OwnInv, Structure, TextInv, Step, Kinds, stack' \in Seq(Frames),
           NEW n, Inside(n), Clean'
    PROVE  /\ Clean
           /\ Outside' => \E i : ReadsOf(reader, pc, stack, built, params, i)'
           /\ \A m \in DOMAIN stack' : Inside(m)' =>
                 \E i : AtNext(stack[m].reader, stack, built, m, i)'
<1>1. UNCHANGED input
  BY StepKeepsInput
<1>2. AtsKept /\ stack \in Seq(Frames) /\ ~Outside /\ \A m : Inside(m) => m = n
  BY KindsKeepAts, MeIsBuilt, InsideIsOne
<1>3. TextClosed /\ ActivationLast /\ (Outside' => Goes)
  BY <1>1, CleanKept
<1>a. n \in DOMAIN stack /\ n \in Nat \ {0} /\ n \in 1..n
  BY <1>2 DEF Inside
<1>4. CASE Below(n)
  <2>1. n \in DOMAIN stack' /\ SameCall(stack[n], stack'[n])
    BY <1>4, <1>a DEF Below
  <2>2. stack'[n].fn = "include" /\ stack'[n].reader = stack[n].reader
    BY <2>1 DEF Inside, SameCall
  <2>3. \A j \in DOMAIN stack' : j < n => stack'[j].fn # "include"
    <3>1. \A j \in DOMAIN stack' : j < n => j \in 1..n /\ j \in DOMAIN stack
      BY <1>2, <1>a
    <3> QED
      BY <1>4, <3>1 DEF Below, SameCall, Inside
  <2>4. Inside(n)'
    BY <2>1, <2>2, <2>3 DEF Inside
  <2>5. CleanAt(stack[n].reader, "getNextModule")
    BY <1>1, <2>1, <2>2, <2>4, CleanKept
  <2>6. Clean
    BY <1>2, <1>3, <2>5 DEF Clean
  <2>7. PICK i : AtNext(stack[n].reader, stack, built, n, i)
    BY <1>a, <2>6 DEF TextInv
  <2>8. AtNext(stack'[n].reader, stack', built', n, i)
    BY <1>2, <1>4, <2>2, <2>7, NextBelow
  <2>9. AtNext(stack[n].reader, stack, built, n, i)'
    BY <1>1, <2>8, BelowKept
  <2>10. ~Outside'
    BY <2>4 DEF Inside, Outside
  <2>11. \A m \in DOMAIN stack' : Inside(m)' => m = n
    <3>1. DOMAIN stack' \subseteq Nat
      OBVIOUS
    <3>2. ASSUME NEW m \in DOMAIN stack', Inside(m)' PROVE m = n
      <4>1. ~(m < n) /\ ~(n < m) /\ m \in Nat
        BY <2>4, <3>1, <3>2 DEF Inside
      <4> QED
        BY <1>a, <4>1
    <3> QED
      BY <3>2
  <2> QED
    BY <2>6, <2>9, <2>10, <2>11
<1>5. CASE n = Len(stack) /\ stack # <<>> /\ Top.fn = "include" /\ Outside'
  <2>1. Goes
    BY <1>3, <1>5
  <2>2. CASE Pops
    BY <1>5, <2>1, <2>2 DEF Pops, Goes, CleanAt
  <2>3. CASE Turns
    <3>1. CallNextModule(Top.me, Pop) /\ reader' = Top.reader /\ UNCHANGED built
      BY <1>5, <2>3 DEF Turns
    <3>2. pc' = "getNextModule" /\ Top = stack[n]
      BY <1>5, <3>1 DEF CallNextModule, Top
    <3>3. CleanAt(stack[n].reader, "getNextModule")
      BY <2>1, <3>1, <3>2 DEF Goes
    <3>4. Clean
      BY <1>2, <1>3, <3>3 DEF Clean
    <3>5. PICK i : AtNext(stack[n].reader, stack, built, n, i)
      BY <1>a, <3>4 DEF TextInv
    <3>6. AtNext(reader', stack', built', Len(stack'), i)
      BY <1>2, <1>5, <3>1, <3>2, <3>5, NextTurns
    <3>7. There(i)
      BY <3>2, <3>6 DEF There, ReadsOf, Pendings, AtNext
    <3>8. ReadsOf(reader, pc, stack, built, params, i)'
      BY <1>1, <3>7, ThereKept
    <3> QED
      BY <1>5, <3>4, <3>8 DEF Inside, Outside
  <2>4. Below(n) \/ Pops \/ Turns
    BY InsideKinds
  <2> QED
    BY <1>4, <2>2, <2>3, <2>4
<1>6. CASE n = Len(stack) /\ (Pops \/ Turns)
  <2>1. stack # <<>> /\ Top.fn = "include"
    BY <1>6 DEF Pops, Turns, Inside, Top
  <2>2. /\ DOMAIN Pop = 1..(Len(stack) - 1) /\ Pop \in Seq(Frames) /\ Len(stack) \in Nat
        /\ \A j \in DOMAIN Pop : j \in DOMAIN stack /\ Pop[j] = stack[j]
    BY <1>2, <2>1, PopSeq DEF Pop
  <2>3. \A j \in DOMAIN Pop : Pop[j].fn # "include"
    <3>1. \A j \in DOMAIN Pop : j < n
      BY <1>6, <2>2
    <3> QED
      BY <2>2, <3>1 DEF Inside
  <2>4. CASE Pops
    BY <1>5, <1>6, <2>1, <2>3, <2>4 DEF Pops, Outside
  <2>5. CASE Turns
    <3> DEFINE f == [fn |-> "chain", me |-> Top.me]
    <3>1. stack' = Append(Pop, f) /\ f.fn = "chain"
      BY <2>1, <2>5 DEF Turns, CallNextModule
    <3> HIDE DEF f
    <3>2. /\ DOMAIN Append(Pop, f) = DOMAIN Pop \cup {Len(Pop) + 1}
          /\ (\A j \in DOMAIN Pop : Append(Pop, f)[j] = Pop[j])
          /\ Append(Pop, f)[Len(Pop) + 1] = f
      BY <2>2
    <3>3. Outside'
      BY <2>3, <3>1, <3>2 DEF Outside
    <3> QED
      BY <1>5, <1>6, <2>1, <3>3
  <2> QED
    BY <1>6, <2>4, <2>5
<1> QED
  BY <1>4, <1>6, InsideKinds

LEMMA StepText ==
    ASSUME IInv, OwnInv, Structure, TextInv, Step, stack' \in Seq(Frames)
    PROVE  TextInv' /\ (Clean' => Clean)
<1>1. Kinds
  BY StepKinds
<1>2. SUFFICES ASSUME Clean'
               PROVE  /\ Clean
                      /\ Outside' => \E i : ReadsOf(reader, pc, stack, built, params, i)'
                      /\ \A m \in DOMAIN stack' : Inside(m)' =>
                            \E i : AtNext(stack[m].reader, stack, built, m, i)'
  BY DEF TextInv
<1>3. CASE Outside /\ ~Include
  <2>1. \A m \in DOMAIN stack' : ~Inside(m)'
    BY <1>1, <1>2, <1>3, TextOutside DEF Outside, Inside
  <2> QED
    BY <1>1, <1>2, <1>3, <2>1, TextOutside
<1>4. CASE Outside /\ Include
  <2>1. \A m \in DOMAIN stack' : Inside(m)' =>
           Clean /\ \E i : AtNext(stack[m].reader, stack, built, m, i)'
    BY <1>2, <1>4, TextIncluded
  <2>2. \E n \in DOMAIN stack' : Inside(n)'
    BY <1>4, MeIsBuilt, IncludeIsInside
  <2>3. ~Outside'
    BY <2>2 DEF Inside, Outside
  <2> QED
    BY <2>1, <2>2, <2>3
<1>5. CASE ~Outside
  <2>1. PICK n \in DOMAIN stack : Inside(n)
    BY <1>5, FirstInside
  <2> QED
    BY <1>1, <1>2, <2>1, TextInside
<1> QED
  BY <1>3, <1>4, <1>5

-----------------------------------------------------------------------------
(* What is above a module is what guards it in the text *)

\* The modules with a place in the configuration.
Marked(b) == {m \in DOMAIN b : b[m].at > 0}

\* They, and what is above them.
Wanted(g, b) == UNION {g[m] \cup {m} : m \in Marked(b)}

\* The places of the modules in S.
AtsOf(b, S) == {b[k].at : k \in S} \ {0}
GuardsOf(q) == {h \in Heads : Guards(h, q)}

GuardedBy(g, b) ==
    \A m \in Marked(b) : NullModule \notin g[m] /\ AtsOf(b, g[m]) = GuardsOf(b[m].at)

\* None of them is lost.
PlacedIn(g, s, b, r) ==
    \A k \in Wanted(g, b) : Free(b, k) => k \in Mes(s) \cup {r}

Tied(g, s, b, r) == GuardedBy(g, b) /\ PlacedIn(g, s, b, r)

WrittenPlaces ==
    \E g : /\ PlacesOf(g, stack, built, Given)
           /\ Clean /\ pc # "undefined" => Tied(g, stack, built, Given)

\* The calls wait with what guards a module that begins at q.
LEMMA MesGuard ==
    ASSUME IInv, OwnInv, Structure, stack \in Seq(Frames),
           NEW q \in DOMAIN input, input[q] # Semicolon, DOMAIN input \subseteq Nat,
           Opens(built, stack, Len(stack)) = OpenText(q)
    PROVE  AtsOf(built, Mes(stack) \ {NULL}) = GuardsOf(q)
<1>1. DOMAIN stack = 1..Len(stack) /\ q \in Nat /\ Len(stack) \in Nat
  OBVIOUS
<1>2. TreeOK(built) /\ built \in Seq(Modules)
  BY MeIsBuilt DEF TreeOK
<1>3. ASSUME NEW m \in DOMAIN built PROVE built[m].at \in Nat
  <2>1. built[m] \in Modules
    BY <1>2
  <2> QED
    BY <2>1 DEF Modules
<1>4. AtsOf(built, Mes(stack) \ {NULL}) = {o[1] : o \in Opens(built, stack, Len(stack))}
  <2>1. ASSUME NEW a \in AtsOf(built, Mes(stack) \ {NULL})
        PROVE  a \in {o[1] : o \in Opens(built, stack, Len(stack))}
    <3>1. PICK k \in Mes(stack) \ {NULL} : a = built[k].at /\ a # 0
      BY DEF AtsOf
    <3>2. PICK j \in DOMAIN stack : k = stack[j].me
      BY <3>1 DEF Mes
    <3>3. FrameOK(stack[j], built) /\ stack[j] \in Frames
      BY DEF IInv, Shape, CallsOK, FrameOK
    <3>4. k \in DOMAIN built /\ a > 0
      <4>1. k \in DOMAIN built
        BY <3>2, MeIsBuilt
      <4> QED
        BY <1>3, <3>1, <4>1
    <3>5. stack[j].fn \in {"chain", "include"}
      <4>1. stack[j].fn # "block"
        BY <3>1, <3>2 DEF OwnInv, NestOK
      <4>2. stack[j].fn # "list"
        BY <3>1, <3>2 DEF Structure, ListsOK
      <4> QED
        BY <3>3, <4>1, <4>2 DEF Frames
    <3>6. <<a, Blocks(stack, j)>> \in Opens(built, stack, Len(stack))
      BY <1>1, <3>1, <3>2, <3>4, <3>5 DEF Opens
    <3> QED
      BY <3>6
  <2>2. ASSUME NEW o \in Opens(built, stack, Len(stack))
        PROVE  o[1] \in AtsOf(built, Mes(stack) \ {NULL})
    <3>1. PICK j \in 1..Len(stack) :
            /\ stack[j].fn \in {"chain", "include"} /\ built[stack[j].me].at > 0
            /\ o = <<built[stack[j].me].at, Blocks(stack, j)>>
      BY DEF Opens
    <3>2. FrameOK(stack[j], built) /\ stack[j].me \in DOMAIN built
      BY <1>1, <3>1 DEF IInv, Shape, CallsOK, FrameOK
    <3>3. stack[j].me # NULL
      BY <1>2, <3>2 DEF NULL
    <3>4. stack[j].me \in Mes(stack) \ {NULL} /\ o[1] = built[stack[j].me].at /\ o[1] # 0
      BY <1>1, <3>1, <3>3 DEF Mes
    <3> QED
      BY <3>4 DEF AtsOf
  <2> QED
    BY <2>1, <2>2
<1>5. {o[1] : o \in OpenText(q)} = OpenAt(q)
  <2>1. ASSUME NEW o \in OpenText(q) PROVE o[1] \in OpenAt(q)
    BY DEF OpenText
  <2>2. ASSUME NEW h \in OpenAt(q) PROVE \E o \in OpenText(q) : h = o[1]
    <3>1. <<h, Depth(h)>> \in OpenText(q)
      BY DEF OpenText
    <3> QED
      BY <3>1
  <2> QED
    BY <2>1, <2>2
<1>6. OpenAt(q) = GuardsOf(q)
  <2>1. ASSUME NEW h \in Heads PROVE h \in OpenAt(q) <=> Guards(h, q)
    <3>1. h \in Nat
      BY HeadIs
    <3>2. h < q => \A k \in h..q : k \in h..(q - 1) \/ k = q
      BY <1>1, <3>1
    <3>3. \A k \in h..(q - 1) : k \in h..q
      BY <1>1, <3>1
    <3> QED
      BY <3>2, <3>3, GuardsAre DEF OpenAt
  <2> QED
    BY <2>1 DEF OpenAt, GuardsOf
<1> QED
  BY <1>4, <1>5, <1>6

\* A module of a place is made where the text says so.
LEMMA MakesMarked ==
    ASSUME IInv, OwnInv, Structure, TextInv, Clean, Makes,
           NEW m, NewModule(m), m.at > 0
    PROVE  /\ NullModule \notin Mes(stack)
           /\ AtsOf(built, Mes(stack) \ {NULL}) = GuardsOf(m.at)
<1>1. Outside
  BY NewIsPlaceless
<1>2. PICK i : ReadsOf(reader, pc, stack, built, params, i)
  BY <1>1 DEF Clean, TextInv
<1>3. Here(i)
  BY <1>1, <1>2 DEF Here, Clean
<1>4. /\ input \in Seq(InputTokens) /\ DOMAIN input = 1..Len(input) /\ Len(input) \in Nat
      /\ stack \in Seq(Frames) /\ Len(stack) \in Nat /\ DOMAIN stack = 1..Len(stack)
  BY <1>3, HereIs
<1>5. /\ m.at \in DOMAIN input /\ input[m.at] # Semicolon
      /\ Between(stack, built, Len(stack), m.at) /\ NoneActive(stack, Len(stack))
  <2>1. CASE ServerOrPath /\ m.at = Place
    <3>1. pc = "getModule" /\ reader.t = LBracket
      <4>1. "[" = LBracket
        BY Zenon DEF LBracket
      <4> QED
        BY <2>1, <4>1, ServerOrPathParts
    <3>2. At(reader, i) /\ Between(stack, built, Len(stack), i) /\ NoneActive(stack, Len(stack))
      BY <1>2, <3>1 DEF ReadsOf
    <3>3. i \in DOMAIN input /\ input[i] = LBracket /\ reader.pos = i + 1
      BY <1>4, <3>1, <3>2, SinglesAreTokens, AtToken
    <3>4. Place = i
      BY <1>1, <1>4, <3>3 DEF Place, Outside
    <3> QED
      BY <2>1, <3>2, <3>3, <3>4, SinglesDiffer
  <2>2. CASE pc = "construct" /\ m.at = params.at
    <3>1. Between(stack, built, Len(stack), params.at) /\ NoneActive(stack, Len(stack))
      BY <1>3, <2>2, ConstructHere
    <3>2. params.at \in DOMAIN input /\ input[params.at] \in Names
      BY <1>3, <2>2, PendingQ DEF Pendings
    <3> QED
      BY <2>2, <3>1, <3>2, SinglesAreTokens
  <2> QED
    BY <2>1, <2>2 DEF NewModule
<1>6. AtsOf(built, Mes(stack) \ {NULL}) = GuardsOf(m.at)
  <2>1. Opens(built, stack, Len(stack)) = OpenText(m.at)
    BY <1>5 DEF Between
  <2>2. DOMAIN input \subseteq Nat /\ m.at \in DOMAIN input /\ input[m.at] # Semicolon
    BY <1>4, <1>5
  <2> QED
    BY <1>4, <2>1, <2>2, MesGuard
<1>7. NullModule \notin Mes(stack)
  BY <1>4, <1>5 DEF NoneActive, Mes
<1> QED
  BY <1>6, <1>7

\* A module that is lost has no place.
LEMMA LosesUnmarked ==
    ASSUME IInv, OwnInv, Structure, UNCHANGED input, Loses, Clean', NEW m, NewModule(m), m.at > 0
    PROVE  FALSE
<1>1. Outside
  BY NewIsPlaceless
<1>2. UNCHANGED stack /\ reader'.hasErrors
  BY DEF Loses
<1>3. Outside'
  BY <1>1, <1>2 DEF Outside
<1>4. Goes
  BY <1>3, CleanKept
<1> QED
  BY <1>2, <1>4 DEF Goes, CleanAt

\* What is wanted is there, and is not Module::null, nor below it.
LEMMA WantedIs ==
    ASSUME IInv, Structure, NEW g, NEW s, NEW r, PlacesOf(g, s, built, r), GuardedBy(g, built),
           NEW k \in Wanted(g, built)
    PROVE  /\ k \in DOMAIN built /\ k # NULL /\ k # NullModule /\ NullModule \notin g[k]
           /\ \E m \in Marked(built) : k <= m /\ m \in Nat /\ k \in Nat
<1>1. DOMAIN built = 1..Len(built) /\ Len(built) \in Nat /\ NULL \notin DOMAIN built
  BY DEF IInv, Shape, TreeOK, NULL
<1>2. PICK m \in Marked(built) : k \in g[m] \cup {m}
  BY DEF Wanted
<1>3. m \in DOMAIN built /\ m # NullModule /\ NullModule \notin g[m]
  BY <1>2 DEF Marked, Structure, GuardedBy
<1>4. CASE k = m
  BY <1>1, <1>2, <1>3, <1>4
<1>5. CASE k \in g[m]
  <2>1. g[m] \subseteq 1..(m - 1) /\ g[k] \subseteq g[m]
    BY <1>3, <1>5 DEF PlacesOf
  <2> QED
    BY <1>1, <1>2, <1>3, <1>5, <2>1
<1> QED
  BY <1>2, <1>4, <1>5

\* What has a place keeps it, and what it stands under.
LEMMA OldGuarded ==
    ASSUME IInv, AtsKept, UNCHANGED input, NEW g, NEW h, Extends(g, built, h, built', stack),
           NEW s, NEW r, PlacesOf(g, s, built, r), GuardedBy(g, built),
           NEW m \in DOMAIN built, m \in Marked(built')
    PROVE  /\ m \in Marked(built) /\ h[m] = g[m]
           /\ NullModule \notin h[m] /\ AtsOf(built', h[m]) = GuardsOf(built'[m].at)
<1>1. built'[m].at = built[m].at /\ h[m] = g[m] /\ m \in Marked(built)
  BY DEF AtsKept, Extends, Marked
<1>2. g[m] \subseteq DOMAIN built
  <2>1. DOMAIN built = 1..Len(built) /\ Len(built) \in Nat
    BY DEF IInv, Shape, TreeOK
  <2> QED
    BY <2>1 DEF PlacesOf
<1>3. AtsOf(built', g[m]) = AtsOf(built, g[m])
  BY <1>2 DEF AtsOf, AtsKept
<1> QED
  BY <1>1, <1>3 DEF GuardedBy

LEMMA GuardsKept ==
    ASSUME UNCHANGED input
    PROVE  \A q : GuardsOf(q)' = GuardsOf(q)
<1>1. Heads' = Heads
  BY DEF Heads
<1>2. \A i : Depth(i)' = Depth(i)
  BY DEF Depth
<1>3. ASSUME NEW i, NEW j PROVE Guards(i, j)' <=> Guards(i, j)
  BY <1>2 DEF Guards
<1> QED
  BY <1>1, <1>3 DEF GuardsOf

\* A new module of a place stands under what the calls wait with.
LEMMA NewGuarded ==
    ASSUME IInv, OwnInv, Structure, TextInv, Clean, Makes, AtsKept,
           NEW g, NEW h, Extends(g, built, h, built', stack),
           NEW m \in DOMAIN built' \ DOMAIN built, built'[m].at > 0
    PROVE  /\ h[m] = Mes(stack) \ {NULL} /\ NullModule \notin h[m]
           /\ AtsOf(built', h[m]) = GuardsOf(built'[m].at)
<1>1. NewModule(built'[m])
  BY DEF AtsKept
<1>2. NullModule \notin Mes(stack) /\ AtsOf(built, Mes(stack) \ {NULL}) = GuardsOf(built'[m].at)
  BY <1>1, MakesMarked
<1>3. h[m] = Mes(stack) \ {NULL}
  BY DEF Extends
<1>4. Mes(stack) \ {NULL} \subseteq DOMAIN built
  BY MeIsBuilt DEF Mes
<1>5. AtsOf(built', Mes(stack) \ {NULL}) = AtsOf(built, Mes(stack) \ {NULL})
  BY <1>4 DEF AtsOf, AtsKept
<1> QED
  BY <1>2, <1>3, <1>5

\* New modules with a place are made and waited with.
LEMMA NewIsMade ==
    ASSUME IInv, OwnInv, Structure, Kinds, UNCHANGED input, Clean', AtsKept,
           NEW m \in DOMAIN built' \ DOMAIN built, built'[m].at > 0
    PROVE  Makes
<1>1. NewModule(built'[m]) /\ m = Len(built) + 1
  BY DEF AtsKept
<1>2. CASE Loses
  BY <1>1, <1>2, LosesUnmarked
<1>3. DOMAIN built' # DOMAIN built
  OBVIOUS
<1>4. Makes \/ Loses
  BY <1>3 DEF Kinds, Stays, Pops, Gets, Links, Turns, Activates
<1> QED
  BY <1>2, <1>4

LEMMA StepGuarded ==
    ASSUME IInv, OwnInv, Structure, TextInv, Kinds, UNCHANGED input, Clean, Clean', AtsKept,
           NEW g, NEW h, PlacesOf(g, stack, built, Given),
           Extends(g, built, h, built', stack), GuardedBy(g, built)
    PROVE  GuardedBy(h, built)'
<1>1. ASSUME NEW m \in Marked(built')
      PROVE  NullModule \notin h[m] /\ AtsOf(built', h[m]) = GuardsOf(built'[m].at)
  <2>1. CASE m \in DOMAIN built
    BY <2>1, OldGuarded
  <2>2. CASE m \notin DOMAIN built
    <3>1. m \in DOMAIN built' \ DOMAIN built /\ built'[m].at > 0
      BY <2>2 DEF Marked
    <3>2. Makes
      BY <3>1, NewIsMade
    <3> QED
      BY <3>1, <3>2, NewGuarded
  <2> QED
    BY <2>1, <2>2
<1>2. \A q : GuardsOf(q)' = GuardsOf(q)
  BY GuardsKept
<1> QED
  BY <1>1, <1>2 DEF GuardedBy, Marked, AtsOf

-----------------------------------------------------------------------------
(* No module of a place is lost *)

\* What nobody holds after a step nobody has held before, unless it was the next
\* of the module that is linked.
LEMMA FreeBefore ==
    ASSUME IInv, OwnInv, Kinds, NEW k \in DOMAIN built, Free(built', k), k # NULL
    PROVE  \/ Free(built, k)
           \/ Links /\ built[Top.me].next = k
<1>0. TreeOK(built) /\ built \in Seq(Modules)
  BY MeIsBuilt DEF TreeOK
<1>1. CASE UNCHANGED built
  BY <1>1
<1>2. CASE Makes \/ Loses
  <2>1. PICK m : NewModule(m) /\ built' = Append(built, m)
    BY <1>2 DEF Makes, Loses
  <2>2. /\ DOMAIN built \subseteq DOMAIN built' /\ \A n \in DOMAIN built : built'[n] = built[n]
    BY <1>0, <2>1
  <2> QED
    BY <2>2 DEF Free
<1>3. CASE Gets
  <2>1. Top.me \in DOMAIN built /\ returned \in DOMAIN built
        /\ built' = [built EXCEPT ![Top.me].list = Append(built[Top.me].list, returned)]
    BY <1>3 DEF Gets, Ids
  <2> DEFINE l == Append(built[Top.me].list, returned)
  <2>2. built[Top.me].list \in Seq(Nat) /\ returned \in Nat
    <3>1. returned \in Nat
      BY <1>0, <2>1
    <3> QED
      BY <1>0, <2>1, <3>1, ListIsSeq
  <2>3. /\ l \in Seq(Nat)
        /\ \A i \in DOMAIN built[Top.me].list : i \in DOMAIN l /\ l[i] = built[Top.me].list[i]
    BY <2>2
  <2>4. built' = [built EXCEPT ![Top.me].list = l]
    BY <2>1
  <2> HIDE DEF l
  <2>5. /\ DOMAIN built' = DOMAIN built /\ built'[Top.me].list = l
        /\ \A m \in DOMAIN built : built'[m].next = built[m].next
        /\ \A m \in DOMAIN built \ {Top.me} : built'[m] = built[m]
    BY <1>0, <2>1, <2>3, <2>4, SetList
  <2>6. ASSUME NEW m \in DOMAIN built
        PROVE  built[m].next # k /\ \A i \in DOMAIN built[m].list : built[m].list[i] # k
    <3>1. built'[m].next # k /\ \A i \in DOMAIN built'[m].list : built'[m].list[i] # k
      BY <2>5, <2>6 DEF Free
    <3>2. CASE m = Top.me
      BY <2>3, <2>5, <3>1, <3>2
    <3>3. CASE m # Top.me
      BY <2>5, <3>1, <3>3
    <3> QED
      BY <3>2, <3>3
  <2> QED
    BY <2>6 DEF Free
<1>4. CASE Links
  <2>1. Top.me \in DOMAIN built /\ returned \in DOMAIN built \cup {NULL}
        /\ built' = [built EXCEPT ![Top.me].next = returned]
    BY <1>4 DEF Links, Ids
  <2>2. returned \in Nat
    BY <1>0, <2>1 DEF NULL
  <2>3. /\ DOMAIN built' = DOMAIN built /\ built'[Top.me].next = returned
        /\ \A m \in DOMAIN built : built'[m].list = built[m].list
        /\ \A m \in DOMAIN built \ {Top.me} : built'[m] = built[m]
    BY <1>0, <2>1, <2>2, SetNext
  <2>4. ASSUME built[Top.me].next # k, NEW m \in DOMAIN built
        PROVE  built[m].next # k /\ \A i \in DOMAIN built[m].list : built[m].list[i] # k
    <3>1. built'[m].next # k /\ \A i \in DOMAIN built'[m].list : built'[m].list[i] # k
      BY <2>3, <2>4 DEF Free
    <3> QED
      BY <2>3, <2>4, <3>1
  <2> QED
    BY <1>4, <2>4 DEF Free
<1> QED
  BY <1>1, <1>2, <1>3, <1>4 DEF Kinds, Stays, Pops, Turns, Activates

\* The linked module held nothing that is wanted.
LEMMA LinkedHeldNone ==
    ASSUME IInv, OwnInv, Unlinked, Links, NEW g, PlacesOf(g, stack, built, Given),
           NEW k \in DOMAIN built, k # NULL, k # NullModule, NullModule \notin g[k]
    PROVE  built[Top.me].next # k
<1>1. Top.me \in DOMAIN built /\ stack # <<>>
  BY DEF Links, Ids
<1>2. CASE Real(Top.me)
  <2>1. Top.me \in Mes(stack)
    BY <1>1, TopIsCall DEF Mes
  <2> QED
    BY <1>2, <2>1 DEF Unlinked, Waiting
<1>3. CASE ~Real(Top.me)
  <2>1. Top.me = NullModule
    <3>1. NULL \notin DOMAIN built
      BY MeIsBuilt DEF TreeOK, NULL
    <3> QED
      BY <1>1, <1>3, <3>1 DEF Real
  <2>2. built[Top.me].next = k => NullModule \in g[k]
    BY <1>1, <2>1 DEF PlacesOf, Holds
  <2> QED
    BY <2>2
<1> QED
  BY <1>2, <1>3

\* A new module is waited with, and so is what was.
LEMMA MakesMes ==
    ASSUME stack \in Seq(Frames), Makes
    PROVE  Mes(stack) \cup {Len(built) + 1} \subseteq Mes(stack') /\ Given = NULL
<1> DEFINE block == [fn |-> "block", me |-> NULL]
<1>1. PICK f, frames : /\ frames \in {stack, Append(stack, block)}
                       /\ f \in Frames /\ f.me = Len(built) + 1
                       /\ stack' = Append(frames, f) /\ pc # "return"
  BY DEF Makes
<1>2. block \in Frames
  BY DEF Frames, NULL
<1> HIDE DEF block
<1>3. frames \in Seq(Frames) /\ Mes(stack) \subseteq Mes(frames)
  <2>1. CASE frames = stack
    BY <2>1
  <2>2. CASE frames = Append(stack, block)
    <3>1. /\ frames \in Seq(Frames) /\ DOMAIN stack \subseteq DOMAIN frames
          /\ \A i \in DOMAIN stack : frames[i] = stack[i]
      BY <1>2, <2>2
    <3> QED
      BY <3>1 DEF Mes
  <2> QED
    BY <1>1, <2>1, <2>2
<1>4. /\ DOMAIN Append(frames, f) = DOMAIN frames \cup {Len(frames) + 1}
      /\ (\A i \in DOMAIN frames : Append(frames, f)[i] = frames[i])
      /\ Append(frames, f)[Len(frames) + 1] = f
  BY <1>1, <1>3
<1>5. Mes(Append(frames, f)) = Mes(frames) \cup {Len(built) + 1}
  BY <1>1, <1>4 DEF Mes
<1> QED
  BY <1>1, <1>3, <1>5 DEF Given

\* A call that returns gives up its module, and no other.
LEMMA PopMes ==
    ASSUME stack \in Seq(Frames), stack # <<>>
    PROVE  Mes(stack) = Mes(Pop) \cup {Top.me}
  BY OverPop DEF Pop, Top

\* The chain of m begins.
LEMMA NextMes ==
    ASSUME NEW s \in Seq(Frames), NEW m, CallNextModule(m, s)
    PROVE  Mes(stack') = Mes(s) \cup {m}
<1> DEFINE f == [fn |-> "chain", me |-> m]
<1>1. stack' = Append(s, f) /\ f.me = m
  BY DEF CallNextModule
<1> HIDE DEF f
<1>2. /\ DOMAIN Append(s, f) = DOMAIN s \cup {Len(s) + 1}
      /\ (\A i \in DOMAIN s : Append(s, f)[i] = s[i])
      /\ Append(s, f)[Len(s) + 1] = f
  OBVIOUS
<1> QED
  BY <1>1, <1>2 DEF Mes

\* What is in the hands of a call stays there, unless a module takes it or there
\* is an error.
LEMMA KeptInHand ==
    ASSUME IInv, OwnInv, Kinds, pc' # "undefined",
           NEW k \in DOMAIN built, Real(k), k \in Hands, Free(built', k)
    PROVE  \/ k \in Hands'
           \/ /\ stack # <<>> /\ stack' = Pop /\ pc' = "return" /\ reader'.hasErrors
              /\ k \in {Top.me, Given}
<1>0. stack \in Seq(Frames) /\ TreeOK(built) /\ built \in Seq(Modules)
      /\ returned \in DOMAIN built \cup {NULL} /\ NULL \notin DOMAIN built
  BY MeIsBuilt DEF TreeOK, NULL
<1>1. k \in Mes(stack) \/ k = Given
  BY DEF Hands
<1>2. k # NULL /\ k # NullModule
  BY DEF Real
<1>3. pc # "return" => k \in Mes(stack)
  BY <1>1, <1>2 DEF Given
<1>4. Mes(stack') \subseteq Hands'
  BY DEF Hands
<1>5. pc' = "return" => returned' \in Hands'
  BY DEF Hands, Given
<1>6. stack # <<>> => Mes(stack) = Mes(Pop) \cup {Top.me} /\ Pop \in Seq(Frames)
  BY <1>0, PopMes, PopSeq DEF Pop
<1>7. CASE Stays
  <2>1. Mes(stack') = Mes(stack)
    BY <1>7 DEF Stays, SameCall, Mes
  <2>2. k # Given
    BY <1>7 DEF Stays
  <2> QED
    BY <1>1, <1>4, <2>1, <2>2
<1>8. CASE Makes
  BY <1>0, <1>1, <1>2, <1>4, <1>8, MakesMes
<1>9. CASE Loses
  <2>1. UNCHANGED stack /\ pc # "return"
    BY <1>9 DEF Loses
  <2> QED
    BY <1>3, <1>4, <2>1
<1>10. CASE Pops
  <2>1. stack # <<>> /\ stack' = Pop /\ pc' = "return"
    BY <1>10 DEF Pops
  <2>2. k \in Mes(Pop) \/ k \in {Top.me, Given}
    BY <1>1, <1>6, <2>1
  <2>3. CASE Top.fn = "list" /\ pc # "return" /\ returned' = Top.me
    BY <1>3, <1>4, <1>5, <1>6, <2>1, <2>3
  <2>4. CASE reader'.hasErrors
    BY <1>4, <2>1, <2>2, <2>4
  <2> QED
    BY <1>10, <2>3, <2>4 DEF Pops
<1>11. CASE Gets
  <2>1. /\ Top.me \in DOMAIN built /\ returned \in DOMAIN built /\ UNCHANGED stack
        /\ built' = [built EXCEPT ![Top.me].list = Append(built[Top.me].list, returned)]
        /\ pc = "return"
    BY <1>11 DEF Gets, Ids
  <2> DEFINE l == Append(built[Top.me].list, returned)
  <2>2. returned \in Nat
    BY <1>0, <2>1
  <2>3. built[Top.me].list \in Seq(Nat)
    BY <1>0, <2>1, ListIsSeq
  <2>4. l \in Seq(Nat) /\ \E i \in DOMAIN l : l[i] = returned
    <3>1. l \in Seq(Nat) /\ Len(built[Top.me].list) + 1 \in DOMAIN l
          /\ l[Len(built[Top.me].list) + 1] = returned
      BY <2>2, <2>3
    <3> QED
      BY <3>1
  <2>5. built' = [built EXCEPT ![Top.me].list = l]
    BY <2>1
  <2> HIDE DEF l
  <2>6. DOMAIN built' = DOMAIN built /\ built'[Top.me].list = l
    BY <1>0, <2>1, <2>4, <2>5, SetList
  <2>7. k # returned
    <3>1. PICK i \in DOMAIN l : l[i] = returned
      BY <2>4
    <3>2. Top.me \in DOMAIN built' /\ i \in DOMAIN built'[Top.me].list
          /\ built'[Top.me].list[i] = returned
      BY <2>1, <2>6, <3>1
    <3> QED
      BY <3>2 DEF Free
  <2>8. Given = returned
    BY <2>1 DEF Given
  <2> QED
    BY <1>1, <1>4, <2>1, <2>7, <2>8
<1>12. CASE Links
  <2>1. /\ Top.me \in DOMAIN built /\ returned \in DOMAIN built \cup {NULL} /\ stack' = Pop
        /\ built' = [built EXCEPT ![Top.me].next = returned]
        /\ pc = "return" /\ pc' = "return" /\ returned' = Top.me /\ stack # <<>>
    BY <1>12 DEF Links, Ids
  <2>2. returned \in Nat
    BY <1>0, <2>1 DEF NULL
  <2>3. DOMAIN built' = DOMAIN built /\ built'[Top.me].next = returned
    BY <1>0, <2>1, <2>2, SetNext
  <2>4. k # returned /\ Given = returned
    BY <2>1, <2>3 DEF Free, Given
  <2> QED
    BY <1>1, <1>4, <1>5, <1>6, <2>1, <2>4
<1>13. CASE Turns
  <2>1. PICK m : /\ stack # <<>> /\ CallNextModule(m, Pop)
                 /\ \/ Top.fn = "block" /\ pc = "return" /\ m = returned
                    \/ Top.fn = "include" /\ pc # "return" /\ m = Top.me
    BY <1>13 DEF Turns
  <2>2. Mes(stack') = Mes(Pop) \cup {m}
    BY <1>6, <2>1, NextMes
  <2>3. CASE Top.fn = "block" /\ pc = "return" /\ m = returned
    <3>1. Top.me = NULL
      <4>1. Len(stack) \in DOMAIN stack
        BY <1>0, <2>1, PopSeq
      <4> QED
        BY <2>3, <4>1 DEF OwnInv, NestOK, Top
    <3>2. Given = m
      BY <2>3 DEF Given
    <3> QED
      BY <1>1, <1>2, <1>4, <1>6, <2>1, <2>2, <3>1, <3>2
  <2>4. CASE Top.fn = "include" /\ pc # "return" /\ m = Top.me
    BY <1>3, <1>4, <1>6, <2>1, <2>2, <2>4
  <2> QED
    BY <2>1, <2>3, <2>4
<1>14. CASE Activates
  <2>1. Mes(stack') = Mes(stack) \cup {NullModule} /\ pc # "return"
    BY <1>0, <1>14, NextMes DEF Activates
  <2> QED
    BY <1>3, <1>4, <2>1
<1> QED
  BY <1>7, <1>8, <1>9, <1>10, <1>11, <1>12, <1>13, <1>14 DEF Kinds

\* In an Include, what is made has no place, and nothing of a place is below it.
LEMMA DroppedIsPlaceless ==
    ASSUME IInv, OwnInv, Structure, UNCHANGED input, Clean', NEW g, PlacesOf(g, stack, built, Given),
           GuardedBy(g, built),
           stack # <<>>, stack' = Pop, pc' = "return", reader'.hasErrors,
           NEW k \in {Top.me, Given}, Real(k), k \in Wanted(g, built)
    PROVE  FALSE
<1>0. stack \in Seq(Frames) /\ TreeOK(built)
  BY MeIsBuilt
<1>1. ~Outside'
  <2>1. Outside' => Goes
    BY CleanKept
  <2> QED
    BY <2>1 DEF Goes, CleanAt
<1>2. /\ DOMAIN Pop = 1..(Len(stack) - 1) /\ Len(stack) \in Nat /\ Len(stack) \in DOMAIN stack
      /\ \A j \in DOMAIN Pop : j \in DOMAIN stack /\ Pop[j] = stack[j]
  BY <1>0, PopSeq DEF Pop
<1>3. PICK j \in DOMAIN Pop : Pop[j].fn = "include"
  BY <1>1 DEF Outside
<1>4. j \in DOMAIN stack /\ stack[j].fn = "include" /\ j \in 1..(Len(stack) - 1)
  BY <1>2, <1>3
<1>5. PICK e : e = stack[j].me
  OBVIOUS
<1>6. e \in DOMAIN built /\ e # NULL /\ e \in Nat
  <2>1. FrameOK(stack[j], built)
    BY <1>4 DEF IInv, Shape, CallsOK
  <2>2. e \in DOMAIN built
    BY <1>4, <1>5, <2>1 DEF FrameOK
  <2>3. DOMAIN built = 1..Len(built)
    BY <1>0 DEF TreeOK
  <2> QED
    BY <2>2, <2>3 DEF NULL
<1>7. e \in g[k]
  <2>1. CASE k = Top.me
    <3>1. g[k] = Over(stack, Len(stack))
      BY <1>2, <2>1 DEF PlacesOf, Top
    <3> QED
      BY <1>4, <1>5, <1>6, <3>1 DEF Over
  <2>2. CASE k = Given
    <3>1. g[k] = Mes(stack) \ {NULL}
      BY <2>2 DEF PlacesOf
    <3> QED
      BY <1>4, <1>5, <1>6, <3>1 DEF Mes
  <2> QED
    BY <2>1, <2>2
<1>8. PICK m \in Marked(built) : k <= m /\ m \in Nat /\ k \in Nat /\ k \in DOMAIN built
  BY WantedIs
<1>9. e \in 1..(k - 1)
  BY <1>7, <1>8 DEF PlacesOf
<1>10. m > e /\ m \in DOMAIN built /\ built[m].at > 0
  BY <1>6, <1>8, <1>9 DEF Marked
<1>11. built[m].at = 0
  BY <1>4, <1>5, <1>10 DEF Structure, PlacelessFrom
<1> QED
  BY <1>10, <1>11

\* What is wanted has been wanted, or is made and waited with.
LEMMA WantedBefore ==
    ASSUME IInv, OwnInv, Structure, Kinds, UNCHANGED input, Clean', AtsKept,
           NEW g, NEW h, Extends(g, built, h, built', stack),
           NEW k \in Wanted(h, built')
    PROVE  k \in Wanted(g, built) \/ k \in Mes(stack')
<1>1. PICK m \in Marked(built') : k \in h[m] \cup {m}
  BY DEF Wanted
<1>2. CASE m \in DOMAIN built
  <2>1. m \in Marked(built) /\ h[m] = g[m]
    BY <1>1, <1>2 DEF AtsKept, Marked, Extends
  <2> QED
    BY <1>1, <2>1 DEF Wanted
<1>3. CASE m \notin DOMAIN built
  <2>1. m \in DOMAIN built' \ DOMAIN built /\ built'[m].at > 0
    BY <1>1, <1>3 DEF Marked
  <2>2. Makes
    BY <2>1, NewIsMade
  <2>3. m = Len(built) + 1 /\ h[m] = Mes(stack) \ {NULL}
    BY <2>1 DEF AtsKept, Extends
  <2> QED
    BY <1>1, <2>2, <2>3, MakesMes, MeIsBuilt
<1> QED
  BY <1>2, <1>3

LEMMA StepPlaced ==
    ASSUME IInv, OwnInv, Unlinked, Structure, Kinds, UNCHANGED input, Clean', AtsKept,
           pc' # "undefined",
           NEW g, NEW h, PlacesOf(g, stack, built, Given),
           Extends(g, built, h, built', stack), Tied(g, stack, built, Given)
    PROVE  PlacedIn(h, stack, built, Given)'
<1>1. ASSUME NEW k \in Wanted(h, built'), Free(built', k)
      PROVE  k \in Hands'
  <2>1. CASE k \in Mes(stack')
    BY <2>1 DEF Hands
  <2>2. CASE k \in Wanted(g, built)
    <3>1. /\ k \in DOMAIN built /\ k # NULL /\ k # NullModule /\ NullModule \notin g[k]
          /\ Real(k)
      BY <2>2, WantedIs DEF Tied, Real
    <3>2. Free(built, k)
      <4>1. CASE Links
        <5>1. built[Top.me].next # k
          BY <3>1, <4>1, LinkedHeldNone
        <5> QED
          BY <1>1, <3>1, <5>1, FreeBefore
      <4> QED
        BY <1>1, <3>1, <4>1, FreeBefore
    <3>3. k \in Hands
      BY <2>2, <3>2 DEF Tied, PlacedIn, Hands
    <3>4. \/ k \in Hands'
          \/ /\ stack # <<>> /\ stack' = Pop /\ pc' = "return" /\ reader'.hasErrors
             /\ k \in {Top.me, Given}
      BY <1>1, <3>1, <3>3, KeptInHand
    <3> QED
      BY <2>2, <3>1, <3>4, DroppedIsPlaceless DEF Tied
  <2> QED
    BY <2>1, <2>2, WantedBefore
<1> QED
  BY <1>1 DEF PlacedIn, Hands

-----------------------------------------------------------------------------
(* The invariant *)

LEMMA StepIsDefined == Step => pc # "undefined"
  BY DEF Step, CannotOpen, GetRoot, GetModuleList, ListTakes, ListPuts, DropList, Identifier,
     ReadParameters, Positional, Named, Construct, StatsOutOfRange, Activate, ServerOrPath,
     Block, EndBlock, UnbalancedBlock, DeleteBlock, Include, IncludeFile, IncludeTakes,
     IncludeEnds, DeletedTwice, UsedDeleted, Unexpected, GetNextModule, Chain, EndChain

LEMMA InitWritten == Init => WrittenPlaces
<1> SUFFICES ASSUME Init PROVE WrittenPlaces
  OBVIOUS
<1> DEFINE g == [m \in {NullModule} |-> {}]
<1>0. NoParams.at = 0
  BY DEF NoParams
<1>1. /\ stack = <<>> /\ Given = NULL /\ DOMAIN built = {NullModule}
      /\ \A m \in DOMAIN built : built[m].next = NULL /\ built[m].list = <<>> /\ built[m].at = 0
  BY <1>0 DEF Init, Given, New, NullModule
<1>2. g[NullModule] = {}
  OBVIOUS
<1> HIDE DEF g
<1>3. PlacesOf(g, <<>>, built, NULL)
  BY <1>1, <1>2 DEF PlacesOf, Real
<1>4. Marked(built) = {} /\ Wanted(g, built) = {}
  BY <1>1 DEF Marked, Wanted
<1>5. Tied(g, stack, built, Given)
  BY <1>4 DEF Tied, GuardedBy, PlacedIn
<1> QED
  BY <1>1, <1>3, <1>5 DEF WrittenPlaces

LEMMA StepWritten ==
    ASSUME IInv, OwnInv, Unlinked, Structure, TextInv, WrittenPlaces, Step, stack' \in Seq(Frames)
    PROVE  WrittenPlaces'
<1>1. Kinds /\ UNCHANGED input /\ pc # "undefined" /\ AtsKept
  BY StepKinds, StepKeepsInput, StepIsDefined, KindsKeepAts
<1>2. PICK g : /\ PlacesOf(g, stack, built, Given)
               /\ Clean /\ pc # "undefined" => Tied(g, stack, built, Given)
  BY DEF WrittenPlaces
<1>3. PICK h : PlacesOf(h, stack', built', Given') /\ Extends(g, built, h, built', stack)
  BY <1>1, <1>2, KindsPlaces
<1>4. ASSUME Clean', pc' # "undefined" PROVE Tied(h, stack, built, Given)'
  <2>1. Clean
    BY <1>4, StepText
  <2>2. Tied(g, stack, built, Given)
    BY <1>1, <1>2, <2>1
  <2>3. GuardedBy(h, built)'
    BY <1>1, <1>2, <1>3, <1>4, <2>1, <2>2, StepGuarded DEF Tied
  <2>4. PlacedIn(h, stack, built, Given)'
    BY <1>1, <1>2, <1>3, <1>4, <2>2, StepPlaced
  <2> QED
    BY <2>3, <2>4 DEF Tied
<1>5. PlacesOf(h, stack, built, Given)'
  BY <1>3 DEF PlacesOf, Over, Mes, Holds
<1>6. /\ PlacesOf(h, stack, built, Given)'
      /\ Clean' /\ pc' # "undefined" => Tied(h, stack, built, Given)'
  BY <1>4, <1>5
<1> QED
  BY <1>6 DEF WrittenPlaces

-----------------------------------------------------------------------------
(* The way up *)

OwnerOf(m) == CHOOSE k \in Ids : m \in Held(k)

\* The function that defines AsWritten.
Above ==
    LET above[m \in Ids] ==
            IF Owners(m) = {} THEN {m}
            ELSE {m} \cup above[CHOOSE k \in Ids : m \in Held(k)]
    IN  above

UpClosed(S) == \A k \in S : Owners(k) # {} => OwnerOf(k) \in S
Up(m) == {k \in Ids : \A S \in SUBSET Ids : m \in S /\ UpClosed(S) => k \in S}

LEMMA OwnerHolds ==
    ASSUME NEW m \in Ids, Owners(m) # {}
    PROVE  OwnerOf(m) \in Ids /\ m \in Held(OwnerOf(m)) /\ Holds(built, OwnerOf(m), m)
<1>1. ~Free(built, m)
  BY FreeIsUnowned
<1>2. \E k \in Ids : m \in Held(k)
  BY <1>1 DEF Free, Held, Ids
<1>3. OwnerOf(m) \in Ids /\ m \in Held(OwnerOf(m))
  BY <1>2 DEF OwnerOf
<1> QED
  BY <1>3 DEF Held, Holds

LEMMA UpIs ==
    ASSUME NEW m \in Ids
    PROVE  Up(m) = IF Owners(m) = {} THEN {m} ELSE {m} \cup Up(OwnerOf(m))
<1>1. \A j \in Ids : j \in Up(j)
  BY DEF Up
<1>2. ASSUME NEW j, NEW k \in Up(j), Owners(k) # {} PROVE OwnerOf(k) \in Up(j)
  <2>1. k \in Ids /\ OwnerOf(k) \in Ids
    BY <1>2, OwnerHolds DEF Up
  <2>2. ASSUME NEW S \in SUBSET Ids, j \in S, UpClosed(S) PROVE OwnerOf(k) \in S
    BY <1>2, <2>2 DEF Up, UpClosed
  <2> QED
    BY <2>1, <2>2 DEF Up
<1>3. CASE Owners(m) = {}
  <2>1. {m} \in SUBSET Ids /\ UpClosed({m})
    BY <1>3 DEF UpClosed
  <2>2. Up(m) \subseteq {m}
    BY <2>1 DEF Up
  <2> QED
    BY <1>1, <1>3, <2>2
<1>4. CASE Owners(m) # {}
  <2>1. OwnerOf(m) \in Ids
    BY <1>4, OwnerHolds
  <2> DEFINE S == {m} \cup Up(OwnerOf(m))
  <2>2. S \in SUBSET Ids
    BY DEF Up
  <2>3. UpClosed(S)
    BY <1>1, <1>2, <2>1 DEF UpClosed
  <2>4. Up(m) \subseteq S
    <3> HIDE DEF S
    <3>1. m \in S
      BY DEF S
    <3> QED
      BY <2>2, <2>3, <3>1 DEF Up
  <2>5. ASSUME NEW k \in Up(OwnerOf(m)) PROVE k \in Up(m)
    <3>1. k \in Ids
      BY <2>5 DEF Up
    <3>2. ASSUME NEW T \in SUBSET Ids, m \in T, UpClosed(T) PROVE k \in T
      <4>1. OwnerOf(m) \in T
        BY <1>4, <3>2 DEF UpClosed
      <4> QED
        BY <2>5, <3>2, <4>1 DEF Up
    <3> QED
      BY <3>1, <3>2 DEF Up
  <2> QED
    BY <1>1, <1>4, <2>4, <2>5
<1> QED
  BY <1>3, <1>4

LEMMA AboveIs ==
    ASSUME NEW m \in Ids
    PROVE  Above[m] = IF Owners(m) = {} THEN {m} ELSE {m} \cup Above[OwnerOf(m)]
<1> DEFINE h == [k \in Ids |-> Up(k)]
<1>1. ASSUME NEW k \in Ids
      PROVE  h[k] = IF Owners(k) = {} THEN {k} ELSE {k} \cup h[OwnerOf(k)]
  BY UpIs, OwnerHolds
<1>2. h = [k \in Ids |-> IF Owners(k) = {} THEN {k}
                         ELSE {k} \cup h[CHOOSE l \in Ids : k \in Held(l)]]
  <2>1. h = [k \in Ids |-> h[k]]
    OBVIOUS
  <2> HIDE DEF h
  <2> QED
    BY <1>1, <2>1 DEF OwnerOf
<1> HIDE DEF h
<1>3. Above = [k \in Ids |-> IF Owners(k) = {} THEN {k}
                             ELSE {k} \cup Above[CHOOSE l \in Ids : k \in Held(l)]]
  BY <1>2 DEF Above
<1> QED
  BY <1>3 DEF OwnerOf

\* Up from what is wanted, and no further than to the root, are the modules that
\* are above it.
LEMMA AboveWanted ==
    ASSUME IInv, Structure, NEW g, PlacesOf(g, <<>>, built, returned), GuardedBy(g, built),
           PlacedIn(g, <<>>, built, returned), NEW m \in Wanted(g, built)
    PROVE  Above[m] = {m} \cup g[m] /\ returned \in Above[m]
<1> DEFINE Goal(k) == Above[k] = {k} \cup g[k] /\ returned \in Above[k]
           B == {n \in 0..Len(built) : \A k \in Wanted(g, built) : k <= n => Goal(k)}
<1>1. /\ DOMAIN built = 1..Len(built) /\ Len(built) \in Nat /\ Ids = DOMAIN built
      /\ NullModule \in DOMAIN built
  BY DEF IInv, Shape, TreeOK, Ids
<1>2. \A k \in Wanted(g, built) : k \in 1..Len(built)
  BY <1>1, WantedIs
<1>3. ASSUME NEW k \in Wanted(g, built), \A l \in Wanted(g, built) : l < k => Goal(l)
      PROVE  Goal(k)
  <2>1. /\ k \in Ids /\ Real(k) /\ NullModule \notin g[k]
    BY <1>1, <1>3, WantedIs DEF Real
  <2>2. CASE Owners(k) = {}
    <3>1. k = returned
      <4>1. Free(built, k)
        BY <2>2, FreeIsUnowned
      <4>2. Mes(<<>>) = {}
        BY DEF Mes
      <4> QED
        BY <4>1, <4>2 DEF PlacedIn
    <3>2. g[k] = {}
      BY <2>1, <3>1 DEF PlacesOf, Mes
    <3>3. Above[k] = {k}
      BY <2>1, <2>2, AboveIs
    <3> QED
      BY <3>1, <3>2, <3>3
  <2>3. CASE Owners(k) # {}
    <3>1. PICK o \in Ids : o = OwnerOf(k) /\ Holds(built, o, k)
      BY <2>1, <2>3, OwnerHolds
    <3>2. o # NullModule /\ g[k] = g[o] \cup {o}
      <4>1. k \in DOMAIN built \ {NullModule} /\ o \in DOMAIN built
        BY <1>1, <2>1, <3>1 DEF Real
      <4>2. IF o = NullModule THEN NullModule \in g[k] ELSE g[k] = g[o] \cup {o}
        BY <3>1, <4>1 DEF PlacesOf
      <4> QED
        BY <2>1, <4>2
    <3>3. o < k
      <4>1. g[k] \subseteq 1..(k - 1)
        BY <1>1, <2>1 DEF PlacesOf
      <4> QED
        BY <1>1, <2>1, <3>2, <4>1
    <3>4. o \in Wanted(g, built)
      <4>1. PICK w \in Marked(built) : k \in g[w] \cup {w}
        BY <1>3 DEF Wanted
      <4>2. w \in DOMAIN built /\ (k \in g[w] => g[k] \subseteq g[w])
        BY <4>1 DEF Marked, PlacesOf
      <4>3. o \in g[w]
        BY <3>2, <4>1, <4>2
      <4> QED
        BY <4>1, <4>3 DEF Wanted
    <3>5. Goal(o)
      BY <1>3, <3>3, <3>4
    <3>6. Above[k] = {k} \cup Above[o]
      BY <2>1, <2>3, <3>1, AboveIs
    <3> QED
      BY <3>2, <3>5, <3>6
  <2> QED
    BY <2>2, <2>3
<1> HIDE DEF Goal
<1>4. 0 \in B
  <2>1. \A k \in Wanted(g, built) : ~(k <= 0)
    BY <1>1, <1>2
  <2> QED
    BY <1>1, <2>1
<1>5. ASSUME NEW n \in 1..Len(built), n - 1 \in B PROVE n \in B
  <2>1. ASSUME NEW k \in Wanted(g, built), k <= n PROVE Goal(k)
    <3>1. \A l \in Wanted(g, built) : l < k => l <= n - 1
      BY <1>1, <1>2, <2>1
    <3>2. \A l \in Wanted(g, built) : l <= n - 1 => Goal(l)
      BY <1>5
    <3> QED
      BY <1>3, <3>1, <3>2
  <2> QED
    BY <1>1, <2>1
<1>6. 0..Len(built) \subseteq B
  <2> HIDE DEF B
  <2> QED
    BY <1>1, <1>4, <1>5, SetInduction
<1>7. Len(built) \in B /\ m <= Len(built)
  BY <1>1, <1>2, <1>6
<1>8. Goal(m)
  BY <1>7
<1> QED
  BY <1>8 DEF Goal

-----------------------------------------------------------------------------

LEMMA AsWrittenIs ==
    ASSUME (Accepted /\ reader.t = "END_OF_FILE" /\ TextClosed /\ ActivationLast) =>
              /\ {built[m].at : m \in {k \in Ids : built[k].at > 0}} = Heads
              /\ \A m \in {k \in Ids : built[k].at > 0} :
                    /\ returned \in Above[m]
                    /\ {built[k].at : k \in Above[m] \ {m}} \ {0}
                         = {i \in Heads : Guards(i, built[m].at)}
    PROVE  AsWritten
  BY DEF AsWritten, Above

LEMMA WrittenIsAsWritten ==
    ASSUME IInv, Structure, TextInv, WrittenPlaces
    PROVE  AsWritten
<1>0. /\ input \in Seq(InputTokens) /\ TreeOK(built) /\ built \in Seq(Modules)
      /\ \A m \in Ids : built[m].at \in Nat
  <2>1. input \in Seq(InputTokens) /\ TreeOK(built) /\ built \in Seq(Modules)
    BY DEF IInv, Shape, TreeOK
  <2>2. \A m \in Ids : built[m] \in Modules
    BY <2>1 DEF Ids
  <2> QED
    BY <2>1, <2>2 DEF Modules
<1>1. SUFFICES ASSUME Accepted, reader.t = "END_OF_FILE", TextClosed, ActivationLast
      PROVE  /\ {built[m].at : m \in {k \in Ids : built[k].at > 0}} = Heads
             /\ \A m \in {k \in Ids : built[k].at > 0} :
                   /\ returned \in Above[m]
                   /\ {built[k].at : k \in Above[m] \ {m}} \ {0}
                        = {i \in Heads : Guards(i, built[m].at)}
  BY AsWrittenIs
<1>2. pc = "return" /\ stack = <<>> /\ ~reader.hasErrors /\ Given = returned
  BY <1>1 DEF Accepted, Finished, Given
<1>3. Outside /\ Clean
  BY <1>1, <1>2 DEF Outside, Clean, CleanAt, Inside
<1>4. PICK i : At(reader, i) /\ MadeOf(built) = Before(i)
  BY <1>2, <1>3 DEF TextInv, ReadsOf, ReturnsTo
<1>5. i = Len(input) + 1 /\ DOMAIN input = 1..Len(input) /\ Len(input) \in Nat
  BY <1>0, <1>1, <1>4, AtToken
<1>6. Before(i) = Heads
  <2>1. \A h \in Heads : h \in DOMAIN input
    BY HeadIs
  <2> QED
    BY <1>5, <2>1 DEF Before
<1>7. {built[m].at : m \in {k \in Ids : built[k].at > 0}} = Heads
  <2>1. {built[m].at : m \in {k \in Ids : built[k].at > 0}} = MadeOf(built)
    BY <1>0 DEF MadeOf, Ids
  <2> QED
    BY <1>4, <1>6, <2>1
<1>8. PICK g : PlacesOf(g, <<>>, built, returned) /\ Tied(g, <<>>, built, returned)
  BY <1>2, <1>3 DEF WrittenPlaces
<1>9. ASSUME NEW m \in {k \in Ids : built[k].at > 0}
      PROVE  /\ returned \in Above[m]
             /\ {built[k].at : k \in Above[m] \ {m}} \ {0}
                  = {h \in Heads : Guards(h, built[m].at)}
  <2>1. m \in Marked(built) /\ m \in Wanted(g, built)
    BY DEF Marked, Wanted, Ids
  <2>2. Above[m] = {m} \cup g[m] /\ returned \in Above[m]
    BY <1>8, <2>1, AboveWanted DEF Tied
  <2>3. m \notin g[m]
    <3>1. g[m] \subseteq 1..(m - 1) /\ m \in Nat
      BY <1>0, <1>8, <2>1 DEF PlacesOf, Marked
    <3> QED
      BY <3>1
  <2>4. Above[m] \ {m} = g[m]
    BY <2>2, <2>3
  <2>5. AtsOf(built, g[m]) = GuardsOf(built[m].at)
    BY <1>8, <2>1 DEF Tied, GuardedBy
  <2> QED
    BY <2>2, <2>4, <2>5 DEF AtsOf, GuardsOf
<1> QED
  BY <1>7, <1>9

WrittenInv == IInv /\ OwnInv /\ Unlinked /\ Structure /\ TextInv /\ WrittenPlaces

LEMMA InitWrittenInv == Init => WrittenInv
  BY IInvInit, InitOwned, InitUnlinked, InitStructure, InitText, InitWritten DEF WrittenInv

\* Nothing else changes what has been read and made.
LEMMA WrittenStutters == WrittenInv /\ UNCHANGED vars => WrittenInv'
<1> SUFFICES ASSUME WrittenInv, UNCHANGED vars PROVE WrittenInv'
  OBVIOUS
<1>1. UNCHANGED <<input, reader, pc, stack, params, built, deleted, registered, returned>>
  BY DEF vars
<1>2. IInv' /\ OwnInv' /\ Unlinked'
  BY IInvNext, NextOwned, NextUnlinked DEF WrittenInv
<1>3. Structure'
  BY <1>1 DEF WrittenInv, Structure, PlacelessFrom, ListsOK, Outside, OpensList, Given
<1>4. (Outside' <=> Outside) /\ (\A n : Inside(n)' <=> Inside(n)) /\ Given' = Given
  BY <1>1 DEF Outside, Inside, Given
<1>5. ASSUME Clean' PROVE Clean
  <2>1. /\ TextClosed /\ ActivationLast /\ (Outside' => Goes)
        /\ \A n \in DOMAIN stack' : Inside(n)' => CleanAt(stack'[n].reader, "getNextModule")
    BY <1>1, <1>5, CleanKept
  <2> QED
    BY <1>1, <1>4, <2>1 DEF Clean, Goes
<1>6. ASSUME Clean'
      PROVE  /\ Outside' => \E i : ReadsOf(reader, pc, stack, built, params, i)'
             /\ \A n \in DOMAIN stack' : Inside(n)' =>
                   \E i : AtNext(stack[n].reader, stack, built, n, i)'
  <2>1. TextInv /\ Clean
    BY <1>5, <1>6 DEF WrittenInv
  <2>2. ASSUME Outside' PROVE \E i : ReadsOf(reader, pc, stack, built, params, i)'
    <3>1. PICK i : ReadsOf(reader, pc, stack, built, params, i)
      BY <1>4, <2>1, <2>2 DEF TextInv
    <3>2. There(i)
      BY <1>1, <3>1 DEF There
    <3> QED
      BY <1>1, <3>2, ThereKept
  <2>3. ASSUME NEW n \in DOMAIN stack', Inside(n)'
        PROVE  \E i : AtNext(stack[n].reader, stack, built, n, i)'
    <3>1. PICK i : AtNext(stack[n].reader, stack, built, n, i)
      BY <1>1, <1>4, <2>1, <2>3 DEF TextInv
    <3>2. AtNext(stack'[n].reader, stack', built', n, i)
      BY <1>1, <3>1
    <3> QED
      BY <1>1, <3>2, BelowKept
  <2> QED
    BY <2>2, <2>3
<1>7. TextInv'
  BY <1>6 DEF TextInv
<1>8. WrittenPlaces'
  <2>1. PICK g : /\ PlacesOf(g, stack, built, Given)
                 /\ Clean /\ pc # "undefined" => Tied(g, stack, built, Given)
    BY DEF WrittenInv, WrittenPlaces
  <2>2. PlacesOf(g, stack, built, Given)'
    <3>1. PlacesOf(g, stack', built', Given')
      BY <1>1, <1>4, <2>1
    <3> QED
      BY <3>1 DEF PlacesOf, Over, Mes, Holds
  <2>3. \A q : GuardsOf(q)' = GuardsOf(q)
    BY <1>1, GuardsKept
  <2>4. ASSUME Clean', pc' # "undefined" PROVE Tied(g, stack, built, Given)'
    <3>1. Tied(g, stack, built, Given)
      BY <1>1, <1>5, <2>1, <2>4
    <3>2. GuardedBy(g, built)'
      BY <1>1, <2>3, <3>1 DEF Tied, GuardedBy, Marked, AtsOf
    <3>3. PlacedIn(g, stack, built, Given)'
      BY <1>1, <1>4, <3>1 DEF Tied, PlacedIn, Wanted, Marked, Free, Mes
    <3> QED
      BY <3>2, <3>3 DEF Tied
  <2>5. /\ PlacesOf(g, stack, built, Given)'
        /\ Clean' /\ pc' # "undefined" => Tied(g, stack, built, Given)'
    BY <2>2, <2>4
  <2> QED
    BY <2>5 DEF WrittenPlaces
<1> QED
  BY <1>2, <1>3, <1>7, <1>8 DEF WrittenInv

LEMMA NextWrittenInv == WrittenInv /\ [Next]_vars => WrittenInv'
<1> SUFFICES ASSUME WrittenInv, [Next]_vars PROVE WrittenInv'
  OBVIOUS
<1>1. IInv' /\ OwnInv' /\ Unlinked'
  BY IInvNext, NextOwned, NextUnlinked DEF WrittenInv
<1>2. CASE Step
  <2>1. stack' \in Seq(Frames)
    BY <1>1 DEF IInv, Shape, CallsOK
  <2>2. Structure' /\ TextInv' /\ WrittenPlaces'
    BY <1>2, <2>1, StepStructure, StepText, StepWritten DEF WrittenInv
  <2> QED
    BY <1>1, <2>2 DEF WrittenInv
<1>3. CASE UNCHANGED vars
  BY <1>3, WrittenStutters
<1> QED
  BY <1>2, <1>3 DEF Next, Done

\* A text that is read to its end without an error gives a module for each that
\* is written, and above it, up to the root, those that guard it in the text and
\* no other (configparser.cpp:300, configparser.cpp:356).
THEOREM TextAsWritten == Spec => []AsWritten
<1>1. WrittenInv => AsWritten
  BY WrittenIsAsWritten DEF WrittenInv
<1> QED
  BY <1>1, InitWrittenInv, NextWrittenInv, PTL DEF Spec
=============================================================================
