--------------------------- MODULE ListingProofs ---------------------------
(***************************************************************************)
(* Listings and types, for every file of types and every directory.        *)
(***************************************************************************)
EXTENDS Listing, SequenceTheorems, FiniteSetTheorems, TLAPS

-----------------------------------------------------------------------------
(* Numbers *)

Smaller(S, x) == {y \in S : y < x}

\* A finite set of natural numbers that is not empty has a least element.
LEMMA LeastElement ==
    ASSUME NEW S \in SUBSET Nat, IsFiniteSet(S), S # {}
    PROVE  \E x \in S : \A y \in S : x <= y
<1> DEFINE Below == {Smaller(S, x) : x \in S}
<1>a. ASSUME NEW x \in S
      PROVE  Smaller(S, x) \in SUBSET S /\ IsFiniteSet(Smaller(S, x))
  <2>1. Smaller(S, x) \subseteq S
    BY DEF Smaller
  <2> QED
    BY <2>1, FS_Subset
<1>1. Below \subseteq FiniteSubsetsOf(S) /\ Below # {}
  BY <1>a DEF FiniteSubsetsOf
<1>2. PICK T \in Below : \A U \in Below : ~(<<U, T>> \in StrictSubsetOrdering(S))
  BY <1>1, FS_StrictSubsetOrderingWellFounded, WFMin
<1>3. PICK x \in S : T = Smaller(S, x)
  BY <1>2
<1>4. ASSUME NEW y \in S, y < x
      PROVE  FALSE
  <2>1. Smaller(S, y) \in Below
    OBVIOUS
  <2>2. \A z \in S : z < y => z < x
    BY <1>4
  <2>3. y \in Smaller(S, x) /\ y \notin Smaller(S, y)
    BY <1>4 DEF Smaller
  <2>4. Smaller(S, y) \subseteq T /\ Smaller(S, y) # T
    BY <1>3, <2>2, <2>3 DEF Smaller
  <2>5. T \in SUBSET S /\ Smaller(S, y) \in SUBSET S
    BY <1>3, <1>a
  <2>6. <<Smaller(S, y), T>> \in StrictSubsetOrdering(S)
    BY <2>4, <2>5 DEF StrictSubsetOrdering
  <2> QED
    BY <1>2, <2>1, <2>6
<1>5. \A y \in S : x <= y
  BY <1>4
<1> QED
  BY <1>5

\* The least and the greatest of some numbers up to N.
LEMMA LeastOf ==
    ASSUME NEW N \in Nat, NEW S \in SUBSET (0..N), S # {}
    PROVE  \E x \in S : \A y \in S : x <= y
<1>1. IsFiniteSet(S) /\ S \in SUBSET Nat
  <2>1. IsFiniteSet(0..N)
    BY FS_Interval
  <2>2. IsFiniteSet(S)
    BY <2>1, FS_Subset
  <2> QED
    BY <2>2
<1> QED
  BY <1>1, LeastElement

LEMMA GreatestOf ==
    ASSUME NEW N \in Nat, NEW S \in SUBSET (0..N), S # {}
    PROVE  \E x \in S : \A y \in S : x >= y
<1> DEFINE mirrored == {N - x : x \in S}
<1>1. mirrored \in SUBSET (0..N) /\ mirrored # {}
  <2>1. \A x \in S : N - x \in 0..N
    OBVIOUS
  <2> QED
    BY <2>1
<1>2. PICK m \in mirrored : \A y \in mirrored : m <= y
  <2> HIDE DEF mirrored
  <2> QED
    BY <1>1, LeastOf
<1>3. PICK x \in S : m = N - x
  BY <1>2
<1>4. ASSUME NEW y \in S PROVE x >= y
  <2>1. N - y \in mirrored
    OBVIOUS
  <2>2. m <= N - y
    BY <1>2, <2>1
  <2>3. x \in 0..N /\ y \in 0..N
    OBVIOUS
  <2> QED
    BY <1>3, <2>2, <2>3
<1> QED
  BY <1>4

\* Induction, for a set of numbers.
LEMMA SetInduction ==
    ASSUME NEW N \in Nat, NEW B, 0 \in B, \A n \in 1..N : n - 1 \in B => n \in B
    PROVE  0..N \subseteq B
<1> DEFINE bad == {n \in 0..N : n \notin B}
<1>1. ASSUME bad # {} PROVE FALSE
  <2>1. bad \in SUBSET (0..N)
    OBVIOUS
  <2>2. PICK x \in bad : \A y \in bad : x <= y
    <3> HIDE DEF bad
    <3> QED
      BY <1>1, <2>1, LeastOf
  <2>3. x \in 1..N /\ x - 1 \in 0..N
    BY <2>2
  <2>4. x - 1 \in B
    BY <2>2, <2>3
  <2> QED
    BY <2>2, <2>3, <2>4
<1> QED
  BY <1>1

-----------------------------------------------------------------------------
(* QString::replace *)

Found(s, what, i) ==
    i + Len(what) - 1 <= Len(s) /\ SubSeq(s, i, i + Len(what) - 1) = what

\* What there is from i on, once what is behind it has been replaced.
Turn(s, what, by, f, i) ==
    IF i > Len(s) THEN <<>>
    ELSE IF Found(s, what, i) THEN by \o f[i + Len(what)]
    ELSE <<s[i]>> \o f[i + 1]

Replaces(s, what, by, f, k) ==
    \A i \in k..(Len(s) + 1) : f[i] = Turn(s, what, by, f, i)

\* Only what is behind i counts there.
LEMMA TurnLooksAhead ==
    ASSUME NEW s, NEW what, NEW by, NEW f, NEW g, Len(s) \in Nat,
           Len(what) \in Nat \ {0}, NEW i \in 1..(Len(s) + 1),
           \A j \in (i + 1)..(Len(s) + 1) : f[j] = g[j]
    PROVE  Turn(s, what, by, f, i) = Turn(s, what, by, g, i)
<1>1. CASE i > Len(s)
  BY <1>1 DEF Turn
<1>2. CASE i <= Len(s) /\ Found(s, what, i)
  <2>1. i + Len(what) \in (i + 1)..(Len(s) + 1)
    BY <1>2 DEF Found
  <2>2. f[i + Len(what)] = g[i + Len(what)]
    BY <2>1
  <2>3. ~(i > Len(s))
    BY <1>2
  <2> QED
    BY <1>2, <2>2, <2>3, Zenon DEF Turn
<1>3. CASE i <= Len(s) /\ ~Found(s, what, i)
  <2>1. i + 1 \in (i + 1)..(Len(s) + 1)
    BY <1>3
  <2>2. f[i + 1] = g[i + 1]
    BY <2>1
  <2>3. ~(i > Len(s))
    BY <1>3
  <2> QED
    BY <1>3, <2>2, <2>3, Zenon DEF Turn
<1> QED
  BY <1>1, <1>2, <1>3

LEMMA ReplacesExists ==
    ASSUME NEW s, NEW what, NEW by, Len(s) \in Nat, Len(what) \in Nat \ {0}
    PROVE  \E f : Replaces(s, what, by, f, 1)
<1> DEFINE n == Len(s)
           B == {j \in 0..n : \E f : Replaces(s, what, by, f, n + 1 - j)}
<1>1. 0 \in B
  <2> DEFINE f == [i \in {n + 1} |-> <<>>]
  <2>1. \A i \in (n + 1)..(n + 1) : i = n + 1 /\ i > n
    OBVIOUS
  <2>2. \A i \in (n + 1)..(n + 1) : Turn(s, what, by, f, i) = <<>>
    BY <2>1, Zenon DEF Turn
  <2>3. Replaces(s, what, by, f, n + 1)
    BY <2>1, <2>2 DEF Replaces
  <2>4. n + 1 - 0 = n + 1 /\ 0 \in 0..n
    OBVIOUS
  <2> HIDE DEF f, n
  <2> QED
    BY <2>3, <2>4
<1>2. ASSUME NEW j \in 1..n, j - 1 \in B PROVE j \in B
  <2> DEFINE k == n + 1 - j
  <2>1. PICK f : Replaces(s, what, by, f, n + 1 - (j - 1))
    BY <1>2
  <2> DEFINE g == [i \in k..(n + 1) |-> IF i = k THEN Turn(s, what, by, f, i) ELSE f[i]]
  <2>2. /\ n + 1 - (j - 1) = k + 1 /\ k \in 1..n
        /\ \A i \in k..(n + 1) : i = k \/ i \in (k + 1)..(n + 1)
    OBVIOUS
  <2>3. \A i \in (k + 1)..(n + 1) : g[i] = f[i] /\ i \in k..(n + 1)
    BY <2>2
  <2>4. g[k] = Turn(s, what, by, f, k)
    BY <2>2
  <2> HIDE DEF g, k
  <2>5. ASSUME NEW i \in k..(n + 1) PROVE g[i] = Turn(s, what, by, g, i)
    <3>1. i \in 1..(Len(s) + 1) /\ \A m \in (i + 1)..(n + 1) : m \in (k + 1)..(n + 1)
      BY <2>2
    <3>2. Turn(s, what, by, f, i) = Turn(s, what, by, g, i)
      BY <2>3, <3>1, TurnLooksAhead
    <3>3. CASE i = k
      BY <2>4, <3>2, <3>3
    <3>4. CASE i \in (k + 1)..(n + 1)
      <4>1. f[i] = Turn(s, what, by, f, i)
        BY <2>1, <2>2, <3>4 DEF Replaces
      <4> QED
        BY <2>3, <3>2, <3>4, <4>1
    <3> QED
      BY <2>2, <3>3, <3>4
  <2>6. Replaces(s, what, by, g, k)
    BY <2>5 DEF Replaces
  <2> QED
    BY <2>6 DEF k
<1> HIDE DEF B
<1>3. 0..n \subseteq B
  BY <1>1, <1>2, SetInduction
<1>4. n \in B /\ n + 1 - n = 1
  BY <1>3
<1> QED
  BY <1>4 DEF B

\* The function that defines Replace.
From(s, what, by) ==
    LET from[i \in 1..(Len(s) + 1)] ==
            IF i > Len(s) THEN <<>>
            ELSE IF i + Len(what) - 1 <= Len(s) /\ SubSeq(s, i, i + Len(what) - 1) = what
            THEN by \o from[i + Len(what)]
            ELSE <<s[i]>> \o from[i + 1]
    IN  from

LEMMA ReplaceIsComputed ==
    ASSUME NEW s, NEW what, NEW by, Len(s) \in Nat, Len(what) \in Nat \ {0}
    PROVE  /\ Replace(s, what, by) = From(s, what, by)[1]
           /\ Replaces(s, what, by, From(s, what, by), 1)
<1>1. PICK f : Replaces(s, what, by, f, 1)
  BY ReplacesExists
<1> DEFINE g == [i \in 1..(Len(s) + 1) |-> f[i]]
<1>2. \A i \in 1..(Len(s) + 1) : g[i] = f[i]
  OBVIOUS
<1>3. ASSUME NEW i \in 1..(Len(s) + 1) PROVE g[i] = Turn(s, what, by, g, i)
  <2> HIDE DEF g
  <2>1. \A j \in (i + 1)..(Len(s) + 1) : j \in 1..(Len(s) + 1)
    OBVIOUS
  <2>2. Turn(s, what, by, f, i) = Turn(s, what, by, g, i)
    BY <1>2, <2>1, TurnLooksAhead
  <2> QED
    BY <1>1, <1>2, <2>2 DEF Replaces
<1>4. g = [i \in 1..(Len(s) + 1) |->
              IF i > Len(s) THEN <<>>
              ELSE IF i + Len(what) - 1 <= Len(s) /\ SubSeq(s, i, i + Len(what) - 1) = what
              THEN by \o g[i + Len(what)]
              ELSE <<s[i]>> \o g[i + 1]]
  <2>1. g = [i \in 1..(Len(s) + 1) |-> g[i]]
    OBVIOUS
  <2> HIDE DEF g
  <2> QED
    BY <1>3, <2>1, Zenon DEF Turn, Found
<1> HIDE DEF g
<1>5. From(s, what, by) =
         [i \in 1..(Len(s) + 1) |->
              IF i > Len(s) THEN <<>>
              ELSE IF i + Len(what) - 1 <= Len(s) /\ SubSeq(s, i, i + Len(what) - 1) = what
              THEN by \o From(s, what, by)[i + Len(what)]
              ELSE <<s[i]>> \o From(s, what, by)[i + 1]]
  BY <1>4, Zenon DEF From
<1>6. ASSUME NEW i \in 1..(Len(s) + 1)
      PROVE  From(s, what, by)[i] = Turn(s, what, by, From(s, what, by), i)
  <2> DEFINE h == From(s, what, by)
             body(j) == IF j > Len(s) THEN <<>>
                        ELSE IF j + Len(what) - 1 <= Len(s) /\ SubSeq(s, j, j + Len(what) - 1) = what
                        THEN by \o h[j + Len(what)]
                        ELSE <<s[j]>> \o h[j + 1]
  <2>1. h = [j \in 1..(Len(s) + 1) |-> body(j)]
    BY <1>5, Zenon
  <2>2. body(i) = Turn(s, what, by, h, i)
    BY Zenon DEF Turn, Found
  <2> HIDE DEF h, body
  <2>3. h[i] = body(i)
    BY <2>1
  <2> QED
    BY <2>2, <2>3 DEF h
<1>7. Replace(s, what, by) = From(s, what, by)[1]
  BY Zenon DEF Replace, From
<1> QED
  BY <1>6, <1>7 DEF Replaces

\* A single character at a time.
LEMMA FoundOne ==
    ASSUME NEW C, NEW s \in Seq(C), NEW k \in 1..Len(s), NEW what, what = <<s[k]>>
    PROVE  Found(s, what, k)
<1>1. Len(what) = 1 /\ k + Len(what) - 1 = k /\ s[k] \in C
  OBVIOUS
<1>2. SubSeq(s, k, k) = SubSeq(s, k, k - 1) \o <<s[k]>> /\ k \in k..Len(s)
  BY SubSeqRecursiveSecond
<1>3. SubSeq(s, k, k - 1) = <<>>
  BY SubSeqEmpty
<1>4. <<s[k]>> \in Seq(C)
  BY <1>1
<1>5. SubSeq(s, k, k) = <<s[k]>>
  BY <1>2, <1>3, <1>4, ConcatEmptySeq
<1> QED
  BY <1>1, <1>5 DEF Found

\* The result has all that holds of nothing and stays true when what is left, or
\* put in, is added in front.
LEMMA ReplaceIn ==
    ASSUME NEW C, NEW W, NEW s \in Seq(C), NEW what, Len(what) \in Nat \ {0}, NEW by,
           <<>> \in W, \A w \in W : by \o w \in W,
           \A i \in DOMAIN s : what = <<s[i]>> \/ \A w \in W : <<s[i]>> \o w \in W
    PROVE  /\ Replace(s, what, by) \in W
           /\ \A i \in 1..(Len(s) + 1) : From(s, what, by)[i] \in W
<1> DEFINE n == Len(s)
           f == From(s, what, by)
           B == {j \in 0..n : \A i \in (n + 1 - j)..(n + 1) : f[i] \in W}
<1>1. n \in Nat /\ Replaces(s, what, by, f, 1)
  BY ReplaceIsComputed
<1>2. 0 \in B
  <2>1. \A i \in (n + 1 - 0)..(n + 1) : i = n + 1 /\ i > Len(s) /\ i \in 1..(n + 1)
    BY <1>1
  <2>2. \A i \in (n + 1 - 0)..(n + 1) : f[i] = <<>>
    <3>1. \A i \in (n + 1 - 0)..(n + 1) : f[i] = Turn(s, what, by, f, i)
      BY <1>1, <2>1 DEF Replaces
    <3> QED
      BY <2>1, <3>1, Zenon DEF Turn
  <2>3. 0 \in 0..n
    BY <1>1
  <2> HIDE DEF f, n
  <2>4. \A i \in (n + 1 - 0)..(n + 1) : f[i] \in W
    BY <2>2, Zenon
  <2> QED
    BY <2>3, <2>4
<1>3. ASSUME NEW j \in 1..n, j - 1 \in B PROVE j \in B
  <2> DEFINE k == n + 1 - j
  <2>1. /\ k \in 1..n /\ k \in 1..(n + 1) /\ j \in 0..n
        /\ \A i \in k..(n + 1) : i = k \/ i \in (n + 1 - (j - 1))..(n + 1)
        /\ k + 1 \in (n + 1 - (j - 1))..(n + 1)
    BY <1>1
  <2>2. \A i \in (n + 1 - (j - 1))..(n + 1) : f[i] \in W
    BY <1>3
  <2>3. f[k] = Turn(s, what, by, f, k) /\ ~(k > Len(s))
    BY <1>1, <2>1 DEF Replaces
  <2>4. CASE Found(s, what, k)
    <3>1. k + Len(what) \in (n + 1 - (j - 1))..(n + 1)
      BY <1>1, <2>1, <2>4 DEF Found
    <3>2. f[k + Len(what)] \in W
      BY <2>2, <3>1
    <3>3. f[k] = by \o f[k + Len(what)]
      BY <2>3, <2>4, Zenon DEF Turn
    <3> HIDE DEF f, n, k
    <3>4. f[k] \in W
      BY <3>2, <3>3
    <3> QED
      BY <2>1, <2>2, <3>4 DEF k
  <2>5. CASE ~Found(s, what, k)
    <3>1. k \in DOMAIN s /\ what # <<s[k]>>
      BY <2>1, <2>5, FoundOne
    <3>2. f[k] = <<s[k]>> \o f[k + 1] /\ f[k + 1] \in W
      BY <2>1, <2>2, <2>3, <2>5, Zenon DEF Turn
    <3> HIDE DEF f, n, k
    <3>3. f[k] \in W
      BY <3>1, <3>2
    <3> QED
      BY <2>1, <2>2, <3>3 DEF k
  <2> QED
    BY <2>4, <2>5
<1> HIDE DEF B
<1>4. 0..n \subseteq B
  BY <1>1, <1>2, <1>3, SetInduction
<1>5. n \in B /\ 1 \in (n + 1 - n)..(n + 1) /\ n + 1 - n = 1
  BY <1>1, <1>4
<1>6. \A i \in 1..(n + 1) : f[i] \in W
  BY <1>5 DEF B
<1>7. f[1] \in W
  BY <1>5, <1>6
<1> QED
  BY <1>6, <1>7, ReplaceIsComputed

\* What is left and what is put in is all there is in the result.
LEMMA ReplaceTyped ==
    ASSUME NEW C, NEW D, NEW s \in Seq(C), NEW what, Len(what) \in Nat \ {0},
           NEW by \in Seq(D), \A c \in C : c \in D \/ what = <<c>>
    PROVE  Replace(s, what, by) \in Seq(D)
<1>1. <<>> \in Seq(D) /\ \A w \in Seq(D) : by \o w \in Seq(D)
  BY ConcatProperties
<1>2. ASSUME NEW i \in DOMAIN s
      PROVE  what = <<s[i]>> \/ \A w \in Seq(D) : <<s[i]>> \o w \in Seq(D)
  <2>1. s[i] \in C
    OBVIOUS
  <2>2. CASE s[i] \in D
    BY <2>2, ConcatProperties
  <2> QED
    BY <2>1, <2>2
<1> QED
  BY <1>1, <1>2, ReplaceIn

-----------------------------------------------------------------------------
(* Characters *)

LEMMA Digits25 ==
    /\ "%" \in Chars \ NotAscii /\ "space" \in Chars \ NotAscii
    /\ "0" \in Chars \ NotAscii /\ "2" \in Chars \ NotAscii
    /\ "3" \in Chars \ NotAscii /\ "5" \in Chars \ NotAscii
    /\ "8" \in Chars \ NotAscii /\ "9" \in Chars \ NotAscii
    /\ "A" \in Chars \ NotAscii /\ "C" \in Chars \ NotAscii
    /\ "E" \in Chars \ NotAscii
BY Zenon DEF Chars, Hex, Digits, NotAscii

LEMMA EncodeTyped ==
    ASSUME NEW str \in Names
    PROVE  EncodeURL(str) \in Names
<1>1. Escape(<<"2", "5">>) \in Seq(Chars) /\ Escape(<<"2", "0">>) \in Seq(Chars)
  BY Digits25 DEF Escape
<1>2. Len(<<"%">>) \in Nat \ {0} /\ Len(<<"space">>) \in Nat \ {0}
  OBVIOUS
<1>3. Replace(str, <<"%">>, Escape(<<"2", "5">>)) \in Seq(Chars)
  BY <1>1, <1>2, ReplaceTyped DEF Names
<1> QED
  BY <1>1, <1>2, <1>3, ReplaceTyped DEF Names, EncodeURL

LEMMA PercentEncodeTyped ==
    ASSUME NEW u \in Names
    PROVE  PercentEncode(u) \in Seq(Chars \ NotAscii)
<1> DEFINE two == Escape(TwoBytes[1]) \o Escape(TwoBytes[2])
           three == <<"%", "E", "2", "%", "8", "2", "%", "A", "C">>
           ascii == Chars \ NotAscii
<1>1. two \in Seq(ascii)
  <2> HIDE DEF ascii
  <2>1. TwoBytes[1] = <<"C", "3">> /\ TwoBytes[2] = <<"A", "9">>
    BY DEF TwoBytes
  <2>2. <<"C", "3">> \in Seq(ascii) /\ <<"A", "9">> \in Seq(ascii) /\ <<"%">> \in Seq(ascii)
    BY Digits25 DEF ascii
  <2>3. Escape(TwoBytes[1]) \in Seq(ascii) /\ Escape(TwoBytes[2]) \in Seq(ascii)
    BY <2>1, <2>2, ConcatProperties DEF Escape
  <2> QED
    BY <2>3, ConcatProperties
<1>2. three \in Seq(ascii)
  <2> HIDE DEF ascii
  <2> QED
    BY Digits25 DEF ascii
<1>3. ascii \subseteq Chars \ {"eacute"} /\ "eacute" \in NotAscii
  BY Zenon DEF NotAscii
<1>4. \A c \in Chars : c \in Chars \ {"eacute"} \/ c = "eacute"
  OBVIOUS
<1>5. \A c \in Chars \ {"eacute"} : c \in ascii \/ c = "euro"
  BY Zenon DEF NotAscii
<1>6. Len(<<"eacute">>) \in Nat \ {0} /\ Len(<<"euro">>) \in Nat \ {0}
  OBVIOUS
<1> HIDE DEF two, three, ascii
<1>7. two \in Seq(Chars \ {"eacute"})
  BY <1>1, <1>3, SeqMonotonic
<1>8. Replace(u, <<"eacute">>, two) \in Seq(Chars \ {"eacute"})
  <2>1. \A c \in Chars : c \in Chars \ {"eacute"} \/ <<"eacute">> = <<c>>
    BY <1>4
  <2> QED
    BY <1>6, <1>7, <2>1, ReplaceTyped DEF Names
<1>9. Replace(Replace(u, <<"eacute">>, two), <<"euro">>, three) \in Seq(ascii)
  <2>1. \A c \in Chars \ {"eacute"} : c \in ascii \/ <<"euro">> = <<c>>
    BY <1>5
  <2> QED
    BY <1>2, <1>6, <1>8, <2>1, ReplaceTyped
<1> QED
  BY <1>9, Zenon DEF PercentEncode, two, three, ascii

\* What bytes are decoded to.
LEMMA DecodedTyped ==
    \A bytes : FromLatin1(bytes) \in Names /\ FromUtf8(bytes) \in Names
<1>1. "space" \in Chars /\ "%" \in Chars /\ "other" \in Chars /\ "eacute" \in Chars
  BY Zenon DEF Chars, NotAscii
<1>2. <<"space">> \in Names /\ <<"%">> \in Names /\ <<"other">> \in Names
      /\ <<"eacute">> \in Names
  BY <1>1 DEF Names
<1>3. \A bytes : FromLatin1(bytes) \in Names
  BY <1>2 DEF FromLatin1
<1>4. ASSUME NEW bytes PROVE FromUtf8(bytes) \in Names
  <2>1. FromLatin1(bytes[1]) \o FromLatin1(bytes[2]) \in Names
    BY <1>3, ConcatProperties DEF Names
  <2> QED
    BY <1>2, <2>1, Zenon DEF FromUtf8
<1> QED
  BY <1>3, <1>4

-----------------------------------------------------------------------------
(* Parts of strings *)

LEMMA PlacesInside ==
    ASSUME NEW C, NEW s \in Seq(C), NEW c
    PROVE  Places(s, c) \in SUBSET (1..Len(s)) /\ Len(s) \in Nat
BY DEF Places

\* The part before the first c.
LEMMA BeforeIs ==
    ASSUME NEW C, NEW s \in Seq(C), NEW c
    PROVE  /\ Places(s, c) = {} => Before(s, c) = s
           /\ Places(s, c) # {} =>
                \E i \in Places(s, c) :
                    /\ \A j \in Places(s, c) : i <= j
                    /\ Before(s, c) = SubSeq(s, 1, i - 1)
                    /\ Len(Before(s, c)) = i - 1
           /\ Before(s, c) \in Seq(C)
<1>1. CASE Places(s, c) = {}
  BY <1>1 DEF Before
<1>2. CASE Places(s, c) # {}
  <2> DEFINE i == CHOOSE i \in Places(s, c) : \A j \in Places(s, c) : i <= j
  <2>1. \E k \in Places(s, c) : \A j \in Places(s, c) : k <= j
    <3>1. Places(s, c) \in SUBSET (0..Len(s))
      BY PlacesInside
    <3> QED
      BY <1>2, <3>1, PlacesInside, LeastOf
  <2>2. i \in Places(s, c) /\ \A j \in Places(s, c) : i <= j
    BY <2>1, Zenon
  <2>3. Before(s, c) = SubSeq(s, 1, i - 1)
    BY <1>2, Zenon DEF Before
  <2> HIDE DEF i
  <2>4. i \in 1..Len(s)
    BY <2>2, PlacesInside
  <2>5. SubSeq(s, 1, i - 1) \in Seq(C) /\ Len(SubSeq(s, 1, i - 1)) = i - 1
    <3>1. \A k \in 1..(i - 1) : s[k] \in C
      BY <2>4
    <3> QED
      BY <2>4, <3>1, SubSeqProperties
  <2> QED
    BY <1>2, <2>2, <2>3, <2>5
<1> QED
  BY <1>1, <1>2

LEMMA PartTyped ==
    ASSUME NEW C, NEW s \in Seq(C), NEW m \in Nat \ {0}, NEW n \in Nat, n <= Len(s)
    PROVE  SubSeq(s, m, n) \in Seq(C)
<1>1. \A k \in m..n : s[k] \in C
  OBVIOUS
<1> QED
  BY <1>1, SubSeqProperties

LEMMA KeyTyped ==
    ASSUME NEW name \in Names
    PROVE  Extension(name) \in Names /\ ToLower(name) \in Names /\ Key(name) \in Names
<1>1. ASSUME NEW s \in Names PROVE ToLower(s) \in Names
  <2>1. "x" \in Chars
    BY Zenon DEF Chars
  <2>2. \A i \in 1..Len(s) : s[i] \in Chars /\ DOMAIN s = 1..Len(s)
    BY DEF Names
  <2>3. ToLower(s) \in [1..Len(s) -> Chars] /\ Len(s) \in Nat
    BY <2>1, <2>2 DEF ToLower, Names
  <2> QED
    BY <2>3 DEF Names
<1>2. ASSUME NEW s \in Names PROVE Extension(s) \in Names
  <2>1. Len(Before(s, ".")) + 2 \in Nat \ {0} /\ Len(s) \in Nat
    BY BeforeIs DEF Names
  <2> QED
    BY <2>1, PartTyped DEF Names, Extension
<1> QED
  BY <1>1, <1>2 DEF Key

LEMMA BaseTyped ==
    ASSUME NEW C, url \in Seq(C)
    PROVE  Base \in Seq(C)
<1> DEFINE u == Before(url, "?")
           slashes == {0} \cup Places(u, "/")
           i == CHOOSE i \in slashes : \A j \in slashes : i >= j
<1>1. u \in Seq(C)
  BY BeforeIs
<1>2. slashes \in SUBSET (0..Len(u)) /\ slashes # {} /\ Len(u) \in Nat
  <2> HIDE DEF u
  <2> QED
    BY <1>1, PlacesInside
<1>3. \E k \in slashes : \A j \in slashes : k >= j
  <2> HIDE DEF slashes, u
  <2> QED
    BY <1>2, GreatestOf
<1>4. i \in slashes
  BY <1>3, Zenon
<1>5. Base = SubSeq(u, 1, i)
  BY Zenon DEF Base
<1> HIDE DEF u, slashes, i
<1>6. i \in 0..Len(u)
  BY <1>2, <1>4
<1> QED
  BY <1>1, <1>2, <1>5, <1>6, PartTyped

\* What the expression of decodeURL finds is inside of the URL.
LEMMA FoundInside ==
    ASSUME NEW C, url \in Seq(C), pos \in Nat \ {0}, NEW n \in {1, 2}, Matches(n) # {}
    PROVE  /\ IndexIn(n) \in Nat \ {0}
           /\ pos <= IndexIn(n)
           /\ IndexIn(n) + 3 * n - 1 <= Len(url)
<1>1. Matches(n) \in SUBSET (0..Len(url)) /\ Len(url) \in Nat
  BY DEF Matches
<1>2. \E i \in Matches(n) : \A j \in Matches(n) : i <= j
  BY <1>1, LeastOf
<1>3. IndexIn(n) \in Matches(n)
  BY <1>2, Zenon DEF IndexIn
<1>4. IndexIn(n) \in pos..Len(url) /\ n - 1 \in 0..(n - 1)
      /\ \A k \in 0..(n - 1) : IsEscape(url, IndexIn(n) + 3 * k)
  BY <1>3 DEF Matches
<1>5. IsEscape(url, IndexIn(n) + 3 * (n - 1))
  BY <1>4
<1>6. IndexIn(n) + 3 * (n - 1) + 2 <= Len(url)
  BY <1>5 DEF IsEscape
<1> QED
  BY <1>1, <1>4, <1>6

-----------------------------------------------------------------------------
(* Shape *)

LEMMA SiteIs ==
    ASSUME site \in Sites
    PROVE  /\ site.base \in Names
           /\ <<>> \in DOMAIN site.entries
           /\ \A d \in DOMAIN site.entries :
                 /\ d \in Names
                 /\ d # <<>> => d[Len(d)] = "/"
                 /\ site.entries[d] \in Seq(Entries)
                 /\ \A i, j \in DOMAIN site.entries[d] :
                       site.entries[d][i].name = site.entries[d][j].name => i = j
BY SiteAssumption, Zenon

LEMMA ElementIn == \A S : \A s \in Seq(S) : \A i \in DOMAIN s : s[i] \in S
OBVIOUS

LEMMA LineIs ==
    \A i \in DOMAIN Lines : Lines[i].exts \in Seq(Names) /\ Lines[i].type # Untyped
<1>1. ASSUME NEW T, NEW R, R = [type : T, exts : Seq(Names)], Lines \in Seq(R),
             NEW i \in DOMAIN Lines
      PROVE  Lines[i].exts \in Seq(Names)
  <2>1. Lines[i] \in R
    BY <1>1, ElementIn, Zenon
  <2> QED
    BY <1>1, <2>1
<1>2. \A i \in DOMAIN Lines : Lines[i].exts \in Seq(Names)
  BY <1>1, LineAssumption, Zenon
<1> QED
  BY <1>2, LineAssumption, Zenon

\* The name in the row of an entry.
Filename(entry) == IF entry.isDir THEN entry.name \o <<"/">> ELSE entry.name

LEMMA FilenameTyped ==
    ASSUME NEW entry \in Entries
    PROVE  entry.name \in Names /\ Filename(entry) \in Names
<1>1. "/" \in Chars /\ Chars \ {"/"} \subseteq Chars
  BY Zenon DEF Chars
<1>2. entry.name \in Seq(Chars \ {"/"})
  BY DEF Entries
<1>3. entry.name \in Names /\ <<"/">> \in Names
  BY <1>1, <1>2, SeqMonotonic DEF Names
<1>4. entry.name \o <<"/">> \in Names
  BY <1>3, ConcatProperties DEF Names
<1> QED
  BY <1>3, <1>4, Zenon DEF Filename

LEMMA TypeGiven ==
    ASSUME \A e \in DOMAIN mimeMap : mimeMap[e] \in Types \cup {Untyped}
    PROVE  /\ \A e : Looked(e) \in Types \cup {Untyped}
           /\ \A name : ForFilename(name) \in Types
<1>1. \A e : Looked(e) \in Types \cup {Untyped}
  BY Zenon DEF Looked
<1>2. Octet \in Types
  BY Zenon DEF Types
<1> QED
  BY <1>1, <1>2, Zenon DEF ForFilename

\* The table, whatever it is asked for.
LEMMA AskedTyped ==
    ASSUME DOMAIN mimeMap \subseteq Names, NEW e \in Names,
           \A f \in DOMAIN mimeMap : mimeMap[f] \in Types \cup {Untyped}
    PROVE  /\ DOMAIN Asked(e) \subseteq Names
           /\ \A f \in DOMAIN Asked(e) : Asked(e)[f] \in Types \cup {Untyped}
<1>1. DOMAIN Asked(e) = DOMAIN mimeMap \cup {e}
      /\ \A f \in DOMAIN mimeMap \cup {e} : Asked(e)[f] = Looked(f)
  BY DEF Asked
<1> QED
  BY <1>1, TypeGiven

LEMMA InitTyped == Init => TypeOK /\ site \in Sites
<1> SUFFICES ASSUME Init PROVE TypeOK /\ site \in Sites
  OBVIOUS
<1>1. DOMAIN <<>> = {} /\ Len(Lines) \in Nat
  BY LineAssumption
<1>2. line \in 1..(Len(Lines) + 1)
  BY <1>1 DEF Init
<1>3. /\ DOMAIN mimeMap \subseteq Names
      /\ \A e \in DOMAIN mimeMap : mimeMap[e] \in Types \cup {Untyped}
  BY <1>1 DEF Init
<1>4. \A S : <<>> \in Seq(S)
  OBVIOUS
<1>5. url \in Seq(Chars \ NotAscii) /\ dest \in Names /\ path \in Names
  BY <1>4, Zenon DEF Init, Names
<1>6. pos \in 1..(Len(url) + 1)
  BY DEF Init
<1>7. rows \in Seq([entry : Names, name : Names, href : Names,
                    type : Types \cup {"directory", "elsewhere"}])
  BY <1>4, Zenon DEF Init
<1>8. followed.entry \in Names
  BY <1>4 DEF Init, Top, Row, Names
<1>9. type \in Types \cup {Untyped} /\ pc = "load" /\ site \in Sites
  BY Zenon DEF Init
<1> QED
  BY <1>2, <1>3, <1>5, <1>6, <1>7, <1>8, <1>9 DEF TypeOK

LEMMA LoadTyped ==
    ASSUME TypeOK, site \in Sites, LoadLine
    PROVE  TypeOK'
<1> DEFINE new == {ToLower(Lines[line].exts[i]) : i \in DOMAIN Lines[line].exts}
<1>1. line \in DOMAIN Lines /\ line' \in 1..(Len(Lines) + 1)
  BY LineAssumption DEF LoadLine, LoadTypes, TypeOK
<1>2. new \subseteq Names
  <2>1. Lines[line].exts \in Seq(Names)
    BY <1>1, LineIs
  <2>2. \A i \in DOMAIN Lines[line].exts : Lines[line].exts[i] \in Names
    BY <2>1
  <2> QED
    BY <2>2, KeyTyped
<1>3. mimeMap' = [e \in DOMAIN mimeMap \cup new |->
                     IF e \in new /\ (TRUE \/ e \notin DOMAIN mimeMap)
                     THEN Lines[line].type ELSE mimeMap[e]]
  BY DEF LoadLine, LoadTypes
<1>4. Lines[line].type \in Types
  BY <1>1 DEF Types
<1> HIDE DEF new
<1>5. /\ DOMAIN mimeMap' \subseteq Names
      /\ \A e \in DOMAIN mimeMap' : mimeMap'[e] \in Types \cup {Untyped}
  BY <1>2, <1>3, <1>4 DEF TypeOK
<1>6. UNCHANGED <<site, pc, url, dest, pos, path, rows, followed, type>>
  BY DEF LoadLine, LoadTypes
<1> QED
  BY <1>1, <1>5, <1>6 DEF TypeOK, IsDirectory, Directory

LEMMA AskTyped ==
    ASSUME TypeOK, NEW u \in Seq(Chars \ NotAscii), NEW row, row.entry \in Names, Ask(u, row)
    PROVE  TypeOK'
<1>1. u \in Names
  BY SeqMonotonic DEF Names
<1>2. url' \in Seq(Chars \ NotAscii) /\ dest' \in Names
  BY <1>1 DEF Ask
<1>3. pos' \in 1..(Len(url') + 1)
  BY DEF Ask
<1>4. followed'.entry \in Names /\ pc' = "pairs"
  BY DEF Ask
<1>5. UNCHANGED <<site, line, mimeMap, path, rows, type>>
  BY DEF Ask
<1> QED
  BY <1>2, <1>3, <1>4, <1>5 DEF TypeOK

LEMMA FollowTyped ==
    ASSUME TypeOK, Follow
    PROVE  TypeOK'
<1>1. PICK i \in DOMAIN rows : Ask(Base \o PercentEncode(rows[i].href), rows[i])
  BY DEF Follow
<1>2. rows[i].href \in Names /\ rows[i].entry \in Names
  <2>1. rows[i] \in [entry : Names, name : Names, href : Names,
                     type : Types \cup {"directory", "elsewhere"}]
    BY <1>1, ElementIn, Zenon DEF TypeOK
  <2> QED
    BY <2>1
<1>3. Base \in Seq(Chars \ NotAscii)
  BY BaseTyped DEF TypeOK
<1>4. Base \o PercentEncode(rows[i].href) \in Seq(Chars \ NotAscii)
  BY <1>2, <1>3, PercentEncodeTyped, ConcatProperties
<1> QED
  BY <1>1, <1>2, <1>4, AskTyped

LEMMA DecodeTyped ==
    ASSUME TypeOK, NEW n \in {1, 2}, NEW chars \in Names, DecodeNext(n, chars, 3 * n)
    PROVE  TypeOK'
<1> DEFINE i == IndexIn(n)
           what == SubSeq(url, i, i + 3 * n - 1)
<1>0. url \in Seq(Chars \ NotAscii) /\ pos \in Nat \ {0} /\ Matches(n) # {}
  BY DEF TypeOK, DecodeNext
<1>1. i \in Nat \ {0} /\ pos <= i /\ i + 3 * n - 1 <= Len(url) /\ Len(url) \in Nat
  BY <1>0, FoundInside
<1>2. pos' = i + 3 * n /\ dest' = Replace(dest, what, chars)
  BY DEF DecodeNext
<1>3. UNCHANGED <<site, line, mimeMap, pc, url, path, rows, followed, type>>
  BY DEF DecodeNext
<1> HIDE DEF i
<1>4. Len(what) \in Nat \ {0}
  <2>1. i \in Int /\ i + 3 * n - 1 \in Int /\ i <= i + 3 * n - 1
    BY <1>1
  <2>2. \A k \in i..(i + 3 * n - 1) : url[k] \in Chars \ NotAscii
    BY <1>1 DEF TypeOK
  <2>3. Len(what) = i + 3 * n - 1 - i + 1
    BY <2>1, <2>2, SubSeqProperties
  <2> QED
    BY <1>1, <2>3
<1> HIDE DEF what
<1>5. dest' \in Names
  BY <1>2, <1>4, ReplaceTyped DEF TypeOK, Names
<1>6. pos' \in 1..(Len(url') + 1)
  BY <1>1, <1>2, <1>3
<1> QED
  BY <1>3, <1>5, <1>6 DEF TypeOK, IsDirectory, Directory

LEMMA ListEntryTyped ==
    ASSUME TypeOK, site \in Sites, ListEntry
    PROVE  TypeOK'
<1> DEFINE entries == site.entries[Directory]
           entry == entries[Len(rows) + 1]
           filename == IF entry.isDir THEN entry.name \o <<"/">> ELSE entry.name
           shown(t) == IF TakesPlace(entry.name) THEN "elsewhere" ELSE t
           kind == shown(IF entry.isDir THEN "directory" ELSE ForFilename(filename))
           row == Row(Directory \o filename, filename, EncodeURL(filename), kind)
           Rows == [entry : Names, name : Names, href : Names,
                    type : Types \cup {"directory", "elsewhere"}]
<1>1. /\ Len(rows) < Len(entries)
      /\ rows' = Append(rows, row)
      /\ mimeMap' = IF entry.isDir THEN mimeMap ELSE Asked(Key(filename))
  BY Zenon DEF ListEntry
<1>2. Directory \in Names /\ entries \in Seq(Entries)
  BY SiteIs DEF TypeOK, ListEntry, IsDirectory
<1>3. rows \in Seq(Rows) /\ Len(rows) \in Nat
  BY DEF TypeOK
<1>4. entry \in Entries
  <2> HIDE DEF entries
  <2>1. Len(rows) + 1 \in 1..Len(entries)
    BY <1>1, <1>2, <1>3
  <2> QED
    BY <1>2, <2>1, ElementOfSeq
<1>5. filename \in Names
  <2> HIDE DEF entry
  <2> QED
    BY <1>4, FilenameTyped, Zenon DEF Filename
<1>6. kind \in Types \cup {"directory", "elsewhere"}
  <2> HIDE DEF entry, filename
  <2>1. ForFilename(filename) \in Types
    BY TypeGiven DEF TypeOK
  <2> QED
    BY <2>1
<1> HIDE DEF entry, filename, kind, entries
<1>7. row \in Rows
  <2>1. Directory \o filename \in Names
    BY <1>2, <1>5, ConcatProperties DEF Names
  <2>2. EncodeURL(filename) \in Names
    BY <1>5, EncodeTyped
  <2> QED
    BY <1>5, <1>6, <2>1, <2>2 DEF Row
<1> HIDE DEF row, Rows
<1>8. rows' \in Seq(Rows) /\ Len(rows') = Len(rows) + 1
  BY <1>1, <1>3, <1>7, AppendProperties
<1>9. /\ DOMAIN mimeMap' \subseteq Names
      /\ \A e \in DOMAIN mimeMap' : mimeMap'[e] \in Types \cup {Untyped}
  <2>1. Key(filename) \in Names
    BY <1>5, KeyTyped
  <2>2. /\ DOMAIN mimeMap \subseteq Names
        /\ \A e \in DOMAIN mimeMap : mimeMap[e] \in Types \cup {Untyped}
    BY DEF TypeOK
  <2>3. CASE entry.isDir
    <3>1. mimeMap' = mimeMap
      BY <1>1, <2>3
    <3> QED
      BY <2>2, <3>1
  <2>4. CASE ~entry.isDir
    <3>1. mimeMap' = Asked(Key(filename))
      BY <1>1, <2>4
    <3> QED
      BY <2>1, <2>2, <3>1, AskedTyped
  <2> QED
    BY <2>3, <2>4
<1>10. UNCHANGED <<site, line, pc, url, dest, pos, path, followed, type>> /\ pc = "list"
  BY DEF ListEntry
<1>11. Directory' = Directory /\ IsDirectory' = IsDirectory
  BY <1>10 DEF Directory, IsDirectory
<1>12. Len(rows') <= Len(site'.entries[Directory'])
  BY <1>1, <1>2, <1>3, <1>8, <1>10, <1>11 DEF entries
<1> QED
  BY <1>8, <1>9, <1>10, <1>11, <1>12 DEF TypeOK, Rows

LEMMA NextTyped ==
    ASSUME TypeOK, site \in Sites, [Next]_vars
    PROVE  TypeOK' /\ site' \in Sites
<1>a. site' = site
  BY DEF Next, Server, vars, LoadLine, LoadTypes, DecodePair, DecodeSingle, DecodeNext, EndPairs,
         EndDecode, ServeFile, Decline, List, ListEntry, EndList, AskTop, Follow, Ask
<1> SUFFICES TypeOK'
  BY <1>a
<1>1. CASE LoadLine
  BY <1>1, LoadTyped
<1>2. CASE DecodePair
  BY <1>2, DecodeTyped, DecodedTyped DEF DecodePair
<1>3. CASE DecodeSingle
  BY <1>3, DecodeTyped, DecodedTyped DEF DecodeSingle
<1>4. CASE EndPairs
  <2>1. pos' = 1 /\ pc' = "singles"
        /\ UNCHANGED <<site, line, mimeMap, url, dest, path, rows, followed, type>>
    BY <1>4 DEF EndPairs
  <2>2. pos' \in 1..(Len(url') + 1)
    BY <2>1 DEF TypeOK
  <2> QED
    BY <2>1, <2>2 DEF TypeOK
<1>5. CASE EndDecode
  <2>1. pc' = "process" /\ path' = Before(dest, "?")
        /\ UNCHANGED <<site, line, mimeMap, url, dest, pos, rows, followed, type>>
    BY <1>5 DEF EndDecode
  <2>2. path' \in Names
    BY <2>1, BeforeIs DEF TypeOK, Names
  <2> QED
    BY <2>1, <2>2 DEF TypeOK
<1>6. CASE ServeFile
  <2>1. /\ type' = ForFilename(site.base \o path)
        /\ mimeMap' = Asked(Key(site.base \o path))
        /\ pc' = "served"
        /\ UNCHANGED <<site, line, url, dest, pos, path, rows, followed>>
    BY <1>6 DEF ServeFile
  <2>2. Key(site.base \o path) \in Names
    BY SiteIs, KeyTyped, ConcatProperties DEF TypeOK, Names
  <2>3. /\ DOMAIN mimeMap' \subseteq Names
        /\ \A e \in DOMAIN mimeMap' : mimeMap'[e] \in Types \cup {Untyped}
    BY <2>1, <2>2, AskedTyped DEF TypeOK
  <2>4. type' \in Types \cup {Untyped}
    BY <2>1, TypeGiven DEF TypeOK
  <2> QED
    BY <2>1, <2>3, <2>4 DEF TypeOK
<1>7. CASE Decline
  <2>1. pc' = "declined"
        /\ UNCHANGED <<site, line, mimeMap, url, dest, pos, path, rows, followed, type>>
    BY <1>7 DEF Decline
  <2> QED
    BY <2>1 DEF TypeOK
<1>8. CASE List
  <2>1. rows' = <<>> /\ pc' = "list" /\ IsDirectory
        /\ UNCHANGED <<site, line, mimeMap, url, dest, pos, path, followed, type>>
    BY <1>8 DEF List
  <2>2. Directory' = Directory /\ IsDirectory'
    BY <2>1 DEF Directory, IsDirectory
  <2>3. site.entries[Directory] \in Seq(Entries)
    BY <2>1, SiteIs DEF IsDirectory
  <2>4. Len(rows') <= Len(site'.entries[Directory'])
    BY <2>1, <2>2, <2>3
  <2>5. rows' \in Seq([entry : Names, name : Names, href : Names,
                       type : Types \cup {"directory", "elsewhere"}])
    BY <2>1
  <2> QED
    BY <2>1, <2>2, <2>4, <2>5 DEF TypeOK
<1>9. CASE ListEntry
  BY <1>9, ListEntryTyped
<1>10. CASE EndList
  <2>1. pc = "list" /\ pc' = "listed"
        /\ UNCHANGED <<site, line, mimeMap, url, dest, pos, path, rows, followed, type>>
    BY <1>10 DEF EndList
  <2> QED
    BY <2>1 DEF TypeOK, IsDirectory, Directory
<1>11. CASE AskTop
  <2>1. <<>> \in Seq(Chars \ NotAscii) /\ Top.entry \in Names
    BY DEF Top, Row, Names
  <2> QED
    BY <1>11, <2>1, AskTyped DEF AskTop
<1>12. CASE Follow
  BY <1>12, FollowTyped
<1>13. CASE UNCHANGED vars
  BY <1>13 DEF vars, TypeOK, IsDirectory, Directory
<1> QED
  BY <1>1, <1>2, <1>3, <1>4, <1>5, <1>6, <1>7, <1>8, <1>9, <1>10, <1>11, <1>12, <1>13
     DEF Next, Server

\* For every file of types and every directory each variable keeps its shape:
\* decodeURL stays inside of what it reads (onion.cpp:78), a listing inside of
\* its directory, and every type is one of the table's.
THEOREM ListingTypeCorrect == Spec => []TypeOK
<1>1. Init => TypeOK /\ site \in Sites
  BY InitTyped
<1>2. TypeOK /\ site \in Sites /\ [Next]_vars => (TypeOK /\ site \in Sites)'
  BY NextTyped
<1> QED
  BY <1>1, <1>2, PTL DEF Spec

-----------------------------------------------------------------------------
(* The table *)

\* The lines before the n-th with an extension, and what the last of them gives.
LinesWith(key, n) ==
    {i \in DOMAIN Lines : /\ i < n
                          /\ \E k \in DOMAIN Lines[i].exts :
                                ToLower(Lines[i].exts[k]) = key}
Latest(S) == Lines[CHOOSE i \in S : \A j \in S : i >= j].type
TypeBefore(key, n) ==
    IF LinesWith(key, n) = {} THEN Untyped ELSE Latest(LinesWith(key, n))

\* However often it has been asked, the table says what the lines so far say.
TableOK == \A key : Looked(key) = TypeBefore(key, line)
LoadedOK == pc # "load" => line = Len(Lines) + 1

LEMMA InitTable == Init => TableOK /\ LoadedOK
<1> SUFFICES ASSUME Init PROVE TableOK /\ LoadedOK
  OBVIOUS
<1>1. LoadedOK
  BY DEF Init, LoadedOK
<1>2. ASSUME NEW key PROVE Looked(key) = TypeBefore(key, line)
  <2>1. DOMAIN mimeMap = {} /\ line = 1
    BY DEF Init
  <2>2. Looked(key) = Untyped
    BY <2>1, Zenon DEF Looked
  <2>3. \A i \in DOMAIN Lines : ~(i < line)
    BY <2>1, LineAssumption
  <2>4. LinesWith(key, line) = {}
    BY <2>3, Zenon DEF LinesWith
  <2> QED
    BY <2>2, <2>4, Zenon DEF TypeBefore
<1> QED
  BY <1>1, <1>2 DEF TableOK

\* Each line overrides those before it.
LEMMA LoadTable ==
    ASSUME TypeOK, TableOK, LoadLine
    PROVE  TableOK'
<1> DEFINE exts == Lines[line].exts
           new == {ToLower(exts[i]) : i \in DOMAIN exts}
<1>1. line \in DOMAIN Lines /\ line' = line + 1 /\ line \in Nat /\ DOMAIN Lines \subseteq Nat
  BY LineAssumption DEF LoadLine, LoadTypes, TypeOK
<1>2. mimeMap' = [e \in DOMAIN mimeMap \cup new |->
                     IF e \in new /\ (TRUE \/ e \notin DOMAIN mimeMap)
                     THEN Lines[line].type ELSE mimeMap[e]]
  BY DEF LoadLine, LoadTypes
<1>a. \A key : key \in new <=> \E k \in DOMAIN exts : ToLower(exts[k]) = key
  OBVIOUS
<1> HIDE DEF new
<1>3. ASSUME NEW key PROVE Looked(key)' = TypeBefore(key, line)'
  <2>1. TypeBefore(key, line)' = TypeBefore(key, line + 1)
    BY <1>1 DEF TypeBefore, LinesWith, Latest
  <2>2. CASE key \in new
    <3>1. Looked(key)' = Lines[line].type
      BY <1>2, <2>2 DEF Looked
    <3>2. line \in LinesWith(key, line + 1)
      BY <1>1, <1>a, <2>2 DEF LinesWith
    <3>3. \A j \in LinesWith(key, line + 1) : line >= j /\ j \in Nat
      BY <1>1 DEF LinesWith
    <3> DEFINE last == CHOOSE i \in LinesWith(key, line + 1) :
                         \A j \in LinesWith(key, line + 1) : i >= j
    <3>4. last \in LinesWith(key, line + 1) /\ \A j \in LinesWith(key, line + 1) : last >= j
      BY <3>2, <3>3, Zenon
    <3>5. TypeBefore(key, line + 1) = Lines[last].type
      BY <3>2, Zenon DEF TypeBefore, Latest
    <3> HIDE DEF last
    <3>6. last = line
      BY <1>1, <3>2, <3>3, <3>4
    <3> QED
      BY <2>1, <3>1, <3>5, <3>6
  <2>3. CASE key \notin new
    <3>1. Looked(key)' = Looked(key)
      <4>1. CASE key \in DOMAIN mimeMap
        BY <1>2, <2>3, <4>1 DEF Looked
      <4>2. CASE key \notin DOMAIN mimeMap
        BY <1>2, <2>3, <4>2, Zenon DEF Looked
      <4> QED
        BY <4>1, <4>2
    <3>2. LinesWith(key, line + 1) = LinesWith(key, line)
      <4>1. \A i \in DOMAIN Lines : i < line + 1 <=> (i < line \/ i = line)
        BY <1>1
      <4>2. ~\E k \in DOMAIN Lines[line].exts : ToLower(Lines[line].exts[k]) = key
        BY <1>a, <2>3
      <4> QED
        BY <4>1, <4>2, Zenon DEF LinesWith
    <3>3. TypeBefore(key, line + 1) = TypeBefore(key, line)
      BY <3>2, Zenon DEF TypeBefore
    <3> QED
      BY <2>1, <3>1, <3>3, Zenon DEF TableOK
  <2> QED
    BY <2>2, <2>3
<1> QED
  BY <1>3 DEF TableOK

\* What is asked for changes nothing that is ever looked up.
LEMMA AskedTable ==
    ASSUME NEW asked, mimeMap' = Asked(asked)
    PROVE  \A key : Looked(key)' = Looked(key)
<1> SUFFICES ASSUME NEW key PROVE Looked(key)' = Looked(key)
  OBVIOUS
<1>1. DOMAIN mimeMap' = DOMAIN mimeMap \cup {asked}
      /\ \A e \in DOMAIN mimeMap \cup {asked} : mimeMap'[e] = Looked(e)
  BY DEF Asked
<1>2. CASE key \in DOMAIN mimeMap'
  BY <1>1, <1>2, Zenon DEF Looked
<1>3. CASE key \notin DOMAIN mimeMap'
  <2>1. key \notin DOMAIN mimeMap
    BY <1>1, <1>3
  <2> QED
    BY <1>3, <2>1, Zenon DEF Looked
<1> QED
  BY <1>2, <1>3

LEMMA NextTable ==
    ASSUME TypeOK, TableOK, LoadedOK, [Next]_vars
    PROVE  TableOK' /\ LoadedOK'
<1>1. CASE LoadLine
  <2>1. pc' = "load"
    BY <1>1 DEF LoadLine, LoadTypes
  <2> QED
    BY <1>1, <2>1, LoadTable DEF LoadedOK
<1>2. CASE ~LoadLine /\ ~AskTop
  <2>1. line' = line /\ (pc = "load" => pc' = "load")
        /\ (mimeMap' = mimeMap \/ \E e : mimeMap' = Asked(e))
    <3>1. CASE ServeFile \/ ListEntry
      <4>1. line' = line /\ pc # "load"
        BY <3>1 DEF ServeFile, ListEntry
      <4>2. mimeMap' = mimeMap \/ \E e : mimeMap' = Asked(e)
        BY <3>1, Zenon DEF ServeFile, ListEntry
      <4> QED
        BY <4>1, <4>2
    <3>2. CASE ~ServeFile /\ ~ListEntry
      BY <1>2, <3>2 DEF Next, Server, vars, DecodePair, DecodeSingle, DecodeNext, EndPairs,
           EndDecode, Decline, List, EndList, Follow, Ask
    <3> QED
      BY <3>1, <3>2
  <2>2. \A key : Looked(key)' = Looked(key)
    <3>1. CASE mimeMap' = mimeMap
      BY <3>1 DEF Looked
    <3>2. CASE \E e : mimeMap' = Asked(e)
      BY <3>2, AskedTable
    <3> QED
      BY <2>1, <3>1, <3>2
  <2>3. \A key : TypeBefore(key, line)' = TypeBefore(key, line)
    BY <2>1 DEF TypeBefore, LinesWith, Latest
  <2>4. TableOK'
    BY <2>2, <2>3 DEF TableOK
  <2> QED
    BY <2>1, <2>4 DEF LoadedOK
<1>3. CASE AskTop
  <2>1. line' = line /\ mimeMap' = mimeMap /\ line > Len(Lines)
    BY <1>3 DEF AskTop, Ask
  <2>2. line = Len(Lines) + 1
    BY <2>1, LineAssumption DEF TypeOK
  <2>3. \A key : TypeBefore(key, line)' = TypeBefore(key, line) /\ Looked(key)' = Looked(key)
    BY <2>1 DEF TypeBefore, LinesWith, Latest, Looked
  <2> QED
    BY <2>1, <2>2, <2>3 DEF TableOK, LoadedOK
<1> QED
  BY <1>1, <1>2, <1>3

\* Once all lines are read, what a file is given is what they say of its name.
LEMMA GivenAsWritten ==
    ASSUME TableOK, line = Len(Lines) + 1, NEW name
    PROVE  ForFilename(name) = Written(name)
<1> DEFINE with == {i \in DOMAIN Lines : \E k \in DOMAIN Lines[i].exts :
                      ToLower(Lines[i].exts[k]) = Key(name)}
<1>1. \A i \in DOMAIN Lines : i < line
  BY LineAssumption
<1>2. LinesWith(Key(name), line) = with
  BY <1>1, Zenon DEF LinesWith
<1>3. Looked(Key(name)) = IF with = {} THEN Untyped ELSE Latest(with)
  <2>1. Looked(Key(name)) = TypeBefore(Key(name), line)
    BY DEF TableOK
  <2> HIDE DEF with
  <2> QED
    BY <1>2, <2>1, Zenon DEF TypeBefore
<1>4. Written(name) = IF with = {} THEN Octet ELSE Latest(with)
  BY Zenon DEF Written, Latest
<1>5. CASE with = {}
  <2>1. Looked(Key(name)) = Untyped /\ Written(name) = Octet
    BY <1>3, <1>4, <1>5, Zenon
  <2> QED
    BY <2>1, Zenon DEF ForFilename
<1>6. CASE with # {}
  <2> DEFINE last == CHOOSE i \in with : \A j \in with : i >= j
  <2>1. \E k \in with : \A j \in with : k >= j
    <3>1. with \in SUBSET (0..Len(Lines)) /\ Len(Lines) \in Nat
      BY LineAssumption
    <3> HIDE DEF with
    <3> QED
      BY <1>6, <3>1, GreatestOf
  <2>2. last \in with
    BY <2>1, Zenon
  <2>3. Lines[last].type # Untyped
    BY <2>2, LineIs, Zenon
  <2>4. Looked(Key(name)) = Lines[last].type /\ Written(name) = Lines[last].type
    BY <1>3, <1>4, <1>6, Zenon DEF Latest
  <2> QED
    BY <2>3, <2>4, Zenon DEF ForFilename
<1> QED
  BY <1>5, <1>6

-----------------------------------------------------------------------------
(* Rows *)

\* The row that a listing of the directory d has for an entry.
RowOf(d, entry, row) ==
    /\ row.entry = d \o Filename(entry)
    /\ row.name = Filename(entry)
    /\ row.href = EncodeURL(Filename(entry))
    /\ row.type \in {IF entry.isDir THEN "directory" ELSE Written(entry.name), "elsewhere"}

\* The rows are those of the first entries of a directory, of the one that is
\* asked for while it is listed, and the link that was followed has been in one.
RowsOf(d) ==
    /\ Len(rows) <= Len(site.entries[d])
    /\ \A i \in DOMAIN rows : RowOf(d, site.entries[d][i], rows[i])
RowsOK ==
    /\ \E d \in DOMAIN site.entries : RowsOf(d)
    /\ pc = "list" => RowsOf(Directory)
FollowedOK ==
    \/ followed = Top
    \/ \E d \in DOMAIN site.entries : \E i \in DOMAIN site.entries[d] :
          RowOf(d, site.entries[d][i], followed)
ServedOK ==
    pc = "served" => ~IsDirectory /\ IsFile /\ type = Written(site.base \o path)

TypesInv ==
    /\ TypeOK /\ site \in Sites
    /\ TableOK /\ LoadedOK
    /\ RowsOK /\ FollowedOK /\ ServedOK

LEMMA InitTypes == Init => TypesInv
<1> SUFFICES ASSUME Init PROVE TypesInv
  OBVIOUS
<1>1. TypeOK /\ site \in Sites /\ TableOK /\ LoadedOK
  BY InitTyped, InitTable
<1>2. FollowedOK /\ ServedOK /\ pc = "load"
  BY DEF Init, FollowedOK, ServedOK
<1>3. RowsOf(<<>>) /\ <<>> \in DOMAIN site.entries
  <2>1. site.entries[<<>>] \in Seq(Entries) /\ <<>> \in DOMAIN site.entries
    BY <1>1, SiteIs
  <2>2. Len(rows) = 0 /\ DOMAIN rows = {}
    BY DEF Init
  <2>3. Len(rows) <= Len(site.entries[<<>>])
    BY <2>1, <2>2
  <2> QED
    BY <2>1, <2>2, <2>3 DEF RowsOf
<1> QED
  BY <1>1, <1>2, <1>3 DEF TypesInv, RowsOK

LEMMA ListEntryRows ==
    ASSUME TypesInv, ListEntry
    PROVE  RowsOK'
<1> DEFINE entries == site.entries[Directory]
           entry == entries[Len(rows) + 1]
           filename == IF entry.isDir THEN entry.name \o <<"/">> ELSE entry.name
           shown(t) == IF TakesPlace(entry.name) THEN "elsewhere" ELSE t
           kind == shown(IF entry.isDir THEN "directory" ELSE ForFilename(filename))
           row == Row(Directory \o filename, filename, EncodeURL(filename), kind)
<1>1. Len(rows) < Len(entries) /\ rows' = Append(rows, row) /\ pc = "list"
      /\ UNCHANGED <<site, line, pc, path>>
  BY Zenon DEF ListEntry
<1>2. Directory \in DOMAIN site.entries /\ entries \in Seq(Entries) /\ RowsOf(Directory)
  BY <1>1, SiteIs DEF TypesInv, TypeOK, IsDirectory, RowsOK
<1>3. filename = Filename(entry)
  BY Zenon DEF Filename
<1>4. kind \in {IF entry.isDir THEN "directory" ELSE Written(entry.name), "elsewhere"}
  <2>1. line = Len(Lines) + 1
    BY <1>1 DEF TypesInv, LoadedOK
  <2>2. ForFilename(filename) = Written(filename)
    BY <2>1, GivenAsWritten DEF TypesInv
  <2> HIDE DEF entry
  <2> QED
    BY <2>2, Zenon
<1> HIDE DEF entry, filename, kind
<1>5. RowOf(Directory, entry, row)
  <2>1. /\ row.entry = Directory \o filename /\ row.name = filename
        /\ row.href = EncodeURL(filename) /\ row.type = kind
    BY DEF Row
  <2> HIDE DEF row
  <2> QED
    BY <1>3, <1>4, <2>1, Zenon DEF RowOf
<1> HIDE DEF row
<1>6. rows \in Seq([entry : Names, name : Names, href : Names,
                    type : Types \cup {"directory", "elsewhere"}])
  BY DEF TypesInv, TypeOK
<1>7. /\ Len(rows) \in Nat /\ DOMAIN rows = 1..Len(rows)
      /\ Len(rows') = Len(rows) + 1 /\ DOMAIN rows' = 1..(Len(rows) + 1)
      /\ \A i \in 1..Len(rows) : rows'[i] = rows[i]
      /\ rows'[Len(rows) + 1] = row
  BY <1>1, <1>6
<1> HIDE DEF entries
<1>8. ASSUME NEW i \in DOMAIN rows' PROVE RowOf(Directory, entries[i], rows'[i])
  <2>1. CASE i \in 1..Len(rows)
    BY <1>2, <1>7, <2>1 DEF RowsOf, entries
  <2>2. CASE i = Len(rows) + 1
    BY <1>5, <1>7, <2>2 DEF entry
  <2> QED
    BY <1>7, <2>1, <2>2
<1>9. Len(rows') <= Len(entries)
  BY <1>1, <1>2, <1>7
<1>10. Directory' = Directory
  BY <1>1 DEF Directory
<1>11. RowsOf(Directory)'
  BY <1>1, <1>8, <1>9, <1>10 DEF RowsOf, entries
<1> QED
  BY <1>1, <1>2, <1>10, <1>11 DEF RowsOK

LEMMA NextRows ==
    ASSUME TypesInv, [Next]_vars
    PROVE  RowsOK'
<1>1. CASE ListEntry
  BY <1>1, ListEntryRows
<1>2. CASE List
  <2>1. rows' = <<>> /\ IsDirectory /\ UNCHANGED <<site, path>>
    BY <1>2 DEF List
  <2>2. Directory' = Directory /\ Directory \in DOMAIN site.entries
    BY <2>1 DEF Directory, IsDirectory
  <2>3. Len(rows') = 0 /\ DOMAIN rows' = {} /\ site.entries[Directory] \in Seq(Entries)
    BY <2>1, <2>2, SiteIs DEF TypesInv
  <2>4. RowsOf(Directory)'
    BY <2>1, <2>2, <2>3 DEF RowsOf
  <2> QED
    BY <2>1, <2>2, <2>4 DEF RowsOK
<1>3. CASE ~ListEntry /\ ~List
  <2>1. UNCHANGED <<site, rows>> /\ (pc' = "list" => pc = "list" /\ path' = path)
    BY <1>3 DEF Next, Server, vars, LoadLine, LoadTypes, DecodePair, DecodeSingle, DecodeNext,
         EndPairs, EndDecode, ServeFile, Decline, EndList, AskTop, Follow, Ask
  <2>2. \A d : RowsOf(d)' = RowsOf(d)
    BY <2>1 DEF RowsOf
  <2>3. pc' = "list" => RowsOf(Directory)'
    BY <2>1 DEF RowsOf, Directory, TypesInv, RowsOK
  <2> QED
    BY <2>1, <2>2, <2>3 DEF RowsOK, TypesInv
<1> QED
  BY <1>1, <1>2, <1>3

LEMMA NextFollowed ==
    ASSUME TypesInv, [Next]_vars
    PROVE  FollowedOK'
<1>1. CASE Follow
  <2>1. PICK i \in DOMAIN rows : followed' = rows[i] /\ site' = site
    BY <1>1 DEF Follow, Ask
  <2>2. PICK d \in DOMAIN site.entries : RowsOf(d)
    BY DEF TypesInv, RowsOK
  <2>3. i \in DOMAIN site.entries[d]
    <3>1. site.entries[d] \in Seq(Entries)
      BY SiteIs DEF TypesInv
    <3>2. rows \in Seq([entry : Names, name : Names, href : Names,
                        type : Types \cup {"directory", "elsewhere"}])
      BY DEF TypesInv, TypeOK
    <3>3. i \in 1..Len(rows) /\ Len(rows) \in Nat
      BY <3>2
    <3>4. Len(rows) <= Len(site.entries[d])
      BY <2>2 DEF RowsOf
    <3> QED
      BY <3>1, <3>3, <3>4
  <2>4. RowOf(d, site.entries[d][i], rows[i])
    BY <2>2 DEF RowsOf
  <2>5. RowOf(d, site'.entries[d][i], followed')
    BY <2>1, <2>4
  <2> QED
    BY <2>1, <2>2, <2>3, <2>5, Zenon DEF FollowedOK
<1>2. CASE AskTop
  BY <1>2 DEF AskTop, Ask, FollowedOK, Top, Row
<1>3. CASE ~Follow /\ ~AskTop
  <2>1. UNCHANGED <<site, followed>>
    BY <1>3 DEF Next, Server, vars, LoadLine, LoadTypes, DecodePair, DecodeSingle, DecodeNext,
         EndPairs, EndDecode, ServeFile, Decline, List, ListEntry, EndList
  <2> QED
    BY <2>1 DEF FollowedOK, TypesInv, Top, Row
<1> QED
  BY <1>1, <1>2, <1>3

LEMMA NextServed ==
    ASSUME TypesInv, [Next]_vars
    PROVE  ServedOK'
<1>1. CASE ServeFile
  <2>1. ~IsDirectory /\ IsFile /\ UNCHANGED <<site, path>> /\ pc = "process"
        /\ type' = ForFilename(site.base \o path)
    BY <1>1 DEF ServeFile
  <2>2. type' = Written(site.base \o path)
    BY <2>1, GivenAsWritten DEF TypesInv, LoadedOK
  <2>3. ~IsDirectory' /\ IsFile'
    BY <2>1 DEF IsDirectory, IsFile, Directory
  <2>4. type' = Written(site'.base \o path')
    BY <2>1, <2>2
  <2> QED
    BY <2>3, <2>4 DEF ServedOK
<1>2. CASE UNCHANGED vars
  BY <1>2 DEF vars, ServedOK, TypesInv, IsDirectory, IsFile, Directory
<1>3. CASE Next /\ ~ServeFile
  <2>1. pc' # "served"
    BY <1>3 DEF Next, Server, LoadLine, LoadTypes, DecodePair, DecodeSingle, DecodeNext,
         EndPairs, EndDecode, Decline, List, ListEntry, EndList, AskTop, Follow, Ask
  <2> QED
    BY <2>1 DEF ServedOK
<1> QED
  BY <1>1, <1>2, <1>3

LEMMA TypesAlways == Spec => []TypesInv
<1>1. TypesInv /\ [Next]_vars => TypesInv'
  BY NextTyped, NextTable, NextRows, NextFollowed, NextServed DEF TypesInv
<1> QED
  BY <1>1, InitTypes, PTL DEF Spec

\* Listings and files have the types that /etc/mime.types gives to their names,
\* for every such file and however many extensions without a type have been
\* asked for and left in the table before (mime.cpp:48, mime.cpp:62).
THEOREM TypesAlwaysAsWritten == Spec => []TypesAsWritten
<1>1. TypesInv => TypesAsWritten
  <2> SUFFICES ASSUME TypesInv PROVE TypesAsWritten
    OBVIOUS
  <2>1. PICK d \in DOMAIN site.entries : RowsOf(d)
    BY DEF TypesInv, RowsOK
  <2>2. ASSUME NEW i \in DOMAIN rows
        PROVE  rows[i].type \in {"directory", "elsewhere", Written(rows[i].name)}
    <3> DEFINE entry == site.entries[d][i]
    <3>1. RowOf(d, entry, rows[i])
      BY <2>1 DEF RowsOf
    <3> HIDE DEF entry
    <3>2. CASE entry.isDir
      BY <3>1, <3>2 DEF RowOf
    <3>3. CASE ~entry.isDir
      <4>1. rows[i].name = entry.name
        BY <3>1, <3>3, Zenon DEF RowOf, Filename
      <4> QED
        BY <3>1, <3>3, <4>1 DEF RowOf
    <3> QED
      BY <3>2, <3>3
  <2> QED
    BY <2>2 DEF TypesAsWritten, TypesInv, ServedOK
<1> QED
  BY <1>1, TypesAlways, PTL

-----------------------------------------------------------------------------
(* The row and the file *)

LEMMA PartBehind ==
    ASSUME NEW C, NEW p \in Seq(C), NEW q \in Seq(C), NEW m \in 1..Len(q)
    PROVE  SubSeq(p \o q, Len(p) + m, Len(p \o q)) = SubSeq(q, m, Len(q))
<1> DEFINE s == p \o q
           a == SubSeq(s, Len(p) + m, Len(s))
           b == SubSeq(q, m, Len(q))
<1>1. /\ Len(p) \in Nat /\ Len(q) \in Nat /\ Len(s) = Len(p) + Len(q)
      /\ s \in Seq(C)
      /\ \A i \in 1..Len(q) : s[Len(p) + i] = q[i]
  BY ConcatProperties
<1>2. /\ \A i \in m..Len(q) : q[i] \in C
      /\ \A i \in (Len(p) + m)..Len(s) : s[i] \in C
  <2> HIDE DEF s
  <2> QED
    BY <1>1
<1> HIDE DEF s
<1>3. /\ b \in Seq(C) /\ Len(b) = Len(q) - m + 1
      /\ \A i \in 1..(Len(q) - m + 1) : b[i] = q[m + i - 1]
  <2> DEFINE k == Len(q)
  <2>1. m \in Int /\ k \in Int /\ m <= k /\ \A i \in m..k : q[i] \in C
    BY <1>1, <1>2
  <2> HIDE DEF k
  <2>2. /\ SubSeq(q, m, k) \in Seq(C) /\ Len(SubSeq(q, m, k)) = k - m + 1
        /\ \A i \in 1..(k - m + 1) : SubSeq(q, m, k)[i] = q[m + i - 1]
    BY <2>1, SubSeqProperties
  <2> QED
    BY <2>2 DEF k
<1>4. /\ a \in Seq(C) /\ Len(a) = Len(q) - m + 1
      /\ \A i \in 1..(Len(q) - m + 1) : a[i] = s[Len(p) + m + i - 1]
  <2> DEFINE j == Len(p) + m
             k == Len(s)
  <2>1. /\ j \in Int /\ k \in Int /\ j <= k /\ \A i \in j..k : s[i] \in C
        /\ k - j + 1 = Len(q) - m + 1
    BY <1>1, <1>2
  <2> HIDE DEF j, k
  <2>2. /\ SubSeq(s, j, k) \in Seq(C) /\ Len(SubSeq(s, j, k)) = k - j + 1
        /\ \A i \in 1..(k - j + 1) : SubSeq(s, j, k)[i] = s[j + i - 1]
    BY <2>1, SubSeqProperties
  <2>3. /\ a \in Seq(C) /\ Len(a) = Len(q) - m + 1
        /\ \A i \in 1..(Len(q) - m + 1) : a[i] = s[j + i - 1]
    BY <2>1, <2>2, Zenon DEF j, k
  <2> QED
    BY <2>3, Zenon DEF j
<1>5. ASSUME NEW i \in 1..(Len(q) - m + 1) PROVE a[i] = b[i]
  <2> HIDE DEF a, b
  <2>1. m + i - 1 \in 1..Len(q) /\ Len(p) + (m + i - 1) = Len(p) + m + i - 1
    BY <1>1
  <2> QED
    BY <1>1, <1>3, <1>4, <2>1
<1> HIDE DEF a, b
<1>6. a = b
  BY <1>3, <1>4, <1>5, SeqEqual
<1> QED
  BY <1>6 DEF a, b, s

\* What stands before a name without a dot of its own leaves its extension.
LEMMA ExtensionBehind ==
    ASSUME NEW p \in Names, NEW q \in Names, Places(p, ".") = {}
    PROVE  Extension(p \o q) = Extension(q)
<1> DEFINE s == p \o q
<1>1. /\ s \in Names /\ Len(s) = Len(p) + Len(q) /\ Len(p) \in Nat /\ Len(q) \in Nat
      /\ \A i \in 1..Len(s) : s[i] = IF i <= Len(p) THEN p[i] ELSE q[i - Len(p)]
  BY ConcatProperties DEF Names
<1>2. DOMAIN s = 1..Len(s) /\ DOMAIN p = 1..Len(p) /\ DOMAIN q = 1..Len(q)
  <2> HIDE DEF s
  <2> QED
    BY <1>1 DEF Names
<1> HIDE DEF s
<1>3. \A i \in 1..Len(p) : p[i] # "."
  BY <1>2 DEF Places
<1>4. \A i \in Places(s, ".") : i - Len(p) \in Places(q, ".") /\ i > Len(p)
  BY <1>1, <1>2, <1>3 DEF Places
<1>5. \A i \in Places(q, ".") : i + Len(p) \in Places(s, ".") /\ i \in 1..Len(q)
  BY <1>1, <1>2 DEF Places
<1>6. CASE Places(q, ".") = {}
  <2>1. Places(s, ".") = {}
    BY <1>4, <1>6
  <2>2. Before(s, ".") = s /\ Before(q, ".") = q
    BY <1>1, <1>6, <2>1, BeforeIs DEF Names
  <2>3. SubSeq(s, Len(s) + 2, Len(s)) = <<>> /\ SubSeq(q, Len(q) + 2, Len(q)) = <<>>
    BY <1>1, SubSeqEmpty
  <2> QED
    BY <2>2, <2>3 DEF Extension, s
<1>7. CASE Places(q, ".") # {}
  <2>1. PICK i \in Places(q, ".") :
           (\A j \in Places(q, ".") : i <= j) /\ Len(Before(q, ".")) = i - 1
    BY <1>7, BeforeIs DEF Names
  <2>2. Places(s, ".") # {}
    BY <1>5, <1>7
  <2>3. PICK k \in Places(s, ".") :
           (\A j \in Places(s, ".") : k <= j) /\ Len(Before(s, ".")) = k - 1
    BY <1>1, <2>2, BeforeIs DEF Names
  <2>4. i \in 1..Len(q) /\ k \in 1..Len(s)
    BY <1>2, <1>5, <2>1, <2>3 DEF Places
  <2>5. k <= i + Len(p) /\ i <= k - Len(p)
    BY <1>4, <1>5, <2>1, <2>3
  <2>6. k = i + Len(p)
    <3> DEFINE l == Len(p)
    <3>1. l \in Int /\ i \in Int /\ k \in Int /\ k <= i + l /\ i <= k - l
      BY <1>1, <2>4, <2>5
    <3> HIDE DEF l
    <3>2. k = i + l
      BY <3>1
    <3> QED
      BY <3>2 DEF l
  <2>7. /\ Extension(q) = SubSeq(q, i + 1, Len(q))
        /\ Extension(s) = SubSeq(s, i + Len(p) + 1, Len(s))
    <3>1. i - 1 + 2 = i + 1 /\ k - 1 + 2 = i + Len(p) + 1
      BY <1>1, <2>4, <2>6
    <3> QED
      BY <2>1, <2>3, <3>1 DEF Extension
  <2>8. CASE i = Len(q)
    <3>1. SubSeq(q, i + 1, Len(q)) = <<>> /\ SubSeq(s, i + Len(p) + 1, Len(s)) = <<>>
      BY <1>1, <2>4, <2>8, SubSeqEmpty
    <3> QED
      BY <2>7, <3>1 DEF s
  <2>9. CASE i # Len(q)
    <3>1. i + 1 \in 1..Len(q) /\ Len(p) + (i + 1) = i + Len(p) + 1
      BY <1>1, <2>4, <2>9
    <3>2. SubSeq(p \o q, Len(p) + (i + 1), Len(p \o q)) = SubSeq(q, i + 1, Len(q))
      BY <3>1, PartBehind DEF Names
    <3> QED
      BY <2>7, <3>1, <3>2 DEF s
  <2> QED
    BY <2>8, <2>9
<1> QED
  BY <1>6, <1>7

LEMMA NamesJoin ==
    ASSUME NEW a \in Names, NEW b \in Names, NEW c \in Names
    PROVE  a \o b \in Names /\ a \o (b \o c) = (a \o b) \o c
BY ConcatAssociative, ConcatProperties DEF Names

LEMMA SameExtension ==
    ASSUME NEW a, NEW b, Extension(a) = Extension(b)
    PROVE  Written(a) = Written(b)
<1> DEFINE with(key) == {i \in DOMAIN Lines : \E k \in DOMAIN Lines[i].exts :
                           ToLower(Lines[i].exts[k]) = key}
           given(key) == IF with(key) = {} THEN Octet ELSE Latest(with(key))
<1>1. Key(a) = Key(b)
  BY Zenon DEF Key
<1>2. Written(a) = given(Key(a)) /\ Written(b) = given(Key(b))
  BY Zenon DEF Written, Latest
<1> HIDE DEF given
<1> QED
  BY <1>1, <1>2

\* A slash at the end is not the end of a file's name.
LEMMA NoFileBehindSlash ==
    ASSUME site \in Sites, NEW p \in Names, path = p \o <<"/">>
    PROVE  ~IsFile
<1> SUFFICES ASSUME IsFile PROVE FALSE
  OBVIOUS
<1>a. PICK d \in DOMAIN site.entries :
         \E i \in DOMAIN site.entries[d] : path = d \o site.entries[d][i].name
  BY DEF IsFile
<1>1. PICK i \in DOMAIN site.entries[d] : path = d \o site.entries[d][i].name
  BY <1>a
<1> DEFINE name == site.entries[d][i].name
<1>2. name \in Seq(Chars \ {"/"}) /\ name # <<>> /\ d \in Names
  <2>1. site.entries[d][i] \in Entries
    BY SiteIs, ElementIn
  <2> QED
    BY <2>1, SiteIs DEF Entries
<1>3. Chars \ {"/"} \subseteq Chars /\ "/" \in Chars
  BY Zenon DEF Chars
<1>4. name \in Seq(Chars) /\ <<"/">> \in Seq(Chars) /\ Len(name) \in Nat \ {0}
  BY <1>2, <1>3, SeqMonotonic
<1>5. path = d \o name
  BY <1>1
<1> HIDE DEF name
<1>6. Len(path) = Len(d) + Len(name) /\ path[Len(d) + Len(name)] = name[Len(name)]
  <2>1. Len(d) \in Nat
    BY <1>2 DEF Names
  <2>2. Len(d) + Len(name) \in 1..(Len(d) + Len(name)) /\ ~(Len(d) + Len(name) <= Len(d))
        /\ Len(d) + Len(name) - Len(d) = Len(name)
    BY <1>4, <2>1
  <2> QED
    BY <1>2, <1>4, <1>5, <2>2, ConcatProperties DEF Names
<1>7. Len(path) = Len(p) + 1 /\ path[Len(p) + 1] = "/"
  <2>1. Len(p) \in Nat /\ Len(<<"/">>) = 1 /\ <<"/">>[1] = "/"
    BY DEF Names
  <2>2. Len(p) + 1 \in 1..(Len(p) + 1) /\ ~(Len(p) + 1 <= Len(p)) /\ Len(p) + 1 - Len(p) = 1
    BY <2>1
  <2> QED
    BY <1>4, <2>1, <2>2, ConcatProperties DEF Names
<1>8. name[Len(name)] \in Chars \ {"/"}
  BY <1>2, <1>4
<1> QED
  BY <1>6, <1>7, <1>8

\* A file has the type that its row has said, if no directory on the way has a
\* dot, and its name does not take a place of the row (mime.cpp:61,
\* dirlist.cpp:96, file.cpp:30).
THEOREM SameTypeAlways == Spec => []SameType
<1>1. TypesInv => SameType
  <2> SUFFICES ASSUME TypesInv, pc = "served", path = followed.entry,
                      Places(site.base, ".") = {},
                      \A i \in Places(path, "/") : \A j \in Places(path, ".") : i < j,
                      followed.type # "elsewhere"
               PROVE  type = followed.type
    BY DEF SameType
  <2>1. ~IsDirectory /\ IsFile /\ type = Written(site.base \o path) /\ site \in Sites
    BY DEF TypesInv, ServedOK
  <2>2. CASE followed = Top
    <3>1. path = <<>>
      BY <2>2 DEF Top, Row
    <3> QED
      BY <2>1, <3>1, SiteIs DEF IsDirectory, Directory
  <2>3. CASE followed # Top
    <3>a. PICK d \in DOMAIN site.entries :
             \E i \in DOMAIN site.entries[d] : RowOf(d, site.entries[d][i], followed)
      BY <2>3 DEF TypesInv, FollowedOK
    <3>1. PICK i \in DOMAIN site.entries[d] : RowOf(d, site.entries[d][i], followed)
      BY <3>a
    <3> DEFINE entry == site.entries[d][i]
    <3>2. entry \in Entries /\ d \in Names /\ (d # <<>> => d[Len(d)] = "/")
      BY <2>1, SiteIs, ElementIn
    <3>3. RowOf(d, entry, followed)
      BY <3>1
    <3> HIDE DEF entry
    <3>4. path = d \o Filename(entry) /\ entry.name \in Names
      BY <3>2, <3>3, FilenameTyped DEF RowOf
    <3>5. CASE entry.isDir
      <4>1. Filename(entry) = entry.name \o <<"/">>
        BY <3>5, Zenon DEF Filename
      <4>2. <<"/">> \in Names
        <5>1. "/" \in Chars
          BY Zenon DEF Chars
        <5> QED
          BY <5>1 DEF Names
      <4>3. path = (d \o entry.name) \o <<"/">> /\ d \o entry.name \in Names
        <5> DEFINE slash == <<"/">>
        <5>1. slash \in Names /\ path = d \o (entry.name \o slash)
          BY <3>4, <4>1, <4>2
        <5> HIDE DEF slash
        <5> DEFINE name == entry.name
        <5>a. d \in Names /\ name \in Names
          BY <3>2, <3>4
        <5> HIDE DEF name
        <5>b. d \o name \in Names /\ d \o (name \o slash) = (d \o name) \o slash
          <6>1. /\ \A b1, b2 \in Names : b1 \o b2 \in Names
                /\ \A b1, b2, b3 \in Names : b1 \o (b2 \o b3) = (b1 \o b2) \o b3
            BY NamesJoin
          <6>2. d \o name \in Names
            BY <5>a, <6>1, Zenon
          <6>3. d \o (name \o slash) = (d \o name) \o slash
            BY <5>1, <5>a, <6>1, Zenon
          <6> QED
            BY <6>2, <6>3, Zenon
        <5>2. /\ d \o entry.name \in Names
              /\ d \o (entry.name \o slash) = (d \o entry.name) \o slash
          BY <5>b DEF name
        <5>3. path = (d \o entry.name) \o slash /\ d \o entry.name \in Names
          BY <5>1, <5>2, Zenon
        <5> QED
          BY <5>3 DEF slash
      <4> QED
        BY <2>1, <4>3, NoFileBehindSlash
    <3>6. CASE ~entry.isDir
      <4>1. Filename(entry) = entry.name /\ followed.type = Written(entry.name)
        BY <3>3, <3>6, Zenon DEF Filename, RowOf
      <4>2. path = d \o entry.name
        BY <3>4, <4>1
      <4>3. ASSUME NEW j \in Places(d, ".") PROVE FALSE
        <5>1. j \in 1..Len(d) /\ d[j] = "." /\ Len(d) \in Nat /\ Len(entry.name) \in Nat
          BY <3>2, <3>4 DEF Places, Names
        <5>2. d[Len(d)] = "/" /\ Len(d) \in 1..Len(d)
          BY <3>2, <5>1
        <5>3. /\ Len(path) = Len(d) + Len(entry.name)
              /\ \A k \in 1..Len(d) : path[k] = d[k]
          BY <3>2, <3>4, <4>2, <5>1, ConcatProperties DEF Names
        <5>4. path \in Names /\ DOMAIN path = 1..Len(path)
          BY DEF TypesInv, TypeOK, Names
        <5>5. Len(d) \in Places(path, "/") /\ j \in Places(path, ".")
          BY <5>1, <5>2, <5>3, <5>4 DEF Places
        <5> QED
          BY <5>1, <5>5
      <4>4. site.base \in Names
        BY <2>1, SiteIs
      <4>5. Extension(d \o entry.name) = Extension(entry.name)
        BY <3>2, <3>4, <4>3, ExtensionBehind
      <4>6. Extension(site.base \o path) = Extension(path)
        <5>1. path \in Names
          BY DEF TypesInv, TypeOK
        <5> QED
          BY <4>4, <5>1, ExtensionBehind
      <4> QED
        BY <2>1, <4>1, <4>2, <4>5, <4>6, SameExtension
    <3> QED
      BY <3>5, <3>6
  <2> QED
    BY <2>2, <2>3
<1> QED
  BY <1>1, TypesAlways, PTL

-----------------------------------------------------------------------------
(* Links *)

\* A step of replacing a single character.
LEMMA OneTurn ==
    ASSUME NEW C, NEW c, NEW by, NEW s \in Seq(C), NEW j \in 1..(Len(s) + 1)
    PROVE  From(s, <<c>>, by)[j] =
             IF j > Len(s) THEN <<>>
             ELSE IF s[j] = c THEN by \o From(s, <<c>>, by)[j + 1]
             ELSE <<s[j]>> \o From(s, <<c>>, by)[j + 1]
<1> DEFINE what == <<c>>
           f == From(s, what, by)
<1>1. Len(what) = 1 /\ what[1] = c /\ Len(s) \in Nat
  OBVIOUS
<1>2. f[j] = Turn(s, what, by, f, j)
  <2>a. Len(what) \in Nat \ {0}
    BY <1>1
  <2> HIDE DEF what
  <2>1. Replaces(s, what, by, f, 1)
    BY <1>1, <2>a, ReplaceIsComputed, Zenon
  <2> HIDE DEF f
  <2> QED
    BY <1>1, <2>1 DEF Replaces
<1>3. j <= Len(s) => (Found(s, what, j) <=> s[j] = c)
  <2> SUFFICES ASSUME j <= Len(s) PROVE Found(s, what, j) <=> s[j] = c
    OBVIOUS
  <2>1. j \in 1..Len(s)
    OBVIOUS
  <2>2. ASSUME s[j] = c PROVE Found(s, what, j)
    BY <2>1, <2>2, FoundOne
  <2>3. ASSUME Found(s, what, j) PROVE s[j] = c
    <3>1. Found(s, <<s[j]>>, j)
      BY <2>1, FoundOne
    <3>2. Len(<<s[j]>>) = 1 /\ <<s[j]>>[1] = s[j]
      OBVIOUS
    <3>3. what = <<s[j]>>
      BY <1>1, <2>3, <3>1, <3>2, Zenon DEF Found
    <3> QED
      BY <1>1, <3>2, <3>3, Zenon
  <2> QED
    BY <2>2, <2>3
<1>4. j + Len(what) = j + 1
  BY <1>1
<1> HIDE DEF f, what
<1>5. CASE j > Len(s)
  BY <1>2, <1>5, Zenon DEF Turn, f, what
<1>6. CASE ~(j > Len(s))
  <2>1. j <= Len(s)
    BY <1>1, <1>6
  <2> QED
    BY <1>2, <1>3, <1>4, <1>6, <2>1, Zenon DEF Turn, f, what
<1> QED
  BY <1>5, <1>6

LEMMA FromTyped ==
    ASSUME NEW C, NEW c, NEW by \in Seq(C), NEW s \in Seq(C), NEW i \in 1..(Len(s) + 1)
    PROVE  From(s, <<c>>, by)[i] \in Seq(C)
<1>1. <<>> \in Seq(C) /\ \A w \in Seq(C) : by \o w \in Seq(C)
  BY ConcatProperties
<1>2. ASSUME NEW k \in DOMAIN s
      PROVE  \A w \in Seq(C) : <<s[k]>> \o w \in Seq(C)
  <2>1. <<s[k]>> \in Seq(C)
    OBVIOUS
  <2> QED
    BY <2>1, ConcatProperties
<1>3. Len(<<c>>) \in Nat \ {0}
  OBVIOUS
<1> QED
  BY <1>1, <1>2, <1>3, ReplaceIn

\* If what is put in begins otherwise than what is left, nothing is lost.
LEMMA ReplaceInjective ==
    ASSUME NEW C, NEW c, NEW by \in Seq(C), by # <<>>, NEW s \in Seq(C), NEW t \in Seq(C),
           \A j \in DOMAIN s \cap DOMAIN t :
              From(s, <<c>>, by)[j] = From(t, <<c>>, by)[j] => s[j] = t[j],
           Replace(s, <<c>>, by) = Replace(t, <<c>>, by)
    PROVE  s = t
<1> DEFINE n == Len(s)
           f == From(s, <<c>>, by)
           g == From(t, <<c>>, by)
           B == {j \in 0..n : /\ j <= Len(t) /\ f[j + 1] = g[j + 1]
                              /\ \A i \in 1..j : s[i] = t[i]}
<1>1. /\ n \in Nat /\ Len(t) \in Nat /\ DOMAIN s = 1..n /\ DOMAIN t = 1..Len(t)
      /\ f[1] = g[1]
  <2>1. n \in Nat /\ Len(t) \in Nat /\ DOMAIN s = 1..n /\ DOMAIN t = 1..Len(t)
    OBVIOUS
  <2> DEFINE what == <<c>>
  <2>2. Len(what) \in Nat \ {0}
    OBVIOUS
  <2>3. Replace(s, what, by) = Replace(t, what, by)
    OBVIOUS
  <2> HIDE DEF what
  <2>4. From(s, what, by)[1] = From(t, what, by)[1]
    BY <2>1, <2>2, <2>3, ReplaceIsComputed
  <2> QED
    BY <2>1, <2>4 DEF what
<1>2. /\ \A i \in 1..(n + 1) : f[i] \in Seq(C)
      /\ \A i \in 1..(Len(t) + 1) : g[i] \in Seq(C)
  BY FromTyped
<1>3. \A j \in 1..(n + 1) :
        f[j] = IF j > n THEN <<>> ELSE IF s[j] = c THEN by \o f[j + 1] ELSE <<s[j]>> \o f[j + 1]
  BY OneTurn
<1>4. \A j \in 1..(Len(t) + 1) :
        g[j] = IF j > Len(t) THEN <<>>
               ELSE IF t[j] = c THEN by \o g[j + 1] ELSE <<t[j]>> \o g[j + 1]
  BY OneTurn
<1>5. ASSUME NEW w \in Seq(C) PROVE by \o w # <<>>
  BY <1>5, ConcatEqualIffEmpty
<1>6. ASSUME NEW x \in C, NEW w \in Seq(C) PROVE <<x>> \o w # <<>>
  <2>1. <<x>> \in Seq(C) /\ Len(<<x>>) = 1
    OBVIOUS
  <2>2. Len(<<x>> \o w) = 1 + Len(w) /\ Len(w) \in Nat
    BY <2>1, ConcatProperties
  <2> QED
    BY <2>2
<1>7. \A p \in Seq(C) : \A v, w \in Seq(C) : p \o v = p \o w => v = w
  BY ConcatSimplifications
<1>a. \A j \in DOMAIN s \cap DOMAIN t : f[j] = g[j] => s[j] = t[j]
  OBVIOUS
<1> HIDE DEF f, g
<1>8. 0 \in B
  BY <1>1
<1>9. ASSUME NEW j \in 1..n, j - 1 \in B PROVE j \in B
  <2>1. /\ j - 1 <= Len(t) /\ f[j] = g[j] /\ \A i \in 1..(j - 1) : s[i] = t[i]
        /\ j \in 1..(n + 1) /\ j \in 1..(Len(t) + 1) /\ ~(j > n) /\ j + 1 \in 1..(n + 1)
        /\ s[j] \in C
    BY <1>1, <1>9
  <2>2. f[j] = IF s[j] = c THEN by \o f[j + 1] ELSE <<s[j]>> \o f[j + 1]
    BY <1>3, <2>1
  <2>3. f[j] # <<>>
    BY <1>2, <1>5, <1>6, <2>1, <2>2
  <2>4. ~(j > Len(t))
    BY <1>4, <2>1, <2>3
  <2>5. j \in DOMAIN t /\ j \in DOMAIN s /\ j + 1 \in 1..(Len(t) + 1) /\ j <= Len(t)
    BY <1>1, <2>1, <2>4
  <2>6. s[j] = t[j]
    BY <1>a, <2>1, <2>5
  <2>7. g[j] = IF t[j] = c THEN by \o g[j + 1] ELSE <<t[j]>> \o g[j + 1]
    BY <1>4, <2>1, <2>4
  <2>8. f[j + 1] = g[j + 1]
    <3>1. f[j + 1] \in Seq(C) /\ g[j + 1] \in Seq(C) /\ <<s[j]>> \in Seq(C)
      BY <1>2, <2>1, <2>5
    <3>2. CASE s[j] = c
      BY <1>7, <2>1, <2>2, <2>6, <2>7, <3>1, <3>2
    <3>3. CASE s[j] # c
      BY <1>7, <2>1, <2>2, <2>6, <2>7, <3>1, <3>3
    <3> QED
      BY <3>2, <3>3
  <2>9. \A i \in 1..j : i \in 1..(j - 1) \/ i = j
    OBVIOUS
  <2>10. j \in 0..n
    OBVIOUS
  <2> QED
    BY <2>1, <2>5, <2>6, <2>8, <2>9, <2>10
<1> HIDE DEF B
<1>10. 0..n \subseteq B
  BY <1>1, <1>8, <1>9, SetInduction
<1>11. n \in B
  BY <1>1, <1>10
<1>12. n <= Len(t) /\ f[n + 1] = g[n + 1] /\ \A i \in 1..n : s[i] = t[i]
  BY <1>11 DEF B
<1> HIDE DEF n
<1>13. f[n + 1] = <<>>
  <2>1. n + 1 \in 1..(n + 1) /\ n + 1 > n
    BY <1>1
  <2> QED
    BY <1>3, <2>1, Zenon
<1>14. ASSUME n + 1 <= Len(t) PROVE FALSE
  <2>1. n + 1 \in 1..(Len(t) + 1) /\ ~(n + 1 > Len(t)) /\ n + 1 + 1 \in 1..(Len(t) + 1)
        /\ t[n + 1] \in C
    BY <1>1, <1>14
  <2>2. g[n + 1] = IF t[n + 1] = c THEN by \o g[n + 1 + 1] ELSE <<t[n + 1]>> \o g[n + 1 + 1]
    BY <1>4, <2>1
  <2>3. g[n + 1 + 1] \in Seq(C)
    BY <1>2, <2>1
  <2> QED
    BY <1>5, <1>6, <1>12, <1>13, <2>1, <2>2, <2>3
<1>15. n = Len(t)
  <2>1. n \in Nat /\ Len(t) \in Nat /\ n <= Len(t)
    BY <1>1, <1>12
  <2> QED
    BY <1>14, <2>1
<1>16. \A i \in 1..Len(s) : s[i] = t[i]
  BY <1>12 DEF n
<1> QED
  BY <1>15, <1>16, SeqEqual DEF n

\* What an escape is made of.
LEMMA EscapeIs ==
    ASSUME NEW x \in Chars, NEW y \in Chars
    PROVE  /\ Escape(<<x, y>>) \in Seq(Chars) /\ Len(Escape(<<x, y>>)) = 3
           /\ Escape(<<x, y>>)[1] = "%" /\ Escape(<<x, y>>)[2] = x
           /\ Escape(<<x, y>>)[3] = y
<1> DEFINE p == <<"%">>
           q == <<x, y>>
<1>1. p \in Seq(Chars) /\ Len(p) = 1 /\ p[1] = "%"
  BY Digits25
<1>2. q \in Seq(Chars) /\ Len(q) = 2 /\ q[1] = x /\ q[2] = y
  OBVIOUS
<1> HIDE DEF p, q
<1>3. /\ p \o q \in Seq(Chars) /\ Len(p \o q) = 3
      /\ (p \o q)[1] = p[1] /\ (p \o q)[2] = q[1] /\ (p \o q)[3] = q[2]
  BY <1>1, <1>2, ConcatProperties
<1> QED
  BY <1>1, <1>2, <1>3 DEF Escape, p, q

\* What is left, or put in, is where the result begins.
LEMMA BeginsWith ==
    ASSUME NEW C, NEW p \in Seq(C), NEW w \in Seq(C)
    PROVE  /\ \A i \in 1..Len(p) : (p \o w)[i] = p[i]
           /\ \A i \in 1..Len(w) : (p \o w)[Len(p) + i] = w[i]
           /\ Len(p \o w) = Len(p) + Len(w)
BY ConcatProperties

LEMMA HeadIs ==
    ASSUME NEW C, NEW c, NEW by \in Seq(C), by # <<>>, NEW s \in Seq(C), NEW j \in DOMAIN s
    PROVE  From(s, <<c>>, by)[j][1] = IF s[j] = c THEN by[1] ELSE s[j]
<1> DEFINE f == From(s, <<c>>, by)
<1>1. /\ j \in 1..(Len(s) + 1) /\ ~(j > Len(s)) /\ j + 1 \in 1..(Len(s) + 1) /\ s[j] \in C
      /\ 1 \in 1..Len(by)
  OBVIOUS
<1>2. f[j] = IF s[j] = c THEN by \o f[j + 1] ELSE <<s[j]>> \o f[j + 1]
  BY <1>1, OneTurn
<1>3. f[j + 1] \in Seq(C)
  BY <1>1, FromTyped
<1> HIDE DEF f
<1>4. CASE s[j] = c
  BY <1>1, <1>2, <1>3, <1>4, BeginsWith DEF f
<1>5. CASE s[j] # c
  <2> DEFINE one == <<s[j]>>
  <2>1. one \in Seq(C) /\ 1 \in 1..Len(one) /\ one[1] = s[j]
    BY <1>1
  <2>2. f[j] = one \o f[j + 1]
    BY <1>2, <1>5
  <2> HIDE DEF one
  <2>3. f[j][1] = s[j]
    BY <1>3, <2>1, <2>2, BeginsWith
  <2> QED
    BY <1>5, <2>3 DEF f
<1> QED
  BY <1>4, <1>5

\* Once percent signs are escaped, each is one of an escape.
Tidy(u) ==
    \A i \in DOMAIN u : u[i] = "%" => i + 2 <= Len(u) /\ u[i + 1] = "2" /\ u[i + 2] = "5"

LEMMA EscapedIsTidy ==
    ASSUME NEW s \in Names
    PROVE  /\ Replace(s, <<"%">>, Escape(<<"2", "5">>)) \in Names
           /\ Tidy(Replace(s, <<"%">>, Escape(<<"2", "5">>)))
<1> DEFINE W == {w \in Seq(Chars) : Tidy(w)}
           e == Escape(<<"2", "5">>)
<1>1. e \in Seq(Chars) /\ Len(e) = 3 /\ e[1] = "%" /\ e[2] = "2" /\ e[3] = "5"
  BY Digits25, EscapeIs
<1>2. Len(<<"%">>) \in Nat \ {0}
  OBVIOUS
<1>3. <<>> \in W
  BY DEF Tidy
<1> HIDE DEF e
<1>4. ASSUME NEW p \in Seq(Chars), NEW w \in W, Tidy(p) PROVE p \o w \in W
  <2>1. Len(p) \in Nat /\ Len(w) \in Nat /\ DOMAIN p = 1..Len(p) /\ DOMAIN w = 1..Len(w)
    OBVIOUS
  <2>2. p \o w \in Seq(Chars) /\ DOMAIN (p \o w) = 1..Len(p \o w)
    BY ConcatProperties
  <2> DEFINE u == p \o w
  <2>3. /\ Len(u) = Len(p) + Len(w)
        /\ \A i \in 1..Len(p) : u[i] = p[i]
        /\ \A i \in 1..Len(w) : u[Len(p) + i] = w[i]
    BY BeginsWith
  <2>4. u \in Seq(Chars) /\ DOMAIN u = 1..Len(u)
    BY <2>2
  <2> HIDE DEF u
  <2>5. ASSUME NEW i \in DOMAIN u, u[i] = "%"
        PROVE  i + 2 <= Len(u) /\ u[i + 1] = "2" /\ u[i + 2] = "5"
    <3>1. CASE i \in 1..Len(p)
      <4>1. i + 2 <= Len(p) /\ p[i + 1] = "2" /\ p[i + 2] = "5"
        BY <1>4, <2>1, <2>3, <2>5, <3>1 DEF Tidy
      <4> QED
        BY <2>1, <2>3, <3>1, <4>1
    <3>2. CASE i \notin 1..Len(p)
      <4> DEFINE k == i - Len(p)
      <4>1. k \in 1..Len(w) /\ i = Len(p) + k
        BY <2>1, <2>3, <2>4, <3>2
      <4> HIDE DEF k
      <4>2. k + 2 <= Len(w) /\ w[k + 1] = "2" /\ w[k + 2] = "5"
        BY <1>4, <2>1, <2>3, <2>5, <4>1 DEF Tidy
      <4>3. k + 1 \in 1..Len(w) /\ k + 2 \in 1..Len(w)
            /\ i + 1 = Len(p) + (k + 1) /\ i + 2 = Len(p) + (k + 2)
        BY <2>1, <4>1, <4>2
      <4> QED
        BY <2>1, <2>3, <4>2, <4>3
    <3> QED
      BY <3>1, <3>2
  <2> QED
    BY <2>4, <2>5 DEF Tidy, u
<1>5. Tidy(e)
  BY <1>1 DEF Tidy
<1>6. \A w \in W : e \o w \in W
  BY <1>1, <1>4, <1>5
<1>7. ASSUME NEW i \in DOMAIN s
      PROVE  <<"%">> = <<s[i]>> \/ \A w \in W : <<s[i]>> \o w \in W
  <2>1. CASE s[i] = "%"
    BY <2>1
  <2>2. CASE s[i] # "%"
    <3> DEFINE one == <<s[i]>>
    <3>1. one \in Seq(Chars) /\ Len(one) = 1 /\ one[1] = s[i]
      BY DEF Names
    <3> HIDE DEF one
    <3>2. Tidy(one)
      BY <2>2, <3>1 DEF Tidy
    <3>3. \A w \in W : one \o w \in W
      BY <1>4, <3>1, <3>2
    <3> QED
      BY <3>3 DEF one
  <2> QED
    BY <2>1, <2>2
<1> HIDE DEF W
<1>8. Replace(s, <<"%">>, e) \in W
  BY <1>2, <1>3, <1>6, <1>7, ReplaceIn DEF Names
<1> QED
  BY <1>8 DEF W, e, Names

\* What stands behind one character stands one further on.
LEMMA OneFurther ==
    ASSUME NEW C, NEW one \in Seq(C), NEW w \in Seq(C)
    PROVE  Len(one) = 1 =>
             /\ 1 \in DOMAIN (one \o w)
             /\ \A k \in DOMAIN w : (one \o w)[k + 1] = w[k] /\ k + 1 \in DOMAIN (one \o w)
<1>1. /\ \A k \in 1..Len(w) : (one \o w)[Len(one) + k] = w[k]
      /\ Len(one \o w) = Len(one) + Len(w)
  BY BeginsWith
<1>2. one \o w \in Seq(C)
  OBVIOUS
<1> DEFINE u == one \o w
<1>3. DOMAIN u = 1..Len(u)
  BY <1>2
<1> HIDE DEF u
<1>4. Len(w) \in Nat /\ DOMAIN w = 1..Len(w)
  OBVIOUS
<1> SUFFICES ASSUME Len(one) = 1
             PROVE  /\ 1 \in DOMAIN u
                    /\ \A k \in DOMAIN w : u[k + 1] = w[k] /\ k + 1 \in DOMAIN u
  BY DEF u
<1>5. (\A k \in 1..Len(w) : u[1 + k] = w[k]) /\ Len(u) = 1 + Len(w)
  BY <1>1 DEF u
<1>6. 1 \in DOMAIN u
  BY <1>3, <1>4, <1>5
<1>7. ASSUME NEW k \in 1..Len(w) PROVE u[k + 1] = w[k] /\ k + 1 \in DOMAIN u
  <2>1. k + 1 = 1 + k /\ k + 1 \in 1..(1 + Len(w))
    BY <1>4
  <2> QED
    BY <1>3, <1>5, <2>1
<1> QED
  BY <1>4, <1>6, <1>7

\* What is written from a character: the character, or what replaces it, and the
\* rest.
LEMMA LeftIs ==
    ASSUME NEW C, NEW c, NEW by \in Seq(C), by # <<>>, NEW s \in Seq(C), NEW j \in DOMAIN s
    PROVE  s[j] # c =>
             /\ 1 \in DOMAIN From(s, <<c>>, by)[j]
             /\ \A k \in DOMAIN From(s, <<c>>, by)[j + 1] :
                   /\ From(s, <<c>>, by)[j][k + 1] = From(s, <<c>>, by)[j + 1][k]
                   /\ k + 1 \in DOMAIN From(s, <<c>>, by)[j]
<1> DEFINE f == From(s, <<c>>, by)
           one == <<s[j]>>
<1>1. /\ j \in 1..(Len(s) + 1) /\ ~(j > Len(s)) /\ j + 1 \in 1..(Len(s) + 1) /\ s[j] \in C
      /\ 1 \in 1..Len(by)
  OBVIOUS
<1>2. f[j] = IF s[j] = c THEN by \o f[j + 1] ELSE <<s[j]>> \o f[j + 1]
  BY <1>1, OneTurn
<1>3. f[j + 1] \in Seq(C)
  BY <1>1, FromTyped
<1>4. one \in Seq(C) /\ Len(one) = 1
  BY <1>1
<1> HIDE DEF f
<1>5. s[j] # c => f[j] = one \o f[j + 1]
  BY <1>2
<1> DEFINE w == f[j + 1]
<1>6. w \in Seq(C)
  BY <1>3
<1>7. s[j] # c => f[j] = one \o w
  BY <1>5
<1> HIDE DEF one, w
<1>8. /\ 1 \in DOMAIN (one \o w)
      /\ \A k \in DOMAIN w : (one \o w)[k + 1] = w[k] /\ k + 1 \in DOMAIN (one \o w)
  BY <1>4, <1>6, OneFurther
<1> QED
  BY <1>7, <1>8, Zenon DEF f, w

LEMMA PutIs ==
    ASSUME NEW C, NEW c, NEW by \in Seq(C), by # <<>>, NEW s \in Seq(C), NEW j \in DOMAIN s
    PROVE  s[j] = c => \A k \in DOMAIN by : From(s, <<c>>, by)[j][k] = by[k]
<1> DEFINE f == From(s, <<c>>, by)
<1>1. /\ j \in 1..(Len(s) + 1) /\ ~(j > Len(s)) /\ j + 1 \in 1..(Len(s) + 1) /\ s[j] \in C
      /\ 1 \in 1..Len(by)
  OBVIOUS
<1>2. f[j] = IF s[j] = c THEN by \o f[j + 1] ELSE <<s[j]>> \o f[j + 1]
  BY <1>1, OneTurn
<1>3. f[j + 1] \in Seq(C)
  BY <1>1, FromTyped
<1> HIDE DEF f
<1>4. s[j] = c => f[j] = by \o f[j + 1]
  BY <1>2
<1>5. \A k \in 1..Len(by) : (by \o f[j + 1])[k] = by[k]
  <2> DEFINE w == f[j + 1]
  <2>1. w \in Seq(C)
    BY <1>3
  <2> HIDE DEF w
  <2>2. \A k \in 1..Len(by) : (by \o w)[k] = by[k]
    BY <2>1, BeginsWith
  <2> QED
    BY <2>2 DEF w
<1>6. DOMAIN by = 1..Len(by)
  OBVIOUS
<1> QED
  BY <1>4, <1>5, <1>6, Zenon DEF f

\* The escape of a space begins as a percent sign does, and goes on otherwise.
LEMMA EscapesDiffer ==
    ASSUME NEW u \in Names, NEW v \in Names, Tidy(v), NEW j \in DOMAIN u \cap DOMAIN v,
           u[j] = "space", v[j] = "%"
    PROVE  From(u, <<"space">>, Escape(<<"2", "0">>))[j]
             # From(v, <<"space">>, Escape(<<"2", "0">>))[j]
<1> DEFINE sp == "space"
           e == Escape(<<"2", "0">>)
           f == From(u, <<sp>>, e)
           g == From(v, <<sp>>, e)
<1>1. e \in Seq(Chars) /\ Len(e) = 3 /\ e[3] = "0" /\ e # <<>>
  BY Digits25, EscapeIs
<1> HIDE DEF e
<1>2. /\ u \in Seq(Chars) /\ v \in Seq(Chars) /\ j \in DOMAIN u /\ j \in DOMAIN v
  BY DEF Names
<1>3. u[j] = sp /\ v[j] # sp /\ "2" # sp /\ "5" # sp
  OBVIOUS
<1> HIDE DEF sp
<1>4. f[j][3] = "0"
  <2>1. 3 \in DOMAIN e
    BY <1>1
  <2> QED
    BY <1>1, <1>2, <1>3, <2>1, PutIs
<1>5. j + 2 <= Len(v) /\ v[j + 1] = "2" /\ v[j + 2] = "5"
  BY DEF Tidy
<1>6. j + 1 \in DOMAIN v /\ j + 2 \in DOMAIN v /\ (j + 1) + 1 = j + 2
  BY <1>2, <1>5
<1>7. g[j + 2][1] = "5"
  BY <1>1, <1>2, <1>3, <1>5, <1>6, HeadIs
<1>8. 1 \in DOMAIN g[j + 2]
  BY <1>1, <1>2, <1>3, <1>5, <1>6, LeftIs
<1>9. \A k \in DOMAIN g[j + 2] : g[j + 1][k + 1] = g[j + 2][k] /\ k + 1 \in DOMAIN g[j + 1]
  <2> DEFINE i == j + 1
  <2>1. i \in DOMAIN v /\ v[i] # sp /\ i + 1 = j + 2
    BY <1>3, <1>5, <1>6
  <2> HIDE DEF i
  <2>2. \A k \in DOMAIN g[i + 1] : g[i][k + 1] = g[i + 1][k] /\ k + 1 \in DOMAIN g[i]
    BY <1>1, <1>2, <2>1, LeftIs
  <2> HIDE DEF g
  <2> QED
    BY <2>1, <2>2 DEF i
<1>10. \A k \in DOMAIN g[j + 1] : g[j][k + 1] = g[j + 1][k]
  BY <1>1, <1>2, <1>3, LeftIs
<1> HIDE DEF f, g
<1>11. 1 + 1 = 2 /\ 2 + 1 = 3
  OBVIOUS
<1>12. g[j + 1][2] = "5" /\ 2 \in DOMAIN g[j + 1]
  BY <1>7, <1>8, <1>9, <1>11
<1>13. g[j][3] = "5"
  BY <1>10, <1>11, <1>12
<1> QED
  BY <1>4, <1>13 DEF e, f, g, sp

\* Two names are never written in the same way.
LEMMA EncodeInjective ==
    ASSUME NEW a \in Names, NEW b \in Names, EncodeURL(a) = EncodeURL(b)
    PROVE  a = b
<1> DEFINE e5 == Escape(<<"2", "5">>)
           e0 == Escape(<<"2", "0">>)
           u == Replace(a, <<"%">>, e5)
           v == Replace(b, <<"%">>, e5)
<1>1. /\ e5 \in Seq(Chars) /\ e5 # <<>> /\ e5[1] = "%"
      /\ e0 \in Seq(Chars) /\ e0 # <<>> /\ e0[1] = "%"
  BY Digits25, EscapeIs
<1>2. u \in Names /\ Tidy(u) /\ v \in Names /\ Tidy(v)
  BY EscapedIsTidy
<1>3. Replace(u, <<"space">>, e0) = Replace(v, <<"space">>, e0)
  BY DEF EncodeURL
<1>4. u = v
  <2> HIDE DEF u, v, e0
  <2>1. ASSUME NEW j \in DOMAIN u \cap DOMAIN v,
               From(u, <<"space">>, e0)[j] = From(v, <<"space">>, e0)[j]
        PROVE  u[j] = v[j]
    <3>1. /\ From(u, <<"space">>, e0)[j][1] = IF u[j] = "space" THEN "%" ELSE u[j]
          /\ From(v, <<"space">>, e0)[j][1] = IF v[j] = "space" THEN "%" ELSE v[j]
      BY <1>1, <1>2, HeadIs DEF Names
    <3>2. (IF u[j] = "space" THEN "%" ELSE u[j]) = (IF v[j] = "space" THEN "%" ELSE v[j])
      BY <2>1, <3>1, Zenon
    <3>3. ~(u[j] = "space" /\ v[j] = "%")
      BY <1>2, <2>1, EscapesDiffer DEF e0
    <3>4. ~(v[j] = "space" /\ u[j] = "%")
      BY <1>2, <2>1, EscapesDiffer DEF e0
    <3> QED
      BY <3>2, <3>3, <3>4
  <2>2. u \in Seq(Chars) /\ v \in Seq(Chars)
    BY <1>2 DEF Names
  <2> QED
    BY <1>1, <1>3, <2>1, <2>2, ReplaceInjective
<1>5. Replace(a, <<"%">>, e5) = Replace(b, <<"%">>, e5)
  BY <1>4
<1>6. a \in Seq(Chars) /\ b \in Seq(Chars)
  BY DEF Names
<1> HIDE DEF u, v, e5
<1>7. ASSUME NEW j \in DOMAIN a \cap DOMAIN b,
             From(a, <<"%">>, e5)[j] = From(b, <<"%">>, e5)[j]
      PROVE  a[j] = b[j]
  <2>1. /\ From(a, <<"%">>, e5)[j][1] = IF a[j] = "%" THEN "%" ELSE a[j]
        /\ From(b, <<"%">>, e5)[j][1] = IF b[j] = "%" THEN "%" ELSE b[j]
    BY <1>1, <1>6, HeadIs
  <2> QED
    BY <1>7, <2>1
<1> QED
  BY <1>1, <1>5, <1>6, <1>7, ReplaceInjective

\* The names in the rows of two entries of a directory are two.
LEMMA FilenamesDiffer ==
    ASSUME NEW a \in Entries, NEW b \in Entries, Filename(a) = Filename(b)
    PROVE  a.name = b.name
<1> DEFINE slash == <<"/">>
<1>1. /\ a.name \in Seq(Chars \ {"/"}) /\ b.name \in Seq(Chars \ {"/"})
      /\ a.name # <<>> /\ b.name # <<>> /\ a.isDir \in BOOLEAN /\ b.isDir \in BOOLEAN
  BY DEF Entries
<1>2. slash \in Seq(Chars) /\ Len(slash) = 1 /\ slash[1] = "/"
  <2>1. "/" \in Chars
    BY Zenon DEF Chars
  <2> QED
    BY <2>1
<1>3. a.name \in Seq(Chars) /\ b.name \in Seq(Chars)
  BY FilenameTyped DEF Names
<1> HIDE DEF slash
<1>4. ASSUME NEW p \in Seq(Chars), NEW q \in Seq(Chars \ {"/"}), q # <<>>, p \o slash = q
      PROVE  FALSE
  <2>1. Len(q) = Len(p) + 1 /\ q[Len(p) + 1] = "/" /\ Len(p) \in Nat
    <3>1. 1 \in 1..Len(slash) /\ Len(p) \in Nat
      BY <1>2
    <3>2. /\ \A i \in 1..Len(slash) : (p \o slash)[Len(p) + i] = slash[i]
          /\ Len(p \o slash) = Len(p) + Len(slash)
      <4>1. slash \in Seq(Chars)
        BY <1>2
      <4> QED
        BY <4>1, BeginsWith
    <3> QED
      BY <1>2, <1>4, <3>1, <3>2
  <2>2. q[Len(p) + 1] \in Chars \ {"/"}
    <3>1. Len(p) + 1 \in DOMAIN q
      BY <2>1
    <3> QED
      BY <3>1, ElementIn
  <2> QED
    BY <2>1, <2>2
<1>5. CASE a.isDir /\ b.isDir
  <2>1. a.name \o slash = b.name \o slash
    BY <1>5, Zenon DEF Filename, slash
  <2>2. \A s, t, w \in Seq(Chars) : s \o w = t \o w => s = t
    BY ConcatSimplifications
  <2> QED
    BY <1>2, <1>3, <2>1, <2>2
<1>6. CASE a.isDir /\ ~b.isDir
  <2>1. a.name \o slash = b.name
    BY <1>6, Zenon DEF Filename, slash
  <2> QED
    BY <1>1, <1>3, <1>4, <2>1
<1>7. CASE ~a.isDir /\ b.isDir
  <2>1. b.name \o slash = a.name
    BY <1>7, Zenon DEF Filename, slash
  <2> QED
    BY <1>1, <1>3, <1>4, <2>1
<1>8. CASE ~a.isDir /\ ~b.isDir
  BY <1>8, Zenon DEF Filename
<1> QED
  BY <1>5, <1>6, <1>7, <1>8

\* No two entries of a listing have the same link, whatever escapes their names
\* look like (onion.cpp:107).
THEOREM LinksAlwaysDiffer == Spec => []LinksDiffer
<1>1. TypesInv => LinksDiffer
  <2> SUFFICES ASSUME TypesInv, NEW i \in DOMAIN rows, NEW j \in DOMAIN rows,
                      rows[i].href = rows[j].href
               PROVE  i = j
    BY DEF LinksDiffer
  <2>1. PICK d \in DOMAIN site.entries : RowsOf(d)
    BY DEF TypesInv, RowsOK
  <2>2. site.entries[d] \in Seq(Entries) /\ site \in Sites
    BY SiteIs DEF TypesInv
  <2>3. i \in DOMAIN site.entries[d] /\ j \in DOMAIN site.entries[d]
    <3>1. rows \in Seq([entry : Names, name : Names, href : Names,
                        type : Types \cup {"directory", "elsewhere"}])
      BY DEF TypesInv, TypeOK
    <3>2. i \in 1..Len(rows) /\ j \in 1..Len(rows) /\ Len(rows) \in Nat
      BY <3>1
    <3>3. Len(rows) <= Len(site.entries[d])
      BY <2>1 DEF RowsOf
    <3> QED
      BY <2>2, <3>2, <3>3
  <2> DEFINE a == site.entries[d][i]
             b == site.entries[d][j]
  <2>4. a \in Entries /\ b \in Entries
    BY <2>2, <2>3, ElementIn
  <2>5. RowOf(d, a, rows[i]) /\ RowOf(d, b, rows[j])
    BY <2>1 DEF RowsOf
  <2>6. a.name = b.name => i = j
    BY <2>2, <2>3, SiteIs
  <2> HIDE DEF a, b
  <2>7. EncodeURL(Filename(a)) = EncodeURL(Filename(b))
    BY <2>5 DEF RowOf
  <2>8. Filename(a) = Filename(b)
    BY <2>4, <2>7, FilenameTyped, EncodeInjective
  <2> QED
    BY <2>4, <2>6, <2>8, FilenamesDiffer
<1> QED
  BY <1>1, TypesAlways, PTL

-----------------------------------------------------------------------------
(* The way back of a link.  An address is a name in which each character that is
   written with escapes has a mark of its own; decodeURL turns some of the marks
   into their characters, all those of a kind at once, and never leaves what is
   no such name.  What follows is, in this order: QString::replace and a string
   in parts; names with marks, and what replacing an escape does to them; where
   the two expressions of decodeURL find something, and which marks that is; what
   it means that a name can be read back; and the two loops. *)

-----------------------------------------------------------------------------
(* Replacing in two parts *)

LEMMA Joined ==
    ASSUME NEW C, NEW p \in Seq(C), NEW t \in Seq(C)
    PROVE  /\ p \o t \in Seq(C) /\ Len(p \o t) = Len(p) + Len(t)
           /\ \A i \in 1..Len(p) : (p \o t)[i] = p[i]
           /\ \A i \in 1..Len(t) : (p \o t)[Len(p) + i] = t[i]
<1>1. p \o t \in Seq(C)
  BY ConcatProperties
<1> QED
  BY <1>1, BeginsWith

\* What is found begins at i, character by character.
Stands(s, what, i) ==
    /\ i + Len(what) - 1 <= Len(s)
    /\ \A k \in 1..Len(what) : s[i + k - 1] = what[k]

LEMMA FoundIs ==
    ASSUME NEW C, NEW s \in Seq(C), NEW what \in Seq(C), NEW i \in 1..(Len(s) + 1)
    PROVE  Found(s, what, i) <=> Stands(s, what, i)
<1> SUFFICES ASSUME i + Len(what) - 1 <= Len(s)
             PROVE  SubSeq(s, i, i + Len(what) - 1) = what
                      <=> \A k \in 1..Len(what) : s[i + k - 1] = what[k]
  BY DEF Found, Stands
<1> DEFINE part == SubSeq(s, i, i + Len(what) - 1)
           last == i + Len(what) - 1
<1>1. Len(what) \in Nat /\ Len(s) \in Nat /\ i \in Int /\ last \in Int
  OBVIOUS
<1>2. \A k \in i..last : s[k] \in C
  BY <1>1
<1>3. /\ SubSeq(s, i, last) \in Seq(C)
      /\ Len(SubSeq(s, i, last)) = IF i <= last THEN last - i + 1 ELSE 0
      /\ \A k \in 1..(last - i + 1) : SubSeq(s, i, last)[k] = s[i + k - 1]
  <2> HIDE DEF last
  <2> QED
    BY <1>1, <1>2, SubSeqProperties
<1>4. /\ part \in Seq(C) /\ Len(part) = Len(what)
      /\ \A k \in 1..Len(what) : part[k] = s[i + k - 1]
  BY <1>1, <1>3
<1> HIDE DEF part, last
<1>5. ASSUME \A k \in 1..Len(what) : s[i + k - 1] = what[k]
      PROVE  part = what
  <2>1. \A k \in 1..Len(part) : part[k] = what[k]
    BY <1>4, <1>5
  <2> QED
    BY <1>4, <2>1, SeqEqual
<1> QED
  BY <1>4, <1>5 DEF part

\* In two parts, the second is found where it is alone.
LEMMA FoundBehind ==
    ASSUME NEW C, NEW p \in Seq(C), NEW t \in Seq(C), NEW what \in Seq(C),
           NEW j \in 1..(Len(t) + 1)
    PROVE  Found(p \o t, what, Len(p) + j) <=> Found(t, what, j)
<1> DEFINE s == p \o t
<1>1. /\ s \in Seq(C) /\ Len(s) = Len(p) + Len(t)
      /\ Len(p) \in Nat /\ Len(t) \in Nat /\ Len(what) \in Nat
      /\ \A i \in 1..Len(t) : s[Len(p) + i] = t[i]
  BY ConcatProperties
<1> HIDE DEF s
<1>2. Len(p) + j \in 1..(Len(s) + 1)
  BY <1>1
<1>3. Found(s, what, Len(p) + j) <=> Stands(s, what, Len(p) + j)
  <2>1. s \in Seq(C)
    BY <1>1
  <2> QED
    BY <1>2, <2>1, FoundIs, Zenon
<1>4. Found(t, what, j) <=> Stands(t, what, j)
  BY FoundIs, Zenon
<1>5. Len(p) + j + Len(what) - 1 <= Len(s) <=> j + Len(what) - 1 <= Len(t)
  BY <1>1
<1>6. ASSUME j + Len(what) - 1 <= Len(t), NEW k \in 1..Len(what)
      PROVE  s[Len(p) + j + k - 1] = t[j + k - 1]
  <2>1. j + k - 1 \in 1..Len(t) /\ Len(p) + (j + k - 1) = Len(p) + j + k - 1
    BY <1>1, <1>6
  <2> QED
    BY <1>1, <2>1
<1>7. Stands(s, what, Len(p) + j) <=> Stands(t, what, j)
  BY <1>5, <1>6 DEF Stands
<1> QED
  BY <1>3, <1>4, <1>7 DEF s

\* Behind p, there is what there is without it.
LEMMA ReplaceBehind ==
    ASSUME NEW C, NEW p \in Seq(C), NEW t \in Seq(C), NEW what \in Seq(C), what # <<>>,
           NEW by
    PROVE  From(p \o t, what, by)[Len(p) + 1] = Replace(t, what, by)
<1> DEFINE s == p \o t
           n == Len(t)
           f == From(s, what, by)
           g == From(t, what, by)
           B == {j \in 0..n : \A i \in (n + 1 - j)..(n + 1) : f[Len(p) + i] = g[i]}
<1>1. /\ s \in Seq(C) /\ Len(s) = Len(p) + n
      /\ Len(p) \in Nat /\ n \in Nat /\ Len(what) \in Nat \ {0} /\ Len(s) \in Nat
      /\ \A i \in 1..n : s[Len(p) + i] = t[i]
  BY ConcatProperties, EmptySeq
<1>2. /\ Replaces(s, what, by, f, 1) /\ Replaces(t, what, by, g, 1)
      /\ Replace(t, what, by) = g[1]
  BY <1>1, ReplaceIsComputed
<1>3. ASSUME NEW i \in 1..(n + 1)
      PROVE  /\ f[Len(p) + i] = Turn(s, what, by, f, Len(p) + i)
             /\ g[i] = Turn(t, what, by, g, i)
  <2>1. Len(p) + i \in 1..(Len(s) + 1)
    BY <1>1
  <2> HIDE DEF f, g, s
  <2> QED
    BY <1>2, <2>1 DEF Replaces
<1>4. \A i \in 1..(n + 1) : Found(s, what, Len(p) + i) <=> Found(t, what, i)
  BY FoundBehind
<1> HIDE DEF f, g, s
<1>5. 0 \in B
  <2>1. \A i \in (n + 1 - 0)..(n + 1) : i = n + 1 /\ i \in 1..(n + 1)
    BY <1>1
  <2>2. n + 1 \in 1..(n + 1) /\ n + 1 > Len(t) /\ Len(p) + (n + 1) > Len(s)
    BY <1>1
  <2> HIDE DEF n
  <2>3. f[Len(p) + (n + 1)] = <<>> /\ g[n + 1] = <<>>
    BY <1>3, <2>2, Zenon DEF Turn
  <2>4. 0 \in 0..n
    BY <1>1
  <2> QED
    BY <2>1, <2>3, <2>4
<1>6. ASSUME NEW j \in 1..n, j - 1 \in B PROVE j \in B
  <2> DEFINE k == n + 1 - j
  <2>1. /\ k \in 1..n /\ k \in 1..(n + 1) /\ j \in 0..n
        /\ \A i \in k..(n + 1) : i = k \/ i \in (n + 1 - (j - 1))..(n + 1)
        /\ k + 1 \in (n + 1 - (j - 1))..(n + 1)
        /\ ~(k > Len(t)) /\ ~(Len(p) + k > Len(s))
    <3>1. n \in Nat /\ Len(p) \in Nat /\ Len(s) = Len(p) + n /\ n = Len(t) /\ j \in 1..n
      BY <1>1, <1>6
    <3> HIDE DEF n
    <3>2. /\ k \in 1..n /\ k \in 1..(n + 1) /\ j \in 0..n
          /\ k + 1 \in (n + 1 - (j - 1))..(n + 1)
      BY <3>1
    <3>4. n + 1 - (j - 1) = k + 1 /\ n + 1 \in Nat /\ k \in Nat
      BY <3>1
    <3>5. \A i \in k..(n + 1) : i = k \/ i \in (n + 1 - (j - 1))..(n + 1)
      <4> HIDE DEF k
      <4> QED
        BY <3>4
    <3> HIDE DEF k
    <3>3. ~(k > n) /\ ~(Len(p) + k > Len(p) + n)
      BY <3>1, <3>2
    <3> QED
      BY <3>1, <3>2, <3>3, <3>5
  <2>a. /\ Len(p) + k + 1 = Len(p) + (k + 1)
        /\ Len(p) + k + Len(what) = Len(p) + (k + Len(what))
    BY <1>1, <2>1
  <2>2. \A i \in (n + 1 - (j - 1))..(n + 1) : f[Len(p) + i] = g[i]
    BY <1>6
  <2>3. s[Len(p) + k] = t[k]
    BY <1>1, <2>1
  <2>4. f[Len(p) + k] = g[k]
    <3>1. CASE Found(t, what, k)
      <4>1. k + Len(what) \in (n + 1 - (j - 1))..(n + 1)
        BY <1>1, <2>1, <3>1 DEF Found
      <4>2. f[Len(p) + (k + Len(what))] = g[k + Len(what)]
        BY <2>2, <4>1
      <4>3. Found(s, what, Len(p) + k)
        BY <1>4, <2>1, <3>1
      <4> HIDE DEF k, n
      <4>4. f[Len(p) + k] = by \o f[Len(p) + k + Len(what)]
        BY <1>3, <2>1, <4>3, Zenon DEF Turn
      <4>5. g[k] = by \o g[k + Len(what)]
        BY <1>3, <2>1, <3>1, Zenon DEF Turn
      <4> QED
        BY <2>a, <4>2, <4>4, <4>5
    <3>2. CASE ~Found(t, what, k)
      <4>1. f[Len(p) + (k + 1)] = g[k + 1]
        BY <2>1, <2>2
      <4>2. ~Found(s, what, Len(p) + k)
        BY <1>4, <2>1, <3>2
      <4> HIDE DEF k, n
      <4>3. f[Len(p) + k] = <<s[Len(p) + k]>> \o f[Len(p) + k + 1]
        BY <1>3, <2>1, <4>2, Zenon DEF Turn
      <4>4. g[k] = <<t[k]>> \o g[k + 1]
        BY <1>3, <2>1, <3>2, Zenon DEF Turn
      <4> QED
        BY <2>a, <2>3, <4>1, <4>3, <4>4
    <3> QED
      BY <3>1, <3>2
  <2> HIDE DEF k
  <2>5. \A i \in k..(n + 1) : f[Len(p) + i] = g[i]
    BY <2>1, <2>2, <2>4
  <2> QED
    BY <2>1, <2>5 DEF k
<1> HIDE DEF B
<1>7. 0..n \subseteq B
  BY <1>1, <1>5, <1>6, SetInduction
<1>8. n \in B /\ 1 \in (n + 1 - n)..(n + 1)
  BY <1>1, <1>7
<1>9. f[Len(p) + 1] = g[1]
  BY <1>8 DEF B
<1> QED
  BY <1>2, <1>9 DEF f, s

LEMMA ReplaceNothing ==
    ASSUME NEW what, Len(what) \in Nat \ {0}, NEW by
    PROVE  Replace(<<>>, what, by) = <<>>
<1> DEFINE f == From(<<>>, what, by)
<1>1. Len(<<>>) = 0 /\ 1 \in 1..(Len(<<>>) + 1) /\ 1 > Len(<<>>)
  OBVIOUS
<1>2. Replaces(<<>>, what, by, f, 1) /\ Replace(<<>>, what, by) = f[1]
  BY <1>1, ReplaceIsComputed
<1> HIDE DEF f
<1>3. f[1] = Turn(<<>>, what, by, f, 1)
  BY <1>1, <1>2 DEF Replaces
<1>4. f[1] = <<>>
  BY <1>1, <1>3, Zenon DEF Turn
<1> QED
  BY <1>2, <1>4

\* What is found in front is replaced, and the rest as if it were alone.
LEMMA ReplaceFound ==
    ASSUME NEW C, NEW p \in Seq(C), p # <<>>, NEW t \in Seq(C), NEW by
    PROVE  Replace(p \o t, p, by) = by \o Replace(t, p, by)
<1> DEFINE s == p \o t
           f == From(s, p, by)
<1>1. /\ s \in Seq(C) /\ Len(s) = Len(p) + Len(t) /\ Len(s) \in Nat
      /\ Len(p) \in Nat \ {0} /\ Len(t) \in Nat
      /\ \A i \in 1..Len(p) : s[i] = p[i]
  BY ConcatProperties, EmptySeq
<1>2. f[Len(p) + 1] = Replace(t, p, by)
  BY ReplaceBehind
<1>3. Replaces(s, p, by, f, 1) /\ Replace(s, p, by) = f[1]
  BY <1>1, ReplaceIsComputed
<1> HIDE DEF s, f
<1>4. Found(s, p, 1)
  <2>1. 1 \in 1..(Len(s) + 1) /\ 1 + Len(p) - 1 <= Len(s)
        /\ \A k \in 1..Len(p) : 1 + k - 1 = k
    BY <1>1
  <2>2. \A k \in 1..Len(p) : s[1 + k - 1] = p[k]
    BY <1>1, <2>1
  <2> QED
    BY <1>1, <2>1, <2>2, FoundIs DEF Stands
<1>5. f[1] = Turn(s, p, by, f, 1)
  <2>1. 1 \in 1..(Len(s) + 1)
    BY <1>1
  <2> QED
    BY <1>3, <2>1 DEF Replaces
<1>6. ~(1 > Len(s)) /\ 1 + Len(p) = Len(p) + 1
  BY <1>1
<1>7. f[1] = by \o f[1 + Len(p)]
  BY <1>4, <1>5, <1>6, Zenon DEF Turn
<1> QED
  BY <1>2, <1>3, <1>6, <1>7 DEF s

\* A character in front, where nothing is found, stays.
LEMMA ReplacePassed ==
    ASSUME NEW C, NEW c \in C, NEW t \in Seq(C), NEW what \in Seq(C), what # <<>>, NEW by,
           ~Found(<<c>> \o t, what, 1)
    PROVE  Replace(<<c>> \o t, what, by) = <<c>> \o Replace(t, what, by)
<1> DEFINE p == <<c>>
           s == p \o t
           f == From(s, what, by)
<1>0. p \in Seq(C) /\ Len(p) = 1 /\ p[1] = c
  OBVIOUS
<1> HIDE DEF p
<1>1. /\ s \in Seq(C) /\ Len(s) = 1 + Len(t) /\ Len(s) \in Nat
      /\ Len(what) \in Nat \ {0} /\ Len(t) \in Nat /\ s[1] = c
  <2>1. Len(what) \in Nat \ {0} /\ Len(t) \in Nat
    BY EmptySeq
  <2>2. /\ s \in Seq(C) /\ Len(s) = Len(p) + Len(t)
        /\ \A i \in 1..Len(p) : s[i] = p[i]
    <3>1. p \in Seq(C)
      BY <1>0
    <3> QED
      BY <3>1, Joined
  <2>3. s[1] = p[1]
    BY <1>0, <2>2
  <2> QED
    BY <1>0, <2>1, <2>2, <2>3
<1>2. f[1 + 1] = Replace(t, what, by)
  <2>1. From(p \o t, what, by)[Len(p) + 1] = Replace(t, what, by)
    BY <1>0, ReplaceBehind
  <2> QED
    BY <1>0, <2>1
<1>3. Replaces(s, what, by, f, 1) /\ Replace(s, what, by) = f[1]
  BY <1>1, ReplaceIsComputed
<1>4. ~Found(s, what, 1)
  BY DEF p
<1> HIDE DEF s, f
<1>5. f[1] = Turn(s, what, by, f, 1)
  <2>1. 1 \in 1..(Len(s) + 1)
    BY <1>1
  <2> QED
    BY <1>3, <2>1 DEF Replaces
<1>6. ~(1 > Len(s))
  BY <1>1
<1>7. f[1] = <<s[1]>> \o f[1 + 1]
  BY <1>4, <1>5, <1>6, Zenon DEF Turn
<1> QED
  BY <1>1, <1>2, <1>3, <1>7 DEF s, p

-----------------------------------------------------------------------------
(* Strings from the front *)

Join(p, q) == p \o q
Put(c, t) == <<c>> \o t
Instead(a, c, by) == IF a = c THEN by ELSE <<a>>
Spelt(s, c, by) == Replace(s, <<c>>, by)

LEMMA OneIn == \A C : \A c \in C : <<c>> \in Seq(C) /\ Len(<<c>>) = 1 /\ <<c>>[1] = c
OBVIOUS

LEMMA OneLong == \A c : Len(<<c>>) \in Nat \ {0}
OBVIOUS

\* What s has of its two parts, and of a character and the rest.
HasParts(s, p, t) ==
    /\ Len(s) = Len(p) + Len(t)
    /\ \A i \in 1..Len(p) : s[i] = p[i]
    /\ \A i \in 1..Len(t) : s[Len(p) + i] = t[i]
HasFront(s, c, t) ==
    Len(s) = Len(t) + 1 /\ s[1] = c /\ \A i \in 1..Len(t) : s[i + 1] = t[i]

LEMMA JoinIs ==
    \A C : \A p, t \in Seq(C) : Join(p, t) \in Seq(C) /\ HasParts(Join(p, t), p, t)
BY Joined DEF Join, HasParts

LEMMA JoinAssociative ==
    \A C : \A p, q, r \in Seq(C) : Join(Join(p, q), r) = Join(p, Join(q, r))
BY ConcatAssociative DEF Join

LEMMA JoinNothing == \A C : \A p \in Seq(C) : Join(p, <<>>) = p /\ Join(<<>>, p) = p
BY ConcatEmptySeq DEF Join

LEMMA Single ==
    \A C : \A c \in C : \A t \in Seq(C) :
        Put(c, t) \in Seq(C) /\ HasFront(Put(c, t), c, t) /\ Put(c, t) # <<>>
<1> SUFFICES ASSUME NEW C, NEW c \in C, NEW t \in Seq(C)
             PROVE  Put(c, t) \in Seq(C) /\ HasFront(Put(c, t), c, t) /\ Put(c, t) # <<>>
  OBVIOUS
<1> DEFINE p == <<c>>
<1>1. p \in Seq(C) /\ Len(p) = 1 /\ p[1] = c /\ Len(t) \in Nat
  BY OneIn
<1> HIDE DEF p
<1>2. Join(p, t) \in Seq(C) /\ HasParts(Join(p, t), p, t)
  <2>1. p \in Seq(C)
    BY <1>1
  <2> QED
    BY <2>1, JoinIs
<1>3. Put(c, t) = Join(p, t)
  BY DEF Put, Join, p
<1>4. ASSUME NEW i \in 1..Len(t) PROVE Join(p, t)[i + 1] = t[i]
  <2>1. Len(p) + i = i + 1
    BY <1>1
  <2>2. Join(p, t)[Len(p) + i] = t[i]
    BY <1>2 DEF HasParts
  <2> QED
    BY <2>1, <2>2
<1>5. Len(Join(p, t)) = Len(t) + 1 /\ Join(p, t)[1] = c
  BY <1>1, <1>2 DEF HasParts
<1>6. Join(p, t) # <<>>
  <2>1. Len(Join(p, t)) # 0
    BY <1>1, <1>5
  <2> QED
    BY <2>1, EmptySeq
<1> QED
  BY <1>2, <1>3, <1>4, <1>5, <1>6 DEF HasFront

LEMMA PutJoined ==
    \A C : \A c \in C : \A p, q \in Seq(C) : Join(Put(c, p), q) = Put(c, Join(p, q))
<1> SUFFICES ASSUME NEW C, NEW c \in C, NEW p \in Seq(C), NEW q \in Seq(C)
             PROVE  Join(Put(c, p), q) = Put(c, Join(p, q))
  OBVIOUS
<1> DEFINE a == <<c>>
<1>1. a \in Seq(C)
  BY OneIn
<1> HIDE DEF a
<1>2. Join(Join(a, p), q) = Join(a, Join(p, q))
  BY <1>1, JoinAssociative
<1>3. \A s : Put(c, s) = Join(a, s)
  BY DEF Put, Join, a
<1> QED
  BY <1>2, <1>3

\* A string is empty, or a character and a string.
LEMMA FrontAndRest ==
    ASSUME NEW C, NEW s \in Seq(C), s # <<>>
    PROVE  \E c \in C : \E t \in Seq(C) : s = Put(c, t)
<1> DEFINE t == Tail(s)
<1>1. Len(s) \in Nat \ {0}
  BY EmptySeq
<1>2. s[1] \in C
  BY <1>1
<1>3. /\ t \in Seq(C) /\ Len(t) = Len(s) - 1
      /\ \A i \in 1..Len(t) : t[i] = s[i + 1]
  BY HeadTailProperties
<1> HIDE DEF t
<1>4. /\ Put(s[1], t) \in Seq(C) /\ Len(Put(s[1], t)) = Len(t) + 1
      /\ Put(s[1], t)[1] = s[1] /\ \A i \in 1..Len(t) : Put(s[1], t)[i + 1] = t[i]
  <2>1. t \in Seq(C)
    BY <1>3
  <2> QED
    <3>1. Put(s[1], t) \in Seq(C) /\ HasFront(Put(s[1], t), s[1], t)
      BY <1>2, <2>1, Single
    <3> QED
      BY <3>1 DEF HasFront
<1>5. ASSUME NEW i \in 1..Len(s) PROVE s[i] = Put(s[1], t)[i]
  <2>1. CASE i = 1
    BY <1>4, <2>1
  <2>2. CASE i # 1
    <3>1. i - 1 \in 1..Len(t) /\ i - 1 + 1 = i
      BY <1>1, <1>3, <2>2
    <3>2. t[i - 1] = s[i - 1 + 1] /\ Put(s[1], t)[i - 1 + 1] = t[i - 1]
      BY <1>3, <1>4, <3>1
    <3> QED
      BY <3>1, <3>2
  <2> QED
    BY <2>1, <2>2
<1>6. Len(s) = Len(Put(s[1], t))
  BY <1>1, <1>3, <1>4
<1>7. s = Put(s[1], t)
  <2>1. Put(s[1], t) \in Seq(C)
    BY <1>4
  <2> QED
    BY <1>5, <1>6, <2>1, SeqEqual
<1>8. t \in Seq(C)
  BY <1>3
<1> QED
  BY <1>2, <1>7, <1>8

\* One character for another string, at the front.
LEMMA ReplaceFront ==
    ASSUME NEW C, NEW a \in C, NEW c \in C, NEW t \in Seq(C), NEW by
    PROVE  Spelt(Put(a, t), c, by) = Join(Instead(a, c, by), Spelt(t, c, by))
<1> DEFINE what == <<c>>
           s == <<a>> \o t
<1>1. what \in Seq(C) /\ what # <<>> /\ Len(what) = 1 /\ what[1] = c
  OBVIOUS
<1>a. Spelt(Put(a, t), c, by) = Replace(s, what, by) /\ Spelt(t, c, by) = Replace(t, what, by)
  BY Zenon DEF Spelt, Put
<1>2. CASE a = c
  <2>1. s = what \o t
    BY <1>2
  <2> HIDE DEF what, s
  <2>2. Replace(s, what, by) = by \o Replace(t, what, by)
    BY <1>1, <2>1, ReplaceFound
  <2> QED
    BY <1>a, <1>2, <2>2, Zenon DEF Instead, Join
<1>3. CASE a # c
  <2>0. s = Put(a, t)
    BY DEF Put
  <2> HIDE DEF what, s
  <2>1. s \in Seq(C) /\ s[1] = a /\ 1 \in 1..(Len(s) + 1)
    <3>1. s \in Seq(C) /\ s[1] = a
      BY <2>0, Single DEF HasFront
    <3> QED
      BY <3>1
  <2>2. ~Found(s, what, 1)
    <3>1. Found(s, what, 1) <=> Stands(s, what, 1)
      <4>1. what \in Seq(C) /\ s \in Seq(C) /\ 1 \in 1..(Len(s) + 1)
        BY <1>1, <2>1
      <4> QED
        BY <4>1, FoundIs, Zenon
    <3> QED
      BY <1>1, <1>3, <2>1, <3>1 DEF Stands
  <2>3. Replace(s, what, by) = <<a>> \o Replace(t, what, by)
    BY <1>1, <2>2, ReplacePassed DEF s
  <2> QED
    BY <1>a, <1>3, <2>3, Zenon DEF Instead, Join
<1> QED
  BY <1>2, <1>3

LEMMA SpeltNothing == \A c, by : Spelt(<<>>, c, by) = <<>>
<1> SUFFICES ASSUME NEW c, NEW by PROVE Spelt(<<>>, c, by) = <<>>
  OBVIOUS
<1> DEFINE what == <<c>>
<1>1. Len(what) \in Nat \ {0}
  BY OneLong
<1> HIDE DEF what
<1>2. Replace(<<>>, what, by) = <<>>
  BY <1>1, ReplaceNothing
<1> QED
  BY <1>2 DEF Spelt, what

LEMMA SpeltTyped ==
    ASSUME NEW C, NEW D, NEW s \in Seq(C), NEW c, NEW by \in Seq(D), C \ {c} \subseteq D
    PROVE  Spelt(s, c, by) \in Seq(D)
<1>1. Len(<<c>>) \in Nat \ {0} /\ \A x \in C : x \in D \/ <<c>> = <<x>>
  BY OneLong
<1> QED
  BY <1>1, ReplaceTyped DEF Spelt

\* Each part for itself.
LEMMA ReplaceJoined ==
    ASSUME NEW C, NEW x \in Seq(C), NEW y \in Seq(C), NEW c \in C, NEW by \in Seq(C)
    PROVE  Spelt(Join(x, y), c, by) = Join(Spelt(x, c, by), Spelt(y, c, by))
<1> DEFINE R(s) == Spelt(s, c, by)
           N == Len(x)
           B == {j \in 0..N : \A s \in Seq(C) : Len(s) = j => R(Join(s, y)) = Join(R(s), R(y))}
<1>1. \A s \in Seq(C) : R(s) \in Seq(C)
  BY SpeltTyped
<1>2. R(<<>>) = <<>>
  BY SpeltNothing
<1>3. \A a \in C, t \in Seq(C) : R(Put(a, t)) = Join(Instead(a, c, by), R(t))
  BY ReplaceFront
<1>4. N \in Nat
  OBVIOUS
<1>a. \A a \in C : Instead(a, c, by) \in Seq(C)
  BY OneIn DEF Instead
<1> HIDE DEF R, N
<1>5. 0 \in B
  <2>1. ASSUME NEW s \in Seq(C), Len(s) = 0 PROVE R(Join(s, y)) = Join(R(s), R(y))
    <3>1. s = <<>>
      BY <2>1, EmptySeq
    <3>2. R(y) \in Seq(C)
      BY <1>1
    <3>3. Join(<<>>, y) = y /\ Join(<<>>, R(y)) = R(y)
      BY <3>2, JoinNothing
    <3> QED
      BY <1>2, <3>1, <3>3
  <2> QED
    BY <1>4, <2>1
<1>6. ASSUME NEW j \in 1..N, j - 1 \in B PROVE j \in B
  <2>1. ASSUME NEW s \in Seq(C), Len(s) = j PROVE R(Join(s, y)) = Join(R(s), R(y))
    <3>1. s # <<>>
      BY <1>4, <2>1
    <3>2. PICK a \in C : \E t \in Seq(C) : s = Put(a, t)
      BY <3>1, FrontAndRest
    <3>3. PICK t \in Seq(C) : s = Put(a, t)
      BY <3>2
    <3>4. Len(t) = j - 1
      <4>1. Len(s) = Len(t) + 1 /\ Len(t) \in Nat
        BY <3>3, Single DEF HasFront
      <4> QED
        BY <1>4, <2>1, <4>1
    <3>5. R(Join(t, y)) = Join(R(t), R(y))
      BY <1>6, <3>4
    <3> DEFINE h == Instead(a, c, by)
    <3>6. h \in Seq(C) /\ R(t) \in Seq(C) /\ R(y) \in Seq(C)
      BY <1>1, <1>a
    <3>7. Join(s, y) = Put(a, Join(t, y)) /\ Join(t, y) \in Seq(C)
      BY <3>3, PutJoined, JoinIs
    <3>8. R(Join(s, y)) = Join(h, R(Join(t, y))) /\ R(s) = Join(h, R(t))
      BY <1>3, <3>3, <3>7
    <3> HIDE DEF h
    <3>9. Join(Join(h, R(t)), R(y)) = Join(h, Join(R(t), R(y)))
      BY <3>6, JoinAssociative
    <3> QED
      BY <3>5, <3>8, <3>9
  <2> QED
    BY <1>4, <2>1
<1> HIDE DEF B
<1>7. 0..N \subseteq B
  BY <1>4, <1>5, <1>6, SetInduction
<1>8. N \in B
  BY <1>4, <1>7
<1> QED
  BY <1>8 DEF B, N, R

LEMMA ReplaceAbsent ==
    ASSUME NEW C, NEW x \in Seq(C), NEW c \in C, NEW by,
           \A i \in 1..Len(x) : x[i] # c
    PROVE  Spelt(x, c, by) = x
<1> DEFINE R(s) == Spelt(s, c, by)
           N == Len(x)
           B == {j \in 0..N : \A s \in Seq(C) :
                    (Len(s) = j /\ \A i \in 1..Len(s) : s[i] # c) => R(s) = s}
<1>1. R(<<>>) = <<>>
  BY SpeltNothing
<1>2. \A a \in C, t \in Seq(C) : R(Put(a, t)) = Join(Instead(a, c, by), R(t))
  BY ReplaceFront
<1>3. N \in Nat
  OBVIOUS
<1> HIDE DEF R, N
<1>4. 0 \in B
  <2>1. ASSUME NEW s \in Seq(C), Len(s) = 0 PROVE R(s) = s
    BY <1>1, <2>1, EmptySeq
  <2> QED
    BY <1>3, <2>1
<1>5. ASSUME NEW j \in 1..N, j - 1 \in B PROVE j \in B
  <2>1. ASSUME NEW s \in Seq(C), Len(s) = j, \A i \in 1..Len(s) : s[i] # c PROVE R(s) = s
    <3>1. s # <<>>
      BY <1>3, <2>1
    <3>2. PICK a \in C : \E t \in Seq(C) : s = Put(a, t)
      BY <3>1, FrontAndRest
    <3>3. PICK t \in Seq(C) : s = Put(a, t)
      BY <3>2
    <3>a. HasFront(s, a, t) /\ Len(t) \in Nat
      BY <3>3, Single
    <3>4. /\ Len(s) = Len(t) + 1 /\ Len(t) \in Nat
          /\ s[1] = a /\ \A i \in 1..Len(t) : s[i + 1] = t[i]
      BY <3>a DEF HasFront
    <3>5. R(t) = t
      <4>1. Len(t) = j - 1
        BY <1>3, <2>1, <3>4
      <4>2. \A i \in 1..Len(t) : i + 1 \in 1..Len(s)
        BY <3>4
      <4>3. \A i \in 1..Len(t) : t[i] # c
        BY <2>1, <3>4, <4>2
      <4> QED
        BY <1>5, <4>1, <4>3
    <3>6. Instead(a, c, by) = <<a>>
      <4>1. 1 \in 1..Len(s)
        BY <3>4
      <4> QED
        BY <2>1, <3>4, <4>1 DEF Instead
    <3>7. R(s) = Join(Instead(a, c, by), R(t))
      BY <1>2, <3>3
    <3>8. Join(<<a>>, t) = Put(a, t)
      BY DEF Join, Put
    <3> QED
      BY <3>3, <3>5, <3>6, <3>7, <3>8
  <2> QED
    BY <1>3, <2>1
<1> HIDE DEF B
<1>6. 0..N \subseteq B
  BY <1>3, <1>4, <1>5, SetInduction
<1>7. N \in B
  BY <1>3, <1>6
<1> QED
  BY <1>7 DEF B, N, R

-----------------------------------------------------------------------------
(* Names of which a part is decoded *)

\* A mark stands for a character as long as it is written with escapes.
Marks == {"codedPercent", "codedSpace", "codedEacute"}
Letters == Chars \cup Marks
Mark(c) ==
    CASE c = "%" -> "codedPercent" [] c = "space" -> "codedSpace"
      [] c = "eacute" -> "codedEacute" [] OTHER -> c

Percent == Escape(<<"2", "5">>)
Space == Escape(<<"2", "0">>)
Two == Escape(TwoBytes[1]) \o Escape(TwoBytes[2])
Three == <<"%", "E", "2", "%", "8", "2", "%", "A", "C">>

\* What a letter looks like, and a sequence of them.
Code(a) ==
    CASE a = "codedPercent" -> Percent [] a = "codedSpace" -> Space
      [] a = "codedEacute" -> Two [] OTHER -> <<a>>
Flat(m) ==
    Spelt(Spelt(Spelt(m, "codedPercent", Percent), "codedSpace", Space), "codedEacute", Two)

LEMMA LettersAre ==
    /\ \A c \in Hex \cup {"%"} : c \in Chars /\ c \in Letters
    /\ "space" \in Chars /\ "eacute" \in Chars /\ "euro" \in Chars
    /\ "codedPercent" \in Letters /\ "codedSpace" \in Letters /\ "codedEacute" \in Letters
    /\ Hex \cup {"%"} = {"0", "2", "3", "5", "8", "9", "A", "C", "E", "%"}
    /\ "space" \notin Hex \cup {"%"} /\ "eacute" \notin Hex \cup {"%"}
    /\ "euro" \notin Hex \cup {"%"}
    /\ \A a \in Marks : a \notin Chars /\ a \notin Hex \cup {"%"}
    /\ \A c \in Chars : c \in Letters /\ c \notin Marks
<1>1. Hex \cup {"%"} = {"0", "2", "3", "5", "8", "9", "A", "C", "E", "%"}
  BY DEF Hex, Digits
<1>2. \A a \in Marks : a \notin Chars
  BY DEF Marks, Chars, Hex, Digits, NotAscii
<1>3. \A c \in Hex \cup {"%"} : c \in Chars
  BY DEF Chars
<1>4. "space" \in Chars /\ "eacute" \in Chars /\ "euro" \in Chars
  BY DEF Chars, NotAscii
<1>5. /\ "space" \notin Hex \cup {"%"} /\ "eacute" \notin Hex \cup {"%"}
      /\ "euro" \notin Hex \cup {"%"}
  BY <1>1
<1>6. "codedPercent" \in Letters /\ "codedSpace" \in Letters /\ "codedEacute" \in Letters
  BY DEF Letters, Marks
<1>7. \A c \in Chars : c \in Letters
  BY DEF Letters
<1> QED
  BY <1>1, <1>2, <1>3, <1>4, <1>5, <1>6, <1>7, Zenon

\* The escapes, character by character.
LEMMA CodesAre ==
    /\ Percent \in Seq(Hex \cup {"%"}) /\ Len(Percent) = 3
    /\ Percent[1] = "%" /\ Percent[2] = "2" /\ Percent[3] = "5"
    /\ Space \in Seq(Hex \cup {"%"}) /\ Len(Space) = 3
    /\ Space[1] = "%" /\ Space[2] = "2" /\ Space[3] = "0"
    /\ Two \in Seq(Hex \cup {"%"}) /\ Len(Two) = 6
    /\ Two[1] = "%" /\ Two[2] = "C" /\ Two[3] = "3"
    /\ Two[4] = "%" /\ Two[5] = "A" /\ Two[6] = "9"
<1> DEFINE D == Hex \cup {"%"}
<1>1. /\ "%" \in D /\ "0" \in D /\ "2" \in D /\ "3" \in D /\ "5" \in D /\ "9" \in D
      /\ "A" \in D /\ "C" \in D
  BY LettersAre
<1> HIDE DEF D
<1>2. ASSUME NEW x \in D, NEW y \in D
      PROVE  /\ Escape(<<x, y>>) \in Seq(D) /\ Len(Escape(<<x, y>>)) = 3
             /\ Escape(<<x, y>>)[1] = "%" /\ Escape(<<x, y>>)[2] = x
             /\ Escape(<<x, y>>)[3] = y
  <2> DEFINE p == <<"%">>
             q == <<x, y>>
  <2>1. p \in Seq(D) /\ Len(p) = 1 /\ p[1] = "%"
    BY <1>1
  <2>2. q \in Seq(D) /\ Len(q) = 2 /\ q[1] = x /\ q[2] = y
    OBVIOUS
  <2> HIDE DEF p, q
  <2>3. /\ p \o q \in Seq(D) /\ Len(p \o q) = 3
        /\ (p \o q)[1] = p[1] /\ (p \o q)[2] = q[1] /\ (p \o q)[3] = q[2]
    BY <2>1, <2>2, ConcatProperties
  <2> QED
    BY <2>1, <2>2, <2>3 DEF Escape, p, q
<1> DEFINE one == Escape(<<"C", "3">>)
           other == Escape(<<"A", "9">>)
<1>3. Two = one \o other
  <2>1. TwoBytes[1] = <<"C", "3">> /\ TwoBytes[2] = <<"A", "9">>
    BY DEF TwoBytes
  <2> QED
    BY <2>1, Zenon DEF Two
<1>4. /\ one \in Seq(D) /\ Len(one) = 3 /\ one[1] = "%" /\ one[2] = "C" /\ one[3] = "3"
      /\ other \in Seq(D) /\ Len(other) = 3
      /\ other[1] = "%" /\ other[2] = "A" /\ other[3] = "9"
  BY <1>1, <1>2
<1> HIDE DEF one, other
<1>5. /\ one \o other \in Seq(D) /\ Len(one \o other) = 6
      /\ \A i \in 1..6 : (one \o other)[i] = IF i <= 3 THEN one[i] ELSE other[i - 3]
  <2>1. /\ one \o other \in Seq(D) /\ Len(one \o other) = Len(one) + Len(other)
        /\ \A i \in 1..(Len(one) + Len(other)) :
              (one \o other)[i] = IF i <= Len(one) THEN one[i] ELSE other[i - Len(one)]
    BY <1>4, ConcatProperties
  <2>2. Len(one) = 3 /\ Len(one) + Len(other) = 6
    BY <1>4
  <2> QED
    BY <2>1, <2>2
<1>6. /\ Two \in Seq(D) /\ Len(Two) = 6
      /\ Two[1] = "%" /\ Two[2] = "C" /\ Two[3] = "3"
      /\ Two[4] = "%" /\ Two[5] = "A" /\ Two[6] = "9"
  BY <1>3, <1>4, <1>5
<1>7. /\ Percent \in Seq(D) /\ Len(Percent) = 3
      /\ Percent[1] = "%" /\ Percent[2] = "2" /\ Percent[3] = "5"
  BY <1>1, <1>2 DEF Percent
<1>8. /\ Space \in Seq(D) /\ Len(Space) = 3
      /\ Space[1] = "%" /\ Space[2] = "2" /\ Space[3] = "0"
  BY <1>1, <1>2 DEF Space
<1> QED
  BY <1>6, <1>7, <1>8 DEF D

LEMMA CodeTyped ==
    /\ Percent \in Names /\ Space \in Names /\ Two \in Names
    /\ Percent \in Seq(Letters) /\ Space \in Seq(Letters) /\ Two \in Seq(Letters)
    /\ Three \in Seq(Letters)
    /\ \A a \in Letters : Code(a) \in Names /\ Len(Code(a)) \in Nat \ {0}
<1> DEFINE D == Hex \cup {"%"}
<1>1. D \subseteq Chars /\ D \subseteq Letters
  BY LettersAre
<1>2. Percent \in Seq(D) /\ Space \in Seq(D) /\ Two \in Seq(D)
  BY CodesAre
<1> HIDE DEF D
<1>3. /\ Percent \in Names /\ Space \in Names /\ Two \in Names
      /\ Percent \in Seq(Letters) /\ Space \in Seq(Letters) /\ Two \in Seq(Letters)
  BY <1>1, <1>2, SeqMonotonic DEF Names
<1>4. Three \in Seq(Letters)
  <2>1. /\ "%" \in Letters /\ "E" \in Letters /\ "2" \in Letters /\ "8" \in Letters
        /\ "A" \in Letters /\ "C" \in Letters
    BY LettersAre
  <2> QED
    BY <2>1 DEF Three
<1>5. ASSUME NEW a \in Letters PROVE Code(a) \in Names /\ Len(Code(a)) \in Nat \ {0}
  <2>1. CASE a \in Marks
    <3>1. Code(a) \in {Percent, Space, Two}
      BY <2>1 DEF Code, Marks
    <3> QED
      BY <1>3, <3>1, CodesAre
  <2>2. CASE a \notin Marks
    <3>1. a \in Chars /\ a # "codedPercent" /\ a # "codedSpace" /\ a # "codedEacute"
      BY <2>2 DEF Letters, Marks
    <3>2. Code(a) = <<a>>
      BY <3>1, Zenon DEF Code
    <3>3. <<a>> \in Seq(Chars) /\ Len(<<a>>) = 1
      BY <3>1, OneIn
    <3> QED
      BY <3>2, <3>3 DEF Names
  <2> QED
    BY <2>1, <2>2
<1> QED
  BY <1>3, <1>4, <1>5

LEMMA CodesStay ==
    ASSUME NEW x \in {Percent, Space, Two}, NEW c \in Letters, c \notin Hex \cup {"%"}, NEW by
    PROVE  Spelt(x, c, by) = x
<1>1. x \in Seq(Hex \cup {"%"}) /\ x \in Seq(Letters)
  BY CodesAre, CodeTyped
<1>2. \A i \in 1..Len(x) : x[i] \in Hex \cup {"%"}
  BY <1>1, ElementOfSeq
<1> QED
  BY <1>1, <1>2, ReplaceAbsent

LEMMA ReplaceOne ==
    ASSUME NEW a \in Letters, NEW c \in Letters, NEW by \in Seq(Letters)
    PROVE  Spelt(<<a>>, c, by) = Instead(a, c, by)
<1>1. <<>> \in Seq(Letters) /\ <<a>> \in Seq(Letters)
  BY EmptySeq, OneIn
<1>2. Spelt(Put(a, <<>>), c, by) = Join(Instead(a, c, by), Spelt(<<>>, c, by))
  <2>1. <<>> \in Seq(Letters)
    BY <1>1
  <2> DEFINE e == <<>>
  <2>2. e \in Seq(Letters)
    BY <2>1
  <2> HIDE DEF e
  <2>3. Spelt(Put(a, e), c, by) = Join(Instead(a, c, by), Spelt(e, c, by))
    BY <2>2, ReplaceFront
  <2> QED
    BY <2>3 DEF e
<1>3. Join(Instead(a, c, by), <<>>) = Instead(a, c, by)
  <2>1. Instead(a, c, by) \in Seq(Letters)
    BY <1>1, Zenon DEF Instead
  <2> QED
    BY <2>1, JoinNothing
<1>4. Put(a, <<>>) = <<a>>
  BY <1>1, ConcatEmptySeq DEF Put
<1> QED
  BY <1>2, <1>3, <1>4, SpeltNothing

LEMMA ReplaceLetters ==
    \A s \in Seq(Letters), c \in Letters, by \in Seq(Letters) : Spelt(s, c, by) \in Seq(Letters)
BY SpeltTyped

LEMMA FlatFront ==
    ASSUME NEW a \in Letters, NEW t \in Seq(Letters)
    PROVE  Flat(Put(a, t)) = Join(Code(a), Flat(t))
<1> DEFINE R1(s) == Spelt(s, "codedPercent", Percent)
           R2(s) == Spelt(s, "codedSpace", Space)
           R3(s) == Spelt(s, "codedEacute", Two)
           h == Instead(a, "codedPercent", Percent)
<1>1. /\ Percent \in Seq(Letters) /\ Space \in Seq(Letters) /\ Two \in Seq(Letters)
      /\ "codedPercent" \in Letters /\ "codedSpace" \in Letters /\ "codedEacute" \in Letters
      /\ "codedPercent" \notin Hex \cup {"%"} /\ "codedSpace" \notin Hex \cup {"%"}
      /\ "codedEacute" \notin Hex \cup {"%"}
  BY CodeTyped, LettersAre, Zenon DEF Marks
<1>2. \A s \in Seq(Letters) : R1(s) \in Seq(Letters) /\ R2(s) \in Seq(Letters)
  BY <1>1, ReplaceLetters
<1>3. h \in Seq(Letters) /\ <<a>> \in Seq(Letters)
  BY <1>1, OneIn, Zenon DEF Instead
<1>4. R1(Put(a, t)) = Join(h, R1(t))
  <2>1. R1(Put(a, t)) = Join(Instead(a, "codedPercent", Percent), R1(t))
    BY <1>1, ReplaceFront
  <2> QED
    BY <2>1, Zenon
<1>5. ASSUME NEW x \in Seq(Letters), NEW y \in Seq(Letters)
      PROVE  R2(Join(x, y)) = Join(R2(x), R2(y)) /\ R3(Join(x, y)) = Join(R3(x), R3(y))
  BY <1>1, ReplaceJoined
<1>6. R3(R2(h)) = Code(a)
  <2>1. CASE a = "codedPercent"
    <3>1. R2(Percent) = Percent /\ R3(Percent) = Percent
      BY <1>1, CodesStay
    <3> QED
      BY <2>1, <3>1, Zenon DEF Code, Instead
  <2>2. CASE a = "codedSpace"
    <3>1. R2(<<a>>) = Space /\ R3(Space) = Space
      BY <1>1, <2>2, CodesStay, ReplaceOne DEF Instead
    <3> QED
      BY <2>2, <3>1 DEF Code, Instead
  <2>3. CASE a = "codedEacute"
    <3>1. R2(<<a>>) = <<a>> /\ R3(<<a>>) = Two
      BY <1>1, <2>3, ReplaceOne DEF Instead
    <3> QED
      BY <2>3, <3>1 DEF Code, Instead
  <2>4. CASE a # "codedPercent" /\ a # "codedSpace" /\ a # "codedEacute"
    <3>1. R2(<<a>>) = <<a>> /\ R3(<<a>>) = <<a>>
      BY <1>1, <2>4, ReplaceOne DEF Instead
    <3> QED
      BY <2>4, <3>1, Zenon DEF Code, Instead
  <2> QED
    BY <2>1, <2>2, <2>3, <2>4
<1>7. Flat(Put(a, t)) = R3(R2(R1(Put(a, t)))) /\ Flat(t) = R3(R2(R1(t)))
  BY Zenon DEF Flat
<1> HIDE DEF R1, R2, R3, h
<1>8. R2(Join(h, R1(t))) = Join(R2(h), R2(R1(t)))
  BY <1>2, <1>3, <1>5
<1>9. R3(Join(R2(h), R2(R1(t)))) = Join(R3(R2(h)), R3(R2(R1(t))))
  BY <1>2, <1>3, <1>5
<1> QED
  BY <1>4, <1>6, <1>7, <1>8, <1>9

LEMMA FlatNothing == Flat(<<>>) = <<>>
BY SpeltNothing DEF Flat

LEMMA FlatTyped ==
    ASSUME NEW m \in Seq(Letters)
    PROVE  Flat(m) \in Names
<1>1. Percent \in Names /\ Space \in Names /\ Two \in Names
  BY CodeTyped
<1> DEFINE C1 == Letters \ {"codedPercent"}
           C2 == C1 \ {"codedSpace"}
<1>2. Percent \in Seq(C1) /\ Space \in Seq(C2)
  <2>1. Chars \subseteq C1 /\ Chars \subseteq C2
    BY LettersAre DEF Marks
  <2> HIDE DEF C1, C2
  <2> QED
    BY <1>1, <2>1, SeqMonotonic DEF Names
<1>3. Letters \ {"codedPercent"} \subseteq C1 /\ C1 \ {"codedSpace"} \subseteq C2
      /\ C2 \ {"codedEacute"} \subseteq Chars
  BY DEF Letters, Marks
<1> HIDE DEF C1, C2
<1> DEFINE m1 == Spelt(m, "codedPercent", Percent)
           m2 == Spelt(m1, "codedSpace", Space)
<1>4. m1 \in Seq(C1)
  BY <1>2, <1>3, SpeltTyped
<1> HIDE DEF m1
<1>5. m2 \in Seq(C2)
  BY <1>2, <1>3, <1>4, SpeltTyped
<1> HIDE DEF m2
<1>6. Spelt(m2, "codedEacute", Two) \in Seq(Chars)
  <2>1. Two \in Seq(Chars)
    BY <1>1 DEF Names
  <2> QED
    BY <1>3, <1>5, <2>1, SpeltTyped
<1> QED
  BY <1>6 DEF Flat, Names, m1, m2

\* The address of a name is made in the same way.
LEMMA AddressFront ==
    ASSUME NEW a \in Chars \ {"euro"}, NEW t \in Names
    PROVE  Address(Put(a, t)) = Join(Code(Mark(a)), Address(t))
<1> DEFINE R1(s) == Spelt(s, "%", Percent)
           R2(s) == Spelt(s, "space", Space)
           R3(s) == Spelt(s, "eacute", Two)
           R4(s) == Spelt(s, "euro", Three)
           h == Instead(a, "%", Percent)
<1>1. /\ Percent \in Seq(Letters) /\ Space \in Seq(Letters) /\ Two \in Seq(Letters)
      /\ Three \in Seq(Letters)
      /\ "%" \in Letters /\ "space" \in Letters /\ "eacute" \in Letters /\ "euro" \in Letters
      /\ "space" \notin Hex \cup {"%"} /\ "eacute" \notin Hex \cup {"%"}
      /\ "euro" \notin Hex \cup {"%"} /\ a \in Letters
  BY CodeTyped, LettersAre, Zenon
<1>0. t \in Seq(Letters)
  <2>1. Chars \subseteq Letters
    BY LettersAre
  <2> QED
    BY <2>1, SeqMonotonic DEF Names
<1>2. \A s \in Seq(Letters) :
         R1(s) \in Seq(Letters) /\ R2(s) \in Seq(Letters) /\ R3(s) \in Seq(Letters)
  BY <1>1, ReplaceLetters
<1>3. h \in Seq(Letters) /\ <<a>> \in Seq(Letters)
  BY <1>1, OneIn, Zenon DEF Instead
<1>4. R1(Put(a, t)) = Join(h, R1(t))
  <2>1. R1(Put(a, t)) = Join(Instead(a, "%", Percent), R1(t))
    BY <1>0, <1>1, ReplaceFront
  <2> QED
    BY <2>1, Zenon
<1>5. ASSUME NEW x \in Seq(Letters), NEW y \in Seq(Letters)
      PROVE  /\ R2(Join(x, y)) = Join(R2(x), R2(y)) /\ R3(Join(x, y)) = Join(R3(x), R3(y))
             /\ R4(Join(x, y)) = Join(R4(x), R4(y))
  BY <1>1, ReplaceJoined
<1>6. R4(R3(R2(h))) = Code(Mark(a))
  <2>1. CASE a = "%"
    <3>1. R2(Percent) = Percent /\ R3(Percent) = Percent /\ R4(Percent) = Percent
      BY <1>1, CodesStay
    <3>2. Code(Mark(a)) = Percent
      BY <2>1 DEF Code, Mark
    <3> QED
      BY <2>1, <3>1, <3>2, Zenon DEF Instead
  <2>2. CASE a = "space"
    <3>1. R2(<<a>>) = Space /\ R3(Space) = Space /\ R4(Space) = Space
      BY <1>1, <2>2, CodesStay, ReplaceOne DEF Instead
    <3> QED
      BY <2>2, <3>1 DEF Code, Mark, Instead
  <2>3. CASE a = "eacute"
    <3>1. R2(<<a>>) = <<a>> /\ R3(<<a>>) = Two /\ R4(Two) = Two
      BY <1>1, <2>3, CodesStay, ReplaceOne DEF Instead
    <3> QED
      BY <2>3, <3>1 DEF Code, Mark, Instead
  <2>4. CASE a # "%" /\ a # "space" /\ a # "eacute"
    <3>1. R2(<<a>>) = <<a>> /\ R3(<<a>>) = <<a>> /\ R4(<<a>>) = <<a>>
      BY <1>1, <2>4, ReplaceOne DEF Instead
    <3>2. Mark(a) = a
      BY <2>4, Zenon DEF Mark
    <3>3. a # "codedPercent" /\ a # "codedSpace" /\ a # "codedEacute"
      BY LettersAre DEF Marks
    <3>4. Code(a) = <<a>>
      BY <3>3, Zenon DEF Code
    <3> QED
      BY <2>4, <3>1, <3>2, <3>4, Zenon DEF Instead
  <2> QED
    BY <2>1, <2>2, <2>3, <2>4
<1>7. \A s : Address(s) = R4(R3(R2(R1(s))))
  BY Zenon DEF Address, PercentEncode, EncodeURL, Spelt, Percent, Space, Two, Three
<1> HIDE DEF R1, R2, R3, R4, h
<1>8. R2(Join(h, R1(t))) = Join(R2(h), R2(R1(t)))
  BY <1>0, <1>2, <1>3, <1>5
<1>9. R3(Join(R2(h), R2(R1(t)))) = Join(R3(R2(h)), R3(R2(R1(t))))
  BY <1>0, <1>2, <1>3, <1>5
<1>10. R4(Join(R3(R2(h)), R3(R2(R1(t))))) = Join(R4(R3(R2(h))), R4(R3(R2(R1(t)))))
  BY <1>0, <1>2, <1>3, <1>5
<1> QED
  BY <1>4, <1>6, <1>7, <1>8, <1>9, <1>10

LEMMA FlatJoined ==
    ASSUME NEW p \in Seq(Letters), NEW q \in Seq(Letters)
    PROVE  Flat(Join(p, q)) = Join(Flat(p), Flat(q))
<1> DEFINE R1(s) == Spelt(s, "codedPercent", Percent)
           R2(s) == Spelt(s, "codedSpace", Space)
           R3(s) == Spelt(s, "codedEacute", Two)
<1>1. /\ Percent \in Seq(Letters) /\ Space \in Seq(Letters) /\ Two \in Seq(Letters)
      /\ "codedPercent" \in Letters /\ "codedSpace" \in Letters /\ "codedEacute" \in Letters
  BY CodeTyped, LettersAre
<1>2. \A s \in Seq(Letters) : R1(s) \in Seq(Letters) /\ R2(s) \in Seq(Letters)
  BY <1>1, ReplaceLetters
<1>3. ASSUME NEW x \in Seq(Letters), NEW y \in Seq(Letters)
      PROVE  /\ R1(Join(x, y)) = Join(R1(x), R1(y)) /\ R2(Join(x, y)) = Join(R2(x), R2(y))
             /\ R3(Join(x, y)) = Join(R3(x), R3(y))
  BY <1>1, ReplaceJoined
<1>4. \A s : Flat(s) = R3(R2(R1(s)))
  BY Zenon DEF Flat
<1> HIDE DEF R1, R2, R3
<1>5. R2(Join(R1(p), R1(q))) = Join(R2(R1(p)), R2(R1(q)))
  BY <1>2, <1>3
<1>6. R3(Join(R2(R1(p)), R2(R1(q)))) = Join(R3(R2(R1(p))), R3(R2(R1(q))))
  BY <1>2, <1>3
<1> QED
  BY <1>3, <1>4, <1>5, <1>6

\* Every character that is written with escapes has its mark.
Marked(name) == [i \in 1..Len(name) |-> Mark(name[i])]

LEMMA MarkTyped == \A c \in Chars : Mark(c) \in Letters
<1> SUFFICES ASSUME NEW c \in Chars PROVE Mark(c) \in Letters
  OBVIOUS
<1>1. Mark(c) \in {"codedPercent", "codedSpace", "codedEacute", c}
  BY DEF Mark
<1> QED
  BY <1>1, LettersAre

LEMMA MarkedTyped ==
    ASSUME NEW name \in Names
    PROVE  /\ Marked(name) \in Seq(Letters) /\ Len(Marked(name)) = Len(name)
           /\ \A i \in 1..Len(name) : Marked(name)[i] = Mark(name[i])
<1>1. Len(name) \in Nat /\ \A i \in 1..Len(name) : name[i] \in Chars
  BY DEF Names
<1>2. \A i \in 1..Len(name) : Mark(name[i]) \in Letters
  BY <1>1, MarkTyped
<1> QED
  BY <1>1, <1>2 DEF Marked

LEMMA MarkedFront ==
    ASSUME NEW a \in Chars, NEW t \in Names
    PROVE  Marked(Put(a, t)) = Put(Mark(a), Marked(t))
<1> DEFINE s == Put(a, t)
           u == Put(Mark(a), Marked(t))
<1>1. s \in Names /\ HasFront(s, a, t) /\ Len(t) \in Nat
  BY Single DEF Names
<1>2. /\ Marked(t) \in Seq(Letters) /\ Len(Marked(t)) = Len(t)
      /\ \A i \in 1..Len(t) : Marked(t)[i] = Mark(t[i])
  BY MarkedTyped
<1>3. u \in Seq(Letters) /\ HasFront(u, Mark(a), Marked(t))
  <2>1. Mark(a) \in Letters /\ Marked(t) \in Seq(Letters)
    BY <1>2, MarkTyped
  <2> QED
    BY <2>1, Single
<1> HIDE DEF s, u
<1>4. /\ Marked(s) \in Seq(Letters) /\ Len(Marked(s)) = Len(s)
      /\ \A i \in 1..Len(s) : Marked(s)[i] = Mark(s[i])
  BY <1>1, MarkedTyped
<1>5. Len(u) = Len(s) /\ Len(s) = Len(t) + 1
  BY <1>1, <1>2, <1>3 DEF HasFront
<1>6. ASSUME NEW i \in 1..Len(s) PROVE Marked(s)[i] = u[i]
  <2>1. CASE i = 1
    BY <1>1, <1>3, <1>4, <2>1 DEF HasFront
  <2>2. CASE i # 1
    <3>1. i - 1 \in 1..Len(t) /\ i - 1 + 1 = i
      BY <1>1, <1>5, <2>2
    <3>2. s[i - 1 + 1] = t[i - 1]
      BY <1>1, <3>1 DEF HasFront
    <3>3. u[i - 1 + 1] = Marked(t)[i - 1]
      BY <1>2, <1>3, <3>1 DEF HasFront
    <3> QED
      BY <1>2, <1>4, <3>1, <3>2, <3>3
  <2> QED
    BY <2>1, <2>2
<1>7. Marked(s) = u
  <2>1. Marked(s) \in Seq(Letters) /\ Len(Marked(s)) = Len(u)
        /\ \A i \in 1..Len(Marked(s)) : Marked(s)[i] = u[i]
    BY <1>4, <1>5, <1>6
  <2> QED
    BY <1>3, <2>1, SeqEqual
<1> QED
  BY <1>7 DEF s, u

\* An address is a name of which nothing is decoded.
LEMMA AddressIsFlat ==
    ASSUME NEW name \in Names, \A i \in 1..Len(name) : name[i] # "euro"
    PROVE  Address(name) = Flat(Marked(name))
<1> DEFINE N == Len(name)
           B == {j \in 0..N : \A s \in Names :
                    (Len(s) = j /\ \A i \in 1..Len(s) : s[i] # "euro")
                        => Address(s) = Flat(Marked(s))}
<1>1. N \in Nat
  BY DEF Names
<1> HIDE DEF N
<1>2. 0 \in B
  <2>1. ASSUME NEW s \in Names, Len(s) = 0 PROVE Address(s) = Flat(Marked(s))
    <3>1. s = <<>>
      BY <2>1, EmptySeq DEF Names
    <3>2. Marked(s) = <<>>
      <4>1. Marked(s) \in Seq(Letters) /\ Len(Marked(s)) = 0
        BY <2>1, MarkedTyped
      <4> QED
        BY <4>1, EmptySeq
    <3>3. Address(<<>>) = <<>>
      <4>1. \A s1, c, by : Spelt(s1, c, by) = Replace(s1, <<c>>, by)
        BY DEF Spelt
      <4> QED
        BY <4>1, SpeltNothing, Zenon DEF Address, PercentEncode, EncodeURL
    <3> QED
      BY <3>1, <3>2, <3>3, FlatNothing
  <2> QED
    BY <1>1, <2>1
<1>3. ASSUME NEW j \in 1..N, j - 1 \in B PROVE j \in B
  <2>1. ASSUME NEW s \in Names, Len(s) = j, \A i \in 1..Len(s) : s[i] # "euro"
        PROVE  Address(s) = Flat(Marked(s))
    <3>1. s # <<>> /\ s \in Seq(Chars)
      BY <1>1, <2>1 DEF Names
    <3>2. PICK a \in Chars : \E t \in Seq(Chars) : s = Put(a, t)
      BY <3>1, FrontAndRest
    <3>3. PICK t \in Seq(Chars) : s = Put(a, t)
      BY <3>2
    <3>4. HasFront(s, a, t) /\ Len(t) \in Nat /\ t \in Names
      BY <3>3, Single DEF Names
    <3>5. Len(t) = j - 1 /\ 1 \in 1..Len(s) /\ \A i \in 1..Len(t) : i + 1 \in 1..Len(s)
      BY <1>1, <2>1, <3>4 DEF HasFront
    <3>6. \A i \in 1..Len(t) : t[i] # "euro"
      BY <2>1, <3>4, <3>5 DEF HasFront
    <3>7. Address(t) = Flat(Marked(t))
      BY <1>3, <3>4, <3>5, <3>6
    <3>8. a \in Chars \ {"euro"}
      BY <2>1, <3>4, <3>5 DEF HasFront
    <3>9. Address(s) = Join(Code(Mark(a)), Address(t))
      BY <3>3, <3>4, <3>8, AddressFront
    <3>10. Marked(s) = Put(Mark(a), Marked(t))
      BY <3>3, <3>4, MarkedFront
    <3>11. Flat(Put(Mark(a), Marked(t))) = Join(Code(Mark(a)), Flat(Marked(t)))
      <4>1. Mark(a) \in Letters /\ Marked(t) \in Seq(Letters)
        BY <3>4, MarkTyped, MarkedTyped
      <4> QED
        BY <4>1, FlatFront
    <3> QED
      BY <3>7, <3>9, <3>10, <3>11
  <2> QED
    BY <1>1, <2>1
<1> HIDE DEF B
<1>4. 0..N \subseteq B
  BY <1>1, <1>2, <1>3, SetInduction
<1>5. N \in B
  BY <1>1, <1>4
<1> QED
  BY <1>5 DEF B, N

-----------------------------------------------------------------------------
(* What stands in front *)

Begins(s, x, y) == Len(s) >= 3 /\ s[1] = "%" /\ s[2] = x /\ s[3] = y

\* What looks like the escape of a byte, but is none.
Looks(m, x, y) ==
    \E i \in 1..Len(m) : i + 2 <= Len(m) /\ m[i] = "%" /\ m[i + 1] = x /\ m[i + 2] = y

LEMMA LooksBehind ==
    ASSUME NEW a \in Letters, NEW t \in Seq(Letters), NEW x, NEW y, Looks(t, x, y)
    PROVE  Looks(Put(a, t), x, y)
<1> DEFINE s == Put(a, t)
<1>1. HasFront(s, a, t) /\ Len(t) \in Nat
  BY Single
<1> HIDE DEF s
<1>2. PICK i \in 1..Len(t) : i + 2 <= Len(t) /\ t[i] = "%" /\ t[i + 1] = x /\ t[i + 2] = y
  BY DEF Looks
<1>3. /\ i + 1 \in 1..Len(s) /\ i + 1 + 2 <= Len(s) /\ i + 1 \in 1..Len(t)
      /\ i + 2 \in 1..Len(t) /\ i + 1 + 1 = i + 2 /\ i + 1 + 2 = i + 2 + 1
  BY <1>1, <1>2 DEF HasFront
<1>4. s[i + 1] = t[i] /\ s[i + 1 + 1] = t[i + 1] /\ s[i + 2 + 1] = t[i + 2]
  BY <1>1, <1>3 DEF HasFront
<1> QED
  BY <1>2, <1>3, <1>4 DEF Looks, s

\* The codes of the marks, and where they begin.
LEMMA MarkCodes ==
    /\ Code("codedPercent") = Percent /\ Code("codedSpace") = Space
    /\ Code("codedEacute") = Two
    /\ \A a \in Marks : Len(Code(a)) >= 3 /\ Code(a)[1] = "%"
<1>1. /\ Code("codedPercent") = Percent /\ Code("codedSpace") = Space
      /\ Code("codedEacute") = Two
  BY DEF Code
<1>2. /\ Len(Percent) >= 3 /\ Percent[1] = "%" /\ Len(Space) >= 3 /\ Space[1] = "%"
      /\ Len(Two) >= 3 /\ Two[1] = "%"
  BY CodesAre
<1>3. \A a \in Marks : a = "codedPercent" \/ a = "codedSpace" \/ a = "codedEacute"
  BY DEF Marks
<1> QED
  BY <1>1, <1>2, <1>3, Zenon

\* The first letter is what the string begins with.
LEMMA FlatHead ==
    ASSUME NEW a \in Letters, NEW t \in Seq(Letters)
    PROVE  /\ Flat(Put(a, t)) \in Names /\ Flat(t) \in Names
           /\ a \notin Marks => a \in Chars /\ HasFront(Flat(Put(a, t)), a, Flat(t))
           /\ a \in Marks => HasParts(Flat(Put(a, t)), Code(a), Flat(t))
<1>1. Put(a, t) \in Seq(Letters)
  BY Single
<1>2. Flat(Put(a, t)) \in Names /\ Flat(t) \in Names
  BY <1>1, FlatTyped
<1>3. Flat(Put(a, t)) = Join(Code(a), Flat(t))
  BY FlatFront
<1>4. ASSUME a \notin Marks PROVE a \in Chars /\ HasFront(Flat(Put(a, t)), a, Flat(t))
  <2>1. a \in Chars
    BY <1>4 DEF Letters
  <2>2. a # "codedPercent" /\ a # "codedSpace" /\ a # "codedEacute"
    BY <1>4 DEF Marks
  <2>3. Code(a) = <<a>>
    BY <2>2, Zenon DEF Code
  <2>4. Join(<<a>>, Flat(t)) = Put(a, Flat(t))
    BY DEF Join, Put
  <2>5. HasFront(Put(a, Flat(t)), a, Flat(t))
    BY <1>2, <2>1, Single DEF Names
  <2> QED
    BY <1>3, <2>1, <2>3, <2>4, <2>5
<1>5. HasParts(Join(Code(a), Flat(t)), Code(a), Flat(t))
  BY <1>2, CodeTyped, JoinIs DEF Names
<1> QED
  BY <1>2, <1>3, <1>4, <1>5

\* What begins like an escape, and does not only look like one, is the code of a mark.
LEMMA BeginsWithMark ==
    ASSUME NEW a \in Letters, NEW t \in Seq(Letters), NEW x \in Hex, NEW y \in Hex,
           ~Looks(Put(a, t), x, y), Begins(Flat(Put(a, t)), x, y)
    PROVE  a \in Marks /\ Begins(Code(a), x, y)
<1> DEFINE m == Put(a, t)
<1>1. x # "%" /\ y # "%" /\ x \in Chars /\ y \in Chars
  BY LettersAre DEF Hex, Digits
<1>2. HasFront(m, a, t) /\ Len(t) \in Nat
  BY Single
<1>3. /\ Flat(m) \in Names /\ Flat(t) \in Names
      /\ a \notin Marks => a \in Chars /\ HasFront(Flat(m), a, Flat(t))
      /\ a \in Marks => HasParts(Flat(m), Code(a), Flat(t))
  BY FlatHead
<1>4. Begins(Flat(m), x, y) /\ ~Looks(m, x, y)
  OBVIOUS
<1> HIDE DEF m
<1>5. CASE a \in Marks
  <2>1. Len(Code(a)) >= 3
    BY <1>5, MarkCodes
  <2>2. /\ Flat(m)[1] = Code(a)[1] /\ Flat(m)[2] = Code(a)[2] /\ Flat(m)[3] = Code(a)[3]
    <3>1. Len(Code(a)) \in Nat
      BY CodeTyped
    <3> QED
      BY <1>3, <1>5, <2>1, <3>1 DEF HasParts
  <2> QED
    BY <1>4, <1>5, <2>1, <2>2 DEF Begins
<1>6. CASE a \notin Marks
  \* The first character of a string that is not an escape.
  <2>1. ASSUME NEW s \in Seq(Letters), Len(Flat(s)) >= 1, Flat(s)[1] # "%"
        PROVE  \E b \in Chars : \E r \in Seq(Letters) :
                  s = Put(b, r) /\ b = Flat(s)[1] /\ HasFront(Flat(s), b, Flat(r))
    <3>1. s # <<>>
      BY <2>1, FlatNothing
    <3>2. PICK b \in Letters : \E r \in Seq(Letters) : s = Put(b, r)
      BY <3>1, FrontAndRest
    <3>3. PICK r \in Seq(Letters) : s = Put(b, r)
      BY <3>2
    <3>4. /\ b \notin Marks => b \in Chars /\ HasFront(Flat(s), b, Flat(r))
          /\ b \in Marks => HasParts(Flat(s), Code(b), Flat(r))
      BY <3>3, FlatHead
    <3>5. b \notin Marks
      <4>1. SUFFICES ASSUME b \in Marks PROVE FALSE
        OBVIOUS
      <4>2. Len(Code(b)) >= 3 /\ Code(b)[1] = "%"
        BY <4>1, MarkCodes
      <4>3. Len(Code(b)) \in Nat
        BY CodeTyped
      <4>4. Flat(s)[1] = Code(b)[1]
        BY <3>4, <4>1, <4>2, <4>3 DEF HasParts
      <4> QED
        BY <2>1, <4>2, <4>4
    <3> QED
      BY <3>3, <3>4, <3>5 DEF HasFront
  <2>2. /\ a = "%" /\ Len(Flat(t)) >= 2 /\ Flat(t)[1] = x /\ Flat(t)[2] = y
    <3>1. /\ Len(Flat(m)) = Len(Flat(t)) + 1 /\ Flat(m)[1] = a
          /\ \A i \in 1..Len(Flat(t)) : Flat(m)[i + 1] = Flat(t)[i]
      BY <1>3, <1>6 DEF HasFront
    <3>2. Len(Flat(t)) \in Nat
      BY <1>3 DEF Names
    <3>3. /\ Len(Flat(m)) >= 3 /\ Flat(m)[1] = "%" /\ Flat(m)[2] = x /\ Flat(m)[3] = y
      BY <1>4 DEF Begins
    <3>4. 1 \in 1..Len(Flat(t)) /\ 2 \in 1..Len(Flat(t)) /\ 1 + 1 = 2 /\ 2 + 1 = 3
      BY <3>1, <3>2, <3>3
    <3>5. Flat(m)[1 + 1] = Flat(t)[1] /\ Flat(m)[2 + 1] = Flat(t)[2]
      BY <3>1, <3>4
    <3> QED
      BY <3>1, <3>2, <3>3, <3>5
  <2>3. PICK b \in Chars : \E r \in Seq(Letters) :
           t = Put(b, r) /\ b = Flat(t)[1] /\ HasFront(Flat(t), b, Flat(r))
    BY <1>1, <2>1, <2>2
  <2>4. PICK r \in Seq(Letters) :
           t = Put(b, r) /\ b = Flat(t)[1] /\ HasFront(Flat(t), b, Flat(r))
    BY <2>3
  <2>5. Len(Flat(r)) >= 1 /\ Flat(r)[1] = y
    <3>1. Len(Flat(r)) \in Nat
      BY FlatTyped DEF Names
    <3>2. Len(Flat(t)) = Len(Flat(r)) + 1
      BY <2>4 DEF HasFront
    <3>3. 1 \in 1..Len(Flat(r)) /\ 1 + 1 = 2
      BY <2>2, <3>1, <3>2
    <3>4. Flat(t)[1 + 1] = Flat(r)[1]
      BY <2>4, <3>3 DEF HasFront
    <3> QED
      BY <2>2, <3>3, <3>4
  <2>6. PICK c \in Chars : \E q \in Seq(Letters) :
           r = Put(c, q) /\ c = Flat(r)[1] /\ HasFront(Flat(r), c, Flat(q))
    BY <1>1, <2>1, <2>5
  <2>7. PICK q \in Seq(Letters) : r = Put(c, q)
    BY <2>6
  <2>8. b \in Letters /\ c \in Letters /\ b = x /\ c = y
    BY <2>2, <2>4, <2>5, <2>6, LettersAre
  <2>9. HasFront(t, b, r) /\ HasFront(r, c, q) /\ Len(q) \in Nat
    BY <2>4, <2>7, <2>8, Single
  <2>10. /\ Len(m) >= 3 /\ m[1] = "%" /\ m[1 + 1] = t[1] /\ m[2 + 1] = t[1 + 1]
         /\ t[1 + 1] = r[1]
    <3>1. Len(r) = Len(q) + 1 /\ Len(t) = Len(r) + 1 /\ Len(m) = Len(t) + 1
      BY <1>2, <2>9 DEF HasFront
    <3>2. 1 \in 1..Len(t) /\ 2 \in 1..Len(t) /\ 1 \in 1..Len(r) /\ 1 + 1 = 2 /\ Len(m) >= 3
      BY <2>9, <3>1
    <3> QED
      BY <1>2, <2>2, <2>9, <3>2 DEF HasFront
  <2>11. 1 \in 1..Len(m) /\ 1 + 2 <= Len(m) /\ m[1] = "%" /\ m[1 + 1] = x /\ m[1 + 2] = y
    BY <2>8, <2>9, <2>10 DEF HasFront
  <2>12. Looks(m, x, y)
    BY <2>11 DEF Looks
  <2> QED
    BY <1>4, <2>12
<1> QED
  BY <1>5, <1>6

-----------------------------------------------------------------------------
(* Replacing what one or two marks are written with *)

LEMMA ReplaceNames ==
    \A z \in Names, w \in Names, by \in Names : w # <<>> => Replace(z, w, by) \in Names
<1> SUFFICES ASSUME NEW z \in Names, NEW w \in Names, NEW by \in Names, w # <<>>
             PROVE  Replace(z, w, by) \in Names
  OBVIOUS
<1>1. Len(w) \in Nat \ {0}
  BY EmptySeq DEF Names
<1>2. \A c \in Chars : c \in Chars \/ w = <<c>>
  OBVIOUS
<1>3. z \in Seq(Chars) /\ by \in Seq(Chars)
  BY DEF Names
<1> QED
  BY <1>1, <1>2, <1>3, ReplaceTyped DEF Names

\* Where w begins with a percent sign, another character stays.
LEMMA PassedOne ==
    ASSUME NEW c \in Chars, NEW z \in Names, NEW w \in Names, w # <<>>, NEW by,
           ~Found(Put(c, z), w, 1)
    PROVE  Replace(Put(c, z), w, by) = Put(c, Replace(z, w, by))
BY ReplacePassed DEF Put, Names

LEMMA NotFoundThere ==
    ASSUME NEW c \in Chars, NEW z \in Names, NEW w \in Names, w # <<>>, w[1] # c
    PROVE  ~Found(Put(c, z), w, 1)
<1> DEFINE s == Put(c, z)
<1>1. s \in Seq(Chars) /\ HasFront(s, c, z) /\ Len(z) \in Nat
  BY Single DEF Names
<1> HIDE DEF s
<1>2. Len(w) \in Nat \ {0} /\ w \in Seq(Chars)
  BY EmptySeq DEF Names
<1>3. 1 \in 1..(Len(s) + 1) /\ 1 \in 1..Len(w) /\ 1 + 1 - 1 = 1
  BY <1>1, <1>2
<1>4. Found(s, w, 1) <=> Stands(s, w, 1)
  BY <1>1, <1>2, <1>3, FoundIs, Zenon
<1>5. s[1] = c
  BY <1>1 DEF HasFront
<1>6. ~Stands(s, w, 1)
  BY <1>3, <1>5 DEF Stands
<1> QED
  BY <1>4, <1>6 DEF s

\* The three characters of an escape.
LEMMA EscapeJoined ==
    ASSUME NEW x \in Chars, NEW y \in Chars, NEW z \in Names
    PROVE  Join(Escape(<<x, y>>), z) = Put("%", Put(x, Put(y, z)))
<1> DEFINE a == <<"%">>
           b == <<x>>
           c == <<y>>
<1>1. a \in Seq(Chars) /\ b \in Seq(Chars) /\ c \in Seq(Chars) /\ z \in Seq(Chars)
  BY LettersAre, OneIn DEF Names
<1>2. <<x, y>> = b \o c
  <2> DEFINE both == <<x, y>>
  <2>1. /\ both \in Seq(Chars) /\ Len(both) = 2 /\ both[1] = x /\ both[2] = y
        /\ Len(b) = 1 /\ Len(c) = 1 /\ b[1] = x /\ c[1] = y
    OBVIOUS
  <2> HIDE DEF both, b, c
  <2>2. b \o c \in Seq(Chars) /\ HasParts(b \o c, b, c)
    BY <1>1, JoinIs DEF Join
  <2>3. Len(b \o c) = 2 /\ (b \o c)[1] = x /\ (b \o c)[2] = y
    <3>1. 1 \in 1..Len(b) /\ 1 \in 1..Len(c) /\ Len(b) + 1 = 2
      BY <2>1
    <3> QED
      BY <2>1, <2>2, <3>1 DEF HasParts
  <2>4. \A i \in 1..Len(both) : both[i] = (b \o c)[i]
    <3>1. \A i \in 1..Len(both) : i = 1 \/ i = 2
      BY <2>1
    <3> QED
      BY <2>1, <2>3, <3>1
  <2>5. both = b \o c
    BY <2>1, <2>2, <2>3, <2>4, SeqEqual
  <2> QED
    BY <2>5 DEF both
<1>3. Escape(<<x, y>>) = Join(a, Join(b, c))
  BY <1>2 DEF Escape, Join
<1>4. \A s : Put("%", s) = Join(a, s) /\ Put(x, s) = Join(b, s) /\ Put(y, s) = Join(c, s)
  BY DEF Put, Join
<1> HIDE DEF a, b, c
<1>5. Join(b, c) \in Seq(Chars)
  BY <1>1, JoinIs
<1>6. Join(Join(a, Join(b, c)), z) = Join(a, Join(Join(b, c), z))
  BY <1>1, <1>5, JoinAssociative
<1>7. Join(Join(b, c), z) = Join(b, Join(c, z))
  BY <1>1, JoinAssociative
<1> QED
  BY <1>3, <1>4, <1>6, <1>7

LEMMA PassedEscape ==
    ASSUME NEW x \in Hex, NEW y \in Hex, NEW z \in Names, NEW w \in Names, w # <<>>,
           w[1] = "%", NEW by \in Names, ~Found(Join(Escape(<<x, y>>), z), w, 1)
    PROVE  Replace(Join(Escape(<<x, y>>), z), w, by) = Join(Escape(<<x, y>>), Replace(z, w, by))
<1>1. x \in Chars /\ y \in Chars /\ "%" \in Chars /\ x # "%" /\ y # "%"
  BY LettersAre DEF Hex, Digits
<1> DEFINE z1 == Put(y, z)
           z2 == Put(x, z1)
<1>2. z1 \in Names
  BY <1>1, Single DEF Names
<1>3. Replace(z1, w, by) = Put(y, Replace(z, w, by))
  <2>1. ~Found(z1, w, 1)
    BY <1>1, NotFoundThere
  <2> QED
    BY <1>1, <2>1, PassedOne
<1>4. Join(Escape(<<x, y>>), z) = Put("%", z2)
  BY <1>1, EscapeJoined
<1> HIDE DEF z1
<1>5. z2 \in Names
  BY <1>1, <1>2, Single DEF Names
<1>6. Replace(z2, w, by) = Put(x, Replace(z1, w, by))
  <2>1. ~Found(z2, w, 1)
    BY <1>1, <1>2, NotFoundThere
  <2> QED
    BY <1>1, <1>2, <2>1, PassedOne
<1> HIDE DEF z2
<1>7. Replace(Put("%", z2), w, by) = Put("%", Replace(z2, w, by))
  BY <1>1, <1>4, <1>5, PassedOne
<1> DEFINE r == Replace(z, w, by)
<1>8. r \in Names
  BY ReplaceNames
<1> HIDE DEF r
<1>9. Join(Escape(<<x, y>>), r) = Put("%", Put(x, Put(y, r)))
  BY <1>1, <1>8, EscapeJoined
<1> QED
  BY <1>3, <1>4, <1>6, <1>7, <1>9 DEF r

\* The two escapes of "eacute".
LEMMA TwoIs == Two = Join(Escape(<<"C", "3">>), Escape(<<"A", "9">>))
<1>1. TwoBytes[1] = <<"C", "3">> /\ TwoBytes[2] = <<"A", "9">>
  BY DEF TwoBytes
<1> QED
  BY <1>1, Zenon DEF Two, Join

LEMMA EscapeIn ==
    ASSUME NEW x \in Hex, NEW y \in Hex
    PROVE  Escape(<<x, y>>) \in Names
<1>1. x \in Chars /\ y \in Chars /\ "%" \in Chars
  BY LettersAre
<1>2. <<"%">> \in Seq(Chars) /\ <<x, y>> \in Seq(Chars)
  BY <1>1
<1> QED
  BY <1>2, ConcatProperties DEF Escape, Names

\* What a letter is written with stays, where nothing is found in front of it.
LEMMA PassedCode ==
    ASSUME NEW a \in Letters, NEW z \in Names, NEW w \in Names, w # <<>>, w[1] = "%",
           Len(w) >= 3, a = "codedEacute" => w[2] # "A", NEW by \in Names,
           ~Found(Join(Code(a), z), w, 1)
    PROVE  Replace(Join(Code(a), z), w, by) = Join(Code(a), Replace(z, w, by))
<1>0. /\ "2" \in Hex /\ "5" \in Hex /\ "0" \in Hex /\ "C" \in Hex /\ "3" \in Hex
      /\ "A" \in Hex /\ "9" \in Hex
  BY DEF Hex, Digits
<1>1. CASE a = "codedPercent"
  <2>1. Code(a) = Escape(<<"2", "5">>)
    BY <1>1, MarkCodes DEF Percent
  <2> QED
    BY <1>0, <2>1, PassedEscape
<1>2. CASE a = "codedSpace"
  <2>1. Code(a) = Escape(<<"2", "0">>)
    BY <1>2, MarkCodes DEF Space
  <2> QED
    BY <1>0, <2>1, PassedEscape
<1>3. CASE a = "codedEacute"
  <2> DEFINE p == Escape(<<"C", "3">>)
             q == Escape(<<"A", "9">>)
             qz == Join(q, z)
             r == Replace(z, w, by)
  <2>1. Code(a) = Join(p, q)
    BY <1>3, MarkCodes, TwoIs
  <2>2. p \in Seq(Chars) /\ q \in Seq(Chars) /\ z \in Seq(Chars) /\ r \in Seq(Chars)
    BY <1>0, EscapeIn, ReplaceNames DEF Names
  <2>3. qz = Put("%", Put("A", Put("9", z)))
    BY EscapeJoined, LettersAre, <1>0
  <2>4. ~Found(qz, w, 1)
    <3> DEFINE t2 == Put("9", z)
               t1 == Put("A", t2)
    <3>1. t2 \in Seq(Chars)
      BY <1>0, LettersAre, Single DEF Names
    <3>2. t1 \in Seq(Chars) /\ HasFront(t1, "A", t2) /\ "A" \in Chars
      <4>1. "A" \in Chars
        BY <1>0, LettersAre
      <4> HIDE DEF t2
      <4> QED
        BY <3>1, <4>1, Single
    <3>3. Put("%", t1) \in Seq(Chars) /\ HasFront(Put("%", t1), "%", t1) /\ "%" \in Chars
      <4>1. "%" \in Chars
        BY LettersAre
      <4> HIDE DEF t1
      <4> QED
        BY <3>2, <4>1, Single
    <3>4. qz = Put("%", t1)
      BY <2>3
    <3> HIDE DEF t1, t2, qz
    <3>5. qz[2] = "A"
      <4>1. 1 \in 1..Len(t1) /\ 1 + 1 = 2
        BY <3>1, <3>2 DEF HasFront
      <4>2. Put("%", t1)[1 + 1] = t1[1]
        BY <3>3, <4>1 DEF HasFront
      <4> QED
        BY <3>2, <3>4, <4>1, <4>2 DEF HasFront
    <3>6. qz \in Seq(Chars) /\ w \in Seq(Chars) /\ 1 \in 1..(Len(qz) + 1)
      BY <3>3, <3>4 DEF Names
    <3>7. Found(qz, w, 1) <=> Stands(qz, w, 1)
      BY <3>6, FoundIs, Zenon
    <3>8. 2 \in 1..Len(w) /\ 1 + 2 - 1 = 2
      BY <3>6
    <3> QED
      BY <1>3, <3>5, <3>7, <3>8 DEF Stands
  <2>5. Replace(qz, w, by) = Join(q, r)
    BY <1>0, <2>4, PassedEscape
  <2>6. qz \in Names
    BY <2>2, JoinIs DEF Names
  <2>7. Join(Code(a), z) = Join(p, qz)
    <3> HIDE DEF p, q
    <3> QED
      BY <2>1, <2>2, JoinAssociative
  <2>8. Replace(Join(p, qz), w, by) = Join(p, Replace(qz, w, by))
    <3> HIDE DEF qz
    <3> QED
      BY <1>0, <2>6, <2>7, PassedEscape
  <2>9. Join(Join(p, q), r) = Join(p, Join(q, r))
    <3> HIDE DEF p, q, r
    <3> QED
      BY <2>2, JoinAssociative
  <2> QED
    BY <2>1, <2>5, <2>7, <2>8, <2>9
<1>4. CASE a # "codedPercent" /\ a # "codedSpace" /\ a # "codedEacute"
  <2>1. a \in Chars
    BY <1>4 DEF Letters, Marks
  <2>2. Code(a) = <<a>>
    BY <1>4, Zenon DEF Code
  <2>3. \A s : Join(Code(a), s) = Put(a, s)
    BY <2>2 DEF Join, Put
  <2> QED
    BY <2>1, <2>3, PassedOne
<1> QED
  BY <1>1, <1>2, <1>3, <1>4

-----------------------------------------------------------------------------
(* A name of which more is decoded *)

\* The character that a mark stands for.
Plain(a) ==
    CASE a = "codedPercent" -> "%" [] a = "codedSpace" -> "space"
      [] a = "codedEacute" -> "eacute" [] OTHER -> a

\* Some marks of m are decoded in r, and none of Gone is left.
Decoded(m, r, Gone) ==
    /\ r \in Seq(Letters) /\ Len(r) = Len(m)
    /\ \A i \in 1..Len(m) : r[i] \in {m[i], Plain(m[i])} /\ r[i] \notin Gone

LEMMA PlainIs ==
    \A a \in Letters :
        /\ Plain(a) \in Chars \/ Plain(a) = a
        /\ Plain(a) \in Chars /\ Plain(a) \notin Marks
        /\ Plain(a) \in Letters /\ Plain(Plain(a)) = Plain(a)
<1> SUFFICES ASSUME NEW a \in Letters
             PROVE  Plain(a) \in Chars /\ Plain(Plain(a)) = Plain(a)
  BY LettersAre
<1>1. "%" \in Chars /\ "space" \in Chars /\ "eacute" \in Chars
  BY LettersAre
<1>2. Plain("%") = "%" /\ Plain("space") = "space" /\ Plain("eacute") = "eacute"
  BY DEF Plain
<1>3. CASE a = "codedPercent" \/ a = "codedSpace" \/ a = "codedEacute"
  BY <1>1, <1>2, <1>3 DEF Plain
<1>4. CASE ~(a = "codedPercent" \/ a = "codedSpace" \/ a = "codedEacute")
  <2>1. Plain(a) = a
    BY <1>4, Zenon DEF Plain
  <2>2. a \in Chars
    BY <1>4 DEF Letters, Marks
  <2> QED
    BY <2>1, <2>2
<1> QED
  BY <1>3, <1>4

LEMMA DecodedNothing == \A Gone : Decoded(<<>>, <<>>, Gone)
<1>1. <<>> \in Seq(Letters) /\ Len(<<>>) = 0 /\ \A i \in 1..0 : FALSE
  OBVIOUS
<1> QED
  BY <1>1 DEF Decoded

LEMMA DecodedStays ==
    ASSUME NEW m \in Seq(Letters), NEW Gone, \A i \in 1..Len(m) : m[i] \notin Gone
    PROVE  Decoded(m, m, Gone)
BY DEF Decoded

LEMMA DecodedOn ==
    ASSUME NEW m \in Seq(Letters), NEW r, NEW s, NEW Gone, NEW gone,
           Decoded(m, r, gone), Decoded(r, s, Gone)
    PROVE  Decoded(m, s, Gone)
<1>1. /\ Len(r) = Len(m) /\ s \in Seq(Letters) /\ Len(s) = Len(r)
      /\ \A i \in 1..Len(m) : r[i] \in {m[i], Plain(m[i])}
      /\ \A i \in 1..Len(r) : s[i] \in {r[i], Plain(r[i])} /\ s[i] \notin Gone
  BY DEF Decoded
<1>2. ASSUME NEW i \in 1..Len(m) PROVE s[i] \in {m[i], Plain(m[i])} /\ s[i] \notin Gone
  <2>1. m[i] \in Letters
    OBVIOUS
  <2>2. Plain(Plain(m[i])) = Plain(m[i])
    BY <2>1, PlainIs
  <2>3. r[i] = m[i] \/ r[i] = Plain(m[i])
    BY <1>1
  <2>4. (s[i] = r[i] \/ s[i] = Plain(r[i])) /\ s[i] \notin Gone
    BY <1>1
  <2> QED
    BY <2>2, <2>3, <2>4
<1> QED
  BY <1>1, <1>2 DEF Decoded

LEMMA DecodedJoined ==
    ASSUME NEW p \in Seq(Letters), NEW q \in Seq(Letters), NEW r, NEW s, NEW Gone,
           Decoded(p, r, Gone), Decoded(q, s, Gone)
    PROVE  Decoded(Join(p, q), Join(r, s), Gone)
<1>1. /\ r \in Seq(Letters) /\ s \in Seq(Letters) /\ Len(r) = Len(p) /\ Len(s) = Len(q)
      /\ Len(p) \in Nat /\ Len(q) \in Nat
      /\ \A i \in 1..Len(p) : r[i] \in {p[i], Plain(p[i])} /\ r[i] \notin Gone
      /\ \A i \in 1..Len(q) : s[i] \in {q[i], Plain(q[i])} /\ s[i] \notin Gone
  BY DEF Decoded
<1> DEFINE m == Join(p, q)
           t == Join(r, s)
<1>2. m \in Seq(Letters) /\ HasParts(m, p, q) /\ t \in Seq(Letters) /\ HasParts(t, r, s)
  BY <1>1, JoinIs
<1> HIDE DEF m, t
<1>3. /\ Len(m) = Len(p) + Len(q) /\ Len(t) = Len(m)
      /\ \A i \in 1..Len(p) : m[i] = p[i] /\ t[i] = r[i]
      /\ \A i \in 1..Len(q) : m[Len(p) + i] = q[i] /\ t[Len(p) + i] = s[i]
  BY <1>1, <1>2 DEF HasParts
<1>4. ASSUME NEW i \in 1..Len(m) PROVE t[i] \in {m[i], Plain(m[i])} /\ t[i] \notin Gone
  <2>1. CASE i <= Len(p)
    <3>1. i \in 1..Len(p)
      BY <1>1, <1>3, <2>1
    <3> QED
      BY <1>1, <1>3, <3>1
  <2>2. CASE ~(i <= Len(p))
    <3> DEFINE k == i - Len(p)
    <3>1. k \in 1..Len(q) /\ Len(p) + k = i
      BY <1>1, <1>3, <2>2
    <3> HIDE DEF k
    <3> QED
      BY <1>1, <1>3, <3>1
  <2> QED
    BY <2>1, <2>2
<1> QED
  BY <1>2, <1>3, <1>4 DEF Decoded, m, t

\* What is found in front of a name of G is x, and what is not stays as it is.
EndsStay(G) == \A p, u \in Seq(Letters) : Join(p, u) \in G => u \in G
IsWrittenFor(G, w, x) ==
    \A a \in Letters, t \in Seq(Letters) :
        (Put(a, t) \in G /\ Found(Flat(Put(a, t)), w, 1))
            => w = Flat(x) /\ \E u \in Seq(Letters) : Put(a, t) = Join(x, u)
IsPassed(G, w, Gone) ==
    \A a \in Letters, t \in Seq(Letters) :
        (Put(a, t) \in G /\ ~Found(Flat(Put(a, t)), w, 1))
            => a \notin Gone /\ (a = "codedEacute" => w[2] # "A")

\* Where w stands only for x, putting y in its place decodes.
LEMMA ReplaceDecodes ==
    ASSUME NEW G \in SUBSET Seq(Letters), NEW x \in Seq(Letters), x # <<>>, NEW y,
           NEW Gone, Decoded(x, y, Gone), NEW w \in Names, Len(w) >= 3, w[1] = "%",
           EndsStay(G), IsWrittenFor(G, w, x), IsPassed(G, w, Gone)
    PROVE  \A m \in G : \E r : Decoded(m, r, Gone) /\ Replace(Flat(m), w, Flat(y)) = Flat(r)
<1> SUFFICES ASSUME NEW m0 \in G
             PROVE  \E r : Decoded(m0, r, Gone) /\ Replace(Flat(m0), w, Flat(y)) = Flat(r)
  OBVIOUS
<1> DEFINE R(s) == Replace(s, w, Flat(y))
           Good(m) == \E r : Decoded(m, r, Gone) /\ R(Flat(m)) = Flat(r)
           N == Len(m0)
           B == {j \in 0..N : \A m \in G : Len(m) <= j => Good(m)}
<1>1. /\ N \in Nat /\ w # <<>> /\ Len(w) \in Nat \ {0}
      /\ y \in Seq(Letters) /\ Flat(y) \in Names
  <2>1. w # <<>>
    BY EmptySeq
  <2>2. y \in Seq(Letters)
    BY DEF Decoded
  <2> QED
    BY <2>1, <2>2, FlatTyped DEF Names
<1>2. Good(<<>>)
  <2>1. R(<<>>) = <<>>
    BY <1>1, ReplaceNothing
  <2> HIDE DEF R
  <2> QED
    BY <2>1, DecodedNothing, FlatNothing
<1> HIDE DEF N
<1>3. 0 \in B
  <2>1. ASSUME NEW m \in G, Len(m) <= 0 PROVE m = <<>>
    BY <2>1, EmptySeq
  <2>2. 0 \in 0..N
    BY <1>1
  <2> HIDE DEF Good
  <2>3. \A m \in G : Len(m) <= 0 => Good(m)
    BY <1>2, <2>1
  <2> QED
    BY <2>2, <2>3
<1>4. ASSUME NEW j \in 1..N, j - 1 \in B PROVE j \in B
  <2>1. ASSUME NEW m \in G, Len(m) <= j, m # <<>> PROVE Good(m)
    <3>1. PICK a \in Letters : \E t \in Seq(Letters) : m = Put(a, t)
      BY <2>1, FrontAndRest
    <3>2. PICK t \in Seq(Letters) : m = Put(a, t)
      BY <3>1
    <3>3. CASE Found(Flat(m), w, 1)
      <4>1. w = Flat(x) /\ \E u \in Seq(Letters) : m = Join(x, u)
        BY <3>2, <3>3 DEF IsWrittenFor
      <4>2. PICK u \in Seq(Letters) : m = Join(x, u)
        BY <4>1
      <4>3. u \in G /\ Len(u) <= j - 1
        <5>1. u \in G
          BY <4>2 DEF EndsStay
        <5>2. Len(m) = Len(x) + Len(u) /\ Len(x) \in Nat \ {0} /\ Len(u) \in Nat
          <6>1. HasParts(m, x, u)
            BY <4>2, JoinIs
          <6> QED
            BY <6>1, EmptySeq DEF HasParts
        <5> QED
          BY <1>1, <2>1, <5>1, <5>2
      <4>4. PICK r : Decoded(u, r, Gone) /\ R(Flat(u)) = Flat(r)
        BY <1>4, <4>3
      <4>5. Decoded(m, Join(y, r), Gone)
        BY <4>2, <4>4, DecodedJoined
      <4>6. Flat(m) = Join(w, Flat(u))
        BY <4>1, <4>2, FlatJoined
      <4>7. R(Join(w, Flat(u))) = Join(Flat(y), R(Flat(u)))
        <5> DEFINE z == Flat(u)
        <5>1. z \in Names
          BY FlatTyped
        <5> HIDE DEF z
        <5>2. Replace(w \o z, w, Flat(y)) = Flat(y) \o Replace(z, w, Flat(y))
          BY <1>1, <5>1, ReplaceFound DEF Names
        <5> QED
          BY <5>2 DEF Join, z
      <4>8. Flat(Join(y, r)) = Join(Flat(y), Flat(r))
        <5>1. r \in Seq(Letters)
          BY <4>4 DEF Decoded
        <5> QED
          BY <1>1, <5>1, FlatJoined
      <4>9. R(Flat(m)) = Flat(Join(y, r))
        <5> HIDE DEF R
        <5> QED
          BY <4>4, <4>6, <4>7, <4>8
      <4> QED
        BY <4>5, <4>9
    <3>4. CASE ~Found(Flat(m), w, 1)
      <4>1. a \notin Gone /\ (a = "codedEacute" => w[2] # "A")
        BY <3>2, <3>4 DEF IsPassed
      <4>2. m = Join(<<a>>, t) /\ <<a>> \in Seq(Letters) /\ HasFront(m, a, t)
        <5>1. m = Join(<<a>>, t)
          BY <3>2 DEF Put, Join
        <5> QED
          BY <3>2, <5>1, OneIn, Single
      <4>3. t \in G /\ Len(t) <= j - 1
        <5> DEFINE one == <<a>>
        <5>1. one \in Seq(Letters) /\ m = Join(one, t)
          BY <4>2
        <5> HIDE DEF one
        <5>2. t \in G
          BY <5>1 DEF EndsStay
        <5>3. Len(m) = Len(t) + 1 /\ Len(t) \in Nat
          BY <4>2 DEF HasFront
        <5> QED
          BY <1>1, <2>1, <5>2, <5>3
      <4>4. PICK r : Decoded(t, r, Gone) /\ R(Flat(t)) = Flat(r)
        BY <1>4, <4>3
      <4>5. Decoded(m, Put(a, r), Gone)
        <5> DEFINE one == <<a>>
        <5>1. one \in Seq(Letters) /\ m = Join(one, t) /\ Put(a, r) = Join(one, r)
              /\ \A i \in 1..Len(one) : one[i] = a
          BY <4>2 DEF Put, Join
        <5> HIDE DEF one
        <5>2. Decoded(one, one, Gone)
          BY <4>1, <5>1, DecodedStays
        <5> QED
          BY <4>4, <5>1, <5>2, DecodedJoined
      <4>6. r \in Seq(Letters)
        BY <4>4 DEF Decoded
      <4>7. Flat(m) = Join(Code(a), Flat(t)) /\ Flat(Put(a, r)) = Join(Code(a), Flat(r))
        BY <3>2, <4>6, FlatFront
      <4>8. R(Join(Code(a), Flat(t))) = Join(Code(a), R(Flat(t)))
        <5> DEFINE z == Flat(t)
        <5>1. z \in Names /\ ~Found(Join(Code(a), z), w, 1)
          BY <3>4, <4>7, FlatTyped
        <5> HIDE DEF z
        <5>2. Replace(Join(Code(a), z), w, Flat(y)) = Join(Code(a), Replace(z, w, Flat(y)))
          BY <1>1, <4>1, <5>1, PassedCode
        <5> QED
          BY <5>2 DEF z
      <4>9. R(Flat(m)) = Flat(Put(a, r))
        <5> HIDE DEF R
        <5> QED
          BY <4>4, <4>7, <4>8
      <4> QED
        BY <4>5, <4>9
    <3> QED
      BY <3>3, <3>4
  <2> HIDE DEF Good
  <2>2. \A m \in G : Len(m) <= j => Good(m)
    BY <1>2, <2>1
  <2>3. j \in 0..N
    BY <1>1
  <2> QED
    BY <2>2, <2>3
<1> HIDE DEF B
<1>5. 0..N \subseteq B
  BY <1>1, <1>3, <1>4, SetInduction
<1>6. N \in B /\ N <= N
  BY <1>1, <1>5
<1>7. Good(m0)
  <2> HIDE DEF Good
  <2> QED
    BY <1>6 DEF B, N
<1> QED
  BY <1>7

-----------------------------------------------------------------------------
(* The three ways to decode *)

\* What looks like the first escape of a mark, but is none.
LooksLike(m, c) == Looks(m, Code(c)[2], Code(c)[3])

LEMMA BytesAre ==
    /\ Code("codedPercent")[2] = "2" /\ Code("codedPercent")[3] = "5"
    /\ Code("codedSpace")[2] = "2" /\ Code("codedSpace")[3] = "0"
    /\ Code("codedEacute")[2] = "C" /\ Code("codedEacute")[3] = "3"
    /\ Len(Code("codedPercent")) = 3 /\ Len(Code("codedSpace")) = 3
    /\ Len(Code("codedEacute")) = 6
    /\ Code("codedEacute")[4] = "%" /\ Code("codedEacute")[5] = "A"
    /\ Code("codedEacute")[6] = "9"
    /\ \A c \in Marks : Code(c)[2] \in Hex /\ Code(c)[3] \in Hex /\ Code(c)[2] # "A"
    /\ \A c \in Marks : Code(c)[1] = "%" /\ Len(Code(c)) >= 3
    /\ \A c, d \in Marks : (Code(c)[2] = Code(d)[2] /\ Code(c)[3] = Code(d)[3]) => c = d
<1>1. /\ Code("codedPercent")[2] = "2" /\ Code("codedPercent")[3] = "5"
      /\ Code("codedSpace")[2] = "2" /\ Code("codedSpace")[3] = "0"
      /\ Code("codedEacute")[2] = "C" /\ Code("codedEacute")[3] = "3"
      /\ Len(Code("codedPercent")) = 3 /\ Len(Code("codedSpace")) = 3
      /\ Len(Code("codedEacute")) = 6
      /\ Code("codedEacute")[4] = "%" /\ Code("codedEacute")[5] = "A"
      /\ Code("codedEacute")[6] = "9"
  BY CodesAre, MarkCodes
<1>2. /\ "2" \in Hex /\ "5" \in Hex /\ "0" \in Hex /\ "C" \in Hex /\ "3" \in Hex
  BY DEF Hex, Digits
<1>3. \A c \in Marks : Code(c)[2] \in Hex /\ Code(c)[3] \in Hex /\ Code(c)[2] # "A"
  BY <1>1, <1>2 DEF Marks
<1>4. \A c, d \in Marks : (Code(c)[2] = Code(d)[2] /\ Code(c)[3] = Code(d)[3]) => c = d
  BY <1>1 DEF Marks
<1> QED
  BY <1>1, <1>3, <1>4, MarkCodes

LEMMA FoundBegins ==
    ASSUME NEW s \in Names, NEW w \in Names, Len(w) >= 3, w[1] = "%", Found(s, w, 1)
    PROVE  Begins(s, w[2], w[3]) /\ Stands(s, w, 1)
<1>1. s \in Seq(Chars) /\ w \in Seq(Chars) /\ 1 \in 1..(Len(s) + 1)
  BY DEF Names
<1>2. Stands(s, w, 1)
  <2>1. Found(s, w, 1) <=> Stands(s, w, 1)
    BY <1>1, FoundIs, Zenon
  <2> QED
    BY <2>1
<1>3. /\ 1 \in 1..Len(w) /\ 2 \in 1..Len(w) /\ 3 \in 1..Len(w)
      /\ 1 + 1 - 1 = 1 /\ 1 + 2 - 1 = 2 /\ 1 + 3 - 1 = 3
  BY <1>1
<1>4. s[1] = w[1] /\ s[2] = w[2] /\ s[3] = w[3]
  BY <1>2, <1>3 DEF Stands
<1>5. Len(s) >= 3
  BY <1>1, <1>2 DEF Stands
<1> QED
  BY <1>2, <1>4, <1>5 DEF Begins

LEMMA FoundInFront ==
    ASSUME NEW w \in Names, w # <<>>, NEW z \in Names
    PROVE  Found(Join(w, z), w, 1)
<1> DEFINE s == Join(w, z)
<1>1. w \in Seq(Chars) /\ z \in Seq(Chars) /\ s \in Seq(Chars) /\ HasParts(s, w, z)
  BY JoinIs DEF Names
<1> HIDE DEF s
<1>2. Stands(s, w, 1)
  <2>1. Len(s) = Len(w) + Len(z) /\ Len(w) \in Nat /\ Len(z) \in Nat
    BY <1>1 DEF HasParts
  <2>2. 1 + Len(w) - 1 <= Len(s) /\ \A k \in 1..Len(w) : 1 + k - 1 = k
    BY <2>1
  <2> QED
    BY <1>1, <2>2 DEF Stands, HasParts
<1>3. 1 \in 1..(Len(s) + 1)
  BY <1>1
<1>4. Found(s, w, 1) <=> Stands(s, w, 1)
  BY <1>1, <1>3, FoundIs, Zenon
<1> QED
  BY <1>2, <1>4 DEF s

LEMMA FrontIsMark ==
    ASSUME NEW c \in Marks, NEW a \in Letters, NEW t \in Seq(Letters),
           ~LooksLike(Put(a, t), c), Begins(Flat(Put(a, t)), Code(c)[2], Code(c)[3])
    PROVE  a = c
<1> DEFINE x == Code(c)[2]
           y == Code(c)[3]
<1>1. x \in Hex /\ y \in Hex
  BY BytesAre
<1>2. ~Looks(Put(a, t), x, y) /\ Begins(Flat(Put(a, t)), x, y)
  BY DEF LooksLike
<1> HIDE DEF x, y
<1>3. a \in Marks /\ Begins(Code(a), x, y)
  BY <1>1, <1>2, BeginsWithMark
<1>4. Code(a)[2] = Code(c)[2] /\ Code(a)[3] = Code(c)[3]
  BY <1>3 DEF Begins, x, y
<1> QED
  BY <1>3, <1>4, BytesAre

LEMMA LooksInBack ==
    ASSUME NEW x, NEW y, NEW p \in Seq(Letters), NEW u \in Seq(Letters), Looks(u, x, y)
    PROVE  Looks(Join(p, u), x, y)
<1> DEFINE s == Join(p, u)
<1>1. HasParts(s, p, u) /\ Len(p) \in Nat /\ Len(u) \in Nat
  BY JoinIs
<1> HIDE DEF s
<1>2. PICK i \in 1..Len(u) : i + 2 <= Len(u) /\ u[i] = "%" /\ u[i + 1] = x /\ u[i + 2] = y
  BY DEF Looks
<1> DEFINE k == Len(p) + i
<1>3. /\ k \in 1..Len(s) /\ k + 2 <= Len(s) /\ i + 1 \in 1..Len(u) /\ i + 2 \in 1..Len(u)
      /\ k + 1 = Len(p) + (i + 1) /\ k + 2 = Len(p) + (i + 2)
  BY <1>1, <1>2 DEF HasParts
<1>4. s[k] = u[i] /\ s[Len(p) + (i + 1)] = u[i + 1] /\ s[Len(p) + (i + 2)] = u[i + 2]
  BY <1>1, <1>3 DEF HasParts
<1> HIDE DEF k
<1>5. s[k] = "%" /\ s[k + 1] = x /\ s[k + 2] = y
  BY <1>2, <1>3, <1>4
<1> QED
  BY <1>3, <1>5 DEF Looks, s

LEMMA IsInBack ==
    ASSUME NEW c, NEW p \in Seq(Letters), NEW u \in Seq(Letters),
           \A i \in 1..Len(Join(p, u)) : Join(p, u)[i] # c
    PROVE  \A i \in 1..Len(u) : u[i] # c
<1> DEFINE s == Join(p, u)
<1>1. HasParts(s, p, u) /\ Len(p) \in Nat /\ Len(u) \in Nat /\ \A i \in 1..Len(s) : s[i] # c
  BY JoinIs
<1> HIDE DEF s
<1>2. ASSUME NEW i \in 1..Len(u) PROVE u[i] # c
  <2>1. Len(p) + i \in 1..Len(s) /\ s[Len(p) + i] = u[i]
    BY <1>1 DEF HasParts
  <2> QED
    BY <1>1, <2>1
<1> QED
  BY <1>2

LEMMA OneLetter ==
    ASSUME NEW a \in Letters
    PROVE  /\ <<a>> \in Seq(Letters) /\ <<a>> # <<>> /\ Flat(<<a>>) = Code(a)
           /\ \A u : Put(a, u) = Join(<<a>>, u)
<1>1. <<a>> \in Seq(Letters) /\ Len(<<a>>) = 1
  BY OneIn
<1>2. <<a>> # <<>>
  OBVIOUS
<1> DEFINE e == <<>>
<1>3. e \in Seq(Letters)
  OBVIOUS
<1>4. Put(a, e) = <<a>>
  BY <1>1, ConcatEmptySeq DEF Put
<1>5. Flat(Put(a, e)) = Join(Code(a), Flat(e))
  <2> HIDE DEF e
  <2> QED
    BY <1>3, FlatFront
<1>6. Join(Code(a), Flat(e)) = Code(a)
  BY CodeTyped, FlatNothing, JoinNothing DEF Names
<1> QED
  BY <1>1, <1>2, <1>4, <1>5, <1>6 DEF Put, Join

\* The escapes of one mark.
LEMMA OneDecoded ==
    ASSUME NEW c \in Marks, NEW m \in Seq(Letters), ~LooksLike(m, c)
    PROVE  \E r : Decoded(m, r, {c}) /\ Replace(Flat(m), Code(c), <<Plain(c)>>) = Flat(r)
<1> DEFINE G == {s \in Seq(Letters) : ~LooksLike(s, c)}
           x == <<c>>
           y == <<Plain(c)>>
           w == Code(c)
<1>1. c \in Letters /\ Plain(c) \in Letters /\ Plain(c) \in Chars /\ Plain(c) # c
  BY PlainIs, LettersAre DEF Letters
<1>2. x \in Seq(Letters) /\ x # <<>> /\ Flat(x) = w /\ \A u : Put(c, u) = Join(x, u)
  BY <1>1, OneLetter
<1>3. Decoded(x, y, {c})
  <2>1. y \in Seq(Letters) /\ Len(y) = 1 /\ y[1] = Plain(c) /\ Len(x) = 1 /\ x[1] = c
    BY <1>1, OneIn
  <2> HIDE DEF x, y
  <2>2. \A i \in 1..Len(x) : i = 1
    BY <2>1
  <2> QED
    BY <1>1, <2>1, <2>2 DEF Decoded
<1>4. Flat(y) = y
  <2>1. Flat(y) = Code(Plain(c))
    BY <1>1, OneLetter
  <2>2. Plain(c) # "codedPercent" /\ Plain(c) # "codedSpace" /\ Plain(c) # "codedEacute"
    BY <1>1, LettersAre DEF Marks
  <2> QED
    BY <2>1, <2>2, Zenon DEF Code
<1>5. w \in Names /\ Len(w) >= 3 /\ w[1] = "%" /\ w[2] # "A"
  BY <1>1, BytesAre, CodeTyped
<1>6. EndsStay(G)
  BY LooksInBack DEF LooksLike, EndsStay
<1> HIDE DEF x, y
<1>7. ASSUME NEW a \in Letters, NEW t \in Seq(Letters), Put(a, t) \in G,
             Found(Flat(Put(a, t)), w, 1)
      PROVE  w = Flat(x) /\ \E u \in Seq(Letters) : Put(a, t) = Join(x, u)
  <2>1. Flat(Put(a, t)) \in Names
    BY FlatTyped, <1>7
  <2>2. Begins(Flat(Put(a, t)), w[2], w[3])
    <3> HIDE DEF w
    <3> QED
      BY <1>5, <1>7, <2>1, FoundBegins
  <2>3. a = c
    BY <1>7, <2>2, FrontIsMark
  <2> QED
    BY <1>2, <2>3
<1>8. ASSUME NEW a \in Letters, NEW t \in Seq(Letters), Put(a, t) \in G,
             ~Found(Flat(Put(a, t)), w, 1)
      PROVE  a \notin {c} /\ (a = "codedEacute" => w[2] # "A")
  <2>1. SUFFICES ASSUME a = c PROVE FALSE
    BY <1>5
  <2>2. Flat(Put(a, t)) = Join(w, Flat(t))
    BY <2>1, FlatFront
  <2>3. Flat(t) \in Names /\ w # <<>>
    BY <1>5, FlatTyped, EmptySeq
  <2> QED
    <3> HIDE DEF w, G
    <3> QED
      BY <1>5, <1>8, <2>2, <2>3, FoundInFront
<1> HIDE DEF w
<1>9. m \in G /\ G \subseteq Seq(Letters)
  OBVIOUS
<1> HIDE DEF G
<1>10. \A s \in G : \E r : Decoded(s, r, {c}) /\ Replace(Flat(s), w, Flat(y)) = Flat(r)
  <2>1. IsWrittenFor(G, w, x)
    BY <1>7 DEF IsWrittenFor
  <2>2. IsPassed(G, w, {c})
    BY <1>8 DEF IsPassed
  <2> QED
    BY <1>2, <1>3, <1>5, <1>6, <1>9, <2>1, <2>2, ReplaceDecodes
<1> QED
  BY <1>4, <1>9, <1>10 DEF w, y

\* The marks of one byte.
Singles == {"codedPercent", "codedSpace"}

LEMMA SinglesAre ==
    /\ \A c \in Singles : c \in Marks /\ c \in Letters /\ Len(Code(c)) = 3 /\ Plain(c) \in Chars
    /\ \A c \in Marks : c \in Singles \/ c = "codedEacute"
    /\ "codedEacute" \notin Singles /\ "codedEacute" \in Marks
<1>1. /\ \A c \in Singles : c \in Marks
      /\ \A c \in Marks : c \in Singles \/ c = "codedEacute"
      /\ "codedEacute" \notin Singles /\ "codedEacute" \in Marks
  BY DEF Singles, Marks
<1>2. \A c \in Singles : Len(Code(c)) = 3
  BY BytesAre DEF Singles
<1> QED
  BY <1>1, <1>2, PlainIs DEF Letters

\* What a decoded character is written with.
LEMMA PlainFlat ==
    ASSUME NEW c \in Letters
    PROVE  <<Plain(c)>> \in Seq(Letters) /\ Flat(<<Plain(c)>>) = <<Plain(c)>>
<1>1. Plain(c) \in Letters /\ Plain(c) \notin Marks
  BY PlainIs
<1>2. Flat(<<Plain(c)>>) = Code(Plain(c)) /\ <<Plain(c)>> \in Seq(Letters)
  BY <1>1, OneLetter
<1>3. Plain(c) # "codedPercent" /\ Plain(c) # "codedSpace" /\ Plain(c) # "codedEacute"
  BY <1>1 DEF Marks
<1> QED
  BY <1>2, <1>3, Zenon DEF Code

LEMMA OneIsDecoded ==
    ASSUME NEW c \in Letters
    PROVE  Decoded(<<c>>, <<Plain(c)>>, {})
<1> DEFINE x == <<c>>
           y == <<Plain(c)>>
<1>1. y \in Seq(Letters) /\ Len(y) = 1 /\ y[1] = Plain(c) /\ Len(x) = 1 /\ x[1] = c
  BY PlainFlat
<1> HIDE DEF x, y
<1>2. \A i \in 1..Len(x) : i = 1
  BY <1>1
<1>3. Decoded(x, y, {})
  BY <1>1, <1>2 DEF Decoded
<1> QED
  BY <1>3 DEF x, y

\* The escapes of two marks side by side.
LEMMA PairDecoded ==
    ASSUME NEW c \in Singles, NEW d \in Singles, NEW m \in Seq(Letters),
           ~LooksLike(m, c), ~LooksLike(m, d)
    PROVE  \E r : /\ Decoded(m, r, {})
                  /\ Replace(Flat(m), Join(Code(c), Code(d)), Join(<<Plain(c)>>, <<Plain(d)>>))
                        = Flat(r)
<1> DEFINE G == {s \in Seq(Letters) : ~LooksLike(s, c) /\ ~LooksLike(s, d)}
           x1 == <<c>>
           x2 == <<d>>
           y1 == <<Plain(c)>>
           y2 == <<Plain(d)>>
           x == Join(x1, x2)
           y == Join(y1, y2)
           w == Join(Code(c), Code(d))
<1>1. /\ c \in Marks /\ d \in Marks /\ c \in Letters /\ d \in Letters
      /\ Len(Code(c)) = 3 /\ Len(Code(d)) = 3
      /\ Code(c) \in Seq(Chars) /\ Code(d) \in Seq(Chars)
      /\ Code(c)[1] = "%" /\ Code(d)[1] = "%" /\ Code(c)[2] # "A"
  BY SinglesAre, BytesAre, CodeTyped DEF Names
<1>2. /\ x1 \in Seq(Letters) /\ Flat(x1) = Code(c) /\ \A u : Put(c, u) = Join(x1, u)
      /\ x2 \in Seq(Letters) /\ Flat(x2) = Code(d) /\ \A u : Put(d, u) = Join(x2, u)
  BY <1>1, OneLetter
<1>3. /\ y1 \in Seq(Letters) /\ Flat(y1) = y1 /\ y2 \in Seq(Letters) /\ Flat(y2) = y2
      /\ Decoded(x1, y1, {}) /\ Decoded(x2, y2, {})
  BY <1>1, PlainFlat, OneIsDecoded
<1>4. x \in Seq(Letters) /\ x # <<>>
  <2>1. x1 # <<>>
    OBVIOUS
  <2> HIDE DEF x1, x2
  <2>2. x \in Seq(Letters) /\ HasParts(x, x1, x2)
    BY <1>2, JoinIs
  <2>3. Len(x1) \in Nat \ {0} /\ Len(x2) \in Nat
    BY <1>2, <2>1, EmptySeq
  <2>4. Len(x) # 0
    BY <2>2, <2>3 DEF HasParts
  <2> QED
    BY <2>2, <2>4, EmptySeq
<1>5. Decoded(x, y, {})
  <2> HIDE DEF x1, x2, y1, y2
  <2> QED
    BY <1>2, <1>3, DecodedJoined
<1>6. Flat(x) = w /\ Flat(y) = y
  <2> HIDE DEF x1, x2, y1, y2
  <2> QED
    BY <1>2, <1>3, FlatJoined
<1>7. HasParts(w, Code(c), Code(d)) /\ w \in Seq(Chars)
  BY <1>1, JoinIs
<1>8. w \in Names /\ Len(w) = 6 /\ w[1] = "%" /\ w[2] = Code(c)[2] /\ w[3] = Code(c)[3]
  <2> HIDE DEF w
  <2>1. 1 \in 1..Len(Code(c)) /\ 2 \in 1..Len(Code(c)) /\ 3 \in 1..Len(Code(c))
    BY <1>1
  <2> QED
    BY <1>1, <1>7, <2>1 DEF HasParts, Names
<1>9. EndsStay(G)
  BY LooksInBack DEF LooksLike, EndsStay
<1>10. ASSUME NEW a \in Letters, NEW t \in Seq(Letters), Put(a, t) \in G,
              Found(Flat(Put(a, t)), w, 1)
       PROVE  \E u \in Seq(Letters) : Put(a, t) = Join(x, u)
  <2> DEFINE s == Flat(Put(a, t))
             z == Flat(t)
  <2>1. s \in Names /\ z \in Names
    BY FlatTyped, <1>10
  <2>2. Begins(s, w[2], w[3]) /\ Stands(s, w, 1)
    <3>1. Len(w) >= 3 /\ Found(s, w, 1)
      BY <1>8, <1>10
    <3> HIDE DEF w, s
    <3> QED
      BY <1>8, <2>1, <3>1, FoundBegins
  <2>3. a = c
    <3> HIDE DEF w
    <3> QED
      BY <1>1, <1>8, <1>10, <2>2, FrontIsMark
  <2>4. s = Join(Code(c), z)
    BY <2>3, FlatFront
  <2>5. HasParts(s, Code(c), z)
    <3> HIDE DEF s, z
    <3> QED
      BY <1>1, <2>1, <2>4, JoinIs DEF Names
  <2> HIDE DEF w, s, z
  <2>6. /\ Len(z) >= 3 /\ z[1] = Code(d)[1] /\ z[2] = Code(d)[2] /\ z[3] = Code(d)[3]
    <3>1. Len(s) >= 6 /\ Len(z) \in Nat /\ Len(s) = 3 + Len(z)
      <4>1. 1 + Len(w) - 1 <= Len(s)
        BY <2>2 DEF Stands
      <4> QED
        BY <1>1, <1>8, <2>1, <2>5, <4>1 DEF HasParts, Names
    <3>2. ASSUME NEW i \in 1..3 PROVE z[i] = Code(d)[i]
      <4>1. /\ 3 + i \in 1..Len(w) /\ 1 + (3 + i) - 1 = 3 + i /\ i \in 1..Len(z)
            /\ i \in 1..Len(Code(d))
            /\ \A k \in 1..Len(w) : 1 + k - 1 = k
        BY <1>1, <1>8, <3>1
      <4>2. s[1 + (3 + i) - 1] = w[3 + i]
        BY <2>2, <4>1 DEF Stands
      <4>3. s[3 + i] = z[i] /\ w[3 + i] = Code(d)[i]
        BY <1>1, <1>7, <2>5, <4>1 DEF HasParts
      <4> QED
        BY <4>1, <4>2, <4>3
    <3>3. 1 \in 1..3 /\ 2 \in 1..3 /\ 3 \in 1..3 /\ Len(z) >= 3
      BY <3>1
    <3> QED
      BY <3>2, <3>3
  <2>7. Begins(z, Code(d)[2], Code(d)[3])
    BY <1>1, <2>6 DEF Begins
  <2>8. t \in G
    <3>1. Put(a, t) = Join(x1, t)
      BY <1>2, <2>3
    <3> HIDE DEF G, x1
    <3> QED
      BY <1>2, <1>9, <1>10, <3>1 DEF EndsStay
  <2>9. t # <<>>
    <3>1. Flat(<<>>) = <<>> /\ Len(<<>>) = 0
      BY FlatNothing
    <3> QED
      BY <2>6, <3>1 DEF z
  <2>10. PICK b \in Letters : \E u \in Seq(Letters) : t = Put(b, u)
    BY <2>9, FrontAndRest
  <2>11. PICK u \in Seq(Letters) : t = Put(b, u)
    BY <2>10
  <2>12. b = d
    <3>1. ~LooksLike(Put(b, u), d) /\ Begins(Flat(Put(b, u)), Code(d)[2], Code(d)[3])
      BY <2>7, <2>8, <2>11 DEF z
    <3> QED
      BY <1>1, <3>1, FrontIsMark
  <2>13. Put(a, t) = Join(x1, Join(x2, u))
    BY <1>2, <2>3, <2>11, <2>12
  <2>14. Join(x1, Join(x2, u)) = Join(x, u)
    <3> HIDE DEF x1, x2
    <3> QED
      BY <1>2, JoinAssociative
  <2> QED
    BY <2>13, <2>14
<1> HIDE DEF x, y, w
<1>11. m \in G /\ G \subseteq Seq(Letters)
  OBVIOUS
<1> HIDE DEF G
<1>12. IsWrittenFor(G, w, x) /\ IsPassed(G, w, {})
  BY <1>1, <1>6, <1>8, <1>10 DEF IsWrittenFor, IsPassed
<1>13. \A s \in G : \E r : Decoded(s, r, {}) /\ Replace(Flat(s), w, Flat(y)) = Flat(r)
  <2> DEFINE none == {}
  <2>1. Len(w) >= 3 /\ w[1] = "%" /\ w \in Names /\ Decoded(x, y, none)
        /\ IsWrittenFor(G, w, x) /\ IsPassed(G, w, none)
    BY <1>5, <1>8, <1>12
  <2> HIDE DEF none
  <2>2. \A s \in G : \E r : Decoded(s, r, none) /\ Replace(Flat(s), w, Flat(y)) = Flat(r)
    BY <1>4, <1>9, <1>11, <2>1, ReplaceDecodes
  <2> QED
    BY <2>2 DEF none
<1> QED
  BY <1>6, <1>11, <1>13 DEF w, y

\* The escape of a byte that no mark of m begins with.
LEMMA NoneDecoded ==
    ASSUME NEW x \in Hex, NEW y \in Hex, NEW m \in Seq(Letters), ~Looks(m, x, y),
           \A i \in 1..Len(m) : m[i] # "codedEacute",
           \A c \in Singles : ~(Code(c)[2] = x /\ Code(c)[3] = y)
    PROVE  \E r : /\ Decoded(m, r, {})
                  /\ Replace(Flat(m), Escape(<<x, y>>), <<"other">>) = Flat(r)
<1> DEFINE None(s) == \A i \in 1..Len(s) : s[i] # "codedEacute"
           G == {s \in Seq(Letters) : ~Looks(s, x, y) /\ None(s)}
           o == <<"other">>
           w == Escape(<<x, y>>)
<1>1. "other" \in Chars /\ "other" \in Letters
  BY DEF Chars, Letters
<1>2. o \in Seq(Letters) /\ o # <<>> /\ Flat(o) = Code("other")
  BY <1>1, OneLetter
<1>3. Code("other") = o
  BY DEF Code
<1>4. Decoded(o, o, {})
  <2>1. \A i \in 1..Len(o) : o[i] \notin {}
    OBVIOUS
  <2> HIDE DEF o
  <2> QED
    BY <1>2, <2>1, DecodedStays
<1>5. w \in Names
  BY EscapeIn
<1>6. Len(w) = 3 /\ w[1] = "%" /\ w[2] = x /\ w[3] = y
  <2>1. x \in Chars /\ y \in Chars
    BY LettersAre
  <2> DEFINE p == <<"%">>
             q == <<x, y>>
  <2>2. /\ p \in Seq(Chars) /\ q \in Seq(Chars) /\ Len(p) = 1 /\ Len(q) = 2
        /\ p[1] = "%" /\ q[1] = x /\ q[2] = y
    BY <2>1, LettersAre, OneIn
  <2> HIDE DEF p, q
  <2>3. HasParts(Join(p, q), p, q)
    BY <2>2, JoinIs
  <2>4. w = Join(p, q)
    BY DEF Escape, Join, p, q
  <2> HIDE DEF w
  <2>5. 1 \in 1..Len(p) /\ 1 \in 1..Len(q) /\ 2 \in 1..Len(q) /\ Len(p) + Len(q) = 3
        /\ Len(p) + 1 = 2 /\ Len(p) + 2 = 3
    BY <2>2
  <2> QED
    BY <2>2, <2>3, <2>4, <2>5 DEF HasParts
<1>7. EndsStay(G)
  <2>1. ASSUME NEW p \in Seq(Letters), NEW u \in Seq(Letters), Join(p, u) \in G
        PROVE  u \in G
    <3>1. ~Looks(u, x, y)
      BY <2>1, LooksInBack
    <3>2. \A i \in 1..Len(Join(p, u)) : Join(p, u)[i] # "codedEacute"
      BY <2>1
    <3>3. None(u)
      BY <3>2, IsInBack
    <3> QED
      BY <3>1, <3>3
  <2> QED
    BY <2>1 DEF EndsStay
<1>8. ASSUME NEW a \in Letters, NEW t \in Seq(Letters), Put(a, t) \in G
      PROVE  a # "codedEacute" /\ ~Found(Flat(Put(a, t)), w, 1)
  <2>1. HasFront(Put(a, t), a, t) /\ Len(t) \in Nat
    BY Single
  <2>2. a # "codedEacute"
    <3>1. 1 \in 1..Len(Put(a, t)) /\ Put(a, t)[1] = a
      BY <2>1 DEF HasFront
    <3> QED
      BY <1>8, <3>1
  <2>3. ASSUME Found(Flat(Put(a, t)), w, 1) PROVE FALSE
    <3>1. Flat(Put(a, t)) \in Names
      BY <1>8, FlatTyped
    <3>2. Begins(Flat(Put(a, t)), x, y)
      <4>1. Len(w) >= 3
        BY <1>6
      <4> HIDE DEF w
      <4> QED
        BY <1>5, <1>6, <2>3, <3>1, <4>1, FoundBegins
    <3>3. a \in Marks /\ Begins(Code(a), x, y)
      BY <1>8, <3>2, BeginsWithMark
    <3> QED
      BY <2>2, <3>3, SinglesAre DEF Begins
  <2> QED
    BY <2>2, <2>3
<1>9. m \in G /\ G \subseteq Seq(Letters)
  OBVIOUS
<1> HIDE DEF o, w, G
<1>10. IsWrittenFor(G, w, o) /\ IsPassed(G, w, {})
  BY <1>8 DEF IsWrittenFor, IsPassed
<1>11. \A s \in G : \E r : Decoded(s, r, {}) /\ Replace(Flat(s), w, Flat(o)) = Flat(r)
  <2> DEFINE none == {}
  <2>1. Len(w) >= 3 /\ w[1] = "%" /\ w \in Names /\ Decoded(o, o, none)
        /\ IsWrittenFor(G, w, o) /\ IsPassed(G, w, none)
    BY <1>4, <1>5, <1>6, <1>10
  <2> HIDE DEF none
  <2>2. \A s \in G : \E r : Decoded(s, r, none) /\ Replace(Flat(s), w, Flat(o)) = Flat(r)
    BY <1>2, <1>7, <1>9, <2>1, ReplaceDecodes
  <2> QED
    BY <2>2 DEF none
<1> QED
  BY <1>2, <1>3, <1>9, <1>11 DEF o, w

-----------------------------------------------------------------------------
(* Two escapes side by side *)

Pair(s, i) == IsEscape(s, i) /\ IsEscape(s, i + 3)
NoPair(s) == \A i \in 1..Len(s) : ~Pair(s, i)
PairFirst(s, i) == i \in 1..Len(s) /\ Pair(s, i) /\ \A j \in 1..(i - 1) : ~Pair(s, j)

LEMMA EscapeBehind ==
    ASSUME NEW p \in Names, NEW z \in Names, NEW j \in Nat \ {0}
    PROVE  IsEscape(Join(p, z), Len(p) + j) <=> IsEscape(z, j)
<1> DEFINE s == Join(p, z)
           k == Len(p) + j
<1>1. HasParts(s, p, z) /\ Len(p) \in Nat /\ Len(z) \in Nat
  BY JoinIs DEF Names
<1> HIDE DEF s
<1>2. k + 2 <= Len(s) <=> j + 2 <= Len(z)
  BY <1>1 DEF HasParts
<1>3. ASSUME j + 2 <= Len(z) PROVE s[k] = z[j] /\ s[k + 1] = z[j + 1] /\ s[k + 2] = z[j + 2]
  <2>1. /\ j \in 1..Len(z) /\ j + 1 \in 1..Len(z) /\ j + 2 \in 1..Len(z)
        /\ k + 1 = Len(p) + (j + 1) /\ k + 2 = Len(p) + (j + 2)
    BY <1>1, <1>3
  <2>2. s[Len(p) + j] = z[j] /\ s[Len(p) + (j + 1)] = z[j + 1] /\ s[Len(p) + (j + 2)] = z[j + 2]
    BY <1>1, <2>1 DEF HasParts
  <2> QED
    BY <2>1, <2>2
<1> HIDE DEF k
<1>4. IsEscape(s, k) <=> IsEscape(z, j)
  BY <1>2, <1>3 DEF IsEscape
<1> QED
  BY <1>4 DEF s, k

LEMMA PairBehind ==
    ASSUME NEW p \in Names, NEW z \in Names, NEW j \in Nat \ {0}
    PROVE  Pair(Join(p, z), Len(p) + j) <=> Pair(z, j)
<1> DEFINE s == Join(p, z)
<1>1. Len(p) + (j + 3) = Len(p) + j + 3 /\ j + 3 \in Nat \ {0}
  BY DEF Names
<1>2. IsEscape(s, Len(p) + (j + 3)) <=> IsEscape(z, j + 3)
  BY <1>1, EscapeBehind
<1>3. IsEscape(s, Len(p) + j) <=> IsEscape(z, j)
  BY EscapeBehind
<1> QED
  BY <1>1, <1>2, <1>3 DEF Pair

\* The first two behind a part without.
LEMMA FirstBehind ==
    ASSUME NEW p \in Names, NEW z \in Names, \A i \in 1..Len(p) : ~Pair(Join(p, z), i)
    PROVE  /\ NoPair(z) => NoPair(Join(p, z))
           /\ \A i : PairFirst(z, i) => PairFirst(Join(p, z), Len(p) + i)
<1> DEFINE s == Join(p, z)
<1>1. HasParts(s, p, z) /\ Len(p) \in Nat /\ Len(z) \in Nat
  BY JoinIs DEF Names
<1>2. \A j \in Nat \ {0} : Pair(s, Len(p) + j) <=> Pair(z, j)
  BY PairBehind
<1>3. \A i \in 1..Len(p) : ~Pair(s, i)
  OBVIOUS
<1> HIDE DEF s
<1>4. Len(s) = Len(p) + Len(z)
  BY <1>1 DEF HasParts
<1>5. ASSUME NEW i \in Nat \ {0}
      PROVE  i \in 1..Len(p) \/ \E j \in Nat \ {0} : i = Len(p) + j
  <2>1. CASE i <= Len(p)
    BY <1>1, <2>1
  <2>2. CASE ~(i <= Len(p))
    <3> DEFINE j == i - Len(p)
    <3>1. j \in Nat \ {0} /\ i = Len(p) + j
      BY <1>1, <2>2
    <3> QED
      BY <3>1
  <2> QED
    BY <2>1, <2>2
<1>6. ASSUME NoPair(z) PROVE NoPair(s)
  <2>1. ASSUME NEW i \in 1..Len(s), Pair(s, i) PROVE FALSE
    <3>1. i \in Nat \ {0}
      BY <1>1, <1>4
    <3>2. PICK j \in Nat \ {0} : i = Len(p) + j
      BY <1>3, <1>5, <2>1, <3>1
    <3>3. j \in 1..Len(z)
      BY <1>1, <1>4, <3>2
    <3> QED
      BY <1>2, <1>6, <2>1, <3>2, <3>3 DEF NoPair
  <2> QED
    BY <2>1 DEF NoPair
<1>7. ASSUME NEW i, PairFirst(z, i) PROVE PairFirst(s, Len(p) + i)
  <2>1. i \in 1..Len(z) /\ Pair(z, i) /\ \A j \in 1..(i - 1) : ~Pair(z, j)
    BY <1>7 DEF PairFirst
  <2>2. Len(p) + i \in 1..Len(s) /\ i \in Nat \ {0}
    BY <1>1, <1>4, <2>1
  <2>3. ASSUME NEW k \in 1..(Len(p) + i - 1), Pair(s, k) PROVE FALSE
    <3>1. k \in Nat \ {0}
      OBVIOUS
    <3>2. PICK j \in Nat \ {0} : k = Len(p) + j
      BY <1>3, <1>5, <2>3, <3>1
    <3>3. j \in 1..(i - 1)
      BY <1>1, <2>2, <3>2
    <3> QED
      BY <1>2, <2>1, <2>3, <3>2, <3>3
  <2> QED
    BY <1>2, <2>1, <2>2, <2>3 DEF PairFirst
<1> QED
  BY <1>6, <1>7 DEF s

-----------------------------------------------------------------------------
(* Names without percent signs, as their addresses are *)

Codeds == Letters \ {"%"}

LEMMA CodedsAre ==
    /\ \A q \in Seq(Codeds) : q \in Seq(Letters)
    /\ \A c \in Codeds : c \in Letters /\ c # "%"
    /\ Marks \subseteq Codeds
<1>1. Codeds \subseteq Letters
  BY DEF Codeds
<1>2. \A c \in Marks : c \in Codeds
  BY LettersAre DEF Codeds, Letters
<1>3. \A q \in Seq(Codeds) : q \in Seq(Letters)
  BY <1>1, SeqMonotonic
<1> QED
  BY <1>1, <1>2, <1>3 DEF Codeds

\* Every mark of two bytes begins where as many marks of one byte are behind it,
\* in one go, as can be taken by twos: f counts them.
Counts(q, f) ==
    /\ f[1] = 0
    /\ \A i \in 1..Len(q) :
          /\ q[i] \in Singles => f[i + 1] = 1 - f[i]
          /\ q[i] \notin Singles => f[i + 1] = 0
          /\ q[i] = "codedEacute" => f[i] = 0
Aligned(q) == \E f : Counts(q, f)

LEMMA AlignedBehind ==
    ASSUME NEW C, NEW p \in Seq(C), NEW t \in Seq(C), NEW f, Counts(Join(p, t), f),
           f[Len(p) + 1] = 0
    PROVE  Aligned(t)
<1> DEFINE q == Join(p, t)
           g == [i \in 1..(Len(t) + 1) |-> f[Len(p) + i]]
<1>1. HasParts(q, p, t) /\ Len(t) \in Nat /\ Len(p) \in Nat
  BY JoinIs
<1>2. \A i \in 1..(Len(t) + 1) : g[i] = f[Len(p) + i]
  OBVIOUS
<1>3. Counts(q, f)
  OBVIOUS
<1> HIDE DEF q, g
<1>4. g[1] = 0
  <2>1. 1 \in 1..(Len(t) + 1)
    BY <1>1
  <2> QED
    BY <1>2, <2>1
<1>5. ASSUME NEW i \in 1..Len(t)
      PROVE  /\ t[i] \in Singles => g[i + 1] = 1 - g[i]
             /\ t[i] \notin Singles => g[i + 1] = 0
             /\ t[i] = "codedEacute" => g[i] = 0
  <2>1. /\ i \in 1..(Len(t) + 1) /\ i + 1 \in 1..(Len(t) + 1)
        /\ Len(p) + i \in 1..Len(q) /\ Len(p) + (i + 1) = Len(p) + i + 1
    BY <1>1 DEF HasParts
  <2>2. q[Len(p) + i] = t[i]
    BY <1>1 DEF HasParts
  <2>3. g[i] = f[Len(p) + i] /\ g[i + 1] = f[Len(p) + i + 1]
    BY <1>2, <2>1
  <2> QED
    BY <1>3, <2>1, <2>2, <2>3 DEF Counts
<1>6. Counts(t, g)
  BY <1>4, <1>5 DEF Counts
<1> QED
  BY <1>6 DEF Aligned

LEMMA AlignedFront ==
    ASSUME NEW a \in Codeds, NEW t \in Seq(Codeds), Aligned(Put(a, t))
    PROVE  /\ a \notin Singles => Aligned(t)
           /\ \A b \in Codeds : \A u \in Seq(Codeds) :
                 a \in Singles /\ t = Put(b, u) => b # "codedEacute" /\ Aligned(u)
<1> DEFINE q == Put(a, t)
           one == <<a>>
<1>0. one \in Seq(Codeds) /\ Len(one) = 1 /\ \A s : Put(a, s) = Join(one, s)
  BY OneIn DEF Put, Join
<1> HIDE DEF one
<1>1. PICK f : Counts(q, f)
  BY DEF Aligned
<1>2. HasFront(q, a, t) /\ Len(t) \in Nat
  BY Single
<1>a. q = Join(one, t)
  BY <1>0
<1> HIDE DEF q
<1>3. 1 \in 1..Len(q) /\ q[1] = a /\ f[1] = 0 /\ 1 + 1 = 2 /\ 1 - 0 = 1 /\ 2 + 1 = 3
  BY <1>1, <1>2 DEF HasFront, Counts
<1>4. a \notin Singles => f[2] = 0
  BY <1>1, <1>3 DEF Counts
<1>5. a \in Singles => f[2] = 1
  BY <1>1, <1>3 DEF Counts
<1>6. ASSUME a \notin Singles PROVE Aligned(t)
  <2>1. f[Len(one) + 1] = 0 /\ Counts(Join(one, t), f)
    BY <1>0, <1>1, <1>3, <1>4, <1>6, <1>a
  <2> QED
    BY <1>0, <2>1, AlignedBehind
<1>7. ASSUME NEW b \in Codeds, NEW u \in Seq(Codeds), a \in Singles, t = Put(b, u)
      PROVE  b # "codedEacute" /\ Aligned(u)
  <2>1. HasFront(t, b, u) /\ Len(u) \in Nat
    BY <1>7, Single
  <2>2. 2 \in 1..Len(q) /\ q[2] = b
    <3>1. 1 \in 1..Len(t) /\ t[1] = b
      BY <2>1 DEF HasFront
    <3>2. q[1 + 1] = t[1] /\ Len(q) = Len(t) + 1
      BY <1>2, <3>1 DEF HasFront
    <3> QED
      BY <1>2, <1>3, <3>1, <3>2
  <2>3. b # "codedEacute"
    BY <1>1, <1>5, <1>7, <2>2 DEF Counts
  <2>4. f[2 + 1] = 0
    <3>1. b \in Singles => f[2 + 1] = 1 - f[2]
      BY <1>1, <2>2 DEF Counts
    <3>2. b \notin Singles => f[2 + 1] = 0
      BY <1>1, <2>2 DEF Counts
    <3> QED
      BY <1>5, <1>7, <3>1, <3>2
  <2> DEFINE other == <<b>>
             two == Join(one, other)
  <2>5. other \in Seq(Codeds) /\ Len(other) = 1 /\ t = Join(other, u)
    BY <1>7, OneIn DEF Put, Join
  <2> HIDE DEF other
  <2>6. two \in Seq(Codeds) /\ Len(two) = 2 /\ q = Join(two, u)
    <3>1. HasParts(two, one, other) /\ two \in Seq(Codeds)
      BY <1>0, <2>5, JoinIs
    <3>2. Join(two, u) = Join(one, Join(other, u))
      BY <1>0, <2>5, JoinAssociative
    <3> QED
      BY <1>0, <1>a, <2>5, <3>1, <3>2 DEF HasParts
  <2> HIDE DEF two
  <2>7. Counts(Join(two, u), f) /\ f[Len(two) + 1] = 0
    BY <1>1, <2>4, <2>6
  <2>8. Aligned(u)
    BY <2>6, <2>7, AlignedBehind
  <2> QED
    BY <2>3, <2>8
<1> QED
  BY <1>6, <1>7

\* What two escapes side by side may be written for.
Doubles == {<<"codedEacute">>} \cup UNION {{Join(<<c>>, <<d>>) : d \in Singles} : c \in Singles}

LEMMA TwoAreDouble == \A c, d \in Singles : Join(<<c>>, <<d>>) \in Doubles
<1> SUFFICES ASSUME NEW c \in Singles, NEW d \in Singles PROVE Join(<<c>>, <<d>>) \in Doubles
  OBVIOUS
<1> DEFINE S(a) == {Join(<<a>>, <<b>>) : b \in Singles}
<1>1. Join(<<c>>, <<d>>) \in S(c)
  OBVIOUS
<1>2. S(c) \in {S(a) : a \in Singles}
  OBVIOUS
<1> HIDE DEF S
<1>3. Join(<<c>>, <<d>>) \in UNION {S(a) : a \in Singles}
  BY <1>1, <1>2
<1> QED
  BY <1>3, Zenon DEF Doubles, S

HasNone(q) == NoPair(Flat(q)) /\ \A i \in 1..Len(q) : q[i] # "codedEacute"
HasFirst(q, p, x, r) ==
    /\ p \in Seq(Codeds) /\ r \in Seq(Codeds) /\ x \in Doubles
    /\ q = Join(p, Join(x, r))
    /\ PairFirst(Flat(q), Len(Flat(p)) + 1)
    /\ Aligned(r)
    /\ \A i \in 1..Len(p) : p[i] # "codedEacute"
PairsKnown(q) == HasNone(q) \/ \E p, x, r : HasFirst(q, p, x, r)

LEMMA EscapeFront ==
    ASSUME NEW w \in Names, NEW z \in Names, NEW i \in Nat \ {0}, IsEscape(w, i)
    PROVE  IsEscape(Join(w, z), i)
<1> DEFINE s == Join(w, z)
<1>1. HasParts(s, w, z) /\ Len(w) \in Nat /\ Len(z) \in Nat
  BY JoinIs DEF Names
<1> HIDE DEF s
<1>2. i + 2 <= Len(w) /\ w[i] = "%" /\ w[i + 1] \in Hex /\ w[i + 2] \in Hex
  BY DEF IsEscape
<1>3. /\ i \in 1..Len(w) /\ i + 1 \in 1..Len(w) /\ i + 2 \in 1..Len(w) /\ i + 2 <= Len(s)
  BY <1>1, <1>2 DEF HasParts
<1>4. s[i] = w[i] /\ s[i + 1] = w[i + 1] /\ s[i + 2] = w[i + 2]
  BY <1>1, <1>3 DEF HasParts
<1> QED
  BY <1>2, <1>3, <1>4 DEF IsEscape, s

LEMMA CodeIsEscape == \A c \in Marks : Code(c) \in Names /\ IsEscape(Code(c), 1)
<1>1. \A c \in Marks : c \in Letters
  BY DEF Letters
<1>2. \A c \in Marks : Code(c) \in Names
  BY <1>1, CodeTyped
<1>3. \A c \in Marks : 1 + 2 <= Len(Code(c)) /\ Code(c)[1] = "%"
                       /\ Code(c)[1 + 1] \in Hex /\ Code(c)[1 + 2] \in Hex
  BY BytesAre
<1> QED
  BY <1>2, <1>3 DEF IsEscape

LEMMA DoublesAre ==
    ASSUME NEW x \in Doubles
    PROVE  /\ x \in Seq(Codeds) /\ Flat(x) \in Names /\ Len(Flat(x)) = 6
           /\ \A z \in Names : Pair(Join(Flat(x), z), 1)
<1>1. CASE x = <<"codedEacute">>
  <2> DEFINE c == "codedEacute"
  <2>1. c \in Codeds /\ c \in Letters /\ Len(Code(c)) = 6 /\ Code(c) \in Names
    BY CodedsAre, SinglesAre, BytesAre, CodeIsEscape
  <2>2. IsEscape(Code(c), 1)
    BY SinglesAre, CodeIsEscape
  <2>3. IsEscape(Code(c), 1 + 3)
    <3>1. "A" \in Hex /\ "9" \in Hex /\ 1 + 3 = 4 /\ 4 + 1 = 5 /\ 4 + 2 = 6
      BY DEF Hex, Digits
    <3> QED
      BY <2>1, <3>1, BytesAre DEF IsEscape
  <2> HIDE DEF c
  <2>4. x \in Seq(Codeds) /\ Flat(x) = Code(c)
    BY <1>1, <2>1, OneIn, OneLetter DEF c
  <2>5. ASSUME NEW z \in Names PROVE Pair(Join(Code(c), z), 1)
    <3>1. 1 + 3 \in Nat \ {0} /\ 1 \in Nat \ {0}
      OBVIOUS
    <3>2. IsEscape(Join(Code(c), z), 1)
      BY <2>1, <2>2, <3>1, EscapeFront
    <3>3. IsEscape(Join(Code(c), z), 1 + 3)
      <4> DEFINE k == 1 + 3
      <4>1. k \in Nat \ {0} /\ IsEscape(Code(c), k)
        BY <2>3
      <4> HIDE DEF k
      <4>2. IsEscape(Join(Code(c), z), k)
        BY <2>1, <4>1, EscapeFront
      <4> QED
        BY <4>2 DEF k
    <3> QED
      BY <3>2, <3>3 DEF Pair
  <2> QED
    BY <2>1, <2>4, <2>5
<1>2. CASE x # <<"codedEacute">>
  <2>1. PICK c \in Singles : \E d \in Singles : x = Join(<<c>>, <<d>>)
    BY <1>2 DEF Doubles
  <2>2. PICK d \in Singles : x = Join(<<c>>, <<d>>)
    BY <2>1
  <2>3. /\ c \in Marks /\ d \in Marks /\ c \in Codeds /\ d \in Codeds
        /\ c \in Letters /\ d \in Letters /\ Len(Code(c)) = 3 /\ Len(Code(d)) = 3
    BY SinglesAre, CodedsAre
  <2>4. /\ Code(c) \in Names /\ Code(d) \in Names
        /\ IsEscape(Code(c), 1) /\ IsEscape(Code(d), 1)
    BY <2>3, CodeIsEscape
  <2> DEFINE p == <<c>>
             q == <<d>>
             w == Join(Code(c), Code(d))
  <2>5. /\ p \in Seq(Codeds) /\ q \in Seq(Codeds) /\ p \in Seq(Letters) /\ q \in Seq(Letters)
        /\ Flat(p) = Code(c) /\ Flat(q) = Code(d)
    BY <2>3, OneIn, OneLetter
  <2> HIDE DEF p, q
  <2>6. x = Join(p, q) /\ x \in Seq(Codeds)
    BY <2>2, <2>5, JoinIs DEF p, q
  <2>7. Flat(x) = w
    BY <2>5, <2>6, FlatJoined
  <2>8. w \in Names /\ Len(w) = 6
    <3>1. w \in Seq(Chars) /\ HasParts(w, Code(c), Code(d))
      BY <2>4, JoinIs DEF Names
    <3> QED
      BY <2>3, <3>1 DEF HasParts, Names
  <2>9. IsEscape(w, 1) /\ IsEscape(w, 1 + 3)
    <3>1. IsEscape(w, 1)
      BY <2>4, EscapeFront
    <3>2. IsEscape(w, Len(Code(c)) + 1)
      BY <2>4, EscapeBehind
    <3>3. Len(Code(c)) + 1 = 1 + 3
      BY <2>3
    <3> QED
      BY <3>1, <3>2, <3>3
  <2> HIDE DEF w
  <2>10. ASSUME NEW z \in Names PROVE Pair(Join(w, z), 1)
    <3>2. IsEscape(Join(w, z), 1)
      BY <2>8, <2>9, EscapeFront
    <3>3. IsEscape(Join(w, z), 1 + 3)
      <4> DEFINE k == 1 + 3
      <4>1. k \in Nat \ {0} /\ IsEscape(w, k)
        BY <2>9
      <4> HIDE DEF k
      <4>2. IsEscape(Join(w, z), k)
        BY <2>8, <4>1, EscapeFront
      <4> QED
        BY <4>2 DEF k
    <3> QED
      BY <3>2, <3>3 DEF Pair
  <2> QED
    BY <2>6, <2>7, <2>8, <2>10
<1> QED
  BY <1>1, <1>2

\* A letter in front that no pair begins at.
LEMMA PairsKnownBehind ==
    ASSUME NEW a \in Codeds, a # "codedEacute", NEW t \in Seq(Codeds),
           \A i \in 1..Len(Code(a)) : ~Pair(Flat(Put(a, t)), i), PairsKnown(t)
    PROVE  PairsKnown(Put(a, t))
<1> DEFINE q == Put(a, t)
           h == Code(a)
           z == Flat(t)
<1>1. a \in Letters /\ t \in Seq(Letters)
  BY CodedsAre
<1>2. Flat(q) = Join(h, z) /\ h \in Names /\ z \in Names /\ HasFront(q, a, t)
      /\ q \in Seq(Codeds)
  BY <1>1, FlatFront, FlatTyped, CodeTyped, Single
<1>3. \A i \in 1..Len(h) : ~Pair(Join(h, z), i)
  BY <1>2
<1>4. PairsKnown(t)
  OBVIOUS
<1>5. Len(t) \in Nat
  OBVIOUS
<1> HIDE DEF h, z, q
<1>6. /\ NoPair(z) => NoPair(Flat(q))
      /\ \A i : PairFirst(z, i) => PairFirst(Flat(q), Len(h) + i)
  BY <1>2, <1>3, FirstBehind
<1>7. CASE HasNone(t)
  <2>1. NoPair(Flat(q))
    BY <1>6, <1>7 DEF HasNone, z
  <2>2. ASSUME NEW i \in 1..Len(q) PROVE q[i] # "codedEacute"
    <3>1. CASE i = 1
      BY <1>2, <3>1 DEF HasFront
    <3>2. CASE i # 1
      <4>1. i - 1 \in 1..Len(t) /\ i - 1 + 1 = i
        BY <1>2, <1>5, <3>2 DEF HasFront
      <4>2. q[i - 1 + 1] = t[i - 1]
        BY <1>2, <4>1 DEF HasFront
      <4> QED
        BY <1>7, <4>1, <4>2 DEF HasNone
    <3> QED
      BY <3>1, <3>2
  <2> QED
    BY <2>1, <2>2 DEF PairsKnown, HasNone, q
<1>8. CASE \E p, x, r : HasFirst(t, p, x, r)
  <2>1. PICK p, x, r : HasFirst(t, p, x, r)
    BY <1>8
  <2>2. /\ p \in Seq(Codeds) /\ r \in Seq(Codeds) /\ x \in Doubles
        /\ t = Join(p, Join(x, r)) /\ Aligned(r)
        /\ PairFirst(z, Len(Flat(p)) + 1)
        /\ \A i \in 1..Len(p) : p[i] # "codedEacute"
    BY <2>1 DEF HasFirst, z
  <2>3. Join(x, r) \in Seq(Codeds) /\ p \in Seq(Letters)
    BY <2>2, DoublesAre, JoinIs, CodedsAre
  <2> DEFINE p1 == Put(a, p)
  <2>4. p1 \in Seq(Codeds) /\ HasFront(p1, a, p) /\ Len(p) \in Nat
    BY <2>2, Single
  <2>5. q = Join(p1, Join(x, r))
    BY <2>2, <2>3, PutJoined DEF q
  <2>6. Flat(p1) = Join(h, Flat(p)) /\ Flat(p) \in Names
    BY <1>1, <2>3, FlatFront, FlatTyped DEF h
  <2> HIDE DEF p1
  <2>7. Len(Flat(p1)) + 1 = Len(h) + (Len(Flat(p)) + 1)
    <3>1. HasParts(Flat(p1), h, Flat(p))
      BY <1>2, <2>6, JoinIs DEF Names
    <3> QED
      BY <1>2, <2>6, <3>1 DEF HasParts, Names
  <2>8. PairFirst(Flat(q), Len(Flat(p1)) + 1)
    BY <1>6, <2>2, <2>7
  <2>9. ASSUME NEW i \in 1..Len(p1) PROVE p1[i] # "codedEacute"
    <3>1. CASE i = 1
      BY <2>4, <3>1 DEF HasFront
    <3>2. CASE i # 1
      <4>1. i - 1 \in 1..Len(p) /\ i - 1 + 1 = i
        BY <2>4, <3>2 DEF HasFront
      <4>2. p1[i - 1 + 1] = p[i - 1]
        BY <2>4, <4>1 DEF HasFront
      <4> QED
        BY <2>2, <4>1, <4>2
    <3> QED
      BY <3>1, <3>2
  <2>10. HasFirst(q, p1, x, r)
    BY <2>2, <2>4, <2>5, <2>8, <2>9 DEF HasFirst
  <2> QED
    BY <2>10 DEF PairsKnown, q
<1> QED
  BY <1>4, <1>7, <1>8 DEF PairsKnown

\* A pair in front.
LEMMA PairsKnownInFront ==
    ASSUME NEW x \in Doubles, NEW r \in Seq(Codeds), Aligned(r)
    PROVE  PairsKnown(Join(x, r))
<1> DEFINE e == <<>>
           q == Join(x, r)
<1>1. /\ x \in Seq(Codeds) /\ Flat(x) \in Names /\ Len(Flat(x)) = 6
      /\ \A z \in Names : Pair(Join(Flat(x), z), 1)
  BY DoublesAre
<1>2. x \in Seq(Letters) /\ r \in Seq(Letters)
  BY <1>1, CodedsAre
<1>3. Flat(q) = Join(Flat(x), Flat(r)) /\ Flat(r) \in Names
  BY <1>2, FlatJoined, FlatTyped
<1>4. Len(Flat(q)) >= 6 /\ Len(Flat(q)) \in Nat
  <2>1. HasParts(Join(Flat(x), Flat(r)), Flat(x), Flat(r))
    BY <1>1, <1>3, JoinIs DEF Names
  <2>2. Len(Flat(r)) \in Nat
    BY <1>3 DEF Names
  <2> QED
    BY <1>1, <1>3, <2>1, <2>2 DEF HasParts
<1>5. Pair(Flat(q), 1)
  BY <1>1, <1>3
<1>6. e \in Seq(Codeds) /\ Flat(e) = <<>> /\ Len(e) = 0 /\ Len(Flat(e)) = 0
  BY FlatNothing
<1>7. q \in Seq(Codeds)
  BY <1>1, JoinIs
<1>8. q = Join(e, Join(x, r))
  BY <1>7, JoinNothing
<1> HIDE DEF e, q
<1>9. PairFirst(Flat(q), Len(Flat(e)) + 1)
  <2>1. 1 \in 1..Len(Flat(q)) /\ \A j \in 1..(1 - 1) : FALSE
    BY <1>4
  <2>2. PairFirst(Flat(q), 1)
    BY <1>5, <2>1 DEF PairFirst
  <2> QED
    BY <1>6, <2>2
<1>10. \A i \in 1..Len(e) : e[i] # "codedEacute"
  BY <1>6
<1>11. HasFirst(q, e, x, r)
  BY <1>6, <1>8, <1>9, <1>10 DEF HasFirst, q
<1> QED
  BY <1>11 DEF PairsKnown, q

LEMMA FrontIsNoEscape ==
    ASSUME NEW a \in Letters, a \notin Marks, a # "%", NEW t \in Seq(Letters)
    PROVE  ~IsEscape(Flat(Put(a, t)), 1) /\ Len(Code(a)) = 1
<1>1. HasFront(Flat(Put(a, t)), a, Flat(t))
  BY FlatHead
<1>2. ~IsEscape(Flat(Put(a, t)), 1)
  BY <1>1 DEF HasFront, IsEscape
<1>3. a # "codedPercent" /\ a # "codedSpace" /\ a # "codedEacute"
  BY DEF Marks
<1>4. Code(a) = <<a>>
  BY <1>3, Zenon DEF Code
<1> QED
  BY <1>2, <1>4, OneIn

\* Pairs are where they are expected, or nowhere.
LEMMA PairsAreKnown ==
    ASSUME NEW q0 \in Seq(Codeds), Aligned(q0)
    PROVE  PairsKnown(q0)
<1> DEFINE N == Len(q0)
           B == {j \in 0..N : \A q \in Seq(Codeds) :
                    (Len(q) <= j /\ Aligned(q)) => PairsKnown(q)}
<1>1. N \in Nat
  OBVIOUS
<1>2. PairsKnown(<<>>)
  <2>1. Flat(<<>>) = <<>> /\ Len(<<>>) = 0 /\ \A i \in 1..0 : FALSE
    BY FlatNothing
  <2> QED
    BY <2>1 DEF PairsKnown, HasNone, NoPair
<1>a. ~IsEscape(Flat(<<>>), 1)
  <2>1. Flat(<<>>) = <<>> /\ Len(<<>>) = 0
    BY FlatNothing
  <2> QED
    BY <2>1 DEF IsEscape
<1> HIDE DEF N
<1>3. 0 \in B
  <2>1. \A q \in Seq(Codeds) : Len(q) <= 0 => q = <<>>
    BY EmptySeq
  <2>2. 0 \in 0..N
    BY <1>1
  <2> QED
    BY <1>2, <2>1, <2>2
<1>4. ASSUME NEW j \in 1..N, j - 1 \in B PROVE j \in B
  <2>1. ASSUME NEW q \in Seq(Codeds), Len(q) <= j, Aligned(q), q # <<>>
        PROVE  PairsKnown(q)
    <3>1. PICK a \in Codeds : \E t \in Seq(Codeds) : q = Put(a, t)
      BY <2>1, FrontAndRest
    <3>2. PICK t \in Seq(Codeds) : q = Put(a, t)
      BY <3>1
    <3>3. a \in Letters /\ t \in Seq(Letters) /\ a # "%"
      BY CodedsAre
    <3>4. Len(t) <= j - 1 /\ Len(t) \in Nat
      <4>1. HasFront(q, a, t) /\ Len(t) \in Nat
        BY <3>2, Single
      <4> QED
        BY <1>1, <2>1, <4>1 DEF HasFront
    <3>5. /\ a \notin Singles => Aligned(t)
          /\ \A b \in Codeds : \A u \in Seq(Codeds) :
                a \in Singles /\ t = Put(b, u) => b # "codedEacute" /\ Aligned(u)
      BY <2>1, <3>2, AlignedFront
    <3>6. CASE a \notin Marks
      <4>1. a \notin Singles /\ a # "codedEacute"
        BY <3>6, SinglesAre
      <4>2. PairsKnown(t)
        BY <1>4, <3>4, <3>5, <4>1
      <4>3. ~IsEscape(Flat(q), 1) /\ Len(Code(a)) = 1
        BY <3>2, <3>3, <3>6, FrontIsNoEscape
      <4>4. \A i \in 1..Len(Code(a)) : ~Pair(Flat(q), i)
        <5>1. \A i \in 1..Len(Code(a)) : i = 1
          BY <4>3
        <5> QED
          BY <4>3, <5>1 DEF Pair
      <4> QED
        BY <3>2, <4>1, <4>2, <4>4, PairsKnownBehind
    <3>7. CASE a = "codedEacute"
      <4>1. Aligned(t)
        BY <3>5, <3>7, SinglesAre
      <4> DEFINE x == <<a>>
      <4>2. x \in Doubles /\ q = Join(x, t)
        BY <3>2, <3>7 DEF Doubles, Put, Join
      <4> HIDE DEF x
      <4> QED
        BY <4>1, <4>2, PairsKnownInFront
    <3>8. CASE a \in Singles
      <4>0. /\ a # "codedEacute" /\ a \in Marks /\ Len(Code(a)) = 3 /\ Code(a) \in Names
            /\ Code(a)[2] \in Hex /\ Code(a)[3] \in Hex
        BY <3>8, SinglesAre, BytesAre, CodeIsEscape
      <4>1. ASSUME ~IsEscape(Flat(t), 1), PairsKnown(t) PROVE PairsKnown(q)
        <5> DEFINE h == Code(a)
                   z == Flat(t)
        <5>1. Flat(q) = Join(h, z) /\ z \in Names /\ h \in Names
          BY <3>2, <3>3, <4>0, FlatFront, FlatTyped
        <5>2. /\ Len(h) = 3 /\ h[2] # "%" /\ h[3] # "%" /\ ~IsEscape(z, 1)
          BY <4>0, <4>1, LettersAre DEF Hex, Digits
        <5> HIDE DEF h, z
        <5>3. HasParts(Flat(q), h, z)
          BY <5>1, JoinIs DEF Names
        <5>4. ~IsEscape(Flat(q), 1 + 3)
          <6>1. IsEscape(Join(h, z), Len(h) + 1) <=> IsEscape(z, 1)
            <7>1. 1 \in Nat \ {0}
              OBVIOUS
            <7> QED
              BY <5>1, <7>1, EscapeBehind
          <6>2. Len(h) + 1 = 1 + 3
            BY <5>2
          <6> QED
            BY <5>1, <5>2, <6>1, <6>2
        <5>5. ~IsEscape(Flat(q), 2) /\ ~IsEscape(Flat(q), 3)
          <6>1. 2 \in 1..Len(h) /\ 3 \in 1..Len(h)
            BY <5>2
          <6>2. Flat(q)[2] = h[2] /\ Flat(q)[3] = h[3]
            BY <5>3, <6>1 DEF HasParts
          <6> QED
            BY <5>2, <6>2 DEF IsEscape
        <5>6. \A i \in 1..Len(h) : ~Pair(Flat(q), i)
          <6>1. \A i \in 1..Len(h) : i = 1 \/ i = 2 \/ i = 3
            BY <5>2
          <6> QED
            BY <5>4, <5>5, <6>1 DEF Pair
        <5> QED
          BY <3>2, <4>0, <4>1, <5>6, PairsKnownBehind DEF h
      <4>2. CASE t = <<>>
        BY <1>2, <1>a, <4>1, <4>2
      <4>3. CASE t # <<>>
        <5>1. PICK b \in Codeds : \E u \in Seq(Codeds) : t = Put(b, u)
          BY <4>3, FrontAndRest
        <5>2. PICK u \in Seq(Codeds) : t = Put(b, u)
          BY <5>1
        <5>3. b # "codedEacute" /\ Aligned(u)
          BY <3>5, <3>8, <5>2
        <5>4. b \in Letters /\ u \in Seq(Letters) /\ b # "%"
          BY CodedsAre
        <5>5. CASE b \in Singles
          <6> DEFINE p == <<a>>
                     s == <<b>>
                     x == Join(p, s)
          <6>1. p \in Seq(Codeds) /\ s \in Seq(Codeds) /\ q = Join(p, t) /\ t = Join(s, u)
            BY <3>2, <5>2, OneIn DEF Put, Join
          <6>2. x \in Doubles
            BY <3>8, <5>5, TwoAreDouble
          <6>3. q = Join(x, u)
            <7> HIDE DEF p, s
            <7> QED
              BY <6>1, JoinAssociative
          <6> HIDE DEF x
          <6> QED
            BY <5>3, <6>2, <6>3, PairsKnownInFront
        <5>6. CASE b \notin Singles
          <6>1. b \notin Marks
            BY <5>3, <5>6, SinglesAre
          <6>2. ~IsEscape(Flat(t), 1) /\ Len(Code(b)) = 1
            BY <5>2, <5>4, <6>1, FrontIsNoEscape
          <6>3. Len(u) <= j - 1
            <7>1. HasFront(t, b, u) /\ Len(u) \in Nat
              BY <5>2, Single
            <7> QED
              BY <3>4, <7>1 DEF HasFront
          <6>4. PairsKnown(u)
            BY <1>4, <5>3, <6>3
          <6>5. \A i \in 1..Len(Code(b)) : ~Pair(Flat(t), i)
            <7>1. \A i \in 1..Len(Code(b)) : i = 1
              BY <6>2
            <7> QED
              BY <6>2, <7>1 DEF Pair
          <6>6. PairsKnown(t)
            BY <5>2, <5>3, <6>4, <6>5, PairsKnownBehind
          <6> QED
            BY <4>1, <6>2, <6>6
        <5> QED
          BY <5>5, <5>6
      <4> QED
        BY <4>2, <4>3
    <3> QED
      BY <3>6, <3>7, <3>8, SinglesAre
  <2>2. \A q \in Seq(Codeds) : (Len(q) <= j /\ Aligned(q)) => PairsKnown(q)
    BY <1>2, <2>1
  <2>3. j \in 0..N
    BY <1>1
  <2> QED
    BY <2>2, <2>3
<1> HIDE DEF B
<1>5. 0..N \subseteq B
  BY <1>1, <1>3, <1>4, SetInduction
<1>6. N \in B /\ N <= N
  BY <1>1, <1>5
<1> QED
  BY <1>6 DEF B, N

-----------------------------------------------------------------------------
(* One escape *)

\* The byte of an escape in the address of q.
ByteOf(q, x, y) ==
    \E k \in 1..Len(q) :
        \/ q[k] \in Singles /\ Code(q[k])[2] = x /\ Code(q[k])[3] = y
        \/ q[k] = "codedEacute" /\ ((x = "C" /\ y = "3") \/ (x = "A" /\ y = "9"))

LEMMA ByteBehind ==
    ASSUME NEW a \in Codeds, NEW t \in Seq(Codeds), NEW x, NEW y, ByteOf(t, x, y)
    PROVE  ByteOf(Put(a, t), x, y)
<1>1. PICK k \in 1..Len(t) :
         \/ t[k] \in Singles /\ Code(t[k])[2] = x /\ Code(t[k])[3] = y
         \/ t[k] = "codedEacute" /\ ((x = "C" /\ y = "3") \/ (x = "A" /\ y = "9"))
  BY DEF ByteOf
<1>2. HasFront(Put(a, t), a, t) /\ Len(t) \in Nat
  BY Single
<1>3. k + 1 \in 1..Len(Put(a, t)) /\ Put(a, t)[k + 1] = t[k]
  BY <1>2 DEF HasFront
<1> QED
  BY <1>1, <1>3 DEF ByteOf

\* An escape does not begin inside of another.
LEMMA EscapesApart ==
    ASSUME NEW s, NEW i \in Int, NEW j \in Int, IsEscape(s, i), IsEscape(s, j),
           i <= j, j < i + 3
    PROVE  i = j
<1>1. "%" \notin Hex
  BY LettersAre DEF Hex, Digits
<1>2. j = i \/ j = i + 1 \/ j = i + 2
  OBVIOUS
<1> QED
  BY <1>1, <1>2 DEF IsEscape

LEMMA EscapesKnown ==
    ASSUME NEW q0 \in Seq(Codeds), NEW i0 \in Nat \ {0}, IsEscape(Flat(q0), i0)
    PROVE  ByteOf(q0, Flat(q0)[i0 + 1], Flat(q0)[i0 + 2])
<1> DEFINE Known(q) == \A i \in Nat \ {0} :
                          IsEscape(Flat(q), i) => ByteOf(q, Flat(q)[i + 1], Flat(q)[i + 2])
           N == Len(q0)
           B == {j \in 0..N : \A q \in Seq(Codeds) : Len(q) = j => Known(q)}
<1>1. N \in Nat
  OBVIOUS
<1>2. Known(<<>>)
  <2>1. Flat(<<>>) = <<>> /\ Len(<<>>) = 0
    BY FlatNothing
  <2> QED
    BY <2>1 DEF IsEscape
<1> HIDE DEF N
<1>3. 0 \in B
  <2> HIDE DEF Known
  <2>1. \A q \in Seq(Codeds) : Len(q) = 0 => q = <<>>
    BY EmptySeq
  <2>2. 0 \in 0..N
    BY <1>1
  <2> QED
    BY <1>2, <2>1, <2>2
<1>4. ASSUME NEW j \in 1..N, j - 1 \in B PROVE j \in B
  <2>1. ASSUME NEW q \in Seq(Codeds), Len(q) = j, NEW i \in Nat \ {0}, IsEscape(Flat(q), i)
        PROVE  ByteOf(q, Flat(q)[i + 1], Flat(q)[i + 2])
    <3>1. q # <<>>
      BY <1>1, <2>1
    <3>2. PICK a \in Codeds : \E t \in Seq(Codeds) : q = Put(a, t)
      BY <3>1, FrontAndRest
    <3>3. PICK t \in Seq(Codeds) : q = Put(a, t)
      BY <3>2
    <3>4. a \in Letters /\ t \in Seq(Letters) /\ a # "%"
      BY CodedsAre
    <3>a. HasFront(q, a, t) /\ Len(t) \in Nat
      BY <3>3, Single
    <3>5. Known(t)
      <4>1. Len(t) = j - 1
        BY <1>1, <2>1, <3>a DEF HasFront
      <4> HIDE DEF Known
      <4> QED
        BY <1>4, <4>1
    <3> DEFINE h == Code(a)
               z == Flat(t)
               s == Flat(q)
    <3>6. s = Join(h, z) /\ h \in Names /\ z \in Names /\ Len(h) \in Nat \ {0}
      BY <3>3, <3>4, FlatFront, FlatTyped, CodeTyped
    <3>7. \A k \in Nat \ {0} : IsEscape(z, k) => ByteOf(t, z[k + 1], z[k + 2])
      BY <3>5
    <3>8. IsEscape(s, i)
      BY <2>1
    <3> HIDE DEF h, z, s
    <3>9. HasParts(s, h, z) /\ Len(z) \in Nat
      BY <3>6, JoinIs DEF Names
    <3>10. s[i] = "%" /\ s[i + 1] \in Hex /\ s[i + 2] \in Hex /\ i + 2 <= Len(s)
      BY <3>8 DEF IsEscape
    <3>11. CASE i > Len(h)
      <4> DEFINE k == i - Len(h)
      <4>1. k \in Nat \ {0} /\ i = Len(h) + k
        BY <3>6, <3>11
      <4> HIDE DEF k
      <4>2. IsEscape(z, k)
        BY <3>6, <3>8, <4>1, EscapeBehind
      <4>3. ByteOf(t, z[k + 1], z[k + 2])
        BY <3>7, <4>1, <4>2
      <4>4. s[i + 1] = z[k + 1] /\ s[i + 2] = z[k + 2]
        <5>1. k + 1 \in 1..Len(z) /\ k + 2 \in 1..Len(z)
          BY <3>9, <4>1, <4>2 DEF IsEscape
        <5>2. i + 1 = Len(h) + (k + 1) /\ i + 2 = Len(h) + (k + 2)
          BY <3>6, <4>1
        <5>3. s[Len(h) + (k + 1)] = z[k + 1] /\ s[Len(h) + (k + 2)] = z[k + 2]
          BY <3>9, <5>1 DEF HasParts
        <5> QED
          BY <5>2, <5>3
      <4> QED
        BY <3>3, <4>3, <4>4, ByteBehind DEF s
    <3>12. CASE i <= Len(h)
      <4>1. i \in 1..Len(h)
        BY <3>6, <3>12
      <4>2. s[i] = h[i] /\ \A k \in 1..Len(h) : s[k] = h[k]
        BY <3>9, <4>1 DEF HasParts
      <4>3. 1 \in 1..Len(q) /\ q[1] = a
        BY <3>a DEF HasFront
      <4>4. "%" \notin Hex
        BY LettersAre DEF Hex, Digits
      <4>5. CASE a \notin Marks
        <5>1. ~IsEscape(s, 1) /\ Len(h) = 1
          BY <3>3, <3>4, <4>5, FrontIsNoEscape DEF s, h
        <5>2. i = 1
          BY <4>1, <5>1
        <5> QED
          BY <3>8, <5>1, <5>2
      <4>6. CASE a \in Singles
        <5>1. Len(h) = 3 /\ h[2] \in Hex /\ h[3] \in Hex
          BY <4>6, SinglesAre, BytesAre DEF h
        <5>2. i = 1 \/ i = 2 \/ i = 3
          BY <4>1, <5>1
        <5>3. i = 1
          BY <3>10, <4>2, <4>4, <5>1, <5>2
        <5>4. 2 \in 1..Len(h) /\ 3 \in 1..Len(h) /\ i + 1 = 2 /\ i + 2 = 3
          BY <5>1, <5>3
        <5>5. Code(q[1])[2] = s[i + 1] /\ Code(q[1])[3] = s[i + 2] /\ q[1] \in Singles
          BY <4>2, <4>3, <4>6, <5>4 DEF h
        <5> QED
          BY <4>3, <5>5 DEF ByteOf, s
      <4>7. CASE a = "codedEacute"
        <5>1. /\ Len(h) = 6 /\ h[2] = "C" /\ h[3] = "3" /\ h[5] = "A" /\ h[6] = "9"
          BY <4>7, BytesAre DEF h
        <5>2. "C" # "%" /\ "3" # "%" /\ "A" # "%" /\ "9" # "%"
          OBVIOUS
        <5>3. i = 1 \/ i = 2 \/ i = 3 \/ i = 4 \/ i = 5 \/ i = 6
          BY <4>1, <5>1
        <5>4. i = 1 \/ i = 4
          BY <3>10, <4>2, <5>1, <5>2, <5>3
        <5>5. /\ 2 \in 1..Len(h) /\ 3 \in 1..Len(h) /\ 5 \in 1..Len(h) /\ 6 \in 1..Len(h)
              /\ 1 + 1 = 2 /\ 1 + 2 = 3 /\ 4 + 1 = 5 /\ 4 + 2 = 6
          BY <5>1
        <5>6. \/ s[i + 1] = "C" /\ s[i + 2] = "3"
              \/ s[i + 1] = "A" /\ s[i + 2] = "9"
          BY <4>2, <5>1, <5>4, <5>5
        <5>7. q[1] = "codedEacute"
          BY <4>3, <4>7
        <5> QED
          BY <4>3, <5>6, <5>7 DEF ByteOf, s
      <4> QED
        BY <4>5, <4>6, <4>7, SinglesAre
    <3> QED
      BY <3>6, <3>11, <3>12
  <2>2. \A q \in Seq(Codeds) : Len(q) = j => Known(q)
    BY <2>1
  <2>3. j \in 0..N
    BY <1>1
  <2> QED
    BY <2>2, <2>3
<1> HIDE DEF B
<1>5. 0..N \subseteq B
  BY <1>1, <1>3, <1>4, SetInduction
<1>6. N \in B
  BY <1>1, <1>5
<1> QED
  BY <1>6 DEF B, N

\* A mark of one byte, and its escape.
LEMMA EscapeOfMark ==
    ASSUME NEW p \in Seq(Letters), NEW a \in Singles, NEW t \in Seq(Letters)
    PROVE  LET s == Flat(Join(p, Put(a, t)))
               i == Len(Flat(p)) + 1
           IN  /\ i \in Nat \ {0} /\ IsEscape(s, i)
               /\ s[i + 1] = Code(a)[2] /\ s[i + 2] = Code(a)[3]
<1> DEFINE h == Code(a)
           z == Flat(t)
           v == Join(h, z)
           u == Flat(p)
           s == Join(u, v)
           i == Len(u) + 1
<1>1. a \in Letters /\ a \in Marks /\ Len(h) = 3
  BY SinglesAre
<1>2. Put(a, t) \in Seq(Letters) /\ Flat(Put(a, t)) = v
  BY <1>1, Single, FlatFront
<1>3. Flat(Join(p, Put(a, t))) = s
  <2> HIDE DEF v
  <2> QED
    BY <1>2, FlatJoined
<1>4. h \in Names /\ z \in Names /\ u \in Names /\ IsEscape(h, 1)
  BY <1>1, CodeIsEscape, FlatTyped
<1> HIDE DEF h, z, u
<1>5. v \in Names /\ HasParts(v, h, z)
  BY <1>4, JoinIs DEF Names
<1>6. 1 \in Nat \ {0}
  OBVIOUS
<1>7. IsEscape(v, 1)
  BY <1>4, <1>6, EscapeFront
<1> HIDE DEF v
<1>8. IsEscape(s, i)
  BY <1>4, <1>5, <1>6, <1>7, EscapeBehind
<1>9. HasParts(s, u, v) /\ Len(u) \in Nat /\ Len(v) \in Nat
  BY <1>4, <1>5, JoinIs DEF Names
<1>10. /\ 2 \in 1..Len(h) /\ 3 \in 1..Len(h) /\ 2 \in 1..Len(v) /\ 3 \in 1..Len(v)
       /\ i + 1 = Len(u) + 2 /\ i + 2 = Len(u) + 3 /\ i \in Nat \ {0}
  <2>1. Len(v) >= 3
    BY <1>7, <1>9 DEF IsEscape
  <2> QED
    BY <1>1, <1>9, <2>1
<1> HIDE DEF s, i
<1>11. s[i + 1] = v[2] /\ s[i + 2] = v[3] /\ v[2] = h[2] /\ v[3] = h[3]
  <2>1. s[Len(u) + 2] = v[2] /\ s[Len(u) + 3] = v[3]
    BY <1>9, <1>10 DEF HasParts
  <2> QED
    BY <1>5, <1>10, <2>1 DEF HasParts
<1>12. i \in Nat \ {0} /\ IsEscape(s, i) /\ s[i + 1] = h[2] /\ s[i + 2] = h[3]
  BY <1>8, <1>10, <1>11
<1> QED
  BY <1>3, <1>12 DEF h, i, u

-----------------------------------------------------------------------------
(* What can be read back *)

Special == {"eacute", "space", "%"}

\* The run of special characters before i begins at s.
RunBegins(name, i, s) ==
    /\ s \in 1..i
    /\ \A j \in s..(i - 1) : name[j] \in Special
    /\ s = 1 \/ name[s - 1] \notin Special
OneByte(name, s, i) == {j \in s..(i - 1) : name[j] # "eacute"}
Begin(name, i) == CHOOSE s : RunBegins(name, i, s)
Odd(name, i) == Cardinality(OneByte(name, Begin(name, i), i)) % 2

LEMMA RunHasBegin ==
    ASSUME NEW name, NEW i \in Nat \ {0}
    PROVE  \E s : RunBegins(name, i, s)
<1> DEFINE S == {s \in 1..i : \A j \in s..(i - 1) : name[j] \in Special}
<1>1. i \in S
  <2>1. \A j \in i..(i - 1) : FALSE
    OBVIOUS
  <2> QED
    BY <2>1
<1>2. S \in SUBSET (0..i) /\ S # {}
  <2>1. \A s \in S : s \in 0..i
    OBVIOUS
  <2> HIDE DEF S
  <2> QED
    BY <1>1, <2>1
<1>3. PICK s \in S : \A y \in S : s <= y
  <2> HIDE DEF S
  <2> QED
    BY <1>2, LeastOf
<1>4. s \in 1..i /\ \A j \in s..(i - 1) : name[j] \in Special
  BY <1>3
<1>5. ASSUME s # 1, name[s - 1] \in Special PROVE FALSE
  <2>1. s - 1 \in 1..i /\ \A j \in (s - 1)..(i - 1) : j = s - 1 \/ j \in s..(i - 1)
    BY <1>4, <1>5
  <2>2. s - 1 \in S
    BY <1>4, <1>5, <2>1
  <2>3. ~(s <= s - 1)
    BY <1>4
  <2> QED
    BY <1>3, <2>2, <2>3
<1>6. RunBegins(name, i, s)
  BY <1>4, <1>5 DEF RunBegins
<1> QED
  BY <1>6

LEMMA RunHasOne ==
    ASSUME NEW name, NEW i \in Nat \ {0}, NEW s, NEW t,
           RunBegins(name, i, s), RunBegins(name, i, t)
    PROVE  s = t
<1>1. /\ s \in 1..i /\ t \in 1..i
      /\ \A j \in s..(i - 1) : name[j] \in Special
      /\ \A j \in t..(i - 1) : name[j] \in Special
      /\ s = 1 \/ name[s - 1] \notin Special
      /\ t = 1 \/ name[t - 1] \notin Special
  BY DEF RunBegins
<1>2. ~(s < t)
  <2>1. SUFFICES ASSUME s < t PROVE FALSE
    OBVIOUS
  <2>2. t - 1 \in s..(i - 1) /\ t # 1
    BY <1>1, <2>1
  <2> QED
    BY <1>1, <2>2
<1>3. ~(t < s)
  <2>1. SUFFICES ASSUME t < s PROVE FALSE
    OBVIOUS
  <2>2. s - 1 \in t..(i - 1) /\ s # 1
    BY <1>1, <2>1
  <2> QED
    BY <1>1, <2>2
<1> QED
  BY <1>1, <1>2, <1>3

LEMMA BeginIs ==
    ASSUME NEW name, NEW i \in Nat \ {0}
    PROVE  /\ RunBegins(name, i, Begin(name, i))
           /\ \A s : RunBegins(name, i, s) => s = Begin(name, i)
<1>1. RunBegins(name, i, Begin(name, i))
  BY RunHasBegin, Zenon DEF Begin
<1> QED
  BY <1>1, RunHasOne

\* The next character, and what the count of one byte makes of it.
LEMMA OddNext ==
    ASSUME NEW name, NEW i \in Nat \ {0}
    PROVE  /\ Odd(name, i) \in {0, 1}
           /\ name[i] \notin Special => Odd(name, i + 1) = 0
           /\ name[i] \in Special /\ name[i] # "eacute" => Odd(name, i + 1) = 1 - Odd(name, i)
           /\ name[i] = "eacute" => Odd(name, i + 1) = Odd(name, i)
<1> DEFINE s == Begin(name, i)
           t == Begin(name, i + 1)
<1>1. RunBegins(name, i, s) /\ RunBegins(name, i + 1, t)
      /\ \A r : RunBegins(name, i + 1, r) => r = t
  <2>1. i + 1 \in Nat \ {0}
    OBVIOUS
  <2> QED
    BY <2>1, BeginIs
<1>2. Odd(name, i) = Cardinality(OneByte(name, s, i)) % 2
      /\ Odd(name, i + 1) = Cardinality(OneByte(name, t, i + 1)) % 2
  BY DEF Odd
<1> HIDE DEF s, t
<1>3. s \in 1..i /\ \A j \in s..(i - 1) : name[j] \in Special
  BY <1>1 DEF RunBegins
<1>4. IsFiniteSet(OneByte(name, s, i)) /\ Cardinality(OneByte(name, s, i)) \in Nat
  <2>1. IsFiniteSet(s..(i - 1))
    BY <1>3, FS_Interval
  <2>2. OneByte(name, s, i) \subseteq s..(i - 1)
    BY DEF OneByte
  <2>3. IsFiniteSet(OneByte(name, s, i))
    BY <2>1, <2>2, FS_Subset
  <2> QED
    BY <2>3, FS_CardinalityType
<1>5. Odd(name, i) \in {0, 1}
  BY <1>2, <1>4
<1>6. ASSUME name[i] \notin Special PROVE Odd(name, i + 1) = 0
  <2>1. RunBegins(name, i + 1, i + 1)
    <3>1. \A j \in (i + 1)..(i + 1 - 1) : FALSE
      OBVIOUS
    <3>2. i + 1 - 1 = i /\ i + 1 \in 1..(i + 1)
      OBVIOUS
    <3> QED
      BY <1>6, <3>1, <3>2 DEF RunBegins
  <2>2. t = i + 1
    BY <1>1, <2>1
  <2>3. OneByte(name, t, i + 1) = {}
    BY <2>2 DEF OneByte
  <2>4. Cardinality({}) = 0
    BY FS_EmptySet
  <2> QED
    BY <1>2, <2>3, <2>4
<1>7. ASSUME name[i] \in Special PROVE t = s
  <2>1. \A j \in s..(i + 1 - 1) : j = i \/ j \in s..(i - 1)
    BY <1>3
  <2>2. s \in 1..(i + 1) /\ (s = 1 \/ name[s - 1] \notin Special)
    BY <1>1, <1>3 DEF RunBegins
  <2>3. RunBegins(name, i + 1, s)
    BY <1>3, <1>7, <2>1, <2>2 DEF RunBegins
  <2> QED
    BY <1>1, <2>3
<1>8. ASSUME name[i] \in Special, name[i] # "eacute"
      PROVE  Odd(name, i + 1) = 1 - Odd(name, i)
  <2> DEFINE S == OneByte(name, s, i)
  <2>1. OneByte(name, s, i + 1) = S \cup {i}
    <3>1. \A j \in s..(i + 1 - 1) : j = i \/ j \in s..(i - 1)
      BY <1>3
    <3>2. i \in s..(i + 1 - 1) /\ \A j \in s..(i - 1) : j \in s..(i + 1 - 1)
      BY <1>3
    <3> QED
      BY <1>8, <3>1, <3>2 DEF OneByte
  <2>2. i \notin S
    BY <1>3 DEF OneByte
  <2>3. IsFiniteSet(S) /\ Cardinality(S) \in Nat
    BY <1>4
  <2> HIDE DEF S
  <2>4. Cardinality(S \cup {i}) = Cardinality(S) + 1
    BY <2>2, <2>3, FS_AddElement
  <2> DEFINE k == Cardinality(S)
  <2>5. Odd(name, i + 1) = (k + 1) % 2 /\ Odd(name, i) = k % 2 /\ k \in Nat
    BY <1>2, <1>7, <1>8, <2>1, <2>3, <2>4 DEF S
  <2> HIDE DEF k
  <2>6. (k + 1) % 2 = 1 - (k % 2)
    BY <2>5
  <2> QED
    BY <2>5, <2>6
<1>9. ASSUME name[i] = "eacute" PROVE Odd(name, i + 1) = Odd(name, i)
  <2>1. name[i] \in Special
    BY <1>9 DEF Special
  <2>2. OneByte(name, s, i + 1) = OneByte(name, s, i)
    <3>1. \A j \in s..(i + 1 - 1) : j = i \/ j \in s..(i - 1)
      BY <1>3
    <3>2. \A j \in s..(i - 1) : j \in s..(i + 1 - 1)
      BY <1>3
    <3> QED
      BY <1>9, <3>1, <3>2 DEF OneByte
  <2> QED
    BY <1>2, <1>7, <2>1, <2>2
<1> QED
  BY <1>5, <1>6, <1>8, <1>9

LEMMA MarkIs ==
    \A c \in Chars :
        /\ Mark(c) \in Codeds /\ Plain(Mark(c)) = c
        /\ Mark(c) \in Singles <=> (c = "%" \/ c = "space")
        /\ Mark(c) = "codedEacute" <=> c = "eacute"
        /\ Mark(c) \in Marks \/ Mark(c) = c
<1> SUFFICES ASSUME NEW c \in Chars
             PROVE  /\ Mark(c) \in Codeds /\ Plain(Mark(c)) = c
                    /\ Mark(c) \in Singles <=> (c = "%" \/ c = "space")
                    /\ Mark(c) = "codedEacute" <=> c = "eacute"
                    /\ Mark(c) \in Marks \/ Mark(c) = c
  OBVIOUS
<1>1. c \in Letters /\ c \notin Marks
  BY LettersAre
<1>2. CASE c = "%"
  <2>1. Mark(c) = "codedPercent" /\ Plain("codedPercent") = "%"
    BY <1>2 DEF Mark, Plain
  <2> QED
    BY <1>2, <2>1, CodedsAre DEF Singles, Marks
<1>3. CASE c = "space"
  <2>1. Mark(c) = "codedSpace" /\ Plain("codedSpace") = "space"
    BY <1>3 DEF Mark, Plain
  <2> QED
    BY <1>3, <2>1, CodedsAre DEF Singles, Marks
<1>4. CASE c = "eacute"
  <2>1. Mark(c) = "codedEacute" /\ Plain("codedEacute") = "eacute"
    BY <1>4 DEF Mark, Plain
  <2> QED
    BY <1>4, <2>1, CodedsAre DEF Singles, Marks
<1>5. CASE ~(c = "%" \/ c = "space" \/ c = "eacute")
  <2>1. Mark(c) = c
    BY <1>5, Zenon DEF Mark
  <2>2. c # "codedPercent" /\ c # "codedSpace" /\ c # "codedEacute"
    BY <1>1 DEF Marks
  <2>3. Plain(c) = c
    BY <2>2, Zenon DEF Plain
  <2> QED
    BY <1>1, <1>5, <2>1, <2>2, <2>3 DEF Codeds, Singles
<1> QED
  BY <1>2, <1>3, <1>4, <1>5

LEMMA MarkedIs ==
    ASSUME NEW name \in Names
    PROVE  /\ Marked(name) \in Seq(Codeds) /\ Len(Marked(name)) = Len(name)
           /\ \A i \in 1..Len(name) : Marked(name)[i] = Mark(name[i]) /\ name[i] \in Chars
<1>1. Len(name) \in Nat /\ \A i \in 1..Len(name) : name[i] \in Chars
  BY DEF Names
<1>2. \A i \in 1..Len(name) : Mark(name[i]) \in Codeds
  BY <1>1, MarkIs
<1> QED
  BY <1>1, <1>2 DEF Marked

\* Where a name can be read back, its pairs are where they are expected.
LEMMA ReadableIsAligned ==
    ASSUME NEW name \in Names, Readable(name)
    PROVE  Aligned(Marked(name))
<1> DEFINE q == Marked(name)
           f == [i \in 1..(Len(name) + 1) |-> Odd(name, i)]
<1>1. /\ q \in Seq(Codeds) /\ Len(q) = Len(name) /\ Len(name) \in Nat
      /\ \A i \in 1..Len(name) : q[i] = Mark(name[i]) /\ name[i] \in Chars
  BY MarkedIs DEF Names
<1>2. \A i \in 1..(Len(name) + 1) : f[i] = Odd(name, i)
  OBVIOUS
<1> HIDE DEF q, f
<1>3. f[1] = 0
  <2>1. RunBegins(name, 1, 1)
    <3>1. 1 \in 1..1 /\ \A j \in 1..(1 - 1) : FALSE
      OBVIOUS
    <3> QED
      BY <3>1 DEF RunBegins
  <2>2. Begin(name, 1) = 1
    <3>1. 1 \in Nat \ {0}
      OBVIOUS
    <3> QED
      BY <2>1, <3>1, BeginIs
  <2>3. OneByte(name, 1, 1) = {}
    BY DEF OneByte
  <2>4. 1 \in 1..(Len(name) + 1) /\ Cardinality({}) = 0
    BY <1>1, FS_EmptySet
  <2>5. Odd(name, 1) = Cardinality({}) % 2
    BY <2>2, <2>3, Zenon DEF Odd
  <2> QED
    BY <1>2, <2>4, <2>5
<1>4. ASSUME NEW i \in 1..Len(q)
      PROVE  /\ q[i] \in Singles => f[i + 1] = 1 - f[i]
             /\ q[i] \notin Singles => f[i + 1] = 0
             /\ q[i] = "codedEacute" => f[i] = 0
  <2>1. /\ i \in 1..Len(name) /\ i \in 1..(Len(name) + 1) /\ i + 1 \in 1..(Len(name) + 1)
        /\ i \in Nat \ {0}
    BY <1>1
  <2>2. f[i] = Odd(name, i) /\ f[i + 1] = Odd(name, i + 1)
    BY <1>2, <2>1
  <2>3. /\ q[i] \in Singles <=> (name[i] = "%" \/ name[i] = "space")
        /\ q[i] = "codedEacute" <=> name[i] = "eacute"
    BY <1>1, <2>1, MarkIs
  <2>4. /\ Odd(name, i) \in {0, 1}
        /\ name[i] \notin Special => Odd(name, i + 1) = 0
        /\ name[i] \in Special /\ name[i] # "eacute" => Odd(name, i + 1) = 1 - Odd(name, i)
        /\ name[i] = "eacute" => Odd(name, i + 1) = Odd(name, i)
    BY <2>1, OddNext
  <2>5. ASSUME name[i] = "eacute" PROVE Odd(name, i) = 0
    <3> DEFINE s == Begin(name, i)
    <3>1. RunBegins(name, i, s)
      BY <2>1, BeginIs
    <3> HIDE DEF s
    <3>2. /\ s \in 1..i /\ \A j \in s..(i - 1) : name[j] \in Special
          /\ s = 1 \/ name[s - 1] \notin Special
      BY <3>1 DEF RunBegins
    <3>3. \A j \in s..i : name[j] \in {"eacute", "space", "%"}
      <4>1. \A j \in s..i : j = i \/ j \in s..(i - 1)
        BY <3>2
      <4> QED
        BY <2>5, <3>2, <4>1 DEF Special
    <3>4. {j \in s..i : name[j] # "eacute"} = OneByte(name, s, i)
      <4>1. \A j \in s..i : j = i \/ j \in s..(i - 1)
        BY <3>2
      <4>2. \A j \in s..(i - 1) : j \in s..i
        BY <3>2
      <4> QED
        BY <2>5, <4>1, <4>2 DEF OneByte
    <3>5. ~Ambiguous(name, i)
      BY <1>1, <2>1 DEF Readable, Names
    <3>6. ~(Cardinality(OneByte(name, s, i)) % 2 = 1)
      <4> DEFINE none == Cardinality({j \in s..i : name[j] # "eacute"}) % 2 = 1
      <4>1. s = 1 \/ name[s - 1] \notin {"eacute", "space", "%"}
        <5>1. s = 1 \/ name[s - 1] \notin Special
          BY <3>2
        <5>2. \A c : c \in Special <=> c \in {"eacute", "space", "%"}
          BY DEF Special
        <5> QED
          BY <5>1, <5>2, Zenon
      <4>2. ~none
        BY <2>5, <3>2, <3>3, <3>5, <4>1 DEF Ambiguous
      <4> QED
        BY <3>4, <4>2
    <3> QED
      BY <2>4, <3>6 DEF Odd, s
  <2>6. name[i] \in Special <=> (name[i] = "%" \/ name[i] = "space" \/ name[i] = "eacute")
    BY DEF Special
  <2> QED
    BY <2>2, <2>3, <2>4, <2>5, <2>6
<1>5. Counts(q, f)
  BY <1>3, <1>4 DEF Counts
<1> QED
  BY <1>5 DEF Aligned, q

\* Characters that are no marks are those of the name.
LEMMA DecodedIs ==
    ASSUME NEW name \in Names, NEW m, NEW Gone, Decoded(Marked(name), m, Gone)
    PROVE  /\ m \in Seq(Letters) /\ Len(m) = Len(name)
           /\ \A i \in 1..Len(name) : m[i] = Mark(name[i]) \/ m[i] = name[i]
           /\ \A i \in 1..Len(name) : m[i] \in Marks \/ m[i] = name[i]
           /\ \A i \in 1..Len(name) : m[i] \notin Gone
<1>1. /\ Len(Marked(name)) = Len(name)
      /\ \A i \in 1..Len(name) : Marked(name)[i] = Mark(name[i]) /\ name[i] \in Chars
  BY MarkedIs
<1>2. /\ m \in Seq(Letters) /\ Len(m) = Len(name)
      /\ \A i \in 1..Len(name) :
            m[i] \in {Marked(name)[i], Plain(Marked(name)[i])} /\ m[i] \notin Gone
  BY <1>1 DEF Decoded
<1>3. \A i \in 1..Len(name) : m[i] = Mark(name[i]) \/ m[i] = name[i]
  BY <1>1, <1>2, MarkIs
<1>4. \A i \in 1..Len(name) : m[i] \in Marks \/ m[i] = name[i]
  BY <1>1, <1>3, MarkIs
<1> QED
  BY <1>2, <1>3, <1>4

LEMMA ReadableLooks ==
    ASSUME NEW name \in Names, Readable(name), NEW m, NEW Gone,
           Decoded(Marked(name), m, Gone), NEW j \in 1..Len(name), NEW x \in Hex, NEW y \in Hex,
           <<x, y>> \in Bytes(name[j])
    PROVE  ~Looks(m, x, y)
<1>1. SUFFICES ASSUME Looks(m, x, y) PROVE FALSE
  OBVIOUS
<1>2. /\ Len(m) = Len(name) /\ Len(name) \in Nat
      /\ \A i \in 1..Len(name) : m[i] \in Marks \/ m[i] = name[i]
  BY DecodedIs DEF Names
<1>3. PICK i \in 1..Len(m) : i + 2 <= Len(m) /\ m[i] = "%" /\ m[i + 1] = x /\ m[i + 2] = y
  BY <1>1 DEF Looks
<1>4. i \in 1..Len(name) /\ i + 1 \in 1..Len(name) /\ i + 2 \in 1..Len(name)
  BY <1>2, <1>3
<1>5. "%" \notin Marks /\ x \notin Marks /\ y \notin Marks
  BY LettersAre
<1>6. name[i] = "%" /\ name[i + 1] = x /\ name[i + 2] = y
  BY <1>2, <1>3, <1>4, <1>5
<1>7. IsEscape(name, i)
  BY <1>2, <1>3, <1>6 DEF IsEscape
<1>8. i \in DOMAIN name /\ j \in DOMAIN name
  BY <1>4 DEF Names
<1>9. <<name[i + 1], name[i + 2]>> \in Bytes(name[j])
  BY <1>6
<1>10. Ambiguous(name, i)
  BY <1>7, <1>8, <1>9 DEF Ambiguous
<1> QED
  BY <1>8, <1>10 DEF Readable

-----------------------------------------------------------------------------
(* The turns of the loops *)

LEMMA PartIs ==
    ASSUME NEW u \in Names, NEW w \in Names, w # <<>>, NEW z \in Names
    PROVE  LET s == Join(u, Join(w, z))
           IN  /\ SubSeq(s, Len(u) + 1, Len(u) + Len(w)) = w
               /\ \A k \in 1..Len(w) : s[Len(u) + k] = w[k]
<1> DEFINE v == Join(w, z)
           s == Join(u, v)
<1>1. v \in Names /\ HasParts(v, w, z)
  BY JoinIs DEF Names
<1>2. Found(v, w, 1)
  BY FoundInFront
<1> HIDE DEF v
<1>3. 1 \in 1..(Len(v) + 1) /\ Len(u) \in Nat /\ Len(w) \in Nat /\ Len(z) \in Nat
  BY <1>1 DEF Names
<1>4. Found(u \o v, w, Len(u) + 1) <=> Found(v, w, 1)
  BY <1>1, <1>3, FoundBehind DEF Names
<1>5. Found(s, w, Len(u) + 1)
  BY <1>2, <1>4 DEF Join
<1>6. HasParts(s, u, v)
  BY <1>1, JoinIs DEF Names
<1> HIDE DEF s
<1>7. Len(u) + 1 + Len(w) - 1 = Len(u) + Len(w)
  BY <1>3
<1>8. SubSeq(s, Len(u) + 1, Len(u) + Len(w)) = w
  BY <1>5, <1>7 DEF Found
<1>9. ASSUME NEW k \in 1..Len(w) PROVE s[Len(u) + k] = w[k]
  <2>1. k \in 1..Len(v)
    BY <1>1, <1>3 DEF HasParts
  <2>2. s[Len(u) + k] = v[k]
    BY <1>6, <2>1 DEF HasParts
  <2> QED
    BY <1>1, <2>2 DEF HasParts
<1> QED
  BY <1>8, <1>9 DEF s, v

LEMMA TwoCharacters ==
    ASSUME NEW s \in Names, NEW i \in Nat \ {0}, i + 1 <= Len(s)
    PROVE  SubSeq(s, i, i + 1) = <<s[i], s[i + 1]>>
<1>1. i \in Int /\ i + 1 \in Int /\ i <= i + 1 /\ (i + 1) - i + 1 = 2 /\ Len(s) \in Nat
  BY DEF Names
<1>2. \A k \in i..(i + 1) : s[k] \in Chars
  BY <1>1 DEF Names
<1> DEFINE last == i + 1
           p == SubSeq(s, i, last)
           t == <<s[i], s[i + 1]>>
<1>3. /\ p \in Seq(Chars)
      /\ Len(p) = IF i <= last THEN last - i + 1 ELSE 0
      /\ \A k \in 1..(last - i + 1) : p[k] = s[i + k - 1]
  <2> HIDE DEF last
  <2>1. last \in Int /\ \A k \in i..last : s[k] \in Chars
    BY <1>1, <1>2 DEF last
  <2> QED
    BY <1>1, <2>1, SubSeqProperties
<1>4. s[i] \in Chars /\ s[i + 1] \in Chars
  BY <1>1, <1>2
<1>5. t \in Seq(Chars) /\ Len(t) = 2 /\ t[1] = s[i] /\ t[2] = s[i + 1]
  BY <1>4
<1>6. Len(p) = 2 /\ 1 \in 1..(last - i + 1) /\ 2 \in 1..(last - i + 1)
      /\ i + 1 - 1 = i /\ i + 2 - 1 = i + 1
  BY <1>1, <1>3
<1>7. p[1] = s[i] /\ p[2] = s[i + 1]
  BY <1>3, <1>6
<1> HIDE DEF p, t, last
<1>8. \A k \in 1..Len(t) : t[k] = p[k]
  <2>1. \A k \in 1..Len(t) : k = 1 \/ k = 2
    BY <1>5
  <2> QED
    BY <1>5, <1>7, <2>1
<1>9. p = t
  BY <1>3, <1>5, <1>6, <1>8, SeqEqual
<1> QED
  BY <1>9 DEF p, t, last

LEMMA SplitAt ==
    ASSUME NEW C, NEW q0 \in Seq(C), NEW k0 \in 1..Len(q0)
    PROVE  \E p, t \in Seq(C) : q0 = Join(p, Put(q0[k0], t))
<1> DEFINE Split(q) == \A k \in 1..Len(q) : \E p, t \in Seq(C) : q = Join(p, Put(q[k], t))
           N == Len(q0)
           B == {j \in 0..N : \A q \in Seq(C) : Len(q) = j => Split(q)}
<1>1. N \in Nat /\ <<>> \in Seq(C)
  OBVIOUS
<1> HIDE DEF N
<1>2. 0 \in B
  <2>1. \A q \in Seq(C) : Len(q) = 0 => Split(q)
    OBVIOUS
  <2>2. 0 \in 0..N
    BY <1>1
  <2> QED
    BY <2>1, <2>2
<1>3. ASSUME NEW j \in 1..N, j - 1 \in B PROVE j \in B
  <2>1. ASSUME NEW q \in Seq(C), Len(q) = j, NEW k \in 1..Len(q)
        PROVE  \E p, t \in Seq(C) : q = Join(p, Put(q[k], t))
    <3>1. q # <<>>
      BY <1>1, <2>1
    <3>2. PICK a \in C : \E t \in Seq(C) : q = Put(a, t)
      BY <3>1, FrontAndRest
    <3>3. PICK t \in Seq(C) : q = Put(a, t)
      BY <3>2
    <3>4. HasFront(q, a, t) /\ Len(t) \in Nat
      BY <3>3, Single
    <3>5. CASE k = 1
      <4>1. q[k] = a
        BY <3>4, <3>5 DEF HasFront
      <4> DEFINE e == <<>>
      <4>2. e \in Seq(C) /\ q = Join(e, Put(q[k], t))
        BY <1>1, <3>3, <4>1, JoinNothing
      <4> HIDE DEF e
      <4> QED
        BY <4>2
    <3>6. CASE k # 1
      <4>1. k - 1 \in 1..Len(t) /\ k - 1 + 1 = k /\ Len(t) = j - 1
        BY <1>1, <2>1, <3>4, <3>6 DEF HasFront
      <4>2. q[k] = t[k - 1]
        <5>1. q[k - 1 + 1] = t[k - 1]
          BY <3>4, <4>1 DEF HasFront
        <5> QED
          BY <4>1, <5>1
      <4>3. PICK p, u \in Seq(C) : t = Join(p, Put(t[k - 1], u))
        BY <1>3, <4>1
      <4> DEFINE v == Put(q[k], u)
      <4>4. v \in Seq(C) /\ t = Join(p, v)
        <5>1. q[k] \in C
          BY <2>1
        <5> QED
          BY <4>2, <4>3, <5>1, Single
      <4>5. Put(a, p) \in Seq(C)
        BY Single
      <4> HIDE DEF v
      <4>6. q = Join(Put(a, p), v)
        BY <3>3, <4>4, PutJoined
      <4> QED
        BY <4>5, <4>6 DEF v
    <3> QED
      BY <3>5, <3>6
  <2>2. \A q \in Seq(C) : Len(q) = j => Split(q)
    BY <2>1
  <2>3. j \in 0..N
    BY <1>1
  <2> QED
    BY <2>2, <2>3
<1> HIDE DEF B
<1>4. 0..N \subseteq B
  BY <1>1, <1>2, <1>3, SetInduction
<1>5. N \in B
  BY <1>1, <1>4
<1> QED
  BY <1>5 DEF B, N

LEMMA FlatPlain == \A s \in Names : Flat(s) = s
<1> SUFFICES ASSUME NEW s \in Names PROVE Flat(s) = s
  OBVIOUS
<1>1. s \in Seq(Letters)
  <2>1. Chars \subseteq Letters
    BY LettersAre
  <2> QED
    BY <2>1, SeqMonotonic DEF Names
<1>2. \A i \in 1..Len(s) : s[i] \in Chars
  BY DEF Names
<1>3. ASSUME NEW c \in Marks, NEW by PROVE Spelt(s, c, by) = s
  <2>1. \A i \in 1..Len(s) : s[i] # c
    BY <1>2, LettersAre
  <2>2. c \in Letters
    BY DEF Letters
  <2> QED
    BY <1>1, <2>1, <2>2, ReplaceAbsent
<1>4. "codedPercent" \in Marks /\ "codedSpace" \in Marks /\ "codedEacute" \in Marks
  BY DEF Marks
<1> QED
  BY <1>3, <1>4, Zenon DEF Flat

LEMMA BytesDecoded ==
    /\ \A c \in Singles : /\ FromLatin1(<<Code(c)[2], Code(c)[3]>>) = <<Plain(c)>>
                          /\ Escape(<<Code(c)[2], Code(c)[3]>>) = Code(c)
                          /\ <<Code(c)[2], Code(c)[3]>> # <<"C", "3">>
    /\ FromLatin1(<<"C", "3">>) = <<"other">> /\ FromLatin1(<<"A", "9">>) = <<"other">>
<1>1. /\ <<"2", "0">> # <<"2", "5">> /\ <<"C", "3">> # <<"2", "0">> /\ <<"C", "3">> # <<"2", "5">>
      /\ <<"A", "9">> # <<"2", "0">> /\ <<"A", "9">> # <<"2", "5">>
  OBVIOUS
<1>2. /\ FromLatin1(<<"2", "0">>) = <<"space">> /\ FromLatin1(<<"2", "5">>) = <<"%">>
      /\ FromLatin1(<<"C", "3">>) = <<"other">> /\ FromLatin1(<<"A", "9">>) = <<"other">>
  BY <1>1, Zenon DEF FromLatin1
<1>3. ASSUME NEW c \in Singles
      PROVE  /\ FromLatin1(<<Code(c)[2], Code(c)[3]>>) = <<Plain(c)>>
             /\ Escape(<<Code(c)[2], Code(c)[3]>>) = Code(c)
             /\ <<Code(c)[2], Code(c)[3]>> # <<"C", "3">>
  <2>1. CASE c = "codedPercent"
    <3>1. Plain(c) = "%" /\ Code(c)[2] = "2" /\ Code(c)[3] = "5" /\ Code(c) = Escape(<<"2", "5">>)
      BY <2>1, BytesAre, MarkCodes DEF Plain, Percent
    <3> QED
      BY <1>1, <1>2, <3>1
  <2>2. CASE c = "codedSpace"
    <3>1. /\ Plain(c) = "space" /\ Code(c)[2] = "2" /\ Code(c)[3] = "0"
          /\ Code(c) = Escape(<<"2", "0">>)
      BY <2>2, BytesAre, MarkCodes DEF Plain, Space
    <3> QED
      BY <1>1, <1>2, <3>1
  <2> QED
    BY <2>1, <2>2 DEF Singles
<1> QED
  BY <1>2, <1>3

\* The bytes of a character, by its mark.
LEMMA BytesOfMark ==
    \A c \in Chars : Mark(c) \in Marks => <<Code(Mark(c))[2], Code(Mark(c))[3]>> \in Bytes(c)
<1>1. Bytes("%") = {<<"2", "5">>} /\ Bytes("space") = {<<"2", "0">>}
      /\ Bytes("eacute") = {TwoBytes[1], TwoBytes[2]}
  BY DEF Bytes
<1>2. TwoBytes[1] = <<"C", "3">> /\ TwoBytes[2] = <<"A", "9">>
  BY DEF TwoBytes
<1>3. Mark("%") = "codedPercent" /\ Mark("space") = "codedSpace" /\ Mark("eacute") = "codedEacute"
  BY DEF Mark
<1>4. ASSUME NEW c \in Chars, Mark(c) \in Marks PROVE c = "%" \/ c = "space" \/ c = "eacute"
  BY <1>4, MarkIs, SinglesAre
<1>5. /\ <<Code(Mark("%"))[2], Code(Mark("%"))[3]>> \in Bytes("%")
      /\ <<Code(Mark("space"))[2], Code(Mark("space"))[3]>> \in Bytes("space")
      /\ <<Code(Mark("eacute"))[2], Code(Mark("eacute"))[3]>> \in Bytes("eacute")
  BY <1>1, <1>2, <1>3, BytesAre
<1> QED
  BY <1>4, <1>5

\* No letter of m is c.
Lacks(m, c) == \A i \in 1..Len(m) : m[i] # c

LEMMA DecodedLacks ==
    \A Gone, r : \A m \in Seq(Letters), c \in Marks :
        Lacks(m, c) /\ Decoded(m, r, Gone) => Lacks(r, c)
<1> SUFFICES ASSUME NEW Gone, NEW r, NEW m \in Seq(Letters), NEW c \in Marks,
                    Lacks(m, c), Decoded(m, r, Gone)
             PROVE  Lacks(r, c)
  OBVIOUS
<1>1. Len(r) = Len(m) /\ \A i \in 1..Len(m) : m[i] \in Letters /\ r[i] \in {m[i], Plain(m[i])}
  BY DEF Decoded
<1>2. \A i \in 1..Len(m) : m[i] # c /\ Plain(m[i]) # c
  BY <1>1, PlainIs DEF Lacks
<1> QED
  BY <1>1, <1>2 DEF Lacks

LEMMA DecodedGone == \A m, r, c : Decoded(m, r, {c}) => Lacks(r, c)
BY DEF Decoded, Lacks

LEMMA DecodedAny == \A m, r, Gone : Decoded(m, r, Gone) => Decoded(m, r, {})
BY DEF Decoded

LEMMA LacksJoined ==
    \A C : \A p, q \in Seq(C) : \A c : Lacks(p, c) /\ Lacks(q, c) => Lacks(Join(p, q), c)
<1> SUFFICES ASSUME NEW C, NEW p \in Seq(C), NEW q \in Seq(C), NEW c, Lacks(p, c), Lacks(q, c)
             PROVE  Lacks(Join(p, q), c)
  OBVIOUS
<1>1. HasParts(Join(p, q), p, q) /\ Len(p) \in Nat /\ Len(q) \in Nat
  BY JoinIs
<1> DEFINE s == Join(p, q)
<1> HIDE DEF s
<1>2. HasParts(s, p, q)
  BY <1>1 DEF s
<1>3. ASSUME NEW i \in 1..Len(s) PROVE s[i] # c
  <2>1. CASE i <= Len(p)
    <3>1. i \in 1..Len(p)
      BY <1>1, <1>2, <2>1 DEF HasParts
    <3> QED
      BY <1>2, <3>1 DEF HasParts, Lacks
  <2>2. CASE ~(i <= Len(p))
    <3>1. i - Len(p) \in 1..Len(q) /\ Len(p) + (i - Len(p)) = i
      BY <1>1, <1>2, <2>2 DEF HasParts
    <3>2. s[Len(p) + (i - Len(p))] = q[i - Len(p)]
      BY <1>2, <3>1 DEF HasParts
    <3> QED
      BY <3>1, <3>2 DEF Lacks
  <2> QED
    BY <2>1, <2>2
<1> QED
  BY <1>3 DEF Lacks, s

\* What a character of the name is written with, no other part of the text looks like.
LEMMA MarkLooks ==
    ASSUME NEW name \in Names, Readable(name), NEW m, NEW Gone,
           Decoded(Marked(name), m, Gone), NEW k \in 1..Len(name), Marked(name)[k] \in Marks
    PROVE  ~LooksLike(m, Marked(name)[k])
<1> DEFINE c == Marked(name)[k]
<1>1. c = Mark(name[k]) /\ name[k] \in Chars
  BY MarkedIs
<1> HIDE DEF c
<1>2. c \in Marks
  BY DEF c
<1>3. <<Code(c)[2], Code(c)[3]>> \in Bytes(name[k])
  BY <1>1, <1>2, BytesOfMark
<1>4. Code(c)[2] \in Hex /\ Code(c)[3] \in Hex
  BY <1>2, BytesAre
<1>5. ~Looks(m, Code(c)[2], Code(c)[3])
  BY <1>3, <1>4, ReadableLooks
<1> QED
  BY <1>5 DEF LooksLike, c

\* Two escapes that the loop takes together, and their characters.
Pairwise(s) == FromUtf8(<< <<s[2], s[3]>>, <<s[5], s[6]>> >>)

LEMMA PairwiseTwo == Flat(<<"codedEacute">>) = Two /\ Pairwise(Two) = <<"eacute">>
<1>1. "codedEacute" \in Letters
  BY LettersAre
<1>2. Flat(<<"codedEacute">>) = Two
  BY <1>1, OneLetter, MarkCodes
<1>3. Two[2] = "C" /\ Two[3] = "3" /\ Two[5] = "A" /\ Two[6] = "9"
  BY CodesAre
<1>4. << <<Two[2], Two[3]>>, <<Two[5], Two[6]>> >> = TwoBytes
  BY <1>3, Zenon DEF TwoBytes
<1>5. Pairwise(Two) = <<"eacute">>
  BY <1>4, Zenon DEF Pairwise, FromUtf8
<1> QED
  BY <1>2, <1>5

LEMMA PairwiseSingles ==
    ASSUME NEW c \in Singles, NEW d \in Singles
    PROVE  /\ Flat(Join(<<c>>, <<d>>)) = Join(Code(c), Code(d))
           /\ Pairwise(Join(Code(c), Code(d))) = Join(<<Plain(c)>>, <<Plain(d)>>)
<1>1. /\ c \in Letters /\ d \in Letters /\ Len(Code(c)) = 3 /\ Len(Code(d)) = 3
      /\ c \in Marks /\ d \in Marks
  BY SinglesAre
<1>2. /\ <<c>> \in Seq(Letters) /\ <<d>> \in Seq(Letters)
      /\ Flat(<<c>>) = Code(c) /\ Flat(<<d>>) = Code(d)
  BY <1>1, OneLetter
<1>3. Flat(Join(<<c>>, <<d>>)) = Join(Code(c), Code(d))
  <2> DEFINE u == <<c>>
             v == <<d>>
  <2>1. u \in Seq(Letters) /\ v \in Seq(Letters) /\ Flat(u) = Code(c) /\ Flat(v) = Code(d)
    BY <1>2
  <2> HIDE DEF u, v
  <2>2. Flat(Join(u, v)) = Join(Code(c), Code(d))
    BY <2>1, FlatJoined
  <2> QED
    BY <2>2 DEF u, v
<1> DEFINE s == Join(Code(c), Code(d))
<1>4. HasParts(s, Code(c), Code(d))
  <2>1. Code(c) \in Seq(Chars) /\ Code(d) \in Seq(Chars)
    BY <1>1, CodeTyped DEF Names
  <2> QED
    BY <2>1, JoinIs
<1> HIDE DEF s
<1>5. s[2] = Code(c)[2] /\ s[3] = Code(c)[3]
  BY <1>1, <1>4 DEF HasParts
<1>6. s[5] = Code(d)[2] /\ s[6] = Code(d)[3]
  <2>1. \A i \in 1..3 : s[3 + i] = Code(d)[i]
    BY <1>1, <1>4 DEF HasParts
  <2>2. s[3 + 2] = Code(d)[2] /\ s[3 + 3] = Code(d)[3]
    BY <2>1
  <2> QED
    BY <2>2
<1> DEFINE a == <<s[2], s[3]>>
           b == <<s[5], s[6]>>
           both == <<a, b>>
<1>7. FromLatin1(a) = <<Plain(c)>> /\ FromLatin1(b) = <<Plain(d)>> /\ a # <<"C", "3">>
  BY <1>5, <1>6, BytesDecoded
<1> HIDE DEF a, b
<1>8. both[1] = a /\ both[2] = b
  OBVIOUS
<1>9. both # TwoBytes
  <2>1. TwoBytes[1] = <<"C", "3">>
    BY DEF TwoBytes
  <2> QED
    BY <1>7, <1>8, <2>1
<1> HIDE DEF both
<1>10. FromUtf8(both) = <<Plain(c)>> \o <<Plain(d)>>
  BY <1>7, <1>8, <1>9, Zenon DEF FromUtf8
<1>11. Pairwise(s) = Join(<<Plain(c)>>, <<Plain(d)>>)
  BY <1>10 DEF Pairwise, both, a, b, Join
<1> QED
  BY <1>3, <1>11 DEF s

\* Replaced by their characters, they are everywhere: the text is still the name,
\* with some of its characters decoded.
LEMMA DoubleDecoded ==
    ASSUME NEW name \in Names, Readable(name), NEW m,
           Decoded(Marked(name), m, {}), NEW x \in Doubles,
           NEW p \in Seq(Codeds), NEW r \in Seq(Codeds), Marked(name) = Join(p, Join(x, r))
    PROVE  \E s : /\ Decoded(m, s, {})
                  /\ Replace(Flat(m), Flat(x), Pairwise(Flat(x))) = Flat(s)
                  /\ Lacks(x, "codedEacute") \/ Lacks(s, "codedEacute")
<1> DEFINE M == Marked(name)
           v == Join(x, r)
<1>1. /\ m \in Seq(Letters) /\ Len(M) = Len(name) /\ Len(name) \in Nat
      /\ x \in Seq(Codeds)
  BY DecodedIs, MarkedIs, DoublesAre DEF Names
<1>2. v \in Seq(Codeds) /\ HasParts(v, x, r)
  BY <1>1, JoinIs
<1>3. M = Join(p, v) /\ M \in Seq(Codeds)
  BY MarkedIs
<1> HIDE DEF v, M
<1>4. HasParts(M, p, v)
  BY <1>2, <1>3, JoinIs
<1>5. ASSUME NEW k \in 1..Len(x), x[k] \in Marks PROVE ~LooksLike(m, x[k])
  <2>1. Len(p) \in Nat /\ Len(x) \in Nat /\ Len(r) \in Nat
    BY <1>1
  <2>2. k \in 1..Len(v) /\ v[k] = x[k]
    BY <1>2, <2>1 DEF HasParts
  <2>3. Len(p) + k \in 1..Len(M) /\ M[Len(p) + k] = x[k]
    <3>1. M[Len(p) + k] = v[k]
      BY <1>4, <2>2 DEF HasParts
    <3>2. Len(p) + k \in 1..Len(M)
      BY <1>2, <1>4, <2>1, <2>2 DEF HasParts
    <3> QED
      BY <2>2, <3>1, <3>2
  <2>4. Len(p) + k \in 1..Len(name)
    BY <1>1, <2>3
  <2> QED
    BY <1>5, <2>3, <2>4, MarkLooks DEF M
<1>6. CASE x = <<"codedEacute">>
  <2> DEFINE c == "codedEacute"
  <2>1. c \in Marks /\ Plain(c) = "eacute" /\ Code(c) = Two
    BY MarkCodes DEF Marks, Plain
  <2>2. 1 \in 1..Len(x) /\ x[1] = c
    BY <1>6
  <2>3. ~LooksLike(m, c)
    BY <1>5, <2>1, <2>2
  <2> HIDE DEF c
  <2>4. PICK s : Decoded(m, s, {c}) /\ Replace(Flat(m), Code(c), <<Plain(c)>>) = Flat(s)
    BY <1>1, <2>1, <2>3, OneDecoded
  <2>5. Replace(Flat(m), Flat(x), Pairwise(Flat(x))) = Flat(s)
    BY <1>6, <2>1, <2>4, PairwiseTwo
  <2>6. Decoded(m, s, {}) /\ Lacks(s, c)
    BY <2>4, DecodedAny, DecodedGone
  <2> QED
    BY <2>5, <2>6 DEF c
<1>7. CASE x # <<"codedEacute">>
  <2>1. PICK c \in Singles : \E d \in Singles : x = Join(<<c>>, <<d>>)
    BY <1>7 DEF Doubles
  <2>2. PICK d \in Singles : x = Join(<<c>>, <<d>>)
    BY <2>1
  <2>3. Len(x) = 2 /\ x[1] = c /\ x[2] = d
    BY <2>2 DEF Join
  <2>4. c \in Marks /\ d \in Marks /\ c # "codedEacute" /\ d # "codedEacute"
    BY SinglesAre
  <2>5. ~LooksLike(m, c) /\ ~LooksLike(m, d)
    BY <1>5, <2>3, <2>4
  <2>6. PICK s : /\ Decoded(m, s, {})
                 /\ Replace(Flat(m), Join(Code(c), Code(d)), Join(<<Plain(c)>>, <<Plain(d)>>))
                       = Flat(s)
    BY <1>1, <2>5, PairDecoded
  <2>7. Replace(Flat(m), Flat(x), Pairwise(Flat(x))) = Flat(s)
    BY <2>2, <2>6, PairwiseSingles
  <2>8. Lacks(x, "codedEacute")
    <3>1. \A i \in 1..Len(x) : i = 1 \/ i = 2
      BY <2>3
    <3> QED
      BY <2>3, <2>4, <3>1 DEF Lacks
  <2> QED
    BY <2>6, <2>7, <2>8
<1> QED
  BY <1>6, <1>7

-----------------------------------------------------------------------------
(* The first loop *)

\* What the first loop has made of an address when it is at the place at.
PairsAt(name, s, at, m, p, q) ==
    /\ Decoded(Marked(name), m, {}) /\ s = Flat(m)
    /\ p \in Seq(Codeds) /\ q \in Seq(Codeds) /\ Marked(name) = Join(p, q)
    /\ at = Len(Flat(p)) + 1
    /\ Aligned(q)
    /\ Lacks(p, "codedEacute") \/ Lacks(m, "codedEacute")
PairsOK(name, s, at) == \E m, p, q : PairsAt(name, s, at, m, p, q)

LEMMA FirstPairs ==
    ASSUME NEW name \in Names, Readable(name)
    PROVE  PairsOK(name, Flat(Marked(name)), 1)
<1> DEFINE M == Marked(name)
           e == <<>>
<1>1. M \in Seq(Codeds) /\ M \in Seq(Letters) /\ Aligned(M)
  BY MarkedIs, CodedsAre, ReadableIsAligned
<1> HIDE DEF M
<1>2. Decoded(M, M, {})
  BY <1>1, DecodedStays
<1>3. e \in Seq(Codeds) /\ Len(Flat(e)) + 1 = 1 /\ Lacks(e, "codedEacute")
  BY FlatNothing DEF Lacks
<1>4. M = Join(e, M)
  BY <1>1, JoinNothing
<1> HIDE DEF e
<1> QED
  BY <1>1, <1>2, <1>3, <1>4 DEF PairsAt, PairsOK, M

LEMMA FlatOf == \A p \in Seq(Codeds) : Flat(p) \in Names /\ Len(Flat(p)) \in Nat
<1> SUFFICES ASSUME NEW p \in Seq(Codeds) PROVE Flat(p) \in Names /\ Len(Flat(p)) \in Nat
  OBVIOUS
<1>1. Flat(p) \in Names
  BY CodedsAre, FlatTyped
<1> QED
  BY <1>1 DEF Names

LEMMA FlatTwo ==
    \A p, q \in Seq(Codeds) :
        /\ Flat(Join(p, q)) = Join(Flat(p), Flat(q))
        /\ Len(Flat(Join(p, q))) = Len(Flat(p)) + Len(Flat(q))
        /\ Join(p, q) \in Seq(Codeds)
<1> SUFFICES ASSUME NEW p \in Seq(Codeds), NEW q \in Seq(Codeds)
             PROVE  /\ Flat(Join(p, q)) = Join(Flat(p), Flat(q))
                    /\ Len(Flat(Join(p, q))) = Len(Flat(p)) + Len(Flat(q))
                    /\ Join(p, q) \in Seq(Codeds)
  OBVIOUS
<1>1. Flat(Join(p, q)) = Join(Flat(p), Flat(q)) /\ Join(p, q) \in Seq(Codeds)
  BY CodedsAre, FlatJoined, JoinIs
<1>2. HasParts(Join(Flat(p), Flat(q)), Flat(p), Flat(q))
  BY FlatOf, JoinIs DEF Names
<1> QED
  BY <1>1, <1>2 DEF HasParts

\* What the expressions of the two loops find.
LEMMA MatchesAre ==
    /\ Matches(2) = {i \in pos..Len(url) : Pair(url, i)}
    /\ Matches(1) = {i \in pos..Len(url) : IsEscape(url, i)}
<1> DEFINE two(i) == \A k \in 0..(2 - 1) : IsEscape(url, i + 3 * k)
           one(i) == \A k \in 0..(1 - 1) : IsEscape(url, i + 3 * k)
<1>1. ASSUME NEW i \in pos..Len(url)
      PROVE  (two(i) <=> Pair(url, i)) /\ (one(i) <=> IsEscape(url, i))
  <2>1. i + 3 * 0 = i /\ i + 3 * 1 = i + 3
    BY <1>1
  <2>2. 0..(2 - 1) = {0, 1} /\ 0..(1 - 1) = {0}
    OBVIOUS
  <2> QED
    BY <2>1, <2>2, Zenon DEF Pair
<1> HIDE DEF two, one
<1>2. Matches(2) = {i \in pos..Len(url) : two(i)} /\ Matches(1) = {i \in pos..Len(url) : one(i)}
  BY DEF Matches, two, one
<1> QED
  BY <1>1, <1>2

LEMMA IndexIs ==
    ASSUME NEW C, url \in Seq(C), pos \in Nat \ {0}, NEW n, Matches(n) # {}
    PROVE  IndexIn(n) \in Matches(n) /\ \A j \in Matches(n) : IndexIn(n) <= j
<1>1. Matches(n) \in SUBSET (0..Len(url)) /\ Len(url) \in Nat
  BY DEF Matches
<1>2. \E i \in Matches(n) : \A j \in Matches(n) : i <= j
  BY <1>1, LeastOf
<1> QED
  BY <1>2, Zenon DEF IndexIn

\* The first two escapes that are found are those of a double.
LEMMA FirstDouble ==
    ASSUME NEW p \in Seq(Codeds), NEW q \in Seq(Codeds), NEW p1, NEW x, NEW r,
           HasFirst(q, p1, x, r), url = Flat(Join(p, q)), pos = Len(Flat(p)) + 1,
           Matches(2) # {}
    PROVE  IndexIn(2) = Len(Flat(p)) + Len(Flat(p1)) + 1
<1> DEFINE L == Len(Flat(p))
           L1 == Len(Flat(p1))
           z == Flat(q)
           i == L + L1 + 1
<1>1. /\ Flat(p) \in Names /\ z \in Names /\ L \in Nat /\ L1 \in Nat /\ Len(z) \in Nat
      /\ url = Join(Flat(p), z)
  BY FlatOf, FlatTwo DEF HasFirst
<1>2. HasParts(url, Flat(p), z) /\ url \in Names /\ Len(url) \in Nat
  BY <1>1, JoinIs DEF Names
<1>3. PairFirst(z, L1 + 1)
  BY DEF HasFirst
<1>4. \A j \in Nat \ {0} : Pair(url, L + j) <=> Pair(z, j)
  <2> DEFINE f == Flat(p)
  <2>1. f \in Names /\ z \in Names
    BY <1>1
  <2> HIDE DEF f, z
  <2>2. \A j \in Nat \ {0} : Pair(Join(f, z), Len(f) + j) <=> Pair(z, j)
    BY <2>1, PairBehind
  <2> QED
    BY <1>1, <2>2 DEF f, z
<1>5. Len(url) = L + Len(z)
  BY <1>2 DEF HasParts
<1> HIDE DEF L, L1, z
<1>6. L1 + 1 \in 1..Len(z) /\ Pair(z, L1 + 1) /\ \A j \in 1..L1 : ~Pair(z, j)
  <2>1. 1..(L1 + 1 - 1) = 1..L1
    BY <1>1
  <2> DEFINE first == L1 + 1
  <2>2. PairFirst(z, first)
    BY <1>3
  <2>3. 1..(first - 1) = 1..L1
    BY <1>1
  <2> HIDE DEF first
  <2>4. first \in 1..Len(z) /\ Pair(z, first) /\ \A j \in 1..(first - 1) : ~Pair(z, j)
    BY <2>2 DEF PairFirst
  <2> QED
    BY <2>3, <2>4, Zenon DEF first
<1>7. i \in Matches(2)
  <2>1. L1 + 1 \in Nat \ {0} /\ i = L + (L1 + 1) /\ i \in (L + 1)..Len(url)
    BY <1>1, <1>5, <1>6
  <2>2. Pair(url, i)
    BY <1>4, <1>6, <2>1
  <2> QED
    BY <2>1, <2>2, MatchesAre DEF L
<1>8. pos \in Nat \ {0}
  BY <1>1 DEF L
<1>9. IndexIn(2) \in Matches(2) /\ IndexIn(2) <= i
  BY <1>2, <1>7, <1>8, IndexIs DEF Names
<1>10. IndexIn(2) \in (L + 1)..Len(url) /\ Pair(url, IndexIn(2))
  BY <1>9, MatchesAre DEF L
<1> DEFINE k == IndexIn(2) - L
<1>11. k \in Nat \ {0} /\ L + k = IndexIn(2)
  BY <1>1, <1>2, <1>10
<1>12. Pair(z, k)
  BY <1>4, <1>10, <1>11
<1>13. k \notin 1..L1
  BY <1>6, <1>12
<1> HIDE DEF k
<1>14. IndexIn(2) = L + L1 + 1
  <2>1. IndexIn(2) \in Nat
    BY <1>1, <1>10
  <2> QED
    BY <1>1, <1>9, <1>11, <1>13, <2>1
<1> QED
  BY <1>14 DEF L, L1

\* What stands there, and what is captured.
LEMMA DoubleThere ==
    ASSUME NEW p \in Seq(Codeds), NEW x \in Doubles, NEW r \in Seq(Codeds),
           url = Flat(Join(p, Join(x, r))), NEW i, i = Len(Flat(p)) + 1
    PROVE  /\ SubSeq(url, i, i + 3 * 2 - 1) = Flat(x)
           /\ FromUtf8(<<Captured(i), Captured(i + 3)>>) = Pairwise(Flat(x))
<1> DEFINE u == Flat(p)
           w == Flat(x)
           z == Flat(r)
<1>1. u \in Names /\ w \in Names /\ z \in Names /\ Len(u) \in Nat /\ Len(w) = 6
  BY FlatOf, DoublesAre
<1>2. url = Join(u, Join(w, z))
  <2>1. x \in Seq(Codeds) /\ Join(x, r) \in Seq(Codeds) /\ Flat(Join(x, r)) = Join(w, z)
    BY DoublesAre, FlatTwo
  <2> QED
    BY <2>1, FlatTwo
<1>3. url \in Names /\ Len(url) \in Nat /\ Len(url) >= Len(u) + 6
  <2> DEFINE v == Join(w, z)
  <2>1. v \in Names /\ HasParts(v, w, z)
    BY <1>1, JoinIs DEF Names
  <2> HIDE DEF v
  <2>2. url \in Names /\ HasParts(url, u, v)
    BY <1>1, <1>2, <2>1, JoinIs DEF Names, v
  <2>3. Len(v) = Len(w) + Len(z) /\ Len(url) = Len(u) + Len(v) /\ Len(z) \in Nat
    BY <1>1, <2>1, <2>2 DEF HasParts, Names
  <2> QED
    BY <1>1, <2>2, <2>3
<1> HIDE DEF w, z
<1>4. w # <<>>
  <2>1. Len(<<>>) = 0 /\ Len(w) = 6 /\ 0 # 6
    BY <1>1
  <2> QED
    BY <2>1, Zenon
<1> HIDE DEF u
<1>5. /\ SubSeq(url, Len(u) + 1, Len(u) + Len(w)) = w
      /\ \A k \in 1..Len(w) : url[Len(u) + k] = w[k]
  <2>1. u \in Names /\ w \in Names /\ z \in Names
    BY <1>1
  <2> DEFINE s == Join(u, Join(w, z))
  <2>2. SubSeq(s, Len(u) + 1, Len(u) + Len(w)) = w /\ \A k \in 1..Len(w) : s[Len(u) + k] = w[k]
    BY <1>4, <2>1, PartIs
  <2> QED
    BY <1>2, <2>2
<1>6. i = Len(u) + 1
  BY DEF u
<1>7. SubSeq(url, i, i + 3 * 2 - 1) = w
  <2>1. i + 3 * 2 - 1 = Len(u) + Len(w)
    BY <1>1, <1>6
  <2> QED
    BY <1>5, <1>6, <2>1
<1>8. url[i + 1] = w[2] /\ url[i + 2] = w[3] /\ url[i + 4] = w[5] /\ url[i + 5] = w[6]
  <2>1. i + 1 = Len(u) + 2 /\ i + 2 = Len(u) + 3 /\ i + 4 = Len(u) + 5 /\ i + 5 = Len(u) + 6
    BY <1>1, <1>6
  <2>2. 2 \in 1..Len(w) /\ 3 \in 1..Len(w) /\ 5 \in 1..Len(w) /\ 6 \in 1..Len(w)
    BY <1>1
  <2> QED
    BY <1>5, <2>1, <2>2
<1>9. Captured(i) = <<url[i + 1], url[i + 2]>>
  <2> DEFINE j == i + 1
  <2>1. j \in Nat \ {0} /\ j + 1 <= Len(url) /\ j + 1 = i + 2
    BY <1>1, <1>3, <1>6
  <2> HIDE DEF j
  <2>2. SubSeq(url, j, j + 1) = <<url[j], url[j + 1]>>
    BY <1>3, <2>1, TwoCharacters
  <2> QED
    BY <2>1, <2>2 DEF j, Captured
<1>10. Captured(i + 3) = <<url[i + 4], url[i + 5]>>
  <2> DEFINE j == i + 4
  <2>1. j \in Nat \ {0} /\ j + 1 <= Len(url) /\ j + 1 = i + 5 /\ i + 3 + 1 = j /\ i + 3 + 2 = i + 5
    BY <1>1, <1>3, <1>6
  <2> HIDE DEF j
  <2>2. SubSeq(url, j, j + 1) = <<url[j], url[j + 1]>>
    BY <1>3, <2>1, TwoCharacters
  <2>3. Captured(i + 3) = SubSeq(url, j, j + 1)
    BY <2>1 DEF Captured
  <2>4. j = i + 4
    BY DEF j
  <2> QED
    BY <2>1, <2>2, <2>3, <2>4
<1>11. <<Captured(i), Captured(i + 3)>> = << <<w[2], w[3]>>, <<w[5], w[6]>> >>
  BY <1>8, <1>9, <1>10
<1>12. FromUtf8(<<Captured(i), Captured(i + 3)>>) = Pairwise(w)
  BY <1>11, Zenon DEF Pairwise
<1> QED
  BY <1>7, <1>12 DEF w

\* A turn of the first loop.
LEMMA PairTurn ==
    ASSUME NEW name \in Names, Readable(name), url = Flat(Marked(name)),
           PairsOK(name, dest, pos), Matches(2) # {}
    PROVE  LET i == IndexIn(2)
           IN  PairsOK(name, Replace(dest, SubSeq(url, i, i + 3 * 2 - 1),
                                     FromUtf8(<<Captured(i), Captured(i + 3)>>)), i + 6)
<1> DEFINE M == Marked(name)
           i == IndexIn(2)
<1>1. PICK m, p, q : PairsAt(name, dest, pos, m, p, q)
  BY DEF PairsOK
<1> DEFINE L == Len(Flat(p))
<1>2. /\ Decoded(M, m, {}) /\ dest = Flat(m)
      /\ p \in Seq(Codeds) /\ q \in Seq(Codeds) /\ M = Join(p, q)
      /\ pos = L + 1 /\ Aligned(q)
      /\ Lacks(p, "codedEacute") \/ Lacks(m, "codedEacute")
  BY <1>1 DEF PairsAt
<1>3. m \in Seq(Letters) /\ M \in Seq(Letters) /\ "codedEacute" \in Marks
  BY <1>2, DecodedIs, MarkedTyped DEF Marks
<1>4. L \in Nat /\ Flat(p) \in Names /\ Flat(q) \in Names /\ url = Join(Flat(p), Flat(q))
  BY <1>2, FlatOf, FlatTwo
<1> HIDE DEF i, L
<1>5. PairsKnown(q)
  BY <1>2, PairsAreKnown
<1>6. ~HasNone(q)
  <2>1. PICK j \in pos..Len(url) : Pair(url, j)
    BY MatchesAre
  <2>2. HasParts(url, Flat(p), Flat(q)) /\ Len(Flat(q)) \in Nat /\ Len(url) \in Nat
    BY <1>4, JoinIs DEF Names
  <2>3. j - L \in 1..Len(Flat(q)) /\ L + (j - L) = j /\ j - L \in Nat \ {0}
    BY <1>2, <1>4, <2>1, <2>2 DEF HasParts, L
  <2> DEFINE k == j - L
  <2>4. k \in 1..Len(Flat(q)) /\ k \in Nat \ {0} /\ Pair(url, L + k)
    BY <2>1, <2>3
  <2> HIDE DEF k
  <2>5. Pair(Flat(q), k)
    BY <1>4, <2>4, PairBehind DEF L
  <2> QED
    BY <2>4, <2>5 DEF HasNone, NoPair
<1>7. PICK p1, x, r : HasFirst(q, p1, x, r)
  BY <1>5, <1>6, Zenon DEF PairsKnown
<1>8. /\ p1 \in Seq(Codeds) /\ r \in Seq(Codeds) /\ x \in Doubles /\ x \in Seq(Codeds)
      /\ q = Join(p1, Join(x, r)) /\ Aligned(r) /\ Lacks(p1, "codedEacute")
      /\ Len(Flat(x)) = 6
  BY <1>7, DoublesAre DEF HasFirst, Lacks
<1> DEFINE P == Join(p, p1)
           P2 == Join(P, x)
<1>9. /\ P \in Seq(Codeds) /\ M = Join(P, Join(x, r))
      /\ Len(Flat(P)) = L + Len(Flat(p1)) /\ Len(Flat(p1)) \in Nat
  <2>1. Join(x, r) \in Seq(Codeds)
    BY <1>8, FlatTwo
  <2> QED
    BY <1>2, <1>8, <2>1, FlatTwo, FlatOf, JoinAssociative DEF L
<1> HIDE DEF P
<1>10. P2 \in Seq(Codeds) /\ M = Join(P2, r) /\ Len(Flat(P2)) = Len(Flat(P)) + 6
  <2>1. Join(P, Join(x, r)) = Join(P2, r)
    BY <1>8, <1>9, JoinAssociative
  <2>2. P2 \in Seq(Codeds) /\ Len(Flat(P2)) = Len(Flat(P)) + Len(Flat(x))
    BY <1>8, <1>9, FlatTwo
  <2> QED
    BY <1>8, <1>9, <2>1, <2>2
<1> HIDE DEF P2
<1>11. i = Len(Flat(P)) + 1
  <2>1. i = Len(Flat(p)) + Len(Flat(p1)) + 1
    BY <1>2, <1>7, FirstDouble DEF i, L
  <2> QED
    BY <1>4, <1>9, <2>1 DEF L
<1> HIDE DEF M
<1>19. url = Flat(Join(P, Join(x, r)))
  <2>1. url = Flat(M)
    BY DEF M
  <2> QED
    BY <1>9, <2>1
<1>12. /\ SubSeq(url, i, i + 3 * 2 - 1) = Flat(x)
       /\ FromUtf8(<<Captured(i), Captured(i + 3)>>) = Pairwise(Flat(x))
  BY <1>8, <1>9, <1>11, <1>19, DoubleThere
<1>13. PICK s : /\ Decoded(m, s, {})
                /\ Replace(Flat(m), Flat(x), Pairwise(Flat(x))) = Flat(s)
                /\ Lacks(x, "codedEacute") \/ Lacks(s, "codedEacute")
  BY <1>2, <1>8, <1>9, DoubleDecoded DEF M
<1>14. Decoded(M, s, {})
  BY <1>2, <1>3, <1>13, DecodedOn
<1>15. Lacks(P2, "codedEacute") \/ Lacks(s, "codedEacute")
  <2>1. CASE Lacks(m, "codedEacute")
    <3> DEFINE none == {}
    <3>1. Decoded(m, s, none)
      BY <1>13
    <3> HIDE DEF none
    <3> QED
      BY <1>3, <2>1, <3>1, DecodedLacks
  <2>2. CASE Lacks(p, "codedEacute") /\ Lacks(x, "codedEacute")
    BY <1>2, <1>8, <1>9, <2>2, LacksJoined DEF P, P2
  <2> QED
    BY <1>2, <1>13, <2>1, <2>2
<1>16. i + 6 = Len(Flat(P2)) + 1
  BY <1>4, <1>9, <1>10, <1>11
<1>17. PairsAt(name, Flat(s), i + 6, s, P2, r)
  BY <1>8, <1>10, <1>14, <1>15, <1>16 DEF PairsAt, M
<1>18. PairsOK(name, Flat(s), i + 6)
  BY <1>17 DEF PairsOK
<1> QED
  BY <1>2, <1>12, <1>13, <1>18 DEF i

-----------------------------------------------------------------------------
(* The second loop *)

\* What the second loop has made of it: the marks before its place are decoded everywhere.
PassedAt(name, at, m) ==
    \A p, t \in Seq(Letters), a \in Singles :
        (Marked(name) = Join(p, Put(a, t)) /\ Len(Flat(p)) + 1 < at) => Lacks(m, a)
SinglesAt(name, s, at, m) ==
    /\ Decoded(Marked(name), m, {}) /\ s = Flat(m)
    /\ Lacks(m, "codedEacute")
    /\ PassedAt(name, at, m)
SinglesOK(name, s, at) == \E m : SinglesAt(name, s, at, m)

LEMMA PairsEnd ==
    ASSUME NEW name \in Names, Readable(name), url = Flat(Marked(name)),
           PairsOK(name, dest, pos), Matches(2) = {}
    PROVE  SinglesOK(name, dest, 1)
<1> DEFINE M == Marked(name)
<1>1. PICK m, p, q : PairsAt(name, dest, pos, m, p, q)
  BY DEF PairsOK
<1>2. /\ Decoded(M, m, {}) /\ dest = Flat(m)
      /\ p \in Seq(Codeds) /\ q \in Seq(Codeds) /\ M = Join(p, q)
      /\ pos = Len(Flat(p)) + 1 /\ Aligned(q)
      /\ Lacks(p, "codedEacute") \/ Lacks(m, "codedEacute")
  BY <1>1 DEF PairsAt
<1>3. M \in Seq(Letters) /\ "codedEacute" \in Marks
  BY MarkedTyped DEF Marks
<1> HIDE DEF M
<1>4. url = Join(Flat(p), Flat(q)) /\ Len(Flat(p)) \in Nat /\ Flat(p) \in Names /\ Flat(q) \in Names
  <2>1. url = Flat(M)
    BY DEF M
  <2> QED
    BY <1>2, <2>1, FlatTwo, FlatOf
<1>5. ASSUME NEW p1, NEW x, NEW r, HasFirst(q, p1, x, r) PROVE FALSE
  <2> DEFINE f == Flat(p)
             z == Flat(q)
             k == Len(Flat(p1)) + 1
  <2>1. f \in Names /\ z \in Names /\ url = Join(f, z) /\ pos = Len(f) + 1
    BY <1>2, <1>4
  <2>2. PairFirst(z, k)
    BY <1>5 DEF HasFirst
  <2> HIDE DEF f, z, k
  <2>3. k \in 1..Len(z) /\ Pair(z, k)
    BY <2>2 DEF PairFirst
  <2>4. HasParts(url, f, z) /\ Len(f) \in Nat /\ Len(z) \in Nat
    BY <2>1, JoinIs DEF Names
  <2>5. k \in Nat \ {0} /\ Len(f) + k \in pos..Len(url)
    BY <2>1, <2>3, <2>4 DEF HasParts
  <2>6. Pair(url, Len(f) + k)
    BY <2>1, <2>3, <2>5, PairBehind
  <2>7. Len(f) + k \in Matches(2)
    BY <2>5, <2>6, MatchesAre
  <2> QED
    BY <2>7
<1>6. HasNone(q)
  BY <1>2, <1>5, PairsAreKnown DEF PairsKnown
<1>7. Lacks(m, "codedEacute")
  <2>1. CASE Lacks(p, "codedEacute")
    <3>1. Lacks(q, "codedEacute")
      BY <1>6 DEF HasNone, Lacks
    <3>2. Lacks(M, "codedEacute")
      BY <1>2, <2>1, <3>1, LacksJoined
    <3> DEFINE none == {}
    <3>3. Decoded(M, m, none)
      BY <1>2
    <3> HIDE DEF none
    <3> QED
      BY <1>3, <3>2, <3>3, DecodedLacks
  <2> QED
    BY <1>2, <2>1
<1>8. PassedAt(name, 1, m)
  <2>1. ASSUME NEW p1 \in Seq(Letters) PROVE ~(Len(Flat(p1)) + 1 < 1)
    <3>1. Len(Flat(p1)) \in Nat
      BY FlatTyped DEF Names
    <3> QED
      BY <3>1
  <2> QED
    BY <2>1 DEF PassedAt
<1> QED
  BY <1>2, <1>7, <1>8 DEF SinglesAt, SinglesOK, M

\* A mark of one byte, and where its escape is.
LEMMA MarkStands ==
    ASSUME NEW name \in Names, url = Flat(Marked(name)), NEW p \in Seq(Letters),
           NEW a \in Singles, NEW t \in Seq(Letters), Marked(name) = Join(p, Put(a, t))
    PROVE  LET i == Len(Flat(p)) + 1
           IN  /\ i \in Nat \ {0} /\ IsEscape(url, i)
               /\ url[i + 1] = Code(a)[2] /\ url[i + 2] = Code(a)[3]
<1> DEFINE M == Marked(name)
<1>1. url = Flat(M) /\ M = Join(p, Put(a, t))
  OBVIOUS
<1> HIDE DEF M
<1>2. url = Flat(Join(p, Put(a, t)))
  BY <1>1
<1> QED
  BY <1>2, EscapeOfMark

LEMMA EscapeOf ==
    ASSUME NEW x \in Chars, NEW y \in Chars
    PROVE  Escape(<<x, y>>) = <<"%", x, y>>
<1> SUFFICES ASSUME NEW v, v = <<"%", x, y>>
             PROVE  Escape(<<x, y>>) = v
  OBVIOUS
<1> DEFINE w == Escape(<<x, y>>)
<1>1. "%" \in Chars
  BY LettersAre
<1>2. v \in Seq(Chars) /\ Len(v) = 3 /\ v[1] = "%" /\ v[2] = x /\ v[3] = y
  BY <1>1
<1>3. w \in Seq(Chars) /\ Len(w) = 3 /\ w[1] = "%" /\ w[2] = x /\ w[3] = y
  BY EscapeIs
<1> HIDE DEF w
<1>4. \A k \in 1..Len(v) : v[k] = w[k]
  <2>1. \A k \in 1..Len(v) : k = 1 \/ k = 2 \/ k = 3
    BY <1>2
  <2> QED
    BY <1>2, <1>3, <2>1
<1>5. v = w
  BY <1>2, <1>3, <1>4, SeqEqual
<1> QED
  BY <1>5 DEF w

\* A turn of the second loop.
LEMMA SingleTurn ==
    ASSUME NEW name \in Names, Readable(name), url = Flat(Marked(name)), pos \in Nat \ {0},
           SinglesOK(name, dest, pos), Matches(1) # {}
    PROVE  LET i == IndexIn(1)
           IN  SinglesOK(name, Replace(dest, SubSeq(url, i, i + 3 * 1 - 1),
                                       FromLatin1(Captured(i))), i + 3)
<1> DEFINE M == Marked(name)
           i == IndexIn(1)
           x == url[i + 1]
           y == url[i + 2]
<1>1. PICK m : SinglesAt(name, dest, pos, m)
  BY DEF SinglesOK
<1>2. /\ Decoded(M, m, {}) /\ dest = Flat(m)
      /\ Lacks(m, "codedEacute") /\ PassedAt(name, pos, m)
  BY <1>1 DEF SinglesAt
<1>3. /\ m \in Seq(Letters) /\ M \in Seq(Letters) /\ M \in Seq(Codeds)
      /\ Len(M) = Len(name) /\ Len(name) \in Nat
      /\ \A k \in 1..Len(name) : M[k] = Mark(name[k]) /\ name[k] \in Chars
  BY <1>2, DecodedIs, MarkedIs, CodedsAre DEF Names
<1>4. url = Flat(M) /\ url \in Names /\ Len(url) \in Nat
  <2>1. url \in Names
    BY <1>3, FlatOf
  <2> QED
    BY <2>1 DEF Names
<1>5. i \in Matches(1) /\ \A j \in Matches(1) : i <= j
  BY <1>4, IndexIs DEF Names
<1> HIDE DEF i
<1>6. i \in pos..Len(url) /\ IsEscape(url, i) /\ i \in Nat \ {0}
  BY <1>4, <1>5, MatchesAre
<1> HIDE DEF M
<1>7. i + 2 <= Len(url) /\ url[i] = "%" /\ x \in Hex /\ y \in Hex
  BY <1>6 DEF IsEscape
<1>8. SubSeq(url, i, i + 3 * 1 - 1) = Escape(<<x, y>>) /\ Captured(i) = <<x, y>>
  <2> DEFINE j == i + 1
  <2>1. j \in Nat \ {0} /\ j + 1 <= Len(url) /\ j + 1 = i + 2
    BY <1>4, <1>6, <1>7
  <2> HIDE DEF j
  <2>2. SubSeq(url, j, j + 1) = <<url[j], url[j + 1]>>
    BY <1>4, <2>1, TwoCharacters
  <2>3. Captured(i) = <<x, y>>
    BY <2>1, <2>2 DEF j, Captured
  <2>4. SubSeq(url, i, i + 3 * 1 - 1) = <<url[i], x, y>>
    <3> DEFINE w == SubSeq(url, i, i + 2)
               v == <<url[i], x, y>>
    <3>1. i + 3 * 1 - 1 = i + 2 /\ i + 2 - i + 1 = 3 /\ i <= i + 2
      BY <1>6
    <3>2. \A k \in i..(i + 2) : url[k] \in Chars
      BY <1>4, <1>6, <1>7 DEF Names
    <3>3. w \in Seq(Chars) /\ Len(w) = 3 /\ \A k \in 1..3 : w[k] = url[i + k - 1]
      <4> DEFINE last == i + 2
      <4>1. last \in Int /\ i \in Int /\ i <= last /\ last - i + 1 = 3
        BY <1>6, <3>1
      <4>2. \A k \in i..last : url[k] \in Chars
        BY <3>2
      <4> HIDE DEF last
      <4>3. /\ SubSeq(url, i, last) \in Seq(Chars)
            /\ Len(SubSeq(url, i, last)) = IF i <= last THEN last - i + 1 ELSE 0
            /\ \A k \in 1..(last - i + 1) : SubSeq(url, i, last)[k] = url[i + k - 1]
        BY <4>1, <4>2, SubSeqProperties
      <4>4. w = SubSeq(url, i, last)
        BY DEF last
      <4> QED
        BY <4>1, <4>3, <4>4
    <3>4. v \in Seq(Chars) /\ Len(v) = 3 /\ v[1] = url[i] /\ v[2] = x /\ v[3] = y
      <4>1. url[i] \in Chars /\ x \in Chars /\ y \in Chars
        BY <1>6, <3>2
      <4> HIDE DEF x, y
      <4> QED
        BY <4>1
    <3>5. i + 1 - 1 = i /\ i + 2 - 1 = i + 1 /\ i + 3 - 1 = i + 2
      BY <1>6
    <3>6. w[1] = url[i] /\ w[2] = x /\ w[3] = y
      BY <3>3, <3>5
    <3> HIDE DEF v, w
    <3>7. \A k \in 1..Len(v) : v[k] = w[k]
      <4>1. \A k \in 1..Len(v) : k = 1 \/ k = 2 \/ k = 3
        BY <3>4
      <4> QED
        BY <3>4, <3>6, <4>1
    <3>8. v = w
      BY <3>3, <3>4, <3>7, SeqEqual
    <3> QED
      BY <3>1, <3>8 DEF v, w
  <2>5. Escape(<<x, y>>) = <<"%", x, y>>
    <3>1. x \in Chars /\ y \in Chars
      BY <1>7, LettersAre
    <3> HIDE DEF x, y
    <3> QED
      BY <3>1, EscapeOf
  <2> QED
    BY <1>7, <2>3, <2>4, <2>5
<1> HIDE DEF x, y
<1>9. ASSUME NEW s, Decoded(m, s, {}),
             \A a \in Singles : (Code(a)[2] = x /\ Code(a)[3] = y) => Lacks(s, a)
      PROVE  SinglesAt(name, Flat(s), i + 3, s)
  <2> DEFINE none == {}
  <2>1. Decoded(m, s, none)
    BY <1>9
  <2>2. Decoded(M, s, none)
    BY <1>2, <1>3, <2>1, DecodedOn
  <2> HIDE DEF none
  <2>3. Lacks(s, "codedEacute")
    BY <1>2, <1>3, <2>1, DecodedLacks, SinglesAre
  <2>4. ASSUME NEW p \in Seq(Letters), NEW t \in Seq(Letters), NEW a \in Singles,
               Marked(name) = Join(p, Put(a, t)), Len(Flat(p)) + 1 < i + 3
        PROVE  Lacks(s, a)
    <3> DEFINE j == Len(Flat(p)) + 1
    <3>1. /\ j \in Nat \ {0} /\ IsEscape(url, j)
          /\ url[j + 1] = Code(a)[2] /\ url[j + 2] = Code(a)[3]
      BY <2>4, MarkStands
    <3>2. j < i + 3
      BY <2>4
    <3>3. j < pos => Lacks(m, a)
      BY <1>2, <2>4 DEF PassedAt
    <3> HIDE DEF j
    <3>4. CASE j < pos
      <4>1. Lacks(m, a) /\ a \in Marks
        BY <3>3, <3>4, SinglesAre
      <4> QED
        BY <1>3, <2>1, <4>1, DecodedLacks
    <3>5. CASE ~(j < pos)
      <4>1. j + 2 <= Len(url)
        BY <3>1 DEF IsEscape
      <4>2. j \in pos..Len(url)
        BY <1>4, <3>1, <3>5, <4>1
      <4>3. i <= j
        BY <1>5, <3>1, <4>2, MatchesAre
      <4>4. i = j
        BY <1>6, <3>1, <3>2, <4>3, EscapesApart
      <4>5. Code(a)[2] = x /\ Code(a)[3] = y
        BY <3>1, <4>4 DEF x, y
      <4> QED
        BY <1>9, <4>5
    <3> QED
      BY <3>4, <3>5
  <2>5. PassedAt(name, i + 3, s)
    BY <2>4 DEF PassedAt
  <2> QED
    BY <2>2, <2>3, <2>5 DEF SinglesAt, M, none
<1>10. PICK k \in 1..Len(M) :
           \/ M[k] \in Singles /\ Code(M[k])[2] = x /\ Code(M[k])[3] = y
           \/ M[k] = "codedEacute" /\ ((x = "C" /\ y = "3") \/ (x = "A" /\ y = "9"))
  <2>1. ByteOf(M, x, y)
    BY <1>3, <1>4, <1>6, EscapesKnown DEF x, y
  <2> QED
    BY <2>1 DEF ByteOf
<1>11. k \in 1..Len(name) /\ M[k] = Mark(name[k]) /\ name[k] \in Chars
  BY <1>3, <1>10
<1>12. CASE M[k] \in Singles /\ Code(M[k])[2] = x /\ Code(M[k])[3] = y
  <2> DEFINE c == M[k]
  <2>1. c \in Singles /\ c \in Marks /\ Code(c)[2] = x /\ Code(c)[3] = y
    BY <1>12, SinglesAre
  <2>2. ~LooksLike(m, c)
    BY <1>2, <1>11, <2>1, MarkLooks DEF M
  <2> HIDE DEF c
  <2>3. PICK s : Decoded(m, s, {c}) /\ Replace(Flat(m), Code(c), <<Plain(c)>>) = Flat(s)
    BY <1>3, <2>1, <2>2, OneDecoded
  <2>4. FromLatin1(<<x, y>>) = <<Plain(c)>> /\ Escape(<<x, y>>) = Code(c)
    BY <2>1, BytesDecoded
  <2>5. Decoded(m, s, {}) /\ Lacks(s, c)
    BY <2>3, DecodedAny, DecodedGone
  <2>6. ASSUME NEW a \in Singles, Code(a)[2] = x, Code(a)[3] = y PROVE Lacks(s, a)
    <3>1. a \in Marks
      BY SinglesAre
    <3>2. a = c
      BY <2>1, <2>6, <3>1, BytesAre
    <3> QED
      BY <2>5, <3>2
  <2>7. SinglesAt(name, Flat(s), i + 3, s)
    BY <1>9, <2>5, <2>6
  <2> QED
    BY <1>2, <1>8, <2>3, <2>4, <2>7 DEF SinglesOK, i
<1>13. CASE M[k] = "codedEacute" /\ ((x = "C" /\ y = "3") \/ (x = "A" /\ y = "9"))
  <2>1. name[k] = "eacute"
    BY <1>11, <1>13, MarkIs
  <2>2. <<x, y>> \in Bytes(name[k])
    <3>1. Bytes("eacute") = {TwoBytes[1], TwoBytes[2]}
      BY DEF Bytes
    <3>2. TwoBytes[1] = <<"C", "3">> /\ TwoBytes[2] = <<"A", "9">>
      BY DEF TwoBytes
    <3> QED
      BY <1>13, <2>1, <3>1, <3>2
  <2>3. ~Looks(m, x, y)
    BY <1>2, <1>7, <1>11, <2>2, ReadableLooks DEF M
  <2>4. \A a \in Singles : ~(Code(a)[2] = x /\ Code(a)[3] = y)
    <3>1. \A a \in Singles : Code(a)[2] = "2"
      BY BytesAre DEF Singles
    <3> QED
      BY <1>13, <3>1
  <2>5. \A j \in 1..Len(m) : m[j] # "codedEacute"
    BY <1>2 DEF Lacks
  <2>6. PICK s : Decoded(m, s, {}) /\ Replace(Flat(m), Escape(<<x, y>>), <<"other">>) = Flat(s)
    BY <1>3, <1>7, <2>3, <2>4, <2>5, NoneDecoded
  <2>7. FromLatin1(<<x, y>>) = <<"other">>
    BY <1>13, BytesDecoded
  <2>8. SinglesAt(name, Flat(s), i + 3, s)
    BY <1>9, <2>4, <2>6
  <2> QED
    BY <1>2, <1>8, <2>6, <2>7, <2>8 DEF SinglesOK, i
<1> QED
  BY <1>10, <1>12, <1>13

LEMMA DecodeEnd ==
    ASSUME NEW name \in Names, Readable(name), url = Flat(Marked(name)), pos \in Nat \ {0},
           SinglesOK(name, dest, pos), Matches(1) = {}
    PROVE  Before(dest, "?") = name
<1> DEFINE M == Marked(name)
<1>1. PICK m : SinglesAt(name, dest, pos, m)
  BY DEF SinglesOK
<1>2. /\ Decoded(M, m, {}) /\ dest = Flat(m)
      /\ Lacks(m, "codedEacute") /\ PassedAt(name, pos, m)
  BY <1>1 DEF SinglesAt
<1>3. /\ m \in Seq(Letters) /\ M \in Seq(Letters)
      /\ Len(M) = Len(name) /\ Len(m) = Len(name) /\ Len(name) \in Nat
      /\ \A k \in 1..Len(name) : M[k] = Mark(name[k]) /\ name[k] \in Chars
      /\ \A k \in 1..Len(name) : m[k] = Mark(name[k]) \/ m[k] = name[k]
      /\ \A k \in 1..Len(name) : m[k] \in Marks \/ m[k] = name[k]
  BY <1>2, DecodedIs, MarkedTyped DEF Names
<1>4. Len(url) \in Nat
  BY <1>3, FlatTyped DEF Names
<1>5. ASSUME NEW k \in 1..Len(name) PROVE m[k] = name[k]
  <2> SUFFICES ASSUME m[k] # name[k] PROVE FALSE
    OBVIOUS
  <2> DEFINE a == M[k]
  <2>1. m[k] = a /\ m[k] \in Marks /\ k \in 1..Len(M) /\ k \in 1..Len(m)
    BY <1>3
  <2>2. a \in Singles
    BY <1>2, <2>1, SinglesAre DEF Lacks
  <2> HIDE DEF M
  <2>3. PICK p \in Seq(Letters) : \E t \in Seq(Letters) : M = Join(p, Put(a, t))
    BY <1>3, <2>1, SplitAt
  <2>4. PICK t \in Seq(Letters) : M = Join(p, Put(a, t))
    BY <2>3
  <2> HIDE DEF a
  <2>5. Marked(name) = Join(p, Put(a, t))
    BY <2>4 DEF M
  <2> DEFINE j == Len(Flat(p)) + 1
  <2>6. j \in Nat \ {0} /\ IsEscape(url, j)
    BY <2>2, <2>5, MarkStands
  <2>7. ~(j < pos)
    <3>1. j < pos => Lacks(m, a)
      BY <1>2, <2>2, <2>5 DEF PassedAt
    <3> QED
      BY <2>1, <3>1 DEF Lacks
  <2> HIDE DEF j
  <2>8. j + 2 <= Len(url)
    BY <2>6 DEF IsEscape
  <2>9. j \in pos..Len(url)
    BY <1>4, <2>6, <2>7, <2>8
  <2>10. j \in Matches(1)
    BY <2>6, <2>9, MatchesAre
  <2> QED
    BY <2>10
<1>6. m = name
  BY <1>3, <1>5, SeqEqual DEF Names
<1>7. dest = name
  BY <1>2, <1>6, FlatPlain
<1>8. Places(name, "?") = {}
  <2>1. \A i \in DOMAIN name : name[i] # "?"
    BY DEF Readable, Ambiguous
  <2> QED
    BY <2>1 DEF Places
<1> QED
  BY <1>7, <1>8, Zenon DEF Before

-----------------------------------------------------------------------------
(* Every link *)

\* What decodeURL has made so far of the address of an entry.
LinkInv ==
    (url = Address(followed.entry) /\ Readable(followed.entry)) =>
        /\ pc = "pairs" => PairsOK(followed.entry, dest, pos)
        /\ pc = "singles" => SinglesOK(followed.entry, dest, pos)
        /\ pc = "process" => path = followed.entry

LEMMA ReadableAddress ==
    ASSUME NEW name \in Names, Readable(name)
    PROVE  Address(name) = Flat(Marked(name))
<1>1. \A i \in 1..Len(name) : name[i] # "euro"
  <2>1. \A i \in DOMAIN name : name[i] # "euro"
    BY DEF Readable, Ambiguous
  <2> QED
    BY <2>1 DEF Names
<1> QED
  BY <1>1, AddressIsFlat

LEMMA LinkAsked ==
    ASSUME TypeOK', pc' = "pairs", dest' = url', pos' = 1
    PROVE  LinkInv'
<1> DEFINE n == followed.entry'
<1> SUFFICES ASSUME url' = Address(n), Readable(n)
             PROVE  PairsOK(n, dest', pos')
  BY DEF LinkInv
<1>1. n \in Names
  BY DEF TypeOK
<1> HIDE DEF n
<1>2. dest' = Flat(Marked(n))
  BY <1>1, ReadableAddress
<1> QED
  BY <1>1, <1>2, FirstPairs

LEMMA LinkDecoded ==
    ASSUME TypeOK, LinkInv, DecodePair \/ EndPairs \/ DecodeSingle \/ EndDecode
    PROVE  LinkInv'
<1> DEFINE n == followed.entry
<1>1. n \in Names /\ pos \in Nat \ {0}
  BY DEF TypeOK
<1>2. url' = url /\ followed' = followed
  BY DEF DecodePair, EndPairs, DecodeSingle, EndDecode, DecodeNext
<1> SUFFICES ASSUME url = Address(n), Readable(n)
             PROVE  /\ pc' = "pairs" => PairsOK(n, dest', pos')
                    /\ pc' = "singles" => SinglesOK(n, dest', pos')
                    /\ pc' = "process" => path' = n
  BY <1>2 DEF LinkInv
<1>3. url = Flat(Marked(n))
  BY <1>1, ReadableAddress
<1>4. /\ pc = "pairs" => PairsOK(n, dest, pos)
      /\ pc = "singles" => SinglesOK(n, dest, pos)
  BY DEF LinkInv
<1> HIDE DEF n
<1>5. CASE DecodePair
  <2> DEFINE i == IndexIn(2)
  <2>1. /\ pc = "pairs" /\ pc' = "pairs" /\ Matches(2) # {}
        /\ dest' = Replace(dest, SubSeq(url, i, i + 3 * 2 - 1),
                           FromUtf8(<<Captured(i), Captured(i + 3)>>))
        /\ pos' = i + 6
    BY <1>5 DEF DecodePair, DecodeNext
  <2>2. PairsOK(n, Replace(dest, SubSeq(url, i, i + 3 * 2 - 1),
                           FromUtf8(<<Captured(i), Captured(i + 3)>>)), i + 6)
    BY <1>1, <1>3, <1>4, <2>1, PairTurn
  <2> QED
    BY <2>1, <2>2
<1>6. CASE EndPairs
  <2>1. pc = "pairs" /\ Matches(2) = {} /\ pc' = "singles" /\ pos' = 1 /\ dest' = dest
    BY <1>6 DEF EndPairs
  <2> QED
    BY <1>1, <1>3, <1>4, <2>1, PairsEnd
<1>7. CASE DecodeSingle
  <2> DEFINE i == IndexIn(1)
  <2>1. /\ pc = "singles" /\ pc' = "singles" /\ Matches(1) # {}
        /\ dest' = Replace(dest, SubSeq(url, i, i + 3 * 1 - 1), FromLatin1(Captured(i)))
        /\ pos' = i + 3
    BY <1>7 DEF DecodeSingle, DecodeNext
  <2>2. SinglesOK(n, Replace(dest, SubSeq(url, i, i + 3 * 1 - 1), FromLatin1(Captured(i))),
                  i + 3)
    BY <1>1, <1>3, <1>4, <2>1, SingleTurn
  <2> QED
    BY <2>1, <2>2
<1>8. CASE EndDecode
  <2>1. pc = "singles" /\ Matches(1) = {} /\ pc' = "process" /\ path' = Before(dest, "?")
    BY <1>8 DEF EndDecode
  <2> QED
    BY <1>1, <1>3, <1>4, <2>1, DecodeEnd
<1> QED
  BY <1>5, <1>6, <1>7, <1>8

LEMMA NextLink ==
    ASSUME TypeOK, TypeOK', LinkInv, [Next]_vars
    PROVE  LinkInv'
<1>1. CASE AskTop \/ Follow
  <2>1. pc' = "pairs" /\ dest' = url' /\ pos' = 1
    BY <1>1 DEF AskTop, Follow, Ask
  <2> QED
    BY <2>1, LinkAsked
<1>2. CASE DecodePair \/ EndPairs \/ DecodeSingle \/ EndDecode
  BY <1>2, LinkDecoded
<1>3. CASE LoadLine \/ ServeFile \/ Decline \/ List \/ ListEntry \/ EndList
  <2>1. pc' \notin {"pairs", "singles", "process"}
    BY <1>3 DEF LoadLine, LoadTypes, ServeFile, Decline, List, ListEntry, EndList
  <2> QED
    BY <2>1 DEF LinkInv
<1>4. CASE UNCHANGED vars
  BY <1>4 DEF vars, LinkInv
<1> QED
  BY <1>1, <1>2, <1>3, <1>4 DEF Next, Server

\* For every directory a link leads to the entry that it was written for, however
\* many escapes stand side by side, though each of them is replaced everywhere
\* (onion.cpp:81, onion.cpp:92, onion.cpp:107), where the page has its own address
\* and the codec can tell.
THEOREM LinkAlwaysLeadsBack == Spec => []LinkLeadsBack
<1>1. Init => LinkInv
  BY DEF Init, LinkInv
<1>2. TypeOK /\ TypeOK' /\ LinkInv /\ [Next]_vars => LinkInv'
  BY NextLink
<1>3. LinkInv => LinkLeadsBack
  BY DEF LinkInv, LinkLeadsBack
<1> QED
  BY <1>1, <1>2, <1>3, ListingTypeCorrect, PTL DEF Spec
=============================================================================
