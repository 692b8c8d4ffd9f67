-------------------------- MODULE ParserTreeProofs --------------------------
(***************************************************************************)
(* The parser makes a tree, and what it deletes on the way is gone: for    *)
(* every text, every set of names and every set of files.                  *)
(*                                                                         *)
(* What nobody holds yet is in the hands of a call that waits, or is being *)
(* returned.  No module is in two hands, or in one and in the tree.        *)
(* Module::null, which all ActivateModule share, is left out of this.      *)
(*                                                                         *)
(* What is above a module is what the calls have waited with when it was   *)
(* made: the places that a step keeps close this module.                   *)
(***************************************************************************)
EXTENDS ConfigParserProofs

\* A module that is made for one place.
Real(m) == m \notin {NULL, NullModule}

\* In the tree b nobody holds m, or at most one place does.
Free(b, m) ==
    \A k \in DOMAIN b : /\ b[k].next # m
                        /\ \A i \in DOMAIN b[k].list : b[k].list[i] # m

AtMostOnce(b, m) ==
    \A k, l \in DOMAIN b :
        /\ b[k].next = m /\ b[l].next = m => k = l
        /\ \A i \in DOMAIN b[k].list : b[k].list[i] = m =>
             /\ b[l].next # m
             /\ \A j \in DOMAIN b[l].list : b[l].list[j] = m => k = l /\ i = j

\* What is free has no owners, and what is held at most once has at most one.
LEMMA FreeIsUnowned ==
    ASSUME NEW m
    PROVE  Free(built, m) <=> Owners(m) = {}
<1>1. ASSUME Free(built, m) PROVE Owners(m) = {}
  BY <1>1 DEF Free, Owners
<1>2. ASSUME Owners(m) = {} PROVE Free(built, m)
  <2>1. ASSUME NEW k \in DOMAIN built
        PROVE  /\ built[k].next # m
               /\ \A i \in DOMAIN built[k].list : built[k].list[i] # m
    <3>1. ({0} \X {i \in {k} : built[k].next = m})
            \cup ({k} \X {i \in DOMAIN built[k].list : built[k].list[i] = m}) = {}
      BY <1>2 DEF Owners
    <3>2. built[k].next = m => <<0, k>> \in {0} \X {i \in {k} : built[k].next = m}
      OBVIOUS
    <3>3. \A i \in DOMAIN built[k].list : built[k].list[i] = m =>
             <<k, i>> \in {k} \X {j \in DOMAIN built[k].list : built[k].list[j] = m}
      OBVIOUS
    <3> QED
      BY <3>1, <3>2, <3>3
  <2> QED
    BY <2>1 DEF Free
<1> QED
  BY <1>1, <1>2

LEMMA OnceIsOwnedOnce ==
    ASSUME NEW m, AtMostOnce(built, m)
    PROVE  Cardinality(Owners(m)) <= 1
<1>1. ASSUME NEW p \in Owners(m)
      PROVE  \/ \E k \in DOMAIN built : built[k].next = m /\ p = <<0, k>>
             \/ \E k \in DOMAIN built : \E i \in DOMAIN built[k].list :
                  built[k].list[i] = m /\ p = <<k, i>>
  BY <1>1 DEF Owners
<1>2. ASSUME NEW p \in Owners(m), NEW q \in Owners(m)
      PROVE  p = q
  <2>1. CASE \E k \in DOMAIN built : built[k].next = m /\ p = <<0, k>>
    <3>1. PICK k \in DOMAIN built : built[k].next = m /\ p = <<0, k>>
      BY <2>1
    <3>2. PICK l \in DOMAIN built : built[l].next = m /\ q = <<0, l>>
      BY <1>1, <3>1 DEF AtMostOnce
    <3> QED
      BY <3>1, <3>2 DEF AtMostOnce
  <2>2. CASE \E k \in DOMAIN built : \E i \in DOMAIN built[k].list :
               built[k].list[i] = m /\ p = <<k, i>>
    <3>1. PICK k \in DOMAIN built : \E i \in DOMAIN built[k].list :
            built[k].list[i] = m /\ p = <<k, i>>
      BY <2>2
    <3>2. PICK i \in DOMAIN built[k].list : built[k].list[i] = m /\ p = <<k, i>>
      BY <3>1
    <3>3. PICK l \in DOMAIN built : \E j \in DOMAIN built[l].list :
            built[l].list[j] = m /\ q = <<l, j>>
      BY <1>1, <3>2 DEF AtMostOnce
    <3>4. PICK j \in DOMAIN built[l].list : built[l].list[j] = m /\ q = <<l, j>>
      BY <3>3
    <3> QED
      BY <3>2, <3>4 DEF AtMostOnce
  <2> QED
    BY <1>1, <2>1, <2>2
<1>3. CASE Owners(m) = {}
  BY <1>3, FS_EmptySet
<1>4. CASE Owners(m) # {}
  <2>1. PICK p : p \in Owners(m)
    BY <1>4
  <2>2. Owners(m) = {p}
    BY <1>2, <2>1
  <2>3. Cardinality(Owners(m)) = 1
    BY <2>2, FS_Singleton, Zenon
  <2> QED
    BY <2>3
<1> QED
  BY <1>3, <1>4

-----------------------------------------------------------------------------
(* What a step does to the tree *)

\* A new module holds nothing, and nobody holds it.
LEMMA GrowOnce ==
    ASSUME NEW b, TreeOK(b), NEW m \in Modules, m.next = NULL, m.list = <<>>
    PROVE  LET c == Append(b, m)
           IN  /\ Free(c, Len(b) + 1) /\ Len(b) + 1 \notin DOMAIN b
               /\ \A n : n # NULL =>
                    /\ Free(b, n) => Free(c, n)
                    /\ AtMostOnce(b, n) => AtMostOnce(c, n)
<1> DEFINE c == Append(b, m)
<1>1. b \in Seq(Modules) /\ Len(b) \in Nat
  BY DEF TreeOK
<1>2. /\ \A k \in DOMAIN c : k \in DOMAIN b \/ k = Len(b) + 1
      /\ \A k \in DOMAIN b : k \in DOMAIN c /\ c[k] = b[k] /\ k # Len(b) + 1
      /\ c[Len(b) + 1] = m
  BY <1>1
<1> HIDE DEF c
<1>3. \A k \in DOMAIN c :
        \/ k \in DOMAIN b /\ c[k] = b[k]
        \/ c[k].next = NULL /\ c[k].list = <<>>
  BY <1>2
<1>4. ASSUME NEW n, n # NULL
      PROVE  /\ Free(b, n) => Free(c, n)
             /\ AtMostOnce(b, n) => AtMostOnce(c, n)
  <2>1. \A k \in DOMAIN c :
          \/ k \in DOMAIN b /\ c[k] = b[k]
          \/ c[k].next # n /\ \A i \in DOMAIN c[k].list : c[k].list[i] # n
    BY <1>3, <1>4
  <2>2. Free(b, n) => Free(c, n)
    BY <2>1 DEF Free
  <2>3. AtMostOnce(b, n) => AtMostOnce(c, n)
    BY <2>1 DEF AtMostOnce
  <2> QED
    BY <2>2, <2>3
<1>5. Free(b, Len(b) + 1)
  <2>1. Len(b) + 1 \notin DOMAIN b \cup {NULL}
    BY <1>1, <1>2 DEF NULL
  <2> QED
    BY <2>1 DEF Free, TreeOK
<1>6. Len(b) + 1 # NULL /\ Len(b) + 1 \notin DOMAIN b
  BY <1>1, <1>2 DEF NULL
<1> QED
  BY <1>4, <1>5, <1>6 DEF c

\* c is b, but that the place of a module, its next one or one more in its list,
\* holds r now.
Gives(b, c, r) ==
    \E k \in DOMAIN b :
        /\ DOMAIN c = DOMAIN b
        /\ \A n \in DOMAIN b \ {k} : c[n] = b[n]
        /\ \/ c[k].next = r /\ c[k].list = b[k].list
           \/ /\ c[k].next = b[k].next
              /\ \E last \in DOMAIN c[k].list :
                   /\ c[k].list[last] = r
                   /\ \A i \in DOMAIN c[k].list \ {last} :
                        i \in DOMAIN b[k].list /\ c[k].list[i] = b[k].list[i]

LEMMA LinkGives ==
    ASSUME NEW b, TreeOK(b), NEW m \in DOMAIN b, NEW r \in DOMAIN b \cup {NULL}
    PROVE  Gives(b, [b EXCEPT ![m].next = r], r)
<1> DEFINE new == [b[m] EXCEPT !.next = r]
           c == [b EXCEPT ![m] = new]
<1>1. b[m] \in Modules
  BY DEF TreeOK
<1>2. new.next = r /\ new.list = b[m].list
  BY <1>1 DEF Modules
<1>3. c = [b EXCEPT ![m].next = r]
  OBVIOUS
<1>4. c[m] = new /\ DOMAIN c = DOMAIN b /\ \A n \in DOMAIN b \ {m} : c[n] = b[n]
  OBVIOUS
<1> HIDE DEF c, new
<1>5. Gives(b, c, r)
  BY <1>2, <1>4 DEF Gives
<1> QED
  BY <1>3, <1>5

LEMMA FillGives ==
    ASSUME NEW b, TreeOK(b), NEW m \in DOMAIN b, NEW r \in DOMAIN b
    PROVE  Gives(b, [b EXCEPT ![m].list = Append(b[m].list, r)], r)
<1> DEFINE list == Append(b[m].list, r)
           new == [b[m] EXCEPT !.list = list]
           c == [b EXCEPT ![m] = new]
           last == Len(b[m].list) + 1
<1>1. b[m] \in Modules
  BY DEF TreeOK
<1>2. b[m].list \in Seq(Nat)
  BY <1>1 DEF Modules
<1>3. /\ last \in DOMAIN list /\ list[last] = r
      /\ \A i \in DOMAIN list \ {last} : i \in DOMAIN b[m].list /\ list[i] = b[m].list[i]
  BY <1>2
<1> HIDE DEF list, last
<1>4. new.list = list /\ new.next = b[m].next
  BY <1>1 DEF Modules
<1>5. c = [b EXCEPT ![m].list = Append(b[m].list, r)]
  BY DEF list
<1>6. c[m] = new /\ DOMAIN c = DOMAIN b /\ \A n \in DOMAIN b \ {m} : c[n] = b[n]
  OBVIOUS
<1> HIDE DEF c, new
<1>7. Gives(b, c, r)
  BY <1>3, <1>4, <1>6 DEF Gives
<1> QED
  BY <1>5, <1>7

\* It takes no other module from the hands of anybody, and r is held once.
LEMMA GivenOnce ==
    ASSUME NEW b, NEW c, NEW r, Gives(b, c, r)
    PROVE  /\ \A n : n # r => /\ Free(b, n) => Free(c, n)
                              /\ AtMostOnce(b, n) => AtMostOnce(c, n)
           /\ Free(b, r) => AtMostOnce(c, r)
<1>1. PICK k \in DOMAIN b :
        /\ DOMAIN c = DOMAIN b
        /\ \A n \in DOMAIN b \ {k} : c[n] = b[n]
        /\ \/ c[k].next = r /\ c[k].list = b[k].list
           \/ /\ c[k].next = b[k].next
              /\ \E last \in DOMAIN c[k].list :
                   /\ c[k].list[last] = r
                   /\ \A i \in DOMAIN c[k].list \ {last} :
                        i \in DOMAIN b[k].list /\ c[k].list[i] = b[k].list[i]
  BY DEF Gives
<1>2. ASSUME NEW n, n # r
      PROVE  \A l \in DOMAIN c :
                /\ l \in DOMAIN b
                /\ c[l].next = n => b[l].next = n
                /\ \A i \in DOMAIN c[l].list : c[l].list[i] = n =>
                     i \in DOMAIN b[l].list /\ b[l].list[i] = n
  BY <1>1, <1>2
<1>3. ASSUME NEW n, n # r
      PROVE  /\ Free(b, n) => Free(c, n)
             /\ AtMostOnce(b, n) => AtMostOnce(c, n)
  <2>0. \A l \in DOMAIN c :
           /\ l \in DOMAIN b
           /\ c[l].next = n => b[l].next = n
           /\ \A i \in DOMAIN c[l].list : c[l].list[i] = n =>
                i \in DOMAIN b[l].list /\ b[l].list[i] = n
    BY <1>2, <1>3
  <2>1. ASSUME Free(b, n) PROVE Free(c, n)
    BY <2>0, <2>1 DEF Free
  <2>2. AtMostOnce(b, n) => AtMostOnce(c, n)
    BY <2>0 DEF AtMostOnce
  <2> QED
    BY <2>1, <2>2
<1>4. ASSUME Free(b, r) PROVE AtMostOnce(c, r)
  <2>1. CASE c[k].next = r /\ c[k].list = b[k].list
    <3>1. \A l \in DOMAIN c :
            /\ c[l].next = r => l = k
            /\ \A i \in DOMAIN c[l].list : c[l].list[i] # r
      BY <1>1, <1>4, <2>1 DEF Free
    <3> QED
      BY <3>1 DEF AtMostOnce
  <2>2. CASE /\ c[k].next = b[k].next
             /\ \E last \in DOMAIN c[k].list :
                  /\ c[k].list[last] = r
                  /\ \A i \in DOMAIN c[k].list \ {last} :
                       i \in DOMAIN b[k].list /\ c[k].list[i] = b[k].list[i]
    <3>1. PICK last \in DOMAIN c[k].list :
            \A i \in DOMAIN c[k].list \ {last} :
               i \in DOMAIN b[k].list /\ c[k].list[i] = b[k].list[i]
      BY <2>2
    <3>2. \A l \in DOMAIN c :
            /\ c[l].next # r
            /\ \A i \in DOMAIN c[l].list : c[l].list[i] = r => l = k /\ i = last
      BY <1>1, <1>4, <2>2, <3>1 DEF Free
    <3> QED
      BY <3>2 DEF AtMostOnce
  <2> QED
    BY <1>1, <2>1, <2>2
<1> QED
  BY <1>3, <1>4

-----------------------------------------------------------------------------
(* What a step does to the hands *)

\* The calls s and the module g that is being returned hold what nobody in the
\* tree b holds, each an other one.
OwnersOK(s, b, g) ==
    /\ \A m \in DOMAIN b \ {NullModule} : AtMostOnce(b, m)
    /\ Real(g) => Free(b, g)
    /\ \A i \in DOMAIN s : Real(s[i].me) =>
         /\ Free(b, s[i].me) /\ s[i].me # g
         /\ \A j \in DOMAIN s : i # j => s[i].me # s[j].me

\* What is returned may be forgotten.
LEMMA Forget ==
    ASSUME NEW s, NEW b, NEW g, OwnersOK(s, b, g)
    PROVE  OwnersOK(s, b, NULL)
  BY DEF OwnersOK, Real

\* The calls below the last one.
LEMMA PopSeq ==
    ASSUME NEW s \in Seq(Frames), s # <<>>
    PROVE  LET r == SubSeq(s, 1, Len(s) - 1)
           IN  /\ Len(s) \in DOMAIN s /\ Len(s) \in Nat
               /\ r \in Seq(Frames) /\ Len(r) = Len(s) - 1
               /\ DOMAIN r = 1..(Len(s) - 1)
               /\ \A i \in DOMAIN r : i \in DOMAIN s /\ r[i] = s[i]
<1> DEFINE n == Len(s) - 1
           r == SubSeq(s, 1, n)
<1>1. Len(s) \in Nat \ {0} /\ n \in Nat /\ DOMAIN s = 1..(n + 1)
  OBVIOUS
<1>2. \A i \in 1..n : s[i] \in Frames
  OBVIOUS
<1>3. Len(s) = n + 1
  OBVIOUS
<1> HIDE DEF n
<1>4. /\ SubSeq(s, 1, n) \in Seq(Frames)
      /\ Len(SubSeq(s, 1, n)) = IF 1 <= n THEN n - 1 + 1 ELSE 0
      /\ \A i \in 1..(n - 1 + 1) : SubSeq(s, 1, n)[i] = s[1 + i - 1]
  BY <1>1, <1>2, SubSeqProperties
<1>5. Len(r) = n /\ DOMAIN r = 1..n
  BY <1>1, <1>4
<1>6. \A i \in 1..n : r[i] = s[i] /\ i \in DOMAIN s
  BY <1>1, <1>4
<1> QED
  BY <1>1, <1>3, <1>4, <1>5, <1>6 DEF n

\* What a call has held is returned.
LEMMA PopHand ==
    ASSUME NEW s \in Seq(Frames), s # <<>>, NEW b, NEW g, OwnersOK(s, b, g)
    PROVE  /\ OwnersOK(SubSeq(s, 1, Len(s) - 1), b, g)
           /\ OwnersOK(SubSeq(s, 1, Len(s) - 1), b, s[Len(s)].me)
<1> DEFINE r == SubSeq(s, 1, Len(s) - 1)
<1>1. /\ Len(s) \in DOMAIN s
      /\ \A i \in DOMAIN r : i \in DOMAIN s /\ i # Len(s) /\ r[i] = s[i]
  OBVIOUS
<1> HIDE DEF r
<1>2. OwnersOK(r, b, g) /\ OwnersOK(r, b, s[Len(s)].me)
  BY <1>1 DEF OwnersOK, Real
<1> QED
  BY <1>2 DEF r

\* What was returned is held by a call.
LEMMA PushHand ==
    ASSUME NEW s \in Seq(Frames), NEW b, NEW f \in Frames, OwnersOK(s, b, f.me)
    PROVE  OwnersOK(Append(s, f), b, NULL)
<1> DEFINE r == Append(s, f)
<1>1. \A i \in DOMAIN r : \/ i \in DOMAIN s /\ r[i] = s[i]
                          \/ i = Len(s) + 1 /\ i \notin DOMAIN s /\ r[i] = f
  OBVIOUS
<1> HIDE DEF r
<1>2. ASSUME NEW i \in DOMAIN r, Real(r[i].me)
      PROVE  Free(b, r[i].me) /\ r[i].me # NULL
  BY <1>1, <1>2 DEF OwnersOK, Real
<1>3. ASSUME NEW i \in DOMAIN r, Real(r[i].me), NEW j \in DOMAIN r, i # j
      PROVE  r[i].me # r[j].me
  <2>1. CASE i \in DOMAIN s /\ r[i] = s[i]
    <3>1. CASE j \in DOMAIN s /\ r[j] = s[j]
      BY <1>3, <2>1, <3>1 DEF OwnersOK
    <3>2. CASE r[j] = f
      BY <1>3, <2>1, <3>2 DEF OwnersOK
    <3> QED
      BY <1>1, <3>1, <3>2
  <2>2. CASE i = Len(s) + 1 /\ r[i] = f
    <3>1. j \in DOMAIN s /\ r[j] = s[j]
      BY <1>1, <1>3, <2>2
    <3>2. r[j].me # f.me
      BY <1>3, <2>2, <3>1 DEF OwnersOK
    <3> QED
      BY <2>2, <3>2
  <2> QED
    BY <1>1, <2>1, <2>2
<1>4. OwnersOK(r, b, NULL)
  BY <1>2, <1>3 DEF OwnersOK, Real
<1> QED
  BY <1>4 DEF r

\* A module is made, and returned.
LEMMA MakeHand ==
    ASSUME NEW s, NEW b, TreeOK(b), OwnersOK(s, b, NULL),
           \A i \in DOMAIN s : s[i].me \in DOMAIN b \cup {NULL},
           NEW m \in Modules, m.next = NULL, m.list = <<>>
    PROVE  OwnersOK(s, Append(b, m), Len(b) + 1)
<1> DEFINE c == Append(b, m)
           n == Len(b) + 1
<1>1. b \in Seq(Modules) /\ Len(b) \in Nat
  BY DEF TreeOK
<1>2. DOMAIN c = DOMAIN b \cup {n} /\ NULL \notin DOMAIN c /\ n # NULL
  BY <1>1 DEF NULL
<1>3. /\ Free(c, n) /\ n \notin DOMAIN b
      /\ \A k : k # NULL => /\ Free(b, k) => Free(c, k)
                            /\ AtMostOnce(b, k) => AtMostOnce(c, k)
  BY GrowOnce
<1> HIDE DEF c, n
<1>4. AtMostOnce(c, n)
  BY <1>3 DEF AtMostOnce, Free
<1>5. \A k \in DOMAIN c \ {NullModule} : AtMostOnce(c, k)
  BY <1>2, <1>3, <1>4 DEF OwnersOK
<1>6. ASSUME NEW i \in DOMAIN s, Real(s[i].me)
      PROVE  /\ Free(c, s[i].me) /\ s[i].me # n
             /\ \A j \in DOMAIN s : i # j => s[i].me # s[j].me
  <2>1. s[i].me # NULL
    BY <1>6 DEF Real
  <2>2. s[i].me # n
    BY <1>3, <2>1
  <2>3. Free(b, s[i].me) /\ \A j \in DOMAIN s : i # j => s[i].me # s[j].me
    BY <1>6 DEF OwnersOK
  <2> QED
    BY <1>3, <2>1, <2>2, <2>3
<1>7. OwnersOK(s, c, n)
  BY <1>3, <1>5, <1>6 DEF OwnersOK
<1> QED
  BY <1>7 DEF c, n

\* What was returned is put into the tree.
LEMMA GiveHand ==
    ASSUME NEW s, NEW b, TreeOK(b), NEW g, OwnersOK(s, b, g), NEW c, Gives(b, c, g),
           g \in DOMAIN b \cup {NULL}
    PROVE  OwnersOK(s, c, NULL)
<1>1. DOMAIN c = DOMAIN b /\ NULL \notin DOMAIN b
  BY DEF Gives, TreeOK, NULL
<1>2. /\ \A n : n # g => /\ Free(b, n) => Free(c, n)
                         /\ AtMostOnce(b, n) => AtMostOnce(c, n)
      /\ Free(b, g) => AtMostOnce(c, g)
  BY GivenOnce
<1>3. ASSUME NEW m \in DOMAIN c \ {NullModule} PROVE AtMostOnce(c, m)
  <2>1. CASE m # g
    BY <1>1, <1>2, <2>1 DEF OwnersOK
  <2>2. CASE m = g
    BY <1>1, <1>2, <2>2 DEF OwnersOK, Real
  <2> QED
    BY <2>1, <2>2
<1>4. ASSUME NEW i \in DOMAIN s, Real(s[i].me)
      PROVE  /\ Free(c, s[i].me) /\ s[i].me # NULL
             /\ \A j \in DOMAIN s : i # j => s[i].me # s[j].me
  <2>1. /\ Free(b, s[i].me) /\ s[i].me # g
        /\ \A j \in DOMAIN s : i # j => s[i].me # s[j].me
    BY <1>4 DEF OwnersOK
  <2> QED
    BY <1>2, <1>4, <2>1 DEF Real
<1> QED
  BY <1>3, <1>4 DEF OwnersOK, Real

\* The calls hold what they have held.
LEMMA SameHands ==
    ASSUME NEW s, NEW r, DOMAIN r = DOMAIN s, \A i \in DOMAIN s : r[i].me = s[i].me,
           NEW b, NEW g, OwnersOK(s, b, g)
    PROVE  OwnersOK(r, b, g)
  BY DEF OwnersOK
-----------------------------------------------------------------------------
(* How calls nest *)

\* Nothing but getModuleList is called by getRoot, by a block or by an Include,
\* and getModule and getNextModule are called by a list or in a chain.
NestOK(s) ==
    \A i \in DOMAIN s :
        /\ s[i].fn # "list" => i > 1 /\ s[i - 1].fn \in {"list", "chain"}
        /\ s[i].fn = "block" => s[i].me = NULL

\* The last of the calls s waits for a list.
OpensList(s) == s = <<>> \/ s[Len(s)].fn \in {"block", "include"}

LEMMA PopNest ==
    ASSUME NEW s \in Seq(Frames), s # <<>>, NestOK(s)
    PROVE  /\ NestOK(SubSeq(s, 1, Len(s) - 1))
           /\ s[Len(s)].fn # "list" => ~OpensList(SubSeq(s, 1, Len(s) - 1))
<1> DEFINE r == SubSeq(s, 1, Len(s) - 1)
<1>1. /\ Len(s) \in DOMAIN s /\ Len(s) \in Nat
      /\ Len(r) = Len(s) - 1
      /\ DOMAIN r = 1..(Len(s) - 1)
      /\ \A i \in DOMAIN r : i \in DOMAIN s /\ r[i] = s[i]
  BY PopSeq
<1> HIDE DEF r
<1>0. r = <<>> => Len(s) = 1
  <2>1. Len(<<>>) = 0
    OBVIOUS
  <2>2. r = <<>> => Len(s) - 1 = 0
    BY <1>1, <2>1
  <2> QED
    BY <1>1, <2>2
<1>2. ASSUME NEW i \in DOMAIN r
      PROVE  /\ r[i].fn # "list" => i > 1 /\ r[i - 1].fn \in {"list", "chain"}
             /\ r[i].fn = "block" => r[i].me = NULL
  <2>1. i > 1 => i - 1 \in DOMAIN r
    BY <1>1
  <2> QED
    BY <1>1, <2>1 DEF NestOK
<1>3. s[Len(s)].fn # "list" => ~OpensList(r)
  <2>1. ASSUME s[Len(s)].fn # "list"
        PROVE  Len(s) > 1 /\ s[Len(s) - 1].fn \in {"list", "chain"}
    BY <1>1, <2>1 DEF NestOK
  <2> QED
    BY <1>0, <1>1, <2>1 DEF OpensList
<1> QED
  BY <1>2, <1>3 DEF NestOK, r

LEMMA PushNest ==
    ASSUME NEW s \in Seq(Frames), NestOK(s), NEW f \in Frames,
           f.fn = "block" => f.me = NULL,
           f.fn = "list" \/ ~OpensList(s)
    PROVE  NestOK(Append(s, f))
<1> DEFINE r == Append(s, f)
<1>1. /\ Len(s) \in Nat /\ Len(r) = Len(s) + 1 /\ DOMAIN r = 1..(Len(s) + 1)
      /\ \A i \in DOMAIN s : i \in DOMAIN r /\ r[i] = s[i]
      /\ r[Len(s) + 1] = f
      /\ DOMAIN s = 1..Len(s)
  OBVIOUS
<1> HIDE DEF r
<1>2. ASSUME f.fn # "list"
      PROVE  Len(s) > 0 /\ s[Len(s)].fn \in {"list", "chain"}
  <2>1. s # <<>> /\ s[Len(s)].fn \notin {"block", "include"}
    BY <1>2 DEF OpensList
  <2>2. s[Len(s)] \in Frames
    BY <2>1
  <2> QED
    BY <2>1, <2>2 DEF Frames
<1>3. ASSUME NEW i \in DOMAIN r
      PROVE  /\ r[i].fn # "list" => i > 1 /\ r[i - 1].fn \in {"list", "chain"}
             /\ r[i].fn = "block" => r[i].me = NULL
  <2>1. CASE i \in DOMAIN s
    <3>1. i > 1 => i - 1 \in DOMAIN s
      BY <1>1, <2>1
    <3> QED
      BY <1>1, <2>1, <3>1 DEF NestOK
  <2>2. CASE i = Len(s) + 1
    <3>1. Len(s) > 0 => i - 1 \in DOMAIN s /\ i > 1 /\ i - 1 = Len(s)
      BY <1>1, <2>2
    <3> QED
      BY <1>1, <1>2, <2>2, <3>1
  <2> QED
    BY <1>1, <2>1, <2>2
<1> QED
  BY <1>3 DEF NestOK, r

LEMMA ChangeNest ==
    ASSUME NEW s, NEW r, DOMAIN r = DOMAIN s, NestOK(s),
           \A i \in DOMAIN s : r[i].me = s[i].me /\ r[i].fn = s[i].fn,
           s \in Seq(Frames)
    PROVE  NestOK(r)
<1>1. \A i \in DOMAIN s : i > 1 => i - 1 \in DOMAIN s
  OBVIOUS
<1> QED
  BY <1>1 DEF NestOK

-----------------------------------------------------------------------------
(* The inductive invariant *)

\* The module that is being returned.
Given == IF pc = "return" THEN returned ELSE NULL

\* Who waits for a list gets one, or none.
Opened ==
    OpensList(stack) =>
        /\ pc \in {"getRoot", "include", "return", "undefined"}
        /\ pc = "return" => returned # NullModule

OwnInv ==
    /\ OwnersOK(stack, built, Given)
    /\ NestOK(stack)
    /\ Opened
    /\ built[NullModule].name = "NULL"

\* Modules keep their names.
LEMMA NullKeepsName ==
    ASSUME IInv, OwnInv, Grown(built, built')
    PROVE  built'[NullModule].name = "NULL"
  BY DEF Grown, OwnInv, IInv, Shape, TreeOK

\* What the calls hold has been built.
LEMMA MeIsBuilt ==
    ASSUME IInv, OwnInv
    PROVE  /\ stack \in Seq(Frames) /\ TreeOK(built)
           /\ \A i \in DOMAIN stack : stack[i].me \in DOMAIN built \cup {NULL}
           /\ returned \in DOMAIN built \cup {NULL}
<1>1. stack \in Seq(Frames) /\ \A i \in DOMAIN stack : FrameOK(stack[i], built)
  BY DEF IInv, Shape, CallsOK
<1>2. ASSUME NEW i \in DOMAIN stack
      PROVE  stack[i].me \in DOMAIN built \cup {NULL}
  <2>1. stack[i] \in Frames /\ FrameOK(stack[i], built)
    BY <1>1
  <2>2. stack[i].fn \in {"list", "block", "chain", "include"}
    BY <2>1 DEF Frames
  <2>3. stack[i].fn = "block" => stack[i].me = NULL
    BY DEF OwnInv, NestOK
  <2> QED
    BY <2>1, <2>2, <2>3 DEF FrameOK
<1> QED
  BY <1>1, <1>2 DEF IInv, Shape, Ids

\* The call on top.
LEMMA TopIsCall ==
    ASSUME IInv, OwnInv, stack # <<>>
    PROVE  /\ Top \in Frames /\ Top = stack[Len(stack)] /\ Len(stack) \in DOMAIN stack
           /\ Pop = SubSeq(stack, 1, Len(stack) - 1) /\ Pop \in Seq(Frames)
           /\ FrameOK(Top, built) /\ Top.me \in DOMAIN built \cup {NULL}
           /\ NestOK(Pop)
           /\ Top.fn # "list" => ~OpensList(Pop)
           /\ Top.fn \in {"list", "include"} => Top.me \notin {NULL, NullModule}
<1>1. /\ stack \in Seq(Frames) /\ CallsOK(stack, built) /\ TreeOK(built)
      /\ \A i \in DOMAIN stack : stack[i].me \in DOMAIN built \cup {NULL}
  BY MeIsBuilt DEF IInv, Shape
<1>2. Len(stack) \in DOMAIN stack /\ Pop \in Seq(Frames)
  BY <1>1, PopSeq DEF Pop
<1>3. Top \in Frames /\ FrameOK(Top, built) /\ Top.me \in DOMAIN built \cup {NULL}
  BY <1>1, <1>2, PopCall DEF Top
<1>4. NestOK(Pop) /\ (Top.fn # "list" => ~OpensList(Pop))
  BY <1>1, PopNest DEF OwnInv, Pop, Top
<1>5. Top.fn \in {"list", "include"} => Top.me \notin {NULL, NullModule}
  <2>1. NULL \notin DOMAIN built
    BY <1>1 DEF TreeOK, NULL
  <2> QED
    BY <1>3, <2>1 DEF FrameOK, OwnInv
<1> QED
  BY <1>2, <1>3, <1>4, <1>5 DEF Top, Pop

\* A step that leaves calls and modules alone, and returns none.
LEMMA GoesOnOwned ==
    ASSUME IInv, OwnInv, UNCHANGED <<stack, built>>, pc' = "return" => returned' = NULL,
           \/ pc \notin {"getRoot", "include", "return", "undefined"}
           \/ pc' \in {"getRoot", "include", "return", "undefined"}
    PROVE  OwnInv'
<1>1. OwnersOK(stack, built, NULL)
  BY Forget DEF OwnInv
<1>2. Given' = NULL
  BY DEF Given
<1>3. OwnersOK(stack', built', Given')
  BY <1>1, <1>2
<1>4. Opened'
  BY DEF OwnInv, Opened, NULL, NullModule
<1> QED
  BY <1>3, <1>4 DEF OwnInv

\* A module or NULL is in the hands of nobody else, a call takes it and goes on.
LEMMA CallOwned ==
    ASSUME IInv, OwnInv, Grown(built, built'), NEW frames \in Seq(Frames), NestOK(frames),
           NEW f \in Frames, OwnersOK(frames, built', f.me), stack' = Append(frames, f),
           \/ f.fn = "list"
           \/ f.fn = "chain" /\ ~OpensList(frames)
           \/ f.fn = "include" /\ ~OpensList(frames) /\ pc' = "include",
           pc' # "return"
    PROVE  OwnInv'
<1>1. OwnersOK(stack', built', NULL)
  BY PushHand
<1>2. Given' = NULL
  BY DEF Given
<1>3. NestOK(stack')
  BY PushNest
<1>4. Opened'
  <2>1. stack' # <<>> /\ stack'[Len(stack')] = f
    OBVIOUS
  <2>2. OpensList(stack') => pc' = "include"
    BY <2>1 DEF OpensList
  <2> QED
    BY <2>2 DEF Opened
<1> QED
  BY <1>1, <1>2, <1>3, <1>4, NullKeepsName DEF OwnInv

\* A call returns, and gives a module that nobody else has, or none.
LEMMA ReturnOwned ==
    ASSUME IInv, OwnInv, stack # <<>>, Grown(built, built'), stack' = Pop, pc' = "return",
           OwnersOK(Pop, built', returned'),
           \/ returned' # NullModule
           \/ Top.fn # "list"
    PROVE  OwnInv'
<1>1. Given' = returned'
  BY DEF Given
<1>2. NestOK(stack') /\ (Top.fn # "list" => ~OpensList(stack'))
  BY TopIsCall
<1>3. Opened'
  BY <1>2 DEF Opened
<1> QED
  BY <1>1, <1>2, <1>3, NullKeepsName DEF OwnInv

-----------------------------------------------------------------------------
(* The steps *)

LEMMA InitOwned == Init => OwnInv
<1> SUFFICES ASSUME Init PROVE OwnInv
  OBVIOUS
<1>1. stack = <<>> /\ pc = "getRoot" /\ built = <<New("NULL", NoParams)>>
  BY DEF Init
<1>2. /\ DOMAIN built = {NullModule} /\ built[NullModule].name = "NULL"
  BY <1>1 DEF New, NullModule
<1>3. OwnersOK(stack, built, Given)
  BY <1>1, <1>2 DEF OwnersOK, Given, Real
<1> QED
  BY <1>1, <1>2, <1>3 DEF OwnInv, NestOK, Opened

\* The steps of getModule, getNextModule and readParameters read on, with the
\* tree and the calls as they are, until one returns without a module.
LEMMA ReadingOn ==
    ASSUME \/ CannotOpen \/ Identifier \/ ReadParameters \/ Positional \/ Named
           \/ Unexpected \/ GetNextModule
    PROVE  /\ UNCHANGED <<stack, built, deleted>> /\ pc' # "undefined"
           /\ pc' = "return" => returned' = NULL
<1>1. CASE CannotOpen
  BY <1>1 DEF CannotOpen, Return
<1>2. CASE Identifier
  BY <1>2 DEF Identifier, Return
<1>3. ASSUME NEW s, EndParameters(s)
      PROVE  pc' # "undefined" /\ (pc' = "return" => returned' = NULL)
  BY <1>3 DEF EndParameters, Return
<1>4. ASSUME NEW s, TakePositional(s)
      PROVE  pc' # "undefined" /\ (pc' = "return" => returned' = NULL)
  <2>1. CASE pc' = "positional"
    BY <2>1
  <2>2. CASE EndParameters(Read(s))
    BY <1>3, <2>2
  <2> QED
    BY <1>4, <2>1, <2>2 DEF TakePositional
<1>5. CASE ReadParameters
  <2>1. \/ TakePositional(Read(reader)) \/ CallNamed(Read(reader))
        \/ EndParameters(Read(reader))
    BY <1>5 DEF ReadParameters
  <2>2. pc' # "undefined" /\ (pc' = "return" => returned' = NULL)
    BY <1>3, <1>4, <2>1 DEF CallNamed
  <2>3. UNCHANGED <<stack, built, deleted>>
    BY <1>5 DEF ReadParameters
  <2> QED
    BY <2>2, <2>3
<1>6. CASE Positional
  <2>1. \E s : TakePositional(s) \/ CallNamed(s) \/ EndParameters(s)
    BY <1>6 DEF Positional
  <2>2. pc' # "undefined" /\ (pc' = "return" => returned' = NULL)
    BY <1>3, <1>4, <2>1 DEF CallNamed
  <2>3. UNCHANGED <<stack, built, deleted>>
    BY <1>6 DEF Positional
  <2> QED
    BY <2>2, <2>3
<1>7. CASE Named
  <2>1. UNCHANGED <<pc, returned>> \/ \E s : EndParameters(s)
    BY <1>7 DEF Named
  <2>2. UNCHANGED <<stack, built, deleted>> /\ pc = "named"
    BY <1>7 DEF Named
  <2>3. pc' # "undefined" /\ (pc' = "return" => returned' = NULL)
    BY <1>3, <2>1, <2>2
  <2> QED
    BY <2>2, <2>3
<1>8. CASE Unexpected
  BY <1>8 DEF Unexpected, Return
<1>9. CASE GetNextModule
  BY <1>9 DEF GetNextModule, Return
<1> QED
  BY <1>1, <1>2, <1>5, <1>6, <1>7, <1>8, <1>9

\* These steps, and those that fail.
LEMMA ReadingOwned ==
    ASSUME IInv, OwnInv,
           \/ CannotOpen \/ Identifier \/ ReadParameters \/ Positional \/ Named
           \/ StatsOutOfRange \/ DeletedTwice \/ UsedDeleted \/ Unexpected
           \/ GetNextModule
    PROVE  OwnInv'
<1>1. CASE CannotOpen
  BY <1>1, ReadingOn, GoesOnOwned DEF CannotOpen, Return
<1>2. CASE \/ Identifier \/ ReadParameters \/ Positional \/ Named \/ Unexpected
           \/ GetNextModule
  <2>1. pc \notin {"getRoot", "include", "return", "undefined"}
    BY <1>2 DEF Identifier, ReadParameters, Positional, Named, Unexpected, GetNextModule
  <2> QED
    BY <1>2, <2>1, ReadingOn, GoesOnOwned
<1>3. CASE StatsOutOfRange \/ DeletedTwice \/ UsedDeleted
  BY <1>3, GoesOnOwned DEF StatsOutOfRange, DeletedTwice, UsedDeleted
<1> QED
  BY <1>1, <1>2, <1>3

\* A module is made, and is in the hands of the call f.
LEMMA MakeOwned ==
    ASSUME IInv, OwnInv, NEW m \in Modules, m.next = NULL, m.list = <<>>,
           built' = Append(built, m),
           NEW frames \in Seq(Frames), NestOK(frames), OwnersOK(frames, built, NULL),
           \A i \in DOMAIN frames : frames[i].me \in DOMAIN built \cup {NULL},
           NEW f \in Frames, f.me = Len(built) + 1, stack' = Append(frames, f),
           \/ f.fn = "list"
           \/ f.fn = "chain" /\ ~OpensList(frames)
           \/ f.fn = "include" /\ ~OpensList(frames) /\ pc' = "include",
           pc' # "return"
    PROVE  OwnInv'
<1>1. TreeOK(built) /\ Grown(built, built')
  BY GrowTree DEF IInv, Shape
<1>2. OwnersOK(frames, built', f.me)
  BY <1>1, MakeHand
<1> QED
  BY <1>1, <1>2, CallOwned

\* In getModule and getNextModule the caller is a list or a chain.
LEMMA CalledByModule ==
    ASSUME IInv, OwnInv, pc \notin {"getRoot", "include", "return", "undefined"}
    PROVE  /\ ~OpensList(stack) /\ NestOK(stack) /\ stack \in Seq(Frames)
           /\ OwnersOK(stack, built, NULL)
           /\ \A i \in DOMAIN stack : stack[i].me \in DOMAIN built \cup {NULL}
           /\ Len(built) + 1 \in Nat /\ TreeOK(built)
<1>1. stack \in Seq(Frames) /\ TreeOK(built)
      /\ \A i \in DOMAIN stack : stack[i].me \in DOMAIN built \cup {NULL}
  BY MeIsBuilt
<1>2. OwnersOK(stack, built, NULL)
  BY Forget DEF OwnInv
<1>3. Len(built) + 1 \in Nat
  BY <1>1 DEF TreeOK
<1> QED
  BY <1>1, <1>2, <1>3 DEF OwnInv, Opened

\* A module is made, and its chain goes on.
LEMMA MakeChainOwned ==
    ASSUME IInv, OwnInv, pc \notin {"getRoot", "include", "return", "undefined"},
           NEW m \in Modules, m.next = NULL, m.list = <<>>,
           built' = Append(built, m), CallNextModule(Len(built) + 1, stack)
    PROVE  OwnInv'
<1> DEFINE f == [fn |-> "chain", me |-> Len(built) + 1]
<1>1. Len(built) + 1 \in Nat
  BY CalledByModule
<1>2. f \in Frames /\ f.fn = "chain" /\ f.me = Len(built) + 1
  BY <1>1 DEF Frames
<1>3. stack' = Append(stack, f) /\ pc' = "getNextModule"
  BY DEF CallNextModule
<1> HIDE DEF f
<1> QED
  BY <1>2, <1>3, CalledByModule, MakeOwned

LEMMA ConstructOwned == IInv /\ OwnInv /\ Construct => OwnInv'
<1> SUFFICES ASSUME IInv, OwnInv, Construct PROVE OwnInv'
  OBVIOUS
<1> DEFINE name == IF reader.hasErrors THEN "fake" ELSE params.name
<1>1. params \in Params /\ params.name \in Names \cup {""} /\ pc = "construct"
  BY DEF IInv, Shape, Params, Construct
<1>2. name \in Names \cup {""}
  BY <1>1, NameAssumption
<1>3. \/ /\ built' = Append(built, New(name, params))
         /\ CallNextModule(Len(built) + 1, stack)
      \/ Return(NULL) /\ UNCHANGED <<stack, built>>
  BY DEF Construct
<1> HIDE DEF name
<1>4. CASE Return(NULL) /\ UNCHANGED <<stack, built>>
  BY <1>1, <1>4, GoesOnOwned DEF Return
<1>5. CASE /\ built' = Append(built, New(name, params))
           /\ CallNextModule(Len(built) + 1, stack)
  <2> DEFINE m == New(name, params)
  <2>1. m \in Modules /\ m.next = NULL /\ m.list = <<>>
    BY <1>1, <1>2, NewIsModule
  <2> HIDE DEF m
  <2> QED
    BY <1>1, <1>5, <2>1, MakeChainOwned DEF m
<1> QED
  BY <1>3, <1>4, <1>5

LEMMA IncludeOwned == IInv /\ OwnInv /\ Include => OwnInv'
<1> SUFFICES ASSUME IInv, OwnInv, Include PROVE OwnInv'
  OBVIOUS
<1> DEFINE m == New("Include", params)
<1>1. /\ params \in Params /\ params.name = "Include" /\ pc = "construct"
      /\ built' = Append(built, m) /\ pc' = "include" /\ reader \in Readers
  BY DEF Include, IInv, Shape, Idle
<1>2. m \in Modules /\ m.next = NULL /\ m.list = <<>>
  <2>1. params.name \in Names \cup {""}
    BY <1>1 DEF Params
  <2> QED
    BY <1>1, <2>1, NewIsModule
<1>3. PICK error \in BOOLEAN :
        stack' = Append(stack, [fn |-> "include", me |-> Len(built) + 1,
                                files |-> params.positional, error |-> error,
                                reader |-> reader])
  BY DEF Include
<1> DEFINE f == [fn |-> "include", me |-> Len(built) + 1,
                 files |-> params.positional, error |-> error, reader |-> reader]
<1>4. f \in Frames /\ f.fn = "include" /\ f.me = Len(built) + 1
  <2>1. Len(built) + 1 \in Nat /\ params.positional \in Seq(Texts)
    BY <1>1, CalledByModule DEF Params
  <2> QED
    BY <1>1, <2>1 DEF Frames
<1> HIDE DEF f, m
<1> QED
  BY <1>1, <1>2, <1>3, <1>4, CalledByModule, MakeOwned DEF f

\* A list is made, to be filled.
LEMMA FillOwned ==
    ASSUME IInv, OwnInv, NEW frames \in Seq(Frames), NestOK(frames),
           OwnersOK(frames, built, NULL), CallModuleList(frames),
           \A i \in DOMAIN frames : frames[i].me \in DOMAIN built \cup {NULL}
    PROVE  OwnInv'
<1> DEFINE f == [fn |-> "list", me |-> Len(built) + 1]
           m == New("ModuleList", NoParams)
<1>1. m \in Modules /\ m.next = NULL /\ m.list = <<>>
  BY NewIsModule, NoParamsIsParams
<1>2. built' = Append(built, m) /\ stack' = Append(frames, f) /\ pc' = "getModuleList"
  BY DEF CallModuleList, FillList
<1>3. f \in Frames /\ f.fn = "list" /\ f.me = Len(built) + 1
  <2>1. Len(built) + 1 \in Nat
    BY DEF IInv, Shape, TreeOK
  <2> QED
    BY <2>1 DEF Frames
<1> HIDE DEF f, m
<1> QED
  BY <1>1, <1>2, <1>3, MakeOwned

LEMMA GetRootOwned == IInv /\ OwnInv /\ GetRoot => OwnInv'
<1> SUFFICES ASSUME IInv, OwnInv, GetRoot PROVE OwnInv'
  OBVIOUS
<1>1. /\ stack \in Seq(Frames) /\ NestOK(stack) /\ OwnersOK(stack, built, NULL)
      /\ \A i \in DOMAIN stack : stack[i].me \in DOMAIN built \cup {NULL}
  BY MeIsBuilt, Forget DEF OwnInv
<1>2. CASE Read(reader).ok
  BY <1>1, <1>2, FillOwned DEF GetRoot
<1>3. CASE ~Read(reader).ok
  BY <1>3, GoesOnOwned DEF GetRoot, Return
<1> QED
  BY <1>2, <1>3

LEMMA BlockOwned == IInv /\ OwnInv /\ Block => OwnInv'
<1> SUFFICES ASSUME IInv, OwnInv, Block PROVE OwnInv'
  OBVIOUS
<1> DEFINE f == [fn |-> "block", me |-> NULL]
           frames == Append(stack, f)
<1>1. pc = "getModule"
  BY DEF Block
<1>2. /\ ~OpensList(stack) /\ NestOK(stack) /\ stack \in Seq(Frames)
      /\ OwnersOK(stack, built, NULL)
      /\ \A i \in DOMAIN stack : stack[i].me \in DOMAIN built \cup {NULL}
  BY <1>1, CalledByModule
<1>3. f \in Frames /\ f.fn = "block" /\ f.me = NULL
  BY DEF Frames, NULL
<1>4. IF Read(reader).ok THEN CallModuleList(frames)
      ELSE Return(NULL) /\ UNCHANGED <<stack, built>>
  BY DEF Block
<1> HIDE DEF f
<1>5. frames \in Seq(Frames) /\ NestOK(frames) /\ OwnersOK(frames, built, NULL)
  BY <1>2, <1>3, PushNest, PushHand
<1>6. \A i \in DOMAIN frames : frames[i].me \in DOMAIN built \cup {NULL}
  <2>1. \A i \in DOMAIN frames : (i \in DOMAIN stack /\ frames[i] = stack[i]) \/ frames[i] = f
    BY <1>2, <1>3
  <2> QED
    BY <1>2, <1>3, <2>1
<1> HIDE DEF frames
<1>7. CASE Read(reader).ok
  BY <1>4, <1>5, <1>6, <1>7, FillOwned
<1>8. CASE ~Read(reader).ok
  BY <1>1, <1>4, <1>8, GoesOnOwned DEF Return
<1> QED
  BY <1>7, <1>8

\* getServerOrPath makes a module, whose chain goes on if nothing fails.
LEMMA ServerOrPathMakes ==
    ASSUME IInv, ServerOrPath
    PROVE  /\ pc = "getModule"
           /\ \/ \E m \in Modules :
                   /\ m.next = NULL /\ m.list = <<>>
                   /\ built' = Append(built, m)
                   /\ \/ CallNextModule(Len(built) + 1, stack)
                      \/ Return(NULL) /\ UNCHANGED stack
              \/ Return(NULL) /\ UNCHANGED <<stack, built>>
<1>1. PICK first \in {Read(reader)} :
        \E name \in {IF first.t = "[" THEN Read(first) ELSE first} :
        \E bracket \in {Need(name, "]")} :
        \E s \in {IF first.t = "[" THEN Need(bracket, "]") ELSE bracket} :
        \E behind \in {Read(Resume(s))} :
          /\ built' =
               IF ~s.ok THEN built
               ELSE Append(built, New(IF s.hasErrors THEN "fake"
                                      ELSE IF first.t = "[" THEN "[[" ELSE "[",
                                      [NoParams EXCEPT !.positional = <<Text(name.t)>>,
                                                       !.at = Place]))
          /\ IF s.ok /\ behind.ok THEN CallNextModule(Len(built) + 1, stack)
             ELSE Return(NULL) /\ UNCHANGED stack
  BY ZenonT(30) DEF ServerOrPath
<1>2. PICK name \in {IF first.t = "[" THEN Read(first) ELSE first} :
        \E s : \E behind :
          /\ built' =
               IF ~s.ok THEN built
               ELSE Append(built, New(IF s.hasErrors THEN "fake"
                                      ELSE IF first.t = "[" THEN "[[" ELSE "[",
                                      [NoParams EXCEPT !.positional = <<Text(name.t)>>,
                                                       !.at = Place]))
          /\ IF s.ok /\ behind.ok THEN CallNextModule(Len(built) + 1, stack)
             ELSE Return(NULL) /\ UNCHANGED stack
  BY <1>1
<1> DEFINE p == [NoParams EXCEPT !.positional = <<Text(name.t)>>, !.at = Place]
<1>3. p \in Params
  <2>1. Place \in Nat
    BY DEF Place, IInv, Shape, Idle, Readers
  <2>2. <<Text(name.t)>> \in Seq(Texts)
    BY TextIsText
  <2> QED
    BY <2>1, <2>2, NoParamsIsParams DEF Params
<1> HIDE DEF p
<1>4. PICK s : \E behind :
        /\ built' = IF ~s.ok THEN built
                    ELSE Append(built, New(IF s.hasErrors THEN "fake"
                                           ELSE IF first.t = "[" THEN "[[" ELSE "[", p))
        /\ IF s.ok /\ behind.ok THEN CallNextModule(Len(built) + 1, stack)
           ELSE Return(NULL) /\ UNCHANGED stack
  BY <1>2 DEF p
<1> DEFINE kind == IF s.hasErrors THEN "fake" ELSE IF first.t = "[" THEN "[[" ELSE "["
           m == New(kind, p)
<1>5. m \in Modules /\ m.next = NULL /\ m.list = <<>>
  <2>1. kind \in {"fake", "[", "[["}
    OBVIOUS
  <2> HIDE DEF kind
  <2> QED
    BY <1>3, <2>1, NameAssumption, NewIsModule
<1>6. /\ built' = IF ~s.ok THEN built ELSE Append(built, m)
      /\ \/ s.ok /\ CallNextModule(Len(built) + 1, stack)
         \/ Return(NULL) /\ UNCHANGED stack
  BY <1>4
<1> HIDE DEF m
<1>7. pc = "getModule"
  BY DEF ServerOrPath
<1> QED
  BY <1>5, <1>6, <1>7

LEMMA ServerOrPathOwned == IInv /\ OwnInv /\ ServerOrPath => OwnInv'
<1> SUFFICES ASSUME IInv, OwnInv, ServerOrPath PROVE OwnInv'
  OBVIOUS
<1>1. pc = "getModule"
  BY ServerOrPathMakes
<1>2. CASE Return(NULL) /\ UNCHANGED <<stack, built>>
  BY <1>1, <1>2, GoesOnOwned DEF Return
<1>3. CASE \E m \in Modules :
             /\ m.next = NULL /\ m.list = <<>>
             /\ built' = Append(built, m)
             /\ \/ CallNextModule(Len(built) + 1, stack)
                \/ Return(NULL) /\ UNCHANGED stack
  <2>1. PICK m \in Modules :
          /\ m.next = NULL /\ m.list = <<>>
          /\ built' = Append(built, m)
          /\ \/ CallNextModule(Len(built) + 1, stack)
             \/ Return(NULL) /\ UNCHANGED stack
    BY <1>3
  <2>2. CASE CallNextModule(Len(built) + 1, stack)
    BY <1>1, <2>1, <2>2, MakeChainOwned
  <2>3. CASE Return(NULL) /\ UNCHANGED stack
    <3>1. /\ ~OpensList(stack) /\ OwnersOK(stack, built, NULL) /\ TreeOK(built)
          /\ \A i \in DOMAIN stack : stack[i].me \in DOMAIN built \cup {NULL}
      BY <1>1, CalledByModule
    <3>2. OwnersOK(stack', built', NULL)
      BY <2>1, <2>3, <3>1, MakeHand, Forget
    <3>3. Grown(built, built')
      BY <2>1, <3>1, GrowTree
    <3>4. Given' = NULL
      BY <2>3 DEF Given, Return
    <3>5. NestOK(stack') /\ Opened'
      BY <2>3, <3>1 DEF OwnInv, Opened
    <3> QED
      BY <3>2, <3>3, <3>4, <3>5, NullKeepsName DEF OwnInv
  <2> QED
    BY <2>1, <2>2, <2>3
<1> QED
  BY <1>2, <1>3, ServerOrPathMakes

LEMMA GetModuleListOwned == IInv /\ OwnInv /\ GetModuleList => OwnInv'
<1> SUFFICES ASSUME IInv, OwnInv, GetModuleList PROVE OwnInv'
  OBVIOUS
<1>1. pc = "getModuleList" /\ stack # <<>> /\ Top.fn = "list" /\ UNCHANGED built
  BY DEF GetModuleList, IInv, Called, Waits
<1>2. CASE reader.t \in {"}", "END_OF_FILE"}
  <2>1. pc' = "return" /\ returned' = Top.me /\ stack' = Pop
    BY <1>2 DEF GetModuleList, Return
  <2>2. Top.me # NullModule
    BY <1>1, TopIsCall
  <2>3. OwnersOK(Pop, built', returned')
    BY <1>1, <2>1, MeIsBuilt, PopHand DEF OwnInv, Pop, Top
  <2>4. Grown(built, built')
    BY <1>1, SameTree DEF IInv
  <2> QED
    BY <1>1, <2>1, <2>2, <2>3, <2>4, ReturnOwned
<1>3. CASE reader.t \notin {"}", "END_OF_FILE"}
  BY <1>1, <1>3, GoesOnOwned DEF GetModuleList
<1> QED
  BY <1>2, <1>3

LEMMA DropListOwned == IInv /\ OwnInv /\ DropList => OwnInv'
<1> SUFFICES ASSUME IInv, OwnInv, DropList PROVE OwnInv'
  OBVIOUS
<1>1. /\ pc = "return" /\ stack # <<>> /\ returned = NULL /\ stack' = Pop
      /\ UNCHANGED <<pc, built, returned>>
  BY DEF DropList
<1>2. OwnersOK(Pop, built', returned')
  BY <1>1, MeIsBuilt, PopHand DEF OwnInv, Pop, Given
<1> QED
  BY <1>1, <1>2, SameTree, ReturnOwned DEF IInv, NULL, NullModule

LEMMA ListTakesOwned == IInv /\ OwnInv /\ ListTakes => OwnInv'
<1> SUFFICES ASSUME IInv, OwnInv, ListTakes PROVE OwnInv'
  OBVIOUS
<1>1. /\ pc = "return" /\ stack # <<>> /\ Top.fn = "list" /\ returned # NULL
      /\ pc' = "getModuleList" /\ UNCHANGED <<stack, returned>>
      /\ built' = IF returned = NullModule THEN built
                  ELSE [built EXCEPT ![Top.me].list = Append(built[Top.me].list, returned)]
  BY DEF ListTakes, ListPuts
<1>2. CASE returned = NullModule
  <2>1. ~OpensList(stack)
    BY <1>1 DEF OpensList, Top
  <2>2. OwnersOK(stack', built', NULL) /\ Given' = NULL
    BY <1>1, <1>2, Forget DEF OwnInv, Given
  <2>3. Opened'
    BY <1>1, <2>1 DEF Opened
  <2> QED
    BY <1>1, <1>2, <2>2, <2>3 DEF OwnInv
<1>3. CASE returned # NullModule
  <2>1. TreeOK(built) /\ Top.me \in DOMAIN built /\ returned \in DOMAIN built
    BY <1>1, MeIsBuilt, TopIsCall
  <2>2. built' = [built EXCEPT ![Top.me].list = Append(built[Top.me].list, returned)]
    BY <1>1, <1>3
  <2>3. Gives(built, built', returned) /\ Grown(built, built')
    BY <2>1, <2>2, FillGives, FillTree
  <2>4. OwnersOK(stack, built, returned)
    BY <1>1 DEF OwnInv, Given
  <2>5. OwnersOK(stack', built', NULL) /\ Given' = NULL
    BY <1>1, <2>1, <2>3, <2>4, GiveHand DEF Given
  <2>6. ~OpensList(stack)
    BY <1>1 DEF OpensList, Top
  <2>7. Opened' /\ NestOK(stack')
    BY <1>1, <2>6 DEF Opened, OwnInv
  <2> QED
    BY <2>3, <2>5, <2>7, NullKeepsName DEF OwnInv
<1> QED
  BY <1>2, <1>3

LEMMA ChainOwned == IInv /\ OwnInv /\ Chain => OwnInv'
<1> SUFFICES ASSUME IInv, OwnInv, Chain PROVE OwnInv'
  OBVIOUS
<1>1. /\ pc = "return" /\ stack # <<>> /\ Top.fn = "chain"
      /\ built' = [built EXCEPT ![Top.me].next = returned]
      /\ pc' = "return" /\ returned' = Top.me /\ stack' = Pop
  BY DEF Chain, EndChain, Return
<1>2. /\ TreeOK(built) /\ Top.me \in DOMAIN built /\ returned \in DOMAIN built \cup {NULL}
      /\ stack \in Seq(Frames)
  BY <1>1, MeIsBuilt, TopIsCall DEF FrameOK
<1>3. Gives(built, built', returned) /\ Grown(built, built')
  BY <1>1, <1>2, LinkGives, LinkTree
<1>4. OwnersOK(stack, built', NULL)
  BY <1>1, <1>2, <1>3, GiveHand DEF OwnInv, Given
<1>5. OwnersOK(Pop, built', Top.me)
  BY <1>1, <1>2, <1>4, PopHand DEF Pop, Top
<1> QED
  BY <1>1, <1>3, <1>5, ReturnOwned

LEMMA EndBlockOwned == IInv /\ OwnInv /\ EndBlock => OwnInv'
<1> SUFFICES ASSUME IInv, OwnInv, EndBlock PROVE OwnInv'
  OBVIOUS
<1>1. /\ pc = "return" /\ stack # <<>> /\ Top.fn = "block" /\ UNCHANGED built
      /\ \/ returned # NULL /\ CallNextModule(returned, Pop)
         \/ pc' = "return" /\ returned' = NULL /\ stack' = Pop
  BY DEF EndBlock, Return
<1>2. /\ Pop \in Seq(Frames) /\ NestOK(Pop) /\ ~OpensList(Pop)
      /\ OwnersOK(Pop, built, returned) /\ returned \in DOMAIN built \cup {NULL}
      /\ Grown(built, built')
  BY <1>1, TopIsCall, MeIsBuilt, PopHand, SameTree DEF OwnInv, Given, Pop, IInv
<1>3. CASE returned # NULL /\ CallNextModule(returned, Pop)
  <2> DEFINE f == [fn |-> "chain", me |-> returned]
  <2>1. f \in Frames /\ f.fn = "chain" /\ f.me = returned
    BY <1>2, <1>3, MeIsBuilt DEF Frames, TreeOK
  <2>2. stack' = Append(Pop, f) /\ pc' = "getNextModule"
    BY <1>3 DEF CallNextModule
  <2> HIDE DEF f
  <2> QED
    BY <1>1, <1>2, <2>1, <2>2, CallOwned
<1>4. CASE pc' = "return" /\ returned' = NULL /\ stack' = Pop
  BY <1>1, <1>2, <1>4, Forget, ReturnOwned
<1> QED
  BY <1>1, <1>3, <1>4

LEMMA UnbalancedBlockOwned == IInv /\ OwnInv /\ UnbalancedBlock => OwnInv'
<1> SUFFICES ASSUME IInv, OwnInv, UnbalancedBlock PROVE OwnInv'
  OBVIOUS
<1>1. /\ stack # <<>> /\ Top.fn = "block" /\ UNCHANGED built
      /\ pc' = "return" /\ returned' = NULL /\ stack' = Pop
  BY DEF UnbalancedBlock, DeleteBlock, Return
<1>2. OwnersOK(Pop, built', NULL)
  BY <1>1, MeIsBuilt, PopHand, Forget DEF OwnInv, Pop
<1> QED
  BY <1>1, <1>2, SameTree, ReturnOwned DEF IInv

LEMMA ActivateOwned == IInv /\ OwnInv /\ Activate => OwnInv'
<1> SUFFICES ASSUME IInv, OwnInv, Activate PROVE OwnInv'
  OBVIOUS
<1>1. /\ pc = "construct" /\ UNCHANGED built
      /\ \/ CallNextModule(NullModule, stack)
         \/ Return(NULL) /\ UNCHANGED stack
  BY DEF Activate
<1>2. CASE CallNextModule(NullModule, stack)
  <2> DEFINE f == [fn |-> "chain", me |-> NullModule]
  <2>1. f \in Frames /\ f.fn = "chain" /\ f.me = NullModule
    BY DEF Frames, NullModule
  <2>2. stack' = Append(stack, f) /\ pc' = "getNextModule"
    BY <1>2 DEF CallNextModule
  <2>3. ~OpensList(stack) /\ NestOK(stack) /\ stack \in Seq(Frames)
        /\ OwnersOK(stack, built, NULL)
    BY <1>1, CalledByModule
  <2>4. OwnersOK(stack, built', NullModule)
    BY <1>1, <2>3 DEF OwnersOK, Real
  <2> HIDE DEF f
  <2> QED
    BY <1>1, <2>1, <2>2, <2>3, <2>4, SameTree, CallOwned DEF IInv
<1>3. CASE Return(NULL) /\ UNCHANGED stack
  BY <1>1, <1>3, GoesOnOwned DEF Return
<1> QED
  BY <1>1, <1>2, <1>3

\* The frame of an Include notes what it has read.
LEMMA NoteOwned ==
    ASSUME IInv, OwnInv, stack # <<>>, NEW f, f.me = Top.me, f.fn = Top.fn,
           stack' = [stack EXCEPT ![Len(stack)] = f],
           NEW g, OwnersOK(stack, built, g)
    PROVE  /\ OwnersOK(stack', built, g) /\ NestOK(stack')
           /\ stack # <<>> => stack' # <<>>
<1>1. stack \in Seq(Frames) /\ Top = stack[Len(stack)]
  BY MeIsBuilt, TopIsCall
<1>2. /\ DOMAIN stack' = DOMAIN stack
      /\ \A i \in DOMAIN stack : stack'[i].me = stack[i].me /\ stack'[i].fn = stack[i].fn
  BY <1>1
<1>3. OwnersOK(stack', built, g)
  BY <1>2, SameHands
<1>4. NestOK(stack')
  BY <1>1, <1>2, ChangeNest DEF OwnInv
<1>5. stack' # <<>>
  BY <1>1, <1>2
<1> QED
  BY <1>3, <1>4, <1>5

LEMMA IncludeFileOwned == IInv /\ OwnInv /\ IncludeFile => OwnInv'
<1> SUFFICES ASSUME IInv, OwnInv, IncludeFile PROVE OwnInv'
  OBVIOUS
<1> DEFINE f == [Top EXCEPT !.files = Tail(Top.files)]
<1>1. /\ pc = "include" /\ Waits("include") /\ stack # <<>> /\ pc' = "getRoot"
      /\ UNCHANGED built
  BY DEF IncludeFile, IInv, Called, Waits
<1>2. f.me = Top.me /\ f.fn = Top.fn
  <2>1. Top \in [fn : {"include"}, me : Nat, files : Seq(Texts), error : BOOLEAN,
                 reader : Readers]
    BY <1>1, IncludeFrame DEF FrameOK, Frames
  <2> QED
    BY <2>1
<1>3. stack' = [stack EXCEPT ![Len(stack)] = f]
  BY DEF IncludeFile, Top
<1>4. OwnersOK(stack, built, NULL)
  BY Forget DEF OwnInv
<1> HIDE DEF f
<1>5. OwnersOK(stack', built', NULL) /\ NestOK(stack')
  BY <1>1, <1>2, <1>3, <1>4, NoteOwned
<1> QED
  BY <1>1, <1>5 DEF OwnInv, Given, Opened

LEMMA IncludeTakesOwned == IInv /\ OwnInv /\ IncludeTakes => OwnInv'
<1> SUFFICES ASSUME IInv, OwnInv, IncludeTakes PROVE OwnInv'
  OBVIOUS
<1> DEFINE f == [Top EXCEPT !.error = TRUE]
<1>1. /\ pc = "return" /\ Waits("include") /\ stack # <<>> /\ pc' = "include"
      /\ \/ /\ returned = NULL /\ UNCHANGED built
            /\ stack' = [stack EXCEPT ![Len(stack)] = f]
         \/ /\ returned # NULL /\ UNCHANGED stack
            /\ built' = [built EXCEPT ![Top.me].list = Append(built[Top.me].list, returned)]
  BY DEF IncludeTakes, Waits, Top
<1>2. f.me = Top.me /\ f.fn = Top.fn
  <2>1. Top \in [fn : {"include"}, me : Nat, files : Seq(Texts), error : BOOLEAN,
                 reader : Readers]
    BY <1>1, IncludeFrame DEF FrameOK, Frames
  <2> QED
    BY <2>1
<1>3. OwnersOK(stack, built, returned)
  BY <1>1 DEF OwnInv, Given
<1>4. Given' = NULL /\ Opened'
  BY <1>1 DEF Given, Opened
<1> HIDE DEF f
<1>5. CASE returned = NULL /\ UNCHANGED built /\ stack' = [stack EXCEPT ![Len(stack)] = f]
  <2>1. OwnersOK(stack', built', NULL) /\ NestOK(stack')
    BY <1>1, <1>2, <1>3, <1>5, NoteOwned
  <2> QED
    BY <1>4, <1>5, <2>1 DEF OwnInv
<1>6. CASE /\ returned # NULL /\ UNCHANGED stack
           /\ built' = [built EXCEPT ![Top.me].list = Append(built[Top.me].list, returned)]
  <2>1. TreeOK(built) /\ Top.me \in DOMAIN built /\ returned \in DOMAIN built
    BY <1>1, <1>6, MeIsBuilt, IncludeFrame DEF Ids
  <2>2. Gives(built, built', returned) /\ Grown(built, built')
    BY <1>6, <2>1, FillGives, FillTree
  <2>3. OwnersOK(stack', built', NULL)
    BY <1>3, <1>6, <2>1, <2>2, GiveHand
  <2>4. NestOK(stack')
    BY <1>6 DEF OwnInv
  <2> QED
    BY <1>4, <2>2, <2>3, <2>4, NullKeepsName DEF OwnInv
<1> QED
  BY <1>1, <1>5, <1>6

LEMMA IncludeEndsOwned == IInv /\ OwnInv /\ IncludeEnds => OwnInv'
<1> SUFFICES ASSUME IInv, OwnInv, IncludeEnds PROVE OwnInv'
  OBVIOUS
<1>1. /\ pc = "include" /\ Waits("include") /\ stack # <<>> /\ UNCHANGED built
      /\ \/ pc' = "return" /\ returned' = NULL /\ stack' = Pop
         \/ CallNextModule(Top.me, Pop)
  BY DEF IncludeEnds, IInv, Called, Waits, Return
<1>2. /\ Pop \in Seq(Frames) /\ NestOK(Pop) /\ ~OpensList(Pop) /\ Top.me \in DOMAIN built
      /\ Top = stack[Len(stack)]
      /\ stack \in Seq(Frames) /\ Grown(built, built') /\ TreeOK(built)
  BY <1>1, TopIsCall, IncludeFrame, MeIsBuilt, SameTree DEF Waits, Ids, IInv
<1>3. OwnersOK(Pop, built, Top.me)
  BY <1>1, <1>2, PopHand DEF OwnInv, Pop
<1>4. CASE pc' = "return" /\ returned' = NULL /\ stack' = Pop
  BY <1>1, <1>2, <1>3, <1>4, Forget, ReturnOwned DEF NULL, NullModule
<1>5. CASE CallNextModule(Top.me, Pop)
  <2> DEFINE f == [fn |-> "chain", me |-> Top.me]
  <2>1. f \in Frames /\ f.fn = "chain" /\ f.me = Top.me
    BY <1>2 DEF Frames, TreeOK
  <2>2. stack' = Append(Pop, f) /\ pc' = "getNextModule"
    BY <1>5 DEF CallNextModule
  <2> HIDE DEF f
  <2> QED
    BY <1>1, <1>2, <1>3, <2>1, <2>2, CallOwned
<1> QED
  BY <1>1, <1>4, <1>5

LEMMA NextOwned == IInv /\ OwnInv /\ [Next]_vars => OwnInv'
<1> SUFFICES ASSUME IInv, OwnInv, [Next]_vars PROVE OwnInv'
  OBVIOUS
<1>1. CASE UNCHANGED vars
  BY <1>1 DEF vars, OwnInv, Given, Opened
<1>2. CASE Step
  BY <1>2, ReadingOwned, ConstructOwned, IncludeOwned, GetRootOwned, BlockOwned,
     ServerOrPathOwned, GetModuleListOwned, DropListOwned, ListTakesOwned, ChainOwned,
     EndBlockOwned, UnbalancedBlockOwned, ActivateOwned, IncludeFileOwned,
     IncludeTakesOwned, IncludeEndsOwned DEF Step
<1>3. CASE Done
  BY <1>1, <1>3 DEF Done
<1> QED
  BY <1>1, <1>2, <1>3 DEF Next

LEMMA OwnInvAlways == Spec => [](IInv /\ OwnInv)
<1>1. Init => IInv /\ OwnInv
  BY IInvInit, InitOwned
<1>2. IInv /\ OwnInv /\ [Next]_vars => (IInv /\ OwnInv)'
  BY IInvNext, NextOwned
<1> QED
  BY <1>1, <1>2, PTL DEF Spec

\* For every text and whatever files it includes the parser makes a tree: a
\* module is held by at most one place, and the root by none, so that the
\* destructors that follow next modules and lists come to each module once
\* (module.cpp:43, modulelist.cpp:24).
THEOREM AlwaysOwnedOnce == Spec => []OwnedOnce
<1>1. IInv /\ OwnInv => OwnedOnce
  <2> SUFFICES ASSUME IInv, OwnInv PROVE OwnedOnce
    OBVIOUS
  <2>1. \A m \in Ids \ {NullModule} : Cardinality(Owners(m)) <= 1
    BY OnceIsOwnedOnce DEF OwnInv, OwnersOK, Ids
  <2>2. (Finished /\ returned # NULL) => Owners(returned) = {}
    BY FreeIsUnowned DEF Finished, OwnInv, OwnersOK, Given, Opened, OpensList, Real
  <2> QED
    BY <2>1, <2>2 DEF OwnedOnce
<1> QED
  BY <1>1, OwnInvAlways, PTL

-----------------------------------------------------------------------------
(* What is below a module *)

\* Induction, for a set of numbers.
LEMMA SetInduction ==
    ASSUME NEW N \in Nat, NEW B, 0 \in B, \A n \in 1..N : n - 1 \in B => n \in B
    PROVE  0..N \subseteq B
<1> DEFINE bad == {n \in 0..N : n \notin B}
<1>1. bad \in SUBSET Nat /\ IsFiniteSet(bad)
  <2>1. IsFiniteSet(0..N)
    BY FS_Interval
  <2> QED
    BY <2>1, FS_Subset
<1>2. ASSUME bad # {} PROVE FALSE
  <2>1. Min(bad) \in bad /\ \A y \in bad : Min(bad) <= y
    BY <1>1, <1>2, LeastElement
  <2> DEFINE x == Min(bad)
  <2>2. x \in 0..N /\ x \notin B /\ \A y \in bad : x <= y
    BY <2>1
  <2> HIDE DEF x
  <2>3. x \in 1..N /\ x - 1 \in 0..N
    BY <2>2
  <2>4. x - 1 \in B
    BY <2>2, <2>3
  <2> QED
    BY <2>2, <2>3, <2>4
<1> QED
  BY <1>2

\* The modules of S, and those they hold.
Further(S) == S \cup UNION {Held(k) : k \in S}

\* The first steps of the way down from m.
WayDown(m, n, f) ==
    /\ f[0] = {m}
    /\ \A i \in 1..n : f[i] = Further(f[i - 1])

LEMMA WayDownExists ==
    ASSUME NEW m, NEW n \in Nat
    PROVE  \E f : WayDown(m, n, f)
<1> DEFINE B == {i \in 0..n : \E f : WayDown(m, i, f)}
<1>1. 0 \in B
  <2> DEFINE f == [i \in 0..0 |-> {m}]
  <2>1. f[0] = {m}
    OBVIOUS
  <2>2. \A i \in 1..0 : f[i] = Further(f[i - 1])
    OBVIOUS
  <2> HIDE DEF f
  <2>3. WayDown(m, 0, f)
    BY <2>1, <2>2 DEF WayDown
  <2> QED
    BY <2>3
<1>2. ASSUME NEW i \in 1..n, i - 1 \in B PROVE i \in B
  <2>1. PICK f : WayDown(m, i - 1, f)
    BY <1>2
  <2> DEFINE g == [j \in 0..i |-> IF j = i THEN Further(f[i - 1]) ELSE f[j]]
  <2>2. g[0] = {m}
    <3>1. 0 \in 0..i /\ 0 # i /\ f[0] = {m}
      BY <2>1 DEF WayDown
    <3> QED
      BY <3>1
  <2>3. \A j \in 1..i : g[j] = Further(g[j - 1])
    <3>1. ASSUME NEW j \in 1..i PROVE g[j] = Further(g[j - 1])
      <4>1. j - 1 \in 0..(i - 1) /\ j - 1 # i /\ j \in 0..i /\ j - 1 \in 0..i
        OBVIOUS
      <4>2. g[j - 1] = f[j - 1]
        BY <4>1
      <4>3. CASE j = i
        BY <4>1, <4>2, <4>3
      <4>4. CASE j # i
        <5>1. j \in 1..(i - 1)
          BY <4>4
        <5>2. f[j] = Further(f[j - 1]) /\ g[j] = f[j]
          BY <2>1, <4>1, <4>4, <5>1 DEF WayDown
        <5> QED
          BY <4>2, <5>2
      <4> QED
        BY <4>3, <4>4
    <3> QED
      BY <3>1
  <2> HIDE DEF g
  <2>4. WayDown(m, i, g)
    BY <2>2, <2>3 DEF WayDown
  <2> QED
    BY <2>4
<1> HIDE DEF B
<1>3. 0..n \subseteq B
  BY <1>1, <1>2, SetInduction
<1>4. n \in B
  BY <1>3
<1> QED
  BY <1>4 DEF B

LEMMA WayDownUnique ==
    ASSUME NEW m, NEW n \in Nat, NEW k \in 0..n, NEW f, WayDown(m, k, f),
           NEW g, WayDown(m, n, g)
    PROVE  f[k] = g[k]
<1> DEFINE B == {i \in 0..k : f[i] = g[i]}
<1>1. 0 \in B
  <2>1. f[0] = {m} /\ g[0] = {m} /\ 0 \in 0..k
    BY DEF WayDown
  <2> QED
    BY <2>1
<1>2. ASSUME NEW i \in 1..k, i - 1 \in B PROVE i \in B
  <2>1. i \in 1..n /\ i \in 0..k
    OBVIOUS
  <2>2. f[i] = Further(f[i - 1]) /\ g[i] = Further(g[i - 1])
    BY <2>1 DEF WayDown
  <2>3. f[i - 1] = g[i - 1]
    BY <1>2
  <2>4. Further(f[i - 1]) = Further(g[i - 1])
    BY <2>3 DEF Further
  <2>5. f[i] = g[i]
    BY <2>2, <2>4
  <2> QED
    BY <2>1, <2>5
<1> HIDE DEF B
<1>3. 0..k \subseteq B
  BY <1>1, <1>2, SetInduction
<1> QED
  BY <1>3 DEF B

\* The function that defines Under.
Reach(m) ==
    LET reach[n \in Nat] ==
            IF n = 0 THEN {m}
            ELSE LET nearer == reach[n - 1] IN nearer \cup UNION {Held(k) : k \in nearer}
    IN  reach

LEMMA ReachIsWayDown ==
    ASSUME NEW m
    PROVE  /\ Reach(m)[0] = {m}
           /\ \A n \in Nat \ {0} : Reach(m)[n] = Further(Reach(m)[n - 1])
<1> DEFINE way(n) == CHOOSE f : WayDown(m, n, f)
           h == [n \in Nat |-> way(n)[n]]
<1>1. \A n \in Nat : WayDown(m, n, way(n))
  BY WayDownExists
<1> HIDE DEF way
<1>2. h[0] = {m}
  <2>1. WayDown(m, 0, way(0))
    BY <1>1
  <2>2. way(0)[0] = {m}
    BY <2>1 DEF WayDown
  <2> QED
    BY <2>2
<1>3. ASSUME NEW n \in Nat \ {0} PROVE h[n] = Further(h[n - 1])
  <2>1. n - 1 \in Nat /\ n - 1 \in 0..n /\ n \in 1..n
    OBVIOUS
  <2>2. way(n)[n] = Further(way(n)[n - 1])
    BY <1>1, <2>1 DEF WayDown
  <2>3. way(n - 1)[n - 1] = way(n)[n - 1]
    BY <1>1, <2>1, WayDownUnique
  <2> QED
    BY <2>1, <2>2, <2>3
<1>4. h = [n \in Nat |-> IF n = 0 THEN {m}
                         ELSE h[n - 1] \cup UNION {Held(k) : k \in h[n - 1]}]
  <2> HIDE DEF h
  <2>1. h = [n \in Nat |-> h[n]]
    BY DEF h
  <2>2. \A n \in Nat : h[n] = IF n = 0 THEN {m}
                              ELSE h[n - 1] \cup UNION {Held(k) : k \in h[n - 1]}
    BY <1>2, <1>3 DEF Further
  <2> QED
    BY <2>1, <2>2
<1> HIDE DEF h
<1>5. Reach(m) = [n \in Nat |-> IF n = 0 THEN {m}
                   ELSE Reach(m)[n - 1] \cup UNION {Held(k) : k \in Reach(m)[n - 1]}]
  BY <1>4 DEF Reach
<1> QED
  BY <1>5 DEF Further

\* What is under m is m itself, and what the modules under it hold.
LEMMA UnderIsReached ==
    ASSUME NEW m, TreeOK(built)
    PROVE  /\ Under(m) = Reach(m)[Len(built)] \cap Ids
           /\ Len(built) \in Nat /\ Ids = 1..Len(built)
<1>1. built \in Seq(Modules)
  BY DEF TreeOK
<1> QED
  BY <1>1 DEF Under, Reach, Ids

LEMMA ReachGrows ==
    ASSUME NEW m, NEW n \in Nat, NEW i \in 0..n
    PROVE  Reach(m)[i] \subseteq Reach(m)[n]
<1> DEFINE B == {j \in 0..n : i <= j => Reach(m)[i] \subseteq Reach(m)[j]}
<1>1. 0 \in B
  BY Z3
<1>2. ASSUME NEW j \in 1..n, j - 1 \in B PROVE j \in B
  <2>1. j \in 0..n /\ j \in Nat \ {0}
    OBVIOUS
  <2>2. Reach(m)[j - 1] \subseteq Reach(m)[j]
    <3>1. Reach(m)[j] = Further(Reach(m)[j - 1])
      BY <2>1, ReachIsWayDown
    <3> QED
      BY <3>1 DEF Further
  <2>3. CASE i = j
    BY <2>1, <2>3
  <2>4. CASE i <= j - 1
    BY <1>2, <2>1, <2>2, <2>4
  <2>5. CASE i > j
    BY <2>1, <2>5
  <2> QED
    BY <2>1, <2>3, <2>4, <2>5
<1> HIDE DEF B
<1>3. 0..n \subseteq B /\ n \in 0..n
  BY <1>1, <1>2, SetInduction
<1>4. n \in B /\ i <= n
  BY <1>3
<1> QED
  BY <1>4 DEF B

\* A set that holds m, and with a module what that holds, has all under m.
LEMMA ReachIsWithin ==
    ASSUME NEW m, NEW S, m \in S, \A k \in S : Held(k) \subseteq S, NEW N \in Nat
    PROVE  Reach(m)[N] \subseteq S
<1> DEFINE B == {j \in 0..N : Reach(m)[j] \subseteq S}
<1>2. 0 \in B
  BY ReachIsWayDown
<1>3. ASSUME NEW j \in 1..N, j - 1 \in B PROVE j \in B
  <2>1. j \in 0..N /\ j \in Nat \ {0}
    OBVIOUS
  <2>2. Reach(m)[j] = Further(Reach(m)[j - 1]) /\ Reach(m)[j - 1] \subseteq S
    BY <1>3, <2>1, ReachIsWayDown
  <2>3. Reach(m)[j] \subseteq S
    BY <2>2 DEF Further
  <2> QED
    BY <2>1, <2>3
<1> HIDE DEF B
<1>4. 0..N \subseteq B
  BY <1>2, <1>3, SetInduction
<1>5. N \in B
  BY <1>4
<1> QED
  BY <1>5 DEF B

LEMMA UnderIsWithin ==
    ASSUME NEW m, TreeOK(built), NEW S, m \in S, \A k \in S : Held(k) \subseteq S
    PROVE  Under(m) \subseteq S
  BY UnderIsReached, ReachIsWithin

LEMMA UnderHasTop ==
    ASSUME NEW m \in Ids, TreeOK(built)
    PROVE  m \in Under(m)
<1>1. Len(built) \in Nat /\ 0 \in 0..Len(built)
  BY UnderIsReached
<1>2. m \in Reach(m)[0]
  BY ReachIsWayDown
<1>3. Reach(m)[0] \subseteq Reach(m)[Len(built)]
  BY <1>1, ReachGrows
<1> QED
  BY <1>2, <1>3, UnderIsReached

\* Nothing else comes under m.
LEMMA UnderIsHeld ==
    ASSUME NEW m \in Ids, TreeOK(built), NEW k \in Under(m), k # m
    PROVE  \E n \in Under(m) : k \in Held(n)
<1>1. /\ Len(built) \in Nat /\ k \in Reach(m)[Len(built)]
      /\ Ids = 1..Len(built)
  BY UnderIsReached
<1> DEFINE N == Len(built)
           later == {j \in 0..N : k \in Reach(m)[j]}
<1>2. later \in SUBSET Nat /\ IsFiniteSet(later) /\ later # {}
  <2>1. IsFiniteSet(0..N)
    BY <1>1, FS_Interval
  <2>2. IsFiniteSet(later)
    BY <2>1, FS_Subset
  <2>3. N \in later
    BY <1>1
  <2> QED
    BY <2>2, <2>3
<1>3. Min(later) \in later /\ \A y \in later : Min(later) <= y
  BY <1>2, LeastElement
<1> DEFINE j == Min(later)
<1>4. j \in 0..N /\ k \in Reach(m)[j] /\ \A y \in later : j <= y
  BY <1>3
<1> HIDE DEF j
<1>5. j # 0
  BY <1>4, ReachIsWayDown
<1>6. j \in Nat \ {0} /\ j - 1 \in 0..N /\ ~(j <= j - 1)
  BY <1>1, <1>4, <1>5
<1>7. k \notin Reach(m)[j - 1]
  BY <1>4, <1>6
<1>8. Reach(m)[j] = Further(Reach(m)[j - 1])
  BY <1>6, ReachIsWayDown
<1>9. PICK n \in Reach(m)[j - 1] : k \in Held(n)
  BY <1>4, <1>7, <1>8 DEF Further
<1>10. n \in Reach(m)[N]
  <2>1. Reach(m)[j - 1] \subseteq Reach(m)[N]
    BY <1>1, <1>6, ReachGrows
  <2> QED
    BY <1>9, <2>1
<1>11. n \in Ids
  <2>1. \A l \in Ids : Held(l) \subseteq Ids
    BY DEF Held, Ids
  <2> DEFINE i == j - 1
  <2>3. i \in Nat
    BY <1>6
  <2> HIDE DEF i
  <2>4. Reach(m)[i] \subseteq Ids
    BY <2>1, <2>3, ReachIsWithin
  <2>2. Reach(m)[j - 1] \subseteq Ids
    BY <2>4 DEF i
  <2> QED
    BY <1>9, <2>2
<1> QED
  BY <1>9, <1>10, <1>11, UnderIsReached

-----------------------------------------------------------------------------
(* What is deleted is gone *)

\* No module but Module::null holds Module::null.
NullFree == \A m \in Ids \ {NullModule} : NullModule \notin Held(m)

\* No Include has been given a root.
NoneIncluded == \A m \in Ids : built[m].name = "Include" => built[m].list = <<>>

\* What is not deleted holds nothing that is.
Intact == \A m \in Ids \ deleted : Held(m) \cap deleted = {}

LEMMA HeldIsNotFree ==
    ASSUME NEW m \in Ids, NEW k \in Held(m)
    PROVE  k \in Ids /\ ~Free(built, k)
  BY DEF Held, Ids, Free

\* Who holds a module that is held at most once is the only one.
LEMMA HolderIsOne ==
    ASSUME NEW k, AtMostOnce(built, k), NEW m \in Ids, NEW n \in Ids,
           k \in Held(m), k \in Held(n)
    PROVE  m = n
<1>1. built[m].next = k \/ \E i \in DOMAIN built[m].list : built[m].list[i] = k
  BY DEF Held
<1>2. built[n].next = k \/ \E i \in DOMAIN built[n].list : built[n].list[i] = k
  BY DEF Held
<1>3. CASE built[m].next = k
  BY <1>2, <1>3 DEF AtMostOnce, Ids
<1>4. CASE \E i \in DOMAIN built[m].list : built[m].list[i] = k
  <2>1. PICK i \in DOMAIN built[m].list : built[m].list[i] = k
    BY <1>4
  <2>2. CASE built[n].next = k
    BY <2>1, <2>2 DEF AtMostOnce, Ids
  <2>3. CASE \E j \in DOMAIN built[n].list : built[n].list[j] = k
    BY <2>1, <2>3 DEF AtMostOnce, Ids
  <2> QED
    BY <1>2, <2>2, <2>3
<1> QED
  BY <1>1, <1>3, <1>4

\* A module that nobody holds can be deleted with all under it, and what is left
\* holds nothing of that.
LEMMA DeletesOnce ==
    ASSUME TreeOK(built), \A m \in Ids \ {NullModule} : AtMostOnce(built, m),
           NullFree, Intact,
           NEW d \in Ids \ deleted, d # NullModule, Free(built, d)
    PROVE  /\ Deletable(d)
           /\ NullModule \notin Under(d)
           /\ \A k \in Under(d) \ {d} : ~Free(built, k)
           /\ \A m \in Ids \ Under(d) : Held(m) \cap Under(d) = {}
<1>1. \A m \in Ids : Held(m) \subseteq Ids
  BY DEF Held, Ids
<1>2. Under(d) \cap deleted = {} /\ Under(d) \subseteq Ids
  <2> DEFINE S == Ids \ deleted
  <2>1. d \in S /\ \A k \in S : Held(k) \subseteq S
    BY <1>1 DEF Intact
  <2> HIDE DEF S
  <2>2. Under(d) \subseteq S
    BY <2>1, UnderIsWithin
  <2> QED
    BY <2>2 DEF S
<1>3. NullModule \notin Under(d)
  <2> DEFINE S == Ids \ {NullModule}
  <2>1. d \in S /\ \A k \in S : Held(k) \subseteq S
    BY <1>1 DEF NullFree
  <2> HIDE DEF S
  <2>2. Under(d) \subseteq S
    BY <2>1, UnderIsWithin
  <2> QED
    BY <2>2 DEF S
<1>4. \A k \in Under(d) \ {d} : \E n \in Under(d) : k \in Held(n)
  BY UnderIsHeld
<1>5. \A m \in Ids : d \notin Held(m)
  BY HeldIsNotFree
<1>6. \A k \in Under(d) \ {d} : ~Free(built, k)
  BY <1>2, <1>4, HeldIsNotFree
<1>7. ASSUME NEW m \in Ids \ Under(d), NEW k \in Held(m) \cap Under(d) PROVE FALSE
  <2>1. k # d
    BY <1>5
  <2>2. PICK n \in Under(d) : k \in Held(n)
    BY <1>4, <2>1
  <2>3. AtMostOnce(built, k)
    BY <1>2, <1>3
  <2>4. m = n
    BY <1>2, <2>2, <2>3, HolderIsOne
  <2> QED
    BY <2>2, <2>4
<1>8. ASSUME NEW k \in Under(d)
      PROVE  Cardinality({n \in Under(d) : k \in Held(n)}) = IF k = d THEN 0 ELSE 1
  <2>1. CASE k = d
    <3>1. {n \in Under(d) : k \in Held(n)} = {}
      BY <1>2, <1>5, <2>1
    <3> QED
      BY <2>1, <3>1, FS_EmptySet
  <2>2. CASE k # d
    <3>1. PICK n \in Under(d) : k \in Held(n)
      BY <1>4, <2>2
    <3>2. AtMostOnce(built, k)
      BY <1>2, <1>3
    <3>3. \A m \in Under(d) : k \in Held(m) => m = n
      BY <1>2, <3>1, <3>2, HolderIsOne
    <3>4. {m \in Under(d) : k \in Held(m)} = {n}
      BY <3>1, <3>3
    <3>5. Cardinality({m \in Under(d) : k \in Held(m)}) = 1
      BY <3>4, FS_Singleton, Zenon
    <3> QED
      BY <2>2, <3>5
  <2> QED
    BY <2>1, <2>2
<1>9. Deletable(d)
  BY <1>2, <1>8 DEF Deletable
<1> QED
  BY <1>3, <1>6, <1>7, <1>9

\* The modules that calls wait with, and those that are in the hands of the
\* calls, which are not in the tree yet.
Mes(s) == {s[i].me : i \in DOMAIN s}
Waiting == Mes(stack) \cup IF OpensList(stack) THEN {Given} ELSE {}
Hands == Mes(stack) \cup {Given}

\* The chain of a module that a call waits with has not been made.
Unlinked == \A m \in Waiting : Real(m) => built[m].next = NULL

\* A step puts a module into the tree that is being returned, or makes one.
TreeMoves ==
    \/ UNCHANGED built
    \/ \E m \in Modules : m.next = NULL /\ m.list = <<>> /\ built' = Append(built, m)
    \/ \E m \in Ids : /\ pc = "return"
                      /\ Real(m) => m \in Waiting /\ m \notin Waiting'
                      /\ built' = [built EXCEPT ![m].next = returned]
    \/ \E m \in Ids : /\ pc = "return" /\ returned # NULL
                      /\ built' = [built EXCEPT ![m].list = Append(built[m].list, returned)]

\* What calls have in their hands they had before, but for what is new.
HandsMove ==
    LET Else == {Len(built) + 1, NULL, NullModule}
    IN  Hands' \subseteq Hands \cup Else /\ Waiting' \subseteq Waiting \cup Else

LEMMA WaitingInHands == Waiting \subseteq Hands
  BY DEF Waiting, Hands

LEMMA MesAreBuilt ==
    ASSUME NEW s, NEW b, CallsOK(s, b), NestOK(s)
    PROVE  Mes(s) \subseteq DOMAIN b \cup {NULL}
  BY DEF CallsOK, FrameOK, NestOK, Mes, Frames

LEMMA HandsAreBuilt ==
    ASSUME IInv, OwnInv
    PROVE  Hands \subseteq Ids \cup {NULL} /\ NULL \notin Ids /\ TreeOK(built)
<1>1. Mes(stack) \subseteq Ids \cup {NULL}
  BY MesAreBuilt DEF IInv, Shape, OwnInv, Ids
<1>2. NULL \notin Ids
  BY DEF IInv, Shape, TreeOK, Ids, NULL
<1> QED
  BY <1>1, <1>2 DEF Hands, Given, IInv, Shape

LEMMA ListIsSeq ==
    ASSUME NEW b, TreeOK(b), NEW n \in DOMAIN b
    PROVE  b[n].list \in Seq(Nat)
<1>1. b[n] \in Modules
  BY DEF TreeOK
<1> QED
  BY <1>1 DEF Modules

LEMMA SetNext ==
    ASSUME NEW b, TreeOK(b), NEW n \in DOMAIN b, NEW r \in Nat
    PROVE  LET c == [b EXCEPT ![n].next = r]
           IN  /\ DOMAIN c = DOMAIN b /\ c[n].next = r
               /\ \A m \in DOMAIN b : c[m].list = b[m].list
               /\ \A m \in DOMAIN b \ {n} : c[m] = b[m]
<1> DEFINE new == [b[n] EXCEPT !.next = r]
           c == [b EXCEPT ![n] = new]
<1>1. b[n] \in Modules
  BY DEF TreeOK
<1>2. new.next = r /\ new.list = b[n].list
  BY <1>1 DEF Modules
<1>3. c = [b EXCEPT ![n].next = r]
  OBVIOUS
<1>4. c[n] = new /\ DOMAIN c = DOMAIN b /\ \A m \in DOMAIN b \ {n} : c[m] = b[m]
  OBVIOUS
<1> HIDE DEF c, new
<1>5. /\ DOMAIN c = DOMAIN b /\ c[n].next = r
      /\ \A m \in DOMAIN b : c[m].list = b[m].list
      /\ \A m \in DOMAIN b \ {n} : c[m] = b[m]
  BY <1>2, <1>4
<1> QED
  BY <1>3, <1>5

LEMMA SetList ==
    ASSUME NEW b, TreeOK(b), NEW n \in DOMAIN b, NEW l \in Seq(Nat)
    PROVE  LET c == [b EXCEPT ![n].list = l]
           IN  /\ DOMAIN c = DOMAIN b /\ c[n].list = l
               /\ \A m \in DOMAIN b : c[m].next = b[m].next
               /\ \A m \in DOMAIN b \ {n} : c[m] = b[m]
<1> DEFINE new == [b[n] EXCEPT !.list = l]
           c == [b EXCEPT ![n] = new]
<1>1. b[n] \in Modules
  BY DEF TreeOK
<1>2. new.list = l /\ new.next = b[n].next
  BY <1>1 DEF Modules
<1>3. c = [b EXCEPT ![n].list = l]
  OBVIOUS
<1>4. c[n] = new /\ DOMAIN c = DOMAIN b /\ \A m \in DOMAIN b \ {n} : c[m] = b[m]
  OBVIOUS
<1> HIDE DEF c, new
<1>5. /\ DOMAIN c = DOMAIN b /\ c[n].list = l
      /\ \A m \in DOMAIN b : c[m].next = b[m].next
      /\ \A m \in DOMAIN b \ {n} : c[m] = b[m]
  BY <1>2, <1>4
<1> QED
  BY <1>3, <1>5

\* A module holds what it held before, or what is being returned.
LEMMA HeldMoves ==
    ASSUME TreeOK(built), TreeMoves, Unlinked, returned \in Ids \cup {NULL}
    PROVE  /\ Ids \subseteq Ids' /\ Ids' \subseteq Ids \cup {Len(built) + 1}
           /\ \A m \in Ids' : \A k \in Held(m)' :
                m \in Ids /\ (k \in Held(m) \/ (pc = "return" /\ k = returned))
           /\ \A m \in Ids \ {NullModule} : NullModule \in Held(m) => NullModule \in Held(m)'
           /\ \A m \in Ids : built[m].list # <<>> => built'[m].list # <<>>
<1>0. /\ built \in Seq(Modules) /\ Len(built) \in Nat /\ NULL \notin Ids
      /\ Ids = 1..Len(built) /\ \A m \in Ids : built[m] \in Modules
  BY DEF TreeOK, Ids, NULL
<1>1. CASE UNCHANGED built
  <2>1. Ids' = Ids /\ (\A m : Held(m)' = Held(m))
    BY <1>1 DEF Held, Ids
  <2> QED
    BY <1>1, <2>1
<1>2. CASE \E m \in Modules : m.next = NULL /\ m.list = <<>> /\ built' = Append(built, m)
  <2>1. PICK n \in Modules : n.next = NULL /\ n.list = <<>> /\ built' = Append(built, n)
    BY <1>2
  <2>2. /\ Ids' = Ids \cup {Len(built) + 1}
        /\ \A m \in Ids : built'[m] = built[m]
        /\ built'[Len(built) + 1] = n
    BY <1>0, <2>1 DEF Ids
  <2>3. \A m \in Ids : Held(m)' = Held(m)
    <3> TAKE m \in Ids
    <3>1. built'[m] = built[m] /\ built[m].next \in Ids \cup {NULL}
          /\ \A i \in DOMAIN built[m].list : built[m].list[i] \in Ids
      BY <2>2 DEF TreeOK, Ids
    <3>2. Len(built) + 1 # NULL /\ Len(built) + 1 \notin Ids
      BY <1>0 DEF NULL
    <3> QED
      BY <2>2, <3>1, <3>2 DEF Held, Ids
  <2>4. ASSUME NEW m, m = Len(built) + 1 PROVE Held(m)' = {}
    <3>1. NULL \notin Ids'
      BY <1>0, <2>2 DEF NULL
    <3>2. built'[m].next = NULL /\ DOMAIN built'[m].list = {}
      BY <2>1, <2>2, <2>4
    <3> QED
      BY <3>1, <3>2 DEF Held, Ids
  <2>5. \A m \in Ids' : \A k \in Held(m)' : m \in Ids /\ k \in Held(m)
    <3> TAKE m \in Ids'
    <3>1. CASE m \in Ids
      BY <2>3, <3>1
    <3>2. CASE m = Len(built) + 1
      BY <2>4, <3>2
    <3> QED
      BY <2>2, <3>1, <3>2
  <2> QED
    BY <2>2, <2>3, <2>5
<1>3. CASE \E m \in Ids : /\ pc = "return"
                          /\ Real(m) => m \in Waiting /\ m \notin Waiting'
                          /\ built' = [built EXCEPT ![m].next = returned]
  <2>1. PICK n \in Ids : /\ pc = "return" /\ (Real(n) => n \in Waiting)
                         /\ built' = [built EXCEPT ![n].next = returned]
    BY <1>3
  <2>2. /\ Ids' = Ids
        /\ \A m \in Ids : built'[m].list = built[m].list
        /\ \A m \in Ids \ {n} : built'[m].next = built[m].next
        /\ built'[n].next = returned
    BY <1>0, <2>1, SetNext DEF Ids, NULL
  <2>3. \A m \in Ids : \A k \in Held(m)' : k \in Held(m) \/ k = returned
    BY <2>2 DEF Held, Ids
  <2>4. Real(n) => built[n].next = NULL
    BY <2>1 DEF Unlinked
  <2>5. n # NullModule => built[n].next # NullModule
    BY <1>0, <2>4 DEF Real, NULL, NullModule
  <2>6. \A m \in Ids \ {NullModule} : NullModule \in Held(m) => NullModule \in Held(m)'
    BY <2>2, <2>5 DEF Held, Ids
  <2> QED
    BY <2>1, <2>2, <2>3, <2>6
<1>4. CASE \E m \in Ids :
             /\ pc = "return" /\ returned # NULL
             /\ built' = [built EXCEPT ![m].list = Append(built[m].list, returned)]
  <2>1. PICK n \in Ids :
          /\ pc = "return" /\ returned # NULL
          /\ built' = [built EXCEPT ![n].list = Append(built[n].list, returned)]
    BY <1>4
  <2>3. built[n].list \in Seq(Nat) /\ returned \in Nat
    BY <1>0, ListIsSeq DEF Ids, NULL
  <2>6. Append(built[n].list, returned) \in Seq(Nat)
    BY <2>3
  <2>2. /\ Ids' = Ids
        /\ \A m \in Ids : built'[m].next = built[m].next
        /\ \A m \in Ids \ {n} : built'[m].list = built[m].list
        /\ built'[n].list = Append(built[n].list, returned)
    BY <1>0, <2>1, <2>6, SetList DEF Ids
  <2> DEFINE old == built[n].list
             new == built'[n].list
  <2>4. /\ \A i \in DOMAIN new : new[i] = returned \/ (i \in DOMAIN old /\ new[i] = old[i])
        /\ \A i \in DOMAIN old : i \in DOMAIN new /\ new[i] = old[i]
        /\ new # <<>>
    <3>1. new = Append(old, returned) /\ old \in Seq(Nat) /\ returned \in Nat
      BY <1>0, <2>2, <2>3 DEF NULL
    <3> HIDE DEF old, new
    <3>2. /\ Len(old) \in Nat /\ DOMAIN old = 1..Len(old)
          /\ Len(new) = Len(old) + 1 /\ DOMAIN new = 1..(Len(old) + 1)
          /\ \A i \in 1..Len(old) : new[i] = old[i]
          /\ new[Len(old) + 1] = returned
      BY <3>1
    <3>3. new # <<>>
      BY <3>2
    <3> QED
      BY <3>2, <3>3
  <2> HIDE DEF old, new
  <2>5. ASSUME NEW m \in Ids, NEW k \in Held(m)' PROVE k \in Held(m) \/ k = returned
    <3>1. CASE m = n
      BY <2>2, <2>4, <2>5, <3>1 DEF Held, Ids, old, new
    <3>2. CASE m # n
      BY <2>2, <2>5, <3>2 DEF Held, Ids
    <3> QED
      BY <3>1, <3>2
  <2>8. ASSUME NEW m \in Ids, NullModule \in Held(m) PROVE NullModule \in Held(m)'
    <3>1. CASE m = n
      BY <2>2, <2>4, <2>8, <3>1 DEF Held, Ids, old, new
    <3>2. CASE m # n
      BY <2>2, <2>8, <3>2 DEF Held, Ids
    <3> QED
      BY <3>1, <3>2
  <2>7. \A m \in Ids : built[m].list # <<>> => built'[m].list # <<>>
    BY <2>2, <2>4 DEF new
  <2> QED
    BY <2>1, <2>2, <2>5, <2>7, <2>8
<1> QED
  BY <1>1, <1>2, <1>3, <1>4 DEF TreeMoves

\* A chain that is not made yet stays so, as long as a call waits with it.
LEMMA StaysUnlinked ==
    ASSUME IInv, OwnInv, Unlinked, TreeMoves, HandsMove, IInv', OwnInv'
    PROVE  Unlinked'
<1> SUFFICES ASSUME NEW m \in Waiting', Real(m) PROVE built'[m].next = NULL
  BY DEF Unlinked
<1>1. m \in Ids'
  <2>1. Mes(stack') \subseteq Ids' \cup {NULL}
    BY MesAreBuilt DEF IInv, Shape, OwnInv, Ids
  <2>2. Given' \in Ids' \cup {NULL}
    BY DEF Given, IInv, Shape
  <2>3. Waiting' \subseteq Mes(stack') \cup {Given'}
    BY DEF Waiting, Mes
  <2> QED
    BY <2>1, <2>2, <2>3 DEF Real
<1>2. m \in Waiting \/ m = Len(built) + 1
  BY DEF HandsMove, Real
<1>3. TreeOK(built) /\ Waiting \subseteq Ids \cup {NULL} /\ Len(built) + 1 \notin Ids
  BY HandsAreBuilt, WaitingInHands DEF TreeOK, Ids
<1>4. m \in Ids => built[m].next = NULL
  BY <1>2, <1>3 DEF Unlinked, Real
<1>5. built \in Seq(Modules) /\ \A n \in Ids : built[n] \in Modules
  BY <1>3 DEF TreeOK, Ids
<1>6. CASE UNCHANGED built
  BY <1>1, <1>4, <1>6 DEF Ids
<1>7. CASE \E n \in Modules : n.next = NULL /\ n.list = <<>> /\ built' = Append(built, n)
  <2>1. PICK n \in Modules : n.next = NULL /\ built' = Append(built, n)
    BY <1>7
  <2>2. \/ m \in Ids /\ built'[m] = built[m]
        \/ built'[m] = n
    BY <1>1, <1>5, <2>1 DEF Ids
  <2> QED
    BY <1>4, <2>1, <2>2
<1>8. CASE \E n \in Ids : /\ pc = "return"
                          /\ Real(n) => n \in Waiting /\ n \notin Waiting'
                          /\ built' = [built EXCEPT ![n].next = returned]
  <2>1. PICK n \in Ids : /\ Real(n) => n \notin Waiting'
                         /\ built' = [built EXCEPT ![n].next = returned]
    BY <1>8
  <2>2. m # n
    BY <2>1
  <2>3. m \in Ids /\ built'[m] = built[m]
    BY <1>1, <1>5, <2>1, <2>2 DEF Ids
  <2> QED
    BY <1>4, <2>3
<1>9. CASE \E n \in Ids :
             /\ pc = "return" /\ returned # NULL
             /\ built' = [built EXCEPT ![n].list = Append(built[n].list, returned)]
  <2>1. PICK n \in Ids : built' = [built EXCEPT ![n].list = Append(built[n].list, returned)]
    BY <1>9
  <2>2. m \in Ids /\ built'[m].next = built[m].next
    <3>1. built[n].list \in Seq(Nat) /\ returned \in Nat
      <4>1. returned \in Ids \cup {NULL}
        BY DEF IInv, Shape
      <4>2. Ids \cup {NULL} \subseteq Nat
        BY <1>5 DEF Ids, NULL
      <4> QED
        BY <1>3, <4>1, <4>2, ListIsSeq DEF Ids
    <3>2. Append(built[n].list, returned) \in Seq(Nat)
      BY <3>1
    <3>3. /\ DOMAIN built' = DOMAIN built
          /\ \A k \in DOMAIN built : built'[k].next = built[k].next
      BY <1>3, <2>1, <3>2, SetList DEF Ids
    <3> QED
      BY <1>1, <3>3 DEF Ids
  <2> QED
    BY <1>4, <2>2
<1> QED
  BY <1>6, <1>7, <1>8, <1>9 DEF TreeMoves

-----------------------------------------------------------------------------
(* What each step moves *)

Moves == TreeMoves /\ HandsMove

LEMMA MesPush ==
    ASSUME NEW s \in Seq(Frames), NEW f
    PROVE  Mes(Append(s, f)) \subseteq Mes(s) \cup {f.me}
<1> DEFINE r == Append(s, f)
<1>1. \A i \in DOMAIN r : (i \in DOMAIN s /\ r[i] = s[i]) \/ r[i] = f
  OBVIOUS
<1> HIDE DEF r
<1>2. Mes(r) \subseteq Mes(s) \cup {f.me}
  BY <1>1 DEF Mes
<1> QED
  BY <1>2 DEF r

LEMMA MesPop ==
    ASSUME NEW s \in Seq(Frames), s # <<>>
    PROVE  Mes(SubSeq(s, 1, Len(s) - 1)) \subseteq Mes(s) /\ s[Len(s)].me \in Mes(s)
  BY PopSeq DEF Mes

LEMMA HandsByMes ==
    ASSUME Given' \in Mes(stack) \cup {NULL},
           Mes(stack') \subseteq Waiting \cup {Len(built) + 1, NULL, NullModule}
    PROVE  HandsMove
<1>1. Mes(stack) \subseteq Waiting /\ Waiting \subseteq Hands
  BY DEF Waiting, Hands
<1>2. Hands' = Mes(stack') \cup {Given'} /\ Waiting' \subseteq Hands'
  BY DEF Hands, Waiting
<1> QED
  BY <1>1, <1>2 DEF HandsMove

\* Nothing is returned, or no module, and the calls are the same.
LEMMA StayMoves ==
    ASSUME pc' = "return" => returned' = NULL, Mes(stack') \subseteq Mes(stack)
    PROVE  HandsMove
<1>1. Given' = NULL
  BY DEF Given
<1>2. Mes(stack) \subseteq Waiting
  BY DEF Waiting
<1> QED
  BY <1>1, <1>2, HandsByMes

\* A call is made with what is new, or what a call has waited with.
LEMMA CallMoves ==
    ASSUME pc' # "return", NEW frames \in Seq(Frames), NEW f, stack' = Append(frames, f),
           Mes(frames) \subseteq Mes(stack) \cup {NULL},
           f.me \in Waiting \cup {Len(built) + 1, NullModule}
    PROVE  HandsMove
<1>1. Given' = NULL
  BY DEF Given
<1>2. Mes(stack') \subseteq Mes(frames) \cup {f.me} /\ Mes(stack) \subseteq Waiting
  BY MesPush DEF Waiting
<1> QED
  BY <1>1, <1>2, HandsByMes

LEMMA ReadingMoves ==
    ASSUME \/ CannotOpen \/ Identifier \/ ReadParameters \/ Positional \/ Named
           \/ Unexpected \/ GetNextModule
    PROVE  Moves /\ UNCHANGED deleted /\ pc' # "undefined"
<1>1. /\ UNCHANGED <<stack, built, deleted>> /\ pc' # "undefined"
      /\ pc' = "return" => returned' = NULL
  BY ReadingOn
<1> QED
  BY <1>1, StayMoves DEF Moves, TreeMoves

\* A module is made, and its chain goes on.
LEMMA MakeMoves ==
    ASSUME IInv, OwnInv, NEW m \in Modules, m.next = NULL, m.list = <<>>,
           built' = Append(built, m),
           \/ CallNextModule(Len(built) + 1, stack)
           \/ Return(NULL) /\ UNCHANGED stack
    PROVE  Moves
<1>1. TreeMoves
  BY DEF TreeMoves
<1>2. CASE CallNextModule(Len(built) + 1, stack)
  <2> DEFINE f == [fn |-> "chain", me |-> Len(built) + 1]
  <2>1. f.me = Len(built) + 1 /\ stack' = Append(stack, f) /\ pc' # "return"
    BY <1>2 DEF CallNextModule
  <2> HIDE DEF f
  <2>2. HandsMove
    BY <2>1, MeIsBuilt, CallMoves
  <2> QED
    BY <1>1, <2>2 DEF Moves
<1>3. CASE Return(NULL) /\ UNCHANGED stack
  BY <1>1, <1>3, StayMoves DEF Moves, Return
<1> QED
  BY <1>2, <1>3

LEMMA ConstructMoves ==
    ASSUME IInv, OwnInv, Construct
    PROVE  Moves /\ UNCHANGED deleted /\ pc' # "undefined"
<1> DEFINE name == IF reader.hasErrors THEN "fake" ELSE params.name
<1>1. params \in Params /\ params.name \in Names \cup {""}
  BY DEF IInv, Shape, Params
<1>2. name \in Names \cup {""}
  BY <1>1, NameAssumption
<1>3. /\ UNCHANGED deleted
      /\ \/ /\ built' = Append(built, New(name, params))
            /\ CallNextModule(Len(built) + 1, stack)
         \/ Return(NULL) /\ UNCHANGED <<stack, built>>
  BY DEF Construct
<1> HIDE DEF name
<1>4. pc' # "undefined"
  BY <1>3 DEF Return, CallNextModule
<1>5. CASE Return(NULL) /\ UNCHANGED <<stack, built>>
  BY <1>3, <1>4, <1>5, StayMoves DEF Return, Moves, TreeMoves
<1>6. CASE /\ built' = Append(built, New(name, params))
           /\ CallNextModule(Len(built) + 1, stack)
  <2> DEFINE m == New(name, params)
  <2>1. m \in Modules /\ m.next = NULL /\ m.list = <<>>
    BY <1>1, <1>2, NewIsModule
  <2> HIDE DEF m
  <2> QED
    BY <1>3, <1>4, <1>6, <2>1, MakeMoves DEF m
<1> QED
  BY <1>3, <1>5, <1>6

LEMMA ServerOrPathMoves ==
    ASSUME IInv, OwnInv, ServerOrPath
    PROVE  Moves /\ UNCHANGED deleted /\ pc' # "undefined"
<1>1. \/ \E m \in Modules :
           /\ m.next = NULL /\ m.list = <<>>
           /\ built' = Append(built, m)
           /\ \/ CallNextModule(Len(built) + 1, stack)
              \/ Return(NULL) /\ UNCHANGED stack
      \/ Return(NULL) /\ UNCHANGED <<stack, built>>
  BY ServerOrPathMakes
<1>2. UNCHANGED deleted
  BY DEF ServerOrPath
<1>3. pc' # "undefined"
  BY <1>1 DEF Return, CallNextModule
<1>4. Moves
  <2>1. CASE Return(NULL) /\ UNCHANGED <<stack, built>>
    BY <2>1, StayMoves DEF Return, Moves, TreeMoves
  <2> QED
    BY <1>1, <2>1, MakeMoves
<1> QED
  BY <1>2, <1>3, <1>4

LEMMA IncludeMoves ==
    ASSUME IInv, OwnInv, Include
    PROVE  Moves /\ UNCHANGED deleted /\ pc' # "undefined"
<1> DEFINE m == New("Include", params)
<1>1. /\ params \in Params /\ params.name = "Include" /\ UNCHANGED deleted
      /\ built' = Append(built, m) /\ pc' = "include"
  BY DEF Include, IInv, Shape
<1>2. m \in Modules /\ m.next = NULL /\ m.list = <<>>
  <2>1. params.name \in Names \cup {""}
    BY <1>1 DEF Params
  <2> QED
    BY <1>1, <2>1, NewIsModule
<1>3. PICK error \in BOOLEAN :
        stack' = Append(stack, [fn |-> "include", me |-> Len(built) + 1,
                                files |-> params.positional, error |-> error,
                                reader |-> reader])
  BY DEF Include
<1> DEFINE f == [fn |-> "include", me |-> Len(built) + 1,
                 files |-> params.positional, error |-> error, reader |-> reader]
<1>4. f.me = Len(built) + 1
  OBVIOUS
<1> HIDE DEF f, m
<1>5. HandsMove
  BY <1>1, <1>3, <1>4, MeIsBuilt, CallMoves DEF f
<1> QED
  BY <1>1, <1>2, <1>5 DEF Moves, TreeMoves

LEMMA FillMoves ==
    ASSUME IInv, OwnInv, NEW frames \in Seq(Frames), Mes(frames) \subseteq Mes(stack) \cup {NULL},
           CallModuleList(frames)
    PROVE  Moves /\ pc' # "undefined"
<1> DEFINE f == [fn |-> "list", me |-> Len(built) + 1]
           m == New("ModuleList", NoParams)
<1>1. m \in Modules /\ m.next = NULL /\ m.list = <<>>
  BY NewIsModule, NoParamsIsParams
<1>2. built' = Append(built, m) /\ stack' = Append(frames, f) /\ pc' = "getModuleList"
  BY DEF CallModuleList, FillList
<1>3. f.me = Len(built) + 1
  OBVIOUS
<1> HIDE DEF f, m
<1>4. HandsMove
  BY <1>2, <1>3, CallMoves
<1> QED
  BY <1>1, <1>2, <1>4 DEF Moves, TreeMoves

LEMMA GetRootMoves ==
    ASSUME IInv, OwnInv, GetRoot
    PROVE  Moves /\ UNCHANGED deleted /\ pc' # "undefined"
<1>1. UNCHANGED deleted
  BY DEF GetRoot
<1>2. CASE Read(reader).ok
  BY <1>1, <1>2, MeIsBuilt, FillMoves DEF GetRoot
<1>3. CASE ~Read(reader).ok
  BY <1>1, <1>3, StayMoves DEF GetRoot, Return, Moves, TreeMoves
<1> QED
  BY <1>2, <1>3

LEMMA BlockMoves ==
    ASSUME IInv, OwnInv, Block
    PROVE  Moves /\ UNCHANGED deleted /\ pc' # "undefined"
<1> DEFINE f == [fn |-> "block", me |-> NULL]
           frames == Append(stack, f)
<1>1. /\ UNCHANGED deleted
      /\ IF Read(reader).ok THEN CallModuleList(frames)
         ELSE Return(NULL) /\ UNCHANGED <<stack, built>>
  BY DEF Block
<1>2. stack \in Seq(Frames) /\ f \in Frames /\ f.me = NULL
  BY MeIsBuilt DEF Frames, NULL
<1> HIDE DEF f
<1>3. frames \in Seq(Frames) /\ Mes(frames) \subseteq Mes(stack) \cup {NULL}
  BY <1>2, MesPush
<1> HIDE DEF frames
<1>4. CASE Read(reader).ok
  BY <1>1, <1>3, <1>4, FillMoves
<1>5. CASE ~Read(reader).ok
  BY <1>1, <1>5, StayMoves DEF Return, Moves, TreeMoves
<1> QED
  BY <1>4, <1>5

LEMMA GetModuleListMoves ==
    ASSUME IInv, OwnInv, GetModuleList
    PROVE  Moves /\ UNCHANGED deleted /\ pc' # "undefined"
<1>1. stack # <<>> /\ UNCHANGED <<built, deleted>>
  BY DEF GetModuleList, IInv, Called, Waits
<1>2. stack \in Seq(Frames) /\ Mes(Pop) \subseteq Mes(stack) /\ Top.me \in Mes(stack)
  BY <1>1, MeIsBuilt, MesPop DEF Pop, Top
<1>3. CASE reader.t \in {"}", "END_OF_FILE"}
  <2>1. pc' = "return" /\ returned' = Top.me /\ stack' = Pop
    BY <1>3 DEF GetModuleList, Return
  <2>2. Given' = Top.me /\ Mes(stack) \subseteq Waiting
    BY <2>1 DEF Given, Waiting
  <2>3. HandsMove
    BY <1>2, <2>1, <2>2, HandsByMes
  <2> QED
    BY <1>1, <2>1, <2>3 DEF Moves, TreeMoves
<1>4. CASE reader.t \notin {"}", "END_OF_FILE"}
  <2>1. pc' = "getModule" /\ UNCHANGED stack
    BY <1>4 DEF GetModuleList
  <2> QED
    BY <1>1, <2>1, StayMoves DEF Moves, TreeMoves
<1> QED
  BY <1>3, <1>4

LEMMA DropListMoves ==
    ASSUME IInv, OwnInv, DropList
    PROVE  Moves /\ UNCHANGED deleted /\ pc' # "undefined"
<1>1. /\ pc' = "return" /\ returned' = NULL /\ stack # <<>> /\ stack' = Pop
      /\ UNCHANGED <<built, deleted>>
  BY DEF DropList
<1>2. Mes(stack') \subseteq Mes(stack)
  BY <1>1, MeIsBuilt, MesPop DEF Pop
<1> QED
  BY <1>1, <1>2, StayMoves DEF Moves, TreeMoves

LEMMA ListTakesMoves ==
    ASSUME IInv, OwnInv, ListTakes
    PROVE  Moves /\ UNCHANGED deleted /\ pc' # "undefined"
<1>1. /\ pc = "return" /\ stack # <<>> /\ Top.fn = "list" /\ returned # NULL
      /\ pc' = "getModuleList" /\ UNCHANGED <<stack, returned, deleted>>
      /\ built' = IF returned = NullModule THEN built
                  ELSE [built EXCEPT ![Top.me].list = Append(built[Top.me].list, returned)]
  BY DEF ListTakes, ListPuts
<1>2. Top.me \in Ids
  BY <1>1, TopIsCall DEF Ids
<1>3. TreeMoves
  BY <1>1, <1>2 DEF TreeMoves
<1> QED
  BY <1>1, <1>3, StayMoves DEF Moves

LEMMA ChainMoves ==
    ASSUME IInv, OwnInv, Chain
    PROVE  Moves /\ UNCHANGED deleted /\ pc' # "undefined"
<1>1. /\ pc = "return" /\ stack # <<>> /\ Top.fn = "chain"
      /\ built' = [built EXCEPT ![Top.me].next = returned]
      /\ pc' = "return" /\ returned' = Top.me /\ stack' = Pop /\ UNCHANGED deleted
  BY DEF Chain, EndChain, Return
<1>2. /\ stack \in Seq(Frames) /\ Mes(Pop) \subseteq Mes(stack) /\ Top.me \in Mes(stack)
      /\ Mes(stack) \subseteq Waiting
  BY <1>1, MeIsBuilt, MesPop DEF Pop, Top, Waiting
<1>3. Top.me \in Ids /\ ~OpensList(Pop)
  BY <1>1, TopIsCall DEF Ids, FrameOK
<1>4. HandsMove
  <2>1. Given' = Top.me
    BY <1>1 DEF Given
  <2> QED
    BY <1>1, <1>2, <2>1, HandsByMes
<1>5. Real(Top.me) => Top.me \notin Waiting'
  <2>1. Waiting' = Mes(Pop)
    BY <1>1, <1>3 DEF Waiting
  <2>2. /\ Len(stack) \in DOMAIN stack /\ Top = stack[Len(stack)]
        /\ \A i \in DOMAIN Pop : i \in DOMAIN stack /\ i # Len(stack) /\ Pop[i] = stack[i]
    BY <1>1, <1>2, PopSeq DEF Pop, Top
  <2>3. Real(Top.me) => \A i \in DOMAIN Pop : Pop[i].me # Top.me
    BY <2>2 DEF OwnInv, OwnersOK
  <2> QED
    BY <2>1, <2>3 DEF Mes
<1>6. TreeMoves
  BY <1>1, <1>2, <1>3, <1>5 DEF TreeMoves
<1> QED
  BY <1>1, <1>4, <1>6 DEF Moves

LEMMA EndBlockMoves ==
    ASSUME IInv, OwnInv, EndBlock
    PROVE  Moves /\ UNCHANGED deleted /\ pc' # "undefined"
<1>1. /\ pc = "return" /\ stack # <<>> /\ Top.fn = "block" /\ UNCHANGED <<built, deleted>>
      /\ \/ returned # NULL /\ CallNextModule(returned, Pop)
         \/ pc' = "return" /\ returned' = NULL /\ stack' = Pop
  BY DEF EndBlock, Return
<1>2. /\ stack \in Seq(Frames) /\ Pop \in Seq(Frames) /\ Mes(Pop) \subseteq Mes(stack)
  BY <1>1, MeIsBuilt, TopIsCall, MesPop DEF Pop
<1>3. CASE CallNextModule(returned, Pop)
  <2> DEFINE f == [fn |-> "chain", me |-> returned]
  <2>1. f.me = returned /\ stack' = Append(Pop, f) /\ pc' = "getNextModule"
    BY <1>3 DEF CallNextModule
  <2>2. returned \in Waiting
    BY <1>1 DEF Waiting, Given, OpensList, Top
  <2> HIDE DEF f
  <2>3. HandsMove
    BY <1>2, <2>1, <2>2, CallMoves
  <2> QED
    BY <1>1, <2>1, <2>3 DEF Moves, TreeMoves
<1>4. CASE pc' = "return" /\ returned' = NULL /\ stack' = Pop
  BY <1>1, <1>2, <1>4, StayMoves DEF Moves, TreeMoves
<1> QED
  BY <1>1, <1>3, <1>4

LEMMA ActivateMoves ==
    ASSUME IInv, OwnInv, Activate
    PROVE  Moves /\ UNCHANGED deleted /\ pc' # "undefined"
<1>1. /\ UNCHANGED <<built, deleted>>
      /\ \/ CallNextModule(NullModule, stack)
         \/ Return(NULL) /\ UNCHANGED stack
  BY DEF Activate
<1>2. CASE CallNextModule(NullModule, stack)
  <2> DEFINE f == [fn |-> "chain", me |-> NullModule]
  <2>1. f.me = NullModule /\ stack' = Append(stack, f) /\ pc' = "getNextModule"
    BY <1>2 DEF CallNextModule
  <2> HIDE DEF f
  <2>2. HandsMove
    BY <2>1, MeIsBuilt, CallMoves
  <2> QED
    BY <1>1, <2>1, <2>2 DEF Moves, TreeMoves
<1>3. CASE Return(NULL) /\ UNCHANGED stack
  BY <1>1, <1>3, StayMoves DEF Return, Moves, TreeMoves
<1> QED
  BY <1>1, <1>2, <1>3

\* A call notes something, and waits with the same module.
LEMMA NoteMoves ==
    ASSUME IInv, OwnInv, Waits("include"), NEW f, f.me = Top.me, pc' # "return",
           stack' = [stack EXCEPT ![Len(stack)] = f]
    PROVE  HandsMove
<1>1. stack \in Seq(Frames) /\ Top = stack[Len(stack)]
  BY MeIsBuilt, TopIsCall DEF Waits
<1>2. DOMAIN stack' = DOMAIN stack /\ \A i \in DOMAIN stack : stack'[i].me = stack[i].me
  BY <1>1
<1>3. Mes(stack') \subseteq Mes(stack)
  BY <1>2 DEF Mes
<1> QED
  BY <1>3, StayMoves

LEMMA IncludeFileMoves ==
    ASSUME IInv, OwnInv, IncludeFile
    PROVE  Moves /\ UNCHANGED deleted /\ pc' # "undefined"
<1> DEFINE f == [Top EXCEPT !.files = Tail(Top.files)]
<1>1. /\ pc = "include" /\ Waits("include") /\ pc' = "getRoot" /\ UNCHANGED <<built, deleted>>
  BY DEF IncludeFile, IInv, Called, Waits
<1>2. f.me = Top.me
  <2>1. Top \in [fn : {"include"}, me : Nat, files : Seq(Texts), error : BOOLEAN,
                 reader : Readers]
    BY <1>1, IncludeFrame DEF FrameOK, Frames
  <2> QED
    BY <2>1
<1>3. stack' = [stack EXCEPT ![Len(stack)] = f]
  BY DEF IncludeFile, Top
<1> HIDE DEF f
<1>4. HandsMove
  BY <1>1, <1>2, <1>3, NoteMoves
<1> QED
  BY <1>1, <1>4 DEF Moves, TreeMoves

LEMMA AppendFills ==
    ASSUME NEW s \in Seq(Nat), NEW x \in Nat
    PROVE  Append(s, x) \in Seq(Nat) /\ Append(s, x) # <<>>
<1>1. Append(s, x) \in Seq(Nat) /\ Len(Append(s, x)) = Len(s) + 1 /\ Len(s) \in Nat
  OBVIOUS
<1>2. Len(<<>>) = 0
  OBVIOUS
<1>3. Append(s, x) # <<>>
  BY <1>1, <1>2
<1> QED
  BY <1>1, <1>3

\* An Include that takes a root is no longer empty.
LEMMA IncludeTakesMoves ==
    ASSUME IInv, OwnInv, IncludeTakes
    PROVE  /\ Moves /\ pc' # "undefined"
           /\ UNCHANGED deleted \/ ~NoneIncluded'
<1> DEFINE f == [Top EXCEPT !.error = TRUE]
<1>1. /\ pc = "return" /\ Waits("include") /\ pc' = "include"
      /\ \/ /\ returned = NULL /\ UNCHANGED <<built, deleted>>
            /\ stack' = [stack EXCEPT ![Len(stack)] = f]
         \/ /\ returned # NULL /\ UNCHANGED stack
            /\ built' = [built EXCEPT ![Top.me].list = Append(built[Top.me].list, returned)]
  BY DEF IncludeTakes, Waits, Top
<1>2. /\ f.me = Top.me /\ Top.me \in Ids /\ built[Top.me].name = "Include"
  <2>1. Top \in [fn : {"include"}, me : Nat, files : Seq(Texts), error : BOOLEAN,
                 reader : Readers]
    BY <1>1, IncludeFrame DEF FrameOK, Frames
  <2> QED
    BY <1>1, <2>1, IncludeFrame
<1> HIDE DEF f
<1>3. CASE /\ returned = NULL /\ UNCHANGED <<built, deleted>>
           /\ stack' = [stack EXCEPT ![Len(stack)] = f]
  BY <1>1, <1>2, <1>3, NoteMoves DEF Moves, TreeMoves
<1>4. CASE /\ returned # NULL /\ UNCHANGED stack
           /\ built' = [built EXCEPT ![Top.me].list = Append(built[Top.me].list, returned)]
  <2>1. Moves
    BY <1>1, <1>2, <1>4, StayMoves DEF Moves, TreeMoves
  <2> DEFINE m == Top.me
             l == Append(built[m].list, returned)
  <2>2. TreeOK(built) /\ returned \in Nat /\ m \in DOMAIN built
    <3>1. returned \in DOMAIN built \cup {NULL} /\ TreeOK(built)
      BY MeIsBuilt
    <3> QED
      BY <1>2, <3>1 DEF TreeOK, Ids, NULL
  <2>3. l \in Seq(Nat) /\ l # <<>>
    <3>1. built[m].list \in Seq(Nat)
      BY <2>2, ListIsSeq
    <3> QED
      BY <2>2, <3>1, AppendFills
  <2>4. built' = [built EXCEPT ![m].list = l]
    BY <1>4
  <2> HIDE DEF l
  <2>5. m \in Ids' /\ built'[m].list = l
    BY <2>2, <2>3, <2>4, SetList DEF Ids
  <2>6. built'[m].name = "Include"
    <3>1. Grown(built, built')
      <4>1. returned \in DOMAIN built
        BY <1>4, MeIsBuilt
      <4> QED
        BY <1>4, <2>2, <4>1, FillTree
    <3> QED
      BY <1>2, <2>2, <3>1 DEF Grown
  <2>7. ~NoneIncluded'
    BY <2>3, <2>5, <2>6 DEF NoneIncluded
  <2> QED
    BY <1>1, <2>1, <2>7
<1> QED
  BY <1>1, <1>3, <1>4

LEMMA UnbalancedBlockMoves ==
    ASSUME IInv, OwnInv, UnbalancedBlock
    PROVE  Moves /\ pc' # "undefined"
<1>1. /\ stack # <<>> /\ UNCHANGED built
      /\ pc' = "return" /\ returned' = NULL /\ stack' = Pop
  BY DEF UnbalancedBlock, DeleteBlock, Return
<1>2. Mes(stack') \subseteq Mes(stack)
  BY <1>1, MeIsBuilt, MesPop DEF Pop
<1> QED
  BY <1>1, <1>2, StayMoves DEF Moves, TreeMoves

LEMMA IncludeEndsMoves ==
    ASSUME IInv, OwnInv, IncludeEnds
    PROVE  Moves /\ pc' # "undefined"
<1>1. /\ stack # <<>> /\ UNCHANGED built
      /\ \/ pc' = "return" /\ returned' = NULL /\ stack' = Pop
         \/ CallNextModule(Top.me, Pop)
  BY DEF IncludeEnds, IInv, Called, Waits, Return
<1>2. /\ stack \in Seq(Frames) /\ Pop \in Seq(Frames)
      /\ Mes(Pop) \subseteq Mes(stack) /\ Top.me \in Waiting
  BY <1>1, MeIsBuilt, TopIsCall, MesPop DEF Pop, Top, Waiting
<1>3. CASE pc' = "return" /\ returned' = NULL /\ stack' = Pop
  BY <1>1, <1>2, <1>3, StayMoves DEF Moves, TreeMoves
<1>4. CASE CallNextModule(Top.me, Pop)
  <2> DEFINE f == [fn |-> "chain", me |-> Top.me]
  <2>1. f.me = Top.me /\ stack' = Append(Pop, f) /\ pc' = "getNextModule"
    BY <1>4 DEF CallNextModule
  <2> HIDE DEF f
  <2>2. HandsMove
    BY <1>2, <2>1, CallMoves
  <2> QED
    BY <1>1, <2>1, <2>2 DEF Moves, TreeMoves
<1> QED
  BY <1>1, <1>3, <1>4

LEMMA FailingMoves ==
    ASSUME StatsOutOfRange \/ DeletedTwice \/ UsedDeleted
    PROVE  Moves /\ UNCHANGED <<stack, params, built, deleted, returned>> /\ pc' = "undefined"
<1>1. UNCHANGED <<stack, params, built, deleted, returned>> /\ pc' = "undefined"
  BY DEF StatsOutOfRange, DeletedTwice, UsedDeleted
<1> QED
  BY <1>1, StayMoves DEF Moves, TreeMoves

\* The steps that delete nothing.
Keeping ==
    \/ CannotOpen \/ GetRoot \/ GetModuleList \/ ListTakes \/ DropList \/ Identifier
    \/ ReadParameters \/ Positional \/ Named \/ Construct \/ Activate \/ ServerOrPath
    \/ Block \/ EndBlock \/ Include \/ IncludeFile \/ Unexpected \/ GetNextModule \/ Chain

LEMMA KeepingMoves ==
    ASSUME IInv, OwnInv, Keeping
    PROVE  Moves /\ UNCHANGED deleted /\ pc' # "undefined"
  BY ReadingMoves, GetRootMoves, GetModuleListMoves, ListTakesMoves, DropListMoves,
     ConstructMoves, ActivateMoves, ServerOrPathMoves, BlockMoves, EndBlockMoves,
     IncludeMoves, IncludeFileMoves, ChainMoves DEF Keeping

LEMMA StepMoves ==
    ASSUME IInv, OwnInv, Step
    PROVE  Moves
  BY KeepingMoves, FailingMoves, IncludeTakesMoves, IncludeEndsMoves, UnbalancedBlockMoves
     DEF Step, Keeping

LEMMA InitUnlinked == Init => Unlinked
<1> SUFFICES ASSUME Init PROVE Unlinked
  OBVIOUS
<1>1. stack = <<>> /\ pc = "getRoot"
  BY DEF Init
<1>2. Waiting \subseteq {NULL}
  BY <1>1 DEF Waiting, Mes, Given
<1> QED
  BY <1>2 DEF Unlinked, Real

LEMMA NextUnlinked == IInv /\ OwnInv /\ Unlinked /\ [Next]_vars => Unlinked'
<1> SUFFICES ASSUME IInv, OwnInv, Unlinked, [Next]_vars PROVE Unlinked'
  OBVIOUS
<1>1. CASE UNCHANGED vars
  BY <1>1 DEF vars, Unlinked, Waiting, Mes, Given, OpensList
<1>2. CASE Step
  <2>1. IInv' /\ OwnInv'
    BY IInvNext, NextOwned
  <2>2. TreeMoves /\ HandsMove
    BY <1>2, StepMoves DEF Moves
  <2> QED
    BY <2>1, <2>2, StaysUnlinked
<1>3. CASE Done
  BY <1>1, <1>3 DEF Done
<1> QED
  BY <1>1, <1>2, <1>3 DEF Next

-----------------------------------------------------------------------------
(* The inductive invariant of deletions *)

Gone ==
    /\ Hands \cap deleted = {} /\ NullModule \notin deleted
    /\ Intact
    /\ pc = "undefined" => StatsOfNothing

GoneInv == NullFree /\ NoneIncluded => Gone

LEMMA NamesKept ==
    ASSUME TreeOK(built), TreeMoves, returned \in Ids \cup {NULL}
    PROVE  Grown(built, built')
<1>1. CASE UNCHANGED built
  BY <1>1 DEF Grown
<1>2. CASE \E m \in Modules : m.next = NULL /\ m.list = <<>> /\ built' = Append(built, m)
  <2>1. PICK m \in Modules : m.next = NULL /\ m.list = <<>> /\ built' = Append(built, m)
    BY <1>2
  <2>2. Grown(built, Append(built, m))
    BY <2>1, GrowTree
  <2> QED
    BY <2>1, <2>2
<1>3. CASE \E m \in Ids : /\ pc = "return"
                          /\ Real(m) => m \in Waiting /\ m \notin Waiting'
                          /\ built' = [built EXCEPT ![m].next = returned]
  <2>1. PICK m \in Ids : built' = [built EXCEPT ![m].next = returned]
    BY <1>3
  <2>2. Grown(built, [built EXCEPT ![m].next = returned])
    BY LinkTree DEF Ids
  <2> QED
    BY <2>1, <2>2
<1>4. CASE \E m \in Ids :
             /\ pc = "return" /\ returned # NULL
             /\ built' = [built EXCEPT ![m].list = Append(built[m].list, returned)]
  <2>1. PICK m \in Ids :
          /\ returned # NULL
          /\ built' = [built EXCEPT ![m].list = Append(built[m].list, returned)]
    BY <1>4
  <2>2. Grown(built, [built EXCEPT ![m].list = Append(built[m].list, returned)])
    BY <2>1, FillTree DEF Ids
  <2> QED
    BY <2>1, <2>2
<1> QED
  BY <1>1, <1>2, <1>3, <1>4 DEF TreeMoves

\* If no Include has a root yet, and nobody holds Module::null, it was so before.
LEMMA WasSo ==
    ASSUME IInv, OwnInv, Unlinked, TreeMoves, NullFree', NoneIncluded'
    PROVE  NullFree /\ NoneIncluded
<1>1. TreeOK(built) /\ returned \in Ids \cup {NULL}
  BY DEF IInv, Shape
<1>2. /\ Ids \subseteq Ids'
      /\ \A m \in Ids \ {NullModule} : NullModule \in Held(m) => NullModule \in Held(m)'
      /\ \A m \in Ids : built[m].list # <<>> => built'[m].list # <<>>
  BY <1>1, HeldMoves
<1>3. \A m \in Ids : built'[m].name = built[m].name
  BY <1>1, NamesKept DEF Grown, Ids
<1>4. NullFree
  BY <1>2 DEF NullFree
<1>5. NoneIncluded
  BY <1>2, <1>3 DEF NoneIncluded
<1> QED
  BY <1>4, <1>5

LEMMA KeepsGone ==
    ASSUME IInv, OwnInv, Unlinked, Gone, Moves, UNCHANGED deleted, pc' # "undefined"
    PROVE  Gone'
<1>1. TreeOK(built) /\ returned \in Ids \cup {NULL} /\ deleted \subseteq Ids
  BY DEF IInv, Shape
<1>2. NULL \notin Ids /\ Len(built) + 1 \notin Ids
  BY <1>1 DEF TreeOK, Ids, NULL
<1>3. Hands' \cap deleted = {}
  BY <1>1, <1>2 DEF Gone, Moves, HandsMove
<1>4. ASSUME NEW m \in Ids' \ deleted, NEW k \in Held(m)', k \in deleted PROVE FALSE
  <2>1. m \in Ids /\ (k \in Held(m) \/ (pc = "return" /\ k = returned))
    BY <1>1, <1>4, HeldMoves DEF Moves
  <2>2. CASE k \in Held(m)
    BY <1>4, <2>1, <2>2 DEF Gone, Intact
  <2>3. CASE pc = "return" /\ k = returned
    BY <1>4, <2>3 DEF Gone, Hands, Given
  <2> QED
    BY <2>1, <2>2, <2>3
<1>5. Intact'
  BY <1>4 DEF Intact
<1> QED
  BY <1>3, <1>5 DEF Gone

\* The last of the calls deletes what nobody holds, and returns.
LEMMA DeletesGone ==
    ASSUME IInv, OwnInv, NullFree, Gone, stack # <<>>, stack' = Pop, UNCHANGED built,
           pc' = "return", returned' = NULL,
           NEW d \in Ids, d # NullModule, d \in Hands, Free(built, d), d \notin Mes(Pop),
           deleted' = deleted \cup Under(d)
    PROVE  Gone'
<1>1. TreeOK(built) /\ NULL \notin Ids /\ Under(d) \subseteq Ids /\ deleted \subseteq Ids
  BY UnderIsBuilt DEF IInv, Shape, TreeOK, Ids, NULL
<1>2. /\ NullModule \notin Under(d)
      /\ \A k \in Under(d) \ {d} : ~Free(built, k)
      /\ \A m \in Ids \ Under(d) : Held(m) \cap Under(d) = {}
  <2>1. \A m \in Ids \ {NullModule} : AtMostOnce(built, m)
    BY DEF OwnInv, OwnersOK, Ids
  <2>2. d \in Ids \ deleted /\ Intact
    BY DEF Gone
  <2> QED
    BY <1>1, <2>1, <2>2, DeletesOnce
<1>3. Hands' = Mes(Pop) \cup {NULL}
  BY DEF Hands, Given
<1>4. Mes(Pop) \cap deleted = {}
  <2>1. Mes(Pop) \subseteq Mes(stack)
    BY MeIsBuilt, MesPop DEF Pop
  <2> QED
    BY <2>1 DEF Gone, Hands
<1>5. ASSUME NEW x \in Mes(Pop), x \in Under(d) PROVE FALSE
  <2>1. Mes(Pop) \subseteq Mes(stack)
    BY MeIsBuilt, MesPop DEF Pop
  <2>2. PICK i \in DOMAIN stack : stack[i].me = x
    BY <2>1 DEF Mes
  <2>3. Real(x)
    BY <1>1, <1>2, <1>5 DEF Real
  <2>4. Free(built, x)
    BY <2>2, <2>3 DEF OwnInv, OwnersOK
  <2>5. x # d
    OBVIOUS
  <2> QED
    BY <1>2, <1>5, <2>4, <2>5
<1>6. Hands' \cap deleted' = {}
  BY <1>1, <1>3, <1>4, <1>5
<1>7. NullModule \notin deleted'
  BY <1>2 DEF Gone
<1>8. Intact'
  <2>1. Ids' = Ids /\ \A m : Held(m)' = Held(m)
    BY DEF Ids, Held
  <2>2. \A m \in Ids \ deleted' : Held(m) \cap deleted' = {}
    BY <1>2 DEF Gone, Intact
  <2> QED
    BY <2>1, <2>2 DEF Intact
<1> QED
  BY <1>6, <1>7, <1>8 DEF Gone

\* What is deleted at the end of an Include or of a block is in the hands of
\* nobody else, and in no tree.
LEMMA TopIsLoose ==
    ASSUME IInv, OwnInv, Waits("include")
    PROVE  /\ stack # <<>> /\ Top.me \in Ids \ {NullModule} /\ Top.me \in Hands
           /\ Free(built, Top.me) /\ Top.me \notin Mes(Pop)
<1>1. stack # <<>> /\ Top.fn = "include" /\ stack \in Seq(Frames)
  BY MeIsBuilt DEF Waits
<1>2. Real(Top.me) /\ Top.me \in Ids
  BY <1>1, TopIsCall, IncludeFrame DEF Real
<1>3. /\ Len(stack) \in DOMAIN stack /\ Top = stack[Len(stack)]
      /\ \A i \in DOMAIN Pop : i \in DOMAIN stack /\ i # Len(stack) /\ Pop[i] = stack[i]
  BY <1>1, PopSeq DEF Pop, Top
<1>4. /\ Free(built, Top.me)
      /\ \A i \in DOMAIN Pop : Pop[i].me # Top.me
  BY <1>2, <1>3 DEF OwnInv, OwnersOK
<1> QED
  BY <1>1, <1>2, <1>3, <1>4 DEF Hands, Mes, Real

LEMMA GivenIsLoose ==
    ASSUME IInv, OwnInv, pc = "return", returned # NULL, OpensList(stack)
    PROVE  /\ returned \in Ids \ {NullModule} /\ returned \in Hands
           /\ Free(built, returned) /\ returned \notin Mes(stack)
<1>1. Given = returned /\ returned \in Ids /\ Real(returned)
  BY DEF Given, IInv, Shape, OwnInv, Opened, Real
<1>2. Free(built, returned) /\ \A i \in DOMAIN stack : stack[i].me # returned
  BY <1>1 DEF OwnInv, OwnersOK
<1> QED
  BY <1>1, <1>2 DEF Hands, Mes, Real

LEMMA LooseIsDeletable ==
    ASSUME IInv, OwnInv, NullFree, Gone,
           NEW d \in Ids \ {NullModule}, d \in Hands, Free(built, d)
    PROVE  Deletable(d)
<1>1. TreeOK(built) /\ \A m \in Ids \ {NullModule} : AtMostOnce(built, m)
  BY DEF IInv, Shape, OwnInv, OwnersOK, Ids
<1>2. d \in Ids \ deleted /\ Intact
  BY DEF Gone
<1> QED
  BY <1>1, <1>2, DeletesOnce

LEMMA UnbalancedBlockGone ==
    ASSUME IInv, OwnInv, NullFree, Gone, Unlinked, UnbalancedBlock
    PROVE  Gone'
<1>1. /\ pc = "return" /\ stack # <<>> /\ Top.fn = "block" /\ UNCHANGED built
      /\ pc' = "return" /\ returned' = NULL /\ stack' = Pop
      /\ \/ returned = NULL /\ UNCHANGED deleted
         \/ returned # NULL /\ deleted' = deleted \cup Under(returned)
  BY DEF UnbalancedBlock, DeleteBlock, Return
<1>2. CASE UNCHANGED deleted
  BY <1>2, UnbalancedBlockMoves, KeepsGone
<1>3. CASE returned # NULL /\ deleted' = deleted \cup Under(returned)
  <2>1. OpensList(stack)
    BY <1>1 DEF OpensList, Top
  <2>2. Mes(Pop) \subseteq Mes(stack)
    BY <1>1, MeIsBuilt, MesPop DEF Pop
  <2> QED
    BY <1>1, <1>3, <2>1, <2>2, GivenIsLoose, DeletesGone
<1> QED
  BY <1>1, <1>2, <1>3

LEMMA IncludeEndsGone ==
    ASSUME IInv, OwnInv, NullFree, Gone, Unlinked, IncludeEnds
    PROVE  Gone'
<1>1. /\ Waits("include") /\ UNCHANGED built
      /\ \/ UNCHANGED deleted
         \/ /\ deleted' = deleted \cup Under(Top.me)
            /\ pc' = "return" /\ returned' = NULL /\ stack' = Pop
  BY DEF IncludeEnds, Return, IInv, Called
<1>2. CASE UNCHANGED deleted
  BY <1>2, IncludeEndsMoves, KeepsGone
<1>3. CASE /\ deleted' = deleted \cup Under(Top.me)
           /\ pc' = "return" /\ returned' = NULL /\ stack' = Pop
  BY <1>1, <1>3, TopIsLoose, DeletesGone
<1> QED
  BY <1>1, <1>2, <1>3

\* Nothing is deleted twice, or used when it is gone.
LEMMA NeverTwice ==
    ASSUME IInv, OwnInv, NullFree, Gone
    PROVE  ~DeletedTwice /\ ~UsedDeleted
<1>1. ASSUME UsedDeleted PROVE FALSE
  <2>1. stack # <<>> /\ Top.me \in deleted
    BY <1>1 DEF UsedDeleted
  <2>2. Top.me \in Mes(stack)
    BY <2>1, MeIsBuilt, MesPop DEF Top
  <2> QED
    BY <2>1, <2>2 DEF Gone, Hands
<1>2. ASSUME DeletedTwice PROVE FALSE
  <2>1. CASE /\ pc = "return" /\ stack # <<>> /\ returned # NULL
             /\ Top.fn \in {"include", "block"} /\ ~Deletable(returned)
    <3>1. OpensList(stack)
      BY <2>1 DEF OpensList, Top
    <3> QED
      BY <2>1, <3>1, GivenIsLoose, LooseIsDeletable
  <2>2. CASE pc = "include" /\ ~Deletable(Top.me)
    <3>1. Waits("include")
      BY <2>2 DEF IInv, Called
    <3> QED
      BY <2>2, <3>1, TopIsLoose, LooseIsDeletable
  <2> QED
    BY <1>2, <2>1, <2>2 DEF DeletedTwice
<1> QED
  BY <1>1, <1>2

LEMMA InitGone == Init => GoneInv
<1> SUFFICES ASSUME Init PROVE Gone
  BY DEF GoneInv
<1>1. deleted = {} /\ pc = "getRoot"
  BY DEF Init
<1> QED
  BY <1>1 DEF Gone, Intact

LEMMA NextGone == IInv /\ OwnInv /\ Unlinked /\ GoneInv /\ [Next]_vars => GoneInv'
<1> SUFFICES ASSUME IInv, OwnInv, Unlinked, GoneInv, [Next]_vars PROVE GoneInv'
  OBVIOUS
<1>1. CASE UNCHANGED vars
  BY <1>1 DEF vars, GoneInv, Gone, Intact, NullFree, NoneIncluded, Hands, Mes, Given,
              Held, Ids, StatsOfNothing
<1>2. CASE Step
  <2> SUFFICES ASSUME NullFree', NoneIncluded' PROVE Gone'
    BY DEF GoneInv
  <2>1. Moves
    BY <1>2, StepMoves
  <2>2. NullFree /\ NoneIncluded
    BY <2>1, WasSo DEF Moves
  <2>3. Gone
    BY <2>2 DEF GoneInv
  <2>4. CASE Keeping
    BY <2>3, <2>4, KeepingMoves, KeepsGone
  <2>5. CASE IncludeTakes
    BY <2>3, <2>5, IncludeTakesMoves, KeepsGone
  <2>6. CASE UnbalancedBlock
    BY <2>2, <2>3, <2>6, UnbalancedBlockGone
  <2>7. CASE IncludeEnds
    BY <2>2, <2>3, <2>7, IncludeEndsGone
  <2>8. CASE DeletedTwice \/ UsedDeleted
    BY <2>2, <2>3, <2>8, NeverTwice
  <2>9. CASE StatsOutOfRange
    <3>1. /\ UNCHANGED <<stack, params, built, deleted, returned>>
          /\ pc' = "undefined" /\ StatsOfNothing /\ pc = "construct"
      BY <2>9 DEF StatsOutOfRange
    <3>2. Hands' \cap deleted = {}
      BY <2>1, <2>3, <3>1 DEF Gone, Hands, Mes, Given
    <3>3. Intact' /\ StatsOfNothing'
      BY <2>3, <3>1 DEF Gone, Intact, Held, Ids, StatsOfNothing
    <3> QED
      BY <2>3, <3>1, <3>2, <3>3 DEF Gone
  <2> QED
    BY <1>2, <2>4, <2>5, <2>6, <2>7, <2>8, <2>9 DEF Step, Keeping
<1>3. CASE Done
  BY <1>1, <1>3 DEF Done
<1> QED
  BY <1>1, <1>2, <1>3 DEF Next

\* For every text and every error in it: as long as no Include has been given a
\* root, and no chain holds the module that all ActivateModule share, nothing
\* that was deleted is held, filled, linked or deleted again, and the root that
\* is given is alive (configparser.cpp:333, module.cpp:43, modulelist.cpp:24).
THEOREM DeletedStaysGone == Spec => []DeletedIsGone
<1>1. Init => IInv /\ OwnInv /\ Unlinked /\ GoneInv
  BY IInvInit, InitOwned, InitUnlinked, InitGone
<1>2. IInv /\ OwnInv /\ Unlinked /\ GoneInv /\ [Next]_vars
        => (IInv /\ OwnInv /\ Unlinked /\ GoneInv)'
  BY IInvNext, NextOwned, NextUnlinked, NextGone
<1>3. IInv /\ OwnInv /\ GoneInv => DeletedIsGone
  <2> SUFFICES ASSUME IInv, OwnInv, GoneInv, NoneIncluded, Owners(NullModule) = {}
               PROVE  /\ pc = "undefined" => StatsOfNothing
                      /\ \A i \in DOMAIN stack : stack[i].me \notin deleted
                      /\ \A m \in Ids \ deleted : Held(m) \cap deleted = {}
                      /\ NothingDangling
    BY DEF DeletedIsGone, NoneIncluded
  <2>1. NullFree
    BY FreeIsUnowned, HeldIsNotFree DEF NullFree
  <2>2. Gone
    BY <2>1 DEF GoneInv
  <2>3. /\ pc = "undefined" => StatsOfNothing
        /\ \A i \in DOMAIN stack : stack[i].me \notin deleted
        /\ \A m \in Ids \ deleted : Held(m) \cap deleted = {}
    BY <2>2 DEF Gone, Hands, Mes, Intact
  <2>4. ASSUME Finished, returned # NULL PROVE Under(returned) \cap deleted = {}
    <3>1. returned \in Ids /\ TreeOK(built)
      BY <2>4 DEF IInv, Shape
    <3>2. returned \notin deleted
      BY <2>2, <2>4 DEF Gone, Hands, Given, Finished
    <3> DEFINE S == Ids \ deleted
    <3>3. \A m \in Ids : Held(m) \subseteq Ids
      BY DEF Held, Ids
    <3>4. returned \in S /\ \A k \in S : Held(k) \subseteq S
      BY <2>3, <3>1, <3>2, <3>3
    <3> HIDE DEF S
    <3>5. Under(returned) \subseteq S
      BY <3>1, <3>4, UnderIsWithin
    <3> QED
      BY <3>5 DEF S
  <2> QED
    BY <2>3, <2>4 DEF NothingDangling
<1> QED
  BY <1>1, <1>2, <1>3, PTL DEF Spec

-----------------------------------------------------------------------------
(* What a step does, whatever it reads *)

SameCall(f, h) ==
    h.fn = f.fn /\ h.me = f.me /\ (f.fn = "include" => h.reader = f.reader)

\* Modules and calls are the same, and no module is being returned.
Stays ==
    /\ UNCHANGED built /\ Given' = NULL
    /\ DOMAIN stack' = DOMAIN stack
    /\ \A i \in DOMAIN stack : SameCall(stack[i], stack'[i])
    /\ ~Real(Given) \/ pc' = "undefined"

\* A new module is of no place in the configuration, or of that of its first token.
NewModule(m) ==
    /\ m \in Modules /\ m.next = NULL /\ m.list = <<>>
    /\ \/ m.at = 0
       \/ ServerOrPath /\ m.at = Place
       \/ pc = "construct" /\ m.at = params.at

\* A module is made, and a call waits with it.
Makes ==
    \E m, f : \E frames \in {stack, Append(stack, [fn |-> "block", me |-> NULL])} :
        /\ NewModule(m) /\ built' = Append(built, m)
        /\ f \in Frames /\ f.me = Len(built) + 1 /\ f.fn # "block"
        /\ f.fn = "list" => m.at = 0 /\ (frames = stack => pc = "getRoot")
        /\ f.fn # "list" => frames = stack
        /\ f.fn = "include" => Include
        /\ stack' = Append(frames, f)
        /\ pc # "return" /\ pc' # "return"

\* A module is made, and lost because of an error.
Loses ==
    \E m : /\ NewModule(m) /\ built' = Append(built, m)
           /\ UNCHANGED stack /\ pc # "return" /\ Given' = NULL
           /\ pc' = "return" /\ reader'.hasErrors

\* A call returns the list it has filled, or there is an error.
Pops ==
    /\ stack # <<>> /\ UNCHANGED built /\ stack' = Pop /\ pc' = "return"
    /\ \/ Top.fn = "list" /\ pc # "return" /\ returned' = Top.me
       \/ returned' = NULL /\ reader'.hasErrors

\* A list takes what is returned.
Gets ==
    /\ stack # <<>> /\ Top.fn \in {"list", "include"} /\ Top.me \in Ids
    /\ pc = "return" /\ Real(returned) /\ returned \in Ids
    /\ UNCHANGED stack /\ Given' = NULL
    /\ built' = [built EXCEPT ![Top.me].list = Append(built[Top.me].list, returned)]

\* So does a module of a chain, which is returned.
Links ==
    /\ stack # <<>> /\ Top.fn = "chain" /\ Top.me \in Ids
    /\ pc = "return" /\ returned \in Ids \cup {NULL}
    /\ pc' = "return" /\ returned' = Top.me /\ stack' = Pop
    /\ built' = [built EXCEPT ![Top.me].next = returned]

\* The chain of a list begins, which a block has given or an Include has filled.
Turns ==
    \E m : /\ stack # <<>> /\ UNCHANGED built /\ CallNextModule(m, Pop)
           /\ \/ Top.fn = "block" /\ pc = "return" /\ m = returned /\ Real(m)
              \/ Top.fn = "include" /\ pc # "return" /\ m = Top.me /\ reader' = Top.reader

\* The chain of Module::null begins.
Activates ==
    pc # "return" /\ UNCHANGED built /\ CallNextModule(NullModule, stack)

Kinds == Stays \/ Makes \/ Loses \/ Pops \/ Gets \/ Links \/ Turns \/ Activates

LEMMA SameCalls ==
    ASSUME UNCHANGED stack
    PROVE  DOMAIN stack' = DOMAIN stack /\ \A i \in DOMAIN stack : SameCall(stack[i], stack'[i])
  BY DEF SameCall

\* A step with nothing but reading.
LEMMA ReadsStay ==
    ASSUME UNCHANGED <<stack, built>>, pc' = "return" => returned' = NULL,
           ~Real(Given) \/ pc' = "undefined"
    PROVE  Stays
  BY SameCalls DEF Stays, Given

LEMMA ReadingKind ==
    ASSUME \/ CannotOpen \/ Identifier \/ ReadParameters \/ Positional \/ Named
           \/ Unexpected \/ GetNextModule
    PROVE  Stays
<1>1. UNCHANGED <<stack, built>> /\ (pc' = "return" => returned' = NULL)
  BY ReadingOn
<1>2. pc # "return"
  BY DEF CannotOpen, Identifier, ReadParameters, Positional, Named, Unexpected, GetNextModule
<1>3. ~Real(Given)
  BY <1>2 DEF Given, Real
<1> QED
  BY <1>1, <1>3, ReadsStay

LEMMA FailingKind ==
    ASSUME StatsOutOfRange \/ DeletedTwice \/ UsedDeleted
    PROVE  Stays
<1>1. UNCHANGED <<stack, built>> /\ pc' = "undefined"
  BY DEF StatsOutOfRange, DeletedTwice, UsedDeleted
<1> QED
  BY <1>1, ReadsStay

LEMMA FillKind ==
    ASSUME IInv, NEW frames \in {stack, Append(stack, [fn |-> "block", me |-> NULL])},
           CallModuleList(frames), pc # "return", frames = stack => pc = "getRoot"
    PROVE  Makes
<1> DEFINE f == [fn |-> "list", me |-> Len(built) + 1]
           m == New("ModuleList", NoParams)
<1>1. m \in Modules /\ m.next = NULL /\ m.list = <<>>
  BY NewIsModule, NoParamsIsParams
<1>2. m.at = 0
  BY DEF New, NoParams
<1>3. built' = Append(built, m) /\ stack' = Append(frames, f) /\ pc' = "getModuleList"
  BY DEF CallModuleList, FillList
<1>4. f \in Frames /\ f.fn = "list" /\ f.me = Len(built) + 1
  <2>1. Len(built) + 1 \in Nat
    BY DEF IInv, Shape, TreeOK
  <2> QED
    BY <2>1 DEF Frames
<1> HIDE DEF f, m
<1>5. NewModule(m)
  BY <1>1, <1>2 DEF NewModule
<1> QED
  <2>1. m.at = 0
    BY <1>2 DEF m
  <2>2. f.fn = "list" => m.at = 0 /\ (frames = stack => pc = "getRoot")
    BY <2>1
  <2>3. pc # "return" /\ pc' # "return"
    BY <1>3
  <2>4. f.fn # "block"
    BY <1>4
  <2>5. \E r \in {stack, Append(stack, [fn |-> "block", me |-> NULL])} :
          /\ NewModule(m) /\ built' = Append(built, m)
          /\ f \in Frames /\ f.me = Len(built) + 1 /\ f.fn # "block"
          /\ f.fn = "list" => m.at = 0 /\ (r = stack => pc = "getRoot")
          /\ f.fn # "list" => r = stack
          /\ f.fn = "include" => Include
          /\ stack' = Append(r, f)
          /\ pc # "return" /\ pc' # "return"
    BY <1>3, <1>4, <1>5, <2>2, <2>3, <2>4, Zenon
  <2> QED
    BY <2>5, Zenon DEF Makes

LEMMA GetRootKind == IInv /\ GetRoot => Stays \/ Makes
<1> SUFFICES ASSUME IInv, GetRoot PROVE Stays \/ Makes
  OBVIOUS
<1>1. CASE Read(reader).ok
  BY <1>1, FillKind DEF GetRoot
<1>2. CASE ~Read(reader).ok
  BY <1>2, ReadsStay DEF GetRoot, Return, Given, Real
<1> QED
  BY <1>1, <1>2

LEMMA BlockKind == IInv /\ Block => Stays \/ Makes
<1> SUFFICES ASSUME IInv, Block PROVE Stays \/ Makes
  OBVIOUS
<1>a. Append(stack, [fn |-> "block", me |-> NULL]) # stack
  <2> DEFINE f == [fn |-> "block", me |-> NULL]
  <2>1. f \in Frames
    BY DEF Frames, NULL
  <2>2. stack \in Seq(Frames)
    BY DEF IInv, Shape, CallsOK
  <2> HIDE DEF f
  <2>3. Append(stack, f) # stack
    BY <2>1, <2>2
  <2> QED
    BY <2>3 DEF f
<1>1. CASE Read(reader).ok
  BY <1>1, <1>a, FillKind DEF Block
<1>2. CASE ~Read(reader).ok
  BY <1>2, ReadsStay DEF Block, Return, Given, Real
<1> QED
  BY <1>1, <1>2

LEMMA MakeKind ==
    ASSUME IInv, NEW m, NewModule(m), built' = Append(built, m),
           CallNextModule(Len(built) + 1, stack), pc # "return"
    PROVE  Makes
<1> DEFINE f == [fn |-> "chain", me |-> Len(built) + 1]
<1>1. f \in Frames /\ f.fn = "chain" /\ f.me = Len(built) + 1
  <2>1. Len(built) + 1 \in Nat
    BY DEF IInv, Shape, TreeOK
  <2> QED
    BY <2>1 DEF Frames
<1>2. stack' = Append(stack, f) /\ pc' = "getNextModule"
  BY DEF CallNextModule
<1> HIDE DEF f
<1> QED
  BY <1>1, <1>2 DEF Makes

LEMMA ConstructKind == IInv /\ Construct => Stays \/ Makes
<1> SUFFICES ASSUME IInv, Construct PROVE Stays \/ Makes
  OBVIOUS
<1> DEFINE name == IF reader.hasErrors THEN "fake" ELSE params.name
<1>1. params \in Params /\ params.name \in Names \cup {""} /\ pc = "construct"
  BY DEF IInv, Shape, Params, Construct
<1>2. name \in Names \cup {""}
  BY <1>1, NameAssumption
<1>3. \/ /\ built' = Append(built, New(name, params))
         /\ CallNextModule(Len(built) + 1, stack)
      \/ Return(NULL) /\ UNCHANGED <<stack, built>>
  BY DEF Construct
<1> HIDE DEF name
<1>4. CASE Return(NULL) /\ UNCHANGED <<stack, built>>
  BY <1>1, <1>4, ReadsStay DEF Return, Given, Real
<1>5. CASE /\ built' = Append(built, New(name, params))
           /\ CallNextModule(Len(built) + 1, stack)
  <2> DEFINE m == New(name, params)
  <2>1. m \in Modules /\ m.next = NULL /\ m.list = <<>>
    BY <1>1, <1>2, NewIsModule
  <2>2. m.at = params.at
    BY DEF New
  <2> HIDE DEF m
  <2>3. NewModule(m)
    BY <1>1, <2>1, <2>2 DEF NewModule
  <2> QED
    BY <1>1, <1>5, <2>3, MakeKind DEF m
<1> QED
  BY <1>3, <1>4, <1>5

LEMMA IncludeKind == IInv /\ Include => Makes
<1> SUFFICES ASSUME IInv, Include PROVE Makes
  OBVIOUS
<1> DEFINE m == New("Include", params)
<1>1. /\ params \in Params /\ params.name = "Include" /\ pc = "construct"
      /\ built' = Append(built, m) /\ pc' = "include" /\ reader \in Readers
  BY DEF Include, IInv, Shape, Idle
<1>2. m \in Modules /\ m.next = NULL /\ m.list = <<>>
  <2>1. params.name \in Names \cup {""}
    BY <1>1 DEF Params
  <2> QED
    BY <1>1, <2>1, NewIsModule
<1>a. m.at = params.at
  BY DEF New
<1>3. PICK error \in BOOLEAN :
        stack' = Append(stack, [fn |-> "include", me |-> Len(built) + 1,
                                files |-> params.positional, error |-> error,
                                reader |-> reader])
  BY DEF Include
<1> DEFINE f == [fn |-> "include", me |-> Len(built) + 1,
                 files |-> params.positional, error |-> error, reader |-> reader]
<1>4. f \in Frames /\ f.fn = "include" /\ f.me = Len(built) + 1
  <2>a. Len(built) + 1 \in Nat
    BY DEF IInv, Shape, TreeOK
  <2>b. params.positional \in Seq(Texts)
    BY <1>1 DEF Params
  <2>1. Len(built) + 1 \in Nat /\ params.positional \in Seq(Texts)
    BY <2>a, <2>b
  <2> QED
    BY <1>1, <2>1 DEF Frames
<1> HIDE DEF f, m
<1>5. NewModule(m) /\ stack' = Append(stack, f)
  BY <1>1, <1>2, <1>a, <1>3 DEF NewModule, f
<1> QED
  BY <1>1, <1>4, <1>5 DEF Makes

LEMMA ActivateKind == Activate => Stays \/ Activates
<1> SUFFICES ASSUME Activate PROVE Stays \/ Activates
  OBVIOUS
<1>1. /\ pc = "construct" /\ UNCHANGED built
      /\ \/ CallNextModule(NullModule, stack)
         \/ Return(NULL) /\ UNCHANGED stack
  BY DEF Activate
<1>2. CASE CallNextModule(NullModule, stack)
  BY <1>1, <1>2 DEF Activates
<1>3. CASE Return(NULL) /\ UNCHANGED stack
  BY <1>1, <1>3, ReadsStay DEF Return, Given, Real
<1> QED
  BY <1>1, <1>2, <1>3

\* What getServerOrPath reads: the token behind the bracket, the name, one
\* bracket, the last one, and what is behind that.
SPFirst == Read(reader)
SPName == IF SPFirst.t = "[" THEN Read(SPFirst) ELSE SPFirst
SPBracket == Need(SPName, "]")
SPEnd == IF SPFirst.t = "[" THEN Need(SPBracket, "]") ELSE SPBracket
SPBehind == Read(Resume(SPEnd))
SPModule == New(IF SPEnd.hasErrors THEN "fake"
                ELSE IF SPFirst.t = "[" THEN "[[" ELSE "[",
                [NoParams EXCEPT !.positional = <<Text(SPName.t)>>, !.at = Place])

\* What is read behind the first token.
SPFrom(first) ==
    \E name \in {IF first.t = "[" THEN Read(first) ELSE first} :
    \E bracket \in {Need(name, "]")} :
    \E s \in {IF first.t = "[" THEN Need(bracket, "]") ELSE bracket} :
    \E behind \in {Read(Resume(s))} :
        /\ reader' = Resume(behind)
        /\ built' =
             IF ~s.ok THEN built
             ELSE Append(built, New(IF s.hasErrors THEN "fake"
                                    ELSE IF first.t = "[" THEN "[[" ELSE "[",
                                    [NoParams EXCEPT !.positional = <<Text(name.t)>>,
                                                     !.at = Place]))
        /\ IF s.ok /\ behind.ok
           THEN CallNextModule(Len(built) + 1, stack) /\ UNCHANGED returned
           ELSE Return(NULL) /\ UNCHANGED stack

LEMMA ServerOrPathParts ==
    ASSUME ServerOrPath
    PROVE  /\ pc = "getModule" /\ reader.t = "["
           /\ reader' = Resume(SPBehind)
           /\ built' = IF ~SPEnd.ok THEN built ELSE Append(built, SPModule)
           /\ IF SPEnd.ok /\ SPBehind.ok
              THEN CallNextModule(Len(built) + 1, stack) /\ UNCHANGED returned
              ELSE Return(NULL) /\ UNCHANGED stack
           /\ UNCHANGED <<input, params, deleted, registered>>
<1>0. \E first \in {Read(reader)} : SPFrom(first)
  BY ZenonT(30) DEF ServerOrPath, SPFrom
<1>a. SPFrom(SPFirst)
  BY <1>0 DEF SPFirst
<1>1. \E name \in {IF SPFirst.t = "[" THEN Read(SPFirst) ELSE SPFirst} :
      \E bracket \in {Need(name, "]")} :
      \E s \in {IF SPFirst.t = "[" THEN Need(bracket, "]") ELSE bracket} :
      \E behind \in {Read(Resume(s))} :
          /\ reader' = Resume(behind)
          /\ built' =
               IF ~s.ok THEN built
               ELSE Append(built, New(IF s.hasErrors THEN "fake"
                                      ELSE IF SPFirst.t = "[" THEN "[[" ELSE "[",
                                      [NoParams EXCEPT !.positional = <<Text(name.t)>>,
                                                       !.at = Place]))
          /\ IF s.ok /\ behind.ok
             THEN CallNextModule(Len(built) + 1, stack) /\ UNCHANGED returned
             ELSE Return(NULL) /\ UNCHANGED stack
  BY <1>a, Zenon DEF SPFrom
<1>2. \E bracket \in {Need(SPName, "]")} :
      \E s \in {IF SPFirst.t = "[" THEN Need(bracket, "]") ELSE bracket} :
      \E behind \in {Read(Resume(s))} :
          /\ reader' = Resume(behind)
          /\ built' =
               IF ~s.ok THEN built
               ELSE Append(built, New(IF s.hasErrors THEN "fake"
                                      ELSE IF SPFirst.t = "[" THEN "[[" ELSE "[",
                                      [NoParams EXCEPT !.positional = <<Text(SPName.t)>>,
                                                       !.at = Place]))
          /\ IF s.ok /\ behind.ok
             THEN CallNextModule(Len(built) + 1, stack) /\ UNCHANGED returned
             ELSE Return(NULL) /\ UNCHANGED stack
  BY <1>1, Zenon DEF SPName
<1>3. \E s \in {IF SPFirst.t = "[" THEN Need(SPBracket, "]") ELSE SPBracket} :
      \E behind \in {Read(Resume(s))} :
          /\ reader' = Resume(behind)
          /\ built' =
               IF ~s.ok THEN built
               ELSE Append(built, New(IF s.hasErrors THEN "fake"
                                      ELSE IF SPFirst.t = "[" THEN "[[" ELSE "[",
                                      [NoParams EXCEPT !.positional = <<Text(SPName.t)>>,
                                                       !.at = Place]))
          /\ IF s.ok /\ behind.ok
             THEN CallNextModule(Len(built) + 1, stack) /\ UNCHANGED returned
             ELSE Return(NULL) /\ UNCHANGED stack
  BY <1>2, Zenon DEF SPBracket
<1>4. \E behind \in {Read(Resume(SPEnd))} :
          /\ reader' = Resume(behind)
          /\ built' = IF ~SPEnd.ok THEN built ELSE Append(built, SPModule)
          /\ IF SPEnd.ok /\ behind.ok
             THEN CallNextModule(Len(built) + 1, stack) /\ UNCHANGED returned
             ELSE Return(NULL) /\ UNCHANGED stack
  BY <1>3, Zenon DEF SPEnd, SPModule
<1>5. /\ reader' = Resume(SPBehind)
      /\ built' = IF ~SPEnd.ok THEN built ELSE Append(built, SPModule)
      /\ IF SPEnd.ok /\ SPBehind.ok
         THEN CallNextModule(Len(built) + 1, stack) /\ UNCHANGED returned
         ELSE Return(NULL) /\ UNCHANGED stack
  BY <1>4, Zenon DEF SPBehind
<1>6. /\ pc = "getModule" /\ reader.t = "["
      /\ UNCHANGED <<input, params, deleted, registered>>
  BY DEF ServerOrPath
<1> QED
  BY <1>5, <1>6

LEMMA ServerOrPathGood ==
    ASSUME IInv
    PROVE  /\ Later(reader, SPFirst) /\ Later(SPFirst, SPName)
           /\ Later(SPName, SPBracket) /\ Later(SPBracket, SPEnd)
           /\ Later(SPEnd, Resume(SPEnd)) /\ Later(Resume(SPEnd), SPBehind)
<1>1. Good(reader)
  BY IdleIsGood DEF IInv, Shape
<1>2. Later(reader, SPFirst)
  BY <1>1, ReadGood DEF SPFirst
<1>3. Good(SPFirst)
  BY <1>2 DEF Later
<1>4. Later(SPFirst, SPName)
  BY <1>3, ReadGood DEF SPName, Later
<1>5. Good(SPName)
  BY <1>4 DEF Later
<1>6. Later(SPName, SPBracket)
  BY <1>5, NeedGood DEF SPBracket
<1>7. Good(SPBracket)
  BY <1>6 DEF Later
<1>8. Later(SPBracket, SPEnd)
  BY <1>7, NeedGood DEF SPEnd, Later
<1>9. Good(SPEnd)
  BY <1>8 DEF Later
<1>10. Later(SPEnd, Resume(SPEnd)) /\ Good(Resume(SPEnd))
  BY <1>9, ResumeGood DEF Later
<1>11. Later(Resume(SPEnd), SPBehind)
  BY <1>10, ReadGood DEF SPBehind
<1> QED
  BY <1>2, <1>4, <1>6, <1>8, <1>10, <1>11

LEMMA SPModuleIsNew ==
    ASSUME IInv, ServerOrPath
    PROVE  NewModule(SPModule) /\ SPModule.at = Place
<1> DEFINE p == [NoParams EXCEPT !.positional = <<Text(SPName.t)>>, !.at = Place]
<1>1. p \in Params /\ p.at = Place
  <2>1. Place \in Nat
    BY DEF Place, IInv, Shape, Idle, Readers
  <2>2. <<Text(SPName.t)>> \in Seq(Texts)
    BY TextIsText
  <2> QED
    BY <2>1, <2>2, NoParamsIsParams DEF Params, NoParams
<1> HIDE DEF p
<1> DEFINE kind == IF SPEnd.hasErrors THEN "fake" ELSE IF SPFirst.t = "[" THEN "[[" ELSE "["
<1>2. kind \in {"fake", "[", "[["}
  OBVIOUS
<1>3. SPModule = New(kind, p)
  BY DEF SPModule, p
<1> HIDE DEF kind
<1>4. SPModule \in Modules /\ SPModule.next = NULL /\ SPModule.list = <<>>
  BY <1>1, <1>2, <1>3, NameAssumption, NewIsModule
<1>5. SPModule.at = Place
  BY <1>1, <1>3 DEF New
<1> QED
  BY <1>4, <1>5 DEF NewModule

LEMMA ServerOrPathKind == IInv /\ ServerOrPath => Stays \/ Makes \/ Loses
<1> SUFFICES ASSUME IInv, ServerOrPath PROVE Stays \/ Makes \/ Loses
  OBVIOUS
<1>1. /\ pc = "getModule" /\ reader' = Resume(SPBehind)
      /\ built' = IF ~SPEnd.ok THEN built ELSE Append(built, SPModule)
      /\ IF SPEnd.ok /\ SPBehind.ok THEN CallNextModule(Len(built) + 1, stack)
         ELSE Return(NULL) /\ UNCHANGED stack
  BY ServerOrPathParts
<1>2. NewModule(SPModule)
  BY <1>1, SPModuleIsNew
<1>3. CASE ~SPEnd.ok
  BY <1>1, <1>3, ReadsStay DEF Return, Given, Real
<1>4. CASE SPEnd.ok /\ SPBehind.ok
  BY <1>1, <1>2, <1>4, MakeKind
<1>5. CASE SPEnd.ok /\ ~SPBehind.ok
  <2>1. Good(SPBehind)
    BY ServerOrPathGood DEF Later
  <2>2. reader'.hasErrors
    BY <1>1, <1>5, <2>1, StopNoted
  <2> QED
    BY <1>1, <1>2, <1>5, <2>2 DEF Loses, Return, Given
<1> QED
  BY <1>3, <1>4, <1>5

LEMMA GetModuleListKind == IInv /\ GetModuleList => Stays \/ Pops
<1> SUFFICES ASSUME IInv, GetModuleList PROVE Stays \/ Pops
  OBVIOUS
<1>1. /\ pc = "getModuleList" /\ stack # <<>> /\ Top.fn = "list" /\ UNCHANGED built
  BY DEF GetModuleList, IInv, Called, Waits
<1>2. CASE reader.t \in {"}", "END_OF_FILE"}
  BY <1>1, <1>2 DEF GetModuleList, Return, Pops
<1>3. CASE reader.t \notin {"}", "END_OF_FILE"}
  BY <1>1, <1>3, ReadsStay DEF GetModuleList, Given, Real
<1> QED
  BY <1>2, <1>3

LEMMA ListTakesKind == IInv /\ OwnInv /\ ListTakes => Stays \/ Gets
<1> SUFFICES ASSUME IInv, OwnInv, ListTakes PROVE Stays \/ Gets
  OBVIOUS
<1>1. /\ pc = "return" /\ stack # <<>> /\ Top.fn = "list" /\ returned # NULL
      /\ pc' = "getModuleList" /\ UNCHANGED <<stack, returned>>
      /\ built' = IF returned = NullModule THEN built
                  ELSE [built EXCEPT ![Top.me].list = Append(built[Top.me].list, returned)]
  BY DEF ListTakes, ListPuts
<1>2. CASE returned = NullModule
  BY <1>1, <1>2, ReadsStay DEF Given, Real
<1>3. CASE returned # NullModule
  <2>1. Top.me \in Ids /\ returned \in Ids
    BY <1>1, MeIsBuilt, TopIsCall DEF Ids
  <2> QED
    BY <1>1, <1>3, <2>1 DEF Gets, Given, Real
<1> QED
  BY <1>2, <1>3

LEMMA DropListKind == IInv /\ DropList => Pops
<1> SUFFICES ASSUME IInv, DropList PROVE Pops
  OBVIOUS
<1>1. reader'.hasErrors
  BY DEF DropList, IInv, Noted, Waits
<1> QED
  BY <1>1 DEF DropList, Pops

LEMMA EndBlockKind == IInv /\ OwnInv /\ EndBlock => Pops \/ Turns
<1> SUFFICES ASSUME IInv, OwnInv, EndBlock PROVE Pops \/ Turns
  OBVIOUS
<1>1. /\ pc = "return" /\ stack # <<>> /\ Top.fn = "block" /\ UNCHANGED built
      /\ reader' = Resume(Read(reader))
      /\ IF Read(reader).ok /\ returned # NULL THEN CallNextModule(returned, Pop)
         ELSE Return(NULL) /\ stack' = Pop
  BY DEF EndBlock
<1>2. CASE Read(reader).ok /\ returned # NULL
  <2>1. returned # NullModule
    BY <1>1 DEF OwnInv, Opened, OpensList, Top
  <2> QED
    BY <1>1, <1>2, <2>1 DEF Turns, Real
<1>3. CASE ~(Read(reader).ok /\ returned # NULL)
  <2>1. Later(reader, Read(reader)) /\ Good(reader)
    BY IdleIsGood, ReadGood DEF IInv, Shape
  <2>2. returned = NULL => reader.hasErrors
    BY <1>1 DEF IInv, Noted, Waits
  <2>3. Read(reader).hasErrors /\ Good(Read(reader))
    BY <1>3, <2>1, <2>2 DEF Later, Good
  <2>4. reader'.hasErrors
    BY <1>1, <2>3, ResumeGood
  <2> QED
    BY <1>1, <1>3, <2>4 DEF Pops, Return
<1> QED
  BY <1>2, <1>3

LEMMA UnbalancedBlockKind == IInv /\ UnbalancedBlock => Pops
<1> SUFFICES ASSUME IInv, UnbalancedBlock PROVE Pops
  OBVIOUS
<1>1. reader'.hasErrors
  BY PrintErrorIdle DEF UnbalancedBlock, DeleteBlock, IInv, Shape
<1> QED
  BY <1>1 DEF UnbalancedBlock, DeleteBlock, Pops, Return

LEMMA ChainKind == IInv /\ OwnInv /\ Chain => Links
<1> SUFFICES ASSUME IInv, OwnInv, Chain PROVE Links
  OBVIOUS
<1>1. /\ pc = "return" /\ stack # <<>> /\ Top.fn = "chain"
      /\ built' = [built EXCEPT ![Top.me].next = returned]
      /\ pc' = "return" /\ returned' = Top.me /\ stack' = Pop
  BY DEF Chain, EndChain, Return
<1>2. Top.me \in Ids /\ returned \in Ids \cup {NULL}
  BY <1>1, MeIsBuilt, TopIsCall DEF FrameOK, Ids
<1> QED
  BY <1>1, <1>2 DEF Links

\* The frame of an Include notes what it has read.
LEMMA NoteStays ==
    ASSUME IInv, Waits("include"), UNCHANGED built, Given' = NULL, ~Real(Given),
           NEW f, SameCall(Top, f), stack' = [stack EXCEPT ![Len(stack)] = f]
    PROVE  Stays
<1>1. stack \in Seq(Frames) /\ Top = stack[Len(stack)]
  BY DEF IInv, Shape, CallsOK, Top
<1>2. /\ DOMAIN stack' = DOMAIN stack
      /\ \A i \in DOMAIN stack : stack'[i] = stack[i] \/ (i = Len(stack) /\ stack'[i] = f)
  BY <1>1
<1>3. \A i \in DOMAIN stack : SameCall(stack[i], stack'[i])
  BY <1>1, <1>2 DEF SameCall
<1> QED
  BY <1>2, <1>3 DEF Stays

LEMMA IncludeFileKind == IInv /\ IncludeFile => Stays
<1> SUFFICES ASSUME IInv, IncludeFile PROVE Stays
  OBVIOUS
<1> DEFINE f == [Top EXCEPT !.files = Tail(Top.files)]
<1>1. /\ pc = "include" /\ Waits("include") /\ pc' = "getRoot" /\ UNCHANGED built
  BY DEF IncludeFile, IInv, Called, Waits
<1>2. SameCall(Top, f)
  <2>1. Top \in [fn : {"include"}, me : Nat, files : Seq(Texts), error : BOOLEAN,
                 reader : Readers]
    BY <1>1, IncludeFrame DEF FrameOK, Frames
  <2> QED
    BY <2>1 DEF SameCall
<1>3. stack' = [stack EXCEPT ![Len(stack)] = f]
  BY DEF IncludeFile, Top
<1> HIDE DEF f
<1> QED
  BY <1>1, <1>2, <1>3, NoteStays DEF Given, Real

LEMMA IncludeTakesKind == IInv /\ OwnInv /\ IncludeTakes => Stays \/ Gets
<1> SUFFICES ASSUME IInv, OwnInv, IncludeTakes PROVE Stays \/ Gets
  OBVIOUS
<1> DEFINE f == [Top EXCEPT !.error = TRUE]
<1>1. /\ pc = "return" /\ Waits("include") /\ stack # <<>> /\ pc' = "include"
      /\ \/ /\ returned = NULL /\ UNCHANGED built
            /\ stack' = [stack EXCEPT ![Len(stack)] = f]
         \/ /\ returned # NULL /\ UNCHANGED stack
            /\ built' = [built EXCEPT ![Top.me].list = Append(built[Top.me].list, returned)]
  BY DEF IncludeTakes, Waits, Top
<1>2. SameCall(Top, f)
  <2>1. Top \in [fn : {"include"}, me : Nat, files : Seq(Texts), error : BOOLEAN,
                 reader : Readers]
    BY <1>1, IncludeFrame DEF FrameOK, Frames
  <2> QED
    BY <2>1 DEF SameCall
<1>3. Given' = NULL
  BY <1>1 DEF Given
<1> HIDE DEF f
<1>4. CASE returned = NULL /\ UNCHANGED built /\ stack' = [stack EXCEPT ![Len(stack)] = f]
  BY <1>1, <1>2, <1>3, <1>4, NoteStays DEF Given, Real
<1>5. CASE /\ returned # NULL /\ UNCHANGED stack
           /\ built' = [built EXCEPT ![Top.me].list = Append(built[Top.me].list, returned)]
  <2>1. Top.me \in Ids /\ returned \in Ids
    BY <1>1, <1>5, MeIsBuilt, IncludeFrame DEF Ids
  <2>2. returned # NullModule
    BY <1>1 DEF OwnInv, Opened, OpensList, Top, Waits
  <2> QED
    BY <1>1, <1>3, <1>5, <2>1, <2>2 DEF Gets, Real, Waits
<1> QED
  BY <1>1, <1>4, <1>5

LEMMA IncludeEndsKind == IInv /\ IncludeEnds => Pops \/ Turns
<1> SUFFICES ASSUME IInv, IncludeEnds PROVE Pops \/ Turns
  OBVIOUS
<1>1. /\ pc = "include" /\ Waits("include") /\ stack # <<>> /\ UNCHANGED built
      /\ \/ /\ reader' = PrintError(Top.reader)
            /\ pc' = "return" /\ returned' = NULL /\ stack' = Pop
         \/ CallNextModule(Top.me, Pop) /\ reader' = Top.reader
  BY DEF IncludeEnds, IInv, Called, Waits, Return
<1>2. PrintError(Top.reader).hasErrors
  BY <1>1, IncludeFrame, PrintErrorIdle
<1> QED
  BY <1>1, <1>2 DEF Pops, Turns, Waits

LEMMA StepKinds == IInv /\ OwnInv /\ Step => Kinds
<1> SUFFICES ASSUME IInv, OwnInv, Step PROVE Kinds
  OBVIOUS
<1>1. CASE CannotOpen \/ Identifier \/ ReadParameters \/ Positional \/ Named \/ Unexpected
           \/ GetNextModule \/ StatsOutOfRange \/ DeletedTwice \/ UsedDeleted
  BY <1>1, ReadingKind, FailingKind DEF Kinds
<1>2. CASE GetRoot \/ Block \/ Construct \/ Include \/ Activate \/ ServerOrPath
  BY <1>2, GetRootKind, BlockKind, ConstructKind, IncludeKind, ActivateKind,
     ServerOrPathKind DEF Kinds
<1>3. CASE GetModuleList \/ ListTakes \/ DropList \/ EndBlock \/ UnbalancedBlock \/ Chain
           \/ IncludeFile \/ IncludeTakes \/ IncludeEnds
  BY <1>3, GetModuleListKind, ListTakesKind, DropListKind, EndBlockKind,
     UnbalancedBlockKind, ChainKind, IncludeFileKind, IncludeTakesKind,
     IncludeEndsKind DEF Kinds
<1> QED
  BY <1>1, <1>2, <1>3 DEF Step

-----------------------------------------------------------------------------
(* What is above a module *)

\* What the calls below the i-th of s wait with.
Over(s, i) == {s[j].me : j \in 1..(i - 1)} \ {NULL}

\* A module m of b holds k.
Holds(b, m, k) == b[m].next = k \/ \E i \in DOMAIN b[m].list : b[m].list[i] = k

\* g gives the modules above each one: what the calls wait with that were under
\* way when it was made.  It stays right when a call puts the module into the
\* tree.
PlacesOf(g, s, b, r) ==
    /\ \A i \in DOMAIN s : Real(s[i].me) => g[s[i].me] = Over(s, i)
    /\ Real(r) => g[r] = Mes(s) \ {NULL}
    /\ \A m \in DOMAIN b, k \in DOMAIN b \ {NullModule} : Holds(b, m, k) =>
          IF m = NullModule THEN NullModule \in g[k] ELSE g[k] = g[m] \cup {m}
    /\ \A m \in DOMAIN b : /\ g[m] \subseteq 1..(m - 1)
                           /\ \A k \in g[m] : g[k] \subseteq g[m]

\* h is g, and gives what is above the modules that have been made since.
Extends(g, b, h, c, s) ==
    /\ \A m \in DOMAIN b : h[m] = g[m]
    /\ \A m \in DOMAIN c \ DOMAIN b : h[m] = Mes(s) \ {NULL}

LEMMA OverPush ==
    ASSUME NEW s \in Seq(Frames), NEW f \in Frames
    PROVE  /\ \A i \in DOMAIN s : Over(Append(s, f), i) = Over(s, i)
           /\ Over(Append(s, f), Len(s) + 1) = Mes(s) \ {NULL}
           /\ DOMAIN Append(s, f) = 1..(Len(s) + 1) /\ DOMAIN s = 1..Len(s)
           /\ Append(s, f)[Len(s) + 1] = f
           /\ \A i \in DOMAIN s : Append(s, f)[i] = s[i]
           /\ Len(s) \in Nat /\ Len(s) + 1 \notin DOMAIN s
           /\ DOMAIN Append(s, f) = DOMAIN s \cup {Len(s) + 1}
<1> DEFINE r == Append(s, f)
<1>1. /\ Len(s) \in Nat /\ DOMAIN s = 1..Len(s) /\ DOMAIN r = 1..(Len(s) + 1)
      /\ r[Len(s) + 1] = f /\ \A i \in DOMAIN s : r[i] = s[i]
  OBVIOUS
<1> HIDE DEF r
<1>2. \A i \in DOMAIN s : 1..(i - 1) \subseteq DOMAIN s
  BY <1>1
<1>3. \A i \in DOMAIN s : Over(r, i) = Over(s, i)
  BY <1>1, <1>2 DEF Over
<1>4. Over(r, Len(s) + 1) = Mes(s) \ {NULL}
  <2>1. 1..(Len(s) + 1 - 1) = DOMAIN s
    BY <1>1
  <2> QED
    BY <1>1, <2>1 DEF Over, Mes
<1>5. Len(s) + 1 \notin DOMAIN s /\ DOMAIN r = DOMAIN s \cup {Len(s) + 1}
  BY <1>1
<1> QED
  BY <1>1, <1>3, <1>4, <1>5 DEF r

LEMMA OverPop ==
    ASSUME NEW s \in Seq(Frames), s # <<>>
    PROVE  LET r == SubSeq(s, 1, Len(s) - 1)
           IN  /\ \A i \in DOMAIN r : i \in DOMAIN s /\ r[i] = s[i] /\ Over(r, i) = Over(s, i)
               /\ Mes(r) \ {NULL} = Over(s, Len(s))
               /\ Mes(s) = Mes(r) \cup {s[Len(s)].me}
               /\ Len(s) \in DOMAIN s
<1> DEFINE r == SubSeq(s, 1, Len(s) - 1)
<1>1. /\ Len(s) \in DOMAIN s /\ Len(s) \in Nat /\ DOMAIN s = 1..Len(s)
      /\ DOMAIN r = 1..(Len(s) - 1)
      /\ \A i \in DOMAIN r : i \in DOMAIN s /\ r[i] = s[i]
  BY PopSeq
<1> HIDE DEF r
<1>2. \A i \in DOMAIN r : 1..(i - 1) \subseteq DOMAIN r
  BY <1>1
<1>3. \A i \in DOMAIN r : Over(r, i) = Over(s, i)
  BY <1>1, <1>2 DEF Over
<1>4. Mes(r) \ {NULL} = Over(s, Len(s))
  BY <1>1 DEF Over, Mes
<1>5. DOMAIN s = DOMAIN r \cup {Len(s)}
  BY <1>1
<1>6. Mes(s) = Mes(r) \cup {s[Len(s)].me}
  BY <1>1, <1>5 DEF Mes
<1> QED
  BY <1>1, <1>3, <1>4, <1>6 DEF r

\* What was returned is held by a call.
LEMMA PushPlaces ==
    ASSUME NEW s \in Seq(Frames), NEW f \in Frames, NEW b, NEW g, PlacesOf(g, s, b, f.me)
    PROVE  PlacesOf(g, Append(s, f), b, NULL)
<1> DEFINE r == Append(s, f)
<1>1. /\ DOMAIN r = DOMAIN s \cup {Len(s) + 1} /\ Len(s) + 1 \notin DOMAIN s
      /\ \A i \in DOMAIN s : r[i] = s[i] /\ Over(r, i) = Over(s, i)
      /\ r[Len(s) + 1] = f /\ Over(r, Len(s) + 1) = Mes(s) \ {NULL}
  BY OverPush
<1> HIDE DEF r
<1>2. ASSUME NEW i \in DOMAIN r, Real(r[i].me) PROVE g[r[i].me] = Over(r, i)
  <2>1. CASE i \in DOMAIN s
    BY <1>1, <1>2, <2>1 DEF PlacesOf
  <2>2. CASE i = Len(s) + 1
    BY <1>1, <1>2, <2>2 DEF PlacesOf
  <2> QED
    BY <1>1, <2>1, <2>2
<1>3. PlacesOf(g, r, b, NULL)
  BY <1>2 DEF PlacesOf, Real
<1> QED
  BY <1>3 DEF r

\* What a call has held is returned.
LEMMA PopPlaces ==
    ASSUME NEW s \in Seq(Frames), s # <<>>, NEW b, NEW g, NEW r, PlacesOf(g, s, b, r)
    PROVE  LET q == SubSeq(s, 1, Len(s) - 1)
           IN  /\ PlacesOf(g, q, b, s[Len(s)].me)
               /\ PlacesOf(g, q, b, NULL)
               /\ s[Len(s)].me = NULL => PlacesOf(g, q, b, r)
<1> DEFINE q == SubSeq(s, 1, Len(s) - 1)
<1>1. /\ \A i \in DOMAIN q : i \in DOMAIN s /\ q[i] = s[i] /\ Over(q, i) = Over(s, i)
      /\ Mes(q) \ {NULL} = Over(s, Len(s))
      /\ Mes(s) = Mes(q) \cup {s[Len(s)].me}
      /\ Len(s) \in DOMAIN s
  BY OverPop
<1> HIDE DEF q
<1>2. \A i \in DOMAIN q : Real(q[i].me) => g[q[i].me] = Over(q, i)
  BY <1>1 DEF PlacesOf
<1>3. Real(s[Len(s)].me) => g[s[Len(s)].me] = Mes(q) \ {NULL}
  BY <1>1 DEF PlacesOf
<1>4. s[Len(s)].me = NULL => Mes(q) \ {NULL} = Mes(s) \ {NULL}
  BY <1>1
<1>5. /\ PlacesOf(g, q, b, s[Len(s)].me) /\ PlacesOf(g, q, b, NULL)
      /\ s[Len(s)].me = NULL => PlacesOf(g, q, b, r)
  BY <1>2, <1>3, <1>4 DEF PlacesOf, Real
<1> QED
  BY <1>5 DEF q

\* The calls hold what they have held, and nothing is returned.
LEMMA SamePlaces ==
    ASSUME NEW s, NEW q, DOMAIN q = DOMAIN s, s \in Seq(Frames),
           \A i \in DOMAIN s : q[i].me = s[i].me,
           NEW b, NEW g, NEW r, PlacesOf(g, s, b, r)
    PROVE  PlacesOf(g, q, b, NULL)
<1>1. DOMAIN s = 1..Len(s) /\ Len(s) \in Nat
  OBVIOUS
<1>2. \A i \in DOMAIN s : 1..(i - 1) \subseteq DOMAIN s
  BY <1>1
<1>3. \A i \in DOMAIN s : Over(q, i) = Over(s, i)
  BY <1>2 DEF Over
<1> QED
  BY <1>3 DEF PlacesOf, Real

\* A module is made, and returned.
LEMMA MakePlaces ==
    ASSUME NEW s, NEW b, TreeOK(b), \A i \in DOMAIN s : s[i].me \in DOMAIN b \cup {NULL},
           s \in Seq(Frames),
           NEW g, PlacesOf(g, s, b, NULL),
           NEW m \in Modules, m.next = NULL, m.list = <<>>
    PROVE  \E h : /\ PlacesOf(h, s, Append(b, m), Len(b) + 1)
                  /\ Extends(g, b, h, Append(b, m), s)
<1> DEFINE c == Append(b, m)
           n == Len(b) + 1
           h == [k \in 1..n |-> IF k = n THEN Mes(s) \ {NULL} ELSE g[k]]
<1>1. /\ b \in Seq(Modules) /\ Len(b) \in Nat /\ DOMAIN b = 1..Len(b) /\ n \in Nat
      /\ NullModule \in DOMAIN b
  BY DEF TreeOK
<1>2. /\ DOMAIN c = 1..n /\ c[n] = m /\ \A k \in DOMAIN b : c[k] = b[k]
  BY <1>1
<1>3. DOMAIN c = DOMAIN b \cup {n} /\ n \notin DOMAIN b
  BY <1>1, <1>2
<1>a. n # NULL /\ n # NullModule /\ NULL \notin DOMAIN b
  BY <1>1, <1>3 DEF NULL
<1>4. (\A k \in DOMAIN b : h[k] = g[k]) /\ h[n] = Mes(s) \ {NULL}
  BY <1>1, <1>3
<1>5. Mes(s) \ {NULL} \subseteq DOMAIN b
  BY DEF Mes
<1>b. DOMAIN b = 1..(n - 1)
  BY <1>1
<1> HIDE DEF c, n, h
<1>6. ASSUME NEW i \in DOMAIN s, Real(s[i].me) PROVE h[s[i].me] = Over(s, i)
  BY <1>4, <1>6 DEF PlacesOf, Real
<1>7. ASSUME NEW k \in DOMAIN c, NEW j \in DOMAIN c \ {NullModule}, Holds(c, k, j)
      PROVE  IF k = NullModule THEN NullModule \in h[j] ELSE h[j] = h[k] \cup {k}
  <2>1. k # n
    <3>1. j # NULL
      BY <1>3, <1>a
    <3> QED
      BY <1>2, <1>7, <3>1 DEF Holds
  <2>2. k \in DOMAIN b /\ c[k] = b[k]
    BY <1>2, <1>3, <2>1
  <2>3. j \in DOMAIN b
    BY <1>3, <1>7, <1>a, <2>2 DEF Holds, TreeOK
  <2> QED
    BY <1>4, <1>7, <2>2, <2>3 DEF PlacesOf, Holds
<1>8. ASSUME NEW k \in DOMAIN c
      PROVE  h[k] \subseteq 1..(k - 1) /\ \A j \in h[k] : h[j] \subseteq h[k]
  <2>1. CASE k \in DOMAIN b
    <3>1. g[k] \subseteq DOMAIN b
      BY <1>1, <2>1 DEF PlacesOf
    <3> QED
      BY <1>4, <2>1, <3>1 DEF PlacesOf
  <2>2. CASE k = n
    <3>1. h[k] = Mes(s) \ {NULL}
      BY <1>4, <2>2
    <3>2. ASSUME NEW j \in h[k] PROVE h[j] \subseteq h[k]
      <4>1. PICK i \in DOMAIN s : j = s[i].me
        BY <3>1 DEF Mes
      <4>2. j \in DOMAIN b /\ h[j] = g[j] /\ j # NULL
        BY <1>4, <1>5, <3>1
      <4>3. CASE Real(j)
        <5>1. h[j] = Over(s, i)
          BY <4>1, <4>3, <1>6
        <5>2. 1..(i - 1) \subseteq DOMAIN s
          <6>1. DOMAIN s = 1..Len(s) /\ Len(s) \in Nat
            OBVIOUS
          <6> QED
            BY <6>1
        <5> QED
          BY <3>1, <5>1, <5>2 DEF Over, Mes
      <4>4. CASE ~Real(j)
        <5>1. j = NullModule
          BY <4>2, <4>4 DEF Real
        <5>2. g[j] \subseteq 1..(j - 1)
          BY <4>2 DEF PlacesOf
        <5>3. g[j] = {}
          BY <5>1, <5>2 DEF NullModule
        <5> QED
          BY <4>2, <5>3
      <4> QED
        BY <4>3, <4>4
    <3>3. h[k] \subseteq 1..(k - 1)
      BY <1>5, <1>b, <2>2, <3>1
    <3> QED
      BY <3>2, <3>3
  <2> QED
    BY <1>3, <2>1, <2>2
<1>9. PlacesOf(h, s, c, n)
  BY <1>4, <1>6, <1>7, <1>8 DEF PlacesOf
<1>10. Extends(g, b, h, c, s)
  BY <1>3, <1>4 DEF Extends
<1> QED
  BY <1>9, <1>10 DEF c, n

\* What was returned is put into the tree, below what the last call waits with.
LEMMA GivePlaces ==
    ASSUME NEW s \in Seq(Frames), s # <<>>, NEW b, NEW g, NEW r, PlacesOf(g, s, b, r),
           NEW c, DOMAIN c = DOMAIN b, NEW k \in DOMAIN b, k = s[Len(s)].me, k # NULL,
           r \in DOMAIN b \cup {NULL}, NULL \notin DOMAIN b,
           \A m \in DOMAIN b \ {k} : c[m] = b[m],
           \A n \in DOMAIN b : Holds(c, k, n) => Holds(b, k, n) \/ n = r
    PROVE  PlacesOf(g, s, c, NULL)
<1>1. /\ Mes(s) \ {NULL} = Over(s, Len(s)) \cup {k} /\ Len(s) \in DOMAIN s
  BY OverPop
<1>2. ASSUME NEW m \in DOMAIN c, NEW n \in DOMAIN c \ {NullModule}, Holds(c, m, n)
      PROVE  IF m = NullModule THEN NullModule \in g[n] ELSE g[n] = g[m] \cup {m}
  <2>1. CASE Holds(b, m, n)
    BY <2>1 DEF PlacesOf
  <2>2. CASE ~Holds(b, m, n)
    <3>1. m = k /\ n = r
      BY <1>2, <2>2 DEF Holds
    <3>2. Real(n)
      BY <1>2 DEF Real
    <3>3. g[n] = Mes(s) \ {NULL}
      BY <3>1, <3>2 DEF PlacesOf
    <3>4. CASE m = NullModule
      BY <1>1, <3>1, <3>3, <3>4
    <3>5. CASE m # NullModule
      <4>1. g[m] = Over(s, Len(s))
        BY <1>1, <3>1, <3>5 DEF PlacesOf, Real
      <4> QED
        BY <1>1, <3>1, <3>3, <3>5, <4>1
    <3> QED
      BY <3>4, <3>5
  <2> QED
    BY <2>1, <2>2
<1> QED
  BY <1>2 DEF PlacesOf, Real

LEMMA ExtendsItself ==
    ASSUME NEW g, NEW b, NEW c, DOMAIN c = DOMAIN b, NEW s
    PROVE  Extends(g, b, g, c, s)
  BY DEF Extends

LEMMA MakesPlaces ==
    ASSUME IInv, OwnInv, Makes, NEW g, PlacesOf(g, stack, built, Given)
    PROVE  \E h : PlacesOf(h, stack', built', Given') /\ Extends(g, built, h, built', stack)
<1> DEFINE block == [fn |-> "block", me |-> NULL]
<1>0. PICK m, f : \E frames \in {stack, Append(stack, block)} :
        /\ NewModule(m) /\ built' = Append(built, m)
        /\ f \in Frames /\ f.me = Len(built) + 1
        /\ stack' = Append(frames, f)
        /\ pc # "return" /\ pc' # "return"
  BY DEF Makes
<1>1. PICK frames \in {stack, Append(stack, block)} :
        /\ NewModule(m) /\ built' = Append(built, m)
        /\ f \in Frames /\ f.me = Len(built) + 1
        /\ stack' = Append(frames, f)
        /\ pc # "return" /\ pc' # "return"
  BY <1>0
<1>2. /\ stack \in Seq(Frames) /\ TreeOK(built) /\ Given = NULL /\ Given' = NULL
      /\ \A i \in DOMAIN stack : stack[i].me \in DOMAIN built \cup {NULL}
  BY <1>1, MeIsBuilt DEF Given
<1>3. block \in Frames /\ block.me = NULL
  BY DEF Frames, NULL
<1> HIDE DEF block
<1>4. /\ frames \in Seq(Frames) /\ PlacesOf(g, frames, built, NULL)
      /\ \A i \in DOMAIN frames : frames[i].me \in DOMAIN built \cup {NULL}
      /\ Mes(frames) \ {NULL} = Mes(stack) \ {NULL}
  <2>1. CASE frames = stack
    BY <1>2, <2>1
  <2>2. CASE frames = Append(stack, block)
    <3>1. frames \in Seq(Frames) /\ PlacesOf(g, frames, built, NULL)
      BY <1>2, <1>3, <2>2, PushPlaces
    <3>2. /\ DOMAIN frames = DOMAIN stack \cup {Len(stack) + 1}
          /\ \A i \in DOMAIN stack : frames[i] = stack[i]
          /\ frames[Len(stack) + 1] = block
      BY <1>2, <1>3, <2>2, OverPush
    <3>3. \A i \in DOMAIN frames : frames[i].me \in DOMAIN built \cup {NULL}
      BY <1>2, <1>3, <3>2
    <3>4. Mes(frames) \ {NULL} = Mes(stack) \ {NULL}
      BY <1>3, <3>2 DEF Mes
    <3> QED
      BY <3>1, <3>3, <3>4
  <2> QED
    BY <1>1, <2>1, <2>2
<1>5. m \in Modules /\ m.next = NULL /\ m.list = <<>>
  BY <1>1 DEF NewModule
<1>6. PICK h : /\ PlacesOf(h, frames, Append(built, m), Len(built) + 1)
               /\ Extends(g, built, h, Append(built, m), frames)
  BY <1>2, <1>4, <1>5, MakePlaces
<1>7. PlacesOf(h, stack', built', NULL)
  BY <1>1, <1>4, <1>6, PushPlaces
<1>8. Extends(g, built, h, built', stack)
  BY <1>1, <1>4, <1>6 DEF Extends
<1> QED
  BY <1>2, <1>7, <1>8

LEMMA LosesPlaces ==
    ASSUME IInv, OwnInv, Loses, NEW g, PlacesOf(g, stack, built, Given)
    PROVE  \E h : PlacesOf(h, stack', built', Given') /\ Extends(g, built, h, built', stack)
<1>1. PICK m :
        /\ NewModule(m) /\ built' = Append(built, m)
        /\ UNCHANGED stack /\ pc # "return" /\ Given' = NULL
  BY DEF Loses
<1>2. /\ stack \in Seq(Frames) /\ TreeOK(built) /\ Given = NULL
      /\ \A i \in DOMAIN stack : stack[i].me \in DOMAIN built \cup {NULL}
  BY <1>1, MeIsBuilt DEF Given
<1>3. m \in Modules /\ m.next = NULL /\ m.list = <<>>
  BY <1>1 DEF NewModule
<1>4. PICK h : /\ PlacesOf(h, stack, Append(built, m), Len(built) + 1)
               /\ Extends(g, built, h, Append(built, m), stack)
  BY <1>2, <1>3, MakePlaces
<1>5. PlacesOf(h, stack, Append(built, m), NULL)
  BY <1>2, <1>4, SamePlaces
<1> QED
  BY <1>1, <1>4, <1>5

Linked(b, k, r) == [b EXCEPT ![k].next = r]
Filled(b, k, r) == [b EXCEPT ![k].list = Append(b[k].list, r)]

\* What the last call holds after it has been given a module.
LEMMA LinkHolds ==
    ASSUME NEW b, TreeOK(b), NEW k \in DOMAIN b, NEW r \in DOMAIN b \cup {NULL}
    PROVE  LET c == Linked(b, k, r)
           IN
           /\ DOMAIN c = DOMAIN b
           /\ \A m \in DOMAIN b \ {k} : c[m] = b[m]
           /\ \A n \in DOMAIN b : Holds(c, k, n) => Holds(b, k, n) \/ n = r
<1> DEFINE c == Linked(b, k, r)
<1>1. r \in Nat
  BY DEF TreeOK, NULL
<1>2. /\ DOMAIN c = DOMAIN b /\ c[k].next = r /\ c[k].list = b[k].list
      /\ \A m \in DOMAIN b \ {k} : c[m] = b[m]
  <2> HIDE DEF c
  <2>0. c = [b EXCEPT ![k].next = r]
    BY DEF c, Linked
  <2>1. c[k].next = r
    BY <1>1, <2>0, SetNext
  <2>2. \A m \in DOMAIN b : c[m].list = b[m].list
    BY <1>1, <2>0, SetNext
  <2>3. DOMAIN c = DOMAIN b /\ \A m \in DOMAIN b \ {k} : c[m] = b[m]
    BY <2>0
  <2> QED
    BY <2>1, <2>2, <2>3
<1>3. \A n \in DOMAIN b : Holds(c, k, n) => Holds(b, k, n) \/ n = r
  BY <1>2 DEF Holds
<1> QED
  BY <1>2, <1>3

LEMMA AppendHas ==
    ASSUME NEW s \in Seq(Nat), NEW x \in Nat
    PROVE  \A i \in DOMAIN Append(s, x) :
              (i \in DOMAIN s /\ Append(s, x)[i] = s[i]) \/ Append(s, x)[i] = x
  OBVIOUS

LEMMA FillHolds ==
    ASSUME NEW b, TreeOK(b), NEW k \in DOMAIN b, NEW r \in DOMAIN b
    PROVE  LET c == Filled(b, k, r)
           IN
           /\ DOMAIN c = DOMAIN b
           /\ \A m \in DOMAIN b \ {k} : c[m] = b[m]
           /\ \A n \in DOMAIN b : Holds(c, k, n) => Holds(b, k, n) \/ n = r
<1>1. r \in Nat /\ b[k].list \in Seq(Nat)
  BY ListIsSeq DEF TreeOK
<1> DEFINE l == Append(b[k].list, r)
           c == Filled(b, k, r)
<1>2. /\ l \in Seq(Nat)
      /\ \A i \in DOMAIN l : (i \in DOMAIN b[k].list /\ l[i] = b[k].list[i]) \/ l[i] = r
  BY <1>1, AppendHas
<1>a. c = [b EXCEPT ![k].list = l]
  BY DEF Filled
<1> HIDE DEF l, c
<1>b. l \in Seq(Nat)
  BY <1>2
<1>c. /\ c[k].list = l /\ c[k].next = b[k].next
      /\ \A m \in DOMAIN b \ {k} : c[m] = b[m]
  <2>1. c[k].list = l
    BY <1>a, <1>b, SetList
  <2>2. \A m \in DOMAIN b : c[m].next = b[m].next
    BY <1>a, <1>b, SetList
  <2>3. \A m \in DOMAIN b \ {k} : c[m] = b[m]
    BY <1>a
  <2> QED
    BY <2>1, <2>2, <2>3
<1>d. DOMAIN c = DOMAIN b
  BY <1>a
<1>3. /\ DOMAIN c = DOMAIN b /\ c[k].list = l /\ c[k].next = b[k].next
      /\ \A m \in DOMAIN b \ {k} : c[m] = b[m]
  BY <1>c, <1>d
<1>4. \A n \in DOMAIN b : Holds(c, k, n) => Holds(b, k, n) \/ n = r
  BY <1>2, <1>3 DEF Holds
<1> QED
  BY <1>3, <1>4 DEF c

LEMMA GetsPlaces ==
    ASSUME IInv, OwnInv, Gets, NEW g, PlacesOf(g, stack, built, Given)
    PROVE  PlacesOf(g, stack', built', Given') /\ Extends(g, built, g, built', stack)
<1>1. /\ stack # <<>> /\ Top.me \in Ids /\ returned \in Ids /\ UNCHANGED stack
      /\ Given' = NULL /\ Given = returned
      /\ built' = [built EXCEPT ![Top.me].list = Append(built[Top.me].list, returned)]
  BY DEF Gets, Given
<1>2. stack \in Seq(Frames) /\ TreeOK(built) /\ NULL \notin DOMAIN built
      /\ Top = stack[Len(stack)]
  BY HandsAreBuilt, MeIsBuilt DEF Ids, Top
<1>a. Top.me \in DOMAIN built /\ Top.me # NULL /\ returned \in DOMAIN built
  BY <1>1, <1>2 DEF Ids
<1>b. TreeOK(built) /\ Top.me \in DOMAIN built /\ returned \in DOMAIN built
      /\ built' = Filled(built, Top.me, returned)
  BY <1>1, <1>2, <1>a DEF Filled
<1>3. /\ DOMAIN built' = DOMAIN built
      /\ \A m \in DOMAIN built \ {Top.me} : built'[m] = built[m]
      /\ \A n \in DOMAIN built :
            Holds(built', Top.me, n) => Holds(built, Top.me, n) \/ n = returned
  BY <1>b, FillHolds
<1>4. PlacesOf(g, stack, built', NULL)
  BY <1>1, <1>2, <1>3, <1>a, GivePlaces
<1> QED
  BY <1>1, <1>3, <1>4, ExtendsItself

LEMMA LinksPlaces ==
    ASSUME IInv, OwnInv, Links, NEW g, PlacesOf(g, stack, built, Given)
    PROVE  PlacesOf(g, stack', built', Given') /\ Extends(g, built, g, built', stack)
<1>1. /\ stack # <<>> /\ Top.me \in Ids /\ returned \in Ids \cup {NULL} /\ stack' = Pop
      /\ Given' = Top.me /\ Given = returned
      /\ built' = [built EXCEPT ![Top.me].next = returned]
  BY DEF Links, Given
<1>2. stack \in Seq(Frames) /\ TreeOK(built) /\ NULL \notin DOMAIN built
      /\ Top = stack[Len(stack)] /\ Pop = SubSeq(stack, 1, Len(stack) - 1)
  BY HandsAreBuilt, MeIsBuilt DEF Ids, Top, Pop
<1>a. Top.me \in DOMAIN built /\ Top.me # NULL /\ returned \in DOMAIN built \cup {NULL}
  BY <1>1, <1>2 DEF Ids
<1>b. TreeOK(built) /\ Top.me \in DOMAIN built /\ returned \in DOMAIN built \cup {NULL}
      /\ built' = Linked(built, Top.me, returned)
  BY <1>1, <1>2, <1>a DEF Linked
<1>3. /\ DOMAIN built' = DOMAIN built
      /\ \A m \in DOMAIN built \ {Top.me} : built'[m] = built[m]
      /\ \A n \in DOMAIN built :
            Holds(built', Top.me, n) => Holds(built, Top.me, n) \/ n = returned
  BY <1>b, LinkHolds
<1>4. PlacesOf(g, stack, built', NULL)
  BY <1>1, <1>2, <1>3, <1>a, GivePlaces
<1>5. PlacesOf(g, Pop, built', Top.me)
  BY <1>1, <1>2, <1>4, PopPlaces
<1> QED
  BY <1>1, <1>3, <1>5, ExtendsItself

\* The rest of a chain is read.
LEMMA ChainFrame ==
    ASSUME NEW m \in Nat, NEW frames, CallNextModule(m, frames)
    PROVE  \E f \in Frames : /\ f = [fn |-> "chain", me |-> m]
                             /\ f.fn = "chain" /\ f.me = m /\ stack' = Append(frames, f)
                             /\ pc' = "getNextModule" /\ Given' = NULL
<1> DEFINE f == [fn |-> "chain", me |-> m]
<1>1. f \in Frames /\ f.fn = "chain" /\ f.me = m
  BY DEF Frames
<1> HIDE DEF f
<1> QED
  BY <1>1 DEF CallNextModule, f, Given

LEMMA TurnsPlaces ==
    ASSUME IInv, OwnInv, Turns, NEW g, PlacesOf(g, stack, built, Given)
    PROVE  PlacesOf(g, stack', built', Given') /\ Extends(g, built, g, built', stack)
<1>1. PICK m :
        /\ stack # <<>> /\ UNCHANGED built /\ CallNextModule(m, Pop)
        /\ \/ Top.fn = "block" /\ pc = "return" /\ m = returned
           \/ Top.fn = "include" /\ m = Top.me
  BY DEF Turns
<1>2. /\ stack \in Seq(Frames) /\ Top = stack[Len(stack)]
      /\ Pop = SubSeq(stack, 1, Len(stack) - 1) /\ Pop \in Seq(Frames)
      /\ m \in Nat /\ NestOK(stack) /\ Len(stack) \in DOMAIN stack
  <2>1. m \in DOMAIN built \cup {NULL}
    BY <1>1, MeIsBuilt, TopIsCall
  <2>2. m \in Nat
    BY <2>1, MeIsBuilt DEF TreeOK, NULL
  <2> QED
    BY <1>1, <2>2, MeIsBuilt, TopIsCall DEF OwnInv
<1>3. PlacesOf(g, Pop, built, m)
  <2>1. CASE Top.fn = "block" /\ pc = "return" /\ m = returned
    <3>1. Top.me = NULL
      BY <1>2, <2>1 DEF NestOK
    <3> QED
      BY <1>1, <1>2, <2>1, <3>1, PopPlaces DEF Given
  <2>2. CASE Top.fn = "include" /\ m = Top.me
    BY <1>1, <1>2, <2>2, PopPlaces
  <2> QED
    BY <1>1, <2>1, <2>2
<1>a. CallNextModule(m, Pop) /\ m \in Nat
  BY <1>1, <1>2
<1>4. PICK f \in Frames : f.me = m /\ stack' = Append(Pop, f) /\ Given' = NULL
  BY <1>a, ChainFrame
<1>5. PlacesOf(g, stack', built, NULL)
  BY <1>2, <1>3, <1>4, PushPlaces
<1> QED
  BY <1>1, <1>4, <1>5, ExtendsItself

LEMMA ActivatesPlaces ==
    ASSUME IInv, OwnInv, Activates, NEW g, PlacesOf(g, stack, built, Given)
    PROVE  PlacesOf(g, stack', built', Given') /\ Extends(g, built, g, built', stack)
<1>1. pc # "return" /\ UNCHANGED built /\ CallNextModule(NullModule, stack)
  BY DEF Activates
<1>2. stack \in Seq(Frames) /\ NullModule \in Nat
  BY MeIsBuilt DEF NullModule
<1>3. PICK f \in Frames : f.me = NullModule /\ stack' = Append(stack, f) /\ Given' = NULL
  BY <1>1, <1>2, ChainFrame
<1>4. PlacesOf(g, stack, built, NullModule)
  BY <1>1 DEF PlacesOf, Given, Real
<1>5. PlacesOf(g, stack', built, NULL)
  BY <1>2, <1>3, <1>4, PushPlaces
<1> QED
  BY <1>1, <1>3, <1>5, ExtendsItself

LEMMA StaysPlaces ==
    ASSUME IInv, OwnInv, Stays, NEW g, PlacesOf(g, stack, built, Given)
    PROVE  PlacesOf(g, stack', built', Given') /\ Extends(g, built, g, built', stack)
<1>1. /\ DOMAIN stack' = DOMAIN stack /\ UNCHANGED built /\ Given' = NULL
      /\ \A i \in DOMAIN stack : stack'[i].me = stack[i].me
  BY DEF Stays, SameCall
<1>2. stack \in Seq(Frames)
  BY MeIsBuilt
<1>3. PlacesOf(g, stack', built, NULL)
  BY <1>1, <1>2, SamePlaces
<1> QED
  BY <1>1, <1>3, ExtendsItself

LEMMA PopsPlaces ==
    ASSUME IInv, OwnInv, Pops, NEW g, PlacesOf(g, stack, built, Given)
    PROVE  PlacesOf(g, stack', built', Given') /\ Extends(g, built, g, built', stack)
<1>1. /\ stack # <<>> /\ UNCHANGED built /\ stack' = Pop
      /\ Given' \in {NULL, Top.me}
  BY DEF Pops, Given
<1>2. stack \in Seq(Frames) /\ Top = stack[Len(stack)]
      /\ Pop = SubSeq(stack, 1, Len(stack) - 1)
  BY MeIsBuilt DEF Top, Pop
<1>3. PlacesOf(g, Pop, built, NULL) /\ PlacesOf(g, Pop, built, Top.me)
  BY <1>1, <1>2, PopPlaces
<1> QED
  BY <1>1, <1>3, ExtendsItself

LEMMA KindsPlaces ==
    ASSUME IInv, OwnInv, Kinds, NEW g, PlacesOf(g, stack, built, Given)
    PROVE  \E h : PlacesOf(h, stack', built', Given') /\ Extends(g, built, h, built', stack)
  BY MakesPlaces, LosesPlaces, GetsPlaces, LinksPlaces, TurnsPlaces, ActivatesPlaces,
     StaysPlaces, PopsPlaces DEF Kinds

-----------------------------------------------------------------------------
(* The places of modules and calls *)

\* The first Include under way, if there is one, is the n-th of the calls.
Outside == \A j \in DOMAIN stack : stack[j].fn # "include"
Inside(n) ==
    /\ n \in DOMAIN stack /\ stack[n].fn = "include"
    /\ \A j \in DOMAIN stack : j < n => stack[j].fn # "include"

Pendings == {"parameters", "positional", "named", "construct"}

\* Lists are opened by what opens lists.
ListsOK(s, b) ==
    \A j \in DOMAIN s : s[j].fn = "list" =>
        b[s[j].me].at = 0 /\ (j > 1 => s[j - 1].fn \in {"block", "include"})

\* What is made in an Include is of no place in the configuration.
PlacelessFrom(s, b) ==
    \A n \in DOMAIN s : s[n].fn = "include" => \A m \in DOMAIN b : m > s[n].me => b[m].at = 0

Structure ==
    /\ PlacelessFrom(stack, built)
    /\ (pc \in Pendings /\ ~Outside) => params.at = 0
    /\ ListsOK(stack, built)
    /\ (OpensList(stack) /\ Given # NULL) => built[Given].at = 0
    /\ built[NullModule].at = 0
    /\ pc = "getRoot" => OpensList(stack)

\* Modules stay where they are.
AtsKept ==
    /\ DOMAIN built \subseteq DOMAIN built'
    /\ \A m \in DOMAIN built : built'[m].at = built[m].at
    /\ \A m \in DOMAIN built' \ DOMAIN built : m = Len(built) + 1 /\ NewModule(built'[m])

LEMMA AppendKeepsAts ==
    ASSUME IInv, NEW m, NewModule(m), built' = Append(built, m)
    PROVE  AtsKept /\ Len(built) + 1 \in DOMAIN built' /\ built'[Len(built) + 1] = m
<1>1. built \in Seq(Modules) /\ m \in Modules
  BY DEF IInv, Shape, TreeOK, NewModule
<1>2. /\ DOMAIN built' = DOMAIN built \cup {Len(built) + 1}
      /\ \A k \in DOMAIN built : built'[k] = built[k]
      /\ built'[Len(built) + 1] = m
  BY <1>1
<1> QED
  BY <1>2 DEF AtsKept

LEMMA ChangeKeepsAt ==
    ASSUME NEW b, TreeOK(b), NEW k \in DOMAIN b, NEW r
    PROVE  /\ DOMAIN Linked(b, k, r) = DOMAIN b
           /\ \A m \in DOMAIN b : Linked(b, k, r)[m].at = b[m].at
           /\ DOMAIN Filled(b, k, r) = DOMAIN b
           /\ \A m \in DOMAIN b : Filled(b, k, r)[m].at = b[m].at
<1>1. b[k] \in Modules
  BY DEF TreeOK
<1>2. [b[k] EXCEPT !.next = r].at = b[k].at
  BY <1>1 DEF Modules
<1>3. /\ DOMAIN Linked(b, k, r) = DOMAIN b
      /\ \A m \in DOMAIN b : Linked(b, k, r)[m] = IF m = k THEN [b[k] EXCEPT !.next = r] ELSE b[m]
  BY DEF Linked
<1>4. \A m \in DOMAIN b : Linked(b, k, r)[m].at = b[m].at
  BY <1>2, <1>3
<1> DEFINE l == Append(b[k].list, r)
<1>5. [b[k] EXCEPT !.list = l].at = b[k].at
  BY <1>1 DEF Modules
<1>6. /\ DOMAIN Filled(b, k, r) = DOMAIN b
      /\ \A m \in DOMAIN b : Filled(b, k, r)[m] = IF m = k THEN [b[k] EXCEPT !.list = l] ELSE b[m]
  BY DEF Filled
<1> HIDE DEF l
<1>7. \A m \in DOMAIN b : Filled(b, k, r)[m].at = b[m].at
  BY <1>5, <1>6
<1> QED
  BY <1>3, <1>4, <1>6, <1>7

LEMMA SameKeepsAts == ASSUME UNCHANGED built PROVE AtsKept
  BY DEF AtsKept

LEMMA KindsKeepAts ==
    ASSUME IInv, OwnInv, Kinds
    PROVE  AtsKept
<1>1. TreeOK(built)
  BY MeIsBuilt
<1>2. CASE UNCHANGED built
  BY <1>2, SameKeepsAts
<1>3. CASE Makes \/ Loses
  <2>1. PICK m : NewModule(m) /\ built' = Append(built, m)
    BY <1>3 DEF Makes, Loses
  <2> QED
    BY <2>1, AppendKeepsAts
<1>4. CASE Gets
  <2>1. Top.me \in DOMAIN built /\ built' = Filled(built, Top.me, returned)
    BY <1>4 DEF Gets, Filled, Ids
  <2>2. /\ DOMAIN built' = DOMAIN built /\ \A m \in DOMAIN built : built'[m].at = built[m].at
    BY <1>1, <2>1, ChangeKeepsAt
  <2> QED
    BY <2>2 DEF AtsKept
<1>5. CASE Links
  <2>1. Top.me \in DOMAIN built /\ built' = Linked(built, Top.me, returned)
    BY <1>5 DEF Links, Linked, Ids
  <2>2. /\ DOMAIN built' = DOMAIN built /\ \A m \in DOMAIN built : built'[m].at = built[m].at
    BY <1>1, <2>1, ChangeKeepsAt
  <2> QED
    BY <2>2 DEF AtsKept
<1> QED
  BY <1>2, <1>3, <1>4, <1>5 DEF Kinds, Stays, Pops, Turns, Activates

\* In an Include what is new has no place.
LEMMA NewIsPlaceless ==
    ASSUME Structure, ~Outside, NEW m, NewModule(m)
    PROVE  m.at = 0
<1>1. Place = 0
  BY DEF Place, Outside
<1>2. pc = "construct" => params.at = 0
  BY DEF Structure, Pendings
<1> QED
  BY <1>1, <1>2 DEF NewModule

LEMMA PushFollows ==
    ASSUME NEW s \in Seq(Frames), NEW f \in Frames
    PROVE  LET r == Append(s, f)
           IN  /\ DOMAIN r = DOMAIN s \cup {Len(s) + 1} /\ Len(s) + 1 \notin DOMAIN s
               /\ \A i \in DOMAIN s : r[i] = s[i]
               /\ r[Len(s) + 1] = f /\ Len(s) \in Nat
               /\ s # <<>> => Len(s) \in DOMAIN s /\ r[Len(s)] = s[Len(s)] /\ Len(s) > 0
               /\ s = <<>> => Len(s) = 0
               /\ DOMAIN s = 1..Len(s)
               /\ Len(r) = Len(s) + 1 /\ r # <<>>
<1>1. s # <<>> => Len(s) > 0
  OBVIOUS
<1> QED
  BY <1>1

LEMMA ListsPush ==
    ASSUME NEW s \in Seq(Frames), NEW f \in Frames, NEW b, ListsOK(s, b),
           f.fn = "list" => b[f.me].at = 0 /\ OpensList(s)
    PROVE  ListsOK(Append(s, f), b)
<1> DEFINE r == Append(s, f)
<1>1. /\ DOMAIN r = DOMAIN s \cup {Len(s) + 1} /\ Len(s) + 1 \notin DOMAIN s
      /\ \A i \in DOMAIN s : r[i] = s[i]
      /\ r[Len(s) + 1] = f /\ Len(s) \in Nat
      /\ s # <<>> => Len(s) \in DOMAIN s /\ r[Len(s)] = s[Len(s)] /\ Len(s) > 0
      /\ s = <<>> => Len(s) = 0
      /\ DOMAIN s = 1..Len(s)
  BY PushFollows
<1>a. Len(s) \in Nat /\ DOMAIN s = 1..Len(s)
  OBVIOUS
<1>b. Len(s) + 1 > 1 => s # <<>>
  <2>1. s = <<>> => Len(s) = 0
    OBVIOUS
  <2> QED
    BY <1>a, <2>1
<1>c. Len(s) + 1 - 1 = Len(s)
  BY <1>a
<1> HIDE DEF r
<1>2. ASSUME NEW j \in DOMAIN s, s[j].fn = "list"
      PROVE  b[r[j].me].at = 0 /\ (j > 1 => r[j - 1].fn \in {"block", "include"})
  <2>1. j > 1 => j - 1 \in DOMAIN s
    BY <1>a
  <2> QED
    BY <1>1, <1>2, <2>1 DEF ListsOK
<1>3. ASSUME f.fn = "list"
      PROVE  b[f.me].at = 0 /\ (Len(s) + 1 > 1 => r[Len(s) + 1 - 1].fn \in {"block", "include"})
  <2>1. b[f.me].at = 0 /\ OpensList(s)
    BY <1>3
  <2>2. Len(s) + 1 > 1 => r[Len(s)].fn \in {"block", "include"}
    BY <1>1, <1>b, <2>1 DEF OpensList
  <2> QED
    BY <1>c, <2>1, <2>2
<1>4. ListsOK(r, b)
  <2>1. /\ DOMAIN r = DOMAIN s \cup {Len(s) + 1} /\ r[Len(s) + 1] = f
        /\ \A i \in DOMAIN s : r[i] = s[i]
    BY <1>1
  <2>2. \A j \in DOMAIN r : j \in DOMAIN s \/ j = Len(s) + 1
    BY <2>1
  <2>3. ASSUME NEW j \in DOMAIN r, r[j].fn = "list"
        PROVE  b[r[j].me].at = 0 /\ (j > 1 => r[j - 1].fn \in {"block", "include"})
    <3>1. CASE j \in DOMAIN s
      BY <1>2, <2>1, <2>3, <3>1
    <3>2. CASE j = Len(s) + 1
      BY <1>3, <2>1, <2>3, <3>2
    <3> QED
      BY <2>2, <3>1, <3>2
  <2> QED
    BY <2>3 DEF ListsOK
<1> QED
  BY <1>4 DEF r

LEMMA ListsPop ==
    ASSUME NEW s \in Seq(Frames), s # <<>>, NEW b, ListsOK(s, b)
    PROVE  ListsOK(SubSeq(s, 1, Len(s) - 1), b)
<1> DEFINE r == SubSeq(s, 1, Len(s) - 1)
<1>1. /\ Len(s) \in Nat /\ DOMAIN r = 1..(Len(s) - 1)
      /\ \A i \in DOMAIN r : i \in DOMAIN s /\ r[i] = s[i]
  BY PopSeq
<1> HIDE DEF r
<1>2. \A j \in DOMAIN r : j > 1 => j - 1 \in DOMAIN r
  BY <1>1
<1>3. ListsOK(r, b)
  BY <1>1, <1>2 DEF ListsOK
<1> QED
  BY <1>3 DEF r

LEMMA ListsSame ==
    ASSUME NEW s \in Seq(Frames), NEW r, DOMAIN r = DOMAIN s,
           \A i \in DOMAIN s : SameCall(s[i], r[i]), NEW b, ListsOK(s, b)
    PROVE  ListsOK(r, b)
<1>1. \A j \in DOMAIN s : j > 1 => j - 1 \in DOMAIN s
  OBVIOUS
<1> QED
  BY <1>1 DEF ListsOK, SameCall

LEMMA ListsKept ==
    ASSUME IInv, AtsKept, ListsOK(stack, built)
    PROVE  ListsOK(stack, built')
<1>1. \A j \in DOMAIN stack : stack[j].fn = "list" => stack[j].me \in DOMAIN built
  BY DEF IInv, Shape, CallsOK, FrameOK
<1> QED
  BY <1>1 DEF ListsOK, AtsKept

\* What every kind of step does to the calls.
LEMMA KindsFrames ==
    ASSUME IInv, OwnInv, Kinds
    PROVE  \A n \in DOMAIN stack' : stack'[n].fn = "include" =>
              \/ n \in DOMAIN stack /\ SameCall(stack[n], stack'[n])
              \/ stack'[n].me = Len(built) + 1
<1>0. stack \in Seq(Frames)
  BY MeIsBuilt
<1>1. CASE Stays
  BY <1>1 DEF Stays
<1>2. CASE Makes
  <2> DEFINE block == [fn |-> "block", me |-> NULL]
  <2>0. PICK m, f : \E frames \in {stack, Append(stack, block)} :
           f \in Frames /\ f.me = Len(built) + 1 /\ stack' = Append(frames, f)
    BY <1>2 DEF Makes
  <2>1. PICK frames \in {stack, Append(stack, block)} :
           f \in Frames /\ f.me = Len(built) + 1 /\ stack' = Append(frames, f)
    BY <2>0
  <2>2. block \in Frames /\ block.fn = "block"
    BY DEF Frames, NULL
  <2> HIDE DEF block
  <2>3. /\ frames \in Seq(Frames)
        /\ \A i \in DOMAIN frames : (i \in DOMAIN stack /\ frames[i] = stack[i]) \/ frames[i] = block
    <3>1. CASE frames = stack
      BY <1>0, <3>1
    <3>2. CASE frames = Append(stack, block)
      <4>1. frames \in Seq(Frames)
        BY <1>0, <2>2, <3>2
      <4> QED
        BY <1>0, <2>2, <3>2, <4>1, PushFollows
    <3> QED
      BY <2>1, <3>1, <3>2
  <2>4. /\ DOMAIN stack' = DOMAIN frames \cup {Len(frames) + 1}
        /\ \A i \in DOMAIN frames : stack'[i] = frames[i]
        /\ stack'[Len(frames) + 1] = f
    BY <2>1, <2>3, PushFollows
  <2> QED
    BY <2>1, <2>2, <2>3, <2>4 DEF SameCall
<1>3. CASE Loses \/ Gets
  BY <1>3, SameCalls DEF Loses, Gets
<1>4. CASE Pops \/ Links
  <2>1. stack # <<>> /\ stack' = SubSeq(stack, 1, Len(stack) - 1)
    BY <1>4 DEF Pops, Links, Pop
  <2>2. \A i \in DOMAIN stack' : i \in DOMAIN stack /\ stack'[i] = stack[i]
    BY <1>0, <2>1, PopSeq
  <2> QED
    BY <2>2 DEF SameCall
<1>5. CASE Turns \/ Activates
  <2>1. PICK m, frames : /\ CallNextModule(m, frames)
                         /\ \/ frames = stack
                            \/ frames = Pop /\ stack # <<>>
    BY <1>5 DEF Turns, Activates
  <2>2. frames \in Seq(Frames) /\ \A i \in DOMAIN frames : i \in DOMAIN stack /\ frames[i] = stack[i]
    <3>1. CASE frames = stack
      BY <1>0, <3>1
    <3>2. CASE frames = Pop /\ stack # <<>>
      BY <1>0, <3>2, PopSeq DEF Pop
    <3> QED
      BY <2>1, <3>1, <3>2
  <2> DEFINE f == [fn |-> "chain", me |-> m]
  <2>3. f.fn = "chain" /\ stack' = Append(frames, f)
    BY <2>1 DEF CallNextModule
  <2> HIDE DEF f
  <2>4. \A i \in DOMAIN stack' : (i \in DOMAIN frames /\ stack'[i] = frames[i]) \/ stack'[i] = f
    BY <2>2, <2>3
  <2> QED
    BY <2>2, <2>3, <2>4 DEF SameCall
<1> QED
  BY <1>1, <1>2, <1>3, <1>4, <1>5 DEF Kinds

LEMMA KindsPlaceless ==
    ASSUME IInv, OwnInv, Structure, Kinds
    PROVE  PlacelessFrom(stack', built')
<1> SUFFICES ASSUME NEW n \in DOMAIN stack', stack'[n].fn = "include",
                    NEW m \in DOMAIN built', m > stack'[n].me
             PROVE  built'[m].at = 0
  BY DEF PlacelessFrom
<1>1. AtsKept
  BY KindsKeepAts
<1>2. CASE n \in DOMAIN stack /\ SameCall(stack[n], stack'[n])
  <2>1. stack[n].fn = "include" /\ m > stack[n].me
    BY <1>2 DEF SameCall
  <2>2. ~Outside
    BY <1>2, <2>1 DEF Outside
  <2>3. CASE m \in DOMAIN built
    BY <1>1, <1>2, <2>1, <2>3 DEF Structure, PlacelessFrom, AtsKept
  <2>4. CASE m \notin DOMAIN built
    BY <1>1, <2>2, <2>4, NewIsPlaceless DEF AtsKept
  <2> QED
    BY <2>3, <2>4
<1>3. CASE stack'[n].me = Len(built) + 1
  <2>1. built \in Seq(Modules)
    BY MeIsBuilt DEF TreeOK
  <2>2. Len(built) \in Nat /\ DOMAIN built = 1..Len(built)
    BY <2>1
  <2>3. m \in DOMAIN built \/ m = Len(built) + 1
    BY <1>1 DEF AtsKept
  <2> QED
    BY <1>3, <2>2, <2>3
<1> QED
  BY <1>2, <1>3, KindsFrames

LEMMA MakesLists ==
    ASSUME IInv, OwnInv, Structure, Makes
    PROVE  ListsOK(stack', built')
<1> DEFINE block == [fn |-> "block", me |-> NULL]
<1>0. PICK m, f : \E frames \in {stack, Append(stack, block)} :
        /\ NewModule(m) /\ built' = Append(built, m)
        /\ f \in Frames /\ f.me = Len(built) + 1
        /\ f.fn = "list" => m.at = 0 /\ (frames = stack => pc = "getRoot")
        /\ stack' = Append(frames, f)
  BY DEF Makes
<1>1. PICK frames \in {stack, Append(stack, block)} :
        /\ NewModule(m) /\ built' = Append(built, m)
        /\ f \in Frames /\ f.me = Len(built) + 1
        /\ f.fn = "list" => m.at = 0 /\ (frames = stack => pc = "getRoot")
        /\ stack' = Append(frames, f)
  BY <1>0
<1>2. block \in Frames /\ block.fn = "block"
  BY DEF Frames, NULL
<1> HIDE DEF block
<1>3. stack \in Seq(Frames) /\ AtsKept /\ built'[f.me] = m
  BY <1>1, MeIsBuilt, AppendKeepsAts
<1>4. ListsOK(stack, built')
  BY <1>3, ListsKept DEF Structure
<1>5. frames \in Seq(Frames) /\ ListsOK(frames, built') /\ (f.fn = "list" => OpensList(frames))
  <2>1. CASE frames = stack
    BY <1>1, <1>3, <1>4, <2>1 DEF Structure
  <2>2. CASE frames = Append(stack, block)
    <3>1. frames \in Seq(Frames)
      BY <1>2, <1>3, <2>2
    <3>2. ListsOK(frames, built')
      BY <1>2, <1>3, <1>4, <2>2, ListsPush
    <3>3. frames[Len(frames)] = block
      BY <1>2, <1>3, <2>2, PushFollows
    <3> QED
      BY <1>2, <3>1, <3>2, <3>3 DEF OpensList
  <2> QED
    BY <1>1, <2>1, <2>2
<1>6. f.fn = "list" => built'[f.me].at = 0
  BY <1>1, <1>3
<1> QED
  BY <1>1, <1>5, <1>6, ListsPush

LEMMA KindsLists ==
    ASSUME IInv, OwnInv, Structure, Kinds
    PROVE  ListsOK(stack', built')
<1>1. /\ AtsKept /\ ListsOK(stack, built') /\ stack \in Seq(Frames)
  BY KindsKeepAts, ListsKept, MeIsBuilt DEF Structure
<1>2. CASE Stays
  BY <1>1, <1>2, ListsSame DEF Stays
<1>3. CASE Loses \/ Gets
  BY <1>1, <1>3 DEF Loses, Gets
<1>4. CASE Pops \/ Links
  BY <1>1, <1>4, ListsPop DEF Pops, Links, Pop
<1>5. CASE Turns \/ Activates
  <2>1. PICK m, frames : /\ m \in Nat /\ CallNextModule(m, frames)
                         /\ \/ frames = stack
                            \/ frames = Pop /\ stack # <<>>
    <3>1. NullModule \in Nat /\ returned \in Nat /\ (stack # <<>> => Top.me \in Nat)
      BY MeIsBuilt, TopIsCall DEF NullModule, NULL, TreeOK
    <3> QED
      BY <1>5, <3>1 DEF Turns, Activates
  <2>2. frames \in Seq(Frames) /\ ListsOK(frames, built')
    <3>1. CASE frames = stack
      BY <1>1, <3>1
    <3>2. CASE frames = Pop /\ stack # <<>>
      BY <1>1, <3>2, PopSeq, ListsPop DEF Pop
    <3> QED
      BY <2>1, <3>1, <3>2
  <2>3. PICK f \in Frames : f.fn = "chain" /\ stack' = Append(frames, f)
    BY <2>1, ChainFrame
  <2> QED
    BY <2>2, <2>3, ListsPush
<1> QED
  BY <1>2, <1>3, <1>4, <1>5, MakesLists DEF Kinds

LEMMA KindsGiven ==
    ASSUME IInv, OwnInv, Structure, Kinds, OpensList(stack'), Given' # NULL
    PROVE  built'[Given'].at = 0
<1>1. CASE Pops
  <2>1. Top.fn = "list" /\ Given' = Top.me /\ stack # <<>> /\ UNCHANGED built
    BY <1>1 DEF Pops, Given
  <2> QED
    BY <2>1, TopIsCall DEF Structure, ListsOK
<1>2. CASE Links
  BY <1>2, TopIsCall DEF Links
<1>3. CASE ~Pops /\ ~Links
  BY <1>3 DEF Kinds, Stays, Makes, Loses, Gets, Turns, Activates, CallNextModule, Given
<1> QED
  BY <1>1, <1>2, <1>3

\* The parameters of a module are read at its place.
LEMMA PendingSteps ==
    ASSUME IInv, Step, pc' \in Pendings
    PROVE  /\ UNCHANGED stack
           /\ (pc \in Pendings /\ params'.at = params.at) \/ params'.at = Place
<1>0. params \in Params
  BY DEF IInv, Shape
<1>1. CASE Identifier
  <2>1. params' = [NoParams EXCEPT !.name = reader.t, !.at = Place] /\ UNCHANGED stack
    BY <1>1 DEF Identifier
  <2>2. params'.at = Place
    BY <2>1, NoParamsIsParams DEF Params
  <2> QED
    BY <2>1, <2>2
<1>2. CASE ReadParameters \/ Positional \/ Named
  <2>1. /\ UNCHANGED stack /\ pc \in Pendings
        /\ \/ UNCHANGED params
           \/ \E p : params' = [params EXCEPT !.positional = p]
           \/ \E p : params' = [params EXCEPT !.named = p]
    <3>1. CASE ReadParameters
      BY <3>1 DEF ReadParameters, TakePositional, CallNamed, Pendings
    <3>2. CASE Positional
      BY <3>2 DEF Positional, TakePositional, CallNamed, Pendings
    <3>3. CASE Named
      BY <3>3 DEF Named, Pendings
    <3> QED
      BY <1>2, <3>1, <3>2, <3>3
  <2> QED
    BY <1>0, <2>1 DEF Params
<1>3. CASE \/ StatsOutOfRange \/ DeletedTwice \/ UsedDeleted \/ CannotOpen \/ Unexpected
           \/ GetNextModule
  BY <1>3 DEF StatsOutOfRange, DeletedTwice, UsedDeleted, CannotOpen, Unexpected,
     GetNextModule, Return, Pendings
<1>4. CASE GetRoot \/ Block \/ ServerOrPath \/ Construct \/ Include \/ Activate
  <2>1. CASE GetRoot
    BY <2>1 DEF GetRoot, CallModuleList, FillList, Return, Pendings
  <2>2. CASE Block
    BY <2>2 DEF Block, CallModuleList, FillList, Return, Pendings
  <2>3. CASE ServerOrPath
    BY <2>3, ServerOrPathParts DEF CallNextModule, Return, Pendings
  <2>4. CASE Construct
    BY <2>4 DEF Construct, CallNextModule, Return, Pendings
  <2>5. CASE Include
    BY <2>5 DEF Include, Pendings
  <2>6. CASE Activate
    BY <2>6 DEF Activate, CallNextModule, Return, Pendings
  <2> QED
    BY <1>4, <2>1, <2>2, <2>3, <2>4, <2>5, <2>6
<1>5. CASE GetModuleList \/ ListTakes \/ DropList \/ Chain \/ EndBlock \/ UnbalancedBlock
  BY <1>5 DEF GetModuleList, ListTakes, ListPuts, DropList, Chain, EndChain, EndBlock,
     UnbalancedBlock, DeleteBlock, Return, CallNextModule, Pendings
<1>6. CASE IncludeFile \/ IncludeTakes \/ IncludeEnds
  BY <1>6 DEF IncludeFile, IncludeTakes, IncludeEnds, Return, CallNextModule, Pendings
<1> QED
  BY <1>1, <1>2, <1>3, <1>4, <1>5, <1>6 DEF Step

\* A parser is called by an Include.
LEMMA RootSteps ==
    ASSUME Step, pc' = "getRoot"
    PROVE  IncludeFile
<1>1. CASE Identifier \/ ReadParameters \/ Positional \/ Named
  <2>1. CASE Identifier
    BY <2>1 DEF Identifier, Return
  <2>2. CASE ReadParameters
    BY <2>2 DEF ReadParameters, TakePositional, CallNamed, EndParameters, Return
  <2>3. CASE Positional
    BY <2>3 DEF Positional, TakePositional, CallNamed, EndParameters, Return
  <2>4. CASE Named
    BY <2>4 DEF Named, EndParameters, Return
  <2> QED
    BY <1>1, <2>1, <2>2, <2>3, <2>4
<1>3. CASE \/ StatsOutOfRange \/ DeletedTwice \/ UsedDeleted \/ CannotOpen \/ Unexpected
           \/ GetNextModule
  BY <1>3 DEF StatsOutOfRange, DeletedTwice, UsedDeleted, CannotOpen, Unexpected,
     GetNextModule, Return
<1>4. CASE GetRoot \/ Block \/ ServerOrPath \/ Construct \/ Include \/ Activate
  <2>1. CASE GetRoot
    BY <2>1 DEF GetRoot, CallModuleList, FillList, Return
  <2>2. CASE Block
    BY <2>2 DEF Block, CallModuleList, FillList, Return
  <2>3. CASE ServerOrPath
    BY <2>3, ServerOrPathParts DEF CallNextModule, Return
  <2>4. CASE Construct
    BY <2>4 DEF Construct, CallNextModule, Return
  <2>5. CASE Include
    BY <2>5 DEF Include
  <2>6. CASE Activate
    BY <2>6 DEF Activate, CallNextModule, Return
  <2> QED
    BY <1>4, <2>1, <2>2, <2>3, <2>4, <2>5, <2>6
<1>5. CASE GetModuleList \/ ListTakes \/ DropList \/ Chain \/ EndBlock \/ UnbalancedBlock
  BY <1>5 DEF GetModuleList, ListTakes, ListPuts, DropList, Chain, EndChain, EndBlock,
     UnbalancedBlock, DeleteBlock, Return, CallNextModule
<1>6. CASE IncludeTakes \/ IncludeEnds
  BY <1>6 DEF IncludeTakes, IncludeEnds, Return, CallNextModule
<1> QED
  BY <1>1, <1>3, <1>4, <1>5, <1>6 DEF Step

LEMMA StepStructure == IInv /\ OwnInv /\ Structure /\ Step => Structure'
<1> SUFFICES ASSUME IInv, OwnInv, Structure, Step PROVE Structure'
  OBVIOUS
<1>1. Kinds /\ AtsKept
  BY StepKinds, KindsKeepAts
<1>2. PlacelessFrom(stack', built')
  BY <1>1, KindsPlaceless
<1>3. ListsOK(stack', built')
  BY <1>1, KindsLists
<1>4. (OpensList(stack') /\ Given' # NULL) => built'[Given'].at = 0
  BY <1>1, KindsGiven
<1>5. built'[NullModule].at = 0
  BY <1>1, MeIsBuilt DEF Structure, AtsKept, TreeOK
<1>6. (pc' \in Pendings /\ ~Outside') => params'.at = 0
  <2>1. SUFFICES ASSUME pc' \in Pendings, ~Outside' PROVE params'.at = 0
    OBVIOUS
  <2>2. UNCHANGED stack /\ ((pc \in Pendings /\ params'.at = params.at) \/ params'.at = Place)
    BY <2>1, PendingSteps
  <2>3. ~Outside
    BY <2>1, <2>2 DEF Outside
  <2> QED
    BY <2>2, <2>3 DEF Structure, Place, Outside
<1>7. pc' = "getRoot" => OpensList(stack')
  <2>1. SUFFICES ASSUME pc' = "getRoot" PROVE OpensList(stack')
    OBVIOUS
  <2>2. IncludeFile
    BY <2>1, RootSteps
  <2>3. Stays /\ Waits("include") /\ stack \in Seq(Frames)
    BY <2>2, IncludeFileKind, MeIsBuilt DEF IInv, Called, IncludeFile
  <2>4. stack' = [stack EXCEPT ![Len(stack)].files = Tail(Top.files)]
    BY <2>2 DEF IncludeFile, Top
  <2>5. Len(stack') = Len(stack) /\ Len(stack) \in DOMAIN stack
    BY <2>3, <2>4 DEF Waits
  <2> QED
    BY <2>3, <2>5 DEF OpensList, Stays, SameCall, Waits, Top
<1> QED
  BY <1>2, <1>3, <1>4, <1>5, <1>6, <1>7 DEF Structure

LEMMA InitStructure == Init => Structure
<1> SUFFICES ASSUME Init PROVE Structure
  OBVIOUS
<1> DEFINE m == New("NULL", NoParams)
<1>a. m.at = 0
  BY DEF New, NoParams
<1>b. built = <<m>> /\ stack = <<>> /\ returned = NULL /\ pc = "getRoot"
  BY DEF Init
<1> HIDE DEF m
<1>1. /\ stack = <<>> /\ Given = NULL /\ DOMAIN built = {NullModule} /\ pc = "getRoot"
      /\ built[NullModule].at = 0
  BY <1>a, <1>b DEF Given, NullModule
<1> QED
  BY <1>1 DEF Structure, PlacelessFrom, ListsOK, OpensList, Pendings, Outside
=============================================================================
