---------------------------- MODULE DaemonProofs ----------------------------
(***************************************************************************)
(* The statistics of Daemon are exact for every number of connections and  *)
(* every width of the counters that can count them.                        *)
(***************************************************************************)
EXTENDS Daemon, SequenceTheorems, FiniteSetTheorems, TLAPS

\* The clients are finitely many, fewer than a counter has values.
LEMMA ClientsFew ==
    ASSUME NEW S \in SUBSET Conns
    PROVE  /\ IsFiniteSet(S)
           /\ Cardinality(S) \in Nat
           /\ Cardinality(S) < WordSize
<1>1. IsFiniteSet(S) /\ Cardinality(S) <= Cardinality(Conns)
  BY ConnsAssumption, FS_Subset
<1>2. Cardinality(S) \in Nat /\ Cardinality(Conns) \in Nat
  BY <1>1, ConnsAssumption, FS_CardinalityType
<1> QED
  BY <1>1, <1>2, WordSizeAssumption

\* A word is its own remainder, and every remainder is a word.
LEMMA Words ==
    /\ \A n \in 0..(WordSize - 1) : n % WordSize = n
    /\ \A n \in Int : WordSize # 0 => n % WordSize \in 0..(WordSize - 1)
    /\ WordSize \in Nat \ {0}
<1>1. Cardinality(Conns) \in Nat
  BY ConnsAssumption, FS_CardinalityType
<1>2. WordSize \in Nat \ {0}
  BY <1>1, WordSizeAssumption
<1> QED
  BY <1>2

\* One client more.
LEMMA OneMore ==
    ASSUME NEW S \in SUBSET Conns, NEW c \in Conns \ S, NEW n,
           n = Cardinality(S)
    PROVE  (n + 1) % WordSize = Cardinality(S \cup {c})
<1>1. IsFiniteSet(S) /\ n \in Nat
  BY ClientsFew
<1>2. Cardinality(S \cup {c}) = n + 1
  BY <1>1, FS_AddElement
<1>3. Cardinality(S \cup {c}) < WordSize
  BY ClientsFew
<1>4. n + 1 \in 0..(WordSize - 1)
  BY <1>1, <1>2, <1>3, WordSizeAssumption
<1> QED
  BY <1>2, <1>4, Words

\* One client less.
LEMMA OneLess ==
    ASSUME NEW S \in SUBSET Conns, NEW c \in S, NEW n, n = Cardinality(S)
    PROVE  (n - 1) % WordSize = Cardinality(S \ {c})
<1>1. IsFiniteSet(S) /\ n \in Nat
  BY ClientsFew
<1>2. Cardinality(S \ {c}) = n - 1
  BY <1>1, FS_RemoveElement
<1>3. Cardinality(S \ {c}) \in Nat /\ Cardinality(S \ {c}) < WordSize
  BY ClientsFew
<1>4. n - 1 \in 0..(WordSize - 1)
  BY <1>1, <1>2, <1>3, WordSizeAssumption
<1> QED
  BY <1>2, <1>4, Words

\* The invariant: the shapes and both counts.
CountInv == TypeOK /\ ActiveExact /\ PeakExact

\* Nobody is connected at the start, and every counter is zero.
LEMMA CountInit == Init => CountInv
<1> SUFFICES ASSUME Init
             PROVE  CountInv
  OBVIOUS
<1>1. 0 \in 0..(WordSize - 1)
  BY Words
<1>2. TypeOK
  <2>1. pending \in Seq(Conns) /\ DOMAIN pending = {}
    BY DEF Init
  <2> QED
    BY <1>1, <2>1 DEF Init, TypeOK
<1>3. ActiveExact
  BY FS_EmptySet DEF Init, ActiveExact
<1> QED
  BY <1>2, <1>3 DEF Init, CountInv, PeakExact

\* A new socket is not waiting yet and has no client.
LEMMA ConnectKeeps ==
    ASSUME CountInv, NEW c \in Conns, Connect(c)
    PROVE  CountInv'
<1>1. pending \in Seq(Conns) /\ Len(pending) \in Nat
  BY DEF CountInv, TypeOK
<1>2. /\ pending' = Append(pending, c)
      /\ c \notin clients
      /\ \A i \in 1..Len(pending) : pending[i] # c
  BY <1>1 DEF Connect, Free
<1>3. /\ pending' \in Seq(Conns)
      /\ Len(pending') = Len(pending) + 1
      /\ \A i \in 1..Len(pending) : pending'[i] = pending[i]
      /\ pending'[Len(pending) + 1] = c
  BY <1>1, <1>2
<1>4. \A i \in 1..Len(pending') : pending'[i] \notin clients
  <2> TAKE i \in 1..Len(pending')
  <2>1. CASE i = Len(pending) + 1
    BY <1>2, <1>3, <2>1
  <2>2. CASE i # Len(pending) + 1
    <3>1. i \in 1..Len(pending)
      BY <1>1, <1>3, <2>2
    <3> QED
      BY <1>1, <1>3, <3>1 DEF CountInv, TypeOK
  <2> QED
    BY <2>1, <2>2
<1>5. \A i, j \in 1..Len(pending') : pending'[i] = pending'[j] => i = j
  <2> TAKE i, j \in 1..Len(pending')
  <2>1. \A k \in 1..Len(pending') :
          k \in 1..Len(pending) \/ k = Len(pending) + 1
    BY <1>1, <1>3
  <2>2. \A k, l \in 1..Len(pending) : pending[k] = pending[l] => k = l
    BY <1>1 DEF CountInv, TypeOK
  <2> QED
    BY <1>2, <1>3, <2>1, <2>2
<1> QED
  BY <1>1, <1>3, <1>4, <1>5
     DEF Connect, counters, CountInv, TypeOK, ActiveExact, PeakExact

\* The next socket gets its client, and the counters follow.
LEMMA AcceptKeeps ==
    ASSUME CountInv, Accept
    PROVE  CountInv'
<1>1. /\ pending \in Seq(Conns) /\ Len(pending) \in Nat \ {0}
      /\ clients \in SUBSET Conns
  BY DEF CountInv, TypeOK, Accept
<1>2. /\ Head(pending) \in Conns \ clients
      /\ Head(pending) = pending[1]
  BY <1>1 DEF CountInv, TypeOK
<1>3. /\ pending' \in Seq(Conns)
      /\ Len(pending') = Len(pending) - 1
      /\ \A i \in 1..Len(pending') : pending'[i] = pending[i + 1]
  BY <1>1 DEF Accept
<1>4. \A i \in 1..Len(pending') : pending'[i] \notin clients'
  <2> TAKE i \in 1..Len(pending')
  <2>1. i + 1 \in 1..Len(pending) /\ 1 \in 1..Len(pending) /\ i + 1 # 1
    BY <1>1, <1>3
  <2>2. pending[i + 1] \notin clients /\ pending[i + 1] # pending[1]
    BY <1>1, <2>1 DEF CountInv, TypeOK
  <2> QED
    BY <1>2, <1>3, <2>2 DEF Accept
<1>5. \A i, j \in 1..Len(pending') : pending'[i] = pending'[j] => i = j
  <2> TAKE i, j \in 1..Len(pending')
  <2>1. /\ i + 1 \in 1..Len(pending)
        /\ j + 1 \in 1..Len(pending)
        /\ i + 1 = j + 1 => i = j
    BY <1>1, <1>3
  <2>2. pending[i + 1] = pending[j + 1] => i + 1 = j + 1
    BY <1>1, <2>1 DEF CountInv, TypeOK
  <2> QED
    BY <1>3, <2>1, <2>2
<1>6. /\ clients' = clients \cup {Head(pending)}
      /\ clients' \subseteq Conns
      /\ doomed' \subseteq clients'
  BY <1>2 DEF CountInv, TypeOK, Accept
<1>7. activeClientCount' = Cardinality(clients')
  BY <1>1, <1>2, <1>6, OneMore DEF CountInv, ActiveExact, Accept
<1>8. maxActiveClientCount' = peak'
  BY <1>7 DEF CountInv, PeakExact, Accept
<1>9. /\ clientCount' \in 0..(WordSize - 1)
      /\ activeClientCount' \in 0..(WordSize - 1)
  <2>1. clientCount + 1 \in Int /\ activeClientCount + 1 \in Int
    BY Words DEF CountInv, TypeOK
  <2> QED
    BY <2>1, Words DEF Accept
<1>10. maxActiveClientCount' \in 0..(WordSize - 1)
  BY <1>9 DEF CountInv, TypeOK, Accept, Larger
<1>11. peak' \in Nat
  BY <1>8, <1>10, Words
<1>12. DOMAIN pending' = 1..Len(pending')
  BY <1>3
<1>13. TypeOK'
  BY <1>3, <1>4, <1>5, <1>6, <1>9, <1>10, <1>11, <1>12
     DEF CountInv, TypeOK, Accept
<1> QED
  BY <1>7, <1>8, <1>13 DEF CountInv, ActiveExact, PeakExact

\* A client is deleted, and the count of active ones follows.
LEMMA DeleteKeeps ==
    ASSUME CountInv, NEW c \in Conns, Delete(c)
    PROVE  CountInv'
<1>1. clients \in SUBSET Conns /\ c \in clients
  BY DEF CountInv, TypeOK, Delete
<1>2. activeClientCount' = Cardinality(clients')
  BY <1>1, OneLess DEF CountInv, ActiveExact, Delete
<1>3. activeClientCount' \in 0..(WordSize - 1)
  <2>1. activeClientCount - 1 \in Int
    BY Words DEF CountInv, TypeOK
  <2> QED
    BY <2>1, Words DEF Delete
<1>4. TypeOK'
  BY <1>3 DEF CountInv, TypeOK, Delete
<1> QED
  BY <1>2, <1>4 DEF CountInv, ActiveExact, PeakExact, Delete

\* Every step keeps the shapes and both counts.
LEMMA CountStep == CountInv /\ [Next]_vars => CountInv'
<1> SUFFICES ASSUME CountInv, [Next]_vars
             PROVE  CountInv'
  OBVIOUS
<1>1. ASSUME NEW c \in Conns, Connect(c)
      PROVE  CountInv'
  BY <1>1, ConnectKeeps
<1>2. ASSUME NEW c \in Conns, Wait(c)
      PROVE  CountInv'
  BY <1>2 DEF Wait, counters, CountInv, TypeOK, ActiveExact, PeakExact
<1>3. ASSUME NEW c \in Conns, Doom(c)
      PROVE  CountInv'
  BY <1>3 DEF Doom, counters, CountInv, TypeOK, ActiveExact, PeakExact
<1>4. ASSUME NEW c \in Conns, Delete(c)
      PROVE  CountInv'
  BY <1>4, DeleteKeeps
<1>5. CASE NewConnection
  BY <1>5 DEF NewConnection, counters, CountInv, TypeOK, ActiveExact, PeakExact
<1>6. CASE Accept
  BY <1>6, AcceptKeeps
<1>7. CASE Accepted
  BY <1>7 DEF Accepted, counters, CountInv, TypeOK, ActiveExact, PeakExact
<1>8. CASE WaitOver
  BY <1>8 DEF WaitOver, counters, CountInv, TypeOK, ActiveExact, PeakExact
<1>9. CASE UNCHANGED vars
  BY <1>9 DEF vars, counters, CountInv, TypeOK, ActiveExact, PeakExact
<1> QED
  BY <1>1, <1>2, <1>3, <1>4, <1>5, <1>6, <1>7, <1>8, <1>9 DEF Next

\* The daemon keeps its variables in shape, and no socket is served twice.
THEOREM DaemonTypeCorrect == Spec => []TypeOK
<1>1. CountInv => TypeOK
  BY DEF CountInv
<1> QED
  BY <1>1, CountInit, CountStep, PTL DEF Spec

\* The count of active clients that Stats reports is the number of clients.
THEOREM ActiveAlwaysExact == Spec => []ActiveExact
<1>1. CountInv => ActiveExact
  BY DEF CountInv
<1> QED
  BY <1>1, CountInit, CountStep, PTL DEF Spec

\* The peak that Stats reports is the most clients there ever were at a time.
THEOREM PeakAlwaysExact == Spec => []PeakExact
<1>1. CountInv => PeakExact
  BY DEF CountInv
<1> QED
  BY <1>1, CountInit, CountStep, PTL DEF Spec
=============================================================================
