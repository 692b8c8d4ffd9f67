------------------------ MODULE ClientExchangeProofs ------------------------
(***************************************************************************)
(* What a Client does for a peer that asks one thing at a time, for every  *)
(* value of its constants: it answers every request once, in order and in  *)
(* full, and with a kernel that takes the write buffer as a whole it       *)
(* implements Exchange.                                                    *)
(***************************************************************************)
EXTENDS ClientExchange, ClientProofs

-----------------------------------------------------------------------------
(* The environment that the theorems are about. *)

\* Answers are files: of the size that is declared and announced, or of one
\* that is not announced, and none is empty.
WholeFiles ==
    \A d \in Devices :
        /\ d.kind = "file" /\ d.open
        /\ d.declared = d.total
        /\ d.total \in 1..(WordSize - 1)
        /\ d.total <= d.length

\* A request begins with its request line and ends with its only blank line;
\* no line just fits the buffer of readLine.
WholeRequests ==
    \A s \in Shapes :
        /\ Len(s) > 1
        /\ s[1] = "get" /\ s[Len(s)] = "blank"
        /\ \A i \in 2..(Len(s) - 1) : s[i] \in {"keepalive", "header", "long"}

\* A peer that waits for its answers.
Sequential == ~Pipelining /\ WholeFiles /\ WholeRequests

\* The same, with a kernel that takes the write buffer as a whole.
Polite == Sequential /\ ~PartialWrites

-----------------------------------------------------------------------------
(* The invariant *)

Alive(c) == c.life \in {"live", "doomed"}
Last(c) == c.petitions[Len(c.petitions)].answer

BodyUnits(w, p) == {i \in DOMAIN w : w[i].pet = p /\ w[i].byte > 0}
BodyLen(c, p) == Cardinality(BodyUnits(c.written, p))

\* The device and the response are those of the last answer, and what was read
\* of the device is what was written.
InBody(c) ==
    /\ c.response = NewResponse(Last(c))
    /\ c.fromModule.kind = "file"
    /\ c.fromModule.total = Last(c).total
    /\ c.fromModule.arrived = Last(c).total
    /\ ~c.fromModule.upstream
    /\ c.fromModule.open \/ c.fromModule.pos = Last(c).total
    /\ c.bytesSent = c.fromModule.pos
    /\ BodyLen(c, Len(c.petitions)) = c.fromModule.pos
    /\ c.atHeader # 0 => c.fromModule.pos = Last(c).total

\* No token comes after the one up to which the device has been read.
LastUnit(c) ==
    \A i \in 1..Len(c.written) :
        /\ c.written[i].pet \in 1..Len(c.petitions)
        /\ c.written[i].pet = Len(c.petitions) =>
             /\ c.written[i].byte <= c.fromModule.pos
             /\ c.written[i].byte = c.fromModule.pos => i = Len(c.written)

InOrder(c) ==
    \A p \in 1..Len(c.petitions) :
        c.petitions[p].id = p /\ c.petitions[p].answer \in Devices

Framed(c) ==
    \A p \in 1..Len(c.petitions) :
        /\ BodyLen(c, p) <= c.petitions[p].answer.total
        /\ p < Len(c.petitions) \/ c.atHeader # 0
             => BodyLen(c, p) = c.petitions[p].answer.total

\* What holds of the client alone.
AnswersOK(c) ==
    /\ InOrder(c)
    /\ Framed(c)
    /\ Len(c.petitions) = 0 => c.written = <<>> /\ c.atHeader # 0
    /\ Alive(c) /\ Len(c.petitions) > 0 => InBody(c)
    /\ Alive(c) => LastUnit(c) /\ ~c.fromModule.upstream

\* What the peer has sent and no slot has read yet.
Unread == inbuf \o net

\* The lines of request n from one of them on.
IsRest(lines, n) ==
    /\ lines # <<>>
    /\ \A i \in 1..Len(lines) :
         /\ lines[i].id = n
         /\ IF i = Len(lines) THEN lines[i].kind = "blank"
            ELSE lines[i].kind \in {"get", "keepalive", "header", "long"}

\* The request as far as it has been read and the lines to come make up what
\* the peer has asked last.
Agree(r, lines, n, keep) ==
    /\ IsRest(lines, n)
    /\ IF r.method THEN r.id = n ELSE lines[1].kind = "get" /\ ~r.keepAlive
    /\ keep <=> r.keepAlive \/ \E i \in 1..Len(lines) : lines[i].kind = "keepalive"

\* Either all that was sent has been answered, or what is unread is one request.
RequestOK ==
    IF Unread = <<>>
    THEN /\ peer.sent = Len(client.petitions)
         /\ IF client.atHeader # 0
            THEN ~client.request.method /\ ~client.request.keepAlive
            ELSE client.request.keepAlive = peer.keep
    ELSE /\ peer.sent = Len(client.petitions) + 1
         /\ client.atHeader # 0
         /\ client.connected => client.flushed = Len(client.written)
         /\ Agree(client.request, Unread, peer.sent, peer.keep)

\* As long as there is a connection, an answer under way has something in the
\* write buffer, so that its slot is called again.
ConnectionOK ==
    /\ reading => client.connected
    /\ client.connected => Alive(client)
    /\ ~client.connected => client.life # "live" /\ (Alive(client) => ~peer.open)
    /\ client.connected /\ client.atHeader = 0 =>
         \/ client.flushed < Len(client.written)
         \/ client.life = "doomed" /\ ~peer.keep

SequentialInv ==
    AnswersOK(client) /\ RequestOK /\ ConnectionOK

\* With whole writes an answer that has been read to its end has also left the
\* write buffer.
PoliteInv ==
    client.connected =>
        /\ client.atHeader # 0 =>
             client.flushed = Len(client.written) /\ client.life = "live"
        /\ client.life = "doomed" =>
             /\ client.atHeader = 0
             /\ client.flushed = Len(client.written)
             /\ client.fromModule.pos = Last(client).total
             /\ ~peer.keep

-----------------------------------------------------------------------------
(* Units of body *)

\* A sequence of tokens has a finite number of units of each answer.
LEMMA BodyFinite ==
    ASSUME NEW w \in Seq(Tokens), NEW p
    PROVE  IsFiniteSet(BodyUnits(w, p)) /\ Cardinality(BodyUnits(w, p)) \in Nat
<1>1. BodyUnits(w, p) \subseteq 1..Len(w) /\ Len(w) \in Nat
  BY DEF BodyUnits
<1>2. IsFiniteSet(1..Len(w))
  BY <1>1, FS_Interval
<1> QED
  BY <1>1, <1>2, FS_Subset, FS_CardinalityType

\* What is written behind w counts for its own answer only.
LEMMA BodyAppended ==
    ASSUME NEW w \in Seq(Tokens), NEW t \in Seq(Tokens), NEW p
    PROVE  /\ (\A j \in 1..Len(t) : t[j].pet = p /\ t[j].byte > 0)
                => Cardinality(BodyUnits(w \o t, p))
                     = Cardinality(BodyUnits(w, p)) + Len(t)
           /\ (\A j \in 1..Len(t) : ~(t[j].pet = p /\ t[j].byte > 0))
                => BodyUnits(w \o t, p) = BodyUnits(w, p)
<1> DEFINE L == Len(w)
           n == Len(t)
<1>1. /\ L \in Nat /\ n \in Nat
      /\ DOMAIN w = 1..L /\ DOMAIN t = 1..n
      /\ w \o t \in Seq(Tokens)
      /\ DOMAIN (w \o t) = 1..(L + n)
      /\ \A i \in 1..L : (w \o t)[i] = w[i]
      /\ \A i \in (L + 1)..(L + n) : i - L \in 1..n /\ (w \o t)[i] = t[i - L]
  OBVIOUS
<1> HIDE DEF L, n
<1>2. \A i \in 1..(L + n) : i \in 1..L \/ i \in (L + 1)..(L + n)
  BY <1>1
<1>3. \A i \in 1..L : i \in 1..(L + n)
  BY <1>1
<1>4. \A i \in (L + 1)..(L + n) : i \in 1..(L + n) /\ i \notin 1..L
  BY <1>1
<1>5. ASSUME \A j \in 1..n : t[j].pet = p /\ t[j].byte > 0
      PROVE  Cardinality(BodyUnits(w \o t, p)) = Cardinality(BodyUnits(w, p)) + n
  <2>1. BodyUnits(w \o t, p) = BodyUnits(w, p) \cup ((L + 1)..(L + n))
    BY <1>1, <1>2, <1>3, <1>4, <1>5 DEF BodyUnits
  <2>2. BodyUnits(w, p) \cap ((L + 1)..(L + n)) = {}
    BY <1>1, <1>4 DEF BodyUnits
  <2>3. /\ IsFiniteSet((L + 1)..(L + n))
        /\ Cardinality((L + 1)..(L + n)) = n
    <3>1. L + 1 \in Int /\ L + n \in Int
      BY <1>1
    <3>2. /\ IsFiniteSet((L + 1)..(L + n))
          /\ Cardinality((L + 1)..(L + n)) =
               IF L + 1 > L + n THEN 0 ELSE (L + n) - (L + 1) + 1
      BY <3>1, FS_Interval
    <3> QED
      BY <1>1, <3>2
  <2>4. IsFiniteSet(BodyUnits(w, p)) /\ Cardinality(BodyUnits(w, p)) \in Nat
    BY BodyFinite
  <2>5. Cardinality({}) = 0
    BY FS_EmptySet
  <2>6. Cardinality(BodyUnits(w, p) \cup ((L + 1)..(L + n)))
          = Cardinality(BodyUnits(w, p)) + Cardinality((L + 1)..(L + n))
            - Cardinality(BodyUnits(w, p) \cap ((L + 1)..(L + n)))
    BY <2>3, <2>4, FS_Union
  <2>7. Cardinality(BodyUnits(w \o t, p)) = Cardinality(BodyUnits(w, p)) + n - 0
    <3>1. Cardinality(BodyUnits(w, p) \cap ((L + 1)..(L + n))) = 0
      BY <2>2, <2>5, Zenon
    <3>2. Cardinality(BodyUnits(w \o t, p))
            = Cardinality(BodyUnits(w, p) \cup ((L + 1)..(L + n)))
      BY <2>1, Zenon
    <3> QED
      BY <2>3, <2>6, <3>1, <3>2, Zenon
  <2> QED
    BY <1>1, <2>4, <2>7
<1>6. ASSUME \A j \in 1..n : ~(t[j].pet = p /\ t[j].byte > 0)
      PROVE  BodyUnits(w \o t, p) = BodyUnits(w, p)
  BY <1>1, <1>2, <1>3, <1>6 DEF BodyUnits
<1> QED
  BY <1>5, <1>6 DEF n

-----------------------------------------------------------------------------
(* The slot readAndWrite *)

\* A device of which all was read may be closed.
Closed(c) == [c EXCEPT !.fromModule.open = FALSE, !.fromModule.upstream = FALSE]

\* Nothing else changes by that.
LEMMA ClosedFields ==
    ASSUME NEW c, ClientType(c)
    PROVE  /\ Closed(c) \in ClientStates
           /\ Closed(c).written = c.written /\ Closed(c).petitions = c.petitions
           /\ Closed(c).connected = c.connected /\ Closed(c).flushed = c.flushed
           /\ Closed(c).response = c.response /\ Closed(c).bytesSent = c.bytesSent
           /\ Closed(c).atHeader = c.atHeader /\ Closed(c).life = c.life
           /\ Closed(c).request = c.request
           /\ Closed(c).fromModule.kind = c.fromModule.kind
           /\ Closed(c).fromModule.pos = c.fromModule.pos
           /\ Closed(c).fromModule.arrived = c.fromModule.arrived
           /\ Closed(c).fromModule.total = c.fromModule.total
           /\ ~Closed(c).fromModule.upstream
BY DEF Closed, ClientType, ClientStates, Sources

\* The device of a file that is there ends where its size says, whether it is
\* its end or the length that is noticed; before, a chunk is written if the
\* write buffer is empty.
LEMMA SlotCases ==
    ASSUME WholeFiles, NEW c, ClientType(c), InBody(c), Last(c) \in Devices,
           c.connected
    PROVE  \/ /\ c.fromModule.pos = Last(c).total
              /\ ReadAndWrite(c) \in {Finish(c), Finish(Closed(c))}
           \/ /\ c.fromModule.pos < Last(c).total
              /\ Queued(c) > 0
              /\ ReadAndWrite(c) = c
           \/ /\ c.fromModule.pos < Last(c).total
              /\ c.flushed = Len(c.written)
              /\ Available(c.fromModule) # 0
              /\ ReadAndWrite(c) = WriteChunk(c)
<1> DEFINE a == Last(c)
           d == CloseIfSent(c)
<1>1. /\ a.kind = "file" /\ a.total \in 1..(WordSize - 1) /\ a.total <= a.length
      /\ a.length \in Nat /\ a.total \in Nat
  BY WordSizeAssumption, DevicesAssumption DEF WholeFiles, Answers
<1>2. /\ c.response.length = a.length /\ ~c.response.ignoreHeaders
  BY <1>1 DEF InBody, NewResponse, FreshResponse
<1>3. /\ c \in ClientStates /\ c.fromModule \in Sources
      /\ c.fromModule.pos \in Nat /\ c.fromModule.pos <= c.fromModule.arrived
      /\ c.fromModule.arrived = a.total
      /\ c.bytesSent = c.fromModule.pos
      /\ c.fromModule.open \/ c.fromModule.pos = a.total
      /\ c.fromModule.kind = "file"
      /\ c.flushed \in Nat /\ Len(c.written) \in Nat /\ c.flushed <= Len(c.written)
  BY DEF InBody, ClientType, ClientStates, Sources
<1> HIDE DEF a
<1>4. CASE c.fromModule.pos = a.total
  <2>1. d = c \/ d = Closed(c)
    BY DEF CloseIfSent, Closed
  <2> HIDE DEF d
  <2>2. /\ d.response = c.response
        /\ d.fromModule.pos = c.fromModule.pos
        /\ d.fromModule.arrived = c.fromModule.arrived
    BY <2>1, ClosedFields
  <2>3. Exhausted(d)
    BY <1>1, <1>2, <1>3, <1>4, <2>2 DEF Exhausted, AtEnd, Available
  <2>4. ReadAndWrite(c) = Finish(d)
    BY <1>3, <2>3 DEF ReadAndWrite, d
  <2> QED
    BY <1>4, <2>1, <2>4 DEF a
<1>5. CASE c.fromModule.pos # a.total
  <2>1. c.fromModule.pos < a.total /\ c.fromModule.open
    BY <1>1, <1>3, <1>5
  <2>2. d = c
    BY <1>1, <1>2, <1>3, <2>1 DEF CloseIfSent
  <2>3. Available(c.fromModule) # 0
    BY <1>1, <1>3, <2>1 DEF Available
  <2>4. ~Exhausted(c)
    BY <1>2, <2>1, <2>3 DEF Exhausted, AtEnd
  <2>5. ReadAndWrite(c) = IF Queued(c) > 0 THEN c ELSE WriteChunk(c)
    BY <1>3, <2>2, <2>3, <2>4 DEF ReadAndWrite
  <2>6. Queued(c) > 0 \/ c.flushed = Len(c.written)
    BY <1>3 DEF Queued
  <2>7. Queued(c) > 0 => c.flushed # Len(c.written)
    BY <1>3 DEF Queued
  <2> QED
    BY <2>1, <2>3, <2>5, <2>6, <2>7 DEF a
<1> QED
  BY <1>4, <1>5

\* e is c with its answer ended.
Ended(c, e) ==
    /\ e.written = c.written /\ e.petitions = c.petitions
    /\ e.connected = c.connected /\ e.flushed = c.flushed
    /\ e.response = c.response /\ e.bytesSent = c.bytesSent
    /\ e.fromModule.kind = c.fromModule.kind
    /\ e.fromModule.pos = c.fromModule.pos
    /\ e.fromModule.arrived = c.fromModule.arrived
    /\ e.fromModule.total = c.fromModule.total
    /\ ~e.fromModule.upstream
    /\ IF c.request.keepAlive
       THEN /\ e.atHeader = 2 /\ e.life = c.life
            /\ ~e.request.method /\ ~e.request.keepAlive
       ELSE /\ e.atHeader = c.atHeader /\ e.life = "doomed"
            /\ e.request = c.request

\* At the end of a file the connection is kept if the request has asked for it.
LEMMA FinishFields ==
    ASSUME WholeFiles, NEW c, ClientType(c), InBody(c), Last(c) \in Devices,
           NEW e \in {Finish(c), Finish(Closed(c))}
    PROVE  Ended(c, e)
<1>1. PICK d \in {c, Closed(c)} : e = Finish(d)
  OBVIOUS
<1>2. c \in ClientStates /\ c.fromModule \in Sources /\ c.request \in Requests
  BY DEF ClientType, ClientStates
<1>3. /\ d.written = c.written /\ d.petitions = c.petitions
      /\ d.connected = c.connected /\ d.flushed = c.flushed
      /\ d.response = c.response /\ d.bytesSent = c.bytesSent
      /\ d.fromModule.kind = c.fromModule.kind
      /\ d.fromModule.pos = c.fromModule.pos
      /\ d.fromModule.arrived = c.fromModule.arrived
      /\ d.fromModule.total = c.fromModule.total
      /\ ~d.fromModule.upstream
      /\ d.atHeader = c.atHeader /\ d.life = c.life
      /\ d.request = c.request
      /\ d \in ClientStates
  BY <1>2, ClosedFields DEF InBody
<1>4. KeepsAlive(d) <=> c.request.keepAlive
  <2>1. Last(c).kind = "file"
    BY DEF WholeFiles
  <2>2. c.response.hasLength /\ c.response.keepAlive
    BY <2>1 DEF InBody, NewResponse, FreshResponse
  <2> QED
    BY <1>3, <2>2 DEF KeepsAlive
<1> HIDE DEF Closed
<1>5. /\ e.written = d.written /\ e.petitions = d.petitions
      /\ e.connected = d.connected /\ e.flushed = d.flushed
      /\ e.response = d.response /\ e.bytesSent = d.bytesSent
      /\ e.fromModule = d.fromModule
      /\ IF KeepsAlive(d)
         THEN e.atHeader = 2 /\ e.life = d.life /\ e.request = CleanRequest(d.request)
         ELSE e.atHeader = d.atHeader /\ e.life = "doomed" /\ e.request = d.request
  BY <1>1, <1>3 DEF Finish, ClientStates
<1>6. ~CleanRequest(c.request).method /\ ~CleanRequest(c.request).keepAlive
  BY <1>2 DEF CleanRequest, Requests
<1> QED
  BY <1>3, <1>4, <1>5, <1>6 DEF Ended

-----------------------------------------------------------------------------
(* What holds of the client alone is kept by its slots. *)

\* It is about nothing but what was written, the petitions, whether a header is
\* read, and the device and response of a client that is there.
LEMMA AnswersFrame ==
    ASSUME NEW c, NEW d, AnswersOK(c),
           d.written = c.written, d.petitions = c.petitions,
           d.atHeader # 0 <=> c.atHeader # 0,
           Alive(d) => /\ Alive(c)
                       /\ d.fromModule = c.fromModule
                       /\ d.response = c.response
                       /\ d.bytesSent = c.bytesSent
    PROVE  AnswersOK(d)
BY DEF AnswersOK, InOrder, Framed, InBody, LastUnit, BodyLen, Last

\* What a chunk changes.
LEMMA ChunkFields ==
    ASSUME NEW c, ClientType(c)
    PROVE  /\ WriteChunk(c).response = c.response
           /\ WriteChunk(c).request = c.request
           /\ WriteChunk(c).atHeader = c.atHeader
           /\ WriteChunk(c).life = c.life
           /\ WriteChunk(c).petitions = c.petitions
           /\ WriteChunk(c).connected = c.connected
           /\ WriteChunk(c).flushed = c.flushed
           /\ WriteChunk(c).written = c.written \o Chunk(c)
           /\ WriteChunk(c).bytesSent = (c.bytesSent + Len(Chunk(c))) % WordSize
           /\ WriteChunk(c).fromModule.pos = c.fromModule.pos + Len(Chunk(c))
           /\ WriteChunk(c).fromModule.kind = c.fromModule.kind
           /\ WriteChunk(c).fromModule.arrived = c.fromModule.arrived
           /\ WriteChunk(c).fromModule.total = c.fromModule.total
           /\ WriteChunk(c).fromModule.open = c.fromModule.open
           /\ WriteChunk(c).fromModule.upstream = c.fromModule.upstream
<1> DEFINE n == Len(Chunk(c))
           w == c.written \o Chunk(c)
<1>1. c \in ClientStates /\ c.fromModule \in Sources
  BY DEF ClientType, ClientStates
<1>2. WriteChunk(c) = [c EXCEPT !.written = w,
                                !.fromModule = [c.fromModule EXCEPT !.pos = @ + n],
                                !.bytesSent = (c.bytesSent + n) % WordSize]
  BY DEF WriteChunk
<1> HIDE DEF n, w
<1>3. WriteChunk(c).fromModule = [c.fromModule EXCEPT !.pos = @ + n]
  BY <1>1, <1>2 DEF ClientStates
<1> QED
  BY <1>1, <1>2, <1>3 DEF ClientStates, Sources, n, w

\* A chunk is the next part of the last answer, and the tokens of a client that
\* has answered have their types.
LEMMA ChunkAnswers ==
    ASSUME WholeFiles, NEW c, ClientType(c), AnswersOK(c), Alive(c),
           Len(c.petitions) > 0, Available(c.fromModule) # 0,
           c.fromModule.pos < Last(c).total
    PROVE  /\ AnswersOK(WriteChunk(c))
           /\ Len(WriteChunk(c).written) > Len(c.written)
           /\ WriteChunk(c).fromModule.pos > c.fromModule.pos
<1> DEFINE P == Len(c.petitions)
           L == Len(c.written)
           pos == c.fromModule.pos
           a == Last(c)
           e == WriteChunk(c)
<1>1. PICK n \in 1..ChunkSize :
        /\ n <= c.fromModule.arrived - pos
        /\ Chunk(c) = [i \in 1..n |-> [pet |-> P, byte |-> pos + i]]
        /\ Chunk(c) \in Seq(Tokens)
        /\ Len(Chunk(c)) = n
  BY ChunkFacts
<1>2. /\ n \in Nat \ {0} /\ L \in Nat /\ P \in Nat \ {0} /\ pos \in Nat
      /\ c.written \in Seq(Tokens)
  BY <1>1, ChunkSizeAssumption DEF ClientType, ClientStates, Sources
<1>3. InOrder(c) /\ Framed(c) /\ InBody(c) /\ LastUnit(c)
  BY DEF AnswersOK
<1>4. /\ a \in Devices /\ a.total \in Nat /\ a.total < WordSize
      /\ c.atHeader = 0
  <2>1. a \in Devices
    BY <1>2, <1>3 DEF InOrder, Last
  <2>2. a.total \in Nat /\ a.total < WordSize
    BY <2>1, WordSizeAssumption DEF WholeFiles
  <2>3. pos # a.total
    BY <1>2, <2>2
  <2> QED
    BY <1>3, <2>1, <2>2, <2>3 DEF InBody
<1>5. pos + n <= a.total
  BY <1>1, <1>2, <1>3, <1>4 DEF InBody
<1>6. /\ e.written = c.written \o Chunk(c)
      /\ e.petitions = c.petitions
      /\ e.atHeader = 0
      /\ e.response = c.response
      /\ e.fromModule.pos = pos + n
      /\ e.bytesSent = (c.bytesSent + n) % WordSize
      /\ e.fromModule.kind = c.fromModule.kind
      /\ e.fromModule.arrived = c.fromModule.arrived
      /\ e.fromModule.total = c.fromModule.total
      /\ e.fromModule.open = c.fromModule.open
      /\ e.fromModule.upstream = c.fromModule.upstream
      /\ Last(e) = a
  BY <1>1, <1>4, ChunkFields DEF Last
<1> HIDE DEF e, P, L, pos, a
<1>7. \A p : BodyLen(e, p) = BodyLen(c, p) + (IF p = P THEN n ELSE 0)
  <2> TAKE p
  <2>0. BodyLen(c, p) \in Nat
    BY <1>2, BodyFinite DEF BodyLen
  <2>a. \A j \in 1..n : Chunk(c)[j].pet = P /\ Chunk(c)[j].byte > 0
    BY <1>1, <1>2
  <2>1. CASE p = P
    <3>1. Cardinality(BodyUnits(c.written \o Chunk(c), P))
            = Cardinality(BodyUnits(c.written, P)) + n
      <4>1. c.written \in Seq(Tokens) /\ Chunk(c) \in Seq(Tokens)
        BY <1>1, <1>2
      <4>2. Len(Chunk(c)) = n
        BY <1>1
      <4>3. \A j \in 1..Len(Chunk(c)) : Chunk(c)[j].pet = P /\ Chunk(c)[j].byte > 0
        BY <2>a, <4>2, Zenon
      <4>4. Cardinality(BodyUnits(c.written \o Chunk(c), P))
              = Cardinality(BodyUnits(c.written, P)) + Len(Chunk(c))
        BY <4>1, <4>3, BodyAppended
      <4> QED
        BY <4>2, <4>4, Zenon
    <3>2. BodyLen(e, p) = BodyLen(c, p) + n
      BY <1>6, <2>1, <3>1, Zenon DEF BodyLen
    <3>3. (IF p = P THEN n ELSE 0) = n
      BY <2>1, Zenon
    <3> QED
      BY <3>2, <3>3, Zenon
  <2>2. CASE p # P
    <3>1. \A j \in 1..n : ~(Chunk(c)[j].pet = p /\ Chunk(c)[j].byte > 0)
      BY <2>a, <2>2
    <3>2. BodyUnits(c.written \o Chunk(c), p) = BodyUnits(c.written, p)
      <4> DEFINE w == c.written
                 t == Chunk(c)
      <4>1. w \in Seq(Tokens) /\ t \in Seq(Tokens)
        BY <1>1, <1>2
      <4>2. \A j \in 1..Len(t) : ~(t[j].pet = p /\ t[j].byte > 0)
        BY <1>1, <3>1
      <4> HIDE DEF w, t
      <4>3. BodyUnits(w \o t, p) = BodyUnits(w, p)
        BY <4>1, <4>2, BodyAppended
      <4> QED
        BY <4>3 DEF w, t
    <3>3. BodyLen(e, p) = BodyLen(c, p)
      BY <1>6, <3>2, Zenon DEF BodyLen
    <3> QED
      BY <2>0, <2>2, <3>3
  <2> QED
    BY <2>1, <2>2
<1>8. BodyLen(c, P) = pos
  BY <1>3 DEF InBody, P, pos
<1>9. Len(e.written) = L + n
  BY <1>1, <1>2, <1>6 DEF L
<1>10. Framed(e)
  <2> SUFFICES ASSUME NEW p \in 1..P
               PROVE  /\ BodyLen(e, p) <= c.petitions[p].answer.total
                      /\ p < P => BodyLen(e, p) = c.petitions[p].answer.total
    BY <1>4, <1>6 DEF Framed, P
  <2>1. CASE p = P
    <3>1. BodyLen(e, p) = pos + n /\ c.petitions[p].answer.total = a.total
      BY <1>7, <1>8, <2>1 DEF Last, P, a
    <3> QED
      BY <1>2, <1>5, <2>1, <3>1
  <2>2. CASE p # P
    <3>1. p < P /\ BodyLen(c, p) \in Nat
      BY <1>2, <2>2, BodyFinite DEF BodyLen
    <3> QED
      BY <1>3, <1>7, <2>2, <3>1 DEF Framed, P
  <2> QED
    BY <2>1, <2>2
<1>11. InBody(e)
  <2>1. e.bytesSent = pos + n
    <3>1. pos + n \in 0..(WordSize - 1)
      BY <1>2, <1>4, <1>5, WordSizeAssumption
    <3>2. (pos + n) % WordSize = pos + n
      BY <3>1, WordSizeAssumption
    <3> QED
      BY <1>3, <1>6, <3>2 DEF InBody, pos
  <2>2. BodyLen(e, P) = pos + n
    BY <1>2, <1>7, <1>8
  <2>3. c.fromModule.open
    <3>1. pos # a.total
      BY <1>2, <1>4 DEF pos, a
    <3> QED
      BY <1>3, <3>1 DEF InBody, pos, a
  <2> QED
    BY <1>3, <1>4, <1>6, <2>1, <2>2, <2>3 DEF InBody, P, a
<1>12. LastUnit(e)
  <2>1. \A i \in 1..L : e.written[i] = c.written[i]
    BY <1>1, <1>2, <1>6 DEF L
  <2>2. \A i \in (L + 1)..(L + n) :
          e.written[i].pet = P /\ e.written[i].byte = pos + (i - L)
    <3> TAKE i \in (L + 1)..(L + n)
    <3>1. i - L \in 1..n
      BY <1>2
    <3>2. e.written[i] = Chunk(c)[i - L]
      BY <1>1, <1>2, <1>6, <3>1 DEF L
    <3> QED
      BY <1>1, <3>1, <3>2
  <2> SUFFICES ASSUME NEW i \in 1..(L + n)
               PROVE  /\ e.written[i].pet \in 1..P
                      /\ e.written[i].pet = P =>
                           /\ e.written[i].byte <= pos + n
                           /\ e.written[i].byte = pos + n => i = L + n
    BY <1>6, <1>9 DEF LastUnit, P
  <2>3. CASE i <= L
    <3>1. i \in 1..L /\ e.written[i] = c.written[i] /\ c.written[i] \in Tokens
      BY <1>2, <2>1, <2>3 DEF L
    <3>2. c.written[i].pet \in 1..P /\ (c.written[i].pet = P => c.written[i].byte <= pos)
      BY <1>3, <3>1 DEF LastUnit, L, P, pos
    <3>3. c.written[i].byte \in Nat
      BY <3>1 DEF Tokens
    <3> QED
      BY <1>2, <3>1, <3>2, <3>3
  <2>4. CASE i > L
    <3>1. i \in (L + 1)..(L + n)
      BY <1>2, <2>4
    <3>2. e.written[i].pet = P /\ e.written[i].byte = pos + (i - L)
      BY <2>2, <3>1
    <3>3. i - L <= n /\ (i - L = n => i = L + n) /\ i - L \in Nat
      BY <1>2, <3>1
    <3> DEFINE k == i - L
    <3> HIDE DEF k
    <3>4. pos + k <= pos + n /\ (pos + k = pos + n => i = L + n)
      BY <1>2, <3>3 DEF k
    <3>5. e.written[i].byte = pos + k
      BY <3>2 DEF k
    <3>6. P \in 1..P
      BY <1>2
    <3> QED
      BY <3>2, <3>4, <3>5, <3>6, Zenon
  <2> QED
    BY <1>2, <2>3, <2>4
<1>13. InOrder(e)
  BY <1>3, <1>6 DEF InOrder
<1>14. AnswersOK(e)
  BY <1>2, <1>6, <1>10, <1>11, <1>12, <1>13 DEF AnswersOK, InBody, P
<1> QED
  BY <1>2, <1>6, <1>9, <1>14 DEF e, L, pos

\* e is c after its slot: an answer that is at its end ends, any other has
\* something in the write buffer.
Slotted(c, e) ==
    /\ AnswersOK(e) /\ Alive(e)
    /\ e.petitions = c.petitions
    /\ e.connected /\ e.flushed = c.flushed
    /\ \/ /\ c.fromModule.pos = Last(c).total
          /\ e.fromModule.pos = c.fromModule.pos
          /\ e.written = c.written
          /\ IF c.request.keepAlive
             THEN /\ e.atHeader = 2 /\ e.life = c.life
                  /\ ~e.request.method /\ ~e.request.keepAlive
             ELSE /\ e.atHeader = c.atHeader /\ e.life = "doomed"
                  /\ e.request = c.request
       \/ /\ c.fromModule.pos # Last(c).total
          /\ c.flushed = Len(c.written) => e.fromModule.pos > c.fromModule.pos
          /\ e.atHeader = 0 /\ c.atHeader = 0
          /\ e.life = c.life
          /\ e.request = c.request
          /\ e.flushed < Len(e.written)

\* The slot keeps what holds of the client.
LEMMA SlotAnswers ==
    ASSUME WholeFiles, NEW c, ClientType(c), AnswersOK(c), Alive(c), c.connected,
           Len(c.petitions) > 0,
           NEW e, e = ReadAndWrite(c)
    PROVE  Slotted(c, e)
<1>1. /\ InBody(c) /\ InOrder(c) /\ Framed(c) /\ LastUnit(c)
  BY DEF AnswersOK
<1>2. Len(c.petitions) \in Nat /\ c.flushed \in Nat /\ Len(c.written) \in Nat
      /\ c.flushed <= Len(c.written)
  BY DEF ClientType, ClientStates
<1>3. Last(c) \in Devices /\ Last(c).total \in Nat
  BY <1>1, <1>2, WordSizeAssumption DEF InOrder, Last, WholeFiles
<1>4. c.fromModule.pos \in Nat
  BY DEF ClientType, ClientStates, Sources
<1>5. CASE /\ c.fromModule.pos = Last(c).total
           /\ e \in {Finish(c), Finish(Closed(c))}
  <2>0. Ended(c, e)
    BY <1>1, <1>3, <1>5, FinishFields
  <2>1. /\ e.written = c.written /\ e.petitions = c.petitions
        /\ e.connected = c.connected /\ e.flushed = c.flushed
        /\ e.response = c.response /\ e.bytesSent = c.bytesSent
        /\ e.fromModule.kind = c.fromModule.kind
        /\ e.fromModule.pos = c.fromModule.pos
        /\ e.fromModule.arrived = c.fromModule.arrived
        /\ e.fromModule.total = c.fromModule.total
        /\ ~e.fromModule.upstream
        /\ IF c.request.keepAlive
           THEN /\ e.atHeader = 2 /\ e.life = c.life
                /\ ~e.request.method /\ ~e.request.keepAlive
           ELSE /\ e.atHeader = c.atHeader /\ e.life = "doomed"
                /\ e.request = c.request
    BY <2>0 DEF Ended
  <2>2. Framed(e)
    <3> SUFFICES ASSUME NEW p \in 1..Len(c.petitions)
                 PROVE  BodyLen(c, p) = c.petitions[p].answer.total
      BY <1>1, <2>1 DEF Framed, BodyLen
    <3>1. CASE p = Len(c.petitions)
      BY <1>1, <1>5, <3>1 DEF InBody, Last
    <3>2. CASE p # Len(c.petitions)
      BY <1>1, <1>2, <3>2 DEF Framed
    <3> QED
      BY <3>1, <3>2
  <2>3. InBody(e)
    BY <1>1, <1>5, <2>1 DEF InBody, Last, BodyLen
  <2>4. Alive(e)
    BY <2>1 DEF Alive
  <2>5. c.atHeader # 0 => e.atHeader # 0
    BY <2>1
  <2>6. AnswersOK(e)
    BY <1>1, <2>1, <2>2, <2>3 DEF AnswersOK, InOrder, LastUnit
  <2> QED
    BY <1>5, <2>1, <2>4, <2>6 DEF Slotted
<1>6. CASE /\ c.fromModule.pos < Last(c).total
           /\ Queued(c) > 0
           /\ e = c
  <2>1. c.flushed < Len(c.written)
    BY <1>2, <1>6 DEF Queued
  <2>2. c.fromModule.pos # Last(c).total
    BY <1>3, <1>4, <1>6
  <2>3. c.flushed # Len(c.written)
    BY <1>2, <2>1
  <2> QED
    BY <1>1, <1>6, <2>1, <2>2, <2>3 DEF InBody, Slotted
<1>7. CASE /\ c.fromModule.pos < Last(c).total
           /\ c.flushed = Len(c.written)
           /\ Available(c.fromModule) # 0
           /\ e = WriteChunk(c)
  <2>1. /\ AnswersOK(e) /\ Len(e.written) > Len(c.written)
        /\ e.fromModule.pos > c.fromModule.pos
    BY <1>7, ChunkAnswers
  <2>2. c.fromModule.pos # Last(c).total
    BY <1>3, <1>4, <1>7
  <2>3. /\ e.petitions = c.petitions /\ e.connected = c.connected
        /\ e.flushed = c.flushed /\ e.atHeader = c.atHeader
        /\ e.life = c.life /\ e.request = c.request
    BY <1>7, ChunkFields
  <2>4. c.atHeader = 0
    BY <1>1, <2>2 DEF InBody
  <2> QED
    BY <1>7, <2>1, <2>2, <2>3, <2>4 DEF Alive, Slotted
<1> QED
  BY <1>1, <1>3, <1>5, <1>6, <1>7, SlotCases
\* A sequence that goes on with one element.
LEMMA OneMore ==
    ASSUME NEW S, NEW u \in Seq(S), NEW v \in Seq(S), Len(v) = 1
    PROVE  /\ Len(u \o v) = Len(u) + 1
           /\ \A i \in 1..Len(u) : (u \o v)[i] = u[i]
           /\ (u \o v)[Len(u) + 1] = v[1]
<1> DEFINE n == Len(u)
<1>1. n \in Nat
  OBVIOUS
<1>2. /\ Len(u \o v) = n + Len(v)
      /\ \A i \in 1..(n + Len(v)) :
           (u \o v)[i] = IF i <= n THEN u[i] ELSE v[i - n]
  BY ConcatProperties
<1> HIDE DEF n
<1>3. n + 1 \in 1..(n + 1) /\ ~(n + 1 <= n) /\ (n + 1) - n = 1
  BY <1>1
<1>4. \A i \in 1..n : i \in 1..(n + 1) /\ i <= n
  BY <1>1
<1>5. \A i \in 1..(n + 1) : (u \o v)[i] = IF i <= n THEN u[i] ELSE v[i - n]
  BY <1>2
<1>6. (u \o v)[n + 1] = v[1]
  BY <1>3, <1>5
<1>7. \A i \in 1..n : (u \o v)[i] = u[i]
  BY <1>4, <1>5
<1> QED
  BY <1>2, <1>6, <1>7 DEF n

\* s is c with the answer a begun.
Started(c, a, s) ==
    /\ ClientType(s)
    /\ s.response = NewResponse(a)
    /\ s.bytesSent = 0
    /\ s.fromModule = Opened(a)
    /\ s.petitions = Append(c.petitions, [id |-> c.request.id, answer |-> a])
    /\ s.written = c.written \o <<[pet |-> Len(c.petitions) + 1, byte |-> 0]>>
    /\ s.life = c.life
    /\ s.atHeader = c.atHeader /\ s.request = c.request
    /\ s.connected = c.connected /\ s.flushed = c.flushed

\* What the start of an answer changes.
LEMMA StartFields ==
    ASSUME WholeFiles, NEW c, ClientType(c), NEW a \in Devices, c.connected,
           ~c.fromModule.upstream
    PROVE  Started(c, a, StartAnswer(c, a))
<1>1. c \in ClientStates
  BY DEF ClientType
<1>2. a.kind = "file"
  BY DEF WholeFiles
<1> DEFINE rs == NewResponse(a)
           m == Opened(a)
           p == Append(c.petitions, [id |-> c.request.id, answer |-> a])
           w == c.written \o <<[pet |-> Len(c.petitions) + 1, byte |-> 0]>>
           s == StartAnswer(c, a)
<1>3. s = [c EXCEPT !.response = rs, !.bytesSent = 0, !.fromModule = m,
                    !.petitions = p, !.written = w, !.life = c.life]
  BY <1>1, <1>2 DEF StartAnswer, HeaderToken, ClientStates
<1>4. ClientType(s)
  BY StartAnswerType
<1> HIDE DEF rs, m, p, w, s
<1>5. /\ s.response = rs /\ s.bytesSent = 0 /\ s.fromModule = m
      /\ s.petitions = p /\ s.written = w /\ s.life = c.life
      /\ s.atHeader = c.atHeader /\ s.request = c.request
      /\ s.connected = c.connected /\ s.flushed = c.flushed
  BY <1>1, <1>3 DEF ClientStates
<1> QED
  BY <1>4, <1>5 DEF rs, m, p, w, s, Started

\* The answer to the next request starts when all others are complete, and its
\* header waits in the write buffer, so that no body is read yet.
LEMMA StartAnswers ==
    ASSUME WholeFiles,
           NEW b, ClientType(b), AnswersOK(b), Alive(b), b.atHeader # 0,
           NEW c, ClientType(c), c.written = b.written, c.petitions = b.petitions,
           c.fromModule = b.fromModule, c.life = b.life, c.connected,
           c.atHeader = 0, c.request.id = Len(b.petitions) + 1,
           NEW a \in Devices,
           NEW e, e = ProcessPetition(c, a)
    PROVE  /\ AnswersOK(e)
           /\ e = StartAnswer(c, a)
           /\ e.flushed < Len(e.written)
           /\ Len(e.petitions) = Len(b.petitions) + 1
           /\ BodyLen(e, Len(e.petitions)) = 0
           /\ Last(e) = a
<1> DEFINE P == Len(b.petitions)
           L == Len(b.written)
           s == StartAnswer(c, a)
           h == <<[pet |-> P + 1, byte |-> 0]>>
<1>1. /\ P \in Nat /\ L \in Nat
      /\ b.petitions \in Seq(Petitions) /\ b.written \in Seq(Tokens)
      /\ c.flushed \in Nat /\ c.flushed <= L
  BY DEF ClientType, ClientStates
<1>2. /\ InOrder(b) /\ Framed(b) /\ LastUnit(b) /\ ~c.fromModule.upstream
      /\ P = 0 => b.written = <<>>
  BY DEF AnswersOK
<1>3. /\ a.kind = "file" /\ a.open /\ a.total \in Nat /\ a.total > 0
      /\ a.total < WordSize
  BY WordSizeAssumption DEF WholeFiles
<1>4. /\ ClientType(s)
      /\ s.response = NewResponse(a) /\ s.bytesSent = 0
      /\ s.fromModule = Opened(a)
      /\ s.petitions = Append(b.petitions, [id |-> c.request.id, answer |-> a])
      /\ s.written = b.written \o h
      /\ s.life = b.life /\ s.atHeader = 0
      /\ s.connected /\ s.flushed = c.flushed
  <2>1. Started(c, a, s)
    BY <1>2, StartFields
  <2> QED
    BY <2>1 DEF Started
<1>5. /\ Opened(a).pos = 0 /\ Opened(a).arrived = a.total
      /\ Opened(a).total = a.total /\ Opened(a).kind = "file"
      /\ ~Opened(a).upstream /\ Opened(a).open
  BY <1>3 DEF Opened
<1> HIDE DEF s
<1>6. /\ Len(s.petitions) = P + 1
      /\ \A p \in 1..P : s.petitions[p] = b.petitions[p]
      /\ s.petitions[P + 1].id = P + 1 /\ s.petitions[P + 1].answer = a
  <2> DEFINE q == [id |-> c.request.id, answer |-> a]
  <2>1. q.id = P + 1 /\ q.answer = a
    OBVIOUS
  <2>2. s.petitions = Append(b.petitions, q)
    BY <1>4
  <2> HIDE DEF q
  <2>3. /\ Len(s.petitions) = P + 1
        /\ \A p \in 1..P : s.petitions[p] = b.petitions[p]
        /\ s.petitions[P + 1] = q
    BY <1>1, <2>2
  <2> QED
    BY <2>1, <2>3
<1>7. Last(s) = a
  BY <1>6 DEF Last
<1>8. /\ h \in Seq(Tokens) /\ Len(h) = 1
      /\ h[1].pet = P + 1 /\ h[1].byte = 0
  <2> DEFINE t == [pet |-> P + 1, byte |-> 0]
  <2>1. t \in Tokens /\ t.pet = P + 1 /\ t.byte = 0
    BY <1>1 DEF Tokens
  <2>2. h = <<t>>
    OBVIOUS
  <2> HIDE DEF t, h
  <2> QED
    BY <2>1, <2>2
<1> HIDE DEF h
<1>9. /\ Len(s.written) = L + 1
      /\ \A i \in 1..L : s.written[i] = b.written[i]
      /\ s.written[L + 1] = h[1]
  <2>1. b.written \in Seq(Tokens)
    BY <1>1
  <2> QED
    BY <1>4, <1>8, <2>1, OneMore DEF L
<1> HIDE DEF P, L
<1>10. \A p : BodyLen(s, p) = BodyLen(b, p)
  <2> TAKE p
  <2>1. \A j \in 1..Len(h) : ~(h[j].pet = p /\ h[j].byte > 0)
    BY <1>8
  <2>2. BodyUnits(b.written \o h, p) = BodyUnits(b.written, p)
    BY <1>1, <1>8, <2>1, BodyAppended
  <2> QED
    BY <1>4, <2>2, Zenon DEF BodyLen
<1>11. BodyLen(s, P + 1) = 0
  <2>1. \A i \in 1..Len(b.written) : b.written[i].pet # P + 1
    BY <1>1, <1>2 DEF LastUnit, P
  <2>2. DOMAIN b.written = 1..Len(b.written)
    BY <1>1
  <2>3. BodyUnits(b.written, P + 1) = {}
    BY <2>1, <2>2, Zenon DEF BodyUnits
  <2> QED
    BY <1>10, <2>3, FS_EmptySet, Zenon DEF BodyLen
<1>12. Framed(s)
  <2> SUFFICES ASSUME NEW p \in 1..(P + 1)
               PROVE  /\ BodyLen(s, p) <= s.petitions[p].answer.total
                      /\ p < P + 1 => BodyLen(s, p) = s.petitions[p].answer.total
    BY <1>4, <1>6 DEF Framed
  <2>1. CASE p = P + 1
    <3>1. BodyLen(s, p) = 0 /\ s.petitions[p].answer = a
      BY <1>6, <1>11, <2>1
    <3> QED
      BY <1>1, <1>3, <2>1, <3>1
  <2>2. CASE p # P + 1
    <3>1. p \in 1..P
      BY <1>1, <2>2
    <3>2. BodyLen(s, p) = s.petitions[p].answer.total
      BY <1>2, <1>6, <1>10, <3>1 DEF Framed, P
    <3>3. BodyLen(s, p) \in Nat
      BY <1>1, <1>10, BodyFinite DEF BodyLen
    <3> QED
      BY <3>2, <3>3
  <2> QED
    BY <2>1, <2>2
<1>13. InOrder(s)
  <2> SUFFICES ASSUME NEW p \in 1..(P + 1)
               PROVE  s.petitions[p].id = p /\ s.petitions[p].answer \in Devices
    BY <1>6 DEF InOrder
  <2>1. CASE p = P + 1
    BY <1>6, <2>1
  <2>2. CASE p # P + 1
    <3>1. p \in 1..P
      BY <1>1, <2>2
    <3> QED
      BY <1>2, <1>6, <3>1 DEF InOrder, P
  <2> QED
    BY <2>1, <2>2
<1>14. InBody(s)
  BY <1>4, <1>5, <1>6, <1>7, <1>11 DEF InBody
<1>15. LastUnit(s)
  <2> SUFFICES ASSUME NEW i \in 1..(L + 1)
               PROVE  /\ s.written[i].pet \in 1..(P + 1)
                      /\ s.written[i].pet = P + 1 =>
                           s.written[i].byte <= 0 /\ i = L + 1
    BY <1>4, <1>5, <1>6, <1>9 DEF LastUnit
  <2>1. CASE i = L + 1
    <3>1. s.written[i].pet = P + 1 /\ s.written[i].byte = 0
      BY <1>8, <1>9, <2>1
    <3> QED
      BY <1>1, <2>1, <3>1
  <2>2. CASE i # L + 1
    <3>1. i \in 1..L
      BY <1>1, <2>2
    <3>2. s.written[i].pet \in 1..P
      BY <1>2, <1>9, <3>1 DEF LastUnit, L, P
    <3> QED
      BY <1>1, <3>2
  <2> QED
    BY <2>1, <2>2
<1>16. AnswersOK(s)
  BY <1>1, <1>4, <1>5, <1>6, <1>12, <1>13, <1>14, <1>15 DEF AnswersOK
<1>17. ReadAndWrite(s) = s
  <2>1. Last(s) \in Devices /\ s.fromModule.pos = 0 /\ Last(s).total # 0
    BY <1>3, <1>4, <1>5, <1>7
  <2>2. s.flushed # Len(s.written)
    BY <1>1, <1>4, <1>9
  <2> QED
    BY <1>4, <1>14, <2>1, <2>2, SlotCases
<1> QED
  BY <1>1, <1>4, <1>6, <1>7, <1>9, <1>11, <1>16, <1>17 DEF ProcessPetition, s, P

-----------------------------------------------------------------------------
(* The loop of readRequest *)

\* What a part of a line changes.
LEMMA FeedFields ==
    ASSUME NEW c, ClientType(c), NEW line \in Lines, c.atHeader # 0
    PROVE  /\ Feed(c, line).life = c.life
           /\ Feed(c, line).response = c.response
           /\ Feed(c, line).bytesSent = c.bytesSent
           /\ Feed(c, line).atHeader = IF line.kind = "blank" THEN c.atHeader - 1 ELSE 2
           /\ Feed(c, line).request = AddHeader(c.request, line)
<1> DEFINE h == IF line.kind = "blank" THEN c.atHeader - 1 ELSE 2
           r == AddHeader(c.request, line)
<1>1. c \in ClientStates
  BY DEF ClientType
<1>2. Feed(c, line) = [c EXCEPT !.atHeader = h, !.request = r]
  BY DEF Feed
<1> HIDE DEF h, r
<1> QED
  BY <1>1, <1>2 DEF ClientStates, h, r

\* The line that ends a request leaves the request as it is.
LEMMA FeedBlank ==
    ASSUME NEW c, ClientType(c), NEW line \in Lines,
           c.atHeader # 0, c.request.method, line.kind = "blank"
    PROVE  /\ FeedLine(c, line).atHeader = 0
           /\ FeedLine(c, line).request = c.request
           /\ FeedLine(c, line).life = c.life
<1>1. c.request \in Requests /\ c.atHeader \in 1..2
  BY DEF ClientType, ClientStates
<1>2. AddHeader(c.request, line) = c.request
  BY <1>1 DEF AddHeader, Requests
<1> DEFINE d == Feed(c, line)
<1>3. /\ ClientType(d) /\ d.life = c.life
      /\ d.atHeader = c.atHeader - 1 /\ d.request = c.request
  BY <1>2, FeedType, FeedFields
<1>4. CASE d.atHeader = 0
  BY <1>3, <1>4 DEF FeedLine
<1>5. CASE d.atHeader # 0
  <2>1. Blank \in Lines /\ Blank.kind = "blank"
    BY DEF Blank, Lines, LineKinds
  <2>2. AddHeader(d.request, Blank) = d.request
    BY <1>1, <1>3, <2>1 DEF AddHeader, Requests
  <2>3. FeedLine(c, line) = Feed(d, Blank)
    BY <1>5 DEF FeedLine, Fragment
  <2> HIDE DEF d
  <2>4. /\ Feed(d, Blank).life = d.life
        /\ Feed(d, Blank).atHeader = d.atHeader - 1
        /\ Feed(d, Blank).request = d.request
    BY <1>3, <1>5, <2>1, <2>2, FeedFields
  <2> QED
    BY <1>1, <1>3, <1>5, <2>3, <2>4
<1> QED
  BY <1>4, <1>5

\* Any other line of a request leaves the header open.
LEMMA FeedHeader ==
    ASSUME NEW c, ClientType(c), NEW line \in Lines, c.atHeader # 0,
           line.kind \in {"get", "keepalive", "header", "long"},
           c.request.method \/ (line.kind = "get" /\ ~c.request.keepAlive)
    PROVE  /\ FeedLine(c, line).atHeader # 0
           /\ FeedLine(c, line).life = c.life
           /\ FeedLine(c, line).response = c.response
           /\ FeedLine(c, line).bytesSent = c.bytesSent
           /\ FeedLine(c, line).request.method
           /\ FeedLine(c, line).request.id =
                IF c.request.method THEN c.request.id ELSE line.id
           /\ FeedLine(c, line).request.keepAlive
                <=> c.request.keepAlive \/ line.kind = "keepalive"
<1> DEFINE r == AddHeader(c.request, line)
           d == Feed(c, line)
<1>1. c.request \in Requests
  BY DEF ClientType, ClientStates
<1>2. /\ r \in Requests /\ r.method
      /\ r.id = IF c.request.method THEN c.request.id ELSE line.id
      /\ r.keepAlive <=> c.request.keepAlive \/ line.kind = "keepalive"
  BY <1>1 DEF AddHeader, FirstLine, Requests, Lines
<1>3. /\ ClientType(d) /\ d.life = c.life /\ d.response = c.response
      /\ d.bytesSent = c.bytesSent /\ d.atHeader = 2 /\ d.request = r
  BY FeedType, FeedFields
<1> HIDE DEF r
<1>4. CASE line.kind = "long"
  BY <1>2, <1>3, <1>4 DEF FeedLine, Fragment
<1>5. CASE line.kind # "long"
  <2>1. Blank \in Lines /\ Blank.kind = "blank"
    BY DEF Blank, Lines, LineKinds
  <2>2. AddHeader(r, Blank) = r
    BY <1>2, <2>1 DEF AddHeader, Requests
  <2>3. FeedLine(c, line) = Feed(d, Blank)
    BY <1>3, <1>5 DEF FeedLine, Fragment
  <2> HIDE DEF d
  <2>4. /\ Feed(d, Blank).life = d.life
        /\ Feed(d, Blank).response = d.response
        /\ Feed(d, Blank).bytesSent = d.bytesSent
        /\ Feed(d, Blank).atHeader = d.atHeader - 1
        /\ Feed(d, Blank).request = r
    BY <1>3, <2>1, <2>2, FeedFields
  <2> QED
    BY <1>2, <1>3, <2>3, <2>4
<1> QED
  BY <1>4, <1>5

\* The loop takes one line at a time: the request and what is unread of it
\* still make up what the peer has asked.
LEMMA AgreeStep ==
    ASSUME NEW lines \in Seq(Lines), NEW n \in Nat, NEW keep \in BOOLEAN,
           NEW r \in Requests, NEW q \in Requests,
           Agree(r, lines, n, keep),
           lines[1].kind # "blank",
           q.method, q.id = IF r.method THEN r.id ELSE lines[1].id,
           q.keepAlive <=> r.keepAlive \/ lines[1].kind = "keepalive"
    PROVE  /\ Agree(q, Remainder(lines[1]) \o Tail(lines), n, keep)
           /\ Remainder(lines[1]) \o Tail(lines) # <<>>
<1> DEFINE m == Len(lines)
           rest == Remainder(lines[1]) \o Tail(lines)
<1>1. /\ m \in Nat /\ m > 0
      /\ \A i \in 1..m :
           /\ lines[i] \in Lines
           /\ lines[i].id = n
           /\ IF i = m THEN lines[i].kind = "blank"
              ELSE lines[i].kind \in {"get", "keepalive", "header", "long"}
  BY DEF Agree, IsRest
<1>2. m > 1 /\ lines[1] \in Lines /\ lines[1].id = n
  BY <1>1
<1>3. q.id = n
  BY <1>2 DEF Agree
<1>4. /\ Tail(lines) \in Seq(Lines) /\ Len(Tail(lines)) = m - 1
      /\ \A i \in 1..(m - 1) : Tail(lines)[i] = lines[i + 1]
  BY <1>2, HeadTailProperties
<1> HIDE DEF m
<1>5. keep <=> r.keepAlive \/ \E i \in 1..m : lines[i].kind = "keepalive"
  BY DEF Agree, m
<1>6. CASE lines[1].kind = "long"
  <2> DEFINE l == [lines[1] EXCEPT !.kind = "header"]
  <2>1. l \in Lines /\ l.kind = "header" /\ l.id = n
    BY <1>2 DEF Lines, LineKinds
  <2>2. rest = <<l>> \o Tail(lines)
    BY <1>6 DEF Remainder
  <2> HIDE DEF l, rest
  <2>3. <<l>> \in Seq(Lines) /\ Len(<<l>>) = 1 /\ <<l>>[1] = l
    BY <2>1
  <2>4. Len(rest) = m
    BY <1>1, <1>4, <2>2, <2>3
  <2>5. \A i \in 1..m : rest[i] = IF i = 1 THEN l ELSE lines[i]
    <3> TAKE i \in 1..m
    <3>1. i # 1 => i - 1 \in 1..(m - 1) /\ (i - 1) + 1 = i
      BY <1>1
    <3>2. rest[i] = IF i <= 1 THEN <<l>>[i] ELSE Tail(lines)[i - 1]
      BY <1>1, <1>4, <2>2, <2>3, ConcatProperties
    <3> QED
      BY <1>1, <1>4, <2>3, <3>1, <3>2
  <2>6. IsRest(rest, n)
    BY <1>1, <1>2, <2>1, <2>4, <2>5 DEF IsRest
  <2>7. (\E i \in 1..m : rest[i].kind = "keepalive")
          <=> \E i \in 1..m : lines[i].kind = "keepalive"
    BY <1>1, <1>2, <1>6, <2>1, <2>5
  <2>8. q.keepAlive <=> r.keepAlive
    BY <1>6
  <2> QED
    BY <1>3, <1>5, <2>4, <2>6, <2>7, <2>8 DEF Agree, IsRest, rest
<1>7. CASE lines[1].kind # "long"
  <2>1. Remainder(lines[1]) = <<>>
    BY <1>1, <1>2, <1>7 DEF Remainder
  <2>2. rest = Tail(lines)
    BY <1>4, <2>1
  <2> HIDE DEF rest
  <2>3. /\ Len(rest) = m - 1
        /\ \A i \in 1..(m - 1) : i + 1 \in 1..m /\ rest[i] = lines[i + 1]
    BY <1>1, <1>4, <2>2
  <2>4. rest # <<>>
    BY <1>1, <1>2, <2>3
  <2>5. IsRest(rest, n)
    <3> SUFFICES ASSUME NEW i \in 1..(m - 1)
                 PROVE  /\ rest[i].id = n
                        /\ IF i = m - 1 THEN rest[i].kind = "blank"
                           ELSE rest[i].kind \in {"get", "keepalive", "header", "long"}
      BY <2>3, <2>4 DEF IsRest
    <3>1. i + 1 = m <=> i = m - 1
      BY <1>1
    <3> DEFINE j == i + 1
    <3>2. j \in 1..m /\ rest[i] = lines[j] /\ (j = m <=> i = m - 1)
      BY <2>3, <3>1
    <3> HIDE DEF j
    <3> QED
      BY <1>1, <3>2
  <2>6. (\E i \in 1..m : lines[i].kind = "keepalive")
          <=> \/ lines[1].kind = "keepalive"
              \/ \E i \in 1..(m - 1) : rest[i].kind = "keepalive"
    <3>1. \A i \in 1..m : i = 1 \/ (i - 1 \in 1..(m - 1) /\ (i - 1) + 1 = i)
      BY <1>1
    <3>2. 1 \in 1..m
      BY <1>1
    <3> QED
      BY <2>3, <3>1, <3>2
  <2> QED
    BY <1>3, <1>5, <2>3, <2>4, <2>5, <2>6 DEF Agree, rest
<1> QED
  BY <1>6, <1>7

-----------------------------------------------------------------------------
(* The network and the read buffer *)

LEMMA LinesJoin ==
    ASSUME NEW a \in Seq(Lines), NEW b \in Seq(Lines), NEW c \in Seq(Lines)
    PROVE  (a \o b) \o c = a \o (b \o c)
BY ConcatAssociative

\* What the network delivers does not change what is unread.
LEMMA DeliveredIsUnread ==
    ASSUME NEW b \in Seq(Lines), NEW n \in Seq(Lines), NEW k \in 1..Len(n)
    PROVE  (b \o SubSeq(n, 1, k)) \o SubSeq(n, k + 1, Len(n)) = b \o n
<1>1. Len(n) \in Nat /\ k \in Nat /\ k <= Len(n)
  OBVIOUS
<1>2. /\ SubSeq(n, 1, k) \in Seq(Lines)
      /\ SubSeq(n, k + 1, Len(n)) \in Seq(Lines)
  BY <1>1, SubSeqProperties
<1>3. SubSeq(n, 1, k) \o SubSeq(n, k + 1, Len(n)) = SubSeq(n, 1, Len(n))
  <2>1. 1 \in 1..(Len(n) + 1) /\ k \in (1 - 1)..Len(n) /\ Len(n) \in k..Len(n)
    BY <1>1
  <2> QED
    BY <2>1, ConcatAdjacentSubSeq
<1>4. SubSeq(n, 1, Len(n)) = n
  BY SubSeqFull
<1>5. (b \o SubSeq(n, 1, k)) \o SubSeq(n, k + 1, Len(n))
        = b \o (SubSeq(n, 1, k) \o SubSeq(n, k + 1, Len(n)))
  <2> DEFINE t == SubSeq(n, 1, k)
             u == SubSeq(n, k + 1, Len(n))
  <2>1. t \in Seq(Lines) /\ u \in Seq(Lines)
    BY <1>2
  <2> HIDE DEF t, u
  <2>2. (b \o t) \o u = b \o (t \o u)
    BY <2>1, LinesJoin
  <2> QED
    BY <2>2 DEF t, u
<1> QED
  BY <1>3, <1>4, <1>5, Zenon

\* The line that is read is the first that is unread.
LEMMA ReadIsUnread ==
    ASSUME NEW b \in Seq(Lines), NEW n \in Seq(Lines), b # <<>>
    PROVE  /\ b \o n \in Seq(Lines) /\ b \o n # <<>>
           /\ (b \o n)[1] = Head(b)
           /\ (Remainder(Head(b)) \o Tail(b)) \o n
                = Remainder((b \o n)[1]) \o Tail(b \o n)
<1>1. /\ Head(b) \in Lines /\ Tail(b) \in Seq(Lines)
      /\ b \o n \in Seq(Lines) /\ Len(b \o n) = Len(b) + Len(n)
      /\ Len(b) \in Nat \ {0} /\ Len(n) \in Nat
  BY HeadTailProperties
<1>2. b \o n # <<>> /\ (b \o n)[1] = Head(b)
  BY <1>1
<1>3. Tail(b \o n) = Tail(b) \o n
  <2>1. <<Head(b)>> \in Seq(Lines) /\ Tail(b) \o n \in Seq(Lines)
    BY <1>1
  <2>2. b = <<Head(b)>> \o Tail(b)
    OBVIOUS
  <2>3. b \o n = <<Head(b)>> \o (Tail(b) \o n)
    BY <1>1, <2>1, <2>2, ConcatAssociative
  <2> DEFINE t == Tail(b) \o n
             h == Head(b)
  <2> HIDE DEF t, h
  <2>4. ASSUME h \in Lines, t \in Seq(Lines)
        PROVE  Tail(<<h>> \o t) = t
    BY <2>4
  <2> QED
    BY <1>1, <2>1, <2>3, <2>4 DEF t, h
<1>4. Remainder(Head(b)) \in Seq(Lines)
  BY <1>1, RemainderType
<1>5. (Remainder(Head(b)) \o Tail(b)) \o n = Remainder(Head(b)) \o (Tail(b) \o n)
  BY <1>1, <1>4, ConcatAssociative
<1> QED
  BY <1>1, <1>2, <1>3, <1>5, Zenon

-----------------------------------------------------------------------------
(* One step of Client at a time *)

\* What TypeOK says in the words of this module.
LEMMA Types ==
    ASSUME TypeOK
    PROVE  /\ ClientType(client) /\ client \in ClientStates
           /\ client.request \in Requests
           /\ client.written \in Seq(Tokens) /\ client.petitions \in Seq(Petitions)
           /\ Len(client.petitions) \in Nat
           /\ client.flushed \in Nat /\ Len(client.written) \in Nat
           /\ client.flushed <= Len(client.written)
           /\ net \in Seq(Lines) /\ inbuf \in Seq(Lines) /\ Unread \in Seq(Lines)
           /\ peer \in [sent : 0..MaxRequests, keep : BOOLEAN, open : BOOLEAN]
           /\ peer.sent \in Nat /\ peer.keep \in BOOLEAN
           /\ reading \in BOOLEAN /\ (reading => inbuf # <<>>)
BY MaxRequestsAssumption DEF TypeOK, ClientType, ClientStates, Unread

\* A new connection has neither been asked nor answered.
LEMMA SequentialInit == Init => SequentialInv
<1> SUFFICES ASSUME Init
             PROVE  SequentialInv
  OBVIOUS
<1>1. /\ client.petitions = <<>> /\ client.written = <<>>
      /\ client.atHeader = 2 /\ client.connected /\ client.life = "live"
      /\ ~client.request.method /\ ~client.request.keepAlive
      /\ ~client.fromModule.upstream
  BY DEF Init, NewClient, NewRequest, NoDevice
<1>2. AnswersOK(client)
  BY <1>1 DEF AnswersOK, InOrder, Framed, LastUnit
<1>3. Unread = <<>> /\ peer.sent = 0 /\ ~reading
  BY DEF Init, Unread
<1> QED
  BY <1>1, <1>2, <1>3 DEF SequentialInv, RequestOK, ConnectionOK, Alive

\* A peer that waits asks only when its last answer has arrived as a whole, and
\* then the connection reads a header and is not about to go.
LEMMA AsksWhenAnswered ==
    ASSUME Sequential, TypeOK, SequentialInv, PeerSend
    PROVE  /\ inbuf = <<>> /\ net = <<>> /\ Unread = <<>>
           /\ peer.sent = Len(client.petitions)
           /\ peer.sent = 0 \/ peer.keep
           /\ client.connected /\ client.atHeader # 0
           /\ client.flushed = Len(client.written)
<1> DEFINE P == Len(client.petitions)
           L == Len(client.written)
<1>1. /\ P \in Nat /\ L \in Nat /\ client.flushed \in Nat /\ client.flushed <= L
      /\ net \in Seq(Lines) /\ inbuf \in Seq(Lines)
      /\ ClientType(client)
      /\ peer.sent \in Nat
  BY Types
<1>2. /\ AnswersOK(client) /\ RequestOK /\ ConnectionOK
  BY DEF SequentialInv
<1>3. /\ Alive(client) /\ peer.open
      /\ peer.sent = 0 \/ (peer.keep /\ Received(peer.sent))
  <2>1. Running /\ peer.open /\ ~Pipelining
        /\ (Pipelining \/ peer.sent = 0 \/ (peer.keep /\ Received(peer.sent)))
    BY DEF PeerSend, Sequential
  <2> QED
    BY <2>1 DEF Running, Alive
<1>4. InOrder(client) /\ LastUnit(client)
  BY <1>2, <1>3 DEF AnswersOK
<1>5. client.connected
  BY <1>2, <1>3 DEF ConnectionOK
<1> HIDE DEF P, L
<1>6. ASSUME Received(peer.sent)
      PROVE  \E i \in 1..client.flushed :
               /\ i \in 1..L
               /\ client.written[i].pet \in 1..P
               /\ client.written[i].pet = peer.sent
               /\ client.written[i].byte = client.petitions[peer.sent].answer.declared
  <2>1. PICK i \in 1..client.flushed :
          /\ client.petitions[client.written[i].pet].id = peer.sent
          /\ client.written[i].byte
               = client.petitions[client.written[i].pet].answer.declared
    BY <1>6 DEF Received
  <2>2. i \in 1..L
    BY <1>1
  <2>3. client.written[i].pet \in 1..P
    BY <1>4, <2>2 DEF LastUnit, P, L
  <2>4. client.written[i].pet = peer.sent
    BY <1>4, <2>1, <2>3 DEF InOrder, P
  <2> QED
    BY <2>1, <2>2, <2>3, <2>4
<1>7. peer.sent = P /\ Unread = <<>>
  <2>1. CASE Unread = <<>>
    BY <1>2, <2>1 DEF RequestOK, P
  <2>2. CASE Unread # <<>>
    <3>1. peer.sent = P + 1
      BY <1>2, <2>2 DEF RequestOK, P
    <3>2. Received(peer.sent)
      BY <1>1, <1>3, <3>1
    <3> QED
      BY <1>1, <1>6, <3>1, <3>2
  <2> QED
    BY <2>1, <2>2
<1>8. inbuf = <<>> /\ net = <<>>
  BY <1>1, <1>7, ConcatEqualIffEmpty DEF Unread
<1>9. CASE peer.sent = 0
  <2>1. client.written = <<>> /\ client.atHeader # 0
    BY <1>2, <1>7, <1>9 DEF AnswersOK, P
  <2> QED
    BY <1>1, <1>5, <1>7, <1>8, <1>9, <2>1 DEF P, L
<1>10. CASE peer.sent # 0
  <2>1. P > 0 /\ peer.keep /\ Received(peer.sent)
    BY <1>1, <1>3, <1>7, <1>10
  <2>2. PICK i \in 1..client.flushed :
          /\ i \in 1..L
          /\ client.written[i].pet = P
          /\ client.written[i].byte = client.petitions[P].answer.declared
    BY <1>6, <1>7, <2>1
  <2>3. /\ client.petitions[P].answer \in Devices
        /\ client.petitions[P].answer.declared = client.petitions[P].answer.total
        /\ client.petitions[P].answer.total \in Nat
    <3>1. client.petitions[P].answer \in Devices
      BY <1>1, <1>4, <2>1 DEF InOrder, P
    <3> QED
      BY <3>1, WordSizeAssumption DEF Sequential, WholeFiles
  <2>4. /\ client.fromModule.pos \in Nat
        /\ client.fromModule.pos <= client.petitions[P].answer.total
    <3>1. InBody(client)
      BY <1>2, <1>3, <2>1 DEF AnswersOK, P
    <3> QED
      BY <1>1, <3>1 DEF InBody, Last, P, ClientType, ClientStates, Sources
  <2>5. /\ client.written[i].byte <= client.fromModule.pos
        /\ client.written[i].byte = client.fromModule.pos => i = L
    BY <1>4, <2>2 DEF LastUnit, P, L
  <2>6. i = L
    BY <2>2, <2>3, <2>4, <2>5
  <2>7. client.flushed = L
    BY <1>1, <2>2, <2>6
  <2>8. client.atHeader # 0
    BY <1>1, <1>2, <1>5, <2>1, <2>7 DEF ConnectionOK, L
  <2> QED
    BY <1>5, <1>7, <1>8, <2>1, <2>7, <2>8 DEF P, L
<1> QED
  BY <1>9, <1>10

\* So its next request finds nothing unread.
LEMMA PeerSendStep ==
    ASSUME Sequential, TypeOK, SequentialInv, PeerSend
    PROVE  SequentialInv'
<1> DEFINE n == peer.sent + 1
<1>1. PICK shape \in Shapes :
        /\ net' = net \o RequestLines(n, shape)
        /\ peer' = [sent |-> n, open |-> TRUE,
                    keep |-> \E i \in DOMAIN shape : shape[i] = "keepalive"]
        /\ UNCHANGED <<inbuf, reading, client>>
  BY DEF PeerSend
<1> DEFINE lines == RequestLines(n, shape)
<1>2. /\ inbuf = <<>> /\ net = <<>> /\ Unread = <<>>
      /\ peer.sent = Len(client.petitions)
      /\ client.connected /\ client.atHeader # 0
      /\ client.flushed = Len(client.written)
  BY AsksWhenAnswered
<1>3. AnswersOK(client) /\ RequestOK /\ ConnectionOK /\ peer.open
  BY DEF SequentialInv, PeerSend
<1>4. n \in Nat
  BY Types
<1>5. lines \in Seq(Lines)
  BY <1>4, RequestLinesType
<1>6. /\ Len(shape) \in Nat /\ Len(shape) > 1 /\ DOMAIN shape = 1..Len(shape)
      /\ shape[1] = "get" /\ shape[Len(shape)] = "blank"
      /\ \A i \in 2..(Len(shape) - 1) : shape[i] \in {"keepalive", "header", "long"}
  BY ShapesAssumption DEF Sequential, WholeRequests
<1>7. /\ Len(lines) = Len(shape)
      /\ \A i \in 1..Len(shape) : lines[i].kind = shape[i] /\ lines[i].id = n
  BY <1>6 DEF RequestLines
<1> HIDE DEF lines, n
<1>8. Unread' = lines /\ lines # <<>>
  <2>1. lines # <<>>
    BY <1>5, <1>6, <1>7
  <2>2. inbuf' \o net' = <<>> \o (<<>> \o lines)
    BY <1>1, <1>2 DEF lines
  <2>3. <<>> \o (<<>> \o lines) = lines
    BY <1>5, ConcatEmptySeq
  <2>4. Unread' = inbuf' \o net'
    BY DEF Unread
  <2> QED
    BY <2>1, <2>2, <2>3, <2>4, Zenon
<1>9. IsRest(lines, n)
  <2> SUFFICES ASSUME NEW i \in 1..Len(shape)
               PROVE  IF i = Len(shape) THEN shape[i] = "blank"
                      ELSE shape[i] \in {"get", "keepalive", "header", "long"}
    BY <1>7, <1>8 DEF IsRest
  <2> DEFINE m == Len(shape)
  <2>0. m \in Nat /\ i \in 1..m
    BY <1>6
  <2> HIDE DEF m
  <2>1. i = 1 \/ i = m \/ i \in 2..(m - 1)
    BY <2>0
  <2> QED
    BY <1>6, <2>1 DEF m
<1>10. ~client.request.method /\ ~client.request.keepAlive
  BY <1>2, <1>3 DEF RequestOK
<1>11. peer'.sent = n /\ peer'.open
       /\ peer'.keep = (\E i \in 1..Len(shape) : shape[i] = "keepalive")
  BY <1>1, <1>6
<1>12. Agree(client.request, lines, n, peer'.keep)
  <2>1. lines[1].kind = "get"
    BY <1>6, <1>7
  <2>2. (\E i \in 1..Len(lines) : lines[i].kind = "keepalive") <=> peer'.keep
    BY <1>7, <1>11
  <2> QED
    BY <1>9, <1>10, <2>1, <2>2 DEF Agree
<1>13. RequestOK'
  BY <1>1, <1>2, <1>8, <1>11, <1>12 DEF RequestOK, n
<1>14. ConnectionOK'
  BY <1>1, <1>2, <1>3 DEF ConnectionOK
<1> QED
  BY <1>1, <1>3, <1>13, <1>14 DEF SequentialInv

\* A line that is read leaves a rest of the same request.
LEMMA ReadLineStep ==
    ASSUME Sequential, TypeOK, SequentialInv, ReadLine
    PROVE  /\ SequentialInv'
           /\ client'.petitions = client.petitions
           /\ client'.life = client.life /\ client'.atHeader # 0 /\ client.atHeader # 0
           /\ client'.written = client.written /\ client'.flushed = client.flushed
           /\ client'.connected = client.connected
<1> DEFINE line == Head(inbuf)
           lines == Unread
           P == Len(client.petitions)
<1>1. /\ ClientType(client) /\ client.request \in Requests
      /\ inbuf \in Seq(Lines) /\ net \in Seq(Lines) /\ inbuf # <<>>
      /\ P \in Nat /\ peer.keep \in BOOLEAN
  BY Types DEF ReadLine
<1>2. /\ FeedLine(client, line).atHeader # 0
      /\ client' = FeedLine(client, line)
      /\ inbuf' = Remainder(line) \o Tail(inbuf)
      /\ UNCHANGED <<net, peer>>
      /\ reading /\ reading' \in BOOLEAN
  BY DEF ReadLine
<1>3. AnswersOK(client) /\ RequestOK /\ ConnectionOK
  BY DEF SequentialInv
<1>4. /\ lines \in Seq(Lines) /\ lines # <<>> /\ lines[1] = line
      /\ Unread' = Remainder(lines[1]) \o Tail(lines)
      /\ line \in Lines
  <2>1. Unread' = inbuf' \o net'
    BY DEF Unread
  <2>2. line \in Lines
    BY <1>1
  <2> QED
    BY <1>1, <1>2, <2>1, <2>2, ReadIsUnread DEF Unread
<1>5. /\ peer.sent = P + 1 /\ client.atHeader # 0
      /\ client.connected => client.flushed = Len(client.written)
      /\ Agree(client.request, lines, P + 1, peer.keep)
  BY <1>3, <1>4 DEF RequestOK
<1> HIDE DEF line, lines
<1>6. /\ line.kind \in {"blank", "get", "keepalive", "header", "long"}
      /\ line.id = P + 1
      /\ client.request.method
           \/ (line.kind = "get" /\ ~client.request.keepAlive)
  <2>1. Len(lines) \in Nat \ {0}
    BY <1>4
  <2> QED
    BY <1>4, <1>5, <2>1 DEF Agree, IsRest
<1>7. line.kind # "blank"
  <2> SUFFICES ASSUME line.kind = "blank"
               PROVE  FALSE
    OBVIOUS
  <2>1. client.request.method
    BY <1>6
  <2> QED
    BY <1>1, <1>2, <1>4, <1>5, <2>1, FeedBlank
<1>8. line.kind \in {"get", "keepalive", "header", "long"}
  BY <1>6, <1>7
<1>9. /\ client'.life = client.life
      /\ client'.response = client.response
      /\ client'.bytesSent = client.bytesSent
      /\ client'.request.method
      /\ client'.request.id =
           IF client.request.method THEN client.request.id ELSE line.id
      /\ client'.request.keepAlive
           <=> client.request.keepAlive \/ line.kind = "keepalive"
  BY <1>1, <1>2, <1>4, <1>5, <1>6, <1>8, FeedHeader
<1>10. /\ ClientType(client')
       /\ client'.written = client.written
       /\ client'.petitions = client.petitions
       /\ client'.connected = client.connected
       /\ client'.flushed = client.flushed
       /\ client'.fromModule = client.fromModule
  BY <1>1, <1>2, <1>4, FeedLineType
<1>11. client'.atHeader # 0 /\ client'.request \in Requests
  BY <1>2, <1>10 DEF ClientType, ClientStates
<1>12. AnswersOK(client')
  BY <1>3, <1>5, <1>9, <1>10, <1>11, AnswersFrame DEF Alive
<1>13. Agree(client'.request, Unread', P + 1, peer.keep) /\ Unread' # <<>>
  <2>1. P + 1 \in Nat
    BY <1>1
  <2> QED
    BY <1>1, <1>4, <1>5, <1>7, <1>9, <1>11, <2>1, AgreeStep
<1>14. RequestOK'
  BY <1>2, <1>5, <1>10, <1>11, <1>13 DEF RequestOK
<1>15. ConnectionOK'
  BY <1>2, <1>3, <1>9, <1>10, <1>11 DEF ConnectionOK, Alive
<1> QED
  BY <1>5, <1>9, <1>10, <1>11, <1>12, <1>14, <1>15 DEF SequentialInv

\* The line that ends the request is its last, and nothing is unread after it:
\* the answer that starts is the one to the last request of the peer.
LEMMA StartPetitionStep ==
    ASSUME Sequential, TypeOK, SequentialInv, StartPetition
    PROVE  /\ SequentialInv'
           /\ inbuf' \o net' = <<>>
           /\ client.atHeader # 0 /\ client'.atHeader = 0
           /\ client'.life = client.life
           /\ peer.sent = Len(client.petitions) + 1
           /\ Len(client'.petitions) = Len(client.petitions) + 1
           /\ Last(client') \in Devices
           /\ BodyLen(client', Len(client'.petitions)) = 0
           /\ client'.flushed < Len(client'.written)
<1> DEFINE line == Head(inbuf)
           lines == Unread
           P == Len(client.petitions)
           c == FeedLine(client, line)
<1>1. /\ ClientType(client) /\ client.request \in Requests
      /\ inbuf \in Seq(Lines) /\ net \in Seq(Lines) /\ inbuf # <<>>
      /\ P \in Nat /\ peer.keep \in BOOLEAN
  BY Types DEF StartPetition
<1>2. PICK a \in Devices :
        /\ c.atHeader = 0
        /\ client' = ProcessPetition(c, a)
        /\ inbuf' = Remainder(line) \o Tail(inbuf)
        /\ UNCHANGED <<net, peer>>
        /\ reading /\ ~reading'
  BY DEF StartPetition
<1>3. AnswersOK(client) /\ RequestOK /\ ConnectionOK
  BY DEF SequentialInv
<1>4. /\ lines \in Seq(Lines) /\ lines # <<>> /\ lines[1] = line
      /\ Unread' = Remainder(lines[1]) \o Tail(lines)
      /\ line \in Lines
  <2>1. Unread' = inbuf' \o net'
    BY DEF Unread
  <2>2. line \in Lines
    BY <1>1
  <2> QED
    BY <1>1, <1>2, <2>1, <2>2, ReadIsUnread DEF Unread
<1>5. /\ peer.sent = P + 1 /\ client.atHeader # 0
      /\ client.connected /\ Alive(client)
      /\ Agree(client.request, lines, P + 1, peer.keep)
  BY <1>2, <1>3, <1>4 DEF RequestOK, ConnectionOK
<1> HIDE DEF line, lines
<1>6. /\ Len(lines) \in Nat \ {0}
      /\ IsRest(lines, P + 1)
      /\ client.request.method
           \/ (line.kind = "get" /\ ~client.request.keepAlive)
  BY <1>4, <1>5 DEF Agree
<1>7. line.kind = "blank"
  <2> SUFFICES ASSUME line.kind # "blank"
               PROVE  FALSE
    OBVIOUS
  <2>1. line.kind \in {"get", "keepalive", "header", "long"}
    BY <1>4, <1>6 DEF IsRest
  <2> QED
    BY <1>1, <1>2, <1>4, <1>5, <1>6, <2>1, FeedHeader
<1>8. client.request.method /\ client.request.id = P + 1
  BY <1>5, <1>6, <1>7 DEF Agree
<1>9. Len(lines) = 1
  <2> DEFINE n == Len(lines)
  <2>1. n \in Nat \ {0} /\ 1 \in 1..n
    BY <1>6
  <2>2. IF 1 = n THEN lines[1].kind = "blank"
        ELSE lines[1].kind \in {"get", "keepalive", "header", "long"}
    BY <1>6, <2>1 DEF IsRest
  <2> HIDE DEF n
  <2>3. n = 1
    BY <1>4, <1>7, <2>2
  <2> QED
    BY <2>3 DEF n
<1>10. peer.keep = client.request.keepAlive
  <2>1. \A i \in 1..Len(lines) : lines[i].kind # "keepalive"
    BY <1>4, <1>7, <1>9
  <2>2. peer.keep <=> client.request.keepAlive
    BY <1>5, <2>1 DEF Agree
  <2>3. client.request.keepAlive \in BOOLEAN
    BY <1>1 DEF Requests
  <2> QED
    BY <1>1, <2>2, <2>3
<1>11. Unread' = <<>>
  <2>1. Remainder(lines[1]) = <<>>
    BY <1>4, <1>7 DEF Remainder
  <2>2. Tail(lines) = <<>>
    <3>1. Tail(lines) \in Seq(Lines) /\ Len(Tail(lines)) = Len(lines) - 1
      BY <1>4, HeadTailProperties
    <3> DEFINE t == Tail(lines)
    <3>2. t \in Seq(Lines) /\ Len(t) = 0
      BY <1>9, <3>1
    <3> HIDE DEF t
    <3>3. t = <<>>
      BY <3>2
    <3> QED
      BY <3>3 DEF t
  <2> QED
    BY <1>4, <2>1, <2>2
<1>12. /\ ClientType(c)
       /\ c.written = client.written
       /\ c.petitions = client.petitions
       /\ c.connected = client.connected
       /\ c.flushed = client.flushed
       /\ c.fromModule = client.fromModule
  BY <1>1, <1>4, FeedLineType
<1>13. c.request = client.request /\ c.life = client.life
  BY <1>1, <1>4, <1>5, <1>7, <1>8, FeedBlank
<1> HIDE DEF c
<1>14. /\ AnswersOK(client')
       /\ client' = StartAnswer(c, a)
       /\ client'.flushed < Len(client'.written)
       /\ Len(client'.petitions) = P + 1
       /\ BodyLen(client', Len(client'.petitions)) = 0
       /\ Last(client') = a
  <2>1. /\ c.request.id = Len(client.petitions) + 1
        /\ c.connected /\ c.atHeader = 0 /\ WholeFiles
    BY <1>2, <1>5, <1>8, <1>12, <1>13 DEF Sequential
  <2>2. client' = ProcessPetition(c, a)
    BY <1>2
  <2> QED
    BY <1>1, <1>3, <1>5, <1>12, <1>13, <2>1, <2>2, StartAnswers
<1>15. ~c.fromModule.upstream
  BY <1>3, <1>5, <1>12 DEF AnswersOK
<1>16. /\ client'.life = client.life /\ client'.atHeader = 0
       /\ client'.request = client.request /\ client'.connected
  <2>1. Started(c, a, client')
    BY <1>5, <1>12, <1>14, <1>15, StartFields DEF Sequential
  <2> QED
    BY <1>2, <1>5, <1>12, <1>13, <2>1 DEF Started
<1>17. RequestOK'
  BY <1>2, <1>5, <1>10, <1>11, <1>14, <1>16 DEF RequestOK
<1>18. ConnectionOK'
  BY <1>2, <1>5, <1>14, <1>16 DEF ConnectionOK, Alive
<1> QED
  BY <1>1, <1>5, <1>11, <1>14, <1>16, <1>17, <1>18 DEF SequentialInv, Unread

\* The kernel takes some of the write buffer, and the slot goes on with an
\* answer that is under way.
LEMMA FlushAnswers ==
    ASSUME Sequential, TypeOK, SequentialInv, BytesWritten
    PROVE  /\ AnswersOK(client') /\ Alive(client) /\ Alive(client')
           /\ client.connected /\ client'.connected
           /\ client.flushed < Len(client.written)
           /\ client'.petitions = client.petitions
           /\ Len(client.petitions) > 0
           /\ Unread = <<>> /\ Unread' = <<>>
           /\ peer' = peer /\ ~reading /\ ~reading'
           /\ ~PartialWrites => client'.flushed = Len(client.written)
           /\ \/ /\ client.fromModule.pos = Last(client).total
                 /\ client'.fromModule.pos = client.fromModule.pos
                 /\ client'.written = client.written
                 /\ IF client.request.keepAlive
                    THEN /\ client'.atHeader = 2 /\ client'.life = client.life
                         /\ ~client'.request.method /\ ~client'.request.keepAlive
                    ELSE /\ client'.atHeader = client.atHeader
                         /\ client'.life = "doomed"
                         /\ client'.request = client.request
              \/ /\ client.fromModule.pos # Last(client).total
                 /\ ~PartialWrites => client'.fromModule.pos > client.fromModule.pos
                 /\ client'.atHeader = 0 /\ client.atHeader = 0
                 /\ client'.life = client.life
                 /\ client'.request = client.request
                 /\ client'.flushed < Len(client'.written)
<1>1. /\ ClientType(client) /\ client \in ClientStates
      /\ client.flushed \in Nat /\ Len(client.written) \in Nat
      /\ Len(client.petitions) \in Nat
      /\ client.flushed <= Len(client.written)
  BY Types
<1>2. PICK k \in (client.flushed + 1)..Len(client.written) :
        /\ PartialWrites \/ k = Len(client.written)
        /\ client' = ReadAndWrite([client EXCEPT !.flushed = k])
  BY DEF BytesWritten
<1>3. /\ Alive(client) /\ ~reading /\ Queued(client) > 0
      /\ UNCHANGED <<net, peer, inbuf, reading>>
  BY DEF BytesWritten, Idle, Running, Alive
<1>4. AnswersOK(client) /\ RequestOK /\ ConnectionOK
  BY DEF SequentialInv
<1>5. client.connected /\ client.flushed < Len(client.written)
  BY <1>1, <1>3 DEF Queued
<1>6. Unread = <<>> /\ Unread' = <<>>
  <2>1. client.flushed # Len(client.written)
    BY <1>1, <1>5
  <2>2. Unread' = Unread
    BY <1>3 DEF Unread
  <2> QED
    BY <1>4, <1>5, <2>1, <2>2 DEF RequestOK
<1>7. Len(client.petitions) > 0
  <2>1. client.written # <<>>
    BY <1>1, <1>5
  <2> QED
    BY <1>1, <1>4, <2>1 DEF AnswersOK
<1> DEFINE c == [client EXCEPT !.flushed = k]
<1>8. /\ ClientType(c)
      /\ c.flushed = k /\ c.written = client.written
      /\ c.petitions = client.petitions /\ c.atHeader = client.atHeader
      /\ c.fromModule = client.fromModule /\ c.response = client.response
      /\ c.bytesSent = client.bytesSent /\ c.life = client.life
      /\ c.connected = client.connected /\ c.request = client.request
  BY <1>1, FlushType DEF ClientStates
<1>9. client' = ReadAndWrite(c)
  BY <1>2
<1> HIDE DEF c
<1>10. AnswersOK(c) /\ Alive(c)
  BY <1>3, <1>4, <1>8, AnswersFrame DEF Alive
<1>11. Slotted(c, client')
  BY <1>5, <1>7, <1>8, <1>9, <1>10, SlotAnswers DEF Sequential
<1>12. Last(c) = Last(client)
  BY <1>8 DEF Last
<1> QED
  BY <1>2, <1>3, <1>5, <1>6, <1>7, <1>8, <1>11, <1>12 DEF Slotted

\* The write buffer empties.
LEMMA BytesWrittenStep ==
    ASSUME Sequential, TypeOK, SequentialInv, BytesWritten
    PROVE  SequentialInv'
<1>1. /\ RequestOK /\ ConnectionOK /\ peer.keep \in BOOLEAN
  BY Types DEF SequentialInv
<1>2. peer.sent = Len(client.petitions)
  BY <1>1, FlushAnswers DEF RequestOK
<1>3. RequestOK'
  <2>1. client'.atHeader # 0 => ~client'.request.method /\ ~client'.request.keepAlive
    BY <1>1, FlushAnswers DEF RequestOK
  <2>2. client'.atHeader = 0 => client'.request.keepAlive = peer.keep
    BY <1>1, FlushAnswers DEF RequestOK
  <2> QED
    BY <1>2, <2>1, <2>2, FlushAnswers DEF RequestOK
<1>4. ConnectionOK'
  <2>1. client'.atHeader = 0 => \/ client'.flushed < Len(client'.written)
                                \/ client'.life = "doomed" /\ ~peer.keep
    BY <1>1, FlushAnswers DEF RequestOK
  <2> QED
    BY <2>1, FlushAnswers DEF ConnectionOK
<1> QED
  BY <1>3, <1>4, FlushAnswers DEF SequentialInv

\* Every request begins with its request line, so that addHeader splits no other.
LEMMA NoSplit ==
    ASSUME Sequential, TypeOK, SequentialInv
    PROVE  ~SplitOutOfRange
<1> SUFFICES ASSUME SplitOutOfRange
             PROVE  FALSE
  OBVIOUS
<1>1. /\ inbuf \in Seq(Lines) /\ net \in Seq(Lines) /\ inbuf # <<>>
      /\ client.atHeader # 0 /\ ~client.request.method
      /\ Head(inbuf).kind # "get"
  BY Types DEF SplitOutOfRange
<1>2. Unread # <<>> /\ Unread[1] = Head(inbuf)
  BY <1>1, ReadIsUnread DEF Unread
<1>3. Unread[1].kind = "get"
  BY <1>1, <1>2 DEF SequentialInv, RequestOK, Agree
<1> QED
  BY <1>1, <1>2, <1>3

\* Every step keeps the invariant: one step per action of Client.
LEMMA SequentialStep ==
    ASSUME Sequential, TypeOK, SequentialInv, [Next]_vars
    PROVE  SequentialInv'
<1>1. /\ ClientType(client) /\ client \in ClientStates
      /\ net \in Seq(Lines) /\ inbuf \in Seq(Lines) /\ reading \in BOOLEAN
      /\ Len(client.petitions) \in Nat
      /\ reading => inbuf # <<>>
      /\ peer \in [sent : 0..MaxRequests, keep : BOOLEAN, open : BOOLEAN]
  BY Types
<1>2. AnswersOK(client) /\ RequestOK /\ ConnectionOK
  BY DEF SequentialInv
<1>3. CASE PeerSend
  BY <1>3, PeerSendStep
<1>4. CASE PeerClose
  <2>1. /\ UNCHANGED <<net, inbuf, reading, client>>
        /\ peer'.sent = peer.sent /\ peer'.keep = peer.keep /\ ~peer'.open
    BY <1>1, <1>4 DEF PeerClose
  <2>2. Unread' = Unread
    BY <2>1 DEF Unread
  <2>3. RequestOK'
    BY <1>2, <2>1, <2>2 DEF RequestOK
  <2>4. ConnectionOK'
    BY <1>2, <2>1 DEF ConnectionOK
  <2> QED
    BY <1>2, <2>1, <2>3, <2>4 DEF SequentialInv
<1>5. CASE ReadyRead
  <2>1. PICK k \in 1..Len(net) :
          /\ inbuf' = inbuf \o SubSeq(net, 1, k)
          /\ net' = SubSeq(net, k + 1, Len(net))
    BY <1>5 DEF ReadyRead
  <2>2. UNCHANGED <<peer, client>> /\ client.connected
    BY <1>5 DEF ReadyRead
  <2>3. Unread' = inbuf' \o net'
    BY DEF Unread
  <2>4. Unread' = Unread
    BY <1>1, <2>1, <2>3, DeliveredIsUnread DEF Unread
  <2>5. RequestOK'
    BY <1>2, <2>2, <2>4 DEF RequestOK
  <2>6. ConnectionOK'
    BY <1>2, <2>2 DEF ConnectionOK
  <2> QED
    BY <1>2, <2>2, <2>5, <2>6 DEF SequentialInv
<1>6. CASE ReadLine
  BY <1>6, ReadLineStep
<1>7. CASE StartPetition
  BY <1>7, StartPetitionStep
<1>8. ~SplitOutOfRange
  BY NoSplit
<1>9. CASE BytesWritten
  BY <1>9, BytesWrittenStep
<1>10. ~UpstreamData /\ ~UpstreamClosed
  BY <1>2 DEF UpstreamData, UpstreamClosed, Idle, Running, AnswersOK, Alive
<1>11. CASE Disconnected
  <2>1. /\ client' = [client EXCEPT !.connected = FALSE, !.life = "doomed"]
        /\ UNCHANGED <<net, peer, inbuf, reading>>
        /\ Alive(client) /\ ~peer.open /\ ~reading
    BY <1>11 DEF Disconnected, Idle, Running, Alive
  <2>2. /\ client'.written = client.written /\ client'.petitions = client.petitions
        /\ client'.atHeader = client.atHeader /\ client'.request = client.request
        /\ client'.fromModule = client.fromModule
        /\ client'.response = client.response
        /\ client'.bytesSent = client.bytesSent
        /\ ~client'.connected /\ client'.life = "doomed"
    BY <1>1, <2>1 DEF ClientStates
  <2>3. AnswersOK(client')
    BY <1>2, <2>1, <2>2, AnswersFrame
  <2>4. Unread' = Unread
    BY <2>1 DEF Unread
  <2>5. RequestOK'
    BY <1>2, <2>1, <2>2, <2>4 DEF RequestOK
  <2>6. ConnectionOK'
    BY <2>1, <2>2 DEF ConnectionOK
  <2> QED
    BY <2>3, <2>5, <2>6 DEF SequentialInv
<1>12. CASE DeferredDelete
  <2>1. /\ client' = [client EXCEPT !.life = "deleted", !.connected = FALSE,
                                    !.fromModule = NoDevice]
        /\ UNCHANGED <<net, peer, inbuf, reading>>
        /\ ~reading
    BY <1>12 DEF DeferredDelete, Idle
  <2>2. /\ client'.written = client.written /\ client'.petitions = client.petitions
        /\ client'.atHeader = client.atHeader /\ client'.request = client.request
        /\ ~client'.connected /\ client'.life = "deleted"
    BY <1>1, <2>1 DEF ClientStates
  <2>3. AnswersOK(client')
    BY <1>2, <2>2, AnswersFrame DEF Alive
  <2>4. Unread' = Unread
    BY <2>1 DEF Unread
  <2>5. RequestOK'
    BY <1>2, <2>1, <2>2, <2>4 DEF RequestOK
  <2>6. ConnectionOK'
    BY <2>1, <2>2 DEF ConnectionOK, Alive
  <2> QED
    BY <2>3, <2>5, <2>6 DEF SequentialInv
<1>13. CASE UNCHANGED vars
  BY <1>2, <1>13 DEF vars, SequentialInv, RequestOK, ConnectionOK, Unread
<1>14. CASE Gone
  BY <1>13, <1>14 DEF Gone
<1> QED
  BY <1>3, <1>4, <1>5, <1>6, <1>7, <1>8, <1>9, <1>10, <1>11, <1>12, <1>13,
     <1>14 DEF Next

-----------------------------------------------------------------------------
(* What a peer that waits for its answers may rely on, even if the kernel takes *)
(* the write buffer in parts                                                 *)

\* The invariant holds of every connection.
LEMMA SequentialAlways ==
    ASSUME Sequential
    PROVE  Spec => [](TypeOK /\ SequentialInv)
<1>1. Init => TypeOK /\ SequentialInv
  BY TypeInit, SequentialInit
<1>2. TypeOK /\ SequentialInv /\ [Next]_vars => (TypeOK /\ SequentialInv)'
  BY TypeStep, SequentialStep
<1> QED
  BY <1>1, <1>2, PTL DEF Spec

\* The units of body of an answer, in the words of the properties.
LEMMA BodyLengthIs == \A p : BodyLength(p) = BodyLen(client, p)
BY DEF BodyLength, BodyLen, BodyUnits

\* A peer that waits is answered once for every request, in its order.
THEOREM AnswersInOrderAlways ==
    ASSUME Sequential
    PROVE  Spec => []AnswersInOrder
<1>1. TypeOK /\ SequentialInv => AnswersInOrder
  <2> SUFFICES ASSUME TypeOK, SequentialInv
               PROVE  AnswersInOrder
    OBVIOUS
  <2>1. DOMAIN client.petitions = 1..Len(client.petitions)
    BY Types
  <2>2. InOrder(client)
    BY DEF SequentialInv, AnswersOK
  <2> QED
    BY <2>1, <2>2 DEF AnswersInOrder, InOrder
<1> QED
  BY <1>1, SequentialAlways, PTL

\* And every answer of a file is as long as its header says.
THEOREM FramingAlways ==
    ASSUME Sequential
    PROVE  Spec => []Framing
<1>1. TypeOK /\ SequentialInv => Framing
  <2> SUFFICES ASSUME TypeOK, SequentialInv, NEW p \in DOMAIN client.petitions
               PROVE  /\ BodyLength(p) <= client.petitions[p].answer.declared
                      /\ (p < Len(client.petitions) \/ client.atHeader # 0)
                           => BodyLength(p) = client.petitions[p].answer.declared
    BY DEF Framing
  <2>1. p \in 1..Len(client.petitions)
    BY Types
  <2>2. InOrder(client) /\ Framed(client)
    BY DEF SequentialInv, AnswersOK
  <2>3. client.petitions[p].answer.declared = client.petitions[p].answer.total
    BY <2>1, <2>2 DEF InOrder, Sequential, WholeFiles
  <2> QED
    BY <2>1, <2>2, <2>3, BodyLengthIs DEF Framed
<1> QED
  BY <1>1, SequentialAlways, PTL

\* Only a turn of the loop that ends the header starts a petition.
LEMMA OnlyPetitionsStart ==
    ASSUME Sequential, TypeOK, SequentialInv, [Next]_vars
    PROVE  StartPetition \/ client'.petitions = client.petitions
<1>1. ClientType(client) /\ client \in ClientStates
  BY Types
<1>2. CASE PeerSend \/ PeerClose \/ ReadyRead \/ Gone \/ UNCHANGED vars
  BY <1>2 DEF PeerSend, PeerClose, ReadyRead, Gone, vars
<1>3. CASE ReadLine
  BY <1>3, ReadLineStep
<1>4. CASE BytesWritten
  BY <1>4, FlushAnswers
<1>5. CASE SplitOutOfRange \/ Disconnected \/ DeferredDelete
  <2>1. \/ client' = [client EXCEPT !.life = "crashed"]
        \/ client' = [client EXCEPT !.connected = FALSE, !.life = "doomed"]
        \/ client' = [client EXCEPT !.life = "deleted", !.connected = FALSE,
                                    !.fromModule = NoDevice]
    BY <1>5 DEF SplitOutOfRange, Disconnected, DeferredDelete
  <2> QED
    BY <1>1, <2>1 DEF ClientStates
<1>6. ~UpstreamData /\ ~UpstreamClosed
  BY DEF UpstreamData, UpstreamClosed, Idle, Running, SequentialInv, AnswersOK, Alive
<1> QED
  BY <1>2, <1>3, <1>4, <1>5, <1>6 DEF Next

\* The module tree sees all the headers of a request: nothing of it is left to be
\* read when its petition is processed.
THEOREM HeaderReadAlways ==
    ASSUME Sequential
    PROVE  Spec => HeaderRead
<1>1. TypeOK /\ SequentialInv /\ [Next]_vars =>
        [Len(client'.petitions) > Len(client.petitions) =>
           LET id == client'.petitions[Len(client'.petitions)].id
           IN  \A i \in DOMAIN (inbuf' \o net') : (inbuf' \o net')[i].id # id]_vars
  <2> SUFFICES ASSUME TypeOK, SequentialInv, [Next]_vars,
                      Len(client'.petitions) > Len(client.petitions)
               PROVE  DOMAIN (inbuf' \o net') = {}
    OBVIOUS
  <2>1. StartPetition
    <3>1. client'.petitions # client.petitions
      BY Types
    <3> QED
      BY <3>1, OnlyPetitionsStart
  <2>2. inbuf' \o net' = <<>>
    BY <2>1, StartPetitionStep
  <2> QED
    BY <2>2
<1> QED
  BY <1>1, SequentialAlways, PTL DEF Spec, HeaderRead

-----------------------------------------------------------------------------
(* The write buffer of a peer that waits *)

\* OneWriteQueued for a client.
OneWrite(c) ==
    \/ Queued(c) <= 1
    \/ /\ Queued(c) <= ChunkSize
       /\ \A i \in (c.flushed + 1)..Len(c.written) : c.written[i].byte > 0

\* It does not change with what lies outside of the socket, and not with a socket
\* that is gone.
LEMMA OneWriteFrame ==
    ASSUME NEW c, NEW d, OneWrite(c),
           d.written = c.written, d.flushed = c.flushed,
           d.connected => c.connected
    PROVE  OneWrite(d)
<1>1. CASE d.connected
  BY <1>1 DEF OneWrite, Queued
<1>2. CASE ~d.connected
  BY <1>2 DEF OneWrite, Queued
<1> QED
  BY <1>1, <1>2

\* What leaves the buffer makes it no larger.
LEMMA OneWriteFlush ==
    ASSUME NEW c, ClientType(c), OneWrite(c), NEW d, d.written = c.written,
           d.connected = c.connected, d.flushed \in Nat, d.flushed >= c.flushed
    PROVE  OneWrite(d)
<1>1. c.flushed \in Nat /\ Len(c.written) \in Nat /\ ChunkSize \in Nat
  BY ChunkSizeAssumption DEF ClientType, ClientStates
<1>2. CASE ~d.connected
  BY <1>2 DEF OneWrite, Queued
<1>3. CASE d.connected
  <2>1. /\ Queued(d) = Len(c.written) - d.flushed
        /\ Queued(c) = Len(c.written) - c.flushed
    BY <1>3 DEF Queued
  <2>2. Queued(d) <= Queued(c) /\ Queued(d) \in Int /\ Queued(c) \in Int
    BY <1>1, <2>1
  <2>3. CASE Queued(c) <= 1
    BY <2>2, <2>3 DEF OneWrite
  <2>4. CASE Queued(c) > 1
    <3>1. /\ Queued(c) <= ChunkSize
          /\ \A i \in (c.flushed + 1)..Len(c.written) : c.written[i].byte > 0
      BY <2>2, <2>4 DEF OneWrite
    <3>2. \A i \in (d.flushed + 1)..Len(d.written) :
            i \in (c.flushed + 1)..Len(c.written)
      BY <1>1
    <3>3. Queued(d) <= ChunkSize
      BY <1>1, <2>2, <3>1
    <3> QED
      BY <3>1, <3>2, <3>3 DEF OneWrite
  <2> QED
    BY <2>2, <2>3, <2>4
<1> QED
  BY <1>2, <1>3

\* A chunk that is written into an empty buffer is all that is in it.
LEMMA OneWriteChunk ==
    ASSUME NEW c, ClientType(c), Available(c.fromModule) # 0,
           c.flushed = Len(c.written)
    PROVE  OneWrite(WriteChunk(c))
<1> DEFINE e == WriteChunk(c)
           L == Len(c.written)
           pos == c.fromModule.pos
<1>1. PICK n \in 1..ChunkSize :
        /\ Chunk(c) = [i \in 1..n |-> [pet |-> Len(c.petitions), byte |-> pos + i]]
        /\ Chunk(c) \in Seq(Tokens)
        /\ Len(Chunk(c)) = n
  BY ChunkFacts
<1>2. /\ n \in Nat /\ n <= ChunkSize /\ L \in Nat /\ pos \in Nat
      /\ c.written \in Seq(Tokens)
  BY <1>1, ChunkSizeAssumption DEF ClientType, ClientStates, Sources
<1>3. e.written = c.written \o Chunk(c) /\ e.flushed = L
  BY WriteChunkType
<1>4. Len(e.written) = L + n
  BY <1>1, <1>2, <1>3
<1>5. \A i \in (L + 1)..(L + n) : e.written[i].byte > 0
  <2> TAKE i \in (L + 1)..(L + n)
  <2>1. i - L \in 1..n
    BY <1>2
  <2>2. e.written[i] = Chunk(c)[i - L]
    BY <1>1, <1>2, <1>3
  <2>3. e.written[i].byte = pos + (i - L)
    BY <1>1, <2>1, <2>2
  <2> QED
    BY <1>2, <2>1, <2>3
<1> HIDE DEF e, L
<1>6. Queued(e) <= ChunkSize
  BY <1>2, <1>3, <1>4, ChunkSizeAssumption DEF Queued
<1>7. OneWrite(e)
  BY <1>3, <1>4, <1>5, <1>6 DEF OneWrite
<1> QED
  BY <1>7 DEF e

\* The slot writes to an empty buffer only.
LEMMA SlotOneWrite ==
    ASSUME NEW c, ClientType(c), OneWrite(c)
    PROVE  OneWrite(ReadAndWrite(c))
<1> DEFINE d == CloseIfSent(c)
           f == Discard(d)
           e == CloseIfSent(f)
<1>1. CASE c.fromModule.kind = "none"
  BY <1>1 DEF ReadAndWrite
<1>2. CASE c.fromModule.kind # "none"
  <2>1. ClientType(d) /\ OneWrite(d)
    BY CloseIfSentType, OneWriteFrame
  <2> HIDE DEF d
  <2>2. OneWrite(Finish(d))
    BY <2>1, FinishType, OneWriteFrame
  <2>3. ASSUME ~(Available(d.fromModule) = 0 \/ Queued(d) > 0), d.connected
        PROVE  OneWrite(WriteChunk(d))
    <3>1. Len(d.written) - d.flushed <= 0 /\ d.flushed <= Len(d.written)
          /\ d.flushed \in Nat /\ Len(d.written) \in Nat
      BY <2>1, <2>3 DEF Queued, ClientType, ClientStates
    <3>2. d.flushed = Len(d.written)
      BY <3>1
    <3> QED
      BY <2>1, <2>3, <3>2, OneWriteChunk
  <2>4. ASSUME ~d.connected
        PROVE  OneWrite(FinishIfExhausted(e))
    <3>1. ClientType(f) /\ OneWrite(f)
      BY <2>1, <2>4, DiscardType, OneWriteFrame
    <3> HIDE DEF f
    <3>2. ClientType(e) /\ OneWrite(e)
      BY <3>1, CloseIfSentType, OneWriteFrame
    <3> HIDE DEF e
    <3>3. OneWrite(Finish(e))
      BY <3>2, FinishType, OneWriteFrame
    <3> QED
      BY <3>2, <3>3 DEF FinishIfExhausted
  <2>5. ReadAndWrite(c) =
          IF Exhausted(d) THEN Finish(d)
          ELSE IF Available(d.fromModule) = 0 \/ Queued(d) > 0 THEN d
          ELSE IF d.connected THEN WriteChunk(d)
          ELSE FinishIfExhausted(e)
    BY <1>2 DEF ReadAndWrite, d
  <2> HIDE DEF e, f
  <2> QED
    BY <2>1, <2>2, <2>3, <2>4, <2>5
<1> QED
  BY <1>1, <1>2

\* A header that is written into an empty buffer is all that is in it.
LEMMA OneWriteStart ==
    ASSUME NEW c, ClientType(c), c.flushed = Len(c.written), NEW d \in Devices
    PROVE  OneWrite(StartAnswer(c, d))
<1> DEFINE e == StartAnswer(c, d)
           t == [pet |-> Len(c.petitions) + 1, byte |-> 0]
<1>1. e.written = c.written \o HeaderToken(c, d) /\ e.flushed = Len(c.written)
  BY StartAnswerType
<1>2. c.written \in Seq(Tokens) /\ Len(c.written) \in Nat
  BY DEF ClientType, ClientStates
<1>3. HeaderToken(c, d) = <<>> \/ HeaderToken(c, d) = <<t>>
  BY DEF HeaderToken
<1> HIDE DEF e, t
<1>4. Len(e.written) = Len(c.written) \/ Len(e.written) = Len(c.written) + 1
  <2>1. CASE HeaderToken(c, d) = <<>>
    BY <1>1, <1>2, <2>1
  <2>2. CASE HeaderToken(c, d) = <<t>>
    <3>1. e.written = Append(c.written, t)
      BY <1>1, <1>2, <2>2
    <3> QED
      BY <1>2, <3>1
  <2> QED
    BY <1>3, <2>1, <2>2
<1>5. Queued(e) <= 1
  BY <1>1, <1>2, <1>4 DEF Queued
<1>6. OneWrite(e)
  BY <1>5 DEF OneWrite
<1> QED
  BY <1>6 DEF e

\* A petition is only begun when nothing waits, and every other slot that writes
\* looks at the buffer first.
LEMMA OneWriteStep ==
    ASSUME Sequential, TypeOK, SequentialInv, OneWrite(client), [Next]_vars
    PROVE  OneWrite(client')
<1>1. ClientType(client) /\ client \in ClientStates /\ inbuf \in Seq(Lines)
      /\ net \in Seq(Lines) /\ (reading => inbuf # <<>>)
  BY Types
<1>2. CASE PeerSend \/ PeerClose \/ ReadyRead \/ Gone \/ UNCHANGED vars
  BY <1>2 DEF PeerSend, PeerClose, ReadyRead, Gone, vars
<1>3. reading => Head(inbuf) \in Lines
  BY <1>1
<1>4. CASE ReadLine
  <2>1. /\ Head(inbuf) \in Lines
        /\ client' = FeedLine(client, Head(inbuf))
    BY <1>3, <1>4 DEF ReadLine
  <2> QED
    BY <1>1, <2>1, FeedLineType, OneWriteFrame
<1>5. CASE StartPetition
  <2> DEFINE c == FeedLine(client, Head(inbuf))
  <2>1. Head(inbuf) \in Lines /\ reading
    BY <1>3, <1>5 DEF StartPetition
  <2>2. PICK d \in Devices : client' = ProcessPetition(c, d)
    BY <1>5 DEF StartPetition
  <2>3. Unread # <<>> /\ client.connected
    BY <1>1, <2>1, ReadIsUnread DEF Unread, SequentialInv, ConnectionOK
  <2>4. client.flushed = Len(client.written)
    BY <2>3 DEF SequentialInv, RequestOK
  <2>5. ClientType(c) /\ c.flushed = Len(c.written)
    BY <1>1, <2>1, <2>4, FeedLineType
  <2> HIDE DEF c
  <2>6. ClientType(StartAnswer(c, d)) /\ OneWrite(StartAnswer(c, d))
    BY <2>5, StartAnswerType, OneWriteStart
  <2> QED
    BY <2>2, <2>6, SlotOneWrite DEF ProcessPetition
<1>6. ~SplitOutOfRange /\ ~UpstreamData /\ ~UpstreamClosed
  <2>1. ~UpstreamData /\ ~UpstreamClosed
    BY DEF UpstreamData, UpstreamClosed, Idle, Running, SequentialInv, AnswersOK,
           Alive
  <2> QED
    BY <2>1, NoSplit
<1>7. CASE BytesWritten
  <2>1. PICK k \in (client.flushed + 1)..Len(client.written) :
          client' = ReadAndWrite([client EXCEPT !.flushed = k])
    BY <1>7 DEF BytesWritten
  <2> DEFINE c == [client EXCEPT !.flushed = k]
  <2>2. ClientType(c) /\ k \in Nat /\ k > client.flushed
    BY <1>1, FlushType
  <2>3. /\ c.written = client.written
        /\ c.connected = client.connected
        /\ c.flushed = k
        /\ client.flushed \in Nat
    BY <1>1 DEF ClientStates
  <2>4. client' = ReadAndWrite(c)
    BY <2>1
  <2> HIDE DEF c
  <2>5. c.flushed \in Nat /\ c.flushed >= client.flushed
    BY <2>2, <2>3
  <2>6. OneWrite(c)
    BY <1>1, <2>3, <2>5, OneWriteFlush
  <2> QED
    BY <2>2, <2>4, <2>6, SlotOneWrite
<1>8. CASE Disconnected \/ DeferredDelete
  <2>1. /\ client'.written = client.written
        /\ client'.flushed = client.flushed
        /\ ~client'.connected
    BY <1>1, <1>8 DEF Disconnected, DeferredDelete, ClientStates
  <2> QED
    BY <2>1, OneWriteFrame
<1> QED
  BY <1>2, <1>4, <1>5, <1>6, <1>7, <1>8 DEF Next

\* However long the answers are and however slowly the peer reads them, a header
\* or a chunk is all that waits in the write buffer of a peer that waits.
THEOREM OneWriteQueuedAlways ==
    ASSUME Sequential
    PROVE  Spec => []OneWriteQueued
<1>1. OneWriteQueued <=> OneWrite(client)
  BY DEF OneWriteQueued, OneWrite
<1>2. Init => OneWriteQueued
  <2> SUFFICES ASSUME Init
               PROVE  Queued(client) <= 1
    BY DEF OneWriteQueued
  <2>1. client.written = <<>> /\ client.flushed = 0
    BY DEF Init, NewClient
  <2> QED
    BY <2>1 DEF Queued
<1>3. OneWriteQueued' <=> OneWrite(client')
  BY DEF OneWriteQueued, OneWrite, Queued
<1>4. TypeOK /\ SequentialInv /\ OneWriteQueued /\ [Next]_vars => OneWriteQueued'
  BY <1>1, <1>3, OneWriteStep
<1> QED
  BY <1>2, <1>4, SequentialAlways, PTL DEF Spec

-----------------------------------------------------------------------------
(* What it may rely on if the kernel takes the write buffer as a whole *)

\* Every step keeps the rest of the invariant.
LEMMA PoliteStep ==
    ASSUME Polite, TypeOK, SequentialInv, PoliteInv, [Next]_vars
    PROVE  PoliteInv'
<1>1. /\ Sequential /\ ~PartialWrites
      /\ ClientType(client) /\ client \in ClientStates
      /\ Len(client.written) \in Nat
      /\ peer \in [sent : 0..MaxRequests, keep : BOOLEAN, open : BOOLEAN]
      /\ RequestOK /\ ConnectionOK
  BY Types DEF Polite, SequentialInv
<1>2. CASE PeerSend
  <2>1. client' = client /\ client.connected /\ client.atHeader # 0
    BY <1>1, <1>2, AsksWhenAnswered DEF PeerSend
  <2> QED
    BY <2>1 DEF PoliteInv
<1>3. CASE PeerClose \/ ReadyRead \/ Gone \/ UNCHANGED vars
  <2>1. client' = client /\ peer'.keep = peer.keep
    BY <1>1, <1>3 DEF PeerClose, ReadyRead, Gone, vars
  <2> QED
    BY <2>1 DEF PoliteInv
<1>4. CASE ReadLine
  BY <1>1, <1>4, ReadLineStep DEF PoliteInv
<1>5. CASE StartPetition
  <2>1. client.connected
    BY <1>1, <1>5 DEF StartPetition, ConnectionOK
  <2> QED
    BY <1>1, <1>5, <2>1, StartPetitionStep DEF PoliteInv
<1>6. ~SplitOutOfRange /\ ~UpstreamData /\ ~UpstreamClosed
  <2>1. ~UpstreamData /\ ~UpstreamClosed
    BY DEF UpstreamData, UpstreamClosed, Idle, Running, SequentialInv, AnswersOK,
           Alive
  <2>2. ~SplitOutOfRange
    BY <1>1, NoSplit
  <2> QED
    BY <2>1, <2>2
<1>7. CASE BytesWritten
  <2>1. /\ client.life = "live" /\ client.atHeader = 0
        /\ client'.flushed = Len(client.written)
        /\ client.request.keepAlive = peer.keep /\ peer' = peer
        /\ client'.petitions = client.petitions
    <3>1. client.flushed # Len(client.written) /\ client.connected /\ Alive(client)
      BY <1>1, <1>7, FlushAnswers, Types
    <3>2. client.life = "live" /\ client.atHeader = 0
      BY <3>1 DEF PoliteInv, Alive
    <3> QED
      BY <1>1, <1>7, <3>2, FlushAnswers DEF RequestOK
  <2>2. Last(client') = Last(client)
    BY <2>1 DEF Last
  <2> QED
    BY <1>1, <1>7, <2>1, <2>2, FlushAnswers DEF PoliteInv
<1>8. CASE Disconnected \/ DeferredDelete
  <2>1. \/ client' = [client EXCEPT !.connected = FALSE, !.life = "doomed"]
        \/ client' = [client EXCEPT !.life = "deleted", !.connected = FALSE,
                                    !.fromModule = NoDevice]
    BY <1>8 DEF Disconnected, DeferredDelete
  <2>2. ~client'.connected
    BY <1>1, <2>1 DEF ClientStates
  <2> QED
    BY <2>2 DEF PoliteInv
<1> QED
  BY <1>2, <1>3, <1>4, <1>5, <1>6, <1>7, <1>8 DEF Next

\* The invariant of the two together.
LEMMA PoliteAlways ==
    ASSUME Polite
    PROVE  Spec => [](TypeOK /\ SequentialInv /\ PoliteInv)
<1>1. Init => TypeOK /\ SequentialInv /\ PoliteInv
  BY TypeInit, SequentialInit DEF Init, NewClient, PoliteInv
<1>2. TypeOK /\ SequentialInv /\ PoliteInv /\ [Next]_vars
        => (TypeOK /\ SequentialInv /\ PoliteInv)'
  BY TypeStep, SequentialStep, PoliteStep DEF Polite
<1> QED
  BY <1>1, <1>2, PTL DEF Spec

\* The server deletes a connection whose peer is there only after all of the
\* answer has left the write buffer.
THEOREM NoTruncationEver ==
    ASSUME Polite
    PROVE  Spec => NoTruncation
<1>1. TypeOK /\ SequentialInv /\ PoliteInv /\ [Next]_vars =>
        [(client.life # "deleted" /\ client'.life = "deleted" /\ peer.open) =>
           /\ client.flushed = Len(client.written)
           /\ client.petitions # <<>>
           /\ LET p == Len(client.petitions)
              IN  BodyLength(p) = client.petitions[p].answer.total]_vars
  <2> SUFFICES ASSUME TypeOK, SequentialInv, PoliteInv, [Next]_vars,
                      client.life # "deleted", client'.life = "deleted", peer.open
               PROVE  /\ client.flushed = Len(client.written)
                      /\ client.petitions # <<>>
                      /\ BodyLength(Len(client.petitions))
                           = client.petitions[Len(client.petitions)].answer.total
    BY Zenon
  <2>1. /\ AnswersOK(client) /\ ConnectionOK /\ Sequential
        /\ client \in ClientStates /\ Len(client.petitions) \in Nat
    BY Types DEF SequentialInv, Polite
  <2>2. client.life = "doomed"
    <3>1. CASE DeferredDelete
      BY <3>1 DEF DeferredDelete
    <3>2. CASE PeerSend \/ PeerClose \/ ReadyRead \/ Gone \/ UNCHANGED vars
      BY <3>2 DEF PeerSend, PeerClose, ReadyRead, Gone, vars
    <3>3. CASE ReadLine
      BY <2>1, <3>3, ReadLineStep
    <3>4. CASE StartPetition
      BY <2>1, <3>4, StartPetitionStep
    <3>5. CASE BytesWritten
      BY <2>1, <3>5, FlushAnswers DEF Alive
    <3>6. CASE Disconnected
      BY <2>1, <3>6 DEF Disconnected, ClientStates
    <3>7. ~SplitOutOfRange /\ ~UpstreamData /\ ~UpstreamClosed
      BY <2>1, NoSplit
         DEF UpstreamData, UpstreamClosed, Idle, Running, AnswersOK, Alive
    <3> QED
      BY <3>1, <3>2, <3>3, <3>4, <3>5, <3>6, <3>7 DEF Next
  <2>3. /\ client.atHeader = 0 /\ client.flushed = Len(client.written)
        /\ client.fromModule.pos = Last(client).total
    BY <2>1, <2>2 DEF ConnectionOK, Alive, PoliteInv
  <2>4. Len(client.petitions) > 0
    BY <2>1, <2>3 DEF AnswersOK
  <2>5. InBody(client)
    BY <2>1, <2>2, <2>4 DEF AnswersOK, Alive
  <2> QED
    BY <2>1, <2>3, <2>4, <2>5, BodyLengthIs DEF InBody, Last
<1> QED
  BY <1>1, PoliteAlways, PTL DEF Spec, NoTruncation

\* The server ends a connection on its own only if the last request did not ask
\* for it to be kept.
THEOREM KeepAliveAlwaysHonoured ==
    ASSUME Polite
    PROVE  Spec => KeepAliveHonoured
<1>1. TypeOK /\ SequentialInv /\ PoliteInv /\ [Next]_vars =>
        [(client.life = "live" /\ client'.life = "doomed" /\ client'.connected) =>
           peer.sent > 0 /\ ~peer.keep]_vars
  <2> SUFFICES ASSUME TypeOK, SequentialInv, PoliteInv, [Next]_vars,
                      client.life = "live", client'.life = "doomed",
                      client'.connected
               PROVE  peer.sent > 0 /\ ~peer.keep
    BY Zenon
  <2>1. /\ RequestOK /\ AnswersOK(client) /\ Sequential /\ ~PartialWrites
        /\ client \in ClientStates
        /\ Len(client.written) \in Nat
    BY Types DEF SequentialInv, Polite
  <2>2. BytesWritten
    <3>1. ~(PeerSend \/ PeerClose \/ ReadyRead \/ Gone \/ UNCHANGED vars)
      BY DEF PeerSend, PeerClose, ReadyRead, Gone, vars
    <3>2. ~ReadLine
      BY <2>1, ReadLineStep
    <3>3. ~StartPetition
      BY <2>1, StartPetitionStep
    <3>4. ~Disconnected /\ ~DeferredDelete
      BY <2>1 DEF Disconnected, DeferredDelete, ClientStates
    <3>5. ~SplitOutOfRange /\ ~UpstreamData /\ ~UpstreamClosed
      BY <2>1, NoSplit
         DEF UpstreamData, UpstreamClosed, Idle, Running, AnswersOK, Alive
    <3> QED
      BY <3>1, <3>2, <3>3, <3>4, <3>5 DEF Next
  <2>3. client.flushed # Len(client.written) /\ client.connected
    BY <2>1, <2>2, FlushAnswers, Types
  <2>4. client.atHeader = 0
    BY <2>3 DEF PoliteInv
  <2>5. ~client.request.keepAlive
    BY <2>1, <2>2, FlushAnswers
  <2>6. /\ peer.sent = Len(client.petitions) /\ client.request.keepAlive = peer.keep
        /\ Len(client.petitions) > 0
    BY <2>1, <2>2, <2>4, FlushAnswers DEF RequestOK
  <2> QED
    BY <2>5, <2>6
<1> QED
  BY <1>1, PoliteAlways, PTL DEF Spec, KeepAliveHonoured

-----------------------------------------------------------------------------
(* Client implements Exchange *)

\* What the peer is owed of the answer under way is what is left in the device.
LEMMA OwedIsLeft ==
    ASSUME WholeFiles, NEW c, ClientType(c), AnswersOK(c), Alive(c), c.atHeader = 0
    PROVE  /\ c.petitions[Len(c.petitions)].answer.declared
                - BodyLen(c, Len(c.petitions))
                = Last(c).total - c.fromModule.pos
           /\ Last(c).total \in Nat /\ c.fromModule.pos \in Nat
           /\ c.fromModule.pos <= Last(c).total
<1> DEFINE P == Len(c.petitions)
<1>1. P \in Nat /\ P > 0 /\ c.fromModule.pos \in Nat
      /\ c.fromModule.pos <= c.fromModule.arrived
  BY DEF ClientType, ClientStates, Sources, AnswersOK
<1>2. InBody(c) /\ InOrder(c)
  BY <1>1 DEF AnswersOK
<1>3. c.petitions[P].answer \in Devices
  BY <1>1, <1>2 DEF InOrder
<1>4. /\ c.petitions[P].answer.declared = Last(c).total
      /\ Last(c).total \in Nat
  BY <1>3, WordSizeAssumption DEF WholeFiles, Last
<1> QED
  BY <1>1, <1>2, <1>4 DEF InBody

\* A connection starts as the exchange does.
LEMMA PromiseInit == Init => Promise!Init
BY DEF Init, NewClient, Promise!Init, Phase, Owed

\* Every step of a connection is one of the exchange, or leaves it as it is.
LEMMA PromiseStep ==
    ASSUME Polite, TypeOK, SequentialInv, PoliteInv, [Next]_vars, TypeOK'
    PROVE  [Promise!Next]_(Promise!vars)
<1>1. /\ Sequential /\ ~PartialWrites /\ WholeFiles
      /\ ClientType(client) /\ client \in ClientStates
      /\ Len(client.written) \in Nat /\ Len(client.petitions) \in Nat
      /\ peer \in [sent : 0..MaxRequests, keep : BOOLEAN, open : BOOLEAN]
      /\ AnswersOK(client) /\ RequestOK /\ ConnectionOK
      /\ peer.sent \in Nat
  BY Types DEF Polite, SequentialInv, Sequential
<1>2. SequentialInv' /\ ClientType(client')
  BY <1>1, SequentialStep DEF TypeOK, ClientType
<1>3. CASE PeerSend
  <2>1. /\ client' = client /\ client.connected /\ client.atHeader # 0
        /\ peer.sent = Len(client.petitions)
        /\ peer.sent = 0 \/ peer.keep
        /\ peer.open
    BY <1>1, <1>3, AsksWhenAnswered DEF PeerSend
  <2>2. Phase = "reading"
    BY <2>1 DEF PoliteInv, Phase
  <2>3. Phase' = Phase /\ Owed' = Owed /\ client'.petitions = client.petitions
    BY <2>1 DEF Phase, Owed, BodyLength
  <2>4. peer'.sent = peer.sent + 1 /\ peer'.open /\ peer'.keep \in BOOLEAN
    BY <1>3 DEF PeerSend
  <2>5. Promise!Ask
    BY <1>1, <2>1, <2>2, <2>3, <2>4 DEF Promise!Ask
  <2> QED
    BY <2>5 DEF Promise!Next
<1>4. CASE PeerClose
  <2>1. /\ client' = client /\ peer.open /\ ~peer'.open
        /\ peer'.sent = peer.sent /\ peer'.keep = peer.keep
        /\ peer'.open = FALSE
    BY <1>1, <1>4 DEF PeerClose
  <2>2. Phase' = Phase /\ Owed' = Owed /\ client'.petitions = client.petitions
    BY <2>1 DEF Phase, Owed, BodyLength
  <2>3. Promise!Leave
    BY <2>1, <2>2 DEF Promise!Leave
  <2> QED
    BY <2>3 DEF Promise!Next
<1>5. CASE ReadyRead \/ Gone \/ UNCHANGED vars
  <2>1. client' = client /\ peer' = peer
    BY <1>5 DEF ReadyRead, Gone, vars
  <2> QED
    BY <2>1 DEF Promise!vars, Phase, Owed, BodyLength
<1>6. CASE ReadLine
  <2>1. Phase' = Phase /\ Owed' = Owed
    BY <1>1, <1>6, ReadLineStep DEF Phase, Owed
  <2>2. peer' = peer /\ client'.petitions = client.petitions
    BY <1>1, <1>6, ReadLineStep DEF ReadLine
  <2> QED
    BY <2>1, <2>2 DEF Promise!vars
<1>7. CASE StartPetition
  <2>1. client.connected /\ peer' = peer
    BY <1>1, <1>7 DEF StartPetition, ConnectionOK
  <2>2. /\ client.atHeader # 0 /\ client'.atHeader = 0
        /\ client.life = "live" /\ client'.life = "live"
        /\ peer.sent = Len(client.petitions) + 1
        /\ Len(client'.petitions) = Len(client.petitions) + 1
        /\ Last(client') \in Devices
        /\ BodyLen(client', Len(client'.petitions)) = 0
    BY <1>1, <1>7, <2>1, StartPetitionStep DEF PoliteInv
  <2>3. Phase = "reading" /\ Phase' = "answering"
    BY <2>2 DEF Phase
  <2>4. Owed' = client'.petitions[Len(client'.petitions)].answer.declared - 0
    BY <2>2, <2>3 DEF Owed, BodyLength, BodyLen, BodyUnits
  <2>5. Owed' \in Nat \ {0}
    <3>1. Owed' = Last(client').declared - 0
      BY <2>4 DEF Last
    <3>2. Last(client').declared \in 1..(WordSize - 1)
      BY <1>1, <2>2 DEF WholeFiles
    <3> QED
      BY <3>1, <3>2, WordSizeAssumption
  <2>6. Promise!Begin
    BY <1>1, <2>1, <2>2, <2>3, <2>5 DEF Promise!Begin
  <2> QED
    BY <2>6 DEF Promise!Next
<1>8. ~SplitOutOfRange /\ ~UpstreamData /\ ~UpstreamClosed
  BY <1>1, NoSplit DEF UpstreamData, UpstreamClosed, Idle, Running, AnswersOK, Alive
<1>9. CASE BytesWritten
  <2>1. client.flushed # Len(client.written) /\ client.connected /\ Alive(client)
    BY <1>1, <1>9, FlushAnswers, Types
  <2>2. client.life = "live" /\ client.atHeader = 0
    BY <2>1 DEF PoliteInv, Alive
  <2>3. /\ peer' = peer /\ client'.petitions = client.petitions
        /\ client.request.keepAlive = peer.keep
        /\ Last(client') = Last(client)
    BY <1>1, <1>9, <2>2, FlushAnswers DEF RequestOK, Last
  <2>4. /\ Phase = "answering"
        /\ Owed = Last(client).total - client.fromModule.pos
        /\ Last(client).total \in Nat /\ client.fromModule.pos \in Nat
        /\ client.fromModule.pos <= Last(client).total
    BY <1>1, <2>1, <2>2, OwedIsLeft, BodyLengthIs DEF Phase, Owed
  <2>5. CASE client.fromModule.pos = Last(client).total
    <3>1. Owed = 0
      BY <2>4, <2>5
    <3>2. CASE peer.keep
      <4>1. client'.atHeader = 2 /\ client'.life = "live"
        BY <1>1, <1>9, <2>2, <2>3, <2>5, <3>2, FlushAnswers
      <4>2. Phase' = "reading" /\ Owed' = 0
        BY <4>1 DEF Phase, Owed
      <4>3. Promise!Keep
        BY <2>3, <2>4, <3>1, <3>2, <4>2 DEF Promise!Keep
      <4> QED
        BY <4>3 DEF Promise!Next
    <3>3. CASE ~peer.keep
      <4>1. client'.life = "doomed"
        BY <1>1, <1>9, <2>2, <2>3, <2>5, <3>3, FlushAnswers
      <4>2. Phase' = "closed" /\ Owed' = 0
        BY <4>1 DEF Phase, Owed
      <4>3. Promise!Close
        BY <2>3, <2>4, <3>1, <3>3, <4>2 DEF Promise!Close
      <4> QED
        BY <4>3 DEF Promise!Next
    <3> QED
      BY <3>2, <3>3
  <2>6. CASE client.fromModule.pos # Last(client).total
    <3>1. /\ client'.atHeader = 0 /\ client'.life = "live"
          /\ client'.fromModule.pos > client.fromModule.pos
      BY <1>1, <1>9, <2>2, <2>6, FlushAnswers
    <3>2. AnswersOK(client') /\ Alive(client')
      BY <1>2, <3>1 DEF SequentialInv, Alive
    <3>3. /\ client'.petitions[Len(client'.petitions)].answer.declared
               - BodyLen(client', Len(client'.petitions))
               = Last(client').total - client'.fromModule.pos
          /\ client'.fromModule.pos \in Nat
          /\ client'.fromModule.pos <= Last(client').total
      BY <1>1, <1>2, <3>1, <3>2, OwedIsLeft
    <3>4. Phase' = "answering"
      BY <3>1 DEF Phase
    <3>5. Owed' = Last(client').total - client'.fromModule.pos
      BY <3>3, <3>4 DEF Owed, BodyLength, BodyLen, BodyUnits
    <3>6. Owed' \in 0..(Owed - 1)
      BY <2>3, <2>4, <3>1, <3>3, <3>5
    <3>7. Promise!Send
      BY <2>3, <2>4, <3>4, <3>6 DEF Promise!Send
    <3> QED
      BY <3>7 DEF Promise!Next
  <2> QED
    BY <2>5, <2>6
<1>10. CASE Disconnected
  <2>1. /\ client' = [client EXCEPT !.connected = FALSE, !.life = "doomed"]
        /\ peer' = peer /\ Alive(client) /\ ~peer.open
    BY <1>10 DEF Disconnected, Idle, Running, Alive
  <2>2. client'.petitions = client.petitions /\ client'.life = "doomed"
    BY <1>1, <2>1 DEF ClientStates
  <2>3. Phase' = "closed" /\ Owed' = 0
    BY <2>2 DEF Phase, Owed
  <2>4. CASE Phase = "closed"
    BY <2>1, <2>2, <2>3, <2>4 DEF Owed, Promise!vars
  <2>5. CASE Phase # "closed"
    <3>1. Promise!GiveUp
      BY <2>1, <2>2, <2>3, <2>5 DEF Promise!GiveUp
    <3> QED
      BY <3>1 DEF Promise!Next
  <2> QED
    BY <2>4, <2>5
<1>11. CASE DeferredDelete
  <2>1. /\ client' = [client EXCEPT !.life = "deleted", !.connected = FALSE,
                                    !.fromModule = NoDevice]
        /\ peer' = peer /\ client.life = "doomed"
    BY <1>11 DEF DeferredDelete
  <2>2. client'.petitions = client.petitions /\ client'.life = "deleted"
    BY <1>1, <2>1 DEF ClientStates
  <2>3. Phase = "closed" /\ Owed = 0 /\ Phase' = "closed" /\ Owed' = 0
    BY <2>1, <2>2 DEF Phase, Owed
  <2> QED
    BY <2>1, <2>2, <2>3 DEF Promise!vars
<1> QED
  BY <1>3, <1>4, <1>5, <1>6, <1>7, <1>8, <1>9, <1>10, <1>11 DEF Next

\* The slots of Client add up to the exchange that a peer which waits for its
\* answers relies on: every request is answered once, in full and in order, and
\* the connection is kept or closed as the peer has asked.
THEOREM ClientKeepsPromise ==
    ASSUME Polite
    PROVE  Spec => KeepsPromise
<1>1. TypeOK /\ SequentialInv /\ PoliteInv /\ TypeOK' /\ [Next]_vars
        => [Promise!Next]_(Promise!vars)
  BY PromiseStep
<1> QED
  BY <1>1, PromiseInit, PoliteAlways, PTL DEF Spec, KeepsPromise, Promise!Spec
=============================================================================
