---------------------------- MODULE ClientProofs ----------------------------
(***************************************************************************)
(* Type correctness of Client, and what its socket is given, for every     *)
(* value of its constants: answers that do not mix, and one chunk of body  *)
(* at a time.  The last two are not inductive: the first needs to know how *)
(* far the open device has been read, the second where in the answers the  *)
(* chunk lies.                                                             *)
(***************************************************************************)
EXTENDS Client, SequenceTheorems, FiniteSetTheorems, TLAPS

\* The conjuncts of TypeOK that speak of the client alone.
ClientType(c) ==
    /\ c \in ClientStates
    /\ c.fromModule.pos <= c.fromModule.arrived
    /\ c.fromModule.arrived <= c.fromModule.total
    /\ c.flushed <= Len(c.written)

\* The remainder of a division by a word size is a word.
LEMMA RemainderIsWord ==
    ASSUME NEW n \in Int
    PROVE  n % WordSize \in 0..(WordSize - 1)
BY WordSizeAssumption

\* A new Client is of the right type.
LEMMA NewClientType == ClientType(NewClient)
BY WordSizeAssumption, DefaultLengthAssumption
   DEF ClientType, NewClient, ClientStates, NewRequest, FreshResponse, NoDevice,
       Requests, Responses, Sources, Tokens, Petitions, Answers

\* A line that is read leaves a request.
LEMMA AddHeaderType ==
    ASSUME NEW r \in Requests, NEW line \in Lines
    PROVE  AddHeader(r, line) \in Requests
BY DEF AddHeader, FirstLine, Requests, Lines

\* Closing the device that has sent its length leaves a client.
LEMMA CloseIfSentType ==
    ASSUME NEW c, ClientType(c)
    PROVE  /\ ClientType(CloseIfSent(c))
           /\ CloseIfSent(c).written = c.written
           /\ CloseIfSent(c).petitions = c.petitions
           /\ CloseIfSent(c).connected = c.connected
           /\ CloseIfSent(c).flushed = c.flushed
           /\ CloseIfSent(c).fromModule.pos = c.fromModule.pos
           /\ CloseIfSent(c).fromModule.kind = c.fromModule.kind
BY DEF ClientType, ClientStates, CloseIfSent, Sources

\* A client whose header state and request change stays a client
\* (readRequest, clean).
LEMMA HeaderFields ==
    ASSUME NEW c \in ClientStates, NEW h \in 0..2, NEW r \in Requests
    PROVE  [c EXCEPT !.atHeader = h, !.request = r] \in ClientStates
BY DEF ClientStates

\* So does one that writes a chunk of its device (readAndWrite).
LEMMA BodyFields ==
    ASSUME NEW c \in ClientStates, NEW w \in Seq(Tokens), NEW m \in Sources,
           NEW b \in 0..(WordSize - 1)
    PROVE  [c EXCEPT !.written = w, !.fromModule = m, !.bytesSent = b]
             \in ClientStates
BY DEF ClientStates

\* So does one whose device is read and nothing written, the socket being gone.
LEMMA DrainFields ==
    ASSUME NEW c \in ClientStates, NEW m \in Sources,
           NEW b \in 0..(WordSize - 1)
    PROVE  [c EXCEPT !.fromModule = m, !.bytesSent = b] \in ClientStates
BY DEF ClientStates

\* So does one whose device changes, with or without a posted deletion.
LEMMA SourceFields ==
    ASSUME NEW c \in ClientStates, NEW m \in Sources,
           NEW l \in {"live", "doomed", "deleted", "crashed"}
    PROVE  [c EXCEPT !.fromModule = m, !.life = l] \in ClientStates
BY DEF ClientStates

\* So does one that loses its socket and its device (disconnected, ~Client).
LEMMA GoneFields ==
    ASSUME NEW c \in ClientStates, NEW m \in Sources, NEW k \in BOOLEAN,
           NEW l \in {"live", "doomed", "deleted", "crashed"}
    PROVE  [c EXCEPT !.life = l, !.connected = k, !.fromModule = m]
             \in ClientStates
BY DEF ClientStates

\* So does one that is doomed or destroyed.
LEMMA LifeFields ==
    ASSUME NEW c \in ClientStates, NEW k \in BOOLEAN,
           NEW l \in {"live", "doomed", "deleted", "crashed"}
    PROVE  /\ [c EXCEPT !.life = l] \in ClientStates
           /\ [c EXCEPT !.connected = k, !.life = l] \in ClientStates
BY DEF ClientStates

\* So does one that starts on a petition (processPetition).
LEMMA PetitionFields ==
    ASSUME NEW c \in ClientStates, NEW rs \in Responses,
           NEW b \in 0..(WordSize - 1), NEW m \in Sources,
           NEW p \in Seq(Petitions), NEW w \in Seq(Tokens),
           NEW l \in {"live", "doomed", "deleted", "crashed"}
    PROVE  [c EXCEPT !.response = rs, !.bytesSent = b, !.fromModule = m,
                     !.petitions = p, !.written = w, !.life = l]
             \in ClientStates
BY DEF ClientStates

\* The end of a petition leaves a client.
LEMMA FinishType ==
    ASSUME NEW c, ClientType(c)
    PROVE  /\ ClientType(Finish(c))
           /\ Finish(c).written = c.written
           /\ Finish(c).petitions = c.petitions
           /\ Finish(c).connected = c.connected
           /\ Finish(c).flushed = c.flushed
           /\ Finish(c).fromModule = c.fromModule
<1>1. CASE KeepsAlive(c)
  <2>1. CleanRequest(c.request) \in Requests
    BY DEF ClientType, ClientStates, CleanRequest, Requests
  <2>2. Finish(c) = [c EXCEPT !.atHeader = 2, !.request = CleanRequest(c.request)]
    BY <1>1 DEF Finish
  <2>3. c \in ClientStates /\ 2 \in 0..2
    BY DEF ClientType
  <2>4. [c EXCEPT !.atHeader = 2, !.request = CleanRequest(c.request)]
          \in ClientStates
    BY <2>1, <2>3, HeaderFields, Zenon
  <2> QED
    BY <2>2, <2>4 DEF ClientType, ClientStates
<1>2. CASE ~KeepsAlive(c)
  BY <1>2 DEF Finish, ClientType, ClientStates
<1> QED
  BY <1>1, <1>2

\* What one read of the device returns: at least one unit when there is one, at
\* most a chunk, and in the order of the device.
LEMMA ChunkFacts ==
    ASSUME NEW c, ClientType(c), Available(c.fromModule) # 0
    PROVE  \E n \in 1..ChunkSize :
             /\ n <= c.fromModule.arrived - c.fromModule.pos
             /\ Chunk(c) = [i \in 1..n |-> [pet |-> Len(c.petitions),
                                            byte |-> c.fromModule.pos + i]]
             /\ Chunk(c) \in Seq(Tokens)
             /\ Len(Chunk(c)) = n
<1> DEFINE left == Available(c.fromModule)
           n == IF left < ChunkSize THEN left ELSE ChunkSize
<1>1. left \in Nat \ {0} /\ left = c.fromModule.arrived - c.fromModule.pos
  BY DEF ClientType, ClientStates, Sources, Available
<1>2. n \in 1..ChunkSize /\ n <= left
  BY <1>1, ChunkSizeAssumption
<1>3. Chunk(c) = [i \in 1..n |-> [pet |-> Len(c.petitions),
                                  byte |-> c.fromModule.pos + i]]
  BY DEF Chunk
<1> HIDE DEF n
<1>4. \A i \in 1..n : [pet |-> Len(c.petitions),
                       byte |-> c.fromModule.pos + i] \in Tokens
  BY <1>2 DEF ClientType, ClientStates, Sources, Tokens
<1>5. Chunk(c) \in Seq(Tokens) /\ Len(Chunk(c)) = n
  BY <1>2, <1>3, <1>4
<1> QED
  BY <1>1, <1>2, <1>3, <1>5

\* A chunk that is written leaves a client.
LEMMA WriteChunkType ==
    ASSUME NEW c, ClientType(c), Available(c.fromModule) # 0
    PROVE  /\ ClientType(WriteChunk(c))
           /\ WriteChunk(c).written = c.written \o Chunk(c)
           /\ WriteChunk(c).petitions = c.petitions
           /\ WriteChunk(c).connected = c.connected
           /\ WriteChunk(c).flushed = c.flushed
           /\ WriteChunk(c).fromModule.pos = c.fromModule.pos + Len(Chunk(c))
<1> DEFINE n == Len(Chunk(c))
           m == [c.fromModule EXCEPT !.pos = @ + n]
           w == c.written \o Chunk(c)
           b == (c.bytesSent + n) % WordSize
<1>1. /\ n \in Nat
      /\ n <= c.fromModule.arrived - c.fromModule.pos
      /\ Chunk(c) \in Seq(Tokens)
  BY ChunkFacts, ChunkSizeAssumption
<1>2. WriteChunk(c) = [c EXCEPT !.written = w, !.fromModule = m, !.bytesSent = b]
  BY DEF WriteChunk
<1>3. m \in Sources /\ m.pos <= m.arrived /\ m.arrived <= m.total
  <2>1. c.fromModule \in Sources /\ c.fromModule.arrived <= c.fromModule.total
    BY DEF ClientType, ClientStates
  <2> HIDE DEF n
  <2> QED
    BY <1>1, <2>1 DEF Sources
<1>4. w \in Seq(Tokens) /\ Len(w) = Len(c.written) + n
  <2>1. c.written \in Seq(Tokens)
    BY DEF ClientType, ClientStates
  <2> QED
    BY <1>1, <2>1
<1>5. b \in 0..(WordSize - 1)
  <2>1. c.bytesSent \in Int
    BY WordSizeAssumption DEF ClientType, ClientStates
  <2>2. c.bytesSent + n \in Int
    BY <1>1, <2>1
  <2> QED
    BY <2>2, RemainderIsWord
<1>6. c \in ClientStates /\ c.flushed <= Len(c.written) /\ Len(c.written) \in Nat
  BY DEF ClientType, ClientStates
<1> HIDE DEF n, m, w, b
<1>7. WriteChunk(c) \in ClientStates
  <2>1. [c EXCEPT !.written = w, !.fromModule = m, !.bytesSent = b]
          \in ClientStates
    BY <1>3, <1>4, <1>5, <1>6, BodyFields, Zenon
  <2> QED
    BY <1>2, <2>1
<1>8. /\ WriteChunk(c).fromModule = m
      /\ WriteChunk(c).written = w
      /\ WriteChunk(c).flushed = c.flushed
      /\ WriteChunk(c).petitions = c.petitions
      /\ WriteChunk(c).connected = c.connected
      /\ c.flushed \in Nat
  BY <1>2, <1>6 DEF ClientStates
<1>9. ClientType(WriteChunk(c))
  BY <1>1, <1>3, <1>4, <1>6, <1>7, <1>8 DEF ClientType
<1>10. m.pos = c.fromModule.pos + n
  <2>1. c.fromModule \in Sources
    BY DEF ClientType, ClientStates
  <2> QED
    BY <2>1 DEF m, Sources
<1> QED
  BY <1>8, <1>9, <1>10 DEF w, n

\* Draining the device of a socket that is gone leaves a client.
LEMMA DiscardType ==
    ASSUME NEW c, ClientType(c)
    PROVE  /\ ClientType(Discard(c))
           /\ Discard(c).written = c.written
           /\ Discard(c).petitions = c.petitions
           /\ Discard(c).connected = c.connected
           /\ Discard(c).flushed = c.flushed
<1> DEFINE rounds == (Available(c.fromModule) + ChunkSize - 1) \div ChunkSize
           m == [c.fromModule EXCEPT !.pos = c.fromModule.arrived]
           b == (c.bytesSent - rounds) % WordSize
<1>1. c \in ClientStates /\ c.fromModule \in Sources
      /\ c.fromModule.arrived <= c.fromModule.total
  BY DEF ClientType, ClientStates
<1>2. c.bytesSent \in Int
  BY WordSizeAssumption DEF ClientType, ClientStates
<1>3. Available(c.fromModule) \in Int
  BY <1>1 DEF Sources, Available
<1>4. rounds \in Int
  BY <1>3, ChunkSizeAssumption
<1>5. b \in 0..(WordSize - 1)
  BY <1>2, <1>4, RemainderIsWord
<1>6. m \in Sources /\ m.pos <= m.arrived /\ m.arrived <= m.total
  BY <1>1 DEF Sources
<1>7. Discard(c) = [c EXCEPT !.fromModule = m, !.bytesSent = b]
  BY DEF Discard
<1> HIDE DEF m, b, rounds
<1>8. Discard(c) \in ClientStates
  <2>1. [c EXCEPT !.fromModule = m, !.bytesSent = b] \in ClientStates
    BY <1>1, <1>5, <1>6, DrainFields, Zenon
  <2> QED
    BY <1>7, <2>1
<1>9. /\ Discard(c).fromModule = m
      /\ Discard(c).written = c.written
      /\ Discard(c).petitions = c.petitions
      /\ Discard(c).connected = c.connected
      /\ Discard(c).flushed = c.flushed
  BY <1>1, <1>7 DEF ClientStates
<1> QED
  BY <1>6, <1>8, <1>9 DEF ClientType

\* The slot readAndWrite leaves a client.
LEMMA ReadAndWriteType ==
    ASSUME NEW c, ClientType(c)
    PROVE  ClientType(ReadAndWrite(c))
<1> DEFINE d == CloseIfSent(c)
           e == CloseIfSent(Discard(d))
<1>1. ClientType(d)
  BY CloseIfSentType
<1>2. ClientType(Finish(d))
  BY <1>1, FinishType
<1>3. Available(d.fromModule) # 0 => ClientType(WriteChunk(d))
  BY <1>1, WriteChunkType
<1>4. ClientType(e)
  BY <1>1, DiscardType, CloseIfSentType
<1>5. ClientType(FinishIfExhausted(e))
  BY <1>4, FinishType DEF FinishIfExhausted
<1> QED
  BY <1>1, <1>2, <1>3, <1>5 DEF ReadAndWrite

\* An answer of the module tree makes a response and an open device.
LEMMA AnswerType ==
    ASSUME NEW d \in Devices
    PROVE  /\ NewResponse(d) \in Responses
           /\ Opened(d) \in Sources
           /\ Opened(d).pos <= Opened(d).arrived
           /\ Opened(d).arrived <= Opened(d).total
           /\ Opened(d).pos = 0
           /\ Opened(d).kind # "none"
<1>1. d \in Answers
  BY DevicesAssumption
<1>2. NewResponse(d) \in Responses
  BY <1>1, DefaultLengthAssumption
     DEF NewResponse, FreshResponse, Responses, Answers
<1>3. /\ Opened(d) \in Sources
      /\ Opened(d).pos <= Opened(d).arrived
      /\ Opened(d).arrived <= Opened(d).total
      /\ Opened(d).pos = 0
      /\ Opened(d).kind # "none"
  BY <1>1 DEF Opened, Sources, Answers
<1> QED
  BY <1>2, <1>3

\* The start of an answer leaves a client, with one more petition.
LEMMA StartAnswerType ==
    ASSUME NEW c, ClientType(c), NEW d \in Devices
    PROVE  /\ ClientType(StartAnswer(c, d))
           /\ StartAnswer(c, d).fromModule = Opened(d)
           /\ StartAnswer(c, d).written = c.written \o HeaderToken(c, d)
           /\ Len(StartAnswer(c, d).petitions) = Len(c.petitions) + 1
           /\ StartAnswer(c, d).flushed = c.flushed
           /\ StartAnswer(c, d).connected = c.connected
<1> DEFINE p == Append(c.petitions, [id |-> c.request.id, answer |-> d])
           w == c.written \o HeaderToken(c, d)
           l == IF c.fromModule.upstream THEN "doomed" ELSE c.life
<1>1. /\ c \in ClientStates
      /\ c.written \in Seq(Tokens)
      /\ c.petitions \in Seq(Petitions)
      /\ c.request \in Requests
      /\ c.flushed \in Nat
      /\ c.flushed <= Len(c.written)
      /\ c.life \in {"live", "doomed", "deleted", "crashed"}
  BY DEF ClientType, ClientStates
<1>2. [id |-> c.request.id, answer |-> d] \in Petitions
  BY <1>1, DevicesAssumption DEF Petitions, Requests
<1>3. p \in Seq(Petitions) /\ Len(p) = Len(c.petitions) + 1
  BY <1>1, <1>2
<1>4. HeaderToken(c, d) \in Seq(Tokens)
  <2> DEFINE t == [pet |-> Len(c.petitions) + 1, byte |-> 0]
  <2>1. t \in Tokens
    BY <1>1 DEF Tokens
  <2>2. HeaderToken(c, d) = <<>> \/ HeaderToken(c, d) = <<t>>
    BY DEF HeaderToken
  <2> HIDE DEF t
  <2>3. <<>> \in Seq(Tokens) /\ <<t>> \in Seq(Tokens)
    BY <2>1
  <2> QED
    BY <2>2, <2>3
<1>5. w \in Seq(Tokens) /\ Len(w) >= Len(c.written) /\ Len(c.written) \in Nat
      /\ Len(w) \in Nat
  BY <1>1, <1>4
<1>6. l \in {"live", "doomed", "deleted", "crashed"}
  BY <1>1
<1>7. 0 \in 0..(WordSize - 1)
  BY WordSizeAssumption
<1>8. StartAnswer(c, d) =
        [c EXCEPT !.response = NewResponse(d), !.bytesSent = 0,
                  !.fromModule = Opened(d), !.petitions = p,
                  !.written = w, !.life = l]
  BY DEF StartAnswer
<1> HIDE DEF p, w, l
<1>9. StartAnswer(c, d) \in ClientStates
  <2> DEFINE b == 0
             rs == NewResponse(d)
             m == Opened(d)
  <2>1. rs \in Responses /\ m \in Sources /\ b \in 0..(WordSize - 1)
    BY <1>7, AnswerType
  <2> HIDE DEF b, rs, m
  <2>2. [c EXCEPT !.response = rs, !.bytesSent = b, !.fromModule = m,
                  !.petitions = p, !.written = w, !.life = l] \in ClientStates
    BY <1>1, <1>3, <1>5, <1>6, <2>1, PetitionFields
  <2>3. [c EXCEPT !.response = NewResponse(d), !.bytesSent = 0,
                  !.fromModule = Opened(d), !.petitions = p,
                  !.written = w, !.life = l] \in ClientStates
    BY <2>2 DEF rs, b, m
  <2> QED
    BY <1>8, <2>3
<1>10. /\ StartAnswer(c, d).fromModule = Opened(d)
       /\ StartAnswer(c, d).written = w
       /\ StartAnswer(c, d).petitions = p
       /\ StartAnswer(c, d).flushed = c.flushed
       /\ StartAnswer(c, d).connected = c.connected
  BY <1>1, <1>8 DEF ClientStates
<1>11. ClientType(StartAnswer(c, d))
  BY <1>1, <1>5, <1>9, <1>10, AnswerType DEF ClientType
<1> QED
  BY <1>3, <1>10, <1>11 DEF w

\* A part of a line that is read leaves a client.
LEMMA FeedType ==
    ASSUME NEW c, ClientType(c), NEW line \in Lines
    PROVE  /\ ClientType(Feed(c, line))
           /\ Feed(c, line).written = c.written
           /\ Feed(c, line).petitions = c.petitions
           /\ Feed(c, line).connected = c.connected
           /\ Feed(c, line).flushed = c.flushed
           /\ Feed(c, line).fromModule = c.fromModule
<1>1. c \in ClientStates /\ c.request \in Requests /\ c.atHeader \in 0..2
  BY DEF ClientType, ClientStates
<1>2. CASE c.atHeader = 0
  BY <1>2 DEF Feed
<1>3. CASE c.atHeader # 0
  <2> DEFINE h == IF line.kind = "blank" THEN c.atHeader - 1 ELSE 2
             r == AddHeader(c.request, line)
  <2>1. h \in 0..2
    BY <1>1, <1>3
  <2>2. r \in Requests
    BY <1>1, AddHeaderType
  <2>3. Feed(c, line) = [c EXCEPT !.atHeader = h, !.request = r]
    BY <1>3 DEF Feed
  <2> HIDE DEF h, r
  <2>4. [c EXCEPT !.atHeader = h, !.request = r] \in ClientStates
    BY <1>1, <2>1, <2>2, HeaderFields, Zenon
  <2>5. /\ Feed(c, line).written = c.written
        /\ Feed(c, line).petitions = c.petitions
        /\ Feed(c, line).connected = c.connected
        /\ Feed(c, line).flushed = c.flushed
        /\ Feed(c, line).fromModule = c.fromModule
    BY <1>1, <2>3 DEF ClientStates
  <2> QED
    BY <2>3, <2>4, <2>5 DEF ClientType
<1> QED
  BY <1>2, <1>3

\* A line that is read leaves a client.
LEMMA FeedLineType ==
    ASSUME NEW c, ClientType(c), NEW line \in Lines
    PROVE  /\ ClientType(FeedLine(c, line))
           /\ FeedLine(c, line).written = c.written
           /\ FeedLine(c, line).petitions = c.petitions
           /\ FeedLine(c, line).connected = c.connected
           /\ FeedLine(c, line).flushed = c.flushed
           /\ FeedLine(c, line).fromModule = c.fromModule
<1>1. Blank \in Lines
  BY DEF Blank, Lines, LineKinds
<1>2. CASE Fragment(line) \/ Feed(c, line).atHeader = 0
  BY <1>2, FeedType DEF FeedLine
<1>3. CASE ~(Fragment(line) \/ Feed(c, line).atHeader = 0)
  <2> DEFINE e == Feed(c, line)
  <2>1. /\ ClientType(e)
        /\ e.written = c.written
        /\ e.petitions = c.petitions
        /\ e.connected = c.connected
        /\ e.flushed = c.flushed
        /\ e.fromModule = c.fromModule
    BY FeedType
  <2>2. FeedLine(c, line) = Feed(e, Blank)
    BY <1>3 DEF FeedLine
  <2> HIDE DEF e
  <2> QED
    BY <1>1, <2>1, <2>2, FeedType
<1> QED
  BY <1>2, <1>3

\* What a line leaves in the read buffer.
LEMMA RemainderType ==
    ASSUME NEW line \in Lines
    PROVE  Remainder(line) \in Seq(Lines)
<1>1. CASE line.kind = "long"
  <2>1. [line EXCEPT !.kind = "header"] \in Lines
    BY DEF Lines, LineKinds
  <2> QED
    BY <1>1, <2>1 DEF Remainder
<1>2. CASE line.kind = "edge"
  <2>1. [line EXCEPT !.kind = "blank"] \in Lines
    BY DEF Lines, LineKinds
  <2> QED
    BY <1>2, <2>1 DEF Remainder
<1>3. CASE line.kind \notin {"long", "edge"}
  BY <1>3 DEF Remainder
<1> QED
  BY <1>1, <1>2, <1>3

\* A request is a sequence of lines.
LEMMA RequestLinesType ==
    ASSUME NEW n \in Nat, NEW shape \in Shapes
    PROVE  RequestLines(n, shape) \in Seq(Lines)
<1>1. shape \in Seq(LineKinds)
  BY ShapesAssumption
<1>2. DOMAIN shape = 1..Len(shape) /\ Len(shape) \in Nat
  BY <1>1
<1>3. \A i \in 1..Len(shape) : [kind |-> shape[i], id |-> n] \in Lines
  BY <1>1, <1>2 DEF Lines
<1>4. RequestLines(n, shape) = [i \in 1..Len(shape) |->
                                  [kind |-> shape[i], id |-> n]]
  BY <1>2 DEF RequestLines
<1> QED
  BY <1>2, <1>3, <1>4

\* The socket sends some of what was written.
LEMMA FlushType ==
    ASSUME NEW c, ClientType(c), NEW k \in (c.flushed + 1)..Len(c.written)
    PROVE  /\ ClientType([c EXCEPT !.flushed = k])
           /\ k \in Nat /\ k > c.flushed
<1>1. /\ c \in ClientStates
      /\ c.flushed \in Nat
      /\ Len(c.written) \in Nat
      /\ c.fromModule.pos <= c.fromModule.arrived
      /\ c.fromModule.arrived <= c.fromModule.total
  BY DEF ClientType, ClientStates
<1>2. k \in Nat /\ k <= Len(c.written) /\ k > c.flushed
  BY <1>1
<1>3. [c EXCEPT !.flushed = k] \in ClientStates
  BY <1>1, <1>2 DEF ClientStates
<1>4. /\ [c EXCEPT !.flushed = k].flushed = k
      /\ [c EXCEPT !.flushed = k].written = c.written
      /\ [c EXCEPT !.flushed = k].fromModule = c.fromModule
  BY <1>1 DEF ClientStates
<1> QED
  BY <1>1, <1>2, <1>3, <1>4 DEF ClientType

\* More bytes arrive from the other server.
LEMMA ArriveType ==
    ASSUME NEW c, ClientType(c),
           NEW k \in (c.fromModule.arrived + 1)..c.fromModule.total
    PROVE  ClientType([c EXCEPT !.fromModule.arrived = k])
<1> DEFINE m == [c.fromModule EXCEPT !.arrived = k]
<1>1. /\ c \in ClientStates
      /\ c.fromModule \in Sources
      /\ c.fromModule.pos <= c.fromModule.arrived
      /\ c.flushed <= Len(c.written)
  BY DEF ClientType, ClientStates
<1>2. m \in Sources /\ m.pos <= m.arrived /\ m.arrived <= m.total
  BY <1>1 DEF Sources
<1>3. [c EXCEPT !.fromModule.arrived = k] = [c EXCEPT !.fromModule = m]
  BY <1>1 DEF ClientStates
<1> HIDE DEF m
<1>4. [c EXCEPT !.fromModule = m] \in ClientStates
  BY <1>1, <1>2 DEF ClientStates
<1>5. /\ [c EXCEPT !.fromModule = m].fromModule = m
      /\ [c EXCEPT !.fromModule = m].written = c.written
      /\ [c EXCEPT !.fromModule = m].flushed = c.flushed
  BY <1>1 DEF ClientStates
<1> QED
  BY <1>1, <1>2, <1>3, <1>4, <1>5 DEF ClientType

\* Every step preserves the type invariant: one step per action of Client.
LEMMA TypeStep == TypeOK /\ [Next]_vars => TypeOK'
<1> SUFFICES ASSUME TypeOK, [Next]_vars
             PROVE  TypeOK'
  OBVIOUS
<1>1. /\ ClientType(client)
      /\ net \in Seq(Lines)
      /\ inbuf \in Seq(Lines)
      /\ reading => inbuf # <<>>
      /\ reading \in BOOLEAN
      /\ peer \in [sent : 0..MaxRequests, keep : BOOLEAN, open : BOOLEAN]
  BY DEF TypeOK, ClientType
<1>2. (/\ ClientType(client')
       /\ UNCHANGED <<net, peer, inbuf, reading>>) => TypeOK'
  BY <1>1 DEF TypeOK, ClientType
<1>3. CASE PeerSend
  <2>1. PICK shape \in Shapes :
          /\ net' = net \o RequestLines(peer.sent + 1, shape)
          /\ peer' = [sent |-> peer.sent + 1, open |-> TRUE,
                      keep |-> \E i \in DOMAIN shape : shape[i] = "keepalive"]
    BY <1>3 DEF PeerSend
  <2>2. peer.sent + 1 \in Nat /\ peer.sent + 1 \in 0..MaxRequests
    BY <1>1, <1>3, MaxRequestsAssumption DEF PeerSend
  <2>3. net' \in Seq(Lines)
    BY <1>1, <2>1, <2>2, RequestLinesType
  <2>4. peer' \in [sent : 0..MaxRequests, keep : BOOLEAN, open : BOOLEAN]
    BY <2>1, <2>2
  <2> QED
    BY <1>1, <1>3, <2>3, <2>4 DEF PeerSend, TypeOK, ClientType
<1>4. CASE PeerClose
  <2>1. peer' \in [sent : 0..MaxRequests, keep : BOOLEAN, open : BOOLEAN]
    BY <1>1, <1>4 DEF PeerClose
  <2> QED
    BY <1>1, <1>4, <2>1 DEF PeerClose, TypeOK, ClientType
<1>5. CASE ReadyRead
  <2>1. PICK k \in 1..Len(net) :
          /\ inbuf' = inbuf \o SubSeq(net, 1, k)
          /\ net' = SubSeq(net, k + 1, Len(net))
    BY <1>5 DEF ReadyRead
  <2>2. /\ SubSeq(net, 1, k) \in Seq(Lines)
        /\ Len(SubSeq(net, 1, k)) = k
        /\ SubSeq(net, k + 1, Len(net)) \in Seq(Lines)
    BY <1>1, SubSeqProperties
  <2>3. inbuf' \in Seq(Lines) /\ Len(inbuf') # 0
    BY <1>1, <2>1, <2>2
  <2>4. inbuf' # <<>> /\ net' \in Seq(Lines)
    BY <2>1, <2>2, <2>3
  <2> QED
    BY <1>1, <1>5, <2>3, <2>4 DEF ReadyRead, TypeOK, ClientType
<1>6. reading => /\ Head(inbuf) \in Lines
                 /\ Remainder(Head(inbuf)) \o Tail(inbuf) \in Seq(Lines)
  <2> SUFFICES ASSUME reading
               PROVE  /\ Head(inbuf) \in Lines
                      /\ Remainder(Head(inbuf)) \o Tail(inbuf) \in Seq(Lines)
    OBVIOUS
  <2>1. Head(inbuf) \in Lines /\ Tail(inbuf) \in Seq(Lines)
    BY <1>1
  <2> QED
    BY <2>1, RemainderType
<1>7. CASE ReadLine
  <2>1. /\ ClientType(client')
        /\ inbuf' \in Seq(Lines)
        /\ reading' = (inbuf' # <<>>)
        /\ UNCHANGED <<net, peer>>
    BY <1>1, <1>6, <1>7, FeedLineType DEF ReadLine
  <2> QED
    BY <1>1, <2>1 DEF TypeOK, ClientType
<1>8. CASE StartPetition
  <2>1. reading
    BY <1>8 DEF StartPetition
  <2> DEFINE c == FeedLine(client, Head(inbuf))
  <2>2. ClientType(c)
    BY <1>1, <1>6, <2>1, FeedLineType
  <2>3. PICK d \in Devices : client' = ProcessPetition(c, d)
    BY <1>8 DEF StartPetition
  <2> HIDE DEF c
  <2>4. ClientType(StartAnswer(c, d))
    BY <2>2, StartAnswerType
  <2>5. ClientType(client')
    BY <2>3, <2>4, ReadAndWriteType DEF ProcessPetition
  <2>6. /\ inbuf' \in Seq(Lines)
        /\ reading' = FALSE
        /\ UNCHANGED <<net, peer>>
    BY <1>6, <1>8, <2>1 DEF StartPetition
  <2> QED
    BY <1>1, <2>5, <2>6 DEF TypeOK, ClientType
<1>9. CASE SplitOutOfRange
  <2>1. client \in ClientStates /\ "crashed" \in {"live", "doomed", "deleted", "crashed"}
    BY <1>1 DEF ClientType
  <2>2. [client EXCEPT !.life = "crashed"] \in ClientStates
    BY <2>1, LifeFields, Zenon
  <2>3. client' = [client EXCEPT !.life = "crashed"]
    BY <1>9 DEF SplitOutOfRange
  <2>4. ClientType(client')
    BY <1>1, <2>2, <2>3 DEF ClientType, ClientStates
  <2> QED
    BY <1>1, <1>9, <2>4 DEF SplitOutOfRange, TypeOK, ClientType
<1>10. CASE BytesWritten
  <2>1. PICK k \in (client.flushed + 1)..Len(client.written) :
          client' = ReadAndWrite([client EXCEPT !.flushed = k])
    BY <1>10 DEF BytesWritten
  <2>2. ClientType([client EXCEPT !.flushed = k])
    BY <1>1, FlushType
  <2>3. ClientType(client')
    BY <2>1, <2>2, ReadAndWriteType
  <2> QED
    BY <1>2, <1>10, <2>3 DEF BytesWritten
<1>11. CASE UpstreamData
  <2>1. PICK k \in (client.fromModule.arrived + 1)..client.fromModule.total :
          client' = ReadAndWrite([client EXCEPT !.fromModule.arrived = k])
    BY <1>11 DEF UpstreamData
  <2>2. ClientType([client EXCEPT !.fromModule.arrived = k])
    BY <1>1, ArriveType
  <2>3. ClientType(client')
    BY <2>1, <2>2, ReadAndWriteType
  <2> QED
    BY <1>2, <1>11, <2>3 DEF UpstreamData
<1>12. CASE UpstreamClosed
  <2> DEFINE m == [client.fromModule EXCEPT !.upstream = FALSE]
             l == "doomed"
  <2>1. /\ client \in ClientStates
        /\ client.fromModule \in Sources
        /\ client.fromModule.pos <= client.fromModule.arrived
        /\ client.fromModule.arrived <= client.fromModule.total
        /\ client.flushed <= Len(client.written)
    BY <1>1 DEF ClientType, ClientStates
  <2>2. /\ m \in Sources
        /\ m.pos <= m.arrived
        /\ m.arrived <= m.total
        /\ l \in {"live", "doomed", "deleted", "crashed"}
    BY <2>1 DEF Sources
  <2>3. client' = [client EXCEPT !.fromModule = m, !.life = l]
    BY <1>12 DEF UpstreamClosed
  <2> HIDE DEF m, l
  <2>4. [client EXCEPT !.fromModule = m, !.life = l] \in ClientStates
    BY <2>1, <2>2, SourceFields, Zenon
  <2>5. ClientType(client')
    BY <2>1, <2>2, <2>3, <2>4 DEF ClientType, ClientStates
  <2> QED
    BY <1>2, <1>12, <2>5 DEF UpstreamClosed
<1>13. CASE Disconnected
  <2> DEFINE k == FALSE
             l == "doomed"
  <2>1. /\ client \in ClientStates
        /\ k \in BOOLEAN
        /\ l \in {"live", "doomed", "deleted", "crashed"}
    BY <1>1 DEF ClientType
  <2>2. client' = [client EXCEPT !.connected = k, !.life = l]
    BY <1>13 DEF Disconnected
  <2> HIDE DEF k, l
  <2>3. [client EXCEPT !.connected = k, !.life = l] \in ClientStates
    BY <2>1, LifeFields, Zenon
  <2>4. ClientType(client')
    BY <1>1, <2>2, <2>3 DEF ClientType, ClientStates
  <2> QED
    BY <1>2, <1>13, <2>4 DEF Disconnected
<1>14. CASE DeferredDelete
  <2> DEFINE k == FALSE
             l == "deleted"
             m == NoDevice
  <2>1. /\ client \in ClientStates
        /\ k \in BOOLEAN
        /\ l \in {"live", "doomed", "deleted", "crashed"}
        /\ m \in Sources
        /\ m.pos <= m.arrived
        /\ m.arrived <= m.total
    BY <1>1 DEF ClientType, NoDevice, Sources
  <2>2. client' = [client EXCEPT !.life = l, !.connected = k, !.fromModule = m]
    BY <1>14 DEF DeferredDelete
  <2> HIDE DEF k, l, m
  <2>3. [client EXCEPT !.life = l, !.connected = k, !.fromModule = m]
          \in ClientStates
    BY <2>1, GoneFields, Zenon
  <2>4. ClientType(client')
    BY <1>1, <2>1, <2>2, <2>3 DEF ClientType, ClientStates
  <2> QED
    BY <1>2, <1>14, <2>4 DEF DeferredDelete
<1>15. CASE Gone
  BY <1>1, <1>2, <1>15 DEF Gone, vars
<1>16. CASE UNCHANGED vars
  BY <1>1, <1>2, <1>16 DEF vars
<1> QED
  BY <1>3, <1>4, <1>5, <1>7, <1>8, <1>9, <1>10, <1>11, <1>12, <1>13, <1>14,
     <1>15, <1>16 DEF Next

\* The connection starts in a state of the right type.
LEMMA TypeInit == Init => TypeOK
<1> SUFFICES ASSUME Init
             PROVE  TypeOK
  OBVIOUS
<1>1. ClientType(client)
  BY NewClientType DEF Init
<1>2. 0 \in 0..MaxRequests
  BY MaxRequestsAssumption
<1>3. peer \in [sent : 0..MaxRequests, keep : BOOLEAN, open : BOOLEAN]
  BY <1>2 DEF Init
<1>4. net \in Seq(Lines) /\ inbuf \in Seq(Lines) /\ reading = FALSE
  BY DEF Init
<1> QED
  BY <1>1, <1>3, <1>4 DEF TypeOK, ClientType

\* A connection of the daemon keeps every variable in its shape, reads a device
\* no further than it goes, and sends no more than was written.
THEOREM ClientTypeCorrect == Spec => []TypeOK
BY TypeInit, TypeStep, PTL DEF Spec

-----------------------------------------------------------------------------
(* What the socket is given *)

\* The open device and the socket agree on what is next: either nothing of the
\* last petition was written and its device is untouched, or the last token is
\* the unit of that petition up to which the device has been read.
InStep(c) ==
    \/ /\ c.fromModule.pos = 0
       /\ \A i \in 1..Len(c.written) : c.written[i].pet < Len(c.petitions)
    \/ /\ Len(c.written) > 0
       /\ c.written[Len(c.written)].pet = Len(c.petitions)
       /\ c.written[Len(c.written)].byte = c.fromModule.pos

\* ResponsesContiguous for a client, and what makes it inductive.
OrderInv(c) ==
    /\ \A i \in 1..(Len(c.written) - 1) :
         Follows(c.written[i], c.written[i + 1])
    /\ \A i \in 1..Len(c.written) : c.written[i].pet <= Len(c.petitions)
    /\ c.connected /\ c.fromModule.kind # "none" => InStep(c)

\* The body units in the write buffer lie in a window of one chunk.
WindowInv(c) ==
    \E m \in 0..Len(c.written) :
        \A i \in (c.flushed + 1)..Len(c.written) :
            c.written[i].byte > 0 => m < i /\ i <= m + ChunkSize

OrderOK == OrderInv(client)
WindowOK == WindowInv(client)

\* Two clients that agree on what was written and on the device agree on the
\* order; a socket that is gone no longer has to agree with the device.
LEMMA OrderFrame ==
    ASSUME NEW c, NEW d, OrderInv(c),
           d.written = c.written, d.petitions = c.petitions,
           d.connected /\ d.fromModule.kind # "none" =>
             /\ c.connected
             /\ c.fromModule.kind # "none"
             /\ d.fromModule.pos = c.fromModule.pos
    PROVE  OrderInv(d)
BY DEF OrderInv, InStep

\* The window does not change with what lies outside of the socket.
LEMMA WindowFrame ==
    ASSUME NEW c, NEW d, WindowInv(c),
           d.written = c.written, d.flushed = c.flushed
    PROVE  WindowInv(d)
BY DEF WindowInv

\* The window outlives the units that leave it.
LEMMA WindowFlush ==
    ASSUME NEW c, ClientType(c), WindowInv(c), NEW d, d.written = c.written,
           d.flushed \in Nat, d.flushed >= c.flushed
    PROVE  WindowInv(d)
<1>1. PICK m \in 0..Len(c.written) :
        \A i \in (c.flushed + 1)..Len(c.written) :
            c.written[i].byte > 0 => m < i /\ i <= m + ChunkSize
  BY DEF WindowInv
<1>2. c.flushed \in Nat /\ Len(c.written) \in Nat
  BY DEF ClientType, ClientStates
<1>3. \A i \in (d.flushed + 1)..Len(c.written) :
        i \in (c.flushed + 1)..Len(c.written)
  BY <1>2
<1> QED
  BY <1>1, <1>3 DEF WindowInv

\* A chunk continues the answer where its device stood.
LEMMA OrderWriteChunk ==
    ASSUME NEW c, ClientType(c), OrderInv(c), c.connected,
           c.fromModule.kind # "none", Available(c.fromModule) # 0
    PROVE  OrderInv(WriteChunk(c))
<1> DEFINE P == Len(c.petitions)
           L == Len(c.written)
           pos == c.fromModule.pos
           e == WriteChunk(c)
<1>1. PICK n \in 1..ChunkSize :
        /\ Chunk(c) = [i \in 1..n |-> [pet |-> P, byte |-> pos + i]]
        /\ Chunk(c) \in Seq(Tokens)
        /\ Len(Chunk(c)) = n
  BY ChunkFacts
<1>2. /\ n \in Nat \ {0} /\ L \in Nat /\ P \in Nat /\ pos \in Nat
      /\ c.written \in Seq(Tokens)
  BY <1>1, ChunkSizeAssumption DEF ClientType, ClientStates, Sources
<1>3. /\ e.written = c.written \o Chunk(c)
      /\ e.petitions = c.petitions
      /\ e.fromModule.pos = pos + n
  BY <1>1, WriteChunkType
<1>4. Len(e.written) = L + n
  BY <1>1, <1>2, <1>3
<1>5. \A i \in 1..L : e.written[i] = c.written[i]
  BY <1>1, <1>2, <1>3
<1>6. \A i \in (L + 1)..(L + n) :
        e.written[i].pet = P /\ e.written[i].byte = pos + (i - L)
  <2> TAKE i \in (L + 1)..(L + n)
  <2>1. i - L \in 1..n
    BY <1>2
  <2>2. e.written[i] = Chunk(c)[i - L]
    BY <1>1, <1>2, <1>3
  <2> QED
    BY <1>1, <2>1, <2>2
<1>7. InStep(c)
  BY DEF OrderInv
<1> HIDE DEF P, L, pos, e
<1>8. \A i \in 1..(L + n - 1) : Follows(e.written[i], e.written[i + 1])
  <2> TAKE i \in 1..(L + n - 1)
  <2>1. CASE i < L
    <3>1. /\ i \in 1..(L - 1)
          /\ e.written[i] = c.written[i]
          /\ e.written[i + 1] = c.written[i + 1]
      BY <1>2, <1>5, <2>1
    <3> QED
      BY <3>1 DEF OrderInv, L
  <2>2. CASE i = L
    <3>1. e.written[i] = c.written[L]
      BY <1>2, <1>5, <2>2
    <3>2. e.written[i + 1].pet = P /\ e.written[i + 1].byte = pos + 1
      <4>1. i + 1 \in (L + 1)..(L + n) /\ pos + ((i + 1) - L) = pos + 1
        BY <1>2, <2>2
      <4> QED
        BY <1>6, <4>1
    <3>3. \/ pos = 0 /\ c.written[L].pet < P
          \/ c.written[L].pet = P /\ c.written[L].byte = pos
      BY <1>2, <1>7, <2>2 DEF InStep, L, P, pos
    <3> QED
      BY <1>2, <3>1, <3>2, <3>3 DEF Follows
  <2>3. CASE i > L
    <3>1. i \in (L + 1)..(L + n) /\ i + 1 \in (L + 1)..(L + n)
      BY <1>2, <2>3
    <3>2. /\ e.written[i].pet = P
          /\ e.written[i].byte = pos + (i - L)
          /\ e.written[i + 1].pet = P
          /\ e.written[i + 1].byte = pos + ((i + 1) - L)
      BY <1>6, <3>1
    <3> QED
      BY <1>2, <3>2 DEF Follows
  <2> QED
    BY <1>2, <2>1, <2>2, <2>3
<1>9. \A i \in 1..(L + n) : e.written[i].pet <= P
  <2> TAKE i \in 1..(L + n)
  <2>1. CASE i <= L
    <3>1. i \in 1..L
      BY <1>2, <2>1
    <3>2. e.written[i] = c.written[i] /\ c.written[i].pet <= P
      BY <1>5, <3>1 DEF OrderInv, L, P
    <3> QED
      BY <3>2
  <2>2. CASE i > L
    <3>1. i \in (L + 1)..(L + n)
      BY <1>2, <2>2
    <3> QED
      BY <1>2, <1>6, <3>1
  <2> QED
    BY <1>2, <2>1, <2>2
<1>10. InStep(e)
  <2>1. L + n \in (L + 1)..(L + n) /\ L + n > 0 /\ pos + ((L + n) - L) = pos + n
    BY <1>2
  <2>2. e.written[L + n].pet = P /\ e.written[L + n].byte = pos + n
    BY <1>6, <2>1
  <2> QED
    BY <1>3, <1>4, <2>1, <2>2 DEF InStep, P
<1>11. Len(e.petitions) = P
  BY <1>3 DEF P
<1>12. OrderInv(e)
  <2>1. \A i \in 1..(Len(e.written) - 1) :
          Follows(e.written[i], e.written[i + 1])
    <3>1. Len(e.written) - 1 = L + n - 1
      BY <1>2, <1>4
    <3> QED
      BY <1>8, <3>1
  <2>2. \A i \in 1..Len(e.written) : e.written[i].pet <= Len(e.petitions)
    BY <1>4, <1>9, <1>11
  <2> QED
    BY <1>10, <2>1, <2>2, Zenon DEF OrderInv
<1> QED
  BY <1>12 DEF e

\* A chunk is written into an empty buffer only, so it fills one window.
LEMMA WindowWriteChunk ==
    ASSUME NEW c, ClientType(c), Available(c.fromModule) # 0,
           c.flushed = Len(c.written)
    PROVE  WindowInv(WriteChunk(c))
<1>1. PICK n \in 1..ChunkSize : Len(Chunk(c)) = n /\ Chunk(c) \in Seq(Tokens)
  BY ChunkFacts
<1>2. c.written \in Seq(Tokens) /\ Len(c.written) \in Nat /\ n \in Nat
      /\ n <= ChunkSize
  BY <1>1, ChunkSizeAssumption DEF ClientType, ClientStates
<1>3. /\ WriteChunk(c).written = c.written \o Chunk(c)
      /\ WriteChunk(c).flushed = c.flushed
  BY WriteChunkType
<1>4. Len(WriteChunk(c).written) = Len(c.written) + n
  <2>1. Len(c.written \o Chunk(c)) = Len(c.written) + n
    BY <1>1, <1>2
  <2> QED
    BY <1>3, <2>1
<1> DEFINE m == Len(c.written)
<1>5. m \in 0..Len(WriteChunk(c).written)
  BY <1>2, <1>4
<1>6. \A i \in (WriteChunk(c).flushed + 1)..Len(WriteChunk(c).written) :
        m < i /\ i <= m + ChunkSize
  <2>1. WriteChunk(c).flushed = m /\ Len(WriteChunk(c).written) = m + n
    BY <1>3, <1>4
  <2> QED
    BY <1>2, <2>1, ChunkSizeAssumption
<1> QED
  BY <1>5, <1>6 DEF WindowInv

\* The slot readAndWrite keeps the order and the window.
LEMMA ReadAndWriteKeeps ==
    ASSUME NEW c, ClientType(c), OrderInv(c), WindowInv(c)
    PROVE  OrderInv(ReadAndWrite(c)) /\ WindowInv(ReadAndWrite(c))
<1> DEFINE d == CloseIfSent(c)
           f == Discard(d)
           e == CloseIfSent(f)
<1>1. CASE c.fromModule.kind = "none"
  BY <1>1 DEF ReadAndWrite
<1>2. CASE c.fromModule.kind # "none"
  <2>1. ClientType(d) /\ OrderInv(d) /\ WindowInv(d)
        /\ d.fromModule.kind # "none"
    BY <1>2, CloseIfSentType, OrderFrame, WindowFrame
  <2> HIDE DEF d
  <2>2. OrderInv(Finish(d)) /\ WindowInv(Finish(d))
    BY <2>1, FinishType, OrderFrame, WindowFrame
  <2>3. ASSUME ~(Available(d.fromModule) = 0 \/ Queued(d) > 0), d.connected
        PROVE  OrderInv(WriteChunk(d)) /\ WindowInv(WriteChunk(d))
    <3>1. Len(d.written) - d.flushed <= 0 /\ d.flushed <= Len(d.written)
          /\ d.flushed \in Nat /\ Len(d.written) \in Nat
      BY <2>1, <2>3 DEF Queued, ClientType, ClientStates
    <3>2. d.flushed = Len(d.written)
      BY <3>1
    <3> QED
      BY <2>1, <2>3, <3>2, OrderWriteChunk, WindowWriteChunk
  <2>4. ASSUME ~d.connected
        PROVE  /\ OrderInv(FinishIfExhausted(e))
               /\ WindowInv(FinishIfExhausted(e))
    <3>1. ClientType(f) /\ OrderInv(f) /\ WindowInv(f) /\ ~f.connected
      BY <2>1, <2>4, DiscardType, OrderFrame, WindowFrame
    <3> HIDE DEF f
    <3>2. ClientType(e) /\ OrderInv(e) /\ WindowInv(e) /\ ~e.connected
      BY <3>1, CloseIfSentType, OrderFrame, WindowFrame
    <3> HIDE DEF e
    <3>3. OrderInv(Finish(e)) /\ WindowInv(Finish(e))
      BY <3>2, FinishType, OrderFrame, WindowFrame
    <3> QED
      BY <3>2, <3>3 DEF FinishIfExhausted
  <2>5. ReadAndWrite(c) =
          IF Exhausted(d) THEN Finish(d)
          ELSE IF Available(d.fromModule) = 0 \/ Queued(d) > 0 THEN d
          ELSE IF d.connected THEN WriteChunk(d)
          ELSE FinishIfExhausted(e)
    BY <1>2 DEF ReadAndWrite, d
  <2> HIDE DEF e, f
  <2> QED
    BY <2>1, <2>2, <2>3, <2>4, <2>5
<1> QED
  BY <1>1, <1>2

\* The start of an answer keeps the order and the window: its header, if it has
\* one, is no body and belongs to a petition later than all that was written.
LEMMA StartAnswerKeeps ==
    ASSUME NEW c, ClientType(c), OrderInv(c), WindowInv(c), NEW d \in Devices
    PROVE  OrderInv(StartAnswer(c, d)) /\ WindowInv(StartAnswer(c, d))
<1> DEFINE e == StartAnswer(c, d)
           P == Len(c.petitions)
           L == Len(c.written)
           t == [pet |-> P + 1, byte |-> 0]
<1>1. /\ e.fromModule.pos = 0
      /\ e.written = c.written \o HeaderToken(c, d)
      /\ Len(e.petitions) = P + 1
      /\ e.flushed = c.flushed
      /\ e.connected = c.connected
  BY StartAnswerType, AnswerType
<1>2. /\ P \in Nat /\ L \in Nat /\ c.flushed \in Nat
      /\ c.written \in Seq(Tokens)
      /\ \A i \in 1..L : c.written[i].pet \in Nat /\ c.written[i].byte \in Nat
  <2>1. /\ P \in Nat /\ L \in Nat /\ c.flushed \in Nat
        /\ c.written \in Seq(Tokens)
    BY DEF ClientType, ClientStates
  <2>2. \A i \in 1..L : c.written[i] \in Tokens
    BY <2>1
  <2> QED
    BY <2>1, <2>2 DEF Tokens
<1>3. /\ \A i \in 1..(L - 1) : Follows(c.written[i], c.written[i + 1])
      /\ \A i \in 1..L : c.written[i].pet <= P
  BY DEF OrderInv
<1>4. PICK m \in 0..L :
        \A i \in (c.flushed + 1)..L :
            c.written[i].byte > 0 => m < i /\ i <= m + ChunkSize
  BY DEF WindowInv
<1>5. \A i \in 1..L : c.written[i].pet < P + 1
  BY <1>2, <1>3
<1> HIDE DEF e, P, L
<1>6. CASE HeaderToken(c, d) = <<>>
  <2>1. e.written = c.written
    BY <1>1, <1>2, <1>6
  <2>2. OrderInv(e)
    <3>1. InStep(e)
      BY <1>1, <1>5, <2>1 DEF InStep, L
    <3>2. \A i \in 1..Len(e.written) : e.written[i].pet <= Len(e.petitions)
      <4>1. \A i \in 1..L : c.written[i].pet <= P + 1
        BY <1>2, <1>5
      <4> QED
        BY <1>1, <2>1, <4>1 DEF L
    <3> QED
      BY <1>3, <2>1, <3>1, <3>2 DEF OrderInv, L
  <2>3. WindowInv(e)
    BY <1>1, <2>1, WindowFrame
  <2> QED
    BY <2>2, <2>3 DEF e
<1>7. CASE HeaderToken(c, d) = <<t>>
  <2>1. /\ Len(e.written) = L + 1
        /\ \A i \in 1..L : e.written[i] = c.written[i]
        /\ e.written[L + 1] = t
    <3>1. e.written = Append(c.written, t)
      BY <1>1, <1>2, <1>7
    <3> QED
      BY <1>2, <3>1 DEF L
  <2>2. t.pet = P + 1 /\ t.byte = 0
    OBVIOUS
  <2> HIDE DEF t
  <2>3. \A i \in 1..L : Follows(e.written[i], e.written[i + 1])
    <3> TAKE i \in 1..L
    <3>1. CASE i = L
      <4>1. e.written[i].pet < P + 1 /\ e.written[i + 1] = t
        BY <1>5, <2>1, <3>1
      <4> QED
        BY <2>2, <4>1 DEF Follows
    <3>2. CASE i # L
      <4>1. i \in 1..(L - 1) /\ i + 1 \in 1..L
        BY <1>2, <3>2
      <4>2. e.written[i] = c.written[i] /\ e.written[i + 1] = c.written[i + 1]
        BY <2>1, <4>1
      <4> QED
        BY <1>3, <4>1, <4>2
    <3> QED
      BY <3>1, <3>2
  <2>4. \A i \in 1..(L + 1) : e.written[i].pet <= P + 1
    <3> TAKE i \in 1..(L + 1)
    <3>1. CASE i = L + 1
      BY <1>2, <2>1, <2>2, <3>1
    <3>2. CASE i # L + 1
      <4>1. i \in 1..L
        BY <1>2, <3>2
      <4>2. e.written[i] = c.written[i]
        BY <2>1, <4>1
      <4>3. c.written[i].pet <= P + 1
        BY <1>2, <1>5, <4>1
      <4> QED
        BY <4>2, <4>3, Zenon
    <3> QED
      BY <3>1, <3>2
  <2>5. InStep(e)
    BY <1>1, <1>2, <2>1, <2>2 DEF InStep
  <2>6. OrderInv(e)
    <3>1. Len(e.written) - 1 = L
      BY <1>2, <2>1
    <3>2. \A i \in 1..(Len(e.written) - 1) :
            Follows(e.written[i], e.written[i + 1])
      BY <2>3, <3>1
    <3>3. \A i \in 1..Len(e.written) : e.written[i].pet <= Len(e.petitions)
      BY <1>1, <2>1, <2>4
    <3> QED
      BY <2>5, <3>2, <3>3, Zenon DEF OrderInv
  <2>7. WindowInv(e)
    <3>1. m \in 0..Len(e.written)
      BY <1>2, <2>1
    <3>2. \A i \in (e.flushed + 1)..Len(e.written) :
            e.written[i].byte > 0 => m < i /\ i <= m + ChunkSize
      <4> TAKE i \in (e.flushed + 1)..Len(e.written)
      <4>1. CASE i = L + 1
        BY <2>1, <2>2, <4>1
      <4>2. CASE i # L + 1
        <5>1. i \in (c.flushed + 1)..L /\ i \in 1..L
          BY <1>1, <1>2, <2>1, <4>2
        <5> QED
          BY <1>4, <2>1, <5>1
      <4> QED
        BY <4>1, <4>2
    <3> QED
      BY <3>1, <3>2 DEF WindowInv
  <2> QED
    BY <2>6, <2>7 DEF e
<1> QED
  BY <1>6, <1>7 DEF HeaderToken, P

\* Every step keeps the order and the window.
LEMMA OrderStep ==
    TypeOK /\ OrderOK /\ WindowOK /\ [Next]_vars => OrderOK' /\ WindowOK'
<1> SUFFICES ASSUME TypeOK, OrderInv(client), WindowInv(client), [Next]_vars
             PROVE  OrderInv(client') /\ WindowInv(client')
  BY DEF OrderOK, WindowOK
<1>1. ClientType(client) /\ client \in ClientStates
  BY DEF TypeOK, ClientType
<1>2. reading => Head(inbuf) \in Lines
  BY DEF TypeOK
<1>3. CASE UNCHANGED client
  BY <1>3
<1>4. CASE ReadLine
  <2>1. /\ Head(inbuf) \in Lines
        /\ client' = FeedLine(client, Head(inbuf))
    BY <1>2, <1>4 DEF ReadLine
  <2> QED
    BY <1>1, <2>1, FeedLineType, OrderFrame, WindowFrame
<1>5. CASE StartPetition
  <2> DEFINE c == FeedLine(client, Head(inbuf))
  <2>1. Head(inbuf) \in Lines
    BY <1>2, <1>5 DEF StartPetition
  <2>2. PICK d \in Devices : client' = ProcessPetition(c, d)
    BY <1>5 DEF StartPetition
  <2>3. ClientType(c) /\ OrderInv(c) /\ WindowInv(c)
    BY <1>1, <2>1, FeedLineType, OrderFrame, WindowFrame
  <2> HIDE DEF c
  <2>4. ClientType(StartAnswer(c, d))
    BY <2>3, StartAnswerType
  <2> QED
    BY <2>2, <2>3, <2>4, StartAnswerKeeps, ReadAndWriteKeeps
       DEF ProcessPetition
<1>6. CASE SplitOutOfRange
  <2>1. /\ client'.written = client.written
        /\ client'.petitions = client.petitions
        /\ client'.connected = client.connected
        /\ client'.flushed = client.flushed
        /\ client'.fromModule = client.fromModule
    BY <1>1, <1>6 DEF SplitOutOfRange, ClientStates
  <2> QED
    BY <2>1, OrderFrame, WindowFrame
<1>7. CASE BytesWritten
  <2>1. PICK k \in (client.flushed + 1)..Len(client.written) :
          client' = ReadAndWrite([client EXCEPT !.flushed = k])
    BY <1>7 DEF BytesWritten
  <2> DEFINE c == [client EXCEPT !.flushed = k]
  <2>2. ClientType(c) /\ k \in Nat /\ k > client.flushed
    BY <1>1, FlushType
  <2>3. /\ c.written = client.written
        /\ c.petitions = client.petitions
        /\ c.connected = client.connected
        /\ c.fromModule = client.fromModule
        /\ c.flushed = k
        /\ client.flushed \in Nat
    BY <1>1 DEF ClientStates
  <2>4. client' = ReadAndWrite(c)
    BY <2>1
  <2> HIDE DEF c
  <2>5. OrderInv(c)
    BY <2>3, OrderFrame
  <2>6. WindowInv(c)
    <3>1. c.flushed \in Nat /\ c.flushed >= client.flushed
      BY <2>2, <2>3
    <3> QED
      BY <1>1, <2>3, <3>1, WindowFlush
  <2> QED
    BY <2>2, <2>4, <2>5, <2>6, ReadAndWriteKeeps
<1>8. CASE UpstreamData
  <2>1. PICK k \in (client.fromModule.arrived + 1)..client.fromModule.total :
          client' = ReadAndWrite([client EXCEPT !.fromModule.arrived = k])
    BY <1>8 DEF UpstreamData
  <2> DEFINE c == [client EXCEPT !.fromModule.arrived = k]
  <2>2. ClientType(c)
    BY <1>1, ArriveType
  <2>3. /\ c.written = client.written
        /\ c.petitions = client.petitions
        /\ c.connected = client.connected
        /\ c.flushed = client.flushed
        /\ c.fromModule.pos = client.fromModule.pos
        /\ c.fromModule.kind = client.fromModule.kind
    BY <1>1 DEF ClientStates, Sources
  <2>4. client' = ReadAndWrite(c)
    BY <2>1
  <2> HIDE DEF c
  <2>5. OrderInv(c) /\ WindowInv(c)
    BY <2>3, OrderFrame, WindowFrame
  <2> QED
    BY <2>2, <2>4, <2>5, ReadAndWriteKeeps
<1>9. CASE UpstreamClosed
  <2>1. /\ client'.written = client.written
        /\ client'.petitions = client.petitions
        /\ client'.connected = client.connected
        /\ client'.flushed = client.flushed
        /\ client'.fromModule.pos = client.fromModule.pos
        /\ client'.fromModule.kind = client.fromModule.kind
    BY <1>1, <1>9 DEF UpstreamClosed, ClientStates, Sources
  <2> QED
    BY <2>1, OrderFrame, WindowFrame
<1>10. CASE Disconnected \/ DeferredDelete
  <2>1. /\ client'.written = client.written
        /\ client'.petitions = client.petitions
        /\ client'.flushed = client.flushed
        /\ ~client'.connected
    BY <1>1, <1>10 DEF Disconnected, DeferredDelete, ClientStates
  <2> QED
    BY <2>1, OrderFrame, WindowFrame
<1> QED
  BY <1>3, <1>4, <1>5, <1>6, <1>7, <1>8, <1>9, <1>10
     DEF Next, PeerSend, PeerClose, ReadyRead, Gone, vars

\* Type, order and window together are inductive.
LEMMA OrderInvariant == Spec => [](TypeOK /\ OrderOK /\ WindowOK)
<1>1. Init => TypeOK /\ OrderOK /\ WindowOK
  <2> SUFFICES ASSUME Init
               PROVE  TypeOK /\ OrderOK /\ WindowOK
    OBVIOUS
  <2>1. /\ client.written = <<>>
        /\ client.fromModule.kind = "none"
    BY DEF Init, NewClient, NoDevice
  <2>2. OrderOK
    BY <2>1 DEF OrderOK, OrderInv
  <2>3. WindowOK
    <3>1. client.flushed = 0
      BY DEF Init, NewClient
    <3> QED
      BY <2>1, <3>1 DEF WindowOK, WindowInv
  <2> QED
    BY <2>2, <2>3, TypeInit
<1>2. (TypeOK /\ OrderOK /\ WindowOK) /\ [Next]_vars
        => (TypeOK /\ OrderOK /\ WindowOK)'
  BY TypeStep, OrderStep
<1> QED
  BY <1>1, <1>2, PTL DEF Spec

\* However the peer, the network and the other servers behave, no answer is
\* mixed with an other one, and none is skipped, repeated or reordered within.
THEOREM ResponsesContiguousAlways == Spec => []ResponsesContiguous
<1>1. OrderOK => ResponsesContiguous
  BY DEF OrderOK, OrderInv, ResponsesContiguous
<1> QED
  BY <1>1, OrderInvariant, PTL

\* No more than one chunk of body ever waits in the write buffer of a connection,
\* whatever else does.
THEOREM OneChunkQueuedAlways == Spec => []OneChunkQueued
<1>1. TypeOK /\ WindowOK => OneChunkQueued
  <2> SUFFICES ASSUME TypeOK, WindowOK
               PROVE  OneChunkQueued
    OBVIOUS
  <2> DEFINE S == {i \in (client.flushed + 1)..Len(client.written) :
                       client.written[i].byte > 0}
  <2>1. PICK m \in 0..Len(client.written) :
          \A i \in (client.flushed + 1)..Len(client.written) :
              client.written[i].byte > 0 => m < i /\ i <= m + ChunkSize
    BY DEF WindowOK, WindowInv
  <2>2. client.flushed \in Nat /\ Len(client.written) \in Nat
        /\ ChunkSize \in Nat \ {0}
    BY ChunkSizeAssumption DEF TypeOK, ClientStates
  <2>3. m \in Int /\ m + 1 \in Int /\ m + ChunkSize \in Int
        /\ ~(m + 1 > m + ChunkSize)
        /\ (m + ChunkSize) - (m + 1) + 1 = ChunkSize
    BY <2>2
  <2>4. S \subseteq (m + 1)..(m + ChunkSize)
    BY <2>1, <2>2, <2>3
  <2>5. /\ IsFiniteSet((m + 1)..(m + ChunkSize))
        /\ Cardinality((m + 1)..(m + ChunkSize)) = ChunkSize
    BY <2>3, FS_Interval
  <2>6. Cardinality(S) <= ChunkSize
    BY <2>4, <2>5, FS_Subset
  <2> QED
    BY <2>6 DEF OneChunkQueued
<1> QED
  BY <1>1, OrderInvariant, PTL
=============================================================================
