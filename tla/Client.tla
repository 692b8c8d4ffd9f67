------------------------------- MODULE Client -------------------------------
(***************************************************************************)
(* One connection of the onion+ daemon: the slots of the Client object     *)
(* (src/src/client.cpp), the QTcpSocket it talks to and the QIODevice that *)
(* the module tree handed it as the body of the answer.                    *)
(*                                                                         *)
(* The daemon is single threaded.  A slot runs to its end before the event *)
(* loop delivers the next signal, so every signal is one action, except    *)
(* that the loop of readRequest is cut into one action per line: reading   *)
(* says that the loop is running, and no other slot runs meanwhile.  Only  *)
(* the peer and the network move on while it does.                         *)
(*                                                                         *)
(* Request lines are abstracted to their kind, answers to tokens: token    *)
(* [pet |-> p, byte |-> 0] is the whole header block of petition p, and    *)
(* byte |-> b with b > 0 the b-th unit of its body.                        *)
(***************************************************************************)
EXTENDS Integers, Sequences, FiniteSets

CONSTANTS
    ChunkSize,      \* what readAndWrite reads at a time (2*1024 in the code)
    DefaultLength,  \* the length of a fresh Response (0xFFFFFFF in the code)
    WordSize,       \* 2^w for the w bits of the unsigned long bytesSent
    Devices,        \* the answers the module tree may give
    Shapes,         \* the requests the peer may send, as sequences of line kinds
    MaxRequests,    \* bound: the requests one peer sends
    Pipelining,     \* may the peer send before it has read the last answer?
    PartialWrites   \* may the kernel take only a part of the write buffer?

(***************************************************************************)
(* get        the request line                                             *)
(* keepalive  Connection: keep-alive                                       *)
(* header     any other non-blank line                                     *)
(* long       a line longer than the 1023 characters that readLine returns *)
(* edge       a line of exactly 1023 characters before its end-of-line     *)
(* blank      an empty line                                                *)
(***************************************************************************)
LineKinds == {"get", "keepalive", "header", "long", "edge", "blank"}
Lines == [kind : LineKinds, id : Nat]
Blank == [kind |-> "blank", id |-> 0]

(***************************************************************************)
(* An answer of the module tree.  length is what the module leaves in      *)
(* Response::length, declared what it leaves in the content-length header, *)
(* total the bytes the device delivers in the end.  A "file" is a File or  *)
(* a QBuffer, a "proxy" the socket to another server, which announces no   *)
(* length and whose bytes arrive over time.  A file is not open when       *)
(* File::File could not open it.                                           *)
(***************************************************************************)
Answers == [kind : {"file", "proxy"}, length : Nat, declared : Nat,
            total : Nat, open : BOOLEAN]

ASSUME ChunkSizeAssumption == ChunkSize \in Nat \ {0}
ASSUME DefaultLengthAssumption == DefaultLength \in Nat
ASSUME WordSizeAssumption == WordSize \in Nat \ {0}
ASSUME DevicesAssumption == Devices \subseteq Answers
ASSUME ProxyAssumption ==
    \A d \in Devices : d.kind = "proxy" => d.length = DefaultLength /\ d.open
ASSUME ShapesAssumption == Shapes \subseteq Seq(LineKinds) \ {<<>>}
ASSUME MaxRequestsAssumption == MaxRequests \in Nat
ASSUME EnvironmentAssumption == Pipelining \in BOOLEAN /\ PartialWrites \in BOOLEAN

VARIABLES
    net,        \* lines the peer sent that have not reached the socket yet
    peer,       \* the peer: requests sent, last one asked keep-alive, still open
    inbuf,      \* the read buffer of clientSocket
    reading,    \* the loop of readRequest is running
    client      \* the Client object with its socket, see ClientStates

vars == <<net, peer, inbuf, reading, client>>

-----------------------------------------------------------------------------
(* The data the Client object keeps. *)

\* method: is it non-empty?  id: the request whose first line was read, 0 if
\* the first line was no request line.  hostIP: the key the address is under.
Requests == [id : Nat, method : BOOLEAN, keepAlive : BOOLEAN,
             hostIP : {"host-ip", "Host-IP"}]

\* hasLength and keepAlive: is the header content-length, keep-alive present?
Responses == [length : Nat, hasLength : BOOLEAN, keepAlive : BOOLEAN,
              ignoreHeaders : BOOLEAN]

\* The QIODevice: read up to pos, arrived bytes can be read.  upstream: it is
\* a socket that is still connected to the other server.
Sources == [kind : {"none", "file", "proxy"}, pos : Nat, arrived : Nat,
            total : Nat, open : BOOLEAN, upstream : BOOLEAN]

Tokens == [pet : Nat, byte : Nat]

\* One call of processPetition: the request it answers, and the answer.
Petitions == [id : Nat, answer : Answers]

\* written: every token given to clientSocket->write(); the first flushed of
\* them have left the write buffer.  petitions is a history of the calls of
\* processPetition.  life: "doomed" once deleteLater is posted.
ClientStates ==
    [atHeader : 0..2, request : Requests, response : Responses,
     bytesSent : 0..(WordSize - 1), fromModule : Sources,
     connected : BOOLEAN, written : Seq(Tokens), flushed : Nat,
     petitions : Seq(Petitions),
     life : {"live", "doomed", "deleted", "crashed"}]

NoDevice == [kind |-> "none", pos |-> 0, arrived |-> 0, total |-> 0,
             open |-> FALSE, upstream |-> FALSE]

FreshResponse == [length |-> DefaultLength, hasLength |-> FALSE,
                  keepAlive |-> FALSE, ignoreHeaders |-> FALSE]

NewRequest == [id |-> 0, method |-> FALSE, keepAlive |-> FALSE,
               hostIP |-> "host-ip"]

NewClient == [atHeader |-> 2, request |-> NewRequest,
              response |-> FreshResponse, bytesSent |-> 0,
              fromModule |-> NoDevice, connected |-> TRUE, written |-> <<>>,
              flushed |-> 0, petitions |-> <<>>, life |-> "live"]

-----------------------------------------------------------------------------
(* Request *)

\* The request line; a blank one leaves the method empty.
FirstLine(r, line) ==
    [r EXCEPT !.method = line.kind # "blank",
              !.id = IF line.kind = "get" THEN line.id ELSE 0]

\* Mutant of AddHeader: every header line decides on keep-alive anew.
AddHeaderForgetting(r, line) ==
    IF ~r.method THEN FirstLine(r, line)
    ELSE [r EXCEPT !.keepAlive = line.kind = "keepalive"]

\* Without a method the line is split as a request line.  Other lines are
\* headers, and only one matters here.
AddHeader(r, line) ==
    IF ~r.method THEN FirstLine(r, line)
    ELSE [r EXCEPT !.keepAlive = @ \/ line.kind = "keepalive"]

\* Mutant of CleanRequest: the method survives.
KeepMethod(r) == [r EXCEPT !.keepAlive = FALSE, !.hostIP = "Host-IP"]

\* clean() drops the method and all headers, and the address comes back under
\* a key of another spelling.
CleanRequest(r) ==
    [r EXCEPT !.method = FALSE, !.keepAlive = FALSE, !.hostIP = "Host-IP"]

(* Response *)

\* Mutant of NewResponse: the length is one short.
ShortResponse(d) ==
    [FreshResponse EXCEPT !.length = d.length - 1, !.hasLength = TRUE,
                          !.keepAlive = TRUE]

\* What the modules leave in the Response: a file or listing sets its length
\* and keep-alive, a proxy only asks for its answer to be passed through.
NewResponse(d) ==
    IF d.kind = "proxy"
    THEN [FreshResponse EXCEPT !.ignoreHeaders = TRUE]
    ELSE [FreshResponse EXCEPT !.length = d.length, !.hasLength = TRUE,
                               !.keepAlive = TRUE]

(* fromModule *)

Opened(d) ==
    [kind |-> d.kind, pos |-> 0,
     arrived |-> IF d.kind = "proxy" THEN 0 ELSE d.total,
     total |-> d.total, open |-> d.open, upstream |-> d.kind = "proxy"]

Available(m) == IF m.open THEN m.arrived - m.pos ELSE 0

AtEnd(m) == Available(m) = 0

-----------------------------------------------------------------------------
(* readAndWrite *)

\* bytesToWrite(): a socket that is not connected buffers nothing.
Queued(c) == IF c.connected THEN Len(c.written) - c.flushed ELSE 0

\* Mutant of CloseIfSent: the device is closed one unit too soon.
CloseTooSoon(c) ==
    IF c.response.length <= c.bytesSent + 1
    THEN [c EXCEPT !.fromModule.open = FALSE, !.fromModule.upstream = FALSE]
    ELSE c

CloseIfSent(c) ==
    IF c.response.length <= c.bytesSent
    THEN [c EXCEPT !.fromModule.open = FALSE, !.fromModule.upstream = FALSE]
    ELSE c

Exhausted(c) ==
    \/ ~c.response.ignoreHeaders /\ AtEnd(c.fromModule)
    \/ ~c.fromModule.open

\* Mutant of KeepsAlive: the header of the request is not asked.
KeepsAliveAnyway(c) == c.response.hasLength /\ c.response.keepAlive

\* No module sets "connection: close", so that test of the code never holds.
KeepsAlive(c) ==
    c.response.hasLength /\ c.request.keepAlive /\ c.response.keepAlive

\* Mutant of Finish: the next request finds atHeader at 0.
FinishInBody(c) ==
    IF KeepsAlive(c)
    THEN [c EXCEPT !.request = CleanRequest(@)]
    ELSE [c EXCEPT !.life = "doomed"]

Finish(c) ==
    IF KeepsAlive(c)
    THEN [c EXCEPT !.atHeader = 2, !.request = CleanRequest(@)]
    ELSE [c EXCEPT !.life = "doomed"]

\* Mutant of Chunk: the device always yields a whole chunk.
WholeChunk(c) ==
    [i \in 1..ChunkSize |-> [pet |-> Len(c.petitions),
                             byte |-> c.fromModule.pos + i]]

\* What fromModule->read(2*1024) returns: no more than is there.
Chunk(c) ==
    LET left == Available(c.fromModule)
    IN  [i \in 1..(IF left < ChunkSize THEN left ELSE ChunkSize) |->
           [pet |-> Len(c.petitions), byte |-> c.fromModule.pos + i]]

\* Mutant of WriteChunk: the chunk stays in the device.
PeekChunk(c) ==
    [c EXCEPT !.written = @ \o Chunk(c),
              !.bytesSent = (@ + Len(Chunk(c))) % WordSize]

\* One round of the loop: a chunk moves from the device to the write buffer,
\* and the loop ends because the buffer is no longer empty.
WriteChunk(c) ==
    [c EXCEPT !.written = @ \o Chunk(c),
              !.fromModule.pos = @ + Len(Chunk(c)),
              !.bytesSent = (@ + Len(Chunk(c))) % WordSize]

\* A write to a socket that is no longer connected buffers nothing and returns
\* -1: the loop reads the device dry, and bytesSent goes down at each round.
Discard(c) ==
    LET rounds == (Available(c.fromModule) + ChunkSize - 1) \div ChunkSize
    IN  [c EXCEPT !.fromModule.pos = c.fromModule.arrived,
                  !.bytesSent = (@ - rounds) % WordSize]

FinishIfExhausted(c) == IF Exhausted(c) THEN Finish(c) ELSE c

\* Mutant of ReadAndWrite: the write buffer may hold something already.
EagerReadAndWrite(c) ==
    LET d == CloseIfSent(c)
    IN  IF c.fromModule.kind = "none" THEN c
        ELSE IF Exhausted(d) THEN Finish(d)
        ELSE IF Available(d.fromModule) = 0 THEN d
        ELSE IF d.connected THEN WriteChunk(d)
        ELSE FinishIfExhausted(CloseIfSent(Discard(d)))

ReadAndWrite(c) ==
    LET d == CloseIfSent(c)
    IN  IF c.fromModule.kind = "none" THEN c
        ELSE IF Exhausted(d) THEN Finish(d)
        ELSE IF Available(d.fromModule) = 0 \/ Queued(d) > 0 THEN d
        ELSE IF d.connected THEN WriteChunk(d)
        ELSE FinishIfExhausted(CloseIfSent(Discard(d)))

-----------------------------------------------------------------------------
(* processPetition and readRequest *)

\* A proxy passes the header of the other server through.
HeaderToken(c, d) ==
    IF d.kind = "proxy" \/ ~c.connected THEN <<>>
    ELSE <<[pet |-> Len(c.petitions) + 1, byte |-> 0]>>

\* The answer d of the module tree to the request at hand.  The device of the
\* last petition is deleted, and one that is a connected socket emits
\* disconnected() on the way, which the last petition wired to deleteLater.
StartAnswer(c, d) ==
    [c EXCEPT !.response = NewResponse(d), !.bytesSent = 0,
              !.fromModule = Opened(d),
              !.petitions = Append(@, [id |-> c.request.id, answer |-> d]),
              !.written = @ \o HeaderToken(c, d),
              !.life = IF c.fromModule.upstream THEN "doomed" ELSE @]

ProcessPetition(c, d) == ReadAndWrite(StartAnswer(c, d))

\* readLine returns at most 1023 characters: a longer line leaves a rest that
\* is read as a line of its own, which is blank if the line just fits.
Fragment(line) == line.kind \in {"long", "edge"}

Remainder(line) ==
    CASE line.kind = "long" -> <<[line EXCEPT !.kind = "header"]>>
      [] line.kind = "edge" -> <<[line EXCEPT !.kind = "blank"]>>
      [] OTHER -> <<>>

\* Mutant of Feed: one blank part ends the header.
FeedOneBlank(c, line) ==
    IF c.atHeader = 0 THEN c
    ELSE [c EXCEPT !.atHeader = IF line.kind = "blank" THEN @ - 1 ELSE 1,
                   !.request = AddHeader(@, line)]

\* One part of the line, split at its end-of-line.  A part that is not blank
\* asks for two blank ones again.
Feed(c, line) ==
    IF c.atHeader = 0 THEN c
    ELSE [c EXCEPT !.atHeader = IF line.kind = "blank" THEN @ - 1 ELSE 2,
                   !.request = AddHeader(@, line)]

\* A line with its end-of-line has a second part, and that one is blank.
FeedLine(c, line) ==
    IF Fragment(line) \/ Feed(c, line).atHeader = 0
    THEN Feed(c, line)
    ELSE Feed(Feed(c, line), Blank)

-----------------------------------------------------------------------------
(* The peer and the network *)

Running == client.life \in {"live", "doomed"}

\* The event loop may deliver a signal to the slots of this client.
Idle == Running /\ ~reading

\* The peer has all of the announced answer to its request n.
Received(n) ==
    \E i \in 1..client.flushed :
        LET p == client.petitions[client.written[i].pet]
        IN  p.id = n /\ client.written[i].byte = p.answer.declared

RequestLines(n, shape) ==
    [i \in DOMAIN shape |-> [kind |-> shape[i], id |-> n]]

PeerSend ==
    /\ Running
    /\ peer.open
    /\ peer.sent < MaxRequests
    /\ Pipelining \/ peer.sent = 0 \/ (peer.keep /\ Received(peer.sent))
    /\ \E shape \in Shapes :
         /\ net' = net \o RequestLines(peer.sent + 1, shape)
         /\ peer' = [sent |-> peer.sent + 1, open |-> TRUE,
                     keep |-> \E i \in DOMAIN shape : shape[i] = "keepalive"]
    /\ UNCHANGED <<inbuf, reading, client>>

PeerClose ==
    /\ peer.open
    /\ peer' = [peer EXCEPT !.open = FALSE]
    /\ UNCHANGED <<net, inbuf, reading, client>>

\* The network splits what the peer sent as it likes.
ReadyRead ==
    /\ Idle
    /\ client.connected
    /\ \E k \in 1..Len(net) :
         /\ inbuf' = inbuf \o SubSeq(net, 1, k)
         /\ net' = SubSeq(net, k + 1, Len(net))
    /\ reading' = TRUE
    /\ UNCHANGED <<peer, client>>

\* One turn of the loop of readRequest that leaves the header open.
ReadLine ==
    /\ Running
    /\ reading
    /\ LET line == Head(inbuf)
       IN  /\ FeedLine(client, line).atHeader # 0
           /\ client' = FeedLine(client, line)
           /\ inbuf' = Remainder(line) \o Tail(inbuf)
    /\ reading' = (inbuf' # <<>>)
    /\ UNCHANGED <<net, peer>>

\* The turn that ends the header, or that finds it ended already: the petition
\* is processed and the loop is left, whatever the buffer still holds.
StartPetition ==
    /\ Running
    /\ reading
    /\ LET line == Head(inbuf)
       IN  /\ FeedLine(client, line).atHeader = 0
           /\ \E d \in Devices :
                client' = ProcessPetition(FeedLine(client, line), d)
           /\ inbuf' = Remainder(line) \o Tail(inbuf)
    /\ reading' = FALSE
    /\ UNCHANGED <<net, peer>>

\* addHeader splits the first line at its blanks and uses the second part, which
\* is there for sure only in a request line: a blank line has none, and any other
\* line may be one word.  The program may go on with whatever it finds, or end.
SplitOutOfRange ==
    /\ Running
    /\ reading
    /\ client.atHeader # 0
    /\ ~client.request.method
    /\ Head(inbuf).kind # "get"
    /\ client' = [client EXCEPT !.life = "crashed"]
    /\ reading' = FALSE
    /\ UNCHANGED <<net, peer, inbuf>>

\* The kernel takes the write buffer, or a part of it.
BytesWritten ==
    /\ Idle
    /\ Queued(client) > 0
    /\ \E k \in (client.flushed + 1)..Len(client.written) :
         /\ PartialWrites \/ k = Len(client.written)
         /\ client' = ReadAndWrite([client EXCEPT !.flushed = k])
    /\ UNCHANGED <<net, peer, inbuf, reading>>

\* The other server sends, and its socket emits readyRead().
UpstreamData ==
    /\ Idle
    /\ client.fromModule.upstream
    /\ \E k \in (client.fromModule.arrived + 1)..client.fromModule.total :
         client' = ReadAndWrite([client EXCEPT !.fromModule.arrived = k])
    /\ UNCHANGED <<net, peer, inbuf, reading>>

\* The other server closes after its last byte; disconnected() is wired to
\* deleteLater().
UpstreamClosed ==
    /\ Idle
    /\ client.fromModule.upstream
    /\ client.fromModule.arrived = client.fromModule.total
    /\ client' = [client EXCEPT !.fromModule.upstream = FALSE,
                                !.life = "doomed"]
    /\ UNCHANGED <<net, peer, inbuf, reading>>

\* Mutant of Disconnected: disconnected() is not wired.
DisconnectedUnwired ==
    /\ Idle
    /\ client.connected
    /\ ~peer.open
    /\ client' = [client EXCEPT !.connected = FALSE]
    /\ UNCHANGED <<net, peer, inbuf, reading>>

\* The socket learns that the peer is gone; disconnected() is wired to
\* deleteLater() as well.
Disconnected ==
    /\ Idle
    /\ client.connected
    /\ ~peer.open
    /\ client' = [client EXCEPT !.connected = FALSE, !.life = "doomed"]
    /\ UNCHANGED <<net, peer, inbuf, reading>>

\* The event loop deletes the client and, with it, its socket and its device.
DeferredDelete ==
    /\ Idle
    /\ client.life = "doomed"
    /\ client' = [client EXCEPT !.life = "deleted", !.connected = FALSE,
                                !.fromModule = NoDevice]
    /\ UNCHANGED <<net, peer, inbuf, reading>>

\* Nothing is left to do for a client that is gone.
Gone ==
    /\ ~Running
    /\ UNCHANGED vars

-----------------------------------------------------------------------------
Init ==
    /\ net = <<>>
    /\ peer = [sent |-> 0, keep |-> FALSE, open |-> TRUE]
    /\ inbuf = <<>>
    /\ reading = FALSE
    /\ client = NewClient

Next ==
    \/ PeerSend \/ PeerClose
    \/ ReadyRead \/ ReadLine \/ StartPetition \/ SplitOutOfRange
    \/ BytesWritten
    \/ UpstreamData \/ UpstreamClosed
    \/ Disconnected \/ DeferredDelete
    \/ Gone

Spec == Init /\ [][Next]_vars

\* The event loop serves every signal that stays pending, the slots return, the
\* network delivers, and a peer that stays reads what it is sent.  Nothing
\* makes a peer send or close, or another server answer.
Fairness ==
    /\ WF_vars(ReadyRead)
    /\ WF_vars(ReadLine \/ StartPetition \/ SplitOutOfRange)
    /\ WF_vars(BytesWritten)
    /\ WF_vars(Disconnected)
    /\ WF_vars(DeferredDelete)

FairSpec == Spec /\ Fairness

-----------------------------------------------------------------------------
(* Properties *)

\* Every variable keeps its shape; the device is read no further than it goes,
\* the socket sends no more than was written, and the loop of readRequest only
\* runs on a line.
TypeOK ==
    /\ net \in Seq(Lines)
    /\ peer \in [sent : 0..MaxRequests, keep : BOOLEAN, open : BOOLEAN]
    /\ inbuf \in Seq(Lines)
    /\ reading \in BOOLEAN
    /\ client \in ClientStates
    /\ client.fromModule.pos <= client.fromModule.arrived
    /\ client.fromModule.arrived <= client.fromModule.total
    /\ client.flushed <= Len(client.written)
    /\ reading => inbuf # <<>>

\* The token next may come right after the token here.
Follows(here, next) ==
    \/ next.pet = here.pet /\ next.byte = here.byte + 1
    \/ next.pet > here.pet /\ next.byte \in {0, 1}

\* What the peer receives is never a mixture: the tokens of an answer are not
\* interrupted by those of an other one, petitions follow one another in the
\* order in which they were processed, and within one answer nothing is
\* skipped, repeated or swapped (the chunks of readAndWrite, client.cpp:172).
\* It holds however the peer, the network and the other servers behave.
ResponsesContiguous ==
    \A i \in 1..(Len(client.written) - 1) :
        Follows(client.written[i], client.written[i + 1])

\* Of however many petitions, at most one chunk of body waits in the write buffer
\* of a peer that does not read: readAndWrite leaves the rest in its device as
\* long as the buffer is not empty (client.cpp:172).  This is about body only and
\* no bound on the buffer.  Each line that comes while an answer is under way adds
\* a header to it (client.cpp:80, 123), and a peer may send as many as it likes.
OneChunkQueued ==
    Cardinality({i \in (client.flushed + 1)..Len(client.written) :
                     client.written[i].byte > 0}) <= ChunkSize

\* For a peer that waits for its answers the whole buffer is bounded: it holds
\* what one write has given it, a header or a chunk, however long the answers
\* are and however slowly they are read.  No slot writes to what another has not
\* seen empty, across chunks and petitions (client.cpp:122-130, 172-182).
OneWriteQueued ==
    \/ Queued(client) <= 1
    \/ /\ Queued(client) <= ChunkSize
       /\ \A i \in (client.flushed + 1)..Len(client.written) :
            client.written[i].byte > 0

\* A peer that waits for one answer before it asks again is answered once for
\* every request, in the order it asked: no slot processes a request twice,
\* skips one or takes one for an other.
AnswersInOrder ==
    \A i \in DOMAIN client.petitions : client.petitions[i].id = i

\* The units of body of petition p that the peer has or will be given.
BodyLength(p) ==
    Cardinality({i \in DOMAIN client.written :
                     client.written[i].pet = p /\ client.written[i].byte > 0})

\* The body of an answer is as long as its header said, which is how the peer
\* of a keep-alive connection tells it from the next answer: never more, and
\* all of it once the connection has gone back to reading a header.
Framing ==
    \A p \in DOMAIN client.petitions :
        LET answer == client.petitions[p].answer
        IN  answer.kind = "file" =>
              /\ BodyLength(p) <= answer.declared
              /\ (p < Len(client.petitions) \/ client.atHeader # 0)
                   => BodyLength(p) = answer.declared

\* A petition is only processed once every line of its request has been read,
\* so that the module tree sees all of its headers.
HeaderRead ==
    [][Len(client'.petitions) > Len(client.petitions) =>
         LET id == client'.petitions[Len(client'.petitions)].id
         IN  \A i \in DOMAIN (inbuf' \o net') : (inbuf' \o net')[i].id # id]_vars

\* The server deletes a connection whose peer is still there only after all of
\* the answer has left the write buffer: deleting the socket throws away what
\* has not.
NoTruncation ==
    [][(client.life # "deleted" /\ client'.life = "deleted" /\ peer.open) =>
         /\ client.flushed = Len(client.written)
         /\ client.petitions # <<>>
         /\ LET p == Len(client.petitions)
            IN  BodyLength(p) = client.petitions[p].answer.total]_vars

\* The server ends a connection on its own only if the last request of a peer
\* that waits for its answers did not ask for it to be kept: what the peer said
\* in its header survives until the close is decided, several chunks later
\* (client.cpp:149-165), and nothing else decides it as long as the answers are
\* files.
KeepAliveHonoured ==
    [][(client.life = "live" /\ client'.life = "doomed" /\ client'.connected) =>
         peer.sent > 0 /\ ~peer.keep]_vars

\* A request that the peer sends is answered in the end, unless the peer goes.
Answered ==
    \A n \in 1..MaxRequests :
        peer.sent >= n ~> (Received(n) \/ ~peer.open)

\* A connection whose peer has gone is deleted in the end, in whatever state
\* its request and its answer are: nothing of it leaks.
Reclaimed == ~peer.open ~> ~Running
=============================================================================
