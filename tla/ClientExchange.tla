--------------------------- MODULE ClientExchange ---------------------------
(***************************************************************************)
(* Client as an implementation of Exchange.                                *)
(***************************************************************************)
EXTENDS Client

Phase ==
    IF client.life # "live" THEN "closed"
    ELSE IF client.atHeader = 0 THEN "answering" ELSE "reading"

\* What the header of the answer under way announced, less what was written.
Owed ==
    LET p == Len(client.petitions)
    IN  IF Phase = "answering"
        THEN client.petitions[p].answer.declared - BodyLength(p)
        ELSE 0

Promise == INSTANCE Exchange WITH
    phase <- Phase,
    asked <- peer.sent,
    answers <- Len(client.petitions),
    left <- Owed,
    keep <- peer.keep,
    there <- peer.open

\* The slots of Client, cut up by the event loop, add up to the exchange of
\* requests and answers that a peer which waits for its answers relies on:
\* every request is answered once, in full and in order, and the connection is
\* kept or closed as the peer asked (client.cpp:63-183).
KeepsPromise == Promise!Spec
=============================================================================
