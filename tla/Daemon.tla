------------------------------- MODULE Daemon -------------------------------
(***************************************************************************)
(* The accept loop and the statistics of the Daemon object                 *)
(* (src/src/daemon.cpp), with the life of its clients cut down to what     *)
(* they do to it: Client says how a client comes to be doomed.             *)
(*                                                                         *)
(* All clients share one thread.  A module that waits inside its process   *)
(* (Proxy for a connection, AuthPAM for PAM) stops the event loop for      *)
(* every other client and for the accept loop.                             *)
(***************************************************************************)
EXTENDS Integers, Sequences, FiniteSets

CONSTANTS
    Conns,      \* the connections that can be open at a time
    WordSize,   \* 2^w for the w bits of the quint32 counters
    NoConn      \* no connection

ASSUME ConnsAssumption == IsFiniteSet(Conns) /\ NoConn \notin Conns
\* A process has far fewer descriptors than a counter has values.
ASSUME WordSizeAssumption == WordSize \in Nat /\ Cardinality(Conns) < WordSize

VARIABLES
    pending,                \* sockets the server has accepted, in order
    accepting,              \* the loop of newConnection is running
    waiting,                \* the client whose module blocks the thread
    clients,                \* the Client objects
    doomed,                 \* those with deleteLater posted
    clientCount,
    activeClientCount,
    maxActiveClientCount,
    peak                    \* history: the most Client objects there ever were

counters == <<clientCount, activeClientCount, maxActiveClientCount, peak>>
vars == <<pending, accepting, waiting, clients, doomed, counters>>

Larger(a, b) == IF a < b THEN b ELSE a

\* The sockets that are neither open nor waiting to be served.
Free == Conns \ (clients \cup {pending[i] : i \in DOMAIN pending})

Idle == ~accepting /\ waiting = NoConn

\* A peer connects, whatever the thread is doing.
Connect(c) ==
    /\ c \in Free
    /\ pending' = Append(pending, c)
    /\ UNCHANGED <<accepting, waiting, clients, doomed, counters>>

\* newConnection() is emitted.
NewConnection ==
    /\ Idle
    /\ pending # <<>>
    /\ accepting' = TRUE
    /\ UNCHANGED <<pending, waiting, clients, doomed, counters>>

\* Mutant of Accept: the peak is compared with the count of all clients.
AcceptPeakOfAll ==
    /\ accepting
    /\ pending # <<>>
    /\ pending' = Tail(pending)
    /\ clients' = clients \cup {Head(pending)}
    /\ clientCount' = (clientCount + 1) % WordSize
    /\ activeClientCount' = (activeClientCount + 1) % WordSize
    /\ maxActiveClientCount' = Larger(maxActiveClientCount, clientCount')
    /\ peak' = Larger(peak, Cardinality(clients'))
    /\ UNCHANGED <<accepting, waiting, doomed>>

\* One turn of the loop: a client for the next socket.
Accept ==
    /\ accepting
    /\ pending # <<>>
    /\ pending' = Tail(pending)
    /\ clients' = clients \cup {Head(pending)}
    /\ clientCount' = (clientCount + 1) % WordSize
    /\ activeClientCount' = (activeClientCount + 1) % WordSize
    /\ maxActiveClientCount' = Larger(maxActiveClientCount, activeClientCount')
    /\ peak' = Larger(peak, Cardinality(clients'))
    /\ UNCHANGED <<accepting, waiting, doomed>>

\* nextPendingConnection() has nothing left.
Accepted ==
    /\ accepting
    /\ pending = <<>>
    /\ accepting' = FALSE
    /\ UNCHANGED <<pending, waiting, clients, doomed, counters>>

\* The module tree waits on behalf of a client, which may be doomed already.
Wait(c) ==
    /\ Idle
    /\ c \in clients
    /\ waiting' = c
    /\ UNCHANGED <<pending, accepting, clients, doomed, counters>>

\* Mutant of WaitOver: the wait has no time limit, and only a peer that stays
\* ends it.
WaitForever ==
    /\ waiting \notin doomed \cup {NoConn}
    /\ waiting' = NoConn
    /\ UNCHANGED <<pending, accepting, clients, doomed, counters>>

\* The wait ends, in success, in failure or after 30 seconds.
WaitOver ==
    /\ waiting # NoConn
    /\ waiting' = NoConn
    /\ UNCHANGED <<pending, accepting, clients, doomed, counters>>

\* A slot of the client, or disconnected() of one of its sockets, posts
\* deleteLater(); it may do so any number of times before the deletion.
Doom(c) ==
    /\ Idle
    /\ c \in clients
    /\ doomed' = doomed \cup {c}
    /\ UNCHANGED <<pending, accepting, waiting, clients, counters>>

\* Mutant of Delete: the destructor counts every post of deleteLater.
DeleteTwice(c) ==
    /\ Idle
    /\ c \in doomed
    /\ clients' = clients \ {c}
    /\ UNCHANGED doomed
    /\ activeClientCount' = (activeClientCount - 1) % WordSize
    /\ UNCHANGED <<pending, accepting, waiting, clientCount,
                   maxActiveClientCount, peak>>

\* The destructor of the client; it takes the posts that are left with it.
Delete(c) ==
    /\ Idle
    /\ c \in doomed
    /\ clients' = clients \ {c}
    /\ doomed' = doomed \ {c}
    /\ activeClientCount' = (activeClientCount - 1) % WordSize
    /\ UNCHANGED <<pending, accepting, waiting, clientCount,
                   maxActiveClientCount, peak>>

Init ==
    /\ pending = <<>>
    /\ accepting = FALSE
    /\ waiting = NoConn
    /\ clients = {}
    /\ doomed = {}
    /\ clientCount = 0
    /\ activeClientCount = 0
    /\ maxActiveClientCount = 0
    /\ peak = 0

Next ==
    \/ \E c \in Conns : Connect(c) \/ Wait(c) \/ Doom(c) \/ Delete(c)
    \/ NewConnection \/ Accept \/ Accepted \/ WaitOver

Spec == Init /\ [][Next]_vars

\* Every turn of the event loop serves all that is pending, so a signal that is
\* pending again and again is served though modules block the loop in between.
\* The waits end: they have a time limit (30 s in waitForConnected).
Fairness ==
    /\ SF_vars(NewConnection)
    /\ WF_vars(Accept \/ Accepted)
    /\ WF_vars(WaitOver)
    /\ \A c \in Conns : SF_vars(Delete(c))

FairSpec == Spec /\ Fairness

-----------------------------------------------------------------------------
\* Every variable keeps its shape; no socket waits twice or has a client and
\* waits as well, and only clients that exist are doomed.
TypeOK ==
    /\ pending \in Seq(Conns)
    /\ accepting \in BOOLEAN
    /\ waiting \in Conns \cup {NoConn}
    /\ clients \subseteq Conns
    /\ doomed \subseteq clients
    /\ clientCount \in 0..(WordSize - 1)
    /\ activeClientCount \in 0..(WordSize - 1)
    /\ maxActiveClientCount \in 0..(WordSize - 1)
    /\ peak \in Nat
    /\ \A i \in DOMAIN pending : pending[i] \notin clients
    /\ \A i, j \in DOMAIN pending : pending[i] = pending[j] => i = j

\* The count of active clients is the number of Client objects, though it goes
\* up in newConnection (daemon.cpp:72) and down in the destructor of another
\* class (client.cpp:52), which deleteLater runs some time after it was asked
\* to, possibly more than once.
ActiveExact == activeClientCount = Cardinality(clients)

\* The reported peak is the most clients there ever were at a time.
PeakExact == maxActiveClientCount = peak

\* A socket that waits gets its client, however often modules block the thread.
Served ==
    \A c \in Conns : c \notin (Free \cup clients) ~> c \in clients

\* A client whose deletion was asked for is deleted.
DoomedDeleted == \A c \in Conns : c \in doomed ~> c \notin clients
=============================================================================
