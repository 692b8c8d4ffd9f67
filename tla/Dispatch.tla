------------------------------ MODULE Dispatch ------------------------------
(***************************************************************************)
(* The walk of a request through the tree of modules                       *)
(* (src/src/modulelist.cpp, src/src/modules/), for the requests that one   *)
(* connection makes one after an other.                                    *)
(*                                                                         *)
(* process() calls itself through the tree.  Here every call of process()  *)
(* is one step.  All modules but the lists return what the next module     *)
(* returned, so that the lists under way are all that a return value can   *)
(* come back to: frames is the stack of them.  at is the module to be      *)
(* processed, and NULL once a module has declined.                         *)
(***************************************************************************)
EXTENDS Integers, Sequences

CONSTANTS
    Modules,        \* the modules of the tree
    NULL,           \* no module
    Root,           \* the list that getRoot() returns
    Config,         \* the configuration of each module, see Configs
    Paths,          \* what a path may be, shortened ones included
    NoMatch,        \* an expression that does not match a path
    Texts,          \* addresses, names of hosts and credentials
    Empty,          \* the empty string
    Address,        \* the address of the peer
    Asks,           \* the requests the peer may make
    Reference,      \* what each module is meant to answer, see Meaning
    MaxRequests     \* bound: the requests of one connection

Leaves == {"StaticFile", "Directory", "DirList", "JsonDirList", "Resources",
           "Proxy", "Fake"}
Kinds == {"ModuleList", "Path", "Server", "Allow", "AuthPAM", "Stats"} \cup Leaves

\* What a module finds at a path: a file or listing, one that cannot be opened,
\* nothing, or a place outside of its directory.  For a proxy: does the other
\* server answer?
Contents == {"file", "unreadable", "absent", "outside"}

\* accepts: the addresses of Allow, the credentials PAM takes, the names that
\* the expression of Server matches, the path of Stats.  rest: what Path leaves
\* of a path.  code: the status of StaticFile.
Configs == [kind : Kinds, nextModule : Modules \cup {NULL},
            list : Seq(Modules), accepts : SUBSET (Texts \cup Paths \cup {Empty}),
            rest : [Paths -> Paths \cup {NoMatch}],
            content : [Paths -> Contents], code : Nat]

ASSUME ConfigAssumption == Config \in [Modules -> Configs]
ASSUME MaxRequestsAssumption == MaxRequests \in Nat
ASSUME NullAssumption == NULL \notin Modules /\ NoMatch \notin Paths
ASSUME AddressAssumption == Address \in Texts /\ Empty \notin Texts
ASSUME AsksAssumption ==
    Asks \subseteq [path : Paths, host : Texts \cup {Empty},
                    authorization : Texts \cup {Empty}]
\* No address and no credentials are empty.  The expression of a Server may match
\* the empty string, and a Stats may answer at the empty rest of a path.
ASSUME AcceptsAssumption ==
    \A m \in Modules :
        Config[m].kind \in {"Allow", "AuthPAM"} => Empty \notin Config[m].accepts

Children == [m \in Modules |->
    ({Config[m].nextModule} \cup {Config[m].list[i] : i \in DOMAIN Config[m].list})
        \ {NULL}]

\* The parser makes a tree: no module has two parents, or one twice.
ASSUME TreeAssumption ==
    /\ Root \in Modules
    /\ \A m \in Modules : Root \notin Children[m]
    /\ \A m, n \in Modules : m # n => Children[m] \cap Children[n] = {}
    /\ \A m \in Modules : \A i, j \in DOMAIN Config[m].list :
          i # j => Config[m].list[i] # Config[m].list[j]

VARIABLES
    phase,      \* reading a header, walking through the tree, or answered
    count,      \* the requests of this connection
    asked,      \* what the lines of this request said
    request,    \* the Request object
    at,         \* the module to be processed, NULL if one has declined
    frames,     \* the lists under way
    answer,     \* the device and the status
    requests,   \* the counter of each Stats
    given       \* history: the first answer to each request

vars == <<phase, count, asked, request, at, frames, answer, requests, given>>

-----------------------------------------------------------------------------
(* Request *)

Keys == {"host-ip", "Host-IP", "host", "authorization", "Server"}
NoHeaders == [key \in Keys |-> Empty]

Requests == [path : Paths \cup {Empty}, headers : [Keys -> Texts \cup {Empty}]]
NoAsk == [path |-> Empty, host |-> Empty, authorization |-> Empty]

\* The lines of a header: those without a value leave what is there.
AddHeaders(headers, ask) ==
    [key \in Keys |->
        CASE key = "host" /\ ask.host # Empty -> ask.host
          [] key = "authorization" /\ ask.authorization # Empty -> ask.authorization
          [] OTHER -> headers[key]]

\* Mutant of Clean: the headers stay.
CleanMethod(r) == [r EXCEPT !.headers["Host-IP"] = Address]

\* clean(), and the address under a key of another spelling.
Clean(r) == [r EXCEPT !.headers = [NoHeaders EXCEPT !["Host-IP"] = Address]]

-----------------------------------------------------------------------------
(* Modules that end the walk *)

Bodies == {"file", "error page", "nothing"}
Answers == [by : Modules \cup {NULL}, status : Nat, body : Bodies]
NoAnswer == [by |-> NULL, status |-> 0, body |-> "nothing"]

\* A File: one that does not exist is the error page, with the status as it is;
\* one that cannot be opened stays closed.
File(m, status, content) ==
    [by |-> m, status |-> status,
     body |-> CASE content = "file" -> "file"
                [] content = "absent" -> "error page"
                [] OTHER -> "nothing"]

\* Only a file that cannot be opened gives a 404 of its own.
StaticFile(m, path) ==
    LET found == File(m, Config[m].code, Config[m].content[path])
    IN  IF found.body = "nothing" THEN File(m, 404, "absent") ELSE found

Directory(m, path) ==
    LET found == File(m, 200, Config[m].content[path])
    IN  IF Config[m].content[path] = "outside" THEN NoAnswer
        ELSE IF found.body = "nothing" THEN File(m, 200, "absent") ELSE found

DirList(m, path) ==
    IF Config[m].content[path] \in {"outside", "absent"} THEN NoAnswer
    ELSE File(m, 200, Config[m].content[path])

JsonDirList(m, path) ==
    IF Config[m].content[path] = "outside" THEN NoAnswer
    ELSE File(m, 200, "file")

Resources(m, path) ==
    IF Config[m].content[path] = "absent" THEN NoAnswer
    ELSE File(m, 200, Config[m].content[path])

\* Without the other server the answer is a page, and the status stays.
Proxy(m, path) == File(m, 200, Config[m].content[path])

Produced(m, path) ==
    CASE Config[m].kind = "StaticFile" -> StaticFile(m, path)
      [] Config[m].kind = "Directory" -> Directory(m, path)
      [] Config[m].kind = "DirList" -> DirList(m, path)
      [] Config[m].kind = "JsonDirList" -> JsonDirList(m, path)
      [] Config[m].kind = "Resources" -> Resources(m, path)
      [] Config[m].kind = "Proxy" -> Proxy(m, path)
      [] OTHER -> NoAnswer

\* A call of ModuleList::process: the module of the list that it is at, and the
\* path that it was given, which is a history.
Frames == [list : Modules, item : Nat, path : Paths]

-----------------------------------------------------------------------------
Get(key) == request.headers[key]

Walking == phase = "walking"
Processing(kind) == Walking /\ at # NULL /\ Config[at].kind = kind

Top == frames[Len(frames)]

\* process() of the next module, or NULL if there is none.
CallNext(passes) ==
    /\ at' = IF passes THEN Config[at].nextModule ELSE NULL
    /\ UNCHANGED <<phase, count, asked, frames, answer, given>>

\* The whole chain of calls returns a device, and the client takes it.
Reply(a) ==
    /\ phase' = "answered"
    /\ answer' = a
    /\ given' = IF given[asked] = NoAnswer THEN [given EXCEPT ![asked] = a]
                ELSE given
    /\ at' = NULL
    /\ frames' = <<>>
    /\ UNCHANGED <<count, asked>>

\* The header of the next request has been read: the petition begins.
Receive ==
    /\ phase = "header"
    /\ count < MaxRequests
    /\ \E ask \in Asks :
         /\ asked' = ask
         /\ request' = [path |-> ask.path,
                        headers |-> AddHeaders(request.headers, ask)]
    /\ count' = count + 1
    /\ phase' = "walking"
    /\ answer' = NoAnswer
    /\ at' = Root
    /\ frames' = <<>>
    /\ UNCHANGED <<requests, given>>

\* Mutant of EnterList: the list begins at its second module.
EnterListAtSecond ==
    /\ Processing("ModuleList")
    /\ frames' = Append(frames, [list |-> at, item |-> 1, path |-> request.path])
    /\ at' = NULL
    /\ UNCHANGED <<phase, count, asked, request, answer, requests, given>>

\* A list is called, and no module of it has answered yet.
EnterList ==
    /\ Processing("ModuleList")
    /\ frames' = Append(frames, [list |-> at, item |-> 0, path |-> request.path])
    /\ at' = NULL
    /\ UNCHANGED <<phase, count, asked, request, answer, requests, given>>

\* A module has declined, and the list tries the one after it.
TryItem ==
    /\ Walking
    /\ at = NULL
    /\ frames # <<>>
    /\ Top.item < Len(Config[Top.list].list)
    /\ at' = Config[Top.list].list[Top.item + 1]
    /\ frames' = [frames EXCEPT ![Len(frames)].item = Top.item + 1]
    /\ UNCHANGED <<phase, count, asked, request, answer, requests, given>>

\* Mutant of LeaveList: the list stays.
LeaveListStuck ==
    /\ Walking
    /\ at = NULL
    /\ frames # <<>>
    /\ Top.item >= Len(Config[Top.list].list)
    /\ UNCHANGED vars

\* Mutant of LeaveList: the list begins again.
LeaveListAgain ==
    /\ Walking
    /\ at = NULL
    /\ frames # <<>>
    /\ Top.item >= Len(Config[Top.list].list)
    /\ frames' = [frames EXCEPT ![Len(frames)].item = 0]
    /\ UNCHANGED <<phase, count, asked, request, at, answer, requests, given>>

\* All modules of the list have declined, and so does the list.
LeaveList ==
    /\ Walking
    /\ at = NULL
    /\ frames # <<>>
    /\ Top.item >= Len(Config[Top.list].list)
    /\ frames' = SubSeq(frames, 1, Len(frames) - 1)
    /\ UNCHANGED <<phase, count, asked, request, at, answer, requests, given>>

\* The whole tree has declined: the client answers itself.
NoModule ==
    /\ Walking
    /\ at = NULL
    /\ frames = <<>>
    /\ Reply([by |-> NULL, status |-> 500, body |-> "error page"])
    /\ UNCHANGED <<request, requests>>

\* The part of the path that matches is taken off, for good.
Path ==
    /\ Processing("Path")
    /\ LET rest == Config[at].rest[request.path]
           inside == rest # NoMatch /\ Config[at].nextModule # NULL
       IN  /\ request' = IF inside THEN [request EXCEPT !.path = rest] ELSE request
           /\ CallNext(inside)
    /\ UNCHANGED requests

\* The headers of a request have lower-case keys, so that this is empty.
Server ==
    /\ Processing("Server")
    /\ CallNext(Get("Server") \in Config[at].accepts)
    /\ UNCHANGED <<request, requests>>

Allow ==
    /\ Processing("Allow")
    /\ CallNext(Get("Host-IP") \in Config[at].accepts)
    /\ UNCHANGED <<request, requests>>

\* Mutant of AuthPAM: credentials that are refused decline.
AuthPAMDeclining ==
    /\ Processing("AuthPAM")
    /\ CallNext(Get("authorization") \in Config[at].accepts)
    /\ UNCHANGED <<request, requests>>

\* Credentials that are refused get an answer, and nobody else is asked.
AuthPAM ==
    /\ Processing("AuthPAM")
    /\ IF Get("authorization") \in Config[at].accepts
       THEN CallNext(TRUE)
       ELSE Reply([by |-> at, status |-> 401, body |-> "error page"])
    /\ UNCHANGED <<request, requests>>

\* It counts what passes by, and answers for its own path.
Stats ==
    /\ Processing("Stats")
    /\ requests' = [requests EXCEPT ![at] = @ + 1]
    /\ IF request.path \in Config[at].accepts
       THEN Reply(File(at, 200, "file"))
       ELSE CallNext(TRUE)
    /\ UNCHANGED request

\* Any other module ends the walk, or declines.
Leaf ==
    /\ Walking
    /\ at # NULL
    /\ Config[at].kind \in Leaves
    /\ IF Produced(at, request.path) # NoAnswer
       THEN Reply(Produced(at, request.path))
       ELSE CallNext(FALSE)
    /\ UNCHANGED <<request, requests>>

\* The answer is out, the connection is kept, and the request is cleaned.
KeepAlive ==
    /\ phase = "answered"
    /\ phase' = "header"
    /\ request' = Clean(request)
    /\ UNCHANGED <<count, asked, at, frames, answer, requests, given>>

\* The connection is closed, by the peer or because its last request was made.
Closed ==
    /\ phase # "walking"
    /\ UNCHANGED vars

Init ==
    /\ phase = "header"
    /\ count = 0
    /\ asked = NoAsk
    /\ request = [path |-> Empty,
                  headers |-> [NoHeaders EXCEPT !["host-ip"] = Address]]
    /\ at = NULL
    /\ frames = <<>>
    /\ answer = NoAnswer
    /\ requests = [m \in Modules |-> 0]
    /\ given = [ask \in Asks |-> NoAnswer]

Walk == \/ EnterList \/ TryItem \/ LeaveList \/ NoModule
        \/ Path \/ Server \/ Allow \/ AuthPAM \/ Stats \/ Leaf

Next == Receive \/ Walk \/ KeepAlive \/ Closed

Spec == Init /\ [][Next]_vars

\* The calls of process() return.
FairSpec == Spec /\ WF_vars(Walk)

-----------------------------------------------------------------------------
(* Properties *)

\* Every variable keeps its shape, and a list is never read past its end.
TypeOK ==
    /\ phase \in {"header", "walking", "answered"}
    /\ count \in 0..MaxRequests
    /\ asked \in Asks \cup {NoAsk}
    /\ request \in Requests
    /\ count > 0 => asked \in Asks /\ request.path \in Paths
    /\ at \in Modules \cup {NULL}
    /\ frames \in Seq(Frames)
    /\ \A i \in DOMAIN frames :
          frames[i].item <= Len(Config[frames[i].list].list)
    /\ answer \in Answers
    /\ requests \in [Modules -> Nat]
    /\ given \in [Asks -> Answers]

\* The sets of modules that hold the children of their modules.
ClosedSets == {S \in SUBSET Modules : \A k \in S : Children[k] \subseteq S}

\* The modules in the tree below m: all that its children lead to.
Below == [m \in Modules |->
    {n \in Modules : \A S \in ClosedSets : Children[m] \subseteq S => n \in S}]

\* Is the guard g satisfied by what the peer has asked, and by who it is?
Admits(g) ==
    \/ Config[g].kind = "Allow" /\ Address \in Config[g].accepts
    \/ Config[g].kind = "AuthPAM" /\ asked.authorization \in Config[g].accepts

\* What lies below a guard, an Allow or an AuthPAM, answers only requests that
\* carry what the guard asks for in their own header: no chain of declining
\* modules leads around a guard, and nothing of an earlier request on the same
\* connection opens one (allow.cpp:36, authpam.cpp:42, request.cpp:88).
GuardsHold ==
    \A g \in Modules :
        (/\ phase = "answered"
         /\ Config[g].kind \in {"Allow", "AuthPAM"}
         /\ answer.by \in Below[g]) => Admits(g)

-----------------------------------------------------------------------------
(***************************************************************************)
(* What a tree answers by its nesting alone, as the documentation has it:  *)
(* without a stack and without a request that changes on the way.          *)
(***************************************************************************)

\* Where the code leaves that way: a Path keeps its part of the path though what
\* is behind it declines, and a Server reads no host (path.cpp:39, server.cpp:33).
Astray == [by |-> NULL, status |-> 0, body |-> "astray"]

\* What m answers at a path, if R says it of the modules below m.  A list gives
\* its own path to each module and answers with the first that answers; a guard
\* looks at the request, an Allow at the address that it is shown.
Meaning(R, m, path, ask, address) ==
    LET config == Config[m]
        next(p) == IF config.nextModule = NULL THEN NoAnswer
                   ELSE R[<<config.nextModule, p, ask, address>>]
        tried(i) == R[<<config.list[i], path, ask, address>>]
        first(i) == /\ tried(i) # NoAnswer
                    /\ \A j \in 1..(i - 1) : tried(j) = NoAnswer
    IN CASE config.kind = "ModuleList" ->
              IF \E i \in DOMAIN config.list : first(i)
              THEN tried(CHOOSE i \in DOMAIN config.list : first(i))
              ELSE NoAnswer
         [] config.kind = "Path" ->
              IF config.rest[path] = NoMatch \/ config.nextModule = NULL THEN NoAnswer
              ELSE IF next(config.rest[path]) = NoAnswer THEN Astray
              ELSE next(config.rest[path])
         [] config.kind = "Server" ->
              IF (ask.host \in config.accepts) # (Empty \in config.accepts) THEN Astray
              ELSE IF ask.host \in config.accepts THEN next(path) ELSE NoAnswer
         [] config.kind = "Allow" ->
              IF address \in config.accepts THEN next(path) ELSE NoAnswer
         [] config.kind = "AuthPAM" ->
              IF ask.authorization \in config.accepts THEN next(path)
              ELSE [by |-> m, status |-> 401, body |-> "error page"]
         [] config.kind = "Stats" ->
              IF path \in config.accepts THEN File(m, 200, "file") ELSE next(path)
         [] OTHER -> Produced(m, path)

\* Reference says of every module what follows from those below it.
ASSUME ReferenceAssumption ==
    \A m \in Modules, path \in Paths, ask \in Asks, address \in {Empty, Address} :
        Reference[<<m, path, ask, address>>] = Meaning(Reference, m, path, ask, address)

\* What the nesting says of the request; if it says nothing, the client answers.
Nested == Reference[<<Root, asked.path, asked, Get("Host-IP")>>]
Straight == Nested # Astray
Meant == IF Nested # NoAnswer THEN Nested
         ELSE [by |-> NULL, status |-> 500, body |-> "error page"]

\* The walk, with its stack of lists and the request that modules change on
\* their way, gives the answer that the nesting of the configuration says, for
\* the first and for later requests of a connection, unless it is led astray
\* (modulelist.cpp:38, path.cpp:39, authpam.cpp:42).
AsConfigured == (phase = "answered" /\ Straight) => answer = Meant

-----------------------------------------------------------------------------
\* Stats counts a request at most once: no module is passed twice by the walk
\* of one request, though lists resume after the modules they called
\* (stats.cpp:38, modulelist.cpp:40).
CountedOnce == \A m \in Modules : requests[m] <= count

\* The answer to a request depends on nothing but the request: the same one
\* gets the same answer every time it is made on a connection, since clean()
\* drops all that the one before has left (client.cpp:162).
SameAnswer ==
    phase = "answered" => answer = given[asked]

\* Every request is answered: the walk comes to an end in every tree.
WalkEnds == phase = "walking" ~> phase = "answered"
=============================================================================
