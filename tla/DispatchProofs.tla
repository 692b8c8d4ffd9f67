--------------------------- MODULE DispatchProofs ---------------------------
(***************************************************************************)
(* Theorems about Dispatch, for every tree and every request: the shape of *)
(* its state, that no walk leads around a guard or passes a module twice,  *)
(* and that its answer is the one the nesting of the configuration says.   *)
(***************************************************************************)
EXTENDS Dispatch, TLAPS

\* The fields of a module's configuration have their types.
LEMMA ConfigFields ==
    ASSUME NEW m \in Modules
    PROVE  /\ Config[m] \in Configs
           /\ Config[m].kind \in Kinds
           /\ Config[m].nextModule \in Modules \cup {NULL}
           /\ Config[m].list \in Seq(Modules)
           /\ Config[m].code \in Nat
           /\ Config[m].rest \in [Paths -> Paths \cup {NoMatch}]
           /\ Config[m].content \in [Paths -> Contents]
  <1>1. Config[m] \in Configs
    BY ConfigAssumption
  <1> QED
    BY <1>1 DEF Configs

\* The children of a module are modules.
LEMMA ChildrenType ==
    ASSUME NEW m \in Modules
    PROVE  Children[m] \subseteq Modules
  <1>1. \A i \in DOMAIN Config[m].list : Config[m].list[i] \in Modules
    BY ConfigFields
  <1> QED
    BY <1>1, ConfigFields DEF Children

\* A File is an answer.
LEMMA FileType ==
    ASSUME NEW m \in Modules, NEW status \in Nat, NEW content
    PROVE  /\ File(m, status, content) \in Answers
           /\ File(m, status, content).by = m
  BY DEF File, Answers, Bodies

\* What a module produces is an answer of its own, or none.
LEMMA ProducedType ==
    ASSUME NEW m \in Modules, NEW path \in Paths
    PROVE  \/ Produced(m, path) = NoAnswer
           \/ Produced(m, path) \in Answers /\ Produced(m, path).by = m
  <1>1. /\ File(m, 404, "absent") \in Answers
        /\ File(m, 404, "absent").by = m
        /\ File(m, 200, "absent") \in Answers
        /\ File(m, 200, "absent").by = m
        /\ File(m, 200, "file") \in Answers
        /\ File(m, 200, "file").by = m
    BY FileType
  <1>2. /\ File(m, 200, Config[m].content[path]) \in Answers
        /\ File(m, 200, Config[m].content[path]).by = m
        /\ File(m, Config[m].code, Config[m].content[path]) \in Answers
        /\ File(m, Config[m].code, Config[m].content[path]).by = m
    BY FileType, ConfigFields
  <1> QED
    BY <1>1, <1>2 DEF Produced, StaticFile, Directory, DirList, JsonDirList,
                      Resources, Proxy

-----------------------------------------------------------------------------
(* Type correctness *)

\* The initial state has its shape.
LEMMA InitType == Init => TypeOK
  BY AddressAssumption, MaxRequestsAssumption DEF Init, TypeOK, NoAsk, Requests, NoHeaders, Keys,
                           Answers, NoAnswer, Bodies

\* A reply leaves the shape of the state as it was.
LEMMA ReplyType ==
    ASSUME TypeOK, count > 0, NEW a \in Answers, Reply(a),
           request' = request, requests' \in [Modules -> Nat]
    PROVE  TypeOK'
  <1>1. given' \in [Asks -> Answers]
    BY DEF TypeOK, Reply
  <1> QED
    BY <1>1 DEF TypeOK, Reply

\* A call of the next module leaves the shape of the state as it was.
LEMMA CallType ==
    ASSUME TypeOK, at \in Modules, NEW passes, CallNext(passes),
           request' \in Requests, count > 0 => request'.path \in Paths,
           requests' \in [Modules -> Nat]
    PROVE  TypeOK'
  <1>1. at' \in Modules \cup {NULL}
    BY ConfigFields DEF CallNext
  <1> QED
    BY <1>1 DEF TypeOK, CallNext

\* The walk only goes on for a request that has been received.
WalkOK == phase = "walking" => count > 0

\* Every step keeps the shape of the state.
LEMMA NextType == TypeOK /\ WalkOK /\ [Next]_vars => TypeOK' /\ WalkOK'
  <1> SUFFICES ASSUME TypeOK, WalkOK, [Next]_vars
               PROVE  TypeOK' /\ WalkOK'
    OBVIOUS
  <1>1. CASE Receive
    <2>1. PICK ask \in Asks :
            /\ asked' = ask
            /\ request' = [path |-> ask.path,
                           headers |-> AddHeaders(request.headers, ask)]
      BY <1>1 DEF Receive
    <2>2. /\ ask.path \in Paths
          /\ ask.host \in Texts \cup {Empty}
          /\ ask.authorization \in Texts \cup {Empty}
      BY AsksAssumption
    <2>3. request.headers \in [Keys -> Texts \cup {Empty}]
      BY DEF TypeOK, Requests
    <2>4. AddHeaders(request.headers, ask) \in [Keys -> Texts \cup {Empty}]
      BY <2>2, <2>3 DEF AddHeaders
    <2>5. request' \in Requests /\ request'.path \in Paths
      BY <2>1, <2>2, <2>4 DEF Requests
    <2>6. NoAnswer \in Answers
      BY DEF NoAnswer, Answers, Bodies
    <2> QED
      BY <1>1, <2>1, <2>5, <2>6, TreeAssumption, MaxRequestsAssumption
         DEF Receive, TypeOK, WalkOK
  <1>2. CASE EnterList
    <2>1. at \in Modules /\ request.path \in Paths
      BY <1>2 DEF EnterList, Processing, Walking, TypeOK, WalkOK
    <2>2. Len(Config[at].list) \in Nat
      BY <2>1, ConfigFields
    <2> DEFINE frame == [list |-> at, item |-> 0, path |-> request.path]
    <2>3. frame \in Frames
      BY <2>1 DEF Frames
    <2>4. frames' = Append(frames, frame)
      BY <1>2 DEF EnterList
    <2>5. /\ frames' \in Seq(Frames)
          /\ \A i \in DOMAIN frames' :
               frames'[i].item <= Len(Config[frames'[i].list].list)
      <3> HIDE DEF frame
      <3>1. frames \in Seq(Frames)
        BY DEF TypeOK
      <3>2. frame.item = 0 /\ frame.list = at
        BY DEF frame
      <3>3. \A i \in DOMAIN frames' :
              \/ i \in DOMAIN frames /\ frames'[i] = frames[i]
              \/ frames'[i] = frame
        BY <2>3, <2>4, <3>1
      <3> QED
        BY <2>2, <2>3, <2>4, <3>1, <3>2, <3>3 DEF TypeOK
    <2> QED
      BY <1>2, <2>5 DEF EnterList, TypeOK, WalkOK
  <1>3. CASE TryItem
    <2>1. /\ Top \in Frames
          /\ frames \in Seq(Frames)
          /\ Len(frames) \in DOMAIN frames
      BY <1>3 DEF TryItem, TypeOK, Top
    <2>2. /\ Top.list \in Modules /\ Top.item \in Nat
          /\ Config[Top.list].list \in Seq(Modules)
          /\ Len(Config[Top.list].list) \in Nat
      BY <2>1, ConfigFields DEF Frames
    <2>3. Top.item + 1 \in 1..Len(Config[Top.list].list)
      BY <1>3, <2>1, <2>2 DEF TryItem
    <2>4. at' \in Modules
      BY <1>3, <2>2, <2>3 DEF TryItem
    <2>5. /\ frames' \in Seq(Frames)
          /\ \A i \in DOMAIN frames' :
               frames'[i].item <= Len(Config[frames'[i].list].list)
      <3>1. frames' = [frames EXCEPT ![Len(frames)].item = Top.item + 1]
        BY <1>3 DEF TryItem
      <3>2. \A i \in DOMAIN frames :
              frames'[i] = IF i = Len(frames)
                           THEN [Top EXCEPT !.item = Top.item + 1] ELSE frames[i]
        BY <2>1, <3>1 DEF Top
      <3>3. DOMAIN frames' = DOMAIN frames
        BY <3>1
      <3>4. [Top EXCEPT !.item = Top.item + 1] \in Frames
        <4>1. /\ Top \in [list : Modules, item : Nat, path : Paths]
              /\ Top.item + 1 \in Nat
          BY <2>1, <2>2 DEF Frames
        <4> QED
          BY <4>1 DEF Frames
      <3>5. /\ [Top EXCEPT !.item = Top.item + 1].item = Top.item + 1
            /\ [Top EXCEPT !.item = Top.item + 1].list = Top.list
        BY <2>1 DEF Frames
      <3>6. frames' \in [1..Len(frames) -> Frames] /\ Len(frames) \in Nat
        <4>1. frames \in [1..Len(frames) -> Frames] /\ Len(frames) \in Nat
          BY <2>1
        <4>2. \A i \in 1..Len(frames) : frames'[i] \in Frames
          BY <3>2, <3>4, <4>1
        <4> QED
          BY <3>1, <4>1, <4>2
      <3>7. frames' \in Seq(Frames)
        BY <3>6
      <3>8. ASSUME NEW i \in DOMAIN frames'
            PROVE  frames'[i].item <= Len(Config[frames'[i].list].list)
        <4>1. CASE i = Len(frames)
          <5>1. frames'[i] = [Top EXCEPT !.item = Top.item + 1]
            BY <3>2, <3>3, <4>1
          <5>2. frames'[i].item = Top.item + 1 /\ frames'[i].list = Top.list
            BY <3>5, <5>1
          <5> QED
            BY <2>2, <2>3, <5>2
        <4>2. CASE i # Len(frames)
          BY <3>2, <3>3, <4>2 DEF TypeOK
        <4> QED
          BY <4>1, <4>2
      <3> QED
        BY <3>7, <3>8
    <2> QED
      BY <1>3, <2>4, <2>5 DEF TryItem, TypeOK, WalkOK
  <1>4. CASE LeaveList
    <2>1. frames \in Seq(Frames)
          /\ Len(frames) > 0
      BY <1>4 DEF LeaveList, TypeOK
    <2>2. /\ frames' \in Seq(Frames)
          /\ \A i \in DOMAIN frames' : i \in DOMAIN frames /\ frames'[i] = frames[i]
      BY <1>4, <2>1 DEF LeaveList
    <2> QED
      BY <1>4, <2>2 DEF LeaveList, TypeOK, WalkOK
  <1>5. CASE NoModule
    <2>1. [by |-> NULL, status |-> 500, body |-> "error page"] \in Answers
      BY DEF Answers, Bodies
    <2>2. TypeOK'
      BY <1>5, <2>1, ReplyType DEF NoModule, Walking, WalkOK, TypeOK
    <2> QED
      BY <1>5, <2>2 DEF NoModule, Reply, WalkOK
  <1>6. CASE Path
    <2>1. at \in Modules /\ request.path \in Paths /\ count > 0
      BY <1>6 DEF Path, Processing, Walking, TypeOK, WalkOK
    <2> DEFINE rest == Config[at].rest[request.path]
               inside == rest # NoMatch /\ Config[at].nextModule # NULL
    <2>2. rest \in Paths \cup {NoMatch}
      BY <2>1, ConfigFields
    <2>3. /\ request' = IF inside THEN [request EXCEPT !.path = rest] ELSE request
          /\ CallNext(inside)
          /\ requests' = requests
      BY <1>6 DEF Path
    <2>4. request' \in Requests /\ request'.path \in Paths
      BY <2>1, <2>2, <2>3 DEF TypeOK, Requests
    <2>5. TypeOK'
      <3>1. requests' \in [Modules -> Nat]
        BY <2>3 DEF TypeOK
      <3> QED
        BY <2>1, <2>3, <2>4, <3>1, CallType
    <2> QED
      BY <1>6, <2>1, <2>3, <2>5 DEF CallNext, WalkOK
  <1>7. CASE Server
    <2>1. at \in Modules /\ request.path \in Paths /\ count > 0
      BY <1>7 DEF Server, Processing, Walking, TypeOK, WalkOK
    <2>2. TypeOK'
      BY <1>7, <2>1, CallType DEF Server, TypeOK
    <2> QED
      BY <1>7, <2>1, <2>2 DEF Server, CallNext, WalkOK
  <1>8. CASE Allow
    <2>1. at \in Modules /\ request.path \in Paths /\ count > 0
      BY <1>8 DEF Allow, Processing, Walking, TypeOK, WalkOK
    <2>2. TypeOK'
      BY <1>8, <2>1, CallType DEF Allow, TypeOK
    <2> QED
      BY <1>8, <2>1, <2>2 DEF Allow, CallNext, WalkOK
  <1>9. CASE AuthPAM
    <2>1. at \in Modules /\ request.path \in Paths /\ count > 0
      BY <1>9 DEF AuthPAM, Processing, Walking, TypeOK, WalkOK
    <2>2. request' = request /\ requests' \in [Modules -> Nat]
      BY <1>9 DEF AuthPAM, TypeOK
    <2>3. CASE CallNext(TRUE)
      <3>1. TypeOK'
        BY <2>1, <2>2, <2>3, CallType DEF TypeOK
      <3> QED
        BY <2>1, <2>3, <3>1 DEF CallNext, WalkOK
    <2>4. CASE Reply([by |-> at, status |-> 401, body |-> "error page"])
      <3>1. [by |-> at, status |-> 401, body |-> "error page"] \in Answers
        BY <2>1 DEF Answers, Bodies
      <3>2. TypeOK'
        BY <2>1, <2>2, <2>4, <3>1, ReplyType
      <3> QED
        BY <2>4, <3>2 DEF Reply, WalkOK
    <2> QED
      BY <1>9, <2>3, <2>4 DEF AuthPAM
  <1>10. CASE Stats
    <2>1. at \in Modules /\ request.path \in Paths /\ count > 0
      BY <1>10 DEF Stats, Processing, Walking, TypeOK, WalkOK
    <2>2. request' = request /\ requests' \in [Modules -> Nat]
      BY <1>10, <2>1 DEF Stats, TypeOK
    <2>3. CASE CallNext(TRUE)
      <3>1. TypeOK'
        BY <2>1, <2>2, <2>3, CallType DEF TypeOK
      <3> QED
        BY <2>1, <2>3, <3>1 DEF CallNext, WalkOK
    <2>4. CASE Reply(File(at, 200, "file"))
      <3>1. File(at, 200, "file") \in Answers
        BY <2>1, FileType
      <3>2. TypeOK'
        BY <2>1, <2>2, <2>4, <3>1, ReplyType
      <3> QED
        BY <2>4, <3>2 DEF Reply, WalkOK
    <2> QED
      BY <1>10, <2>3, <2>4 DEF Stats
  <1>11. CASE Leaf
    <2>1. at \in Modules /\ request.path \in Paths /\ count > 0
      BY <1>11 DEF Leaf, Walking, TypeOK, WalkOK
    <2>2. request' = request /\ requests' \in [Modules -> Nat]
      BY <1>11 DEF Leaf, TypeOK
    <2>3. CASE CallNext(FALSE)
      <3>1. TypeOK'
        BY <2>1, <2>2, <2>3, CallType DEF TypeOK
      <3> QED
        BY <2>1, <2>3, <3>1 DEF CallNext, WalkOK
    <2>4. CASE /\ Produced(at, request.path) # NoAnswer
               /\ Reply(Produced(at, request.path))
      <3>1. Produced(at, request.path) \in Answers
        BY <2>1, <2>4, ProducedType
      <3>2. TypeOK'
        BY <2>1, <2>2, <2>4, <3>1, ReplyType
      <3> QED
        BY <2>4, <3>2 DEF Reply, WalkOK
    <2> QED
      BY <1>11, <2>3, <2>4 DEF Leaf
  <1>12. CASE KeepAlive
    <2>1. request' \in Requests /\ request'.path = request.path
      BY <1>12, AddressAssumption DEF KeepAlive, Clean, NoHeaders, Keys, TypeOK,
                                      Requests
    <2> QED
      BY <1>12, <2>1 DEF KeepAlive, TypeOK, WalkOK
  <1>13. CASE UNCHANGED vars
    BY <1>13 DEF vars, TypeOK, WalkOK
  <1> QED
    BY <1>1, <1>2, <1>3, <1>4, <1>5, <1>6, <1>7, <1>8, <1>9, <1>10, <1>11,
       <1>12, <1>13 DEF Next, Walk, Closed

\* For every tree, every peer and any number of requests the state keeps its
\* shape; in particular a list is never read past its end (modulelist.cpp:40).
THEOREM DispatchTypeCorrect == Spec => []TypeOK
  <1>1. Init => TypeOK /\ WalkOK
    BY InitType DEF Init, WalkOK
  <1>2. TypeOK /\ WalkOK /\ [Next]_vars => (TypeOK /\ WalkOK)'
    BY NextType
  <1> QED
    BY <1>1, <1>2, PTL DEF Spec

-----------------------------------------------------------------------------
(* The tree *)

\* The modules below m hold its children and their own children.
LEMMA BelowClosed ==
    ASSUME NEW m \in Modules
    PROVE  /\ Below[m] \subseteq Modules
           /\ Children[m] \subseteq Below[m]
           /\ \A k \in Below[m] : Children[k] \subseteq Below[m]
  <1>1. /\ Below[m] \subseteq Modules
        /\ \A n \in Modules :
             n \in Below[m] <=> \A S \in ClosedSets : Children[m] \subseteq S => n \in S
    BY DEF Below
  <1>2. Children[m] \subseteq Below[m]
    BY <1>1, ChildrenType
  <1>3. ASSUME NEW k \in Below[m], NEW n \in Children[k]
        PROVE  n \in Below[m]
    <2>1. k \in Modules /\ n \in Modules
      BY <1>1, <1>3, ChildrenType
    <2>2. ASSUME NEW S \in ClosedSets, Children[m] \subseteq S
          PROVE  n \in S
      BY <1>1, <1>3, <2>1, <2>2 DEF ClosedSets
    <2> QED
      BY <1>1, <2>1, <2>2
  <1> QED
    BY <1>1, <1>2, <1>3

\* A module is below g only by way of its parent: the tree has no other way in.
LEMMA ParentBelow ==
    ASSUME NEW g \in Modules, NEW m \in Modules, NEW c \in Children[m],
           c \in Below[g], g # m
    PROVE  m \in Below[g]
  <1> SUFFICES ASSUME m \notin Below[g] PROVE FALSE
    OBVIOUS
  <1> DEFINE S == Below[g] \ {c}
  <1>1. \A k \in Modules : k # m => c \notin Children[k]
    BY TreeAssumption
  <1>2. S \in SUBSET Modules
    BY BelowClosed
  <1>3. Children[g] \subseteq S
    BY <1>1, BelowClosed
  <1>4. \A k \in S : Children[k] \subseteq S
    BY <1>1, <1>2, BelowClosed
  <1>5. S \in ClosedSets
    BY <1>2, <1>4 DEF ClosedSets
  <1>6. c \in S
    <2>1. c \in Modules
      BY ChildrenType
    <2> HIDE DEF S
    <2> QED
      BY <1>3, <1>5, <2>1 DEF Below
  <1> QED
    BY <1>6

\* The root is below no module.
LEMMA RootAbove ==
    ASSUME NEW g \in Modules
    PROVE  Root \notin Below[g]
  <1> DEFINE S == Modules \ {Root}
  <1>1. Children[g] \subseteq S /\ \A k \in S : Children[k] \subseteq S
    BY TreeAssumption, ChildrenType
  <1>2. S \in ClosedSets
    BY <1>1 DEF ClosedSets
  <1>3. Root \notin S
    OBVIOUS
  <1> HIDE DEF S
  <1> QED
    BY <1>1, <1>2, <1>3, TreeAssumption DEF Below

-----------------------------------------------------------------------------
(* Guards *)

IsGuard(g) == Config[g].kind \in {"Allow", "AuthPAM"}

\* All guards above the module m admit the request.
Cleared(m) == \A g \in Modules : IsGuard(g) /\ m \in Below[g] => Admits(g)

\* What the guards look at is what this request and no other one said.
HeadersOK ==
    /\ Get("Host-IP") \in {Address, Empty}
    /\ IF phase = "header" THEN Get("authorization") = Empty
       ELSE Get("authorization") = asked.authorization

\* The walk is only where all guards above have been passed, and it can only
\* come back to lists of which the same holds.
WalkCleared ==
    phase = "walking" =>
        /\ at # NULL => Cleared(at)
        /\ \A i \in DOMAIN frames : Cleared(frames[i].list)

\* What is on the stack are lists, none of which is a guard.
OnlyLists ==
    \A i \in DOMAIN frames : Config[frames[i].list].kind = "ModuleList"

AnswerCleared == (phase = "answered" /\ answer.by # NULL) => Cleared(answer.by)

GuardInv ==
    TypeOK /\ WalkOK /\ HeadersOK /\ WalkCleared /\ OnlyLists /\ AnswerCleared

\* The invariant is about nothing but these variables.
LEMMA ClearedStays ==
    ASSUME asked' = asked, NEW m, Cleared(m)
    PROVE  Cleared(m)'
  BY DEF Cleared, Admits

\* From a cleared module that is no guard, or a guard that admits, the walk
\* comes to cleared modules only.
LEMMA ClearedChild ==
    ASSUME NEW m \in Modules, NEW c \in Children[m], Cleared(m),
           IsGuard(m) => Admits(m)
    PROVE  Cleared(c)
  <1> SUFFICES ASSUME NEW g \in Modules, IsGuard(g), c \in Below[g]
               PROVE  Admits(g)
    BY DEF Cleared
  <1>1. CASE g = m
    BY <1>1
  <1>2. CASE g # m
    <2>1. m \in Below[g]
      BY <1>2, ParentBelow
    <2> QED
      BY <2>1 DEF Cleared
  <1> QED
    BY <1>1, <1>2

\* The same for the call of the next module.
LEMMA CallCleared ==
    ASSUME GuardInv, phase = "walking", at \in Modules, NEW passes,
           CallNext(passes), request'.headers = request.headers,
           passes => (IsGuard(at) => Admits(at))
    PROVE  HeadersOK' /\ WalkCleared' /\ OnlyLists' /\ AnswerCleared'
  <1>1. HeadersOK'
    BY DEF GuardInv, HeadersOK, CallNext, Get
  <1>2. (\A i \in DOMAIN frames : Cleared(frames[i].list))'
    BY DEF GuardInv, WalkCleared, CallNext, Cleared, Admits
  <1>3. ASSUME at' # NULL PROVE Cleared(at)'
    <2>1. passes /\ at' = Config[at].nextModule
      BY <1>3 DEF CallNext
    <2>2. at' \in Children[at]
      BY <1>3, <2>1 DEF Children
    <2>3. Cleared(at) /\ at # NULL
      BY NullAssumption DEF GuardInv, WalkCleared
    <2>4. Cleared(at')
      BY <2>1, <2>2, <2>3, ClearedChild
    <2> QED
      BY <2>4 DEF CallNext, Cleared, Admits
  <1>4. WalkCleared'
    BY <1>2, <1>3 DEF WalkCleared
  <1> QED
    BY <1>1, <1>4 DEF GuardInv, OnlyLists, AnswerCleared, CallNext

\* A module that is cleared may answer.
LEMMA ReplyCleared ==
    ASSUME GuardInv, phase = "walking", NEW a, Reply(a), request' = request,
           a.by = NULL \/ (at # NULL /\ a.by = at)
    PROVE  HeadersOK' /\ WalkCleared' /\ OnlyLists' /\ AnswerCleared'
  <1>1. HeadersOK'
    BY DEF GuardInv, HeadersOK, Reply, Get
  <1>2. WalkCleared'
    BY DEF WalkCleared, Reply
  <1>3. AnswerCleared'
    <2>1. ASSUME a.by # NULL PROVE Cleared(a.by)'
      BY <2>1, ClearedStays DEF GuardInv, WalkCleared, Reply
    <2> QED
      BY <2>1 DEF AnswerCleared, Reply
  <1> QED
    BY <1>1, <1>2, <1>3 DEF OnlyLists, Reply

\* Every step keeps the invariant.
LEMMA NextCleared == GuardInv /\ [Next]_vars => GuardInv'
  <1> SUFFICES ASSUME GuardInv, [Next]_vars
               PROVE  GuardInv'
    OBVIOUS
  <1>0. TypeOK' /\ WalkOK'
    BY NextType DEF GuardInv
  <1> SUFFICES HeadersOK' /\ WalkCleared' /\ OnlyLists' /\ AnswerCleared'
    BY <1>0 DEF GuardInv
  <1>1. CASE Receive
    <2>1. PICK ask \in Asks :
            /\ asked' = ask
            /\ request' = [path |-> ask.path,
                           headers |-> AddHeaders(request.headers, ask)]
      BY <1>1 DEF Receive
    <2>2. HeadersOK'
      <3>1. /\ request'.headers["Host-IP"] = request.headers["Host-IP"]
            /\ request'.headers["authorization"] =
                 IF ask.authorization # Empty THEN ask.authorization
                 ELSE request.headers["authorization"]
        BY <2>1 DEF AddHeaders, Keys
      <3>2. /\ request.headers["Host-IP"] \in {Address, Empty}
            /\ request.headers["authorization"] = Empty
        BY <1>1 DEF Receive, GuardInv, HeadersOK, Get
      <3> QED
        BY <1>1, <2>1, <3>1, <3>2 DEF Receive, HeadersOK, Get
    <2>3. WalkCleared'
      <3>1. Cleared(Root)'
        BY RootAbove DEF Cleared
      <3> QED
        BY <1>1, <3>1 DEF Receive, WalkCleared, Cleared, Admits
    <2>4. AnswerCleared'
      BY <1>1 DEF Receive, AnswerCleared
    <2> QED
      BY <1>1, <2>2, <2>3, <2>4 DEF Receive, OnlyLists
  <1>2. CASE EnterList
    <2>1. /\ at \in Modules /\ at # NULL /\ phase = "walking" /\ asked' = asked
          /\ Cleared(at)
          /\ \A i \in DOMAIN frames : Cleared(frames[i].list)
      BY <1>2 DEF EnterList, Processing, Walking, GuardInv, TypeOK, WalkCleared
    <2>2. \A i \in DOMAIN frames' :
             \/ frames'[i].list = at
             \/ i \in DOMAIN frames /\ frames'[i].list = frames[i].list
      <3> DEFINE frame == [list |-> at, item |-> 0, path |-> request.path]
      <3>1. frame.list = at
        OBVIOUS
      <3>2. frame \in Frames /\ frames \in Seq(Frames)
        BY <1>2, <2>1 DEF GuardInv, TypeOK, WalkOK, Frames
      <3>3. frames' = Append(frames, frame)
        BY <1>2 DEF EnterList
      <3> HIDE DEF frame
      <3>4. \A i \in DOMAIN frames' :
              \/ i \in DOMAIN frames /\ frames'[i] = frames[i]
              \/ frames'[i] = frame
        BY <3>2, <3>3
      <3> QED
        BY <3>1, <3>4
    <2>3. WalkCleared'
      BY <1>2, <2>1, <2>2 DEF EnterList, WalkCleared, Cleared, Admits
    <2>4. OnlyLists'
      BY <1>2, <2>2 DEF EnterList, Processing, GuardInv, OnlyLists
    <2> QED
      BY <1>2, <2>3, <2>4 DEF EnterList, GuardInv, HeadersOK, AnswerCleared, Get,
                              Processing, Walking
  <1>3. CASE TryItem
    <2>1. /\ Top \in Frames
          /\ frames \in Seq(Frames)
          /\ Len(frames) \in DOMAIN frames
          /\ phase = "walking" /\ asked' = asked
          /\ \A i \in DOMAIN frames : Cleared(frames[i].list)
      BY <1>3 DEF TryItem, Walking, GuardInv, TypeOK, WalkCleared, Top
    <2>2. /\ Top.list \in Modules /\ Top.item \in Nat
          /\ Config[Top.list].list \in Seq(Modules)
          /\ Len(Config[Top.list].list) \in Nat
      BY <2>1, ConfigFields DEF Frames
    <2>3. Top.item + 1 \in DOMAIN Config[Top.list].list
      BY <1>3, <2>2 DEF TryItem
    <2>4. Cleared(Top.list)
      BY <2>1 DEF Top
    <2>5. at' \in Children[Top.list]
      <3>1. at' = Config[Top.list].list[Top.item + 1]
        BY <1>3 DEF TryItem
      <3>2. at' \in Modules
        BY <2>2, <2>3, <3>1
      <3> QED
        BY <2>2, <2>3, <3>1, <3>2, NullAssumption DEF Children
    <2>6. Config[Top.list].kind = "ModuleList"
      BY <2>1 DEF Top, GuardInv, OnlyLists
    <2>7. Cleared(at')
      BY <2>2, <2>4, <2>5, <2>6, ClearedChild DEF IsGuard
    <2>8. /\ DOMAIN frames' = DOMAIN frames
          /\ \A i \in DOMAIN frames : frames'[i].list = frames[i].list
      BY <1>3, <2>1 DEF TryItem, Frames
    <2>9. WalkCleared'
      BY <1>3, <2>1, <2>7, <2>8 DEF TryItem, WalkCleared, Cleared, Admits
    <2>10. OnlyLists'
      BY <2>8 DEF GuardInv, OnlyLists
    <2> QED
      BY <1>3, <2>9, <2>10 DEF TryItem, GuardInv, HeadersOK, AnswerCleared, Get,
                               Walking
  <1>4. CASE LeaveList
    <2>1. frames \in Seq(Frames) /\ Len(frames) > 0
      BY <1>4 DEF LeaveList, GuardInv, TypeOK
    <2>2. \A i \in DOMAIN frames' : i \in DOMAIN frames /\ frames'[i] = frames[i]
      BY <1>4, <2>1 DEF LeaveList
    <2> QED
      BY <1>4, <2>2 DEF LeaveList, GuardInv, HeadersOK, WalkCleared,
                        OnlyLists, AnswerCleared, Get, Walking, Cleared, Admits
  <1>5. CASE NoModule
    <2> DEFINE a == [by |-> NULL, status |-> 500, body |-> "error page"]
    <2>1. Reply(a) /\ request' = request /\ a.by = NULL /\ phase = "walking"
      BY <1>5 DEF NoModule, Walking
    <2> HIDE DEF a
    <2> QED
      BY <2>1, ReplyCleared
  <1>6. CASE Path
    <2>1. at \in Modules /\ phase = "walking" /\ ~IsGuard(at)
      BY <1>6 DEF Path, Processing, Walking, GuardInv, TypeOK, IsGuard
    <2>2. request'.headers = request.headers
      BY <1>6 DEF Path, GuardInv, TypeOK, Requests
    <2>3. PICK inside : CallNext(inside)
      BY <1>6 DEF Path
    <2> QED
      BY <2>1, <2>2, <2>3, CallCleared
  <1>7. CASE Server
    <2>1. at \in Modules /\ phase = "walking" /\ ~IsGuard(at)
      BY <1>7 DEF Server, Processing, Walking, GuardInv, TypeOK, IsGuard
    <2>2. request' = request /\ CallNext(Get("Server") \in Config[at].accepts)
      BY <1>7 DEF Server
    <2> QED
      BY <2>1, <2>2, CallCleared
  <1>8. CASE Allow
    <2>1. at \in Modules /\ phase = "walking" /\ Config[at].kind = "Allow"
      BY <1>8 DEF Allow, Processing, Walking, GuardInv, TypeOK
    <2>2. request' = request /\ CallNext(Get("Host-IP") \in Config[at].accepts)
      BY <1>8 DEF Allow
    <2>3. Get("Host-IP") \in Config[at].accepts => Admits(at)
      BY <2>1, AcceptsAssumption DEF GuardInv, HeadersOK, Admits
    <2> QED
      BY <2>1, <2>2, <2>3, CallCleared
  <1>9. CASE AuthPAM
    <2>1. /\ at \in Modules /\ at # NULL /\ phase = "walking"
          /\ Config[at].kind = "AuthPAM" /\ request' = request
      BY <1>9 DEF AuthPAM, Processing, Walking, GuardInv, TypeOK
    <2>2. CASE Get("authorization") \in Config[at].accepts /\ CallNext(TRUE)
      <3>1. Admits(at)
        BY <2>1, <2>2 DEF GuardInv, HeadersOK, Admits
      <3> QED
        BY <2>1, <2>2, <3>1, CallCleared
    <2>3. CASE Reply([by |-> at, status |-> 401, body |-> "error page"])
      <3> DEFINE a == [by |-> at, status |-> 401, body |-> "error page"]
      <3>1. Reply(a) /\ a.by = at
        BY <2>3
      <3> HIDE DEF a
      <3> QED
        BY <2>1, <3>1, ReplyCleared
    <2> QED
      BY <1>9, <2>2, <2>3 DEF AuthPAM
  <1>10. CASE Stats
    <2>1. /\ at \in Modules /\ at # NULL /\ phase = "walking" /\ ~IsGuard(at)
          /\ request' = request
      BY <1>10 DEF Stats, Processing, Walking, GuardInv, TypeOK, IsGuard
    <2>2. CASE CallNext(TRUE)
      BY <2>1, <2>2, CallCleared
    <2>3. CASE Reply(File(at, 200, "file"))
      BY <2>1, <2>3, FileType, ReplyCleared
    <2> QED
      BY <1>10, <2>2, <2>3 DEF Stats
  <1>11. CASE Leaf
    <2>1. /\ at \in Modules /\ at # NULL /\ phase = "walking"
          /\ request' = request /\ request.path \in Paths
      BY <1>11 DEF Leaf, Walking, GuardInv, TypeOK, WalkOK
    <2>2. CASE CallNext(FALSE)
      BY <2>1, <2>2, CallCleared
    <2>3. CASE /\ Produced(at, request.path) # NoAnswer
               /\ Reply(Produced(at, request.path))
      BY <2>1, <2>3, ProducedType, ReplyCleared
    <2> QED
      BY <1>11, <2>2, <2>3 DEF Leaf
  <1>12. CASE KeepAlive
    <2>1. /\ request'.headers["Host-IP"] = Address
          /\ request'.headers["authorization"] = Empty
      BY <1>12 DEF KeepAlive, Clean, NoHeaders, Keys, GuardInv, TypeOK, Requests
    <2> QED
      BY <1>12, <2>1 DEF KeepAlive, GuardInv, HeadersOK, WalkCleared, OnlyLists,
                         AnswerCleared, Get
  <1>13. CASE UNCHANGED vars
    BY <1>13 DEF vars, GuardInv, HeadersOK, WalkCleared, OnlyLists, AnswerCleared,
                 Cleared, Admits, Get
  <1> QED
    BY <1>1, <1>2, <1>3, <1>4, <1>5, <1>6, <1>7, <1>8, <1>9, <1>10, <1>11,
       <1>12, <1>13 DEF Next, Walk, Closed

\* The invariant holds at first, before any request.
LEMMA InitCleared == Init => GuardInv
  <1> SUFFICES ASSUME Init PROVE GuardInv
    OBVIOUS
  <1>1. TypeOK /\ WalkOK
    BY InitType DEF Init, WalkOK
  <1>2. HeadersOK
    BY DEF Init, HeadersOK, Get, NoHeaders, Keys
  <1> QED
    BY <1>1, <1>2 DEF Init, GuardInv, WalkCleared, OnlyLists, AnswerCleared

\* No walk leads around a guard: in every tree, what answers a request below an
\* Allow or an AuthPAM answers one that carries what the guard asks for, however
\* many requests the connection has made before (allow.cpp:36, authpam.cpp:42,
\* client.cpp:162).
THEOREM GuardsAlwaysHold == Spec => []GuardsHold
  <1>1. GuardInv => GuardsHold
    <2> SUFFICES ASSUME GuardInv, NEW g \in Modules, phase = "answered",
                        Config[g].kind \in {"Allow", "AuthPAM"},
                        answer.by \in Below[g]
                 PROVE  Admits(g)
      BY DEF GuardsHold
    <2>1. answer.by # NULL
      BY BelowClosed, NullAssumption
    <2> QED
      BY <2>1 DEF GuardInv, AnswerCleared, Cleared, IsGuard
  <1> QED
    BY <1>1, InitCleared, NextCleared, PTL DEF Spec

-----------------------------------------------------------------------------
(* Once through the tree *)

\* A module and all that lies below it: what a walk that calls it may pass.
Within(m) == {m} \cup Below[m]

\* What the call f of a list has yet to try.
Ahead(f) ==
    {n \in Modules : \E j \in DOMAIN Config[f.list].list :
                        j > f.item /\ n \in Within(Config[f.list].list[j])}

\* What lies below a child lies below its parent.
LEMMA WithinChild ==
    ASSUME NEW m \in Modules, NEW c \in Children[m]
    PROVE  Within(c) \subseteq Below[m]
  <1>1. c \in Modules /\ c \in Below[m] /\ Below[m] \subseteq Modules
    BY ChildrenType, BelowClosed
  <1>2. Children[c] \subseteq Below[m] /\ Below[m] \in ClosedSets
    BY <1>1, BelowClosed DEF ClosedSets
  <1>3. Below[c] \subseteq Below[m]
    <2>1. ASSUME NEW n \in Below[c] PROVE n \in Below[m]
      BY <1>1, <1>2 DEF Below
    <2> QED
      BY <2>1
  <1> QED
    BY <1>1, <1>3 DEF Within

\* No module of the tree is below itself.
LEMMA NotBelowItself ==
    ASSUME NEW m \in Within(Root)
    PROVE  m \in Modules /\ m \notin Below[m]
  <1> DEFINE S == {k \in Modules : k \notin Below[k]}
  <1>1. ASSUME NEW k \in S, NEW c \in Children[k]
        PROVE  c \in S
    <2>1. k \in Modules /\ c \in Modules /\ k \notin Below[k]
      BY ChildrenType
    <2>2. c \in Below[k] /\ Below[c] \subseteq Below[k]
      BY <2>1, BelowClosed, WithinChild DEF Within
    <2>3. ASSUME c \in Below[c] PROVE FALSE
      <3>1. c # k
        BY <2>1, <2>3
      <3>2. k \in Below[c]
        BY <2>1, <2>3, <3>1, ParentBelow
      <3> QED
        BY <2>1, <2>2, <3>2
    <2> QED
      BY <2>1, <2>3
  <1>2. Root \in S
    BY RootAbove, TreeAssumption
  <1>3. S \in ClosedSets
    BY <1>1 DEF ClosedSets
  <1>4. Children[Root] \subseteq S
    BY <1>1, <1>2
  <1>5. Below[Root] \subseteq S
    <2> HIDE DEF S
    <2>1. Root \in Modules
      BY TreeAssumption
    <2>2. ASSUME NEW n \in Below[Root] PROVE n \in S
      BY <1>3, <1>4, <2>1 DEF Below
    <2> QED
      BY <2>2
  <1> QED
    BY <1>2, <1>5 DEF Within

\* The children of a module of the tree are in the tree.
LEMMA ChildInTree ==
    ASSUME NEW m \in Within(Root), NEW c \in Children[m]
    PROVE  c \in Within(Root)
  BY BelowClosed, TreeAssumption DEF Within

\* Two children of a module have nothing in common.
LEMMA ChildrenApart ==
    ASSUME NEW m \in Within(Root), NEW c \in Children[m], NEW d \in Children[m],
           c # d
    PROVE  Within(c) \cap Within(d) = {}
  <1>1. /\ m \in Modules /\ c \in Modules /\ d \in Modules
        /\ m \notin Below[m]
    BY NotBelowItself, ChildrenType
  <1>2. Within(c) \subseteq Below[m] /\ Within(d) \subseteq Below[m]
    BY <1>1, WithinChild
  <1>3. m \notin Within(c) /\ m \notin Within(d)
    BY <1>1, <1>2
  <1> DEFINE S == Within(c) \ Within(d)
  <1>4. c \in S
    <2>1. c \notin Below[d]
      BY <1>1, <1>3, ParentBelow DEF Within
    <2> QED
      BY <2>1 DEF Within
  <1>5. S \subseteq Modules
    BY <1>1, BelowClosed DEF Within
  <1>6. ASSUME NEW k \in S, NEW x \in Children[k]
        PROVE  x \in S
    <2>1. k \in Modules /\ k # m
      BY <1>3, <1>5
    <2>2. x \in Below[c]
      BY <1>1, BelowClosed DEF Within
    <2>3. x # d
      BY <1>1, <2>1, TreeAssumption
    <2>4. x \notin Below[d]
      BY <1>1, <2>1, ParentBelow DEF Within
    <2> QED
      BY <2>2, <2>3, <2>4 DEF Within
  <1>7. S \in ClosedSets /\ Children[c] \subseteq S
    BY <1>4, <1>5, <1>6 DEF ClosedSets
  <1>8. Below[c] \subseteq S
    <2> HIDE DEF S
    <2>1. ASSUME NEW n \in Below[c] PROVE n \in S
      BY <1>1, <1>7 DEF Below
    <2> QED
      BY <2>1
  <1> QED
    BY <1>4, <1>8 DEF Within

\* The modules of a list are its children.
LEMMA ItemIsChild ==
    ASSUME NEW m \in Modules, NEW j \in DOMAIN Config[m].list
    PROVE  Config[m].list[j] \in Modules /\ Config[m].list[j] \in Children[m]
  <1>1. Config[m].list[j] \in Modules
    BY ConfigFields
  <1> QED
    BY <1>1, NullAssumption DEF Children

\* Each Stats has counted no request twice, and those that the walk may still
\* come to have not counted this one: the module to be processed and what is
\* below it, and what the lists under way have yet to try.  No two of these have
\* a module in common, so that whichever the walk takes leaves the others alone.
Fresh(S) == \A n \in S : requests[n] < count

OnceInv ==
    /\ CountedOnce
    /\ phase = "walking" =>
         /\ at # NULL => at \in Within(Root) /\ Fresh(Within(at))
         /\ \A i \in DOMAIN frames :
              /\ frames[i].list \in Within(Root)
              /\ Fresh(Ahead(frames[i]))
              /\ at # NULL => Within(at) \cap Ahead(frames[i]) = {}
              /\ \A k \in DOMAIN frames :
                   i # k => Ahead(frames[i]) \cap Ahead(frames[k]) = {}

\* Fresh modules are those of a step before that has counted nothing.
LEMMA FreshStays ==
    ASSUME requests' = requests, count' = count, NEW S, Fresh(S), NEW T,
           T \subseteq S
    PROVE  Fresh(T)'
  BY DEF Fresh

\* A step of a module counts the request nowhere but in the module itself.
CountedHere ==
    /\ count' = count
    /\ \A n \in Modules : n # at => requests'[n] = requests[n]
    /\ requests'[at] <= count

\* A module that counts nothing is one of these, and Stats is an other one.
LEMMA CountingHere ==
    ASSUME TypeOK, OnceInv, phase = "walking", at \in Modules, count' = count,
           \/ requests' = requests
           \/ requests' = [requests EXCEPT ![at] = @ + 1]
    PROVE  CountedHere
  <1>1. requests \in [Modules -> Nat] /\ count \in Nat
    BY MaxRequestsAssumption DEF TypeOK
  <1>2. requests[at] < count
    BY NullAssumption DEF OnceInv, Fresh, Within
  <1>3. CASE requests' = requests
    BY <1>1, <1>2, <1>3 DEF CountedHere
  <1>4. CASE requests' = [requests EXCEPT ![at] = @ + 1]
    BY <1>1, <1>2, <1>4 DEF CountedHere
  <1> QED
    BY <1>3, <1>4

\* After it, no module has counted a request twice.
LEMMA CountedHereOnce ==
    ASSUME TypeOK, OnceInv, at \in Modules, CountedHere
    PROVE  CountedOnce'
  BY DEF OnceInv, CountedOnce, CountedHere

\* The call of the next module leads on into fresh modules.
LEMMA CallOnce ==
    ASSUME TypeOK, OnceInv, phase = "walking", at \in Modules, NEW passes,
           CallNext(passes), CountedHere
    PROVE  OnceInv'
  <1>1. /\ at \in Within(Root) /\ Fresh(Within(at)) /\ at # NULL
        /\ \A i \in DOMAIN frames :
             /\ frames[i].list \in Within(Root)
             /\ Fresh(Ahead(frames[i]))
             /\ Within(at) \cap Ahead(frames[i]) = {}
             /\ \A k \in DOMAIN frames :
                  i # k => Ahead(frames[i]) \cap Ahead(frames[k]) = {}
    BY NullAssumption DEF OnceInv
  <1>2. /\ frames' = frames
        /\ at' # NULL => at' = Config[at].nextModule
    BY DEF CallNext
  <1>3. ASSUME NEW S, S \subseteq Modules, Fresh(S), at \notin S
        PROVE  Fresh(S)'
    BY <1>3 DEF Fresh, CountedHere
  <1>4. at \in Within(at)
    BY DEF Within
  <1>5. \A i \in DOMAIN frames : Fresh(Ahead(frames[i]))'
    <2>1. ASSUME NEW i \in DOMAIN frames PROVE Fresh(Ahead(frames[i]))'
      <3>1. /\ Ahead(frames[i]) \subseteq Modules
            /\ Fresh(Ahead(frames[i])) /\ at \notin Ahead(frames[i])
        BY <1>1, <1>4 DEF Ahead
      <3>2. \A n \in Ahead(frames[i]) : requests'[n] < count'
        BY <3>1 DEF Fresh, CountedHere
      <3> QED
        BY <1>2, <3>2 DEF Fresh, Ahead
    <2> QED
      BY <2>1
  <1>6. ASSUME at' # NULL
        PROVE  /\ at' \in Within(Root)
               /\ Fresh(Within(at))' /\ Within(at') \subseteq Within(at)
    <2>1. at' = Config[at].nextModule /\ at' \in Children[at]
      BY <1>2, <1>6 DEF Children
    <2>2. at' \in Within(Root)
      BY <1>1, <2>1, ChildInTree
    <2>3. Within(at') \subseteq Below[at] /\ at \notin Below[at] /\ Below[at] \subseteq Modules
      BY <1>1, <2>1, WithinChild, NotBelowItself, BelowClosed
    <2>4. \A n \in Within(at') : requests'[n] < count'
      BY <1>1, <2>3 DEF Fresh, CountedHere, Within
    <2>5. Within(at') \subseteq Within(at)
      BY <2>3 DEF Within
    <2> QED
      BY <2>2, <2>4, <2>5 DEF Fresh, Within
  <1> QED
    BY <1>1, <1>2, <1>5, <1>6, CountedHereOnce DEF OnceInv

\* A list that is called puts what is below it on the stack.
LEMMA EnterOnce ==
    ASSUME TypeOK, WalkOK, OnceInv, EnterList
    PROVE  OnceInv'
  <1> DEFINE frame == [list |-> at, item |-> 0, path |-> request.path]
  <1>1. /\ phase = "walking" /\ at \in Modules /\ at # NULL
        /\ frames \in Seq(Frames) /\ frame \in Frames
        /\ frames' = Append(frames, frame)
        /\ at' = NULL /\ count' = count /\ requests' = requests
        /\ phase' = phase
    BY DEF EnterList, Processing, Walking, TypeOK, WalkOK, Frames
  <1>2. /\ at \in Within(Root) /\ Fresh(Within(at))
        /\ \A i \in DOMAIN frames :
             /\ frames[i].list \in Within(Root)
             /\ Fresh(Ahead(frames[i]))
             /\ Within(at) \cap Ahead(frames[i]) = {}
             /\ \A k \in DOMAIN frames :
                  i # k => Ahead(frames[i]) \cap Ahead(frames[k]) = {}
    BY <1>1 DEF OnceInv
  <1>3. frame.list = at
    OBVIOUS
  <1>4. Ahead(frame) \subseteq Within(at)
    <2> HIDE DEF frame
    <2>1. \A j \in DOMAIN Config[at].list :
             Within(Config[at].list[j]) \subseteq Below[at]
      BY <1>1, ItemIsChild, WithinChild
    <2> QED
      BY <1>3, <2>1 DEF Ahead, Within
  <1> HIDE DEF frame
  <1>5. /\ DOMAIN frames = 1..Len(frames) /\ Len(frames) \in Nat
        /\ DOMAIN frames' = 1..(Len(frames) + 1)
        /\ frames'[Len(frames) + 1] = frame
        /\ \A i \in DOMAIN frames : frames'[i] = frames[i]
    BY <1>1
  <1>6. ASSUME NEW i \in DOMAIN frames'
        PROVE  \/ i \in DOMAIN frames /\ frames'[i] = frames[i]
               \/ i = Len(frames) + 1 /\ frames'[i] = frame
    BY <1>5
  <1>7. ASSUME NEW i \in DOMAIN frames'
        PROVE  frames'[i].list \in Within(Root) /\ Fresh(Ahead(frames'[i]))
    BY <1>2, <1>3, <1>4, <1>6 DEF Fresh
  <1>8. ASSUME NEW i \in DOMAIN frames', NEW k \in DOMAIN frames', i # k
        PROVE  Ahead(frames'[i]) \cap Ahead(frames'[k]) = {}
    <2>1. CASE i \in DOMAIN frames /\ k \in DOMAIN frames
      <3>1. frames'[i] = frames[i] /\ frames'[k] = frames[k]
        BY <1>5, <2>1
      <3> QED
        BY <1>2, <1>8, <2>1, <3>1
    <2>2. CASE i \notin DOMAIN frames
      <3>1. /\ frames'[i] = frame
            /\ k \in DOMAIN frames /\ frames'[k] = frames[k]
        BY <1>5, <1>6, <1>8, <2>2
      <3> QED
        BY <1>2, <1>4, <3>1
    <2>3. CASE k \notin DOMAIN frames
      <3>1. /\ frames'[k] = frame
            /\ i \in DOMAIN frames /\ frames'[i] = frames[i]
        BY <1>5, <1>6, <1>8, <2>3
      <3> QED
        BY <1>2, <1>4, <3>1
    <2> QED
      BY <2>1, <2>2, <2>3
  <1>9. \A i \in DOMAIN frames' :
          /\ frames'[i].list \in Within(Root)
          /\ Fresh(Ahead(frames[i]))'
          /\ \A k \in DOMAIN frames' :
               i # k => Ahead(frames'[i]) \cap Ahead(frames'[k]) = {}
    BY <1>1, <1>7, <1>8 DEF Fresh
  <1>10. CountedOnce'
    BY <1>1 DEF OnceInv, CountedOnce
  <1> QED
    BY <1>1, <1>9, <1>10 DEF OnceInv

\* The module a list tries next comes out of what it had yet to try.
LEMMA TryOnce ==
    ASSUME TypeOK, OnceInv, TryItem
    PROVE  OnceInv'
  <1> DEFINE last == Len(frames)
             item == Top.item + 1
             frame == [Top EXCEPT !.item = item]
  <1>1. /\ phase = "walking" /\ at = NULL
        /\ frames \in Seq(Frames) /\ last \in DOMAIN frames
        /\ Top = frames[last] /\ Top \in Frames
        /\ count' = count /\ requests' = requests /\ phase' = phase
    BY DEF TryItem, Walking, TypeOK, Top
  <1>2. /\ Top.list \in Modules /\ Top.item \in Nat
        /\ Config[Top.list].list \in Seq(Modules)
        /\ item \in DOMAIN Config[Top.list].list
        /\ at' = Config[Top.list].list[item]
    <2>1. Top.list \in Modules /\ Top.item \in Nat
      BY <1>1 DEF Frames
    <2>2. Config[Top.list].list \in Seq(Modules)
      BY <2>1, ConfigFields
    <2> QED
      BY <2>1, <2>2 DEF TryItem
  <1>3. \A i \in DOMAIN frames :
          /\ frames[i].list \in Within(Root)
          /\ Fresh(Ahead(frames[i]))
          /\ \A k \in DOMAIN frames :
               i # k => Ahead(frames[i]) \cap Ahead(frames[k]) = {}
    BY <1>1 DEF OnceInv
  <1>4. frame.list = Top.list /\ frame.item = item
    BY <1>1 DEF Frames
  <1>5. /\ DOMAIN frames' = DOMAIN frames
        /\ frames'[last] = frame
        /\ \A i \in DOMAIN frames : i # last => frames'[i] = frames[i]
    <2>1. frames' = [frames EXCEPT ![last].item = item]
      BY DEF TryItem
    <2> QED
      BY <1>1, <2>1
  <1> HIDE DEF frame, last
  <1>6. /\ at' \in Modules /\ at' \in Children[Top.list]
        /\ Within(at') \subseteq Modules
    BY <1>2, ItemIsChild, BelowClosed DEF Within
  <1>7. Top.list \in Within(Root) /\ at' \in Within(Root)
    BY <1>1, <1>3, <1>6, ChildInTree
  <1>8. /\ Within(at') \subseteq Ahead(Top)
        /\ Ahead(frame) \subseteq Ahead(Top)
        /\ Within(at') \cap Ahead(frame) = {}
    <2> HIDE DEF item
    <2>1. item = Top.item + 1
      BY DEF item
    <2>2. Within(at') \subseteq Ahead(Top)
      BY <1>2, <1>6, <2>1 DEF Ahead
    <2>3. \A j \in DOMAIN Config[Top.list].list : j > item => j > Top.item
      BY <1>2, <2>1
    <2>4. Ahead(frame) \subseteq Ahead(Top)
      BY <1>4, <2>3 DEF Ahead
    <2>5. ASSUME NEW j \in DOMAIN Config[Top.list].list, j > item
          PROVE  Within(at') \cap Within(Config[Top.list].list[j]) = {}
      <3>1. j # item
        BY <1>2, <2>1, <2>5
      <3>2. Config[Top.list].list[j] # at'
        BY <1>2, <3>1, TreeAssumption
      <3>3. Config[Top.list].list[j] \in Children[Top.list]
        BY <1>2, ItemIsChild
      <3> QED
        BY <1>6, <1>7, <3>2, <3>3, ChildrenApart
    <2> QED
      BY <1>4, <2>2, <2>4, <2>5 DEF Ahead
  <1>9. \A i \in DOMAIN frames :
           /\ Ahead(frames'[i]) \subseteq Ahead(frames[i])
           /\ frames'[i].list = frames[i].list
    BY <1>1, <1>4, <1>5, <1>8
  <1>10. \A i \in DOMAIN frames' : Within(at') \cap Ahead(frames'[i]) = {}
    <2>1. ASSUME NEW i \in DOMAIN frames, i # last
          PROVE  Within(at') \cap Ahead(frames'[i]) = {}
      <3>1. Ahead(Top) \cap Ahead(frames[i]) = {}
        BY <1>1, <1>3, <2>1
      <3> QED
        BY <1>5, <1>8, <2>1, <3>1
    <2> QED
      BY <1>5, <1>8, <2>1
  <1>11. Fresh(Within(at))'
    <2>1. Fresh(Ahead(Top))
      BY <1>1, <1>3
    <2> QED
      BY <1>1, <1>8, <2>1 DEF Fresh
  <1>12. \A i \in DOMAIN frames' :
           /\ frames'[i].list \in Within(Root)
           /\ Fresh(Ahead(frames[i]))'
           /\ \A k \in DOMAIN frames' :
                i # k => Ahead(frames'[i]) \cap Ahead(frames'[k]) = {}
    <2>1. ASSUME NEW i \in DOMAIN frames PROVE Fresh(Ahead(frames[i]))'
      BY <1>1, <1>3, <1>9 DEF Fresh
    <2>2. ASSUME NEW i \in DOMAIN frames, NEW k \in DOMAIN frames, i # k
          PROVE  Ahead(frames'[i]) \cap Ahead(frames'[k]) = {}
      BY <1>3, <1>9, <2>2
    <2> QED
      BY <1>3, <1>5, <1>9, <2>1, <2>2
  <1>13. CountedOnce'
    BY <1>1 DEF OnceInv, CountedOnce
  <1> QED
    BY <1>1, <1>7, <1>10, <1>11, <1>12, <1>13 DEF OnceInv

\* A step that counts nothing and after which nobody walks keeps the counters.
LEMMA RestOnce ==
    ASSUME CountedOnce', phase' # "walking"
    PROVE  OnceInv'
  BY DEF OnceInv

\* Every step keeps the invariant.
LEMMA NextOnce == TypeOK /\ WalkOK /\ OnceInv /\ [Next]_vars => OnceInv'
  <1> SUFFICES ASSUME TypeOK, WalkOK, OnceInv, [Next]_vars
               PROVE  OnceInv'
    OBVIOUS
  <1>0. requests \in [Modules -> Nat] /\ count \in Nat /\ CountedOnce
    BY MaxRequestsAssumption DEF TypeOK, OnceInv
  <1>1. CASE Receive
    <2>1. count' = count + 1 /\ requests' = requests /\ at' = Root /\ frames' = <<>>
      BY <1>1 DEF Receive
    <2>2. \A n \in Modules : requests'[n] < count'
      BY <1>0, <2>1 DEF CountedOnce
    <2>3. CountedOnce'
      BY <1>0, <2>1 DEF CountedOnce
    <2>4. Within(Root) \subseteq Modules /\ Root \in Within(Root)
      BY BelowClosed, TreeAssumption DEF Within
    <2>5. Fresh(Within(Root))'
      BY <2>2, <2>4 DEF Fresh
    <2> QED
      BY <2>1, <2>3, <2>4, <2>5 DEF OnceInv
  <1>2. CASE EnterList
    BY <1>2, EnterOnce
  <1>3. CASE TryItem
    BY <1>3, TryOnce
  <1>4. CASE LeaveList
    <2>1. frames \in Seq(Frames) /\ Len(frames) > 0 /\ phase = "walking" /\ at = NULL
          /\ at' = at /\ requests' = requests /\ count' = count
      BY <1>4 DEF LeaveList, TypeOK, Walking
    <2>2. \A i \in DOMAIN frames' : i \in DOMAIN frames /\ frames'[i] = frames[i]
      BY <1>4, <2>1 DEF LeaveList
    <2>3. CountedOnce'
      BY <1>0, <2>1 DEF CountedOnce
    <2> QED
      BY <2>1, <2>2, <2>3 DEF OnceInv, Fresh
  <1>5. CASE NoModule
    BY <1>0, <1>5, RestOnce DEF NoModule, Reply, CountedOnce
  <1>6. CASE Path
    <2>1. at \in Modules /\ phase = "walking" /\ requests' = requests
      BY <1>6 DEF Path, Processing, Walking, TypeOK
    <2>2. PICK inside : CallNext(inside)
      BY <1>6 DEF Path
    <2>3. CountedHere
      BY <2>1, <2>2, CountingHere DEF CallNext
    <2> QED
      BY <2>1, <2>2, <2>3, CallOnce
  <1>7. CASE Server
    <2>1. at \in Modules /\ phase = "walking" /\ requests' = requests
      BY <1>7 DEF Server, Processing, Walking, TypeOK
    <2>2. PICK passes : CallNext(passes)
      BY <1>7 DEF Server
    <2>3. CountedHere
      BY <2>1, <2>2, CountingHere DEF CallNext
    <2> QED
      BY <2>1, <2>2, <2>3, CallOnce
  <1>8. CASE Allow
    <2>1. at \in Modules /\ phase = "walking" /\ requests' = requests
      BY <1>8 DEF Allow, Processing, Walking, TypeOK
    <2>2. PICK passes : CallNext(passes)
      BY <1>8 DEF Allow
    <2>3. CountedHere
      BY <2>1, <2>2, CountingHere DEF CallNext
    <2> QED
      BY <2>1, <2>2, <2>3, CallOnce
  <1>9. CASE AuthPAM
    <2>1. at \in Modules /\ phase = "walking" /\ requests' = requests
      BY <1>9 DEF AuthPAM, Processing, Walking, TypeOK
    <2>2. CASE CallNext(TRUE)
      <3>1. CountedHere
        BY <2>1, <2>2, CountingHere DEF CallNext
      <3> QED
        BY <2>1, <2>2, <3>1, CallOnce
    <2>3. CASE Reply([by |-> at, status |-> 401, body |-> "error page"])
      BY <1>0, <2>1, <2>3, RestOnce DEF Reply, CountedOnce
    <2> QED
      BY <1>9, <2>2, <2>3 DEF AuthPAM
  <1>10. CASE Stats
    <2>1. /\ at \in Modules /\ phase = "walking"
          /\ requests' = [requests EXCEPT ![at] = @ + 1]
      BY <1>10 DEF Stats, Processing, Walking, TypeOK
    <2>2. CASE CallNext(TRUE)
      <3>1. CountedHere
        BY <2>1, <2>2, CountingHere DEF CallNext
      <3> QED
        BY <2>1, <2>2, <3>1, CallOnce
    <2>3. CASE Reply(File(at, 200, "file"))
      <3>1. count' = count /\ phase' # "walking"
        BY <2>3 DEF Reply
      <3>2. CountedHere
        BY <2>1, <3>1, CountingHere
      <3> QED
        BY <2>1, <3>1, <3>2, CountedHereOnce, RestOnce
    <2> QED
      BY <1>10, <2>2, <2>3 DEF Stats
  <1>11. CASE Leaf
    <2>1. at \in Modules /\ phase = "walking" /\ requests' = requests
      BY <1>11 DEF Leaf, Walking, TypeOK
    <2>2. CASE CallNext(FALSE)
      <3>1. CountedHere
        BY <2>1, <2>2, CountingHere DEF CallNext
      <3> QED
        BY <2>1, <2>2, <3>1, CallOnce
    <2>3. CASE Reply(Produced(at, request.path))
      BY <1>0, <2>1, <2>3, RestOnce DEF Reply, CountedOnce
    <2> QED
      BY <1>11, <2>2, <2>3 DEF Leaf
  <1>12. CASE KeepAlive
    BY <1>0, <1>12, RestOnce DEF KeepAlive, CountedOnce
  <1>13. CASE UNCHANGED vars
    BY <1>13 DEF vars, OnceInv, CountedOnce, Fresh
  <1> QED
    BY <1>1, <1>2, <1>3, <1>4, <1>5, <1>6, <1>7, <1>8, <1>9, <1>10, <1>11,
       <1>12, <1>13 DEF Next, Walk, Closed

\* In every tree and for any number of requests no Stats counts a request
\* twice: the walk never comes to a module that it has been in, though lists
\* resume after the modules they called (stats.cpp:38, modulelist.cpp:40).
THEOREM AlwaysCountedOnce == Spec => []CountedOnce
  <1>1. Init => TypeOK /\ WalkOK /\ OnceInv
    BY InitType DEF Init, WalkOK, OnceInv, CountedOnce
  <1>2. TypeOK /\ WalkOK /\ OnceInv /\ [Next]_vars => (TypeOK /\ WalkOK /\ OnceInv)'
    BY NextType, NextOnce
  <1>3. OnceInv => CountedOnce
    BY DEF OnceInv
  <1> QED
    BY <1>1, <1>2, <1>3, PTL DEF Spec

-----------------------------------------------------------------------------
(* As the configuration says *)

\* What x was expected of at the path p is what y is expected of at q: the same,
\* or what is left of it once a Path has kept its part.
Link(x, p, y, q) ==
    \/ x = y /\ p = q
    \/ x = IF y = NoAnswer THEN Astray ELSE y

\* What the call f of a list expects of the module that it is at.
Expected(S, f) ==
    IF f.item = 0 THEN NoAnswer ELSE S[Config[f.list].list[f.item]][f.path]

\* x is what the nesting says of the request at the path p, and S of every module
\* and path; y is what it says of the module that the walk is at, at the path q,
\* and fr are the calls of lists in between.  The modules that a list has come
\* past have declined.  What a call expects of its module is what the next call
\* will give, or the module that the walk is at.  Whoever of these has an answer
\* has the answer to the request.
Given(S, fr, y, i) == IF i = Len(fr) THEN y ELSE S[fr[i + 1].list][fr[i + 1].path]
GivenPath(fr, q, i) == IF i = Len(fr) THEN q ELSE fr[i + 1].path
Wanted(S, x, fr, i) == IF i = 0 THEN x ELSE Expected(S, fr[i])
WantedPath(p, fr, i) == IF i = 0 THEN p ELSE fr[i].path

PastDeclined(S, f) ==
    \A j \in 1..(f.item - 1) : S[Config[f.list].list[j]][f.path] = NoAnswer

Nests(S, x, p, fr, y, q) ==
    /\ \A i \in 1..Len(fr) : PastDeclined(S, fr[i])
    /\ \A i \in 0..Len(fr) :
         /\ Link(Wanted(S, x, fr, i), WantedPath(p, fr, i), Given(S, fr, y, i), GivenPath(fr, q, i))
         /\ Given(S, fr, y, i) # NoAnswer => Given(S, fr, y, i) = x

\* A list answers with the first of its modules that answers.
ListsIn(S) ==
    \A m \in Modules, p \in Paths : Config[m].kind = "ModuleList" =>
        /\ \A k \in DOMAIN Config[m].list :
              /\ \A j \in 1..(k - 1) : S[Config[m].list[j]][p] = NoAnswer
              /\ S[Config[m].list[k]][p] # NoAnswer
              => S[m][p] = S[Config[m].list[k]][p]
        /\ (\A k \in DOMAIN Config[m].list : S[Config[m].list[k]][p] = NoAnswer)
              => S[m][p] = NoAnswer

\* The calls of process() on the stack are calls of lists.
CallsOfLists(fr) ==
    /\ fr \in Seq(Frames)
    /\ \A i \in 1..Len(fr) : /\ Config[fr[i].list].kind = "ModuleList"
                             /\ fr[i].item <= Len(Config[fr[i].list].list)

LEMMA LinkOn ==
    ASSUME NEW x, NEW p, NEW y, NEW q, NEW z, NEW r, Link(x, p, y, q), Link(y, q, z, r)
    PROVE  Link(x, p, z, r)
<1>1. Astray # NoAnswer
  BY DEF Astray, NoAnswer
<1> QED
  BY <1>1, Zenon DEF Link

\* A module that is no list passes the call on.
LEMMA NestsCall ==
    ASSUME NEW S, NEW x, NEW p, NEW fr \in Seq(Frames), NEW y, NEW q, NEW z, NEW r,
           Nests(S, x, p, fr, y, q), Link(y, q, z, r), z # NoAnswer => z = y
    PROVE  Nests(S, x, p, fr, z, r)
<1>1. Len(fr) \in Nat
  OBVIOUS
<1>2. ASSUME NEW i \in 0..Len(fr)
      PROVE  /\ Link(Wanted(S, x, fr, i), WantedPath(p, fr, i), Given(S, fr, z, i), GivenPath(fr, r, i))
             /\ Given(S, fr, z, i) # NoAnswer => Given(S, fr, z, i) = x
  <2>1. /\ Link(Wanted(S, x, fr, i), WantedPath(p, fr, i), Given(S, fr, y, i), GivenPath(fr, q, i))
        /\ Given(S, fr, y, i) # NoAnswer => Given(S, fr, y, i) = x
    BY DEF Nests
  <2>2. CASE i = Len(fr)
    <3>1. /\ Given(S, fr, y, i) = y /\ GivenPath(fr, q, i) = q
          /\ Given(S, fr, z, i) = z /\ GivenPath(fr, r, i) = r
      BY <2>2 DEF Given, GivenPath
    <3> QED
      BY <2>1, <3>1, LinkOn
  <2>3. CASE i # Len(fr)
    BY <2>1, <2>3 DEF Given, GivenPath
  <2> QED
    BY <2>2, <2>3
<1> QED
  BY <1>2 DEF Nests

\* A list is called: it will give what it is expected of.
LEMMA NestsEnter ==
    ASSUME NEW S, NEW x, NEW p, NEW fr \in Seq(Frames), NEW m \in Modules, NEW q \in Paths,
           Nests(S, x, p, fr, S[m][q], q)
    PROVE  Nests(S, x, p, Append(fr, [list |-> m, item |-> 0, path |-> q]), NoAnswer, q)
<1> DEFINE f == [list |-> m, item |-> 0, path |-> q]
           n == Len(fr)
           gr == Append(fr, f)
<1>1. f \in Frames /\ f.list = m /\ f.item = 0 /\ f.path = q
  BY DEF Frames
<1> HIDE DEF f
<1>2. /\ n \in Nat /\ Len(gr) = n + 1 /\ gr[n + 1] = f
      /\ \A i \in 1..n : gr[i] = fr[i]
  BY <1>1
<1> HIDE DEF gr, n
<1>3. ASSUME NEW i \in 1..Len(gr)
      PROVE  PastDeclined(S, gr[i])
  <2>1. CASE i \in 1..n
    BY <1>2, <2>1 DEF Nests, n
  <2>2. CASE i = n + 1
    BY <1>1, <1>2, <2>2 DEF PastDeclined
  <2> QED
    BY <1>2, <2>1, <2>2
<1>4. ASSUME NEW i \in 0..Len(gr)
      PROVE  /\ Link(Wanted(S, x, gr, i), WantedPath(p, gr, i), Given(S, gr, NoAnswer, i), GivenPath(gr, q, i))
             /\ Given(S, gr, NoAnswer, i) # NoAnswer => Given(S, gr, NoAnswer, i) = x
  <2>1. CASE i = n + 1
    <3>1. /\ Given(S, gr, NoAnswer, i) = NoAnswer /\ GivenPath(gr, q, i) = q
          /\ Wanted(S, x, gr, i) = NoAnswer /\ WantedPath(p, gr, i) = q
      <4>1. i = Len(gr) /\ i # 0 /\ gr[i] = f
        BY <1>2, <2>1
      <4>2. Given(S, gr, NoAnswer, i) = NoAnswer /\ GivenPath(gr, q, i) = q
        BY <4>1 DEF Given, GivenPath
      <4>3. Wanted(S, x, gr, i) = NoAnswer /\ WantedPath(p, gr, i) = q
        BY <1>1, <4>1 DEF Wanted, WantedPath, Expected
      <4> QED
        BY <4>2, <4>3
    <3> QED
      BY <3>1 DEF Link
  <2>2. CASE i \in 0..n
    <3>1. /\ Link(Wanted(S, x, fr, i), WantedPath(p, fr, i), Given(S, fr, S[m][q], i), GivenPath(fr, q, i))
          /\ Given(S, fr, S[m][q], i) # NoAnswer => Given(S, fr, S[m][q], i) = x
      BY <2>2 DEF Nests, n
    <3>2. Wanted(S, x, gr, i) = Wanted(S, x, fr, i) /\ WantedPath(p, gr, i) = WantedPath(p, fr, i)
      <4>1. i = 0 \/ i \in 1..n
        BY <1>2, <2>2
      <4> QED
        BY <1>2, <4>1 DEF Wanted, WantedPath
    <3>3. Given(S, gr, NoAnswer, i) = Given(S, fr, S[m][q], i) /\ GivenPath(gr, q, i) = GivenPath(fr, q, i)
      <4>1. i # Len(gr) /\ (i # n => i + 1 \in 1..n)
        BY <1>2, <2>2
      <4>2. CASE i = n
        BY <1>1, <1>2, <4>1, <4>2 DEF Given, GivenPath, n
      <4>3. CASE i # n
        BY <1>2, <4>1, <4>3 DEF Given, GivenPath, n
      <4> QED
        BY <4>2, <4>3
    <3> QED
      BY <3>1, <3>2, <3>3
  <2> QED
    BY <1>2, <2>1, <2>2
<1>5. Nests(S, x, p, gr, NoAnswer, q)
  BY <1>3, <1>4 DEF Nests
<1> QED
  BY <1>5 DEF gr, f

\* Who is expected to answer is the one who does, and what declines has done so
\* at the path of its list, unless the walk is led astray.
LEMMA NestsTop ==
    ASSUME NEW S, NEW x, NEW p, NEW fr, CallsOfLists(fr), fr # <<>>, NEW q,
           ListsIn(S), Nests(S, x, p, fr, NoAnswer, q), x # Astray
    PROVE  LET f == fr[Len(fr)]
           IN  Expected(S, f) = NoAnswer /\ f.path = q
<1> DEFINE n == Len(fr)
           f == fr[n]
<1>1. n \in Nat \ {0} /\ n \in 1..n /\ n \in 0..n /\ n # 0 /\ f \in Frames
  BY DEF CallsOfLists
<1>2. f.list \in Modules /\ f.path \in Paths /\ f.item \in Nat
  BY <1>1 DEF Frames
<1> DEFINE items == Config[f.list].list
<1>3. items \in Seq(Modules) /\ DOMAIN items = 1..Len(items) /\ Len(items) \in Nat
  BY <1>2, ConfigFields
<1>4. Config[f.list].kind = "ModuleList" /\ f.item <= Len(items) /\ PastDeclined(S, f)
  BY <1>1 DEF CallsOfLists, Nests
<1>5. Link(Expected(S, f), f.path, NoAnswer, q)
  BY <1>1 DEF Nests, Wanted, WantedPath, Given, GivenPath
<1>6. ASSUME Expected(S, f) # NoAnswer
      PROVE  FALSE
  <2>1. f.item # 0 /\ Expected(S, f) = S[items[f.item]][f.path]
    BY <1>6 DEF Expected
  <2>2. f.item \in DOMAIN items
    BY <1>2, <1>3, <1>4, <2>1
  <2>3. \A j \in 1..(f.item - 1) : S[items[j]][f.path] = NoAnswer
    BY <1>4 DEF PastDeclined
  <2>4. S[f.list][f.path] = Expected(S, f)
    BY <1>2, <1>4, <1>6, <2>1, <2>2, <2>3 DEF ListsIn
  <2>5. Expected(S, f) = Astray
    BY <1>5, <1>6 DEF Link
  <2>6. n - 1 \in 0..Len(fr) /\ n - 1 # Len(fr) /\ (n - 1) + 1 = n
    BY <1>1
  <2>7. Given(S, fr, NoAnswer, n - 1) = S[f.list][f.path]
    BY <2>6 DEF Given
  <2>8. S[f.list][f.path] # NoAnswer => S[f.list][f.path] = x
    BY <2>6, <2>7 DEF Nests
  <2> QED
    BY <1>6, <2>4, <2>5, <2>8
<1>7. Astray # NoAnswer
  BY DEF Astray, NoAnswer
<1>8. f.path = q
  BY <1>5, <1>6, <1>7 DEF Link
<1> QED
  BY <1>6, <1>8

\* The next module of the list is what the list now waits for.
LEMMA NestsTry ==
    ASSUME NEW S, NEW x, NEW p, NEW fr, CallsOfLists(fr), fr # <<>>, NEW q,
           ListsIn(S), Nests(S, x, p, fr, NoAnswer, q), x # Astray,
           fr[Len(fr)].item < Len(Config[fr[Len(fr)].list].list)
    PROVE  LET f == fr[Len(fr)]
           IN  Nests(S, x, p, [fr EXCEPT ![Len(fr)].item = f.item + 1],
                     S[Config[f.list].list[f.item + 1]][q], q)
<1> DEFINE n == Len(fr)
           f == fr[n]
           h == [f EXCEPT !.item = f.item + 1]
           gr == [fr EXCEPT ![n].item = f.item + 1]
<1>1. n \in Nat \ {0} /\ n \in 1..n /\ f \in Frames /\ fr \in Seq(Frames)
  BY DEF CallsOfLists
<1>2. f.list \in Modules /\ f.path \in Paths /\ f.item \in Nat
  BY <1>1 DEF Frames
<1> DEFINE items == Config[f.list].list
           k == f.item + 1
           y == S[items[k]][q]
<1>3. items \in Seq(Modules) /\ DOMAIN items = 1..Len(items) /\ Len(items) \in Nat
  BY <1>2, ConfigFields
<1>4. /\ Config[f.list].kind = "ModuleList" /\ PastDeclined(S, f)
      /\ k \in DOMAIN items /\ k \in Nat \ {0}
  BY <1>1, <1>2, <1>3 DEF CallsOfLists, Nests
<1>5. Expected(S, f) = NoAnswer /\ f.path = q
  BY NestsTop
<1>6. h.list = f.list /\ h.path = f.path /\ h.item = k
  BY <1>1 DEF Frames
<1>7. /\ Len(gr) = n /\ gr[n] = h
      /\ \A i \in 1..n : i # n => gr[i] = fr[i]
  BY <1>1
<1>8. \A j \in 1..(k - 1) : S[items[j]][q] = NoAnswer
  <2> SUFFICES ASSUME NEW j \in 1..(k - 1) PROVE S[items[j]][q] = NoAnswer
    OBVIOUS
  <2>1. CASE j = f.item
    <3>1. f.item # 0
      BY <2>1
    <3> QED
      BY <1>5, <2>1, <3>1 DEF Expected
  <2>2. CASE j # f.item
    <3>1. j \in 1..(f.item - 1)
      BY <1>2, <2>2
    <3> QED
      BY <1>4, <1>5, <3>1 DEF PastDeclined
  <2> QED
    BY <2>1, <2>2
<1>9. PastDeclined(S, h)
  BY <1>5, <1>6, <1>8 DEF PastDeclined
<1>10. y # NoAnswer => S[f.list][f.path] = y
  BY <1>2, <1>4, <1>5, <1>8 DEF ListsIn
<1>11. S[f.list][f.path] # NoAnswer => S[f.list][f.path] = x
  <2>1. n - 1 \in 0..Len(fr) /\ n - 1 # Len(fr) /\ (n - 1) + 1 = n
    BY <1>1
  <2>2. Given(S, fr, NoAnswer, n - 1) = S[f.list][f.path]
    BY <2>1 DEF Given
  <2> QED
    BY <2>1, <2>2 DEF Nests
<1>12. Expected(S, h) = y
  BY <1>4, <1>5, <1>6 DEF Expected
<1> HIDE DEF gr, h, y, k
<1>13. ASSUME NEW i \in 1..Len(gr)
       PROVE  PastDeclined(S, gr[i])
  BY <1>7, <1>9 DEF Nests
<1>14. ASSUME NEW i \in 0..Len(gr)
       PROVE  /\ Link(Wanted(S, x, gr, i), WantedPath(p, gr, i), Given(S, gr, y, i), GivenPath(gr, q, i))
              /\ Given(S, gr, y, i) # NoAnswer => Given(S, gr, y, i) = x
  <2>1. CASE i = n
    <3>1. /\ Given(S, gr, y, i) = y /\ GivenPath(gr, q, i) = q
          /\ Wanted(S, x, gr, i) = y /\ WantedPath(p, gr, i) = q
      BY <1>1, <1>5, <1>6, <1>7, <1>12, <2>1 DEF Given, GivenPath, Wanted, WantedPath
    <3> QED
      BY <1>10, <1>11, <3>1 DEF Link
  <2>2. CASE i # n
    <3>1. i \in 0..n /\ i # n /\ i + 1 \in 1..n /\ (i = 0 \/ i \in 1..n)
      BY <1>1, <1>7, <2>2
    <3>2. gr[i + 1].list = fr[i + 1].list /\ gr[i + 1].path = fr[i + 1].path
      BY <1>6, <1>7, <3>1
    <3>3. /\ Given(S, gr, y, i) = Given(S, fr, NoAnswer, i)
          /\ GivenPath(gr, q, i) = GivenPath(fr, q, i)
      BY <1>7, <3>1, <3>2 DEF Given, GivenPath
    <3>4. Wanted(S, x, gr, i) = Wanted(S, x, fr, i) /\ WantedPath(p, gr, i) = WantedPath(p, fr, i)
      BY <1>7, <3>1 DEF Wanted, WantedPath
    <3> QED
      BY <3>1, <3>3, <3>4 DEF Nests
  <2> QED
    BY <2>1, <2>2
<1>15. Nests(S, x, p, gr, y, q)
  BY <1>13, <1>14 DEF Nests
<1> QED
  BY <1>15 DEF gr, y, k

\* A list whose modules have all declined declines.
LEMMA NestsLeave ==
    ASSUME NEW S, NEW x, NEW p, NEW fr, CallsOfLists(fr), fr # <<>>, NEW q,
           ListsIn(S), Nests(S, x, p, fr, NoAnswer, q), x # Astray,
           fr[Len(fr)].item >= Len(Config[fr[Len(fr)].list].list)
    PROVE  Nests(S, x, p, SubSeq(fr, 1, Len(fr) - 1), NoAnswer, q)
<1> DEFINE n == Len(fr)
           f == fr[n]
           gr == SubSeq(fr, 1, n - 1)
<1>1. n \in Nat \ {0} /\ n \in 1..n /\ f \in Frames /\ fr \in Seq(Frames)
  BY DEF CallsOfLists
<1>2. f.list \in Modules /\ f.path \in Paths /\ f.item \in Nat
  BY <1>1 DEF Frames
<1> DEFINE items == Config[f.list].list
<1>3. items \in Seq(Modules) /\ DOMAIN items = 1..Len(items) /\ Len(items) \in Nat
  BY <1>2, ConfigFields
<1>4. Config[f.list].kind = "ModuleList" /\ PastDeclined(S, f) /\ f.item = Len(items)
  BY <1>1, <1>2, <1>3 DEF CallsOfLists, Nests
<1>5. Expected(S, f) = NoAnswer /\ f.path = q
  BY NestsTop
<1>6. \A j \in DOMAIN items : S[items[j]][f.path] = NoAnswer
  <2> SUFFICES ASSUME NEW j \in 1..Len(items) PROVE S[items[j]][f.path] = NoAnswer
    BY <1>3
  <2>1. CASE j = f.item
    <3>1. f.item # 0
      BY <2>1
    <3> QED
      BY <1>5, <2>1, <3>1 DEF Expected
  <2>2. CASE j # f.item
    <3>1. j \in 1..(f.item - 1)
      BY <1>2, <1>3, <1>4, <2>2
    <3> QED
      BY <1>4, <3>1 DEF PastDeclined
  <2> QED
    BY <2>1, <2>2
<1>7. S[f.list][f.path] = NoAnswer
  BY <1>2, <1>4, <1>6 DEF ListsIn
<1>8. Len(gr) = n - 1 /\ \A i \in 1..(n - 1) : gr[i] = fr[i]
  <2> DEFINE k == n - 1
  <2>1. k \in Nat /\ k <= n /\ n = Len(fr) /\ n \in Nat
    BY <1>1
  <2> HIDE DEF k, n
  <2>2. Len(SubSeq(fr, 1, k)) = k
    BY <2>1
  <2>3. \A i \in 1..k : SubSeq(fr, 1, k)[i] = fr[i]
    BY <2>1
  <2> QED
    BY <2>2, <2>3 DEF k
<1> HIDE DEF gr
<1>9. ASSUME NEW i \in 1..Len(gr)
      PROVE  PastDeclined(S, gr[i])
  BY <1>1, <1>8 DEF Nests
<1>10. ASSUME NEW i \in 0..Len(gr)
       PROVE  /\ Link(Wanted(S, x, gr, i), WantedPath(p, gr, i), Given(S, gr, NoAnswer, i),
                      GivenPath(gr, q, i))
              /\ Given(S, gr, NoAnswer, i) # NoAnswer => Given(S, gr, NoAnswer, i) = x
  <2>1. /\ i \in 0..Len(fr) /\ i # Len(fr) /\ (i = 0 \/ i \in 1..(n - 1))
        /\ IF i = n - 1 THEN i = Len(gr) /\ i + 1 = n
           ELSE i # Len(gr) /\ i + 1 \in 1..(n - 1)
    BY <1>1, <1>8
  <2>2. Wanted(S, x, gr, i) = Wanted(S, x, fr, i) /\ WantedPath(p, gr, i) = WantedPath(p, fr, i)
    BY <1>8, <2>1 DEF Wanted, WantedPath
  <2>3. /\ Given(S, gr, NoAnswer, i) = Given(S, fr, NoAnswer, i)
        /\ GivenPath(gr, q, i) = GivenPath(fr, q, i)
    <3>1. CASE i = n - 1
      BY <1>5, <1>7, <2>1, <3>1 DEF Given, GivenPath
    <3>2. CASE i # n - 1
      BY <1>8, <2>1, <3>2 DEF Given, GivenPath
    <3> QED
      BY <3>1, <3>2
  <2> QED
    BY <2>1, <2>2, <2>3 DEF Nests
<1>11. Nests(S, x, p, gr, NoAnswer, q)
  BY <1>9, <1>10 DEF Nests
<1> QED
  BY <1>11 DEF gr

\* In the end the walk has what the nesting says.
LEMMA NestsEnd ==
    ASSUME NEW S, NEW x, NEW p, NEW fr \in Seq(Frames), NEW y, NEW q,
           Nests(S, x, p, fr, y, q), x # Astray
    PROVE  /\ y # NoAnswer => y = x
           /\ fr = <<>> /\ y = NoAnswer => x = NoAnswer
<1>1. Len(fr) \in Nat /\ Len(fr) \in 0..Len(fr)
  OBVIOUS
<1>2. y # NoAnswer => y = x
  BY <1>1 DEF Nests, Given
<1>3. ASSUME fr = <<>>, y = NoAnswer PROVE x = NoAnswer
  <2>1. Len(fr) = 0
    BY <1>3
  <2>2. Link(x, p, y, q)
    BY <1>1, <2>1 DEF Nests, Given, GivenPath, Wanted, WantedPath
  <2> QED
    BY <1>3, <2>2 DEF Link
<1> QED
  BY <1>2, <1>3

\* The error page, as an answer.
Page(m, status) == [by |-> m, status |-> status, body |-> "error page"]

\* What the nesting says of every module and path for this request, and of where
\* the walk is.
Said == [m \in Modules |-> [q \in Paths |-> Reference[<<m, q, asked, Get("Host-IP")>>]]]
Here == IF at = NULL THEN NoAnswer ELSE Said[at][request.path]
Behind(m, q) ==
    IF Config[m].nextModule = NULL THEN NoAnswer ELSE Said[Config[m].nextModule][q]

NestInv ==
    /\ Get("Server") = Empty
    /\ phase = "walking" /\ Straight =>
          Nests(Said, Nested, asked.path, frames, Here, request.path)
    /\ AsConfigured

LEMMA SaidIsMeant ==
    ASSUME GuardInv, count > 0, NEW m \in Modules, NEW q \in Paths
    PROVE  Said[m][q] = Meaning(Reference, m, q, asked, Get("Host-IP"))
<1>1. asked \in Asks /\ Get("Host-IP") \in {Empty, Address}
  BY DEF GuardInv, TypeOK, HeadersOK
<1>2. Said[m][q] = Reference[<<m, q, asked, Get("Host-IP")>>]
  BY DEF Said
<1> QED
  BY <1>1, <1>2, ReferenceAssumption

LEMMA SaidOfRoot ==
    ASSUME GuardInv, count > 0
    PROVE  Nested = Said[Root][asked.path] /\ asked.path \in Paths
<1>1. asked.path \in Paths /\ Root \in Modules
  BY AsksAssumption, TreeAssumption DEF GuardInv, TypeOK
<1> QED
  BY <1>1 DEF Nested, Said

LEMMA SaidOfLists ==
    ASSUME GuardInv, count > 0
    PROVE  ListsIn(Said)
<1> SUFFICES ASSUME NEW m \in Modules, NEW q \in Paths, Config[m].kind = "ModuleList"
             PROVE  /\ \A k \in DOMAIN Config[m].list :
                          /\ \A j \in 1..(k - 1) : Said[Config[m].list[j]][q] = NoAnswer
                          /\ Said[Config[m].list[k]][q] # NoAnswer
                          => Said[m][q] = Said[Config[m].list[k]][q]
                    /\ (\A k \in DOMAIN Config[m].list : Said[Config[m].list[k]][q] = NoAnswer)
                          => Said[m][q] = NoAnswer
  BY DEF ListsIn
<1> DEFINE items == Config[m].list
           first(i) == /\ Said[items[i]][q] # NoAnswer
                       /\ \A j \in 1..(i - 1) : Said[items[j]][q] = NoAnswer
<1>1. items \in Seq(Modules) /\ DOMAIN items = 1..Len(items) /\ Len(items) \in Nat
  BY ConfigFields
<1>2. \A i \in 1..Len(items) :
        Said[items[i]][q] = Reference[<<items[i], q, asked, Get("Host-IP")>>]
  BY <1>1 DEF Said
<1>3. Said[m][q] = Meaning(Reference, m, q, asked, Get("Host-IP"))
  BY SaidIsMeant
<1> DEFINE told(i) == Reference[<<items[i], q, asked, Get("Host-IP")>>]
           one(i) == /\ told(i) # NoAnswer
                     /\ \A j \in 1..(i - 1) : told(j) = NoAnswer
<1>4. Said[m][q] = IF \E i \in DOMAIN items : one(i)
                   THEN told(CHOOSE i \in DOMAIN items : one(i)) ELSE NoAnswer
  BY <1>3, Zenon DEF Meaning
<1>5. \A i \in DOMAIN items : told(i) = Said[items[i]][q]
  BY <1>1, <1>2
<1> HIDE DEF items, told
<1>6. ASSUME NEW k \in DOMAIN items, first(k)
      PROVE  Said[m][q] = Said[items[k]][q]
  <2>1. one(k)
    <3>1. \A j \in 1..(k - 1) : j \in DOMAIN items
      BY <1>1
    <3> QED
      BY <1>5, <1>6, <3>1
  <2> DEFINE c == CHOOSE i \in DOMAIN items : one(i)
  <2>2. c \in DOMAIN items /\ one(c)
    BY <2>1
  <2>3. Said[m][q] = told(c)
    BY <1>4, <2>1
  <2> HIDE DEF c
  <2>4. c = k
    <3>1. k \in Nat /\ c \in Nat /\ k > 0 /\ c > 0
      BY <1>1, <2>2
    <3>2. ~(c < k)
      <4> SUFFICES ASSUME c < k PROVE FALSE
        OBVIOUS
      <4>1. c \in 1..(k - 1)
        BY <3>1
      <4> QED
        BY <2>1, <2>2, <4>1
    <3>3. ~(k < c)
      <4> SUFFICES ASSUME k < c PROVE FALSE
        OBVIOUS
      <4>1. k \in 1..(c - 1)
        BY <3>1
      <4> QED
        BY <2>1, <2>2, <4>1
    <3> QED
      BY <3>1, <3>2, <3>3
  <2> QED
    BY <1>5, <2>3, <2>4
<1>7. ASSUME \A k \in DOMAIN items : Said[items[k]][q] = NoAnswer
      PROVE  Said[m][q] = NoAnswer
  BY <1>4, <1>5, <1>7
<1> QED
  BY <1>6, <1>7 DEF items

\* What is said of a module that is no list, in terms of what is behind it.
LEMMA SaidOfModule ==
    ASSUME GuardInv, count > 0, NEW m \in Modules, NEW q \in Paths
    PROVE  /\ Config[m].kind = "Path" =>
                Said[m][q] = IF Config[m].rest[q] = NoMatch \/ Config[m].nextModule = NULL
                             THEN NoAnswer
                             ELSE IF Behind(m, Config[m].rest[q]) = NoAnswer THEN Astray
                             ELSE Behind(m, Config[m].rest[q])
           /\ Config[m].kind = "Server" =>
                Said[m][q] = IF (asked.host \in Config[m].accepts) # (Empty \in Config[m].accepts)
                             THEN Astray
                             ELSE IF asked.host \in Config[m].accepts THEN Behind(m, q)
                             ELSE NoAnswer
           /\ Config[m].kind = "Allow" =>
                Said[m][q] = IF Get("Host-IP") \in Config[m].accepts THEN Behind(m, q)
                             ELSE NoAnswer
           /\ Config[m].kind = "AuthPAM" =>
                Said[m][q] = IF asked.authorization \in Config[m].accepts THEN Behind(m, q)
                             ELSE Page(m, 401)
           /\ Config[m].kind = "Stats" =>
                Said[m][q] = IF q \in Config[m].accepts THEN File(m, 200, "file")
                             ELSE Behind(m, q)
           /\ Config[m].kind \in Leaves => Said[m][q] = Produced(m, q)
<1> DEFINE told(p) == IF Config[m].nextModule = NULL THEN NoAnswer
                      ELSE Reference[<<Config[m].nextModule, p, asked, Get("Host-IP")>>]
<1>1. \A p \in Paths : told(p) = Behind(m, p)
  <2>1. Config[m].nextModule \in Modules \cup {NULL}
    BY ConfigFields
  <2> QED
    BY <2>1 DEF Behind, Said
<1>2. Said[m][q] = Meaning(Reference, m, q, asked, Get("Host-IP"))
  BY SaidIsMeant
<1> DEFINE rest == Config[m].rest[q]
<1>3. CASE Config[m].kind = "Path"
  <2>1. Said[m][q] = IF rest = NoMatch \/ Config[m].nextModule = NULL THEN NoAnswer
                     ELSE IF told(rest) = NoAnswer THEN Astray ELSE told(rest)
    BY <1>2, <1>3 DEF Meaning
  <2>2. rest \in Paths \cup {NoMatch}
    BY ConfigFields
  <2> QED
    BY <1>1, <1>3, <2>1, <2>2 DEF Leaves
<1>4. CASE Config[m].kind = "Server"
  <2>1. Said[m][q] = IF (asked.host \in Config[m].accepts) # (Empty \in Config[m].accepts)
                     THEN Astray
                     ELSE IF asked.host \in Config[m].accepts THEN told(q) ELSE NoAnswer
    BY <1>2, <1>4 DEF Meaning
  <2> QED
    BY <1>1, <1>4, <2>1 DEF Leaves
<1>5. CASE Config[m].kind = "Allow"
  <2>1. Said[m][q] = IF Get("Host-IP") \in Config[m].accepts THEN told(q) ELSE NoAnswer
    BY <1>2, <1>5 DEF Meaning
  <2> QED
    BY <1>1, <1>5, <2>1 DEF Leaves
<1>6. CASE Config[m].kind = "AuthPAM"
  <2>1. Said[m][q] = IF asked.authorization \in Config[m].accepts THEN told(q)
                     ELSE Page(m, 401)
    BY <1>2, <1>6 DEF Meaning, Page
  <2> QED
    BY <1>1, <1>6, <2>1 DEF Leaves
<1>7. CASE Config[m].kind = "Stats"
  <2>1. Said[m][q] = IF q \in Config[m].accepts THEN File(m, 200, "file") ELSE told(q)
    BY <1>2, <1>7 DEF Meaning
  <2> QED
    BY <1>1, <1>7, <2>1 DEF Leaves
<1>8. CASE Config[m].kind \in Leaves
  <2>1. Said[m][q] = Produced(m, q)
    BY <1>2, <1>8 DEF Meaning, Leaves
  <2> QED
    BY <1>8, <2>1 DEF Leaves
<1>9. CASE Config[m].kind = "ModuleList"
  BY <1>9 DEF Leaves
<1>10. Config[m].kind \in Kinds
  BY ConfigFields
<1> QED
  BY <1>3, <1>4, <1>5, <1>6, <1>7, <1>8, <1>9, <1>10 DEF Kinds

\* As long as the request says the same, so does the nesting.
LEMMA SaidStays ==
    ASSUME asked' = asked, request'.headers = request.headers
    PROVE  /\ Get("Host-IP")' = Get("Host-IP") /\ Get("Server")' = Get("Server")
           /\ Said' = Said /\ Nested' = Nested /\ (Straight' <=> Straight) /\ Meant' = Meant
<1>1. Get("Host-IP")' = Get("Host-IP") /\ Get("Server")' = Get("Server")
  BY DEF Get
<1>2. Said' = Said /\ Nested' = Nested
  BY <1>1 DEF Said, Nested
<1> QED
  BY <1>1, <1>2 DEF Straight, Meant

\* A module calls the next one, or declines.
LEMMA CallNests ==
    ASSUME GuardInv, NestInv, phase = "walking", at \in Modules, NEW passes, CallNext(passes),
           request'.headers = request.headers, request'.path \in Paths,
           LET y == Said[at][request.path]
               z == IF passes THEN Behind(at, request'.path) ELSE NoAnswer
           IN  y # Astray =>
                 Link(y, request.path, z, request'.path) /\ (z # NoAnswer => z = y)
    PROVE  NestInv'
<1> DEFINE y == Said[at][request.path]
           z == IF passes THEN Behind(at, request'.path) ELSE NoAnswer
<1>1. /\ phase' = "walking" /\ asked' = asked /\ frames' = frames
      /\ at' = IF passes THEN Config[at].nextModule ELSE NULL
  BY DEF CallNext
<1>2. /\ Get("Server")' = Get("Server") /\ Said' = Said /\ Nested' = Nested
      /\ (Straight' <=> Straight)
  BY <1>1, SaidStays
<1>3. Here = y /\ Here' = z
  BY <1>1, <1>2, NullAssumption DEF Here, Behind
<1>4. y # Astray => Link(y, request.path, z, request'.path) /\ (z # NoAnswer => z = y)
  OBVIOUS
<1> HIDE DEF y, z
<1>5. ASSUME Straight
      PROVE  Nests(Said, Nested, asked.path, frames, z, request'.path)
  <2>1. frames \in Seq(Frames) /\ Nested # Astray
    BY <1>5 DEF GuardInv, TypeOK, Straight
  <2>2. Nests(Said, Nested, asked.path, frames, y, request.path)
    BY <1>3, <1>5 DEF NestInv
  <2>3. y # Astray
    <3>1. Astray # NoAnswer
      BY DEF Astray, NoAnswer
    <3> QED
      BY <2>1, <2>2, <3>1, NestsEnd
  <2> QED
    BY <1>4, <2>1, <2>2, <2>3, NestsCall
<1>6. AsConfigured'
  BY <1>1 DEF AsConfigured
<1> QED
  BY <1>1, <1>2, <1>3, <1>5, <1>6 DEF NestInv

\* What is replied is what the nesting says.
LEMMA ReplyNests ==
    ASSUME GuardInv, NestInv, phase = "walking", NEW a, Reply(a), request' = request,
           \/ a = Here /\ a # NoAnswer
           \/ /\ Here = NoAnswer /\ frames = <<>>
              /\ a = Page(NULL, 500)
    PROVE  NestInv'
<1>1. phase' = "answered" /\ answer' = a /\ asked' = asked
  BY DEF Reply
<1>2. Get("Server")' = Get("Server") /\ (Straight' <=> Straight) /\ Meant' = Meant
  BY <1>1, SaidStays
<1>3. ASSUME Straight
      PROVE  a = Meant
  <2>1. frames \in Seq(Frames) /\ Nested # Astray
    BY <1>3 DEF GuardInv, TypeOK, Straight
  <2>2. Nests(Said, Nested, asked.path, frames, Here, request.path)
    BY <1>3 DEF NestInv
  <2>3. /\ Here # NoAnswer => Here = Nested
        /\ frames = <<>> /\ Here = NoAnswer => Nested = NoAnswer
    BY <2>1, <2>2, NestsEnd
  <2>4. CASE a = Here /\ a # NoAnswer
    <3>1. a = Nested /\ Nested # NoAnswer
      BY <2>3, <2>4, Zenon
    <3> QED
      BY <3>1, Zenon DEF Meant
  <2>5. CASE Here = NoAnswer /\ frames = <<>> /\ a = Page(NULL, 500)
    <3>1. Nested = NoAnswer
      BY <2>3, <2>5, Zenon
    <3>2. Meant = Page(NULL, 500)
      BY <3>1, Zenon DEF Meant, Page
    <3> QED
      BY <2>5, <3>2, Zenon
  <2> QED
    BY <2>4, <2>5, Zenon
<1>4. AsConfigured'
  BY <1>1, <1>2, <1>3 DEF AsConfigured
<1> QED
  BY <1>1, <1>2, <1>4 DEF NestInv

\* The walk goes on in the lists, with the same request.
LEMMA ListNests ==
    ASSUME GuardInv, NestInv, phase = "walking", phase' = phase, asked' = asked,
           request' = request,
           Straight => Nests(Said, Nested, asked.path, frames', Here', request.path)
    PROVE  NestInv'
<1>1. /\ Get("Server")' = Get("Server") /\ Said' = Said /\ Nested' = Nested
      /\ (Straight' <=> Straight)
  BY SaidStays
<1>2. AsConfigured'
  BY DEF AsConfigured
<1> QED
  BY <1>1, <1>2 DEF NestInv

LEMMA WalkIsInLists ==
    ASSUME GuardInv, phase = "walking"
    PROVE  /\ count > 0 /\ CallsOfLists(frames) /\ ListsIn(Said) /\ frames \in Seq(Frames)
           /\ request \in Requests /\ request.path \in Paths
<1>1. count > 0 /\ frames \in Seq(Frames) /\ request \in Requests /\ request.path \in Paths
  BY DEF GuardInv, TypeOK, WalkOK
<1>2. DOMAIN frames = 1..Len(frames)
  BY <1>1
<1>3. CallsOfLists(frames)
  BY <1>1, <1>2 DEF CallsOfLists, GuardInv, OnlyLists, TypeOK
<1> QED
  BY <1>1, <1>3, SaidOfLists

LEMMA WalkNests ==
    ASSUME GuardInv, NestInv, Walk
    PROVE  NestInv'
<1>0. phase = "walking"
  BY DEF Walk, EnterList, TryItem, LeaveList, NoModule, Path, Server, Allow, AuthPAM, Stats,
         Leaf, Processing, Walking
<1>1. /\ count > 0 /\ CallsOfLists(frames) /\ ListsIn(Said) /\ frames \in Seq(Frames)
      /\ request \in Requests /\ request.path \in Paths
  BY <1>0, WalkIsInLists
<1>2. at # NULL => at \in Modules
  BY DEF GuardInv, TypeOK
<1>3. at = NULL => Here = NoAnswer
  BY DEF Here
<1>4. at # NULL => Here = Said[at][request.path]
  BY DEF Here
<1>5. \A x, p : Link(x, p, x, p)
  BY DEF Link
<1>a. at \in Modules /\ Config[at].kind = "Path" =>
        Said[at][request.path] =
            IF Config[at].rest[request.path] = NoMatch \/ Config[at].nextModule = NULL
            THEN NoAnswer
            ELSE IF Behind(at, Config[at].rest[request.path]) = NoAnswer THEN Astray
            ELSE Behind(at, Config[at].rest[request.path])
  BY <1>1, SaidOfModule
<1>b. at \in Modules /\ Config[at].kind = "Server" =>
        Said[at][request.path] =
            IF (asked.host \in Config[at].accepts) # (Empty \in Config[at].accepts) THEN Astray
            ELSE IF asked.host \in Config[at].accepts THEN Behind(at, request.path)
            ELSE NoAnswer
  BY <1>1, SaidOfModule
<1>c. at \in Modules /\ Config[at].kind = "Allow" =>
        Said[at][request.path] =
            IF Get("Host-IP") \in Config[at].accepts THEN Behind(at, request.path) ELSE NoAnswer
  BY <1>1, SaidOfModule
<1>d. at \in Modules /\ Config[at].kind = "AuthPAM" =>
        Said[at][request.path] =
            IF asked.authorization \in Config[at].accepts THEN Behind(at, request.path)
            ELSE Page(at, 401)
  BY <1>1, SaidOfModule
<1>e. at \in Modules /\ Config[at].kind = "Stats" =>
        Said[at][request.path] =
            IF request.path \in Config[at].accepts THEN File(at, 200, "file")
            ELSE Behind(at, request.path)
  BY <1>1, SaidOfModule
<1>f. at \in Modules /\ Config[at].kind \in Leaves =>
        Said[at][request.path] = Produced(at, request.path)
  BY <1>1, SaidOfModule
<1>6. CASE EnterList
  <2>1. /\ at \in Modules /\ at # NULL /\ phase' = phase /\ asked' = asked /\ request' = request
        /\ frames' = Append(frames, [list |-> at, item |-> 0, path |-> request.path])
        /\ at' = NULL
    BY <1>2, <1>6 DEF EnterList, Processing
  <2>2. Here' = NoAnswer
    BY <2>1 DEF Here
  <2>3. Straight => Nests(Said, Nested, asked.path, frames', NoAnswer, request.path)
    <3> SUFFICES ASSUME Straight
                 PROVE  Nests(Said, Nested, asked.path, frames', NoAnswer, request.path)
      OBVIOUS
    <3>1. Nests(Said, Nested, asked.path, frames, Said[at][request.path], request.path)
      BY <1>0, <1>4, <2>1 DEF NestInv
    <3> QED
      BY <1>1, <2>1, <3>1, NestsEnter
  <2> QED
    BY <1>0, <2>1, <2>2, <2>3, ListNests
<1>7. CASE TryItem
  <2>1. /\ at = NULL /\ frames # <<>> /\ phase' = phase /\ asked' = asked /\ request' = request
        /\ Top.item < Len(Config[Top.list].list) /\ Top = frames[Len(frames)]
        /\ at' = Config[Top.list].list[Top.item + 1]
        /\ frames' = [frames EXCEPT ![Len(frames)].item = Top.item + 1]
    BY <1>7 DEF TryItem, Top
  <2>2. at' \in Modules
    <3>1. Top \in Frames
      BY <1>1, <2>1
    <3>2. Top.list \in Modules /\ Top.item \in Nat
      BY <3>1 DEF Frames
    <3>3. Config[Top.list].list \in Seq(Modules) /\ Top.item + 1 \in DOMAIN Config[Top.list].list
      BY <2>1, <3>2, ConfigFields
    <3> QED
      BY <2>1, <3>3
  <2>3. Here' = Said[at'][request.path]
    <3>1. Said' = Said
      BY <2>1, SaidStays
    <3> QED
      BY <2>1, <2>2, <3>1, NullAssumption DEF Here
  <2>4. Straight => Nests(Said, Nested, asked.path, frames', Here', request.path)
    <3> SUFFICES ASSUME Straight
                 PROVE  Nests(Said, Nested, asked.path, frames', Here', request.path)
      OBVIOUS
    <3>1. /\ Nests(Said, Nested, asked.path, frames, NoAnswer, request.path)
          /\ Nested # Astray
      BY <1>0, <1>3, <2>1 DEF NestInv, Straight
    <3> QED
      BY <1>1, <2>1, <2>3, <3>1, NestsTry
  <2> QED
    BY <1>0, <2>1, <2>4, ListNests
<1>8. CASE LeaveList
  <2>1. /\ at = NULL /\ frames # <<>> /\ phase' = phase /\ asked' = asked /\ request' = request
        /\ Top.item >= Len(Config[Top.list].list) /\ Top = frames[Len(frames)]
        /\ at' = at /\ frames' = SubSeq(frames, 1, Len(frames) - 1)
    BY <1>8 DEF LeaveList, Top
  <2>2. Here' = NoAnswer
    BY <2>1 DEF Here
  <2>3. Straight => Nests(Said, Nested, asked.path, frames', NoAnswer, request.path)
    <3> SUFFICES ASSUME Straight
                 PROVE  Nests(Said, Nested, asked.path, frames', NoAnswer, request.path)
      OBVIOUS
    <3>1. /\ Nests(Said, Nested, asked.path, frames, NoAnswer, request.path)
          /\ Nested # Astray
      BY <1>0, <1>3, <2>1 DEF NestInv, Straight
    <3> QED
      BY <1>1, <2>1, <3>1, NestsLeave
  <2> QED
    BY <1>0, <2>1, <2>2, <2>3, ListNests
<1>9. CASE NoModule
  BY <1>0, <1>3, <1>9, ReplyNests DEF NoModule, Page
<1>10. CASE Path
  <2> DEFINE rest == Config[at].rest[request.path]
             inside == rest # NoMatch /\ Config[at].nextModule # NULL
             y == Said[at][request.path]
             z == IF inside THEN Behind(at, request'.path) ELSE NoAnswer
  <2>1. /\ at \in Modules /\ Config[at].kind = "Path" /\ CallNext(inside)
        /\ request' = IF inside THEN [request EXCEPT !.path = rest] ELSE request
    BY <1>2, <1>10 DEF Path, Processing
  <2>2. rest \in Paths \cup {NoMatch}
    BY <1>1, <2>1, ConfigFields
  <2>3. /\ request'.headers = request.headers /\ request'.path \in Paths
        /\ request'.path = IF inside THEN rest ELSE request.path
    BY <1>1, <2>1, <2>2 DEF Requests
  <2>4. y = IF ~inside THEN NoAnswer
            ELSE IF Behind(at, rest) = NoAnswer THEN Astray ELSE Behind(at, rest)
    BY <1>a, <2>1
  <2> HIDE DEF inside, rest
  <2>5. y # Astray => Link(y, request.path, z, request'.path) /\ (z # NoAnswer => z = y)
    BY <2>3, <2>4 DEF Link
  <2> QED
    BY <1>0, <2>1, <2>3, <2>5, CallNests
<1>11. CASE Server
  <2> DEFINE passes == Get("Server") \in Config[at].accepts
             y == Said[at][request.path]
             z == IF passes THEN Behind(at, request'.path) ELSE NoAnswer
  <2>1. at \in Modules /\ Config[at].kind = "Server" /\ CallNext(passes) /\ request' = request
    BY <1>2, <1>11 DEF Server, Processing
  <2>2. passes <=> Empty \in Config[at].accepts
    BY DEF NestInv
  <2>3. y # Astray => z = y
    BY <1>b, <2>1, <2>2
  <2> HIDE DEF passes, y, z
  <2>4. y # Astray => Link(y, request.path, z, request'.path) /\ (z # NoAnswer => z = y)
    BY <1>5, <2>1, <2>3
  <2> QED
    BY <1>0, <1>1, <2>1, <2>4, CallNests DEF y, z
<1>12. CASE Allow
  <2> DEFINE passes == Get("Host-IP") \in Config[at].accepts
             y == Said[at][request.path]
             z == IF passes THEN Behind(at, request'.path) ELSE NoAnswer
  <2>1. at \in Modules /\ Config[at].kind = "Allow" /\ CallNext(passes) /\ request' = request
    BY <1>2, <1>12 DEF Allow, Processing
  <2>2. z = y
    BY <1>c, <2>1
  <2> HIDE DEF passes, y, z
  <2>3. y # Astray => Link(y, request.path, z, request'.path) /\ (z # NoAnswer => z = y)
    BY <1>5, <2>1, <2>2
  <2> QED
    BY <1>0, <1>1, <2>1, <2>3, CallNests DEF y, z
<1>13. CASE AuthPAM
  <2> DEFINE a == Page(at, 401)
  <2>1. /\ at \in Modules /\ at # NULL /\ Config[at].kind = "AuthPAM" /\ request' = request
        /\ IF asked.authorization \in Config[at].accepts THEN CallNext(TRUE) ELSE Reply(a)
    BY <1>0, <1>2, <1>13 DEF AuthPAM, Processing, GuardInv, HeadersOK, Page
  <2>2. CASE asked.authorization \in Config[at].accepts
    <3> DEFINE y == Said[at][request.path]
               z == IF TRUE THEN Behind(at, request'.path) ELSE NoAnswer
    <3>1. z = y
      BY <1>d, <2>1, <2>2
    <3> HIDE DEF y, z
    <3>2. y # Astray => Link(y, request.path, z, request'.path) /\ (z # NoAnswer => z = y)
      BY <1>5, <2>1, <3>1
    <3> QED
      BY <1>0, <1>1, <2>1, <2>2, <3>2, CallNests DEF y, z
  <2>3. CASE asked.authorization \notin Config[at].accepts
    <3>1. Here = a
      BY <1>d, <1>4, <2>1, <2>3
    <3>2. a # NoAnswer
      BY DEF NoAnswer, Page
    <3> QED
      BY <1>0, <2>1, <2>3, <3>1, <3>2, ReplyNests
  <2> QED
    BY <2>2, <2>3
<1>14. CASE Stats
  <2> DEFINE a == File(at, 200, "file")
  <2>1. /\ at \in Modules /\ at # NULL /\ Config[at].kind = "Stats" /\ request' = request
        /\ IF request.path \in Config[at].accepts THEN Reply(a) ELSE CallNext(TRUE)
    BY <1>2, <1>14 DEF Stats, Processing
  <2>2. CASE request.path \notin Config[at].accepts
    <3> DEFINE y == Said[at][request.path]
               z == IF TRUE THEN Behind(at, request'.path) ELSE NoAnswer
    <3>1. z = y
      BY <1>e, <2>1, <2>2
    <3> HIDE DEF y, z
    <3>2. y # Astray => Link(y, request.path, z, request'.path) /\ (z # NoAnswer => z = y)
      BY <1>5, <2>1, <3>1
    <3> QED
      BY <1>0, <1>1, <2>1, <2>2, <3>2, CallNests DEF y, z
  <2>3. CASE request.path \in Config[at].accepts
    <3>1. Here = a
      BY <1>e, <1>4, <2>1, <2>3
    <3>2. a # NoAnswer
      BY DEF NoAnswer, File
    <3> QED
      BY <1>0, <2>1, <2>3, <3>1, <3>2, ReplyNests
  <2> QED
    BY <2>2, <2>3
<1>15. CASE Leaf
  <2> DEFINE a == Produced(at, request.path)
  <2>1. /\ at \in Modules /\ at # NULL /\ Config[at].kind \in Leaves /\ request' = request
        /\ IF a # NoAnswer THEN Reply(a) ELSE CallNext(FALSE)
    BY <1>2, <1>15 DEF Leaf
  <2>2. Here = a /\ Said[at][request.path] = a
    BY <1>f, <1>4, <2>1
  <2> HIDE DEF a
  <2>3. CASE a # NoAnswer
    BY <1>0, <2>1, <2>2, <2>3, ReplyNests
  <2>4. CASE a = NoAnswer
    <3> DEFINE y == Said[at][request.path]
               z == IF FALSE THEN Behind(at, request'.path) ELSE NoAnswer
    <3>1. z = y
      BY <2>2, <2>4
    <3> HIDE DEF y, z
    <3>2. y # Astray => Link(y, request.path, z, request'.path) /\ (z # NoAnswer => z = y)
      BY <1>5, <2>1, <3>1
    <3> QED
      BY <1>0, <1>1, <2>1, <2>4, <3>2, CallNests DEF y, z
  <2> QED
    BY <2>3, <2>4
<1> QED
  BY <1>6, <1>7, <1>8, <1>9, <1>10, <1>11, <1>12, <1>13, <1>14, <1>15 DEF Walk

\* A request comes to the list that is the root with the path that was asked
\* for, and finds no "Server" (clean() leaves none, and no line sets one).
LEMMA ReceiveNests ==
    ASSUME GuardInv, GuardInv', NestInv, Receive
    PROVE  NestInv'
<1>1. PICK ask \in Asks :
        /\ asked' = ask
        /\ request' = [path |-> ask.path, headers |-> AddHeaders(request.headers, ask)]
  BY DEF Receive
<1>2. phase' = "walking" /\ at' = Root /\ frames' = <<>> /\ count' > 0
  BY DEF Receive, GuardInv, TypeOK
<1>3. request \in Requests
  BY DEF GuardInv, TypeOK
<1>4. Get("Server")' = Get("Server")
  BY <1>1, <1>3 DEF Get, AddHeaders, Keys, Requests
<1>5. request'.path = asked'.path
  BY <1>1
<1>6. Nested' = Said'[Root][asked'.path]
  <2>1. asked'.path \in Paths /\ Root \in Modules
    BY <1>1, AsksAssumption, TreeAssumption
  <2> QED
    BY <2>1 DEF Nested, Said
<1>7. Here' = Nested'
  BY <1>2, <1>5, <1>6, TreeAssumption, NullAssumption DEF Here
<1>8. Nests(Said', Nested', asked'.path, <<>>, Nested', asked'.path)
  BY DEF Nests, Wanted, WantedPath, Given, GivenPath, Link
<1>9. AsConfigured'
  BY <1>2 DEF AsConfigured
<1> QED
  BY <1>2, <1>4, <1>5, <1>7, <1>8, <1>9 DEF NestInv

LEMMA NextNests == GuardInv /\ NestInv /\ [Next]_vars => NestInv'
<1> SUFFICES ASSUME GuardInv, NestInv, [Next]_vars PROVE NestInv'
  OBVIOUS
<1>1. GuardInv'
  BY NextCleared
<1>2. CASE Receive
  BY <1>1, <1>2, ReceiveNests
<1>3. CASE Walk
  BY <1>3, WalkNests
<1>4. CASE KeepAlive
  <2>1. phase' = "header" /\ request' = Clean(request)
    BY <1>4 DEF KeepAlive
  <2>2. Get("Server")' = Empty
    <3>1. request \in Requests
      BY DEF GuardInv, TypeOK
    <3> QED
      BY <2>1, <3>1 DEF Get, Clean, NoHeaders, Keys, Requests
  <2>3. AsConfigured'
    BY <2>1 DEF AsConfigured
  <2> QED
    BY <2>1, <2>2, <2>3 DEF NestInv
<1>5. CASE Closed \/ UNCHANGED vars
  <2>1. /\ phase' = phase /\ asked' = asked /\ request' = request /\ at' = at
        /\ frames' = frames /\ answer' = answer
    BY <1>5 DEF Closed, vars
  <2>2. /\ Get("Server")' = Get("Server") /\ Said' = Said /\ Nested' = Nested
        /\ (Straight' <=> Straight) /\ Meant' = Meant
    BY <2>1, SaidStays
  <2>3. Here' = Here
    BY <2>1, <2>2 DEF Here
  <2>4. AsConfigured'
    BY <2>1, <2>2 DEF AsConfigured, NestInv
  <2> QED
    BY <2>1, <2>2, <2>3, <2>4 DEF NestInv
<1> QED
  BY <1>2, <1>3, <1>4, <1>5 DEF Next

LEMMA InitNests == Init => NestInv
  BY DEF Init, NestInv, AsConfigured, Get, NoHeaders, Keys

\* In every tree, and for every request of a connection, the walk with its stack
\* of lists and its changing request gives the answer that the nesting of the
\* configuration says, unless it is led astray (modulelist.cpp:38, path.cpp:39,
\* authpam.cpp:42).
THEOREM AlwaysAsConfigured == Spec => []AsConfigured
<1>1. NestInv => AsConfigured
  BY DEF NestInv
<1> QED
  BY <1>1, InitCleared, NextCleared, InitNests, NextNests, PTL DEF Spec
=============================================================================
