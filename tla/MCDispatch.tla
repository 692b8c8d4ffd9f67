----------------------------- MODULE MCDispatch -----------------------------
(***************************************************************************)
(* An instance of Dispatch for TLC: the tree that a configuration          *)
(* describes, and what it is meant to answer.                              *)
(***************************************************************************)
EXTENDS Dispatch

\* The path "a/b" is what '^/a/' takes the first part of; nothing is at "e".
MCPaths == {"", "a", "a/b", "b", "c", "d", "d/b", "e"}

\* ['^/part/'], and an expression that matches nothing.
After(part) ==
    [p \in MCPaths |-> CASE p = part -> ""
                         [] <<p, part>> \in {<<"a/b", "a">>, <<"d/b", "d">>} -> "b"
                         [] OTHER -> "none"]
Nowhere == [p \in MCPaths |-> "none"]

All(content) == [p \in MCPaths |-> content]
Holding(files) == [p \in MCPaths |-> IF p \in files THEN "file" ELSE "absent"]

Module(kind, next) ==
    [kind |-> kind, nextModule |-> next, list |-> <<>>, accepts |-> {},
     rest |-> Nowhere, content |-> All("absent"), code |-> 200]

List(list) == [Module("ModuleList", "NULL") EXCEPT !.list = list]
PathTo(part, next) == [Module("Path", next) EXCEPT !.rest = After(part)]
Guard(kind, accepts, next) == [Module(kind, next) EXCEPT !.accepts = accepts]
Leafs(kind, content) == [Module(kind, "NULL") EXCEPT !.content = content]

\* A chain that ends in a module which answers, and the example of README.md,
\* whose inner chain ends in one that may not:
\* ['^/c/']; ['^/a/'] -> Stats('') -> StaticFile(code=404);
\* [['.*']] -> { Allow -> AuthPAM -> { Stats; ['^/d/'] -> ['^/b/'] -> Proxy;
\*                                     Resources; DirList; };
\*               {}; JsonDirList; Directory; };
MCTree ==
    [root |-> List(<<"alone", "patha", "server">>),
     alone |-> PathTo("c", "NULL"),
     patha |-> PathTo("a", "here"),
     here |-> Guard("Stats", {""}, "static"),
     static |-> [Leafs("StaticFile", Holding({"b"})) EXCEPT !.code = 404],
     server |-> Guard("Server", {"", "here", "there"}, "block"),
     block |-> List(<<"allow", "empty", "json", "directory">>),
     allow |-> Guard("Allow", {"127.0.0.1"}, "login"),
     login |-> Guard("AuthPAM", {"good"}, "inner"),
     inner |-> List(<<"stats", "pathd", "resources", "dirlist">>),
     stats |-> Guard("Stats", {"c"}, "NULL"),
     pathd |-> PathTo("d", "pathb"),
     pathb |-> PathTo("b", "proxy"),
     proxy |-> Leafs("Proxy", All("absent")),
     resources |-> Leafs("Resources", Holding({""})),
     dirlist |-> Leafs("DirList", [All("absent") EXCEPT !["b"] = "unreadable"]),
     empty |-> List(<<>>),
     json |-> Leafs("JsonDirList", [All("outside") EXCEPT !["d"] = "file"]),
     directory |-> Leafs("Directory", [All("outside") EXCEPT !["c"] = "absent",
                                                             !["d/b"] = "file"])]

MCModules == DOMAIN MCTree

MCTexts == {"127.0.0.1", "here", "there", "good", "bad"}
MCAsks == [path : MCPaths, host : {"", "here"}, authorization : {"", "good", "bad"}]

-----------------------------------------------------------------------------
\* What the documentation says of the modules, from the leaves up.
MCReference[m \in MCModules, path \in MCPaths, ask \in MCAsks,
            address \in {"", "127.0.0.1"}] ==
    Meaning(MCReference, m, path, ask, address)
=============================================================================
