----------------------------- MODULE MCListing -----------------------------
(***************************************************************************)
(* Instances of Listing for TLC: names of every kind, alone and in         *)
(* directories, and names that differ in what the codec writes.            *)
(***************************************************************************)
EXTENDS Listing, SequencesExt

MCLines == <<[type |-> "text/x", exts |-> <<<<"x">>, <<"X", "5">>>>],
             [type |-> "none", exts |-> <<>>],
             [type |-> "image/x", exts |-> <<<<"5">>, <<"X">>>>]>>

\* A directory at base with a directory of one file, and files beside it.
File(name) == [name |-> name, isDir |-> FALSE]
Site(base, dir, inside, beside) ==
    [base |-> base,
     entries |-> (<<>> :> <<[name |-> dir, isDir |-> TRUE]>> \o beside)
                 @@ (dir \o <<"/">> :> <<File(inside)>>)]

Plain == <<"x", "/">>
Dotted == <<"x", ".", "x", "/">>

\* Two directories side by side: the link of the first leads to the other one,
\* whose page then has an address without its name.
Beside(name) ==
    LET dirs == <<<<"x", "?">>, <<"x">>>>
    IN  [base |-> Plain,
         entries |-> [d \in {<<>>} \cup {dirs[i] \o <<"/">> : i \in DOMAIN dirs} |->
                         IF d = <<>> THEN [i \in DOMAIN dirs |-> [name |-> dirs[i], isDir |-> TRUE]]
                         ELSE <<File(name)>>]]

\* The names up to three characters, but for dots alone.
Kinds == {"%", "space", "eacute", "?", "2", "0", ".", "x"}
Short == {n \in SeqOf(Kinds, 3) : \E i \in DOMAIN n : n[i] # "."}
Dirs == {<<"x">>, <<"space">>, <<"%">>, <<"eacute">>, <<"%", "2">>, <<"x", ".", "x">>, <<"x", "?">>}

\* Names with more than one escape or more than one dot.
Long == {<<"%", "2", "5", "%">>, <<"space", "space", "eacute", "eacute">>, <<"eacute", "space", "eacute", "space">>,
         <<"%", "space", "eacute", "space">>, <<"%", "2", "0", "space">>, <<"euro", "space">>, <<"x", ".", "X", "5">>,
         <<"x", ".", "x", ".", "X">>, <<"0", ".", "X">>}

\* Names that look like an escape, beside what is written with one.
Literal == {<<"%", "2", "0">>, <<"%", "2", "5">>, <<"%", "C", "3">>, <<"%", "A", "9">>, <<"%", "8", "2">>}
Looking == {a \o b \o c : a \in {<<>>, <<"eacute">>, <<"space">>}, b \in Literal,
                          c \in {<<>>, <<"x">>, <<"%">>, <<"eacute">>, <<"space", "%">>, <<"%", "A", "9">>}}

\* Names that are what others are written as.
Alike == {<<"space">>, <<"%", "2", "0">>, <<"%", "2", "5", "2", "0">>, <<"%">>, <<"%", "2", "5">>}

MCSites ==
    {Site(Plain, dir, name, <<>>) : dir \in Dirs, name \in Short \cup Long}
    \cup {Site(Plain, <<"x">>, name, <<>>) : name \in Looking}
    \cup {Site(base, <<"x">>, <<"x", ".", "X">>, <<File(a), File(b)>>) :
            base \in {Plain, Dotted}, a \in Alike \cup {<<"x", ".", "x">>}, b \in Long}
    \cup {Site(Plain, <<"0">>, <<"x">>, <<File(p[1]), File(p[2])>>) : p \in {q \in Alike \X Alike : q[1] # q[2]}}
    \cup {Beside(name) : name \in Alike \cup Long}
=============================================================================
