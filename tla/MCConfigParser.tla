--------------------------- MODULE MCConfigParser ---------------------------
(***************************************************************************)
(* Instances of ConfigParser for TLC: configurations, how they are         *)
(* written, and texts that are wrong in one place.                         *)
(***************************************************************************)
EXTENDS ConfigParser, SequencesExt

MCNames == {"fake", "Allow", "AuthPAM", "StaticFile", "Resources", "Stats", "Include",
            "ActivateModule", "JsonDirList", "DirList", "code", "unknown"}
MCStrings == {"x", "404", "nested"}
MCNumbers == {"404"}
MCPlugins == {"JsonDirList"}

\* A file whose chain ends in an ActivateModule, one with an error behind its
\* only module, and one that includes it.
MCFiles ==
    [f \in MCStrings |->
        CASE f = "x" -> <<"fake", "-", ">", "ActivateModule", ";">>
          [] f = "404" -> <<"Resources", ")">>
          [] f = "nested" -> <<"Include", "(", "404", ")", ";">>]

-----------------------------------------------------------------------------
(* A configuration is a sequence of rules, a rule a chain of modules with a *)
(* block of rules, or none, at its end.                                     *)

Atom(name, positional, named) ==
    [name |-> name, positional |-> positional, named |-> named]

Guard == Atom("Allow", <<"x">>, {})
Login == Atom("AuthPAM", <<"x", "x">>, {})
PathOf == Atom("[", <<"x">>, {})
Host == Atom("[[", <<"x">>, {})
Page == Atom("StaticFile", <<"x">>, {<<"code", "404">>})
Bare == Atom("Resources", <<>>, {})
Activation == Atom("ActivateModule", <<"x">>, {})
Listing == Atom("JsonDirList", <<"x">>, {})
Inclusion(files) == Atom("Include", files, {})

Rule(atoms) == [atoms |-> atoms, block |-> <<>>, open |-> FALSE]
RuleOf(atoms, block) == [atoms |-> atoms, block |-> block, open |-> TRUE]

Chains == {<<a>> : a \in {Page, Bare}}
          \cup {<<a, b>> : a \in {Guard, PathOf, Host}, b \in {Login, Page, Bare}}
Short == {Rule(<<Page>>), Rule(<<Guard, Bare>>)}
Blocks == {RuleOf(atoms, block) : atoms \in {<<>>, <<Guard>>, <<Host, PathOf>>},
                                  block \in SeqOf(Short, 2)}
Nested == {RuleOf(<<Guard>>, <<Rule(<<Bare>>), b, Rule(<<Page>>)>>) :
              b \in Blocks}

\* The configuration of test/example.config.
Example == <<Rule(<<PathOf, Bare>>),
             RuleOf(<<Host>>, <<Rule(<<PathOf, Login, Listing>>), Rule(<<Page>>)>>)>>

Written ==
    {<<Rule(c)>> : c \in Chains} \cup {<<b>> : b \in Blocks \cup Nested}
    \cup {<<b, Rule(<<Login>>)>> : b \in Blocks}
    \cup {<<Rule(<<Activation>>)>> \o Example, <<>>}

-----------------------------------------------------------------------------
(* How it is written *)

Joined(seqs, glue) ==
    FoldLeft(LAMBDA text, s : IF text = <<>> THEN s ELSE text \o glue \o s, <<>>, seqs)

Parameters(a) ==
    Joined([i \in DOMAIN a.positional |-> <<a.positional[i]>>]
             \o SetToSeq({<<p[1], "=", p[2]>> : p \in a.named}), <<",">>)

AtomText(a) ==
    CASE a.name = "[" -> <<"[", a.positional[1], "]">>
      [] a.name = "[[" -> <<"[", "[", a.positional[1], "]", "]">>
      [] a.name = "Resources" -> <<"Resources">>
      [] OTHER -> <<a.name, "(">> \o Parameters(a) \o <<")">>

RECURSIVE AsText(_)
AsText(config) ==
    LET rule(r) ==
            Joined([i \in DOMAIN r.atoms |-> AtomText(r.atoms[i])]
                     \o (IF r.open THEN << <<"{">> \o AsText(r.block) \o <<"}">> >>
                         ELSE <<>>), <<"-", ">">>) \o <<";">>
    IN  FlattenSeq([i \in DOMAIN config |-> rule(config[i])])

\* One token left out, another in its place, or one more.
Wrong(text) ==
    {RemoveAt(text, i) : i \in DOMAIN text}
    \cup {ReplaceAt(text, i, t) : i \in DOMAIN text, t \in InputTokens \ {"nested"}}
    \cup {InsertAt(text, i, t) : i \in 1..(Len(text) + 1), t \in InputTokens \ {"nested"}}

Damaged == UNION {Wrong(AsText(config)) :
    config \in {<<RuleOf(<<Guard>>, <<Rule(<<Page>>)>>), Rule(<<Bare>>)>>,
                <<Rule(<<Host, Login>>), Rule(<<PathOf, Bare>>)>>,
                <<RuleOf(<<>>, <<RuleOf(<<PathOf>>, <<>>)>>),
                  Rule(<<Atom("Stats", <<"x">>, {})>>)>>,
                <<Rule(<<Activation>>), Rule(<<Listing>>),
                  Rule(<<Inclusion(<<"x">>)>>)>>}}

\* Configurations with an Include, and what they meet when it is done.
Including ==
    {<<Rule(<<Inclusion(files)>>)>> \o rest :
        files \in {<<>>, <<"x">>, <<"404", "x">>, <<"nested">>},
        rest \in {<<>>, <<Rule(<<Activation>>)>>, <<Rule(<<Guard, Inclusion(<<"x">>)>>)>>}}
IncludeInputs == {AsText(config) : config \in Including}

WrittenTexts == {<<config, AsText(config)>> : config \in Written}
MCInputs == {w[2] : w \in WrittenTexts} \cup IncludeInputs \cup Damaged

-----------------------------------------------------------------------------
\* The tree of a module, and the one that a configuration says.
RECURSIVE TreeOf(_)
TreeOf(m) ==
    IF m = NULL THEN <<>>
    ELSE <<[name |-> built[m].name, positional |-> built[m].positional,
            named |-> built[m].named, next |-> TreeOf(built[m].next),
            list |-> [i \in DOMAIN built[m].list |-> TreeOf(built[m].list[i])]]>>

RECURSIVE Meaning(_), ListMeaning(_)
ListMeaning(config) ==
    LET rules == SelectSeq(config, LAMBDA r : r.atoms # <<Activation>>)
    IN  <<[name |-> "ModuleList", positional |-> <<>>, named |-> {}, next |-> <<>>,
           list |-> [i \in DOMAIN rules |-> Meaning(rules[i])]]>>
Meaning(r) ==
    IF r.atoms = <<>> THEN (IF r.open THEN ListMeaning(r.block) ELSE <<>>)
    ELSE <<[name |-> Head(r.atoms).name, positional |-> Head(r.atoms).positional,
            named |-> Head(r.atoms).named, list |-> <<>>,
            next |-> Meaning([r EXCEPT !.atoms = Tail(@)])]>>

\* A configuration that is written as test/example.config is gives, without an
\* error, the modules it says with their parameters and in their nesting, if
\* the file can be opened, so that a list is made, and the libraries that it
\* activates be loaded (configparser.cpp:222, configparser.cpp:300).
BuildsWritten ==
    (Finished /\ Len(built) > 1) => \A w \in WrittenTexts :
        (/\ w[2] = input
         /\ "ActivateModule" \in ToSet(input) => Plugins \subseteq registered)
            => ~reader.hasErrors /\ TreeOf(returned) = ListMeaning(w[1])
=============================================================================
