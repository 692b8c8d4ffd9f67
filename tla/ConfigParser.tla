---------------------------- MODULE ConfigParser ----------------------------
(***************************************************************************)
(* The parser of the configuration (src/src/configparser.cpp), from tokens *)
(* to a tree of modules, and the constructors it calls                     *)
(* (src/src/modulefactory.cpp, src/src/modules/).                          *)
(*                                                                         *)
(* The functions call each other: pc is the function under way, stack the  *)
(* calls that wait for one to return, and returned what it returns.  A     *)
(* step is what a function does between two calls, reading some tokens.    *)
(*                                                                         *)
(* An Include reads other files, each with a parser of its own, which      *)
(* deletes what it has built when it is done.                              *)
(*                                                                         *)
(* Blanks and proper comments are left out of the text, and the last       *)
(* character of a file is taken to be none of an identifier.  Where a step *)
(* reads several tokens, each reading is a quantifier over one value, which *)
(* TLC computes once.                                                      *)
(***************************************************************************)
EXTENDS Integers, Sequences, FiniteSetsExt

CONSTANTS
    Inputs,         \* the texts to parse, as sequences of tokens
    Names,          \* identifiers
    Strings,        \* strings, without their quotes
    Numbers,        \* the strings that are numbers
    Files,          \* the texts of the files that an Include may name
    Plugins         \* modules that the libraries of ActivateModule register

\* A string that nobody ends, and a slash that begins no comment.
OpenString == "open string"
BadComment == "bad comment"

\* Single characters; 0 is any digit.
Chars == {"{", "}", "[", "]", "(", ")", ",", "=", ";", "-", ">", "#", "0"}
InputTokens == Names \cup Strings \cup Chars \cup {OpenString, BadComment}
Tokens == InputTokens \cup {"UNKNOWN", "END_OF_FILE"}

ASSUME InputAssumption == Inputs \subseteq Seq(InputTokens)
ASSUME FileAssumption ==
    /\ DOMAIN Files \subseteq Strings
    /\ \A f \in DOMAIN Files : Files[f] \in Seq(InputTokens)
ASSUME NumberAssumption == Numbers \subseteq Strings
ASSUME PluginAssumption == Plugins \subseteq Names /\ Plugins # {}
ASSUME NameAssumption ==
    /\ {"fake", "ActivateModule", "Stats", "code"} \subseteq Names
    /\ Names \cap Strings = {}
    /\ (Names \cup Strings)
         \cap (Chars \cup {OpenString, BadComment, "UNKNOWN", "END_OF_FILE", ""}) = {}

VARIABLES
    input,          \* the text of the configuration
    reader,         \* the parser under way: its text, place in it, last token,
                    \* hasErrors, no NULL returned yet
    pc,             \* the function under way
    stack,          \* the calls that wait
    params,         \* name and parameters of the module being read
    built,          \* all modules made, the first is Module::null
    deleted,        \* the modules that have been deleted
    registered,     \* names that the factory knows
    returned        \* what the last function has returned

vars == <<input, reader, pc, stack, params, built, deleted, registered,
          returned>>

NULL == 0
NullModule == 1

-----------------------------------------------------------------------------
(* Reading tokens *)

Type(t) ==
    CASE t \in Names -> "IDENTIFIER"
      [] t \in Strings \cup {OpenString} -> "STRING"
      [] OTHER -> t

\* r: other tokens have no text.
Text(t) == IF t \in Names \cup Strings THEN t ELSE ""

\* Behind the token at i: a string without an end takes all there is.
Behind(text, i) == IF text[i] = OpenString THEN Len(text) + 1 ELSE i + 1

\* The token that the error of a bad comment reads on behind it: the first
\* that is no bad comment.
BehindComment(text, i) ==
    LET good == {j \in (i + 1)..Len(text) : text[j] # BadComment}
    IN  IF good = {} THEN Len(text) + 1 ELSE Behind(text, Min(good))

ReadToken(s) ==
    IF s.pos > Len(s.text) THEN [s EXCEPT !.t = "END_OF_FILE"]
    ELSE IF s.text[s.pos] = BadComment
    THEN [s EXCEPT !.pos = BehindComment(s.text, s.pos), !.t = "UNKNOWN",
                   !.hasErrors = TRUE]
    ELSE [s EXCEPT !.pos = Behind(s.text, s.pos), !.t = s.text[s.pos],
                   !.hasErrors = @ \/ s.text[s.pos] = OpenString]

\* Mutant of PrintError: the error is not noted.
PrintErrorQuietly(s) == ReadToken(s)

\* It reads a token on.
PrintError(s) == ReadToken([s EXCEPT !.hasErrors = TRUE])

\* The macros READ_TOKEN, EXPECT and NEED: ok is FALSE once one has returned.
Read(s) ==
    IF ~s.ok THEN s
    ELSE LET next == ReadToken(s) IN [next EXCEPT !.ok = next.t # "UNKNOWN"]
Expect(s, type) ==
    IF ~s.ok \/ Type(s.t) = type THEN s ELSE [PrintError(s) EXCEPT !.ok = FALSE]
Need(s, type) == Expect(Read(s), type)

\* A parser at the beginning of a text, which it may fail to open.
NewReader(text, open) ==
    [text |-> text, open |-> open, pos |-> 1, t |-> "UNKNOWN",
     hasErrors |-> FALSE, ok |-> TRUE]

\* The caller of a function that may have returned goes on reading.
Resume(s) == [s EXCEPT !.ok = TRUE]

-----------------------------------------------------------------------------
(* Modules *)

Texts == Strings \cup Names \cup {""}
Params == [name : Names \cup {""}, at : Nat, positional : Seq(Texts),
           named : SUBSET (Names \X Texts)]
NoParams == [name |-> "", at |-> 0, positional |-> <<>>, named |-> {}]

\* A module: what it was made from, the place of that in the configuration (0 in
\* a file that an Include reads), and what setNextModule and append have given
\* to it.
Modules == [name : Names \cup {"", "[", "[[", "ModuleList", "NULL"}, at : Nat,
            positional : Seq(Texts), named : SUBSET (Names \X Texts),
            next : Nat, list : Seq(Nat)]

New(name, p) == [name |-> name, at |-> p.at, positional |-> p.positional,
                 named |-> p.named, next |-> NULL, list |-> <<>>]

\* The names that the factory knows from the start.
Defaults == {"fake", "Include", "StaticFile", "Directory", "ActivateModule",
             "Stats", "DirList", "Allow", "Resources", "AuthPAM", "Proxy"}

\* The parameters that constructors take: one, none, two, one with a code.
TakesOne(p) == Len(p.positional) = 1 /\ p.named = {}
TakesNone(p) == p.positional = <<>> /\ p.named = {}
TakesTwo(p) == Len(p.positional) = 2 /\ p.named = {}
TakesCode(p) ==
    /\ Len(p.positional) = 1
    /\ \/ p.named = {}
       \/ \E v \in Numbers : p.named = {<<"code", v>>}

\* Does the constructor of the module give one?
Takes(p) ==
    CASE p.name \in {"fake", "Stats"} -> TRUE
      [] p.name = "AuthPAM" -> TakesTwo(p)
      [] p.name = "Resources" -> TakesNone(p)
      [] p.name = "StaticFile" -> TakesCode(p)
      [] OTHER -> TakesOne(p)

\* What m holds, and with it all that its destructor deletes.
Held(m) == {k \in DOMAIN built : built[m].next = k
                \/ \E i \in DOMAIN built[m].list : built[m].list[i] = k}
Under(m) ==
    LET reach[n \in Nat] ==
            IF n = 0 THEN {m}
            ELSE LET nearer == reach[n - 1] IN nearer \cup UNION {Held(k) : k \in nearer}
    IN  reach[Len(built)] \cap DOMAIN built

\* The places that hold a module, each of which deletes it in the end.
Owners(m) == UNION {({0} \X {i \in {k} : built[k].next = m})
                    \cup ({k} \X {i \in DOMAIN built[k].list : built[k].list[i] = m})
                    : k \in DOMAIN built}

\* To delete m deletes no module twice: none is gone, and each is held once.
Deletable(m) ==
    /\ Under(m) \cap deleted = {}
    /\ \A k \in Under(m) : Cardinality({n \in Under(m) : k \in Held(n)}) = IF k = m THEN 0 ELSE 1

-----------------------------------------------------------------------------
(* Calls and returns *)

Readers == [text : Seq(InputTokens), open : BOOLEAN, pos : Nat, t : Tokens,
            hasErrors : BOOLEAN, ok : {TRUE}]

\* getModuleList with its list, getModule at a block, getModule with the module
\* whose next one it waits for, and includeConstructor with its list, the files
\* to come, its error and the parser that has called it.
Frames == [fn : {"list", "block", "chain"}, me : Nat]
          \cup [fn : {"include"}, me : Nat, files : Seq(Texts), error : BOOLEAN,
                reader : Readers]

Top == stack[Len(stack)]
Pop == SubSeq(stack, 1, Len(stack) - 1)

\* The place of the last token in the configuration.
Place == IF \E i \in DOMAIN stack : stack[i].fn = "include" THEN 0
         ELSE reader.pos - 1

Return(m) == pc' = "return" /\ returned' = m

\* A new list is made, and the list at me is filled.
FillList(me, frames) ==
    /\ pc' = "getModuleList"
    /\ built' = Append(built, New("ModuleList", NoParams))
    /\ stack' = Append(frames, [fn |-> "list", me |-> me])

\* Mutant of CallModuleList: what is filled is the module before the new list.
CallOfListBefore(frames) == FillList(Len(built), frames)

CallModuleList(frames) == FillList(Len(built) + 1, frames)

\* me is there, and its chain goes on.
CallNextModule(me, frames) ==
    /\ pc' = "getNextModule"
    /\ stack' = Append(frames, [fn |-> "chain", me |-> me])

-----------------------------------------------------------------------------
\* The file cannot be opened.
CannotOpen ==
    /\ pc = "getRoot"
    /\ ~reader.open
    /\ reader' = PrintError([reader EXCEPT !.pos = Len(reader.text) + 1])
    /\ Return(NULL)
    /\ UNCHANGED <<input, stack, params, built, deleted, registered>>

GetRoot ==
    /\ pc = "getRoot"
    /\ reader.open
    /\ reader' = Resume(Read(reader))
    /\ IF Read(reader).ok THEN CallModuleList(stack) /\ UNCHANGED returned
       ELSE Return(NULL) /\ UNCHANGED <<stack, built>>
    /\ UNCHANGED <<input, params, deleted, registered>>

\* The loop of getModuleList: at the end of a block or of the file, or a module.
GetModuleList ==
    /\ pc = "getModuleList"
    /\ IF reader.t \in {"}", "END_OF_FILE"}
       THEN Return(Top.me) /\ stack' = Pop
       ELSE pc' = "getModule" /\ UNCHANGED <<stack, returned>>
    /\ UNCHANGED <<input, reader, params, built, deleted, registered>>

\* A module has been read; Module::null is none.
ListPuts(list) ==
    /\ pc = "return" /\ stack # <<>> /\ Top.fn = "list" /\ returned # NULL
    /\ pc' = "getModuleList"
    /\ built' = IF returned = NullModule THEN built ELSE [built EXCEPT ![Top.me].list = list]
    /\ UNCHANGED <<input, reader, stack, params, deleted, registered, returned>>

\* Mutant of ListTakes: the module is put before the others.
ListPrepends == ListPuts(<<returned>> \o built[Top.me].list)

ListTakes == ListPuts(Append(built[Top.me].list, returned))

\* A module could not be read: the list is given up.
DropList ==
    /\ pc = "return" /\ stack # <<>> /\ Top.fn = "list" /\ returned = NULL
    /\ stack' = Pop
    /\ UNCHANGED <<input, reader, pc, params, built, deleted, registered, returned>>

\* getModule at a name: parameters may follow.
Identifier ==
    /\ pc = "getModule"
    /\ Type(reader.t) = "IDENTIFIER"
    /\ params' = [NoParams EXCEPT !.name = reader.t, !.at = Place]
    /\ reader' = Resume(Read(reader))
    /\ IF ~Read(reader).ok THEN Return(NULL)
       ELSE /\ pc' = IF reader'.t \in {"(", "["} THEN "parameters" ELSE "construct"
            /\ UNCHANGED returned
    /\ UNCHANGED <<input, stack, built, deleted, registered>>

\* readParameters has returned: getModule reads the token behind the one that
\* ended it, whatever that was.
EndParameters(s) ==
    \E behind \in {Read(Resume(s))} :
        /\ reader' = Resume(behind)
        /\ IF behind.ok THEN pc' = "construct" /\ UNCHANGED returned
           ELSE Return(NULL)

\* A positional parameter has been read, and then the token behind it.
TakePositional(s) ==
    /\ params' = [params EXCEPT !.positional = Append(@, Text(s.t))]
    /\ \E behind \in {Read(s)} :
         IF behind.ok
         THEN reader' = behind /\ pc' = "positional" /\ UNCHANGED returned
         ELSE EndParameters(behind)

\* The loop of named parameters begins.
CallNamed(s) ==
    reader' = s /\ pc' = "named" /\ UNCHANGED <<params, returned>>

\* The first parameter.
ReadParameters ==
    /\ pc = "parameters"
    /\ \E s \in {Read(reader)} :
         CASE Type(s.t) = "STRING" -> TakePositional(s)
           [] Type(s.t) = "IDENTIFIER" -> CallNamed(s)
           [] OTHER -> EndParameters(s) /\ UNCHANGED params
    /\ UNCHANGED <<input, stack, built, deleted, registered>>

\* Mutant of Positional: only a closing parenthesis ends the parameters.
PositionalToParenthesis ==
    /\ pc = "positional"
    /\ IF reader.t = ")" THEN EndParameters(reader) /\ UNCHANGED params
       ELSE /\ reader' = Resume(Read(reader))
            /\ params' = IF Type(reader.t) = "STRING"
                         THEN [params EXCEPT !.positional = Append(@, Text(reader.t))]
                         ELSE params
            /\ UNCHANGED <<pc, returned>>
    /\ UNCHANGED <<input, stack, built, deleted, registered>>

\* A turn of the loop of positional parameters, which a parenthesis or a name
\* behind a comma ends too.
Positional ==
    /\ pc = "positional"
    /\ \E s \in {IF reader.t = "," THEN Read(reader) ELSE reader} :
         CASE Type(s.t) = "IDENTIFIER" -> CallNamed(s)
           [] reader.t = "," /\ Type(s.t) = "STRING" -> TakePositional(s)
           [] reader.t # "," \/ s.t = ")" -> EndParameters(s) /\ UNCHANGED params
           [] OTHER -> EndParameters(Expect(s, "STRING")) /\ UNCHANGED params
    /\ UNCHANGED <<input, stack, built, deleted, registered>>

\* Named parameters: the last one of a name counts.
Set(named, id, value) == {p \in named : p[1] # id} \cup {<<id, value>>}

\* A turn of the loop of named parameters, whose name has been read.
Named ==
    /\ pc = "named"
    /\ \E equals \in {Need(reader, "=")} : \E value \in {Need(equals, "STRING")} :
       \E s \in {Read(value)} : \E id \in {Need(s, "IDENTIFIER")} :
         /\ params' = IF value.ok
                      THEN [params EXCEPT !.named = Set(@, reader.t, Text(value.t))]
                      ELSE params
         /\ CASE s.ok /\ s.t = "," /\ id.ok -> reader' = id /\ UNCHANGED <<pc, returned>>
              [] s.ok /\ s.t = "," /\ ~id.ok -> EndParameters(id)
              [] OTHER -> EndParameters(s)
    /\ UNCHANGED <<input, stack, built, deleted, registered>>

\* The constructor of Stats takes the first of its parameters without a look.
StatsOfNothing == params.name = "Stats" /\ params.positional = <<>>

\* There is no first parameter: what happens is undefined.
StatsOutOfRange ==
    /\ pc = "construct"
    /\ ~reader.hasErrors /\ StatsOfNothing
    /\ pc' = "undefined"
    /\ UNCHANGED <<input, reader, stack, params, built, deleted, registered, returned>>

\* The factory makes a module, or a fake one once there are errors.
Construct ==
    /\ pc = "construct"
    /\ reader.hasErrors \/ (params.name \notin {"ActivateModule", "Include"} /\ ~StatsOfNothing)
    /\ LET name == IF reader.hasErrors THEN "fake" ELSE params.name
       IN  IF name \in registered /\ Takes([params EXCEPT !.name = name])
           THEN /\ built' = Append(built, New(name, params))
                /\ CallNextModule(Len(built) + 1, stack)
                /\ UNCHANGED <<reader, returned>>
           ELSE /\ reader' = PrintError(reader)
                /\ Return(NULL)
                /\ UNCHANGED <<stack, built>>
    /\ UNCHANGED <<input, params, deleted, registered>>

\* An Include is a list, to be filled with what its files hold.  Its error is
\* not initialised.
Include ==
    /\ pc = "construct"
    /\ params.name = "Include" /\ ~reader.hasErrors
    /\ built' = Append(built, New("Include", params))
    /\ \E error \in BOOLEAN :
         stack' = Append(stack, [fn |-> "include", me |-> Len(built) + 1,
                                 files |-> params.positional, error |-> error,
                                 reader |-> reader])
    /\ pc' = "include"
    /\ UNCHANGED <<input, reader, params, deleted, registered, returned>>

\* A parser of its own for the next file, which may not be there.
IncludeFile ==
    /\ pc = "include" /\ Top.files # <<>>
    /\ LET file == Head(Top.files)
       IN  \/ reader' = NewReader(<<>>, FALSE)
           \/ file \in DOMAIN Files /\ reader' = NewReader(Files[file], TRUE)
    /\ stack' = [stack EXCEPT ![Len(stack)].files = Tail(@)]
    /\ pc' = "getRoot"
    /\ UNCHANGED <<input, params, built, deleted, registered, returned>>

\* The root of a file is taken, and deleted with the parser that has read it.
IncludeTakes ==
    /\ pc = "return" /\ stack # <<>> /\ Top.fn = "include"
    /\ IF returned = NULL
       THEN stack' = [stack EXCEPT ![Len(stack)].error = TRUE] /\ UNCHANGED <<built, deleted>>
       ELSE /\ Deletable(returned)
            /\ built' = [built EXCEPT ![Top.me].list = Append(@, returned)]
            /\ deleted' = deleted \cup Under(returned)
            /\ UNCHANGED stack
    /\ pc' = "include"
    /\ UNCHANGED <<input, reader, params, registered, returned>>

\* All files have been read: the list is given, or deleted because of an error.
\* Errors that a parser has noted on the way to a root are gone with it.
IncludeEnds ==
    /\ pc = "include" /\ Top.files = <<>>
    /\ IF Top.error
       THEN /\ Deletable(Top.me)
            /\ deleted' = deleted \cup Under(Top.me)
            /\ reader' = PrintError(Top.reader)
            /\ Return(NULL) /\ stack' = Pop
       ELSE /\ reader' = Top.reader
            /\ CallNextModule(Top.me, Pop)
            /\ UNCHANGED <<deleted, returned>>
    /\ UNCHANGED <<input, params, built, registered>>

\* ActivateModule loads libraries, each of which registers a part of Plugins,
\* and has an error at the first that cannot be loaded.
Activate ==
    /\ pc = "construct"
    /\ params.name = "ActivateModule" /\ ~reader.hasErrors
    /\ \/ /\ registered' = IF params.positional = <<>> THEN registered
                            ELSE registered \cup Plugins
          /\ CallNextModule(NullModule, stack)
          /\ UNCHANGED <<reader, returned>>
       \/ /\ params.positional # <<>>
          /\ \E loaded \in SUBSET Plugins \ {Plugins} :
               registered' = registered \cup loaded
          /\ reader' = PrintError(reader)
          /\ Return(NULL)
          /\ UNCHANGED stack
    /\ UNCHANGED <<input, params, built, deleted>>

\* getModule at a bracket: getServerOrPath, which takes any token for the name.
ServerOrPath ==
    /\ pc = "getModule"
    /\ reader.t = "["
    /\ \E first \in {Read(reader)} :
       LET isServer == first.t = "["
       IN  \E name \in {IF isServer THEN Read(first) ELSE first} :
           \E bracket \in {Need(name, "]")} :
           \E s \in {IF isServer THEN Need(bracket, "]") ELSE bracket} :
           \E behind \in {Read(Resume(s))} :
             /\ reader' = Resume(behind)
             /\ built' =
                  IF ~s.ok THEN built
                  ELSE Append(built, New(IF s.hasErrors THEN "fake"
                                         ELSE IF isServer THEN "[[" ELSE "[",
                                         [NoParams EXCEPT !.positional = <<Text(name.t)>>,
                                                          !.at = Place]))
             /\ IF s.ok /\ behind.ok
                THEN CallNextModule(Len(built) + 1, stack) /\ UNCHANGED returned
                ELSE Return(NULL) /\ UNCHANGED stack
    /\ UNCHANGED <<input, params, deleted, registered>>

\* getModule at a brace: a list of its own.
Block ==
    /\ pc = "getModule"
    /\ reader.t = "{"
    /\ reader' = Resume(Read(reader))
    /\ IF Read(reader).ok
       THEN /\ CallModuleList(Append(stack, [fn |-> "block", me |-> NULL]))
            /\ UNCHANGED returned
       ELSE Return(NULL) /\ UNCHANGED <<stack, built>>
    /\ UNCHANGED <<input, params, deleted, registered>>

\* The list of a block has been read to its end.
EndBlock ==
    /\ pc = "return" /\ stack # <<>> /\ Top.fn = "block" /\ reader.t = "}"
    /\ reader' = Resume(Read(reader))
    /\ IF Read(reader).ok /\ returned # NULL
       THEN CallNextModule(returned, Pop) /\ UNCHANGED returned
       ELSE Return(NULL) /\ stack' = Pop
    /\ UNCHANGED <<input, params, built, deleted, registered>>

\* The end of a block is missing: its list is deleted, if there is one.
DeleteBlock(given) ==
    /\ pc = "return" /\ stack # <<>> /\ Top.fn = "block" /\ reader.t # "}"
    /\ reader' = PrintError(reader)
    /\ Return(given) /\ stack' = Pop
    /\ IF returned = NULL THEN UNCHANGED deleted
       ELSE Deletable(returned) /\ deleted' = deleted \cup Under(returned)
    /\ UNCHANGED <<input, params, built, registered>>

\* Mutant of UnbalancedBlock: the list is given back although it was deleted.
UnbalancedBlockGiven == DeleteBlock(returned)

UnbalancedBlock == DeleteBlock(NULL)

\* getModule at anything else.
Unexpected ==
    /\ pc = "getModule"
    /\ Type(reader.t) \notin {"IDENTIFIER", "[", "{"}
    /\ reader' = PrintError(reader)
    /\ Return(NULL)
    /\ UNCHANGED <<input, stack, params, built, deleted, registered>>

\* A chain ends, or goes on behind an arrow, or has an error.
GetNextModule ==
    /\ pc = "getNextModule"
    /\ \E arrow \in {Need(reader, ">")} : \E behind \in {Read(arrow)} :
         CASE reader.t = ";" -> reader' = Resume(Read(reader)) /\ Return(NULL)
           [] reader.t = "-" ->
                /\ reader' = Resume(behind)
                /\ IF behind.ok THEN pc' = "getModule" /\ UNCHANGED returned
                   ELSE Return(NULL)
           [] OTHER -> reader' = PrintError(reader) /\ Return(NULL)
    /\ UNCHANGED <<input, stack, params, built, deleted, registered>>

\* The rest of a chain has been read.
EndChain(given) ==
    /\ pc = "return" /\ stack # <<>> /\ Top.fn = "chain" /\ Top.me \notin deleted
    /\ built' = [built EXCEPT ![Top.me].next = returned]
    /\ Return(given) /\ stack' = Pop
    /\ UNCHANGED <<input, reader, params, deleted, registered>>

\* Mutant of Chain: the last module of the chain is returned.
ChainReturnsLast == EndChain(IF returned = NULL THEN Top.me ELSE returned)

\* getModule returns the first of it.
Chain == EndChain(Top.me)

\* A deletion meets a module that is gone, or that is held twice: what happens
\* is undefined.
DeletedTwice ==
    /\ \/ /\ pc = "return" /\ stack # <<>> /\ returned # NULL
          /\ Top.fn = "include" \/ (Top.fn = "block" /\ reader.t # "}")
          /\ ~Deletable(returned)
       \/ /\ pc = "include" /\ Top.files = <<>> /\ Top.error
          /\ ~Deletable(Top.me)
    /\ pc' = "undefined"
    /\ UNCHANGED <<input, reader, stack, params, built, deleted, registered, returned>>

\* The next module of one that is gone is set: what happens is undefined.
UsedDeleted ==
    /\ pc = "return" /\ stack # <<>> /\ Top.fn = "chain"
    /\ Top.me \in deleted
    /\ pc' = "undefined"
    /\ UNCHANGED <<input, reader, stack, params, built, deleted, registered, returned>>

Finished == pc = "return" /\ stack = <<>>
Ended == Finished \/ pc = "undefined"

\* The daemon has its root, or exits because of errors.
Done ==
    /\ Ended
    /\ UNCHANGED vars

Init ==
    /\ input \in Inputs
    /\ \E open \in BOOLEAN : reader = NewReader(input, open)
    /\ pc = "getRoot"
    /\ stack = <<>>
    /\ params = NoParams
    /\ built = <<New("NULL", NoParams)>>
    /\ deleted = {}
    /\ registered = Defaults
    /\ returned = NULL

Step == \/ CannotOpen \/ GetRoot \/ GetModuleList \/ ListTakes
        \/ DropList \/ Identifier \/ ReadParameters \/ Positional \/ Named
        \/ Construct \/ StatsOutOfRange \/ Activate \/ ServerOrPath \/ Block \/ EndBlock
        \/ UnbalancedBlock \/ Include \/ IncludeFile \/ IncludeTakes \/ IncludeEnds
        \/ DeletedTwice \/ UsedDeleted \/ Unexpected \/ GetNextModule \/ Chain

Next == Step \/ Done

Spec == Init /\ [][Next]_vars

\* The parser runs.
FairSpec == Spec /\ WF_vars(Step)

-----------------------------------------------------------------------------
(* Properties *)

Ids == DOMAIN built

\* Every variable keeps its shape; lists are filled, and chains made, of
\* modules that are there.
TypeOK ==
    /\ input \in Seq(InputTokens)
    /\ reader \in Readers /\ reader.pos \in 1..(Len(reader.text) + 1)
    /\ pc \in {"getRoot", "getModuleList", "getModule", "getNextModule",
               "parameters", "positional", "named", "construct", "include",
               "return", "undefined"}
    /\ stack \in Seq(Frames)
    /\ \A i \in DOMAIN stack :
         /\ stack[i].fn = "list" =>
              stack[i].me \in Ids /\ built[stack[i].me].name = "ModuleList"
         /\ stack[i].fn = "include" =>
              stack[i].me \in Ids /\ built[stack[i].me].name = "Include"
         /\ stack[i].fn = "chain" => stack[i].me \in Ids
    /\ params \in Params
    /\ built \in Seq(Modules)
    /\ \A m \in Ids : /\ built[m].next \in Ids \cup {NULL}
                      /\ \A i \in DOMAIN built[m].list : built[m].list[i] \in Ids
    /\ deleted \subseteq Ids
    /\ returned \in Ids \cup {NULL}

\* The parser makes a tree: a module is held by at most one other, and the root
\* by none, so that the destructors that follow next modules and lists delete
\* each module once (module.cpp:43, modulelist.cpp:24).  Module::null is not a
\* part of the tree.
OwnedOnce ==
    /\ \A m \in Ids \ {NullModule} : Cardinality(Owners(m)) <= 1
    /\ (Finished /\ returned # NULL) => Owners(returned) = {}

\* What a parser that is done gives to the daemon, which deletes it once more at
\* its own end, has not been deleted (configparser.cpp:51, include.cpp:31).
NothingDangling ==
    (Finished /\ returned # NULL) => Under(returned) \cap deleted = {}

\* Whatever the error, wherever it is and however deep inside of blocks: as long
\* as no Include has been given a root, and no chain holds the module that all
\* ActivateModule share, nothing that was deleted is held, filled, linked or
\* deleted again (configparser.cpp:333, module.cpp:43, modulelist.cpp:24).
DeletedIsGone ==
    (/\ \A m \in Ids : built[m].name = "Include" => built[m].list = <<>>
     /\ Owners(NullModule) = {})
        => /\ pc = "undefined" => StatsOfNothing
           /\ \A i \in DOMAIN stack : stack[i].me \notin deleted
           /\ \A m \in Ids \ deleted : Held(m) \cap deleted = {}
           /\ NothingDangling

\* A parser that has no root to give has noted an error: only then does the
\* daemon stop before it uses the root (daemon.cpp:44).
FailureNoted ==
    (Finished /\ returned = NULL) => reader.hasErrors

Accepted == Finished /\ returned # NULL /\ ~reader.hasErrors

\* Between parentheses and between brackets there is nothing that belongs
\* outside of them.  The parser takes any token for the closing parenthesis and
\* for the string in brackets (configparser.cpp:313, configparser.cpp:387).
TextClosed ==
    \A i \in DOMAIN input : input[i] \in {"(", "["} =>
        \E j \in (i + 1)..Len(input) :
            /\ input[j] \in {")", "]"}
            /\ \A k \in (i + 1)..(j - 1) :
                  input[k] \in Names \cup Strings \cup {",", "=", "["}

\* No chain goes on behind an ActivateModule: Module::null, which all of them
\* give, would take the rest of it along (conf.cpp:56).
ActivationLast ==
    \A i, j \in DOMAIN input :
        (input[i] = "ActivateModule" /\ i < j /\ input[j] = "-") =>
            \E k \in i..j : input[k] = ";"

\* The places of the text where modules begin, and the depth of a place.
Heads == {i \in DOMAIN input :
            \/ /\ input[i] \in Names \ {"ActivateModule"}
               /\ i = Len(input) \/ input[i + 1] # "="
               /\ i = 1 \/ input[i - 1] # "["
            \/ /\ input[i] = "["
               /\ i = 1 \/ input[i - 1] \notin Names \cup {"["}}
Depth(i) == Cardinality({j \in 1..i : input[j] = "{"})
            - Cardinality({j \in 1..i : input[j] = "}"})

\* What is written at j is guarded by what is written at i: no semicolon ends
\* the chain of i before j.
Guards(i, j) ==
    /\ i < j
    /\ \A k \in i..j : input[k] = ";" => Depth(k) > Depth(i)

\* A text that is read to its end without an error gives a module for each that
\* is written, and above it, up to the root, those that guard it in the text and
\* no other: whatever the order in which chains, blocks and lists return
\* (configparser.cpp:300, configparser.cpp:356).
AsWritten ==
    (Accepted /\ reader.t = "END_OF_FILE" /\ TextClosed /\ ActivationLast) =>
        LET Made == {m \in Ids : built[m].at > 0}
            above[m \in Ids] ==
                IF Owners(m) = {} THEN {m}
                ELSE {m} \cup above[CHOOSE k \in Ids : m \in Held(k)]
        IN  /\ {built[m].at : m \in Made} = Heads
            /\ \A m \in Made :
                 /\ returned \in above[m]
                 /\ {built[k].at : k \in above[m] \ {m}} \ {0}
                      = {i \in Heads : Guards(i, built[m].at)}

\* Every text is parsed to an end, whatever errors it has and in whichever
\* function it stops (configparser.cpp:213, configparser.cpp:360).
Ends == <>Ended
=============================================================================
