# onion+ in TLA+

onion+ is a small modular web server in C++ and Qt 4. It runs on one thread: a
`QTcpServer` hands sockets to `Client` objects, every client reads a request,
asks a tree of modules for a device with the answer, and copies that device to
its socket one chunk at a time, driven by the signals of both.

This directory holds TLA+ models of it, TLC runs over small instances and
TLAPS proofs for all instances. `tlc -config <run>.cfg <module>` repeats a run;
`PROJECT.json` lists them. Paths below are relative to `src/src`.

## Inventory

| component | state | operations | what makes it correct |
|---|---|---|---|
| Client (`client.cpp`) | `atHeader`, request, response, `bytesSent`, `fromModule`, socket | `readRequest`, `processPetition`, `readAndWrite`, deferred deletion | each request answered once, in full, in order; connection kept or closed as asked; no more of an answer in the buffer than one write; no leak |
| Request (`request.cpp`) | method, path, headers | `addHeader` (two), `clean` | nothing of a request outlives it |
| Response (`response.cpp`) | headers, length, status | `setHeader`, `setLength`, `setKeepAlive` | announced length = length of the body |
| File, buffers, sockets | position, end, open | `open`, `read`, `close` | as above |
| Daemon (`daemon.cpp`) | server socket, three counters, root of the tree | `newConnection`, `decreaseActiveClientCount` | counters exact; every socket served |
| Module tree (`modulelist.cpp`, `modules/`) | next module, list, pattern | `process` | guards above an answer have let the request through; lists resume where they were; the answer is that of the nesting |
| ConfigParser (`configparser.cpp`) | one token of look-ahead, `hasErrors` | `getRoot`, `getModuleList`, `getModule`, ... | accepts what the grammar says and builds the tree it describes |
| ModuleFactory (`modulefactory.cpp`) | table of constructors | `getModule`, `registerModule` | - |
| Include, ActivateModule | - | constructors | nothing that a parser has deleted is used; the included tree is owned once |
| DirList (`modules/dirlist.cpp`) | - | `process` | each link of a listing leads to its entry, which has the type that the listing says |
| main (`onion.cpp`) | the daemon | start, SIGINT, URL codec | decoding undoes encoding |
| Mime (`mime.cpp`), debug | a table; none | load, look-up; logging | a look-up changes no later one |

Components interact by direct calls (client to module tree, module to request
and response, client to daemon), by Qt signals (socket and device to client) and
by deferred deletion (`deleteLater`). What is hard: signals of two sockets in any
order, lines and chunks split anywhere, deletion some time after it was asked
for, modules that block the only thread. `PROJECT.json` lists the hazards, each
at its line.

## Modules

### Client, Exchange, ClientExchange, MCClient

`Client` has one action per signal. A slot runs to its end before the next
signal is delivered, so one action is the whole slot, trailing calls included
(`BytesWritten` runs `ReadAndWrite`, which may close the device, finish the
petition or post the deletion). The exception is `readRequest`: its loop is one
action per line (`ReadLine`, `StartPetition`, `SplitOutOfRange`), while `reading`
keeps other slots out.

| TLA+ | code |
|---|---|
| `client.atHeader`, `.request`, `.response`, `.bytesSent`, `.fromModule` | the fields of the same name |
| `client.written`, `.flushed` | what was given to `clientSocket->write` and what left its buffer |
| `client.petitions` | history of the calls of `processPetition` |
| `client.life` | live, `deleteLater` posted, destroyed, or the outcome of undefined behaviour |
| `inbuf`, `net`, `peer` | read buffer of the socket, bytes on their way, the peer |
| `Feed`, `FeedLine`, `AddHeader` | one part of a line, one line, `Request::addHeader` |
| `ReadAndWrite` = `CloseIfSent`, `Exhausted`, `Finish`, `WriteChunk`, `Discard` | `readAndWrite`, top to bottom |

Data are reduced to what the properties tell apart: lines to six kinds, answers
to units of body (the chunk is `ChunkSize` of them). `DefaultLength` stands for
0xFFFFFFF and `WordSize` for the width of `unsigned long`. `Devices` is the set
of answers the module tree may give, including files that cannot be opened,
files that change after their size was taken, and listings whose response has
no length.

`Exchange` is what a connection promises a peer that asks one thing at a time;
`ClientExchange` maps `Client` onto it.

### Daemon, MCDaemon

The accept loop, the counters, and the thread that a module may block. The life
of a client is cut down to creation, posts of `deleteLater` and destruction.
`peak` is a history variable.

The descriptors of the process bound the connections that are open at once, and
`WordSizeAssumption` says that this is less than the counters hold.

### Dispatch, MCDispatch

The walk of a request through the tree, for the requests of one connection one
after another. `Module::process` calls itself through the tree; in `Dispatch`
every such call is one step. Modules other than lists return what their next
module returned, so a return value can only come back to a list: `frames` is the
stack of the lists under way, `at` the module to be processed.

| TLA+ | code |
|---|---|
| `request` | `Request`: path and the headers that modules read |
| `EnterList`, `TryItem`, `LeaveList` | the loop of `ModuleList::process` (`modulelist.cpp:38`) |
| `Path`, `Server`, `Allow`, `AuthPAM`, `Stats` | `process` of these modules |
| `Leaf`, with `Produced` and `File` | modules without a next one; `File::File` makes the error page of a file that does not exist |
| `Receive`, `NoModule` | the header has been read (`request.cpp`), nobody has answered (`client.cpp:106`) |
| `KeepAlive`, `Clean` | the request is cleaned for the next one (`client.cpp:159`) |
| `Config`, `Children` | the fields of the modules, set by the parser and constant afterwards |

Expressions are tables (`rest`: what is left of a path), and so are file systems
(`content`: what is found at a path). A path is a model value for each string
that is told apart. `given` is a history variable.

`Meaning` is what a module is meant to answer by the nesting of the configuration
alone, without a stack and without a request that changes: a list asks its modules
in turn with its own path, a guard looks at the request. The constant `Reference`
is what all modules are meant to answer, and `ReferenceAssumption` says that it
follows `Meaning` from the modules below each one. Where the code leaves that way,
`Meaning` says `Astray`. `MCDispatch` holds a tree with every module of the code, a
`Path` inside a `Path` among them, and computes `Reference` from its leaves up.

### ConfigParser, MCConfigParser

The recursive descent of `configparser.cpp` as a machine with a stack. A step is
what one function does between two calls, tokens read included; what a `return`
of the macros `READ_TOKEN`, `EXPECT` and `NEED` skips is skipped. `printError`
reads a token on, and the model does the same wherever the code calls it.

| TLA+ | code |
|---|---|
| `reader` | the place in the file, `t` and `r`, `hasErrors`; `ok` is FALSE between a macro that returns and the caller |
| `pc`, `stack`, `returned` | the function under way, the C++ stack, the return value |
| `params` | `name`, `positionalParams`, `namedParams` of `getModule` |
| `built` | the modules that exist, with `nextModule` and `list` |
| `registered` | the table of `ModuleFactory` |
| `deleted` | the modules that `delete` has met, with all that they hold (`Under`: `~Module`, `~ModuleList`) |
| `GetModuleList`, `ListTakes`, `DropList` | the loop of `getModuleList`, before and after the call of `getModule` |
| `Identifier`, `ReadParameters`, `Positional`, `Named`, `Construct`, `Activate` | `getModule` at a name |
| `ServerOrPath`; `Block`, `EndBlock`, `UnbalancedBlock`; `Unexpected` | `getModule` at `[`, at `{`, at anything else |
| `Include`, `IncludeFile`, `IncludeTakes`, `IncludeEnds` | `includeConstructor` before, at the beginning of, at the end of and behind its loop; a frame keeps the parser that has called it |
| `StatsOutOfRange`, `DeletedTwice`, `UsedDeleted` | undefined behaviour, in which a run ends |
| `GetNextModule`, `Chain` | `getNextModule`; `setNextModule` |

Tokens are single values: blanks and comments are left out, a string without an
end and a slash that begins no comment are tokens of their own. `CannotOpen` is
the file that cannot be opened. An `Include` has a parser of its own for each
file, which `~ConfigParser` deletes at the end of the turn together with its
root; `error`, which is not initialised, is either value.

### Listing, MCListing

A directory that `DirList` lists and a peer that follows its links: what
`encodeURL` writes comes back through the peer to `decodeURL`, one turn of whose
loops is a step, and the path that is decoded has to be the entry. The same walk
asks `Mime` for types, in the listing by the name and in the answer by the path.

| TLA+ | code |
|---|---|
| `line`, `mimeMap`, `LoadLine` | the constructor of `Mime`; `mimeMap` also holds what `operator[]` leaves there (`Asked`) |
| `url`, `dest`, `pos`; `DecodePair`, `EndPairs`, `DecodeSingle` | the variables and the two loops of `decodeURL` |
| `EndDecode`, `path` | the end of the first line in `Request::addHeader` |
| `List`, `ListEntry`, `EndList`, `rows` | the loop of `DirList::process`, with the columns for the link and the type |
| `ServeFile`, `Decline` | `File::File`; no directory and no file |
| `AskTop`, `Follow`, `PercentEncode` | the peer: a URL is relative to that of the page, and characters that are not ASCII are escaped |

Names are sequences of characters, of which the model has one for each that the
codec, the table or the path treats in its own way, and the digits of their
escapes. Bytes are pairs of digits. `SiteAssumption` is what a file system gives:
no directory has two entries of one name, no name is empty or has a slash, and
the path of a directory ends in one. `LineAssumption` says that no line of the
file of types gives the empty type, which `Mime` cannot tell from none.

## Runs

| run | distinct states | what it shows |
|---|---|---|
| client_sequential | 6272 | a peer that waits for its answers: requests are read in full, answered once and in order, with bodies as long as announced; one write at a time waits in the buffer |
| client_polite | 4204 | the same peer, whole writes, fairness: no truncation, keep-alive honoured, all answered, `Exchange` implemented |
| client_any | 506015 | any peer, partial writes, proxies, lines that just fit, shortened and unreadable files: answers never mix, at most one chunk of body waits in the buffer, clients whose peer has gone are reclaimed |
| daemon | 2347 | counters exact, sockets served, clients deleted |
| dispatch | 33373 | a tree with every module: no answer goes around Allow or AuthPAM, no module is passed twice, every walk ends; unless it is led astray, the walk gives what the nesting says |
| parser | 104977 | what is accepted is built as written, modules are owned once, what errors delete is used no more, failures are noted, the parser ends |
| listing | 170962 | links lead to their entries and differ, types are those of the table, the file has the type of its row, each URL is decoded to an end |
| client_pipelined | | violation: a second request that comes early has the first answered twice |
| client_empty_file | | violation: an empty answer ends a connection that was to be kept |
| client_partial_write | | violation: the rest of a last chunk that was taken in part is lost |
| dispatch_allow | | violation: the first request of a connection is not let in by Allow, the same one later is |
| parser_include | | violation: the tree of an included file is deleted with the parser that has read it |

Bounds. Client: three requests (two with pipelining) cover a first, a middle and
a last request of a kept connection; bodies up to 5 units with chunks of 2 give
empty, partial, whole and several chunks; `WordSize` 16 exceeds every body but
lets `bytesSent` go below zero. Daemon: three connections with counters modulo 4
make the count of all clients wrap while the active count must stay right.
Dispatch: a tree of 19 modules with lists in lists and chains behind lists,
every module of the code in it; two requests of a connection, since
`clean()` forgets everything but what it fails to drop, which the second request
shows. Parser: chains of up to two modules, blocks three deep, the configuration
of `test/example.config`, and all texts that differ from one of four in a token:
one less, another, or one more, of every kind of token. Errors thus occur at
every place of every function; two errors in one text occur as well, since
`printError` skips a token that may be the one that was right. Includes name no
file, a good one, a bad one before a good one, and one that includes another;
behind them the configuration goes on, so that what is deleted is met again.
Listing: a file of every name of up to three of eight characters in directories of
seven names, longer names with two escapes side by side, names that look like
escapes, and pairs of names that differ in what the codec writes; the peer may
ask for the base again when it has a file or nothing, so that a table that has
been asked before is asked once more. Two directories deep show that a link is relative,
and two side by side, `x?` and `x`, that a page may have the address of another.

Fairness. The event loop delivers every signal that stays pending (WF on the
slots and on the deferred deletion), the kernel empties write buffers of a peer
that is there. Nothing makes the peer send or close. In `Daemon` a signal can be
held up again and again by modules that wait, but each turn of the event loop
serves all that is pending: strong fairness for the accept loop and for
deletion. The waits end because `waitForConnected` has a time limit. In
`Dispatch`, `ConfigParser` and `Listing` fairness only says that a function which
is called runs on; the peer of `Listing` need not ask.

Preconditions. `AsWritten` is about texts that are read to their end
(`configparser.cpp:360` stops at a stray `}` without an error), that close their
parentheses and brackets (`TextClosed`: `getModule` takes any token for the
closing parenthesis) and in which nothing follows an ActivateModule in its chain
(`ActivationLast`: all of them give the one `Module::null`). `OwnedOnce` leaves
out `Module::null` for the same reason. `DeletedIsGone` is about states in which
no Include has taken a root, which `parser_include` shows to be deleted, and no
chain holds `Module::null`. `AsConfigured` is about requests
that are `Straight`: before anything answers them, the nesting comes to no Path whose
next module declines once the Path has taken its part, and to no Server whose
expression matches the host that was asked for and not the empty one that it reads,
or the other way round. `Meaning`
shows Allow the address under the key that it reads; what comes of that for a first
request is `dispatch_allow`. `LinkLeadsBack` is about names that are `Readable`, on
pages that have their own address; what is not is listed below. `SameType` leaves out names with a marker of `QString::arg` and
directories with a dot.

## Proofs

`ClientProofs` proves `TypeOK` of `Client` for all constants that meet the named
assumptions, and `ResponsesContiguous` and
`OneChunkQueued` by the inductive invariant `TypeOK /\ OrderOK /\ WindowOK`:
`OneChunkQueued` counts body only: lines that come early queue a
header block each, without a bound. `OrderOK` adds that the last token written belongs to the petition under way and
stands where the device is read next, without which nothing links the next chunk
to the last; `WindowOK` says that the queue holds body of one write only.

`DaemonProofs` proves `TypeOK`, `ActiveExact` and `PeakExact`; the induction needs
that `activeClientCount` is below the word size, which follows from the number
of descriptors (`WordSizeAssumption`), and that the peak is at least the number
of clients.

`ClientExchangeProofs` is about a peer that waits for its answers (`Sequential`: no
pipelining, whole requests without lines of 1023 characters, and files that keep the length they were announced
with), and about the same one on a kernel that takes write buffers whole
(`Polite`). These are the environments of the runs `client_sequential` and
`client_polite`. That they are needed is what `client_pipelined`,
`client_partial_write` and `client_empty_file` show. For any number of requests, answers of any length and
any chunk size, `Sequential` gives `AnswersInOrder`, `Framing`, `OneWriteQueued` and the action
property `HeaderRead`, and `Polite` gives `NoTruncation` and the action property
`KeepAliveHonoured`. None of them is inductive. `SequentialInv` says in addition
what is between the two ends: what the peer has sent and nobody has read is the
rest of exactly one request, which together with what `request` holds says what
the peer has asked (`RequestOK`); the device under way is that of the last
petition, and `bytesSent`, its position and the body that was written are one
number (`InBody`); an answer under way has something in the write buffer, so that
its slot is called again (`ConnectionOK`). `PoliteInv` adds that a device that has
been read to its end has also left the buffer when the connection goes.
`ClientKeepsPromise` is the refinement, for every value of these constants: initial
states of `Client` are initial states of `Exchange` under the mapping of
`ClientExchange`, and under the invariant each slot, each step of the peer and
each of the network is a step of `Exchange` or a stutter.

`DispatchProofs` proves `TypeOK`, `GuardsHold`, `CountedOnce` and `AsConfigured` for every tree and every set of requests. `GuardsHold` speaks of the state in which the answer is given;
the walk has passed the guard long before. `GuardInv` therefore says of every
state in the walk that the module it is at and every list it can come back to
(`WalkCleared`), and in the end the module that has answered (`AnswerCleared`),
have only guards above them that admit the request. `HeadersOK` adds that
the headers the guards look at are those of this request or empty, which is where
`clean()` counts; `OnlyLists` that what is on the stack is a list; `WalkOK` that a walk has a request. That a
step to a child passes no other guard than the module it leaves needs the tree.
`CountedOnce` needs to know what is still to come: `OnceInv` says that the subtree
the walk is at and what each list under way has yet to try (`Ahead`) are disjoint
from each other, and that no `Stats` among them has counted this request.
`TreeAssumption` says that the tree is one: the root has no parent, no module two,
and no list has a module twice. It is what `AlwaysOwnedOnce` proves of the parser's
output, apart from `Module::null`. `AcceptsAssumption` says that no guard takes an
empty address or empty credentials, which is what a header that is not there
reads as. `AsConfigured` relates the end of a walk to the whole tree. `NestInv` says of
every state in the walk what is true of the calls on the stack (`Nests`): the
modules that a list has come past decline by the nesting; what the list expects of
the module it is at is what the next list on the stack will give, or the module
that the walk has come to (`Link`, `LinkOn`); and whoever of these is meant to answer is
meant to give the answer to the request. `Link` is where a Path comes in: what it gives at
the path it was called with is what its next module gives at the rest, or `Astray`.
Each step keeps this (`NestsEnter`, `NestsTry`, `NestsLeave` for lists, `NestsCall`
for the others). No induction over the tree is needed, for
`ReferenceAssumption` says all of it one level at a time; in a tree, where the
links end, there is such a `Reference`, and only one.

`ConfigParserProofs` proves `TypeOK` and `FailureNoted` for every text, every set
of files and every set of names. Neither is inductive. `Called` says which call
is on top of the stack while a function runs, without which a return could come
back to a frame of another kind, and that named parameters begin at a name.
`Noted` is `FailureNoted` for every return on the way and not only the last:
whoever returns no module, except to a chain, which ends that way, has noted an
error. The errors come from tokens: `Later` says that reading leaves the place
inside of the text and forgets no error, and that a reader which stops has noted
one; each function reads by `Read`, `Expect`, `Need` and `PrintError` only, for
which it is proved one after the other. That the error of a bad comment ends in
the text needs the least element of a finite set (`LeastElement`).

`ParserTreeProofs` proves `OwnedOnce` and `DeletedIsGone` for every text and whatever
files it includes. Both properties speak of the modules that are linked; the
code holds most of its modules in local variables. `OwnInv` says of these that
what a function returns and what a call has in its hands (`Mes`) has no owner yet
and that no two calls hold the same module. `GoneInv` says that what was deleted
is in none of these hands and held by nothing that is left. It needs `Unlinked`:
the module that a chain waits to link has no next one, so that to link it takes
nothing away from what is below other modules, and that nothing reaches up from
a deleted module to a live one (`Intact`). `Under`, what a `delete` meets, is a
recursive function; that it gives the modules which the links reach is proved by
induction over the finite set of built modules (`SetInduction`).

`ParserTextProofs` proves `AsWritten` for every text, with whatever Includes in it.
When the parser is done, the text and the tree are compared as a whole, and no
variable says what of the one has become what of the other. The invariant says
it for every place on the way, in two halves.

- `TextInv`: what has been read fixes what has been made and what is under way.
  Up to the place i of the last token (`At`), the depth of the text is the number
  of blocks under way (`Blocks`), the calls wait with modules of exactly the places
  that are open there, each at its depth (`Opens`, `OpenText`), and there is a
  module for every head before i and no other (`MadeOf`, `Before`); `ReadsOf` says for
  each function where between two tokens it is, and one lemma for each action
  that it is so again behind what the action reads (`GetRootThere` to
  `IncludeThere`). While an Include reads other files, the same is true of the parser that has
  called it (`AtNext`), and what is made has no place (`PlacelessFrom`). `Clean` says that no
  error has been noted. Since no step takes an error back (`CleanBefore`, `StepText`),
  to ask that of the last state is to ask it of all.
- `WrittenPlaces`: what is above a module in the tree is what the calls have waited
  with when it was made. Functions link what they return, so a module gets its
  place in the tree long after it was made. `PlacesOf` (`ParserTreeProofs`) promises each
  module what will be above it, from the calls under way, and `KindsPlaces` says that
  every link and every entry of a list keeps the promise. By `TextInv`, those were the modules
  that guard it in the text (`GuardedBy`), and none that a module of the text stands
  under is dropped on the way (`PlacedIn`), though errors in an Include may drop others.

`AsWritten` climbs the tree with a recursive function. It has no value to begin with where the chain of a
`Module::null` comes back to it, which files of Includes may do; `UpIs` shows that the
function exists nevertheless, and `AboveWanted`, by induction, that it gives for
the modules of the text what was promised and ends at the root.

`ListingProofs` proves `TypeOK`, `TypesAsWritten`, `SameType`, `LinksDiffer` and
`LinkLeadsBack` for every file of types and every directory. `Replace` is a
recursive function too; `ReplaceIsComputed` proves that it exists and satisfies
its equation, from the end of the text backwards, and the lemmas behind it say
what it keeps: sequences of characters (`ReplaceTyped`), or any set of results
that is closed under writing a character or its replacement in front
(`ReplaceIn`). For the types `TypesInv` says that the table, with the extensions
that were only asked for left in it, still says of every extension what the lines
read so far say (`TableOK`, `LoadedOK`), and that rows, the row that was followed
and the file that is served are as written (`RowsOK`, `FollowedOK`, `ServedOK`).
`LinksDiffer` is the injectivity of `encodeURL`: once percent signs are escaped,
every percent sign begins a `%25` (`Tidy`), so the `%20` of a space cannot be one
of them (`EscapesDiffer`), and two texts from which the same is written agree
character by character (`ReplaceInjective`).

`LinkLeadsBack` says that `decodeURL` undoes `encodeURL` and what the peer adds,
for names that are `Readable`. An address is a name in which each character that
is written with escapes has a mark of its own, every mark spelt out (`Marked`,
`Flat`, `AddressIsFlat`), and a replacement, which is made everywhere in the
result, turns marks into their characters and leaves such a name (`Decoded`). It
hits nothing else, since nothing in a readable name looks like the escape of a
byte that one of its characters is written with (`ReadableLooks`): `OneDecoded`,
`PairDecoded` and `NoneDecoded` are the escapes of one mark, of two side by side
and of one byte of a mark that is already gone. `PairsAreKnown` is about the first
expression: the two escapes that it finds next are those of one character of two
bytes, or of two of one byte, because a readable name has, before each of the
former, an even number of the latter in the same run of escapes (`Aligned`). The
invariant `LinkInv` has one part for each loop. In the first (`PairsAt`) the URL
up to `pos` is what some first characters of the name are written with, and either
they have no mark of two bytes or the result has none left. In the second
(`SinglesAt`) it has none, and none of the marks of one byte that the URL has
before `pos` (`PassedAt`). When the second loop ends there is no mark left, and
the result is the name (`DecodeEnd`).

Only model-checked:

- Liveness: `Answered`, `Reclaimed`, `Served`, `DoomedDeleted`, `WalkEnds`, `Ends`.
  It is out of the prover's reach.
- `BuildsWritten`: it compares the parser with recursive references (`AsText` and
  `Meaning` of `MCConfigParser`), which no theorem can be about. `AsWritten`, which
  is proved, says of any text what it says of nesting and order; names and
  parameters are left to the run.

## Seen while modelling

Besides the violations that runs show (`findings` in PROJECT.json), the code does
the following, which the models do as well and no run singles out:

- A request that is in the read buffer when its connection is kept alive is not
  read until more bytes come (`client.cpp:82`).
- The socket of another server that disconnects deletes the client at once,
  whatever is in its buffers (`client.cpp:127`).
- A file that `DirList` lists but may not read is an answer with its full length
  and no body (`modules/dirlist.cpp:66`).
- A line of 1023 characters, counted without its end, fills the buffer of
  `readLine`, and its end comes by itself: two blank parts, which end the header
  there (`client.cpp:68`, `client.cpp:70`). The petition is begun before the lines
  behind it are read, and those are taken for requests.
- While an answer is under way, every further line that a peer sends queues another
  header block (`client.cpp:80`, `client.cpp:123`); nothing bounds their number.
- A file that grows after its length was announced is sent up to the end of the
  chunk that passes this length, and one that shrinks is sent as it is: on a kept
  connection the next answer begins where the peer does not look for it
  (`client.cpp:149`, `file.cpp:28`).
- A first line of one word has no second one, which is read nevertheless
  (`request.cpp:52`).
- `Path` takes its part off the path for good: if its next module declines, the
  modules after it see another path (`modules/path.cpp:39`).
- `Server` reads a header that no request has: their keys are lower case
  (`modules/server.cpp:33`). Only an expression that matches the empty string
  lets anything through.
- A file that does not exist is the error page with the status 200
  (`file.cpp:26`); the 404 of `StaticFile` is for files that cannot be opened.
- What follows an ActivateModule in its chain belongs to `Module::null`
  (`modules/conf.cpp:56`) and is never reached.
- A stray `}` ends the configuration without an error (`configparser.cpp:360`),
  and any token is a closing parenthesis (`configparser.cpp:313`).
- An included file with errors that has a root is accepted
  (`modules/include.cpp:34`), a file that includes itself is read without end, and
  a chain may lead from `Module::null` back to itself
  (`ActivateModule -> fake -> ActivateModule`).
- The example of `README.md` is not a configuration: its AuthPAM (`README.md:19`,
  and `doc/MODULES.md:20`) has one parameter where the constructor takes two
  (`modules/authpam.cpp:29`), its blocks (`README.md:22`, `README.md:24`) have no
  semicolon behind them, and `code=404` (`README.md:23`) is not a string.
- `Stats` without a parameter reads the first element of an empty list
  (`modules/stats.cpp:30`).
- `decodeURL` does not lead back to names with a question mark, with characters of
  three bytes or more, with an escape in them that one of their characters is
  written with, and to some in which a two-byte character stands behind an odd
  number of other escapes, such as " é" (`onion.cpp:77`, `Ambiguous`). Neither does it to names with a "#",
  which `encodeURL` does not escape and a browser cuts off as a fragment; this
  character is not among those of the model (`Chars`).
- A directory is listed under an address without its slash too
  (`modules/dirlist.cpp:63`), where its relative links lead beside it. A wrong link
  gets there: that of the directory `x?` opens the directory `x`, if there is one.
- The type of a file belongs to what is behind the first dot of its whole path
  (`mime.cpp:61`): a directory with a dot hides all types below it. The error page
  has the type of the file that is missing (`file.cpp:30`).
- A name with `%0` or `%2` in it moves the columns of its row, since
  `QString::arg` is applied to its own output (`modules/dirlist.cpp:101`).
- `JsonDirList` announces the number of characters of its text, not of its bytes.
- The result of `listen` is not looked at (`daemon.cpp:54`), and a SIGINT handler
  that was `SIG_IGN` before is called as a function (`onion.cpp:43`).
- The runtime parameters of `doc/config.bnf:14` are not parsed; `Allow` takes one
  address where `doc/MODULES.md:14` has several.

## Plan

Done: `Client` with `Exchange`, `Daemon`, `Dispatch`, `ConfigParser` with Includes
and what is deleted when, `Listing`, and proofs about all five, among them the
refinement of `Exchange` and all safety properties but `BuildsWritten`. Nothing is
left of the plan; the next parts of the code worth a module would be the pages
that `Stats` makes and the request that `Proxy` forwards.

## Not modelled

- The SIGINT handler: it interrupts between two instructions, not between two
  slots, and the process ends in it.
- `dlopen` and PAM themselves: whether they succeed is a choice. The conversation
  with PAM copies strings.
- Files that include themselves: the model has no stack to exhaust.
- The text of pages and headers but for links and types, sizes and dates, the
  forwarded request of `Proxy`, logging, line and column numbers, the resources
  compiled in.
