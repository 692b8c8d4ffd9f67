------------------------------ MODULE Listing ------------------------------
(***************************************************************************)
(* A directory that DirList lists and a peer walks through                 *)
(* (src/src/modules/dirlist.cpp): the links, which encodeURL writes and    *)
(* decodeURL reads (src/src/onion.cpp), and the types, which a table from  *)
(* /etc/mime.types gives (src/src/mime.cpp).                               *)
(*                                                                         *)
(* Names, paths and URLs are sequences of characters, each of a kind of    *)
(* its own.  The module is behind the path '^/', which takes the slash that *)
(* paths begin with.  The entries "." and "..", and what a name may do to  *)
(* the HTML around it, are left out.                                       *)
(***************************************************************************)
EXTENDS Integers, Sequences, FiniteSets

CONSTANTS
    Lines,      \* /etc/mime.types: a type and its extensions in each line
    Sites       \* directories to list: the base, and what each directory from
                \* there on holds, by its path, which ends in a slash

Octet == "application/octet-stream"
Untyped == ""

\* What the lines say, and what File says of the rest (mime.cpp:63).
Types == {Octet} \cup {Lines[i].type : i \in DOMAIN Lines}

Digits == {"0", "2", "3", "5", "8", "9"}
Hex == Digits \cup {"A", "C", "E"}
NotAscii == {"eacute", "euro"}
\* "eacute" takes two bytes and "euro" three.  "X" is the upper case of "x", and
\* "other" any character that no name has.  There is no "#": encodeURL leaves it as
\* it is, and the peer takes what is behind it for a fragment and does not ask for it.
Chars == Hex \cup NotAscii \cup {"%", "space", "?", ".", "/", "x", "X", "other"}
Names == Seq(Chars)

\* What a file system gives: no name is empty, has a slash or is there twice.
Entries == [name : Seq(Chars \ {"/"}) \ {<<>>}, isDir : BOOLEAN]

ASSUME LineAssumption ==
    /\ Lines \in Seq([type : STRING, exts : Seq(Names)])
    /\ \A i \in DOMAIN Lines : Lines[i].type # Untyped
ASSUME SiteAssumption ==
    \A s \in Sites :
        /\ s.base \in Names
        /\ <<>> \in DOMAIN s.entries /\ DOMAIN s.entries \subseteq Names
        /\ \A d \in DOMAIN s.entries :
              /\ d # <<>> => d[Len(d)] = "/"
              /\ s.entries[d] \in Seq(Entries)
              /\ \A i, j \in DOMAIN s.entries[d] :
                    s.entries[d][i].name = s.entries[d][j].name => i = j

VARIABLES
    site,       \* the directory
    line,       \* the next line of /etc/mime.types
    mimeMap,    \* the types of extensions, Untyped where one was only asked for
    pc,         \* what the server does, or has done
    url,        \* what the peer has asked for
    dest, pos,  \* decodeURL: the result so far, and the place in url
    path,       \* the path of the request
    rows,       \* the rows of the last listing so far
    followed,   \* the row whose link was followed
    type        \* the type of the last file

vars == <<site, line, mimeMap, pc, url, dest, pos, path, rows, followed, type>>

-----------------------------------------------------------------------------
(* Strings *)

\* QString::replace: every occurrence of what, from the left.
Replace(s, what, by) ==
    LET from[i \in 1..(Len(s) + 1)] ==
            IF i > Len(s) THEN <<>>
            ELSE IF i + Len(what) - 1 <= Len(s) /\ SubSeq(s, i, i + Len(what) - 1) = what
            THEN by \o from[i + Len(what)]
            ELSE <<s[i]>> \o from[i + 1]
    IN  from[1]

\* The places of c, and the part of s before the first, or all.
Places(s, c) == {i \in DOMAIN s : s[i] = c}
Before(s, c) ==
    IF Places(s, c) = {} THEN s
    ELSE SubSeq(s, 1, (CHOOSE i \in Places(s, c) : \A j \in Places(s, c) : i <= j) - 1)

\* Mutant of Extension: the part behind the last dot, or all of a name without.
ExtensionAtLast(name) ==
    LET dots == {0} \cup Places(name, ".")
    IN  SubSeq(name, (CHOOSE i \in dots : \A j \in dots : i >= j) + 1, Len(name))

\* QString::section: the part behind the first dot.
Extension(name) == SubSeq(name, Len(Before(name, ".")) + 2, Len(name))

ToLower(s) == [i \in DOMAIN s |-> IF s[i] = "X" THEN "x" ELSE s[i]]

-----------------------------------------------------------------------------
(* The codec.  A byte is a pair of digits. *)

Escape(byte) == <<"%">> \o byte

\* Mutant of EncodeURL: spaces are replaced first.
EncodeSpacesFirst(str) ==
    Replace(Replace(str, <<"space">>, Escape(<<"2", "0">>)), <<"%">>, Escape(<<"2", "5">>))

\* Mutant of EncodeURL: percent signs are left as they are.
EncodeSpacesOnly(str) == Replace(str, <<"space">>, Escape(<<"2", "0">>))

EncodeURL(str) ==
    Replace(Replace(str, <<"%">>, Escape(<<"2", "5">>)), <<"space">>, Escape(<<"2", "0">>))

\* The bytes of "eacute" in UTF-8.  The peer makes escapes of them, and of those of "euro".
TwoBytes == << <<"C", "3">>, <<"A", "9">> >>
PercentEncode(u) ==
    Replace(Replace(u, <<"eacute">>, Escape(TwoBytes[1]) \o Escape(TwoBytes[2])),
            <<"euro">>, <<"%", "E", "2", "%", "8", "2", "%", "A", "C">>)

\* One character of a byte; those above 127 are Latin letters.
FromLatin1(byte) ==
    CASE byte = <<"2", "0">> -> <<"space">>
      [] byte = <<"2", "5">> -> <<"%">>
      [] OTHER -> <<"other">>

\* The characters of two bytes, with a replacement for what is no UTF-8.
FromUtf8(bytes) ==
    IF bytes = TwoBytes THEN <<"eacute">>
    ELSE FromLatin1(bytes[1]) \o FromLatin1(bytes[2])

IsEscape(s, i) ==
    i + 2 <= Len(s) /\ s[i] = "%" /\ s[i + 1] \in Hex /\ s[i + 2] \in Hex

\* QRegExp::indexIn: where the next n escapes of url begin, if anywhere.
Matches(n) == {i \in pos..Len(url) : \A k \in 0..(n - 1) : IsEscape(url, i + 3 * k)}
IndexIn(n) == CHOOSE i \in Matches(n) : \A j \in Matches(n) : i <= j
Captured(i) == SubSeq(url, i + 1, i + 2)

-----------------------------------------------------------------------------
(* Types *)

\* What operator[] gives, and leaves in the map.
Looked(ext) == IF ext \in DOMAIN mimeMap THEN mimeMap[ext] ELSE Untyped
Asked(ext) == [e \in DOMAIN mimeMap \cup {ext} |-> Looked(e)]

Key(name) == ToLower(Extension(name))
ForFilename(name) == IF Looked(Key(name)) = Untyped THEN Octet ELSE Looked(Key(name))

\* A line is read, which replaces those before it or does not.
LoadTypes(replaces) ==
    /\ pc = "load" /\ line <= Len(Lines)
    /\ LET new == {ToLower(Lines[line].exts[i]) : i \in DOMAIN Lines[line].exts}
       IN  mimeMap' = [e \in DOMAIN mimeMap \cup new |->
                          IF e \in new /\ (replaces \/ e \notin DOMAIN mimeMap)
                          THEN Lines[line].type ELSE mimeMap[e]]
    /\ line' = line + 1
    /\ UNCHANGED <<site, pc, url, dest, pos, path, rows, followed, type>>

\* Mutant of LoadLine: an extension keeps its first type.
LoadLineOnce == LoadTypes(FALSE)

\* The file is read, line after line, before main.
LoadLine == LoadTypes(TRUE)

-----------------------------------------------------------------------------
(* The peer *)

Row(entry, name, href, t) == [entry |-> entry, name |-> name, href |-> href, type |-> t]
Top == Row(<<>>, <<>>, <<>>, "directory")

Ask(u, row) ==
    /\ url' = u
    /\ dest' = u /\ pos' = 1
    /\ followed' = row
    /\ pc' = "pairs"
    /\ UNCHANGED <<site, line, mimeMap, path, rows, type>>

\* It asks for the base, at first or once more.
AskTop ==
    /\ pc \in {"load", "served", "declined"} /\ line > Len(Lines)
    /\ Ask(<<>>, Top)

\* A link is relative to the URL of the page, up to its last slash.
Base ==
    LET u == Before(url, "?")
        slashes == {0} \cup Places(u, "/")
    IN  SubSeq(u, 1, CHOOSE i \in slashes : \A j \in slashes : i >= j)

Follow ==
    /\ pc = "listed"
    /\ \E i \in DOMAIN rows : Ask(Base \o PercentEncode(rows[i].href), rows[i])

-----------------------------------------------------------------------------
(* The server *)

\* A turn of a loop of decodeURL: the next n escapes, wherever they are in the
\* result, are replaced, and the place is moved on.
DecodeNext(n, chars, width) ==
    /\ Matches(n) # {}
    /\ dest' = Replace(dest, SubSeq(url, IndexIn(n), IndexIn(n) + 3 * n - 1), chars)
    /\ pos' = IndexIn(n) + width
    /\ UNCHANGED <<site, line, mimeMap, pc, url, path, rows, followed, type>>

\* Mutant of DecodePair: the place is not moved on.
DecodePairAgain ==
    /\ pc = "pairs"
    /\ DecodeNext(2, FromUtf8(<<Captured(IndexIn(2)), Captured(IndexIn(2) + 3)>>), 0)

\* The first loop: two escapes at a time.
DecodePair ==
    /\ pc = "pairs"
    /\ DecodeNext(2, FromUtf8(<<Captured(IndexIn(2)), Captured(IndexIn(2) + 3)>>), 6)

EndPairs ==
    /\ pc = "pairs" /\ Matches(2) = {}
    /\ pc' = "singles" /\ pos' = 1
    /\ UNCHANGED <<site, line, mimeMap, url, dest, path, rows, followed, type>>

\* Mutant of DecodeSingle: the place is moved on as for two escapes.
DecodeSingleTooFar ==
    pc = "singles" /\ DecodeNext(1, FromLatin1(Captured(IndexIn(1))), 6)

\* The second loop: one at a time, also those that were a half of two.
DecodeSingle ==
    pc = "singles" /\ DecodeNext(1, FromLatin1(Captured(IndexIn(1))), 3)

\* The path ends at a question mark.
EndDecode ==
    /\ pc = "singles" /\ Matches(1) = {}
    /\ pc' = "process" /\ path' = Before(dest, "?")
    /\ UNCHANGED <<site, line, mimeMap, url, dest, pos, rows, followed, type>>

\* The path of a directory may lack its slash.
Directory == IF path \in DOMAIN site.entries THEN path ELSE path \o <<"/">>
IsDirectory == Directory \in DOMAIN site.entries
IsFile ==
    \E d \in DOMAIN site.entries : \E i \in DOMAIN site.entries[d] :
        ~site.entries[d][i].isDir /\ path = d \o site.entries[d][i].name

\* A file is given with the type of its whole name.
ServeFile ==
    /\ pc = "process"
    /\ ~IsDirectory /\ IsFile
    /\ type' = ForFilename(site.base \o path)
    /\ mimeMap' = Asked(Key(site.base \o path))
    /\ pc' = "served"
    /\ UNCHANGED <<site, line, url, dest, pos, path, rows, followed>>

\* There is nothing at the path.
Decline ==
    /\ pc = "process"
    /\ ~IsDirectory /\ ~IsFile
    /\ pc' = "declined"
    /\ UNCHANGED <<site, line, mimeMap, url, dest, pos, path, rows, followed, type>>

\* A listing begins.
List ==
    /\ pc = "process"
    /\ IsDirectory
    /\ rows' = <<>>
    /\ pc' = "list"
    /\ UNCHANGED <<site, line, mimeMap, url, dest, pos, path, followed, type>>

\* QString::arg looks for the lowest of the places %1 to %6, also in a name that
\* it has put in for %2: one below %3 there takes what is meant for the others.
TakesPlace(name) ==
    \E i \in Places(name, "%") :
        \/ /\ i + 1 <= Len(name) /\ name[i + 1] \in {"0", "2"}
           /\ i + 2 > Len(name) \/ name[i + 2] \notin Digits
        \/ /\ i + 2 <= Len(name) /\ name[i + 1] = "0" /\ name[i + 2] \in {"0", "2"}

\* The row of an entry.
ListEntry ==
    /\ pc = "list"
    /\ LET entries == site.entries[Directory]
           entry == entries[Len(rows) + 1]
           filename == IF entry.isDir THEN entry.name \o <<"/">> ELSE entry.name
           shown(t) == IF TakesPlace(entry.name) THEN "elsewhere" ELSE t
       IN  /\ Len(rows) < Len(entries)
           /\ rows' = Append(rows, Row(Directory \o filename, filename, EncodeURL(filename),
                                       shown(IF entry.isDir THEN "directory"
                                             ELSE ForFilename(filename))))
           /\ mimeMap' = IF entry.isDir THEN mimeMap ELSE Asked(Key(filename))
    /\ UNCHANGED <<site, line, pc, url, dest, pos, path, followed, type>>

\* The page is given.
EndList ==
    /\ pc = "list"
    /\ Len(rows) = Len(site.entries[Directory])
    /\ pc' = "listed"
    /\ UNCHANGED <<site, line, mimeMap, url, dest, pos, path, rows, followed, type>>

Init ==
    /\ site \in Sites
    /\ line = 1
    /\ mimeMap = <<>>
    /\ pc = "load"
    /\ url = <<>> /\ dest = <<>> /\ pos = 1 /\ path = <<>>
    /\ rows = <<>>
    /\ followed = Top
    /\ type = Untyped

Server == LoadLine \/ DecodePair \/ EndPairs \/ DecodeSingle \/ EndDecode
          \/ ServeFile \/ Decline \/ List \/ ListEntry \/ EndList

Next == Server \/ AskTop \/ Follow

Spec == Init /\ [][Next]_vars

\* The server runs; the peer need not ask.
FairSpec == Spec /\ WF_vars(Server)
-----------------------------------------------------------------------------
(* Properties *)

\* Every variable keeps its shape; decodeURL stays inside of what it reads, and a
\* listing inside of the directory.
TypeOK ==
    /\ line \in 1..(Len(Lines) + 1)
    /\ DOMAIN mimeMap \subseteq Names
    /\ \A e \in DOMAIN mimeMap : mimeMap[e] \in Types \cup {Untyped}
    /\ pc \in {"load", "pairs", "singles", "process", "list", "listed", "served", "declined"}
    /\ url \in Seq(Chars \ NotAscii) /\ dest \in Names /\ path \in Names
    /\ pos \in 1..(Len(url) + 1)
    /\ rows \in Seq([entry : Names, name : Names, href : Names,
                   type : Types \cup {"directory", "elsewhere"}])
    /\ pc \in {"list", "listed"} =>
          IsDirectory /\ Len(rows) <= Len(site.entries[Directory])
    /\ followed.entry \in Names
    /\ type \in Types \cup {Untyped}

\* The bytes of the escapes that c is written with.
Bytes(c) == CASE c = "space" -> {<<"2", "0">>} [] c = "%" -> {<<"2", "5">>}
              [] c = "eacute" -> {TwoBytes[1], TwoBytes[2]} [] OTHER -> {}

\* What the codec cannot tell: a question mark, which is not encoded; a character
\* of three bytes, which is not decoded; what looks like an escape that a
\* character of the name is written with; and two bytes of which the first is
\* taken together with an escape before it.
Ambiguous(name, i) ==
    \/ name[i] \in {"?", "euro"}
    \/ /\ IsEscape(name, i)
       /\ \E j \in DOMAIN name : <<name[i + 1], name[i + 2]>> \in Bytes(name[j])
    \/ /\ name[i] = "eacute"
       /\ \E first \in 1..i :
            /\ \A j \in first..i : name[j] \in {"eacute", "space", "%"}
            /\ first = 1 \/ name[first - 1] \notin {"eacute", "space", "%"}
            /\ Cardinality({j \in first..i : name[j] # "eacute"}) % 2 = 1
Readable(name) == \A i \in DOMAIN name : ~Ambiguous(name, i)

\* What an entry is asked for with, by the links of pages that are.
Address(entry) == PercentEncode(EncodeURL(entry))

\* A link leads to the entry that it was written for, whatever escapes stand side
\* by side, in how many directories, and though each of them is replaced
\* everywhere (onion.cpp:81, onion.cpp:92, onion.cpp:107).  It does if its page
\* has its own address: one that a wrong link has led to, and that lacks its
\* slash, is listed all the same, and its links lead beside it.
LinkLeadsBack ==
    (/\ pc = "process" /\ url = Address(followed.entry)
     /\ Readable(followed.entry))
        => path = followed.entry

\* No two entries of a listing have the same link, so that each can be asked for
\* (onion.cpp:107).
LinksDiffer ==
    \A i, j \in DOMAIN rows : rows[i].href = rows[j].href => i = j

\* The type that /etc/mime.types gives to a name: that of the last line with its
\* extension.
Written(name) ==
    LET with == {i \in DOMAIN Lines : \E k \in DOMAIN Lines[i].exts :
                    ToLower(Lines[i].exts[k]) = Key(name)}
    IN  IF with = {} THEN Octet
        ELSE Lines[CHOOSE i \in with : \A j \in with : i >= j].type

\* A listing, and the file, have the type that the table gives, however many
\* extensions without a type have been asked for and left in it before
\* (mime.cpp:48, mime.cpp:62).
TypesAsWritten ==
    /\ \A i \in DOMAIN rows :
          rows[i].type \in {"directory", "elsewhere", Written(rows[i].name)}
    /\ pc = "served" => type = Written(site.base \o path)

\* A file has the type that its row has said, if no directory on the way has a
\* dot, and its name does not take a place of the row (mime.cpp:61,
\* dirlist.cpp:96, file.cpp:30).
SameType ==
    (/\ pc = "served" /\ path = followed.entry
     /\ Places(site.base, ".") = {}
     /\ \A i \in Places(path, "/") : \A j \in Places(path, ".") : i < j
     /\ followed.type # "elsewhere")
        => type = followed.type

\* Whatever is asked for, decodeURL comes to an end and there is an answer
\* (onion.cpp:83, onion.cpp:94).
Answered == pc = "pairs" ~> pc \in {"listed", "served", "declined"}
=============================================================================
