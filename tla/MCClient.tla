------------------------------ MODULE MCClient ------------------------------
(***************************************************************************)
(* Instances of Client for TLC: small answers, requests and environments.  *)
(***************************************************************************)
EXTENDS ClientExchange

\* A file of n units, read back as long as it was when its size was taken.
File(n) == [kind |-> "file", length |-> n, declared |-> n, total |-> n,
            open |-> TRUE]

\* The answer of an other server, n units long.
Proxied(n) == [kind |-> "proxy", length |-> DefaultLength, declared |-> n,
               total |-> n, open |-> TRUE]

\* An unreadable file: its size is declared, nothing can be read.
Unreadable(n) == [File(n) EXCEPT !.open = FALSE]

\* A file of another length than it had when its size was declared.
Resized(n, now) == [File(n) EXCEPT !.total = now]

\* The plugin that sets the header but not the length of its listing.
Uncounted(n) == [File(n) EXCEPT !.length = DefaultLength]

\* The requests.
Plain == <<"get", "header", "blank">>
Keep == <<"get", "keepalive", "blank">>
KeepLong == <<"get", "long", "keepalive", "blank">>

\* The end of a line that just fits is read as two blank parts: the header ends.
Edge == <<"get", "edge">>

FileAnswers == {File(1), File(2), File(5), Uncounted(3)}
MixedAnswers == {Resized(4, 3), Proxied(4), Unreadable(1)}
ShortFile == {File(2)}
EmptyFile == {File(0)}

PoliteShapes == {Plain, Keep, KeepLong}
AnyShapes == {Edge, Keep}
KeepOnly == {Keep}
PlainOnly == {Plain}
=============================================================================
