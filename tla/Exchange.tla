------------------------------ MODULE Exchange ------------------------------
(***************************************************************************)
(* What one connection promises a peer that asks one thing at a time: every *)
(* request is answered once, in full and in order; the connection is kept  *)
(* exactly as long as the peer asks for it, and ended early only when the  *)
(* peer has gone.                                                          *)
(***************************************************************************)
EXTENDS Naturals

VARIABLES
    phase,      \* the server reads a request, answers one, or has closed
    asked,      \* the requests the peer has made
    answers,    \* the requests the server has begun to answer
    left,       \* units of body the peer is still owed
    keep,       \* the last request asked for the connection to be kept
    there       \* the peer has not gone

vars == <<phase, asked, answers, left, keep, there>>

Init ==
    /\ phase = "reading"
    /\ asked = 0
    /\ answers = 0
    /\ left = 0
    /\ keep = FALSE
    /\ there = TRUE

Ask ==
    /\ there
    /\ phase = "reading"
    /\ asked = answers
    /\ asked = 0 \/ keep
    /\ asked' = asked + 1
    /\ keep' \in BOOLEAN
    /\ UNCHANGED <<phase, answers, left, there>>

Begin ==
    /\ phase = "reading"
    /\ answers < asked
    /\ phase' = "answering"
    /\ answers' = answers + 1
    /\ left' \in Nat \ {0}
    /\ UNCHANGED <<asked, keep, there>>

Send ==
    /\ phase = "answering"
    /\ left' \in 0..(left - 1)
    /\ UNCHANGED <<phase, asked, answers, keep, there>>

Keep ==
    /\ phase = "answering"
    /\ left = 0
    /\ keep
    /\ phase' = "reading"
    /\ UNCHANGED <<asked, answers, left, keep, there>>

Close ==
    /\ phase = "answering"
    /\ left = 0
    /\ ~keep
    /\ phase' = "closed"
    /\ UNCHANGED <<asked, answers, left, keep, there>>

Leave ==
    /\ there
    /\ there' = FALSE
    /\ UNCHANGED <<phase, asked, answers, left, keep>>

GiveUp ==
    /\ ~there
    /\ phase # "closed"
    /\ phase' = "closed"
    /\ left' = 0
    /\ UNCHANGED <<asked, answers, keep, there>>

Next == Ask \/ Begin \/ Send \/ Keep \/ Close \/ Leave \/ GiveUp

Spec == Init /\ [][Next]_vars
=============================================================================
