------------------------------ MODULE Channel -------------------------------
(***************************************************************************)
(* What a connection promises to those who send and handle messages: they  *)
(* are received as they were sent, whole and in order.  A message may be   *)
(* lost when it is sent, and everything on its way when the connection is  *)
(* reset.  While the channel is broken nothing is promised.                *)
(***************************************************************************)
EXTENDS Sequences

CONSTANT Messages

VARIABLES
    transit,   \* the messages on their way
    received,  \* the messages handed on so far
    broken     \* the receiver is out of step with the sender

vars == <<transit, received, broken>>

Init == transit = <<>> /\ received = <<>> /\ broken = FALSE

Send(m) ==
    /\ transit' = Append(transit, m)
    /\ UNCHANGED <<received, broken>>

Receive ==
    /\ ~broken
    /\ transit # <<>>
    /\ received' = Append(received, Head(transit))
    /\ transit' = Tail(transit)
    /\ UNCHANGED broken

\* The receiver is, or gets, out of step: it may hand on anything, and misses what
\* passes by.
Misread ==
    /\ broken' = TRUE
    /\ \/ transit' = transit
       \/ transit # <<>> /\ transit' = Tail(transit)

\* The receiver is back in step.
Recover ==
    /\ broken /\ ~broken'
    /\ UNCHANGED <<transit, received>>

Reset ==
    /\ transit' = <<>>
    /\ UNCHANGED <<received, broken>>

Next == (\E m \in Messages : Send(m)) \/ Receive \/ Misread \/ Recover \/ Reset

Spec == Init /\ [][Next]_vars
=============================================================================
