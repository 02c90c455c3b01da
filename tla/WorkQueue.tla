----------------------------- MODULE WorkQueue ------------------------------
(***************************************************************************)
(* What RequestBroker promises to those who use it: requests are taken in  *)
(* the order in which they were queued, each by one worker and once, and a *)
(* worker finishes the request it has before it takes another.  Once the   *)
(* broker is closed, the requests that nobody has taken stay behind.       *)
(***************************************************************************)
EXTENDS Naturals, Sequences

CONSTANTS
    Workers,  \* who handles requests
    Requests  \* 1..n, in the order in which they are queued

VARIABLES
    queue,   \* the requests waiting
    busy,    \* busy[w]: the request that w handles, 0 for none
    handled  \* the requests whose handling is over

vars == <<queue, busy, handled>>

\* The request queued last: a request is waiting, being handled or handled.
Known == {queue[i] : i \in 1..Len(queue)} \cup {busy[w] : w \in Workers} \cup handled

Init ==
    /\ queue = <<>>
    /\ busy = [w \in Workers |-> 0]
    /\ handled = {}

Put(r) ==
    /\ r \notin Known
    /\ 1..(r - 1) \subseteq Known
    /\ queue' = Append(queue, r)
    /\ UNCHANGED <<busy, handled>>

Take(w) ==
    /\ busy[w] = 0
    /\ queue # <<>>
    /\ busy' = [busy EXCEPT ![w] = Head(queue)]
    /\ queue' = Tail(queue)
    /\ UNCHANGED handled

Finish(w) ==
    /\ busy[w] # 0
    /\ handled' = handled \cup {busy[w]}
    /\ busy' = [busy EXCEPT ![w] = 0]
    /\ UNCHANGED queue

Next ==
    \/ \E r \in Requests : Put(r)
    \/ \E w \in Workers : Take(w) \/ Finish(w)

Spec == Init /\ [][Next]_vars
=============================================================================
