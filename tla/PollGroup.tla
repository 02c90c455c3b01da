------------------------------ MODULE PollGroup -----------------------------
(***************************************************************************)
(* The event loop of ft_server: PollGroup, with the ConnectionListener,    *)
(* the SignalHandler and the Connections that are registered in it, and    *)
(* the clients and the kernel around it.                                   *)
(*                                                                         *)
(* The loop is one thread, but clients connect, send, close and reset at   *)
(* any of its steps.  What is read from a connection is counted, not       *)
(* looked at.  A connection that the group lets go is destroyed at once:   *)
(* a worker that is just replying on it may delay that.                    *)
(***************************************************************************)
EXTENDS Integers, Sequences, FiniteSets, SequencesExt

CONSTANTS
    Conns,           \* the connections clients make
    Resettable,      \* those that may end with a reset
    MaxInput,        \* bound: bytes of a connection that wait to be read
    max_pollables,   \* MAX_CONNECTIONS + 2
    MaxDescriptors,  \* descriptors the process can have for connections
    Listener,        \* the ConnectionListener
    Signals          \* the SignalHandler

\* The descriptor of a Pollable that has none.
NoFd == "-1"

ASSUME PollAssumption ==
    /\ Resettable \subseteq Conns
    /\ MaxInput \in Nat
    /\ max_pollables \in Nat /\ max_pollables >= 2
    /\ MaxDescriptors \in Nat
    /\ Listener # Signals
    /\ {Listener, Signals} \cap Conns = {}
    /\ NoFd \notin {Listener, Signals} \cup Conns

Pollables == {Listener, Signals} \cup Conns

VARIABLES
    pollables,         \* the Pollables of the group
    cached_pollfd,     \* the array given to poll
    fd_valid,          \* the Pollables whose fd is not -1
    terminate_signal,  \* the flag of the SignalHandler
    i,                 \* the index in the loop of pollAndHandle, from 1
    pc,                \* where the event loop is
    backlog,           \* the connections that wait for accept
    peer,              \* peer[c]: what the client has done with connection c
    input,             \* input[c]: how many bytes wait to be read
    descriptors,       \* the connections whose descriptor is open
    signalled          \* a signal was sent to the process

loopVars == <<pollables, cached_pollfd, fd_valid, terminate_signal, i, pc, descriptors>>
kernelVars == <<backlog, peer, input, signalled>>
vars == <<loopVars, kernelVars>>

Events == {"POLLIN", "POLLERR", "POLLHUP"}

\* An entry of cached_pollfd; the descriptor of a Pollable is named after it.
PollFd == [fd : Pollables \cup {NoFd}, revents : SUBSET Events]

getFD(p) == IF p \in fd_valid THEN p ELSE NoFd

TypeOK ==
    /\ pollables \in Seq(Pollables)
    /\ Len(pollables) <= max_pollables
    /\ cached_pollfd \in Seq(PollFd)
    /\ fd_valid \subseteq Pollables
    /\ terminate_signal \in BOOLEAN
    /\ i \in 1..(max_pollables + 1)
    /\ pc \in {"poll", "scan", "accept", "read", "check", "end"}
    /\ backlog \subseteq Conns
    /\ peer \in [Conns -> {"new", "connected", "closed", "reset"}]
    /\ input \in [Conns -> 0..MaxInput]
    /\ descriptors \subseteq Conns
    /\ signalled \in BOOLEAN

\* main has added the listener and then the signal handler.
Init ==
    /\ pollables = <<Listener, Signals>>
    /\ cached_pollfd = [k \in 1..2 |-> [fd |-> pollables[k], revents |-> {}]]
    /\ fd_valid = Pollables
    /\ terminate_signal = FALSE
    /\ i = 1
    /\ pc = "poll"
    /\ backlog = {}
    /\ peer = [c \in Conns |-> "new"]
    /\ input = [c \in Conns |-> 0]
    /\ descriptors = {}
    /\ signalled = FALSE

-----------------------------------------------------------------------------
(* The clients and the kernel. *)

Connect(c) ==
    /\ peer[c] = "new"
    /\ peer' = [peer EXCEPT ![c] = "connected"]
    /\ backlog' = backlog \cup {c}
    /\ UNCHANGED <<loopVars, input, signalled>>

Send(c) ==
    /\ peer[c] = "connected"
    /\ input[c] < MaxInput
    /\ input' = [input EXCEPT ![c] = @ + 1]
    /\ UNCHANGED <<loopVars, backlog, peer, signalled>>

\* An orderly close, or a reset.
Disconnect(c) ==
    /\ peer[c] = "connected"
    /\ \E how \in {"closed"} \cup (IF c \in Resettable THEN {"reset"} ELSE {}) :
          peer' = [peer EXCEPT ![c] = how]
    /\ UNCHANGED <<loopVars, backlog, input, signalled>>

SendSignal ==
    /\ ~signalled
    /\ signalled' = TRUE
    /\ UNCHANGED <<loopVars, backlog, peer, input>>

\* What poll reports for a descriptor. An orderly close is reported as input.
Revents(p) ==
    IF p = Listener THEN IF backlog # {} THEN {"POLLIN"} ELSE {}
    ELSE IF p = Signals THEN IF signalled /\ ~terminate_signal THEN {"POLLIN"} ELSE {}
    ELSE IF peer[p] = "reset" THEN Events
    ELSE IF input[p] > 0 \/ peer[p] = "closed" THEN {"POLLIN"}
    ELSE {}

-----------------------------------------------------------------------------
(* add and remove rebuild the array and keep the revents that are in it. *)

\* A defect: the descriptors in the array stay where they are.
Rebuilt_stale(list) ==
    [k \in 1..Len(list) |->
        IF k <= Len(cached_pollfd) THEN cached_pollfd[k]
        ELSE [fd |-> getFD(list[k]), revents |-> {}]]

Rebuilt(list) ==
    [k \in 1..Len(list) |->
        [fd      |-> getFD(list[k]),
         revents |-> IF k <= Len(cached_pollfd) THEN cached_pollfd[k].revents ELSE {}]]

SetPollables(list) ==
    /\ pollables' = list
    /\ cached_pollfd' = Rebuilt(list)

-----------------------------------------------------------------------------
(* pollAndHandle, and the loop of main around it. *)

\* poll returns with events, or after its timeout without any.
Poll ==
    LET ready == [k \in 1..Len(cached_pollfd) |->
                     [cached_pollfd[k] EXCEPT !.revents =
                         IF cached_pollfd[k].fd = NoFd THEN {}
                         ELSE Revents(cached_pollfd[k].fd)]]
    IN  /\ pc = "poll"
        /\ cached_pollfd' = ready
        /\ i' = 1
        /\ pc' = IF \E k \in 1..Len(ready) : ready[k].revents # {} THEN "scan" ELSE "poll"
        /\ UNCHANGED <<pollables, fd_valid, terminate_signal, descriptors, kernelVars>>

\* A defect: main does not look at the flag.
EndScan_deaf ==
    /\ pc = "scan"
    /\ i > Len(pollables)
    /\ pc' = "poll"
    /\ UNCHANGED <<pollables, cached_pollfd, fd_valid, terminate_signal, i, descriptors,
                   kernelVars>>

\* The end of pollAndHandle; main looks at the flag of the SignalHandler.
EndScan ==
    /\ pc = "scan"
    /\ i > Len(pollables)
    /\ pc' = IF terminate_signal THEN "end" ELSE "poll"
    /\ UNCHANGED <<pollables, cached_pollfd, fd_valid, terminate_signal, i, descriptors,
                   kernelVars>>

\* An entry without events is passed over.
Skip ==
    /\ pc = "scan"
    /\ i <= Len(pollables)
    /\ cached_pollfd[i].revents = {}
    /\ i' = i + 1
    /\ UNCHANGED <<pollables, cached_pollfd, fd_valid, terminate_signal, pc, descriptors,
                   kernelVars>>

\* SignalHandler::handleEvent does not look at what it reads.
ReadSignals ==
    /\ terminate_signal' = TRUE
    /\ pc' = "check"

\* A defect: handleEvent is called whatever the events are.
HandleEvent_unasked ==
    /\ pc = "scan"
    /\ i <= Len(pollables)
    /\ \/ pollables[i] = Listener /\ pc' = "accept" /\ UNCHANGED terminate_signal
       \/ pollables[i] = Signals /\ ReadSignals
       \/ pollables[i] \in Conns /\ pc' = "read" /\ UNCHANGED terminate_signal
    /\ UNCHANGED <<pollables, cached_pollfd, fd_valid, i, descriptors, kernelVars>>

\* handleEvent of the Pollable at index i is called.
HandleEvent ==
    /\ pc = "scan"
    /\ i <= Len(pollables)
    /\ "POLLIN" \in cached_pollfd[i].revents
    /\ \/ pollables[i] = Listener /\ pc' = "accept" /\ UNCHANGED terminate_signal
       \/ pollables[i] = Signals /\ ReadSignals
       \/ pollables[i] \in Conns /\ pc' = "read" /\ UNCHANGED terminate_signal
    /\ UNCHANGED <<pollables, cached_pollfd, fd_valid, i, descriptors, kernelVars>>

\* One round of the loop of Connection::handleEvent: recv takes one byte. Its client
\* may send the next one before the next round.
Receive ==
    /\ pc = "read"
    /\ input[pollables[i]] > 0
    /\ input' = [input EXCEPT ![pollables[i]] = @ - 1]
    /\ UNCHANGED <<loopVars, backlog, peer, signalled>>

\* A defect: that there is nothing more to read is taken for a failure.
ReceiveEnds_strict ==
    /\ pc = "read"
    /\ input[pollables[i]] = 0 \/ peer[pollables[i]] = "reset"
    /\ fd_valid' = fd_valid \ {pollables[i]}
    /\ pc' = "check"
    /\ UNCHANGED <<pollables, cached_pollfd, terminate_signal, i, descriptors, kernelVars>>

\* The last round: recv finds nothing to read, the end of the stream, or an error,
\* which may come before what was sent ahead of it. At the end of the stream and at
\* an error fd becomes -1 and the descriptor stays open.
ReceiveEnds ==
    /\ pc = "read"
    /\ input[pollables[i]] = 0 \/ peer[pollables[i]] = "reset"
    /\ fd_valid' = IF peer[pollables[i]] = "connected" THEN fd_valid
                   ELSE fd_valid \ {pollables[i]}
    /\ pc' = "check"
    /\ UNCHANGED <<pollables, cached_pollfd, terminate_signal, i, descriptors, kernelVars>>

\* A defect: the limit of the group is not looked at.
Accept_unlimited(c) ==
    /\ pc = "accept"
    /\ Cardinality(descriptors) < MaxDescriptors
    /\ backlog' = backlog \ {c}
    /\ SetPollables(Append(pollables, c))
    /\ descriptors' = descriptors \cup {c}
    /\ UNCHANGED <<fd_valid, terminate_signal, i, pc, peer, input, signalled>>

\* One round of the loop of ConnectionListener::handleEvent. When the group is
\* full, add throws and the new connection is closed.
Accept(c) ==
    /\ pc = "accept"
    /\ Cardinality(descriptors) < MaxDescriptors
    /\ backlog' = backlog \ {c}
    /\ IF Len(pollables) < max_pollables
       THEN /\ SetPollables(Append(pollables, c))
            /\ descriptors' = descriptors \cup {c}
            /\ UNCHANGED pc
       ELSE /\ pc' = "check"
            /\ UNCHANGED <<pollables, cached_pollfd, descriptors>>
    /\ UNCHANGED <<fd_valid, terminate_signal, i, peer, input, signalled>>

\* A defect: the listener gives up its socket when accept fails.
AcceptEnds_gives_up ==
    /\ pc = "accept"
    /\ backlog = {} \/ Cardinality(descriptors) >= MaxDescriptors
    /\ pc' = "check"
    /\ fd_valid' = fd_valid \ {Listener}
    /\ UNCHANGED <<pollables, cached_pollfd, terminate_signal, i, descriptors, kernelVars>>

\* accept fails: nobody waits, or there is no descriptor.
AcceptEnds ==
    /\ pc = "accept"
    /\ backlog = {} \/ Cardinality(descriptors) >= MaxDescriptors
    /\ pc' = "check"
    /\ UNCHANGED <<pollables, cached_pollfd, fd_valid, terminate_signal, i, descriptors,
                   kernelVars>>

\* The Pollable at index i is gone, going by its events or its fd.
Gone ==
    \/ {"POLLERR", "POLLHUP"} \cap cached_pollfd[i].revents # {}
    \/ getFD(pollables[i]) = NoFd

\* A defect: only the first Pollable with events is served in a round.
Keep_first ==
    /\ pc = "check"
    /\ ~Gone
    /\ i' = Len(pollables) + 1
    /\ pc' = "scan"
    /\ UNCHANGED <<pollables, cached_pollfd, fd_valid, terminate_signal, descriptors,
                   kernelVars>>

Keep ==
    /\ pc = "check"
    /\ ~Gone
    /\ i' = i + 1
    /\ pc' = "scan"
    /\ UNCHANGED <<pollables, cached_pollfd, fd_valid, terminate_signal, descriptors,
                   kernelVars>>

\* The Pollable is removed, and its destructor closes the descriptor unless fd
\* is -1. Index i is looked at again, where the revents are still those of the
\* Pollable that was removed.
Drop ==
    /\ pc = "check"
    /\ Gone
    /\ SetPollables(RemoveAt(pollables, i))
    /\ descriptors' = IF getFD(pollables[i]) = NoFd THEN descriptors
                      ELSE descriptors \ {pollables[i]}
    /\ pc' = "scan"
    /\ UNCHANGED <<fd_valid, terminate_signal, i, kernelVars>>

-----------------------------------------------------------------------------
Ended == pc = "end" /\ UNCHANGED vars

LoopStep ==
    \/ Poll \/ EndScan \/ Skip \/ HandleEvent
    \/ (\E c \in backlog : Accept(c))
    \/ AcceptEnds \/ Receive \/ ReceiveEnds \/ Keep \/ Drop

Next ==
    \/ LoopStep
    \/ \E c \in Conns : Connect(c) \/ Send(c) \/ Disconnect(c)
    \/ SendSignal
    \/ Ended

Spec == Init /\ [][Next]_vars

\* The event loop keeps running; clients and signals are free.
FairSpec == Spec /\ WF_vars(LoopStep)

-----------------------------------------------------------------------------
(* Properties. *)

InGroup(p) == \E k \in 1..Len(pollables) : pollables[k] = p

\* Whenever poll is called every Pollable of the group is polled, once and under
\* its own valid descriptor, after whatever additions and removals there were in
\* the round before.
PolledIsRegistered ==
    pc = "poll" =>
        /\ Len(cached_pollfd) = Len(pollables)
        /\ \A k \in 1..Len(pollables) :
              pollables[k] \in fd_valid /\ cached_pollfd[k].fd = pollables[k]
        /\ \A j, k \in 1..Len(pollables) : pollables[j] = pollables[k] => j = k

\* The listener and the signal handler stay in the group for good: events that
\* remove left behind at an index only reach what was added after them.
ServicesStay == InGroup(Listener) /\ InGroup(Signals)

\* The loop ends for a signal, never for the events of another Pollable.
EndsForSignal == terminate_signal => signalled

\* "The connection is closed or not longer valid. So, remove the Pollable from the
\* PollGroup": a connection that its client has not ended is not removed.
OnlyEndedRemoved ==
    [][\A c \in Conns : InGroup(c) /\ ~InGroup(c)' => peer[c] # "connected"]_vars

\* As long as no connection was reset, that is so: the events an orderly close leaves
\* behind at its index make the loop read the next connection for nothing, and do
\* not remove it.
OrderlyCloseHarmless ==
    [][(\A d \in Conns : peer[d] # "reset") =>
          \A c \in Conns : InGroup(c) /\ ~InGroup(c)' => peer[c] # "connected"]_vars

\* Connection::handleEvent returns when it finds nothing more to read. A client that
\* always has the next byte there in time keeps the loop on its connection, and the
\* code has nothing against it: the properties below except this case, and no other.
Outpaced == <>[](pc = "read")

\* A signal ends the loop, whatever the clients do, unless one outpaces it for ever.
SignalEndsLoop == (signalled ~> pc = "end") \/ Outpaced

\* What a client sends on a connection of the group is read, unless it ends the
\* connection, the group drops it, a signal is sent or a client outpaces the
\* loop for ever.
InputIsRead ==
    \A c \in Conns :
        \/ InGroup(c) /\ input[c] > 0
              ~> input[c] = 0 \/ peer[c] # "connected" \/ ~InGroup(c) \/ signalled
        \/ Outpaced

\* The group has room for the maximum number of connections: a client that waits is
\* accepted, or turned away when the group is full, unless a signal is sent or a
\* client outpaces the loop for ever.
ClientIsAccepted ==
    \A c \in Conns : (c \in backlog ~> c \notin backlog \/ signalled) \/ Outpaced
=============================================================================
