-------------------------- MODULE PollGroupProofs ---------------------------
(***************************************************************************)
(* Proofs about PollGroup, for any number of connections and any limit of  *)
(* the group: the type invariant, that poll is always given the group as   *)
(* it is, that the listener and the signal handler stay, that only a       *)
(* signal ends the loop, and that an orderly close harms nobody else.      *)
(***************************************************************************)
EXTENDS PollGroup, TLAPS

Size == Len(pollables)

\* The listener is first, the signal handler second, and each Pollable is there once.
GroupInv ==
    /\ Size >= 2
    /\ pollables[1] = Listener
    /\ pollables[2] = Signals
    /\ \A j, k \in 1..Size : pollables[j] = pollables[k] => j = k

\* Where the loop is in the group.
IndexInv ==
    /\ pc = "scan" => i <= Size + 1
    /\ pc \in {"accept", "read", "check"} => i <= Size
    /\ pc = "accept" => i = 1
    /\ pc = "read" => pollables[i] \in Conns

\* The array is that of the group. Only the Pollable that is being checked may have
\* lost its descriptor.
ArrayInv ==
    /\ Len(cached_pollfd) = Size
    /\ \A k \in 1..Size :
          /\ cached_pollfd[k].fd = pollables[k]
          /\ pollables[k] \in fd_valid \/ (pc = "check" /\ k = i)

\* A connection that was not accepted has its descriptor and is not in the group, and
\* one that has lost its descriptor was ended by its client.
ConnsInv ==
    \A c \in Conns :
        /\ peer[c] = "new" => c \notin backlog
        /\ peer[c] = "new" \/ c \in backlog =>
              c \in fd_valid /\ \A k \in 1..Size : pollables[k] # c
        /\ c \notin fd_valid => peer[c] \in {"closed", "reset"}

\* The listener and the signal handler only ever have input, the signal handler only
\* after a signal, and an error means that some connection was reset.
EventsInv ==
    /\ {Listener, Signals} \subseteq fd_valid
    /\ cached_pollfd[1].revents \subseteq {"POLLIN"}
    /\ cached_pollfd[2].revents \subseteq {"POLLIN"}
    /\ cached_pollfd[2].revents # {} => signalled
    /\ \A k \in 1..Size :
          {"POLLERR", "POLLHUP"} \cap cached_pollfd[k].revents # {} =>
              \E d \in Conns : peer[d] = "reset"

\* The invariant that the others follow from.
Inv ==
    /\ TypeOK
    /\ GroupInv
    /\ IndexInv
    /\ ArrayInv
    /\ ConnsInv
    /\ EventsInv
    /\ EndsForSignal

-----------------------------------------------------------------------------
(* Sequences, and the array rebuilt from one. *)

\* What RemoveAt leaves.
LEMMA RemoveAtFacts ==
    ASSUME NEW S, NEW s \in Seq(S), NEW n \in 1..Len(s)
    PROVE  /\ RemoveAt(s, n) \in Seq(S)
           /\ Len(RemoveAt(s, n)) = Len(s) - 1
           /\ \A k \in 1..(Len(s) - 1) :
                 RemoveAt(s, n)[k] = IF k < n THEN s[k] ELSE s[k + 1]
<1> DEFINE a == SubSeq(s, 1, n - 1)
           b == SubSeq(s, n + 1, Len(s))
<1>1. a \in Seq(S) /\ Len(a) = n - 1 /\ \A k \in 1..(n - 1) : a[k] = s[k]
  OBVIOUS
<1>2. b \in Seq(S) /\ Len(b) = Len(s) - n /\ \A k \in 1..(Len(s) - n) : b[k] = s[n + k]
  OBVIOUS
<1> HIDE DEF a, b
<1>3. a \o b \in Seq(S) /\ Len(a \o b) = Len(s) - 1
  <2>1. a \in Seq(S) /\ b \in Seq(S)
    BY <1>1, <1>2
  <2>2. a \o b \in Seq(S)
    BY <2>1
  <2>3. Len(a \o b) = Len(a) + Len(b)
    BY <2>1
  <2> QED
    BY <1>1, <1>2, <2>2, <2>3
<1>4. \A k \in 1..(Len(s) - 1) : (a \o b)[k] = IF k < n THEN s[k] ELSE s[k + 1]
  BY <1>1, <1>2
<1> QED
  BY <1>3, <1>4 DEF RemoveAt, a, b

\* What the rebuilt array holds, for Pollables that have their descriptors.
LEMMA RebuiltFacts ==
    ASSUME TypeOK, NEW list \in Seq(Pollables),
           \A k \in 1..Len(list) : list[k] \in fd_valid
    PROVE  /\ Rebuilt(list) \in Seq(PollFd)
           /\ Len(Rebuilt(list)) = Len(list)
           /\ \A k \in 1..Len(list) :
                 /\ Rebuilt(list)[k].fd = list[k]
                 /\ Rebuilt(list)[k].revents =
                       IF k <= Len(cached_pollfd) THEN cached_pollfd[k].revents ELSE {}
<1>1. \A k \in 1..Len(list) : getFD(list[k]) = list[k] /\ list[k] \in Pollables
  BY DEF getFD
<1>2. \A k \in 1..Len(cached_pollfd) : cached_pollfd[k].revents \in SUBSET Events
  <2>1. cached_pollfd \in Seq(PollFd)
    BY DEF TypeOK
  <2>2. \A k \in 1..Len(cached_pollfd) : cached_pollfd[k] \in PollFd
    BY <2>1
  <2> QED
    BY <2>2 DEF PollFd
<1>3. \A k \in 1..Len(list) :
         [fd      |-> getFD(list[k]),
          revents |-> IF k <= Len(cached_pollfd) THEN cached_pollfd[k].revents ELSE {}]
         \in PollFd
  BY <1>1, <1>2 DEF PollFd, TypeOK
<1>4. Rebuilt(list) \in Seq(PollFd) /\ Len(Rebuilt(list)) = Len(list)
  BY <1>3 DEF Rebuilt
<1> QED
  BY <1>1, <1>4 DEF Rebuilt

-----------------------------------------------------------------------------
(* The clients and the kernel leave the loop alone. *)

\* What a client or the kernel does preserves Inv.
LEMMA KernelInv ==
    ASSUME Inv, UNCHANGED loopVars,
           SendSignal \/ \E c \in Conns : Connect(c) \/ Send(c) \/ Disconnect(c)
    PROVE  Inv'
<1>1. /\ backlog' \subseteq Conns
      /\ peer' \in [Conns -> {"new", "connected", "closed", "reset"}]
      /\ input' \in [Conns -> 0..MaxInput]
      /\ signalled' \in BOOLEAN
  <2> USE PollAssumption DEF Inv, TypeOK
  <2>1. CASE SendSignal
    BY <2>1 DEF SendSignal
  <2>2. ASSUME NEW c \in Conns, Connect(c) PROVE <1>1!:
    BY <2>2 DEF Connect
  <2>3. ASSUME NEW c \in Conns, Send(c) PROVE <1>1!:
    BY <2>3 DEF Send
  <2>4. ASSUME NEW c \in Conns, Disconnect(c) PROVE <1>1!:
    BY <2>4 DEF Disconnect
  <2> QED
    BY <2>1, <2>2, <2>3, <2>4
<1>2. TypeOK'
  BY <1>1 DEF Inv, TypeOK, loopVars
<1>3. GroupInv' /\ IndexInv' /\ ArrayInv'
  BY DEF Inv, GroupInv, IndexInv, ArrayInv, Size, loopVars
<1>4. ConnsInv'
  BY DEF Inv, TypeOK, ConnsInv, Size, loopVars, SendSignal, Connect, Send, Disconnect
<1>5. signalled => signalled'
  BY DEF SendSignal, Connect, Send, Disconnect
<1>6. (\E d \in Conns : peer[d] = "reset") => \E d \in Conns : peer'[d] = "reset"
  BY DEF Inv, TypeOK, SendSignal, Connect, Send, Disconnect
<1>7. EventsInv' /\ EndsForSignal'
  BY <1>5, <1>6 DEF Inv, EventsInv, EndsForSignal, Size, loopVars
<1> QED
  BY <1>2, <1>3, <1>4, <1>7 DEF Inv

-----------------------------------------------------------------------------
(* The steps of the loop. *)

\* The elements of the group and of the array have their types.
LEMMA Elements ==
    ASSUME TypeOK, GroupInv, ArrayInv
    PROVE  /\ \A k \in 1..Size : pollables[k] \in Pollables /\ cached_pollfd[k] \in PollFd
           /\ \A k \in 1..Size : k > 2 => pollables[k] \in Conns
<1>1. pollables \in Seq(Pollables) /\ cached_pollfd \in Seq(PollFd)
  BY DEF TypeOK
<1>2. \A k \in 1..Size : pollables[k] \in Pollables /\ cached_pollfd[k] \in PollFd
  BY <1>1 DEF ArrayInv, Size
<1>3. Size \in Nat
  BY <1>1 DEF Size
<1>4. \A k \in 1..Size : k > 2 => pollables[k] # Listener /\ pollables[k] # Signals
  BY <1>3 DEF GroupInv
<1> QED
  BY <1>2, <1>4 DEF Pollables

\* What poll can report.
LEMMA ReventsFacts ==
    ASSUME NEW p \in Pollables
    PROVE  /\ Revents(p) \subseteq Events
           /\ p \in {Listener, Signals} => Revents(p) \subseteq {"POLLIN"}
           /\ p = Signals /\ Revents(p) # {} => signalled
           /\ {"POLLERR", "POLLHUP"} \cap Revents(p) # {} => p \in Conns /\ peer[p] = "reset"
  BY PollAssumption DEF Revents, Events, Pollables

\* poll is given the group and replaces all events.
LEMMA PollInv ==
    ASSUME Inv, Poll
    PROVE  Inv'
<1>1. /\ Size \in Nat /\ Len(cached_pollfd) = Size
      /\ \A k \in 1..Size : /\ cached_pollfd[k] \in PollFd
                            /\ cached_pollfd[k].fd = pollables[k]
                            /\ pollables[k] \in Pollables
                            /\ pollables[k] # NoFd
                            /\ pollables[k] \in fd_valid
  BY Elements, PollAssumption DEF Inv, Poll, ArrayInv, Size, TypeOK, Pollables
<1>2. /\ Len(cached_pollfd') = Size
      /\ \A k \in 1..Size :
            cached_pollfd'[k] = [cached_pollfd[k] EXCEPT !.revents = Revents(pollables[k])]
  BY <1>1 DEF Poll
<1>3. \A k \in 1..Size : /\ cached_pollfd'[k] \in PollFd
                         /\ cached_pollfd'[k].fd = pollables[k]
                         /\ cached_pollfd'[k].revents = Revents(pollables[k])
  BY <1>1, <1>2, ReventsFacts DEF PollFd
<1>4. cached_pollfd' \in Seq(PollFd)
  <2>1. cached_pollfd' = [k \in 1..Size |-> cached_pollfd'[k]]
    BY <1>1 DEF Poll
  <2> QED
    BY <1>1, <1>3, <2>1
<1>5. UNCHANGED <<pollables, fd_valid, terminate_signal, descriptors, kernelVars>>
  BY DEF Poll
<1>6. i' = 1 /\ pc' \in {"scan", "poll"}
  BY DEF Poll
<1>7. TypeOK'
  BY <1>4, <1>5, <1>6, PollAssumption DEF Inv, TypeOK, kernelVars
<1>8. GroupInv' /\ IndexInv' /\ ArrayInv' /\ ConnsInv' /\ EndsForSignal'
  BY <1>1, <1>2, <1>3, <1>5, <1>6
     DEF Inv, GroupInv, IndexInv, ArrayInv, ConnsInv, EndsForSignal, Size, kernelVars
<1>9. EventsInv'
  <2>1. 1 \in 1..Size /\ 2 \in 1..Size
    BY <1>1 DEF Inv, GroupInv
  <2>2. Size' = Size
    BY <1>5 DEF Size
  <2> QED
    BY <1>1, <1>3, <1>5, <2>1, <2>2, ReventsFacts DEF Inv, GroupInv, EventsInv, kernelVars
<1> QED
  BY <1>7, <1>8, <1>9 DEF Inv

\* The steps that only move on.
LEMMA MoveInv ==
    ASSUME Inv, EndScan \/ Skip \/ AcceptEnds \/ Keep
    PROVE  Inv'
<1>1. UNCHANGED <<pollables, cached_pollfd, fd_valid, terminate_signal, descriptors, kernelVars>>
  BY DEF EndScan, Skip, AcceptEnds, Keep
<1>2. Size \in Nat /\ Size <= max_pollables /\ i \in Nat /\ i >= 1 /\ Size' = Size
  BY <1>1, PollAssumption DEF Inv, TypeOK, Size
<1>3. /\ pc' \in {"poll", "scan", "check", "end"}
      /\ i' \in {i, i + 1}
      /\ pc' = "scan" => i' <= Size + 1
      /\ pc' = "check" => i' <= Size
      /\ i' = i + 1 => i <= Size
  BY <1>2 DEF Inv, IndexInv, EndScan, Skip, AcceptEnds, Keep, Size
<1>4. i' \in 1..(max_pollables + 1)
  BY <1>2, <1>3, PollAssumption DEF Inv, TypeOK
<1>5. TypeOK' /\ GroupInv' /\ IndexInv' /\ ConnsInv' /\ EventsInv' /\ EndsForSignal'
  <2>1. TypeOK'
    BY <1>1, <1>3, <1>4 DEF Inv, TypeOK, kernelVars
  <2>2. IndexInv'
    BY <1>2, <1>3 DEF IndexInv
  <2>3. GroupInv' /\ ConnsInv' /\ EventsInv' /\ EndsForSignal'
    BY <1>1 DEF Inv, GroupInv, ConnsInv, EventsInv, EndsForSignal, Size, kernelVars
  <2> QED
    BY <2>1, <2>2, <2>3
<1>6. \A k \in 1..Size : pollables[k] \in fd_valid \/ (pc' = "check" /\ k = i')
  <2>1. CASE pc = "check"
    <3>1. Keep
      BY <2>1 DEF EndScan, Skip, AcceptEnds, Keep
    <3>2. getFD(pollables[i]) # NoFd
      BY <3>1 DEF Keep, Gone
    <3> QED
      BY <2>1, <3>2 DEF Inv, ArrayInv, getFD
  <2>2. CASE pc # "check"
    BY <2>2 DEF Inv, ArrayInv
  <2> QED
    BY <2>1, <2>2
<1> QED
  BY <1>1, <1>2, <1>5, <1>6 DEF Inv, ArrayInv

\* Handling the listener leaves the loop at index 1; handling the signal handler is
\* due to a signal.
LEMMA HandleEventInv ==
    ASSUME Inv, HandleEvent
    PROVE  Inv'
<1>1. UNCHANGED <<pollables, cached_pollfd, fd_valid, i, descriptors, kernelVars>>
  BY DEF HandleEvent
<1>2. /\ Size \in Nat /\ Size' = Size
      /\ pc = "scan" /\ i \in 1..Size
      /\ cached_pollfd[i].revents # {}
  BY <1>1 DEF HandleEvent, Inv, TypeOK, Size
<1>3. /\ pc' = "accept" => i = 1
      /\ pc' = "read" => pollables[i] \in Conns
      /\ pc' \in {"accept", "read", "check"}
  <2>1. pollables[i] = Listener => i = 1
    BY <1>2 DEF Inv, GroupInv
  <2> QED
    BY <2>1 DEF HandleEvent, ReadSignals
<1>4. terminate_signal' \in BOOLEAN /\ EndsForSignal'
  <2>1. pollables[i] = Signals => i = 2
    BY <1>2 DEF Inv, GroupInv
  <2>2. pollables[i] = Signals => signalled
    BY <1>2, <2>1 DEF Inv, EventsInv
  <2>3. \/ terminate_signal' = terminate_signal
        \/ pollables[i] = Signals /\ terminate_signal' = TRUE
    BY Zenon DEF HandleEvent, ReadSignals
  <2>4. terminate_signal \in BOOLEAN /\ EndsForSignal /\ signalled' = signalled
    BY <1>1 DEF Inv, TypeOK, kernelVars
  <2>5. CASE terminate_signal' = terminate_signal
    BY <2>4, <2>5, Zenon DEF EndsForSignal
  <2>6. CASE pollables[i] = Signals /\ terminate_signal' = TRUE
    BY <2>2, <2>4, <2>6, Zenon DEF EndsForSignal
  <2> QED
    BY <2>3, <2>5, <2>6
<1>5. TypeOK'
  BY <1>1, <1>3, <1>4 DEF Inv, TypeOK, kernelVars
<1>6. GroupInv' /\ IndexInv' /\ ArrayInv'
  BY <1>1, <1>2, <1>3 DEF Inv, GroupInv, IndexInv, ArrayInv
<1>7. ConnsInv' /\ EventsInv'
  BY <1>1, <1>2 DEF Inv, ConnsInv, EventsInv, kernelVars
<1> QED
  BY <1>4, <1>5, <1>6, <1>7 DEF Inv

\* A connection loses its descriptor only when its client has ended it, and then the
\* loop goes on to check it.
LEMMA ReceiveInv ==
    ASSUME Inv, Receive \/ ReceiveEnds
    PROVE  Inv'
<1> DEFINE c == pollables[i]
<1>1. UNCHANGED <<pollables, cached_pollfd, terminate_signal, i, descriptors, backlog, peer,
                  signalled>>
  BY DEF Receive, ReceiveEnds, loopVars, kernelVars
<1>2. /\ Size \in Nat /\ Size' = Size
      /\ pc = "read" /\ i \in 1..Size
      /\ c \in Conns
  BY <1>1 DEF Receive, ReceiveEnds, Inv, TypeOK, IndexInv, Size
<1>3. peer[c] # "new" /\ c \notin backlog
  BY <1>2 DEF Inv, ConnsInv
<1>4. /\ GroupInv' /\ Size >= 2
      /\ \A k \in 1..Size : cached_pollfd[k].fd = pollables[k] /\ pollables[k] \in fd_valid
  BY <1>1, <1>2 DEF Inv, GroupInv, ArrayInv, Size
<1>5. CASE Receive
  <2>1. pc' = pc /\ fd_valid' = fd_valid
    BY <1>5 DEF Receive, loopVars
  <2>2. input' \in [Conns -> 0..MaxInput]
    BY <1>2, <1>5, PollAssumption DEF Receive, Inv, TypeOK
  <2>3. TypeOK'
    BY <1>1, <2>1, <2>2 DEF Inv, TypeOK
  <2>4. IndexInv' /\ ArrayInv' /\ ConnsInv' /\ EventsInv' /\ EndsForSignal'
    BY <1>1, <1>2, <2>1 DEF Inv, IndexInv, ArrayInv, ConnsInv, EventsInv, EndsForSignal
  <2> QED
    BY <1>4, <2>3, <2>4 DEF Inv
<1>6. CASE ReceiveEnds
  <2>1. /\ fd_valid' = IF peer[c] = "connected" THEN fd_valid ELSE fd_valid \ {c}
        /\ pc' = "check" /\ input' = input
    BY <1>6 DEF ReceiveEnds, kernelVars
  <2> HIDE DEF c
  <2>2. TypeOK'
    BY <1>1, <2>1 DEF Inv, TypeOK
  <2>3. IndexInv'
    BY <1>1, <1>2, <2>1 DEF IndexInv
  <2>4. ArrayInv'
    <3>1. \A k \in 1..Size : k # i => pollables[k] # c
      BY <1>2 DEF Inv, GroupInv, c
    <3>2. \A k \in 1..Size : pollables[k] \in fd_valid' \/ k = i
      BY <1>4, <2>1, <3>1
    <3> QED
      BY <1>1, <1>2, <1>4, <2>1, <3>2 DEF Inv, ArrayInv
  <2>5. ConnsInv'
    <3>1. peer[c] # "connected" => peer[c] \in {"closed", "reset"}
      BY <1>2, <1>3 DEF Inv, TypeOK
    <3> QED
      BY <1>1, <1>2, <1>3, <2>1, <3>1 DEF Inv, ConnsInv
  <2>6. EventsInv' /\ EndsForSignal'
    BY <1>1, <1>2, <2>1, PollAssumption DEF Inv, EventsInv, EndsForSignal
  <2> QED
    BY <1>4, <2>2, <2>3, <2>4, <2>5, <2>6 DEF Inv
<1> QED
  BY <1>5, <1>6

\* A connection that is accepted goes to the end of the group; one that does not fit
\* goes nowhere.
LEMMA AcceptInv ==
    ASSUME Inv, NEW c \in backlog, Accept(c)
    PROVE  Inv'
<1>1. /\ UNCHANGED <<fd_valid, terminate_signal, i, peer, input, signalled>>
      /\ backlog' = backlog \ {c}
      /\ pc = "accept"
  BY DEF Accept
<1>2. /\ c \in Conns /\ c \in fd_valid /\ c \in Pollables
      /\ peer[c] # "new"
      /\ \A k \in 1..Size : pollables[k] # c
      /\ Size \in Nat /\ Size >= 2
      /\ Len(cached_pollfd) = Size
      /\ i = 1
      /\ \A k \in 1..Size : cached_pollfd[k].fd = pollables[k] /\ pollables[k] \in fd_valid
  BY <1>1 DEF Inv, TypeOK, ConnsInv, GroupInv, ArrayInv, IndexInv, Size, Pollables
<1>3. CASE Len(pollables) < max_pollables
  <2> DEFINE list == Append(pollables, c)
  <2>1. /\ list \in Seq(Pollables) /\ Len(list) = Size + 1
        /\ \A k \in 1..Size : list[k] = pollables[k]
        /\ list[Size + 1] = c
    BY <1>2 DEF Inv, TypeOK, Size
  <2>2. /\ pollables' = list /\ cached_pollfd' = Rebuilt(list)
        /\ descriptors' = descriptors \cup {c} /\ pc' = pc
    BY <1>3 DEF Accept, SetPollables
  <2> HIDE DEF list
  <2>3. \A k \in 1..Len(list) : list[k] \in fd_valid
    BY <1>2, <2>1
  <2>4. /\ cached_pollfd' \in Seq(PollFd)
        /\ Len(cached_pollfd') = Size + 1
        /\ \A k \in 1..(Size + 1) :
              /\ cached_pollfd'[k].fd = list[k]
              /\ cached_pollfd'[k].revents =
                    IF k <= Size THEN cached_pollfd[k].revents ELSE {}
    BY <1>2, <2>1, <2>2, <2>3, RebuiltFacts DEF Inv
  <2>5. Size' = Size + 1
    BY <2>1, <2>2 DEF Size
  <2>6. TypeOK'
    <3>1. pollables' \in Seq(Pollables) /\ Len(pollables') <= max_pollables
      BY <1>2, <1>3, <2>1, <2>2, PollAssumption DEF Size
    <3>2. backlog' \subseteq Conns /\ descriptors' \subseteq Conns
      BY <1>1, <1>2, <2>2 DEF Inv, TypeOK
    <3> QED
      BY <1>1, <2>2, <2>4, <3>1, <3>2 DEF Inv, TypeOK
  <2>7. GroupInv'
    BY <1>2, <2>1, <2>2, <2>5 DEF Inv, GroupInv
  <2>8. IndexInv' /\ ArrayInv'
    BY <1>1, <1>2, <2>2, <2>3, <2>4, <2>5, <2>1 DEF IndexInv, ArrayInv
  <2>9. ConnsInv'
    <3>1. ASSUME NEW d \in Conns, d # c, peer[d] = "new" \/ d \in backlog
          PROVE  d \in fd_valid /\ \A k \in 1..(Size + 1) : list[k] # d
      BY <1>2, <2>1, <3>1 DEF Inv, ConnsInv
    <3> QED
      BY <1>1, <1>2, <2>2, <2>5, <3>1 DEF Inv, ConnsInv
  <2>10. EventsInv' /\ EndsForSignal'
    BY <1>1, <1>2, <2>4, <2>5 DEF Inv, EventsInv, EndsForSignal
  <2> QED
    BY <2>6, <2>7, <2>8, <2>9, <2>10 DEF Inv
<1>4. CASE ~(Len(pollables) < max_pollables)
  <2>1. pc' = "check" /\ UNCHANGED <<pollables, cached_pollfd, descriptors>>
    BY <1>4 DEF Accept
  <2>2. TypeOK' /\ EndsForSignal'
    BY <1>1, <2>1 DEF Inv, TypeOK, EndsForSignal
  <2>3. GroupInv' /\ IndexInv' /\ ArrayInv'
    BY <1>1, <1>2, <2>1 DEF Inv, GroupInv, IndexInv, ArrayInv, Size
  <2>4. ConnsInv' /\ EventsInv'
    BY <1>1, <1>2, <2>1 DEF Inv, ConnsInv, EventsInv, Size
  <2> QED
    BY <2>2, <2>3, <2>4 DEF Inv
<1> QED
  BY <1>3, <1>4

\* A Pollable that is removed is a connection. If no connection was reset, its client
\* has ended it.
LEMMA GoneIsConnection ==
    ASSUME Inv, pc = "check", Gone
    PROVE  /\ i \in 3..Size
           /\ pollables[i] \in Conns
           /\ (\A d \in Conns : peer[d] # "reset") => peer[pollables[i]] # "connected"
<1>1. Size \in Nat /\ i \in 1..Size
  BY DEF Inv, TypeOK, IndexInv, Size
<1>2. i # 1 /\ i # 2
  <2>1. getFD(Listener) # NoFd /\ getFD(Signals) # NoFd
    BY PollAssumption DEF Inv, EventsInv, getFD
  <2> QED
    BY <2>1 DEF Gone, Inv, GroupInv, EventsInv
<1>3. pollables[i] \in Conns
  BY <1>1, <1>2, Elements DEF Inv
<1>4. ASSUME \A d \in Conns : peer[d] # "reset" PROVE peer[pollables[i]] # "connected"
  <2>1. getFD(pollables[i]) = NoFd
    BY <1>1, <1>4 DEF Gone, Inv, EventsInv
  <2>2. pollables[i] \notin fd_valid
    BY <1>3, <2>1, PollAssumption DEF getFD
  <2> QED
    BY <1>3, <2>2 DEF Inv, ConnsInv
<1> QED
  BY <1>1, <1>2, <1>3, <1>4

\* What is behind the removed connection moves up, and the events stay where they are.
LEMMA DropInv ==
    ASSUME Inv, Drop
    PROVE  Inv'
<1> DEFINE list == RemoveAt(pollables, i)
<1>1. /\ UNCHANGED <<fd_valid, terminate_signal, i, kernelVars>>
      /\ pollables' = list /\ cached_pollfd' = Rebuilt(list)
      /\ descriptors' \subseteq descriptors
      /\ pc = "check" /\ pc' = "scan" /\ Gone
  BY DEF Drop, SetPollables
<1>2. i \in 3..Size /\ Size \in Nat /\ Len(cached_pollfd) = Size
  BY <1>1, GoneIsConnection DEF Inv, TypeOK, ArrayInv, Size
<1>3. /\ list \in Seq(Pollables)
      /\ Len(list) = Size - 1
      /\ \A k \in 1..(Size - 1) : list[k] = IF k < i THEN pollables[k] ELSE pollables[k + 1]
  <2>1. pollables \in Seq(Pollables) /\ i \in 1..Len(pollables)
    BY <1>2 DEF Inv, TypeOK, Size
  <2> QED
    BY <2>1, RemoveAtFacts DEF Size
<1> HIDE DEF list
<1>4. \A k \in 1..Size : k # i => pollables[k] \in fd_valid
  BY DEF Inv, ArrayInv
<1>5. \A k \in 1..Len(list) : list[k] \in fd_valid
  BY <1>2, <1>3, <1>4
<1>6. /\ cached_pollfd' \in Seq(PollFd)
      /\ Len(cached_pollfd') = Size - 1
      /\ \A k \in 1..(Size - 1) : /\ cached_pollfd'[k].fd = list[k]
                                  /\ cached_pollfd'[k].revents = cached_pollfd[k].revents
  BY <1>1, <1>2, <1>3, <1>5, RebuiltFacts DEF Inv
<1>7. Size' = Size - 1
  BY <1>1, <1>3 DEF Size
<1>8. TypeOK'
  <2>1. Len(pollables') <= max_pollables
    BY <1>1, <1>2, <1>3, PollAssumption DEF Inv, TypeOK, Size
  <2>2. descriptors' \subseteq Conns
    BY <1>1 DEF Inv, TypeOK
  <2> QED
    BY <1>1, <1>3, <1>6, <2>1, <2>2 DEF Inv, TypeOK, kernelVars
<1>9. GroupInv'
  <2>1. \A j, k \in 1..(Size - 1) : list[j] = list[k] => j = k
    BY <1>2, <1>3 DEF Inv, GroupInv
  <2> QED
    BY <1>1, <1>2, <1>3, <1>7, <2>1 DEF Inv, GroupInv
<1>10. IndexInv' /\ ArrayInv'
  BY <1>1, <1>2, <1>3, <1>5, <1>6, <1>7 DEF IndexInv, ArrayInv
<1>11. ConnsInv'
  <2>1. ASSUME NEW d \in Conns, \A k \in 1..Size : pollables[k] # d
        PROVE  \A k \in 1..(Size - 1) : list[k] # d
    BY <1>2, <1>3, <2>1
  <2> QED
    BY <1>1, <1>7, <2>1 DEF Inv, ConnsInv, kernelVars
<1>12. EventsInv' /\ EndsForSignal'
  BY <1>1, <1>2, <1>6, <1>7 DEF Inv, EventsInv, EndsForSignal, kernelVars
<1> QED
  BY <1>8, <1>9, <1>10, <1>11, <1>12 DEF Inv

-----------------------------------------------------------------------------
(* The theorems. *)

\* Inv is an invariant.
LEMMA Invariance == Spec => []Inv
<1>1. Init => Inv
  <2> SUFFICES ASSUME Init PROVE Inv
    OBVIOUS
  <2>1. /\ pollables \in Seq(Pollables) /\ Len(pollables) = 2
        /\ pollables[1] = Listener /\ pollables[2] = Signals
    BY DEF Init, Pollables
  <2>2. /\ Len(cached_pollfd) = 2
        /\ \A k \in 1..2 : cached_pollfd[k] = [fd |-> pollables[k], revents |-> {}]
    BY DEF Init
  <2>3. cached_pollfd \in Seq(PollFd)
    <3>1. \A k \in 1..2 : [fd |-> pollables[k], revents |-> {}] \in PollFd
      BY <2>1 DEF PollFd
    <3> QED
      BY <3>1 DEF Init
  <2>4. TypeOK
    <3>1. /\ Len(pollables) <= max_pollables
          /\ i \in 1..(max_pollables + 1)
          /\ input \in [Conns -> 0..MaxInput]
      BY <2>1, PollAssumption DEF Init
    <3>2. /\ fd_valid \subseteq Pollables
          /\ terminate_signal \in BOOLEAN /\ signalled \in BOOLEAN
          /\ pc \in {"poll", "scan", "accept", "read", "check", "end"}
          /\ backlog \subseteq Conns /\ descriptors \subseteq Conns
          /\ peer \in [Conns -> {"new", "connected", "closed", "reset"}]
      BY DEF Init
    <3> QED
      BY <2>1, <2>3, <3>1, <3>2 DEF TypeOK
  <2>5. GroupInv /\ IndexInv
    BY <2>1, PollAssumption DEF Init, GroupInv, IndexInv, Size
  <2>6. ArrayInv
    BY <2>1, <2>2 DEF Init, ArrayInv, Size, Pollables
  <2>7. ConnsInv
    BY <2>1, PollAssumption DEF Init, ConnsInv, Size, Pollables
  <2>8. EventsInv /\ EndsForSignal
    BY <2>1, <2>2 DEF Init, EventsInv, EndsForSignal, Size, Pollables
  <2> QED
    BY <2>4, <2>5, <2>6, <2>7, <2>8 DEF Inv
<1>2. Inv /\ [Next]_vars => Inv'
  <2> SUFFICES ASSUME Inv, [Next]_vars PROVE Inv'
    OBVIOUS
  <2>1. CASE LoopStep
    BY <2>1, PollInv, MoveInv, HandleEventInv, ReceiveInv, AcceptInv, DropInv DEF LoopStep
  <2>2. CASE SendSignal \/ \E c \in Conns : Connect(c) \/ Send(c) \/ Disconnect(c)
    <3>1. UNCHANGED loopVars
      BY <2>2 DEF SendSignal, Connect, Send, Disconnect
    <3> QED
      BY <2>2, <3>1, KernelInv
  <2>3. CASE UNCHANGED vars
    BY <2>3 DEF vars, loopVars, kernelVars, Inv, TypeOK, GroupInv, IndexInv, ArrayInv, ConnsInv,
       EventsInv, EndsForSignal, Size
  <2> QED
    BY <2>1, <2>2, <2>3 DEF Next, Ended
<1> QED
  BY <1>1, <1>2, PTL DEF Spec

\* The types of PollGroup; the group never exceeds its limit.
THEOREM PollTypeCorrect == Spec => []TypeOK
  BY Invariance, PTL DEF Inv

\* Whenever poll is called it is given the group as it is (add, remove).
THEOREM PollsTheGroup == Spec => []PolledIsRegistered
<1>1. Inv => PolledIsRegistered
  BY DEF Inv, GroupInv, ArrayInv, PolledIsRegistered, Size
<1> QED
  BY <1>1, Invariance, PTL

\* The listener and the signal handler are never removed (pollAndHandle).
THEOREM ServicesAreSafe == Spec => []ServicesStay
<1>1. Inv => ServicesStay
  BY DEF Inv, GroupInv, TypeOK, ServicesStay, InGroup, Size
<1> QED
  BY <1>1, Invariance, PTL

\* Only a signal ends the loop of main.
THEOREM OnlySignalsEnd == Spec => []EndsForSignal
  BY Invariance, PTL DEF Inv

\* As long as no connection was reset, pollAndHandle removes only connections that
\* their clients have ended, whatever events it finds left over at an index.
THEOREM OrderlyCloseIsHarmless == Spec => OrderlyCloseHarmless
<1> DEFINE A == (\A d \in Conns : peer[d] # "reset") =>
                    \A c \in Conns : InGroup(c) /\ ~InGroup(c)' => peer[c] # "connected"
<1>1. Inv /\ [Next]_vars => [A]_vars
  <2> SUFFICES ASSUME Inv, [Next]_vars,
                      \A d \in Conns : peer[d] # "reset",
                      NEW c \in Conns, InGroup(c), ~InGroup(c)'
               PROVE  peer[c] # "connected"
    OBVIOUS
  <2>1. Drop
    <3>1. pollables' # pollables
      BY DEF InGroup
    <3>2. ASSUME NEW d \in backlog, Accept(d) PROVE FALSE
      <4>1. pollables' = Append(pollables, d)
        BY <3>1, <3>2 DEF Accept, SetPollables
      <4>2. \A k \in 1..Len(pollables) : k \in 1..Len(pollables') /\ pollables'[k] = pollables[k]
        BY <4>1 DEF Inv, TypeOK
      <4> QED
        BY <4>2 DEF InGroup
    <3> QED
      BY <3>1, <3>2 DEF Next, LoopStep, Poll, EndScan, Skip, HandleEvent, Receive, ReceiveEnds,
         AcceptEnds, Keep, Ended, SendSignal, Connect, Send, Disconnect, vars, loopVars
  <2>2. PICK k \in 1..Size : pollables[k] = c
    BY DEF InGroup, Size
  <2>3. /\ Size \in Nat /\ i \in 1..Size
        /\ Len(pollables') = Size - 1
        /\ \A j \in 1..(Size - 1) :
              pollables'[j] = IF j < i THEN pollables[j] ELSE pollables[j + 1]
    <3>1. pollables \in Seq(Pollables) /\ i \in 1..Len(pollables)
      BY <2>1 DEF Drop, Inv, TypeOK, IndexInv, Size
    <3>2. pollables' = RemoveAt(pollables, i)
      BY <2>1 DEF Drop, SetPollables
    <3>3. /\ Len(RemoveAt(pollables, i)) = Len(pollables) - 1
          /\ \A j \in 1..(Len(pollables) - 1) :
                RemoveAt(pollables, i)[j] = IF j < i THEN pollables[j] ELSE pollables[j + 1]
      BY <3>1, RemoveAtFacts
    <3> QED
      BY <3>1, <3>2, <3>3 DEF Size
  <2>4. k = i
    <3>1. CASE k < i
      BY <2>2, <2>3, <3>1 DEF InGroup
    <3>2. CASE k > i
      <4>1. k - 1 \in 1..(Size - 1) /\ pollables'[k - 1] = c
        BY <2>2, <2>3, <3>2
      <4> QED
        BY <2>3, <4>1 DEF InGroup
    <3> QED
      BY <2>3, <3>1, <3>2
  <2> QED
    BY <2>1, <2>2, <2>4, GoneIsConnection DEF Drop
<1> QED
  BY <1>1, Invariance, PTL DEF Spec, OrderlyCloseHarmless
=============================================================================
