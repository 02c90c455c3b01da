------------------------ MODULE ClientProcessProofs -------------------------
(***************************************************************************)
(* Proofs about ClientProcess, for any number of runs of ft_client: the    *)
(* type invariant, that undisturbed runs agree on the UUID, that no signal *)
(* is fatal once the SignalHandler is there, and that after a completed    *)
(* upload the worker uses nothing of what is freed with the statics.       *)
(***************************************************************************)
EXTENDS ClientProcess, TLAPS

\* Where main is before it starts the worker.
BeforeBroker ==
    {"new", "read", "open", "write", "args", "signals", "connect", "file", "broker"}

\* Who writes the UUID file writes a UUID of its own, and who reads it has found it.
OwnInv ==
    \A r \in Runs :
        /\ pc[r] = "write" => client_uuid[r] = r
        /\ pc[r] = "read" => uuid_file # Absent

\* As long as nothing was disturbed, at most one run creates the UUID file; until it
\* opens it there is none, until it writes it the file is empty, and who reads it
\* finds a UUID.
CreatingInv ==
    ~disturbed =>
        /\ \A r, s \in Runs : r \in Creating /\ s \in Creating => r = s
        /\ \A r \in Runs :
              /\ pc[r] = "open" => uuid_file = Absent
              /\ pc[r] = "write" => uuid_file = Empty
              /\ pc[r] = "read" => uuid_file \in Runs
        /\ uuid_file = Empty => \E r \in Runs : pc[r] = "write"

\* A worker is started after the signals are blocked, or never blocks them.
MaskInv ==
    \A r \in Runs :
        /\ pc[r] \in BeforeBroker => worker[r] = "none"
        /\ "main" \in masked[r] /\ worker[r] # "none" => "worker" \in masked[r]

\* Server, connection and worker hold at most one message of a run between them, and
\* none unless its file is offered and not complete.
TokenInv ==
    \A r \in Runs :
        /\ pc[r] \in BeforeBroker \cup {"offer"} => ~client_files[r]
        /\ turn[r] => inbox[r] = "none" /\ request[r] = "none"
        /\ inbox[r] # "none" => request[r] = "none"
        /\ ~client_files[r] => ~turn[r] /\ inbox[r] = "none" /\ request[r] = "none"
        /\ worker[r] = "handle" => request[r] # "none"

\* main leaves its loop for a signal or because the file is complete.
EndInv ==
    \A r \in Runs :
        /\ pc[r] \in {"leave", "statics", "stop", "join", "exited"} =>
              term_signal[r] \/ ~client_files[r]
        /\ destroyed[r] =>
              /\ pc[r] \in {"stop", "join"} \cup Ends
              /\ term_signal[r] \/ ~client_files[r]

\* The invariant that the others follow from.
Inv ==
    /\ TypeOK
    /\ OwnInv
    /\ CreatingInv
    /\ UuidAgrees
    /\ MaskInv
    /\ SignalsAreRead
    /\ TokenInv
    /\ EndInv
-----------------------------------------------------------------------------
(* The order of main. *)

\* What follows each step of main before its loop.
LEMMA ThenOrder ==
    /\ Then("args") = "signals"
    /\ Then("signals") = "connect"
    /\ Then("connect") = "file"
    /\ Then("file") = "broker"
    /\ Then("broker") = "offer"
    /\ Then("offer") = "test"
<1>1. DOMAIN Order = 1..7
  BY DEF Order
<1>2. ASSUME NEW k \in 1..7 PROVE (CHOOSE j \in DOMAIN Order : Order[j] = Order[k]) = k
  <2>1. \A j \in 1..7 : Order[j] = Order[k] => j = k
    BY DEF Order
  <2> QED
    BY <1>1, <2>1
<1>3. ASSUME NEW k \in 1..6 PROVE Then(Order[k]) = Order[k + 1]
  <2>1. (CHOOSE j \in DOMAIN Order : Order[j] = Order[k]) = k
    BY <1>2
  <2> QED
    BY <2>1, Zenon DEF Then
<1> QED
  BY <1>3 DEF Order

-----------------------------------------------------------------------------
(* The invariant is preserved, conjunct by conjunct. *)

\* Every step keeps the types.
LEMMA TypePreserved == Inv /\ [Next]_vars => TypeOK'
<1> SUFFICES ASSUME Inv, [Next]_vars PROVE TypeOK'
  OBVIOUS
<1> USE ClientAssumption, ThenOrder DEF Inv, OwnInv, TypeOK, Ends
<1>1. ASSUME NEW r \in Runs, TestUuid(r) PROVE TypeOK'
  BY <1>1 DEF TestUuid, GoTo, signalVars, netVars, brokerVars
<1>2. ASSUME NEW r \in Runs, ReadUuid(r) PROVE TypeOK'
  BY <1>2 DEF ReadUuid, GoTo, fileVars, signalVars, netVars, brokerVars
<1>3. ASSUME NEW r \in Runs, OpenUuid(r) PROVE TypeOK'
  BY <1>3 DEF OpenUuid, GoTo, signalVars, netVars, brokerVars
<1>4. ASSUME NEW r \in Runs, WriteUuid(r) PROVE TypeOK'
  BY <1>4 DEF WriteUuid, GoTo, signalVars, netVars, brokerVars
<1>5. ASSUME NEW r \in Runs, Args(r) PROVE TypeOK'
  BY <1>5 DEF Args, GoTo, fileVars, signalVars, netVars, brokerVars
<1>6. ASSUME NEW r \in Runs, Signals(r) PROVE TypeOK'
  BY <1>6 DEF Signals, GoTo, fileVars, netVars, brokerVars
<1>7. ASSUME NEW r \in Runs, Connect(r) PROVE TypeOK'
  BY <1>7 DEF Connect, GoTo, fileVars, signalVars, brokerVars
<1>8. ASSUME NEW r \in Runs, makeLocalFile(r) PROVE TypeOK'
  BY <1>8 DEF makeLocalFile, GoTo, fileVars, signalVars, netVars, brokerVars
<1>9. ASSUME NEW r \in Runs, StartBroker(r) PROVE TypeOK'
  BY <1>9 DEF StartBroker, GoTo, fileVars, netVars
<1>10. ASSUME NEW r \in Runs, Offer(r) PROVE TypeOK'
  BY <1>10 DEF Offer, GoTo, Send, fileVars, signalVars, brokerVars
<1>11. ASSUME NEW r \in Runs, LoopTest(r) PROVE TypeOK'
  BY <1>11 DEF LoopTest, GoTo, fileVars, signalVars, netVars, brokerVars
<1>12. ASSUME NEW r \in Runs, Poll(r) PROVE TypeOK'
  BY <1>12 DEF Poll, GoTo, Handled, fileVars
<1>13. ASSUME NEW r \in Runs, Leave(r) PROVE TypeOK'
  BY <1>13 DEF Leave, GoTo, fileVars, signalVars, brokerVars
<1>14. ASSUME NEW r \in Runs, DestroyStatics(r) PROVE TypeOK'
  BY <1>14 DEF DestroyStatics, GoTo, fileVars, signalVars, netVars
<1>15. ASSUME NEW r \in Runs, StopWorkers(r) PROVE TypeOK'
  BY <1>15 DEF StopWorkers, GoTo, fileVars, signalVars, netVars
<1>16. ASSUME NEW r \in Runs, Join(r) PROVE TypeOK'
  BY <1>16 DEF Join, GoTo, fileVars, signalVars, netVars, brokerVars
<1>17. ASSUME NEW r \in Runs, Take(r) PROVE TypeOK'
  BY <1>17 DEF Take, GoTo, Alive, fileVars, signalVars, netVars
<1>18. ASSUME NEW r \in Runs, Handle(r) PROVE TypeOK'
  <2>1. turn' \in [Runs -> BOOLEAN] /\ client_files' \in [Runs -> BOOLEAN]
    BY <1>18 DEF Handle, Send
  <2>2. pc' = pc \/ pc' = [pc EXCEPT ![r] = "aborted"]
    BY <1>18 DEF Handle, GoTo
  <2> QED
    BY <1>18, <2>1, <2>2 DEF Handle, fileVars, signalVars
<1>19. ASSUME NEW r \in Runs, Return(r) PROVE TypeOK'
  BY <1>19 DEF Return, fileVars, signalVars, netVars
<1>20. ASSUME NEW r \in Runs, Signal(r) PROVE TypeOK'
  <2>1. pc' = pc \/ pc' = [pc EXCEPT ![r] = "signalled"]
    BY <1>20 DEF Signal, GoTo
  <2>2. disturbed' \in BOOLEAN /\ pending' \in [Runs -> BOOLEAN]
    BY <1>20 DEF Signal, Torn
  <2> QED
    BY <1>20, <2>1, <2>2 DEF Signal, netVars, brokerVars
<1>21. ASSUME NEW r \in Runs, Kill(r) PROVE TypeOK'
  BY <1>21 DEF Kill, GoTo, Torn, Alive, signalVars, netVars, brokerVars
<1>22. ASSUME NEW r \in Runs, Reply(r) PROVE TypeOK'
  BY <1>22 DEF Reply, fileVars, signalVars, brokerVars
<1>23. ASSUME NEW r \in Runs, Disconnect(r) PROVE TypeOK'
  BY <1>23 DEF Disconnect, fileVars, signalVars, brokerVars
<1>24. CASE UNCHANGED vars
  BY <1>24 DEF vars, fileVars, signalVars, netVars, brokerVars
<1> QED
  BY <1>1, <1>2, <1>3, <1>4, <1>5, <1>6, <1>7, <1>8, <1>9, <1>10, <1>11, <1>12, <1>13,
     <1>14, <1>15, <1>16, <1>17, <1>18, <1>19, <1>20, <1>21, <1>22, <1>23, <1>24 DEF Next,
     Main, Worker, AllEnded

\* Who writes the UUID file writes a UUID of its own, and who reads it found it.
LEMMA OwnPreserved == Inv /\ [Next]_vars => OwnInv'
<1> SUFFICES ASSUME Inv, [Next]_vars PROVE OwnInv'
  OBVIOUS
<1> USE ClientAssumption, ThenOrder DEF Inv, OwnInv, TypeOK, Ends, Absent, Empty
<1>1. ASSUME NEW r \in Runs, TestUuid(r) PROVE OwnInv'
  BY <1>1 DEF TestUuid, GoTo, signalVars, netVars, brokerVars
<1>2. ASSUME NEW r \in Runs, ReadUuid(r) PROVE OwnInv'
  BY <1>2 DEF ReadUuid, GoTo, fileVars, signalVars, netVars, brokerVars
<1>3. ASSUME NEW r \in Runs, OpenUuid(r) PROVE OwnInv'
  BY <1>3 DEF OpenUuid, GoTo, signalVars, netVars, brokerVars
<1>4. ASSUME NEW r \in Runs, WriteUuid(r) PROVE OwnInv'
  BY <1>4 DEF WriteUuid, GoTo, signalVars, netVars, brokerVars
<1>5. ASSUME NEW r \in Runs, Args(r) PROVE OwnInv'
  BY <1>5 DEF Args, GoTo, fileVars, signalVars, netVars, brokerVars
<1>6. ASSUME NEW r \in Runs, Signals(r) PROVE OwnInv'
  BY <1>6 DEF Signals, GoTo, fileVars, netVars, brokerVars
<1>7. ASSUME NEW r \in Runs, Connect(r) PROVE OwnInv'
  BY <1>7 DEF Connect, GoTo, fileVars, signalVars, brokerVars
<1>8. ASSUME NEW r \in Runs, makeLocalFile(r) PROVE OwnInv'
  BY <1>8 DEF makeLocalFile, GoTo, fileVars, signalVars, netVars, brokerVars
<1>9. ASSUME NEW r \in Runs, StartBroker(r) PROVE OwnInv'
  BY <1>9 DEF StartBroker, GoTo, fileVars, netVars
<1>10. ASSUME NEW r \in Runs, Offer(r) PROVE OwnInv'
  BY <1>10 DEF Offer, GoTo, Send, fileVars, signalVars, brokerVars
<1>11. ASSUME NEW r \in Runs, LoopTest(r) PROVE OwnInv'
  BY <1>11 DEF LoopTest, GoTo, fileVars, signalVars, netVars, brokerVars
<1>12. ASSUME NEW r \in Runs, Poll(r) PROVE OwnInv'
  BY <1>12 DEF Poll, GoTo, Handled, fileVars
<1>13. ASSUME NEW r \in Runs, Leave(r) PROVE OwnInv'
  BY <1>13 DEF Leave, GoTo, fileVars, signalVars, brokerVars
<1>14. ASSUME NEW r \in Runs, DestroyStatics(r) PROVE OwnInv'
  BY <1>14 DEF DestroyStatics, GoTo, fileVars, signalVars, netVars
<1>15. ASSUME NEW r \in Runs, StopWorkers(r) PROVE OwnInv'
  BY <1>15 DEF StopWorkers, GoTo, fileVars, signalVars, netVars
<1>16. ASSUME NEW r \in Runs, Join(r) PROVE OwnInv'
  BY <1>16 DEF Join, GoTo, fileVars, signalVars, netVars, brokerVars
<1>17. ASSUME NEW r \in Runs, Take(r) PROVE OwnInv'
  BY <1>17 DEF Take, GoTo, Alive, fileVars, signalVars, netVars
<1>18. ASSUME NEW r \in Runs, Handle(r) PROVE OwnInv'
  BY <1>18 DEF Handle, GoTo, Send, Alive, fileVars, signalVars
<1>19. ASSUME NEW r \in Runs, Return(r) PROVE OwnInv'
  BY <1>19 DEF Return, fileVars, signalVars, netVars
<1>20. ASSUME NEW r \in Runs, Signal(r) PROVE OwnInv'
  BY <1>20 DEF Signal, GoTo, Torn, Alive, Threads, netVars, brokerVars
<1>21. ASSUME NEW r \in Runs, Kill(r) PROVE OwnInv'
  BY <1>21 DEF Kill, GoTo, Torn, Alive, signalVars, netVars, brokerVars
<1>22. ASSUME NEW r \in Runs, Reply(r) PROVE OwnInv'
  BY <1>22 DEF Reply, fileVars, signalVars, brokerVars
<1>23. ASSUME NEW r \in Runs, Disconnect(r) PROVE OwnInv'
  BY <1>23 DEF Disconnect, fileVars, signalVars, brokerVars
<1>24. CASE UNCHANGED vars
  BY <1>24 DEF vars, fileVars, signalVars, netVars, brokerVars
<1> QED
  BY <1>1, <1>2, <1>3, <1>4, <1>5, <1>6, <1>7, <1>8, <1>9, <1>10, <1>11, <1>12, <1>13,
     <1>14, <1>15, <1>16, <1>17, <1>18, <1>19, <1>20, <1>21, <1>22, <1>23, <1>24 DEF Next,
     Main, Worker, AllEnded

\* A run that finds no UUID file disturbs one that is creating it, or is alone in this.
LEMMA CreatingPreserved == Inv /\ [Next]_vars => CreatingInv'
<1> SUFFICES ASSUME Inv, [Next]_vars PROVE CreatingInv'
  OBVIOUS
<1> USE ClientAssumption, ThenOrder DEF Inv, CreatingInv, Creating, OwnInv,
      TypeOK, Ends, Absent, Empty
<1>1. ASSUME NEW r \in Runs, TestUuid(r) PROVE CreatingInv'
  <2>1. uuid_file' = uuid_file /\ client_uuid' = client_uuid
    BY <1>1 DEF TestUuid
  <2>2. ~disturbed' => ~disturbed /\ \A s \in Runs : pc[s] \notin {"open", "write"}
    BY <1>1 DEF TestUuid
  <2>3. \A s \in Runs : pc'[s] = IF s = r THEN IF uuid_file = Absent THEN "open" ELSE "read"
                             ELSE pc[s]
    BY <1>1 DEF TestUuid, GoTo
  <2> QED
    BY <2>1, <2>2, <2>3
<1>2. ASSUME NEW r \in Runs, ReadUuid(r) PROVE CreatingInv'
  BY <1>2 DEF ReadUuid, GoTo, fileVars, signalVars, netVars, brokerVars
<1>3. ASSUME NEW r \in Runs, OpenUuid(r) PROVE CreatingInv'
  BY <1>3 DEF OpenUuid, GoTo, signalVars, netVars, brokerVars
<1>4. ASSUME NEW r \in Runs, WriteUuid(r) PROVE CreatingInv'
  BY <1>4 DEF WriteUuid, GoTo, signalVars, netVars, brokerVars
<1>5. ASSUME NEW r \in Runs, Args(r) PROVE CreatingInv'
  BY <1>5 DEF Args, GoTo, fileVars, signalVars, netVars, brokerVars
<1>6. ASSUME NEW r \in Runs, Signals(r) PROVE CreatingInv'
  BY <1>6 DEF Signals, GoTo, fileVars, netVars, brokerVars
<1>7. ASSUME NEW r \in Runs, Connect(r) PROVE CreatingInv'
  BY <1>7 DEF Connect, GoTo, fileVars, signalVars, brokerVars
<1>8. ASSUME NEW r \in Runs, makeLocalFile(r) PROVE CreatingInv'
  BY <1>8 DEF makeLocalFile, GoTo, fileVars, signalVars, netVars, brokerVars
<1>9. ASSUME NEW r \in Runs, StartBroker(r) PROVE CreatingInv'
  BY <1>9 DEF StartBroker, GoTo, fileVars, netVars
<1>10. ASSUME NEW r \in Runs, Offer(r) PROVE CreatingInv'
  BY <1>10 DEF Offer, GoTo, Send, fileVars, signalVars, brokerVars
<1>11. ASSUME NEW r \in Runs, LoopTest(r) PROVE CreatingInv'
  BY <1>11 DEF LoopTest, GoTo, fileVars, signalVars, netVars, brokerVars
<1>12. ASSUME NEW r \in Runs, Poll(r) PROVE CreatingInv'
  BY <1>12 DEF Poll, GoTo, Handled, fileVars
<1>13. ASSUME NEW r \in Runs, Leave(r) PROVE CreatingInv'
  BY <1>13 DEF Leave, GoTo, fileVars, signalVars, brokerVars
<1>14. ASSUME NEW r \in Runs, DestroyStatics(r) PROVE CreatingInv'
  BY <1>14 DEF DestroyStatics, GoTo, fileVars, signalVars, netVars
<1>15. ASSUME NEW r \in Runs, StopWorkers(r) PROVE CreatingInv'
  BY <1>15 DEF StopWorkers, GoTo, fileVars, signalVars, netVars
<1>16. ASSUME NEW r \in Runs, Join(r) PROVE CreatingInv'
  BY <1>16 DEF Join, GoTo, fileVars, signalVars, netVars, brokerVars
<1>17. ASSUME NEW r \in Runs, Take(r) PROVE CreatingInv'
  <2>1. pc[r] \notin BeforeBroker
    BY <1>17 DEF Take, MaskInv
  <2>2. pc' = pc \/ pc' = [pc EXCEPT ![r] = "aborted"]
    BY <1>17 DEF Take, GoTo
  <2> QED
    BY <1>17, <2>1, <2>2 DEF Take, BeforeBroker, fileVars
<1>18. ASSUME NEW r \in Runs, Handle(r) PROVE CreatingInv'
  <2>1. pc[r] \notin BeforeBroker
    BY <1>18 DEF Handle, MaskInv
  <2>2. pc' = pc \/ pc' = [pc EXCEPT ![r] = "aborted"]
    BY <1>18 DEF Handle, GoTo
  <2> QED
    BY <1>18, <2>1, <2>2 DEF Handle, BeforeBroker, fileVars
<1>19. ASSUME NEW r \in Runs, Return(r) PROVE CreatingInv'
  BY <1>19 DEF Return, fileVars, signalVars, netVars
<1>20. ASSUME NEW r \in Runs, Signal(r) PROVE CreatingInv'
  <2>1. CASE UNCHANGED <<pc, disturbed>>
    BY <1>20, <2>1 DEF Signal
  <2>2. CASE pc' = [pc EXCEPT ![r] = "signalled"] /\ Torn(r)
    <3>1. uuid_file' = uuid_file /\ client_uuid' = client_uuid
      BY <1>20 DEF Signal
    <3>2. ~disturbed' => ~disturbed /\ pc[r] # "write"
      BY <2>2 DEF Torn
    <3>3. \A s \in Runs : pc'[s] = IF s = r THEN "signalled" ELSE pc[s]
      BY <2>2
    <3> QED
      BY <3>1, <3>2, <3>3
  <2> QED
    BY <1>20, <2>1, <2>2 DEF Signal, GoTo
<1>21. ASSUME NEW r \in Runs, Kill(r) PROVE CreatingInv'
  <2>1. uuid_file' = uuid_file /\ client_uuid' = client_uuid
    BY <1>21 DEF Kill
  <2>2. ~disturbed' => ~disturbed /\ pc[r] # "write"
    BY <1>21 DEF Kill, Torn
  <2>3. \A s \in Runs : pc'[s] = IF s = r THEN "killed" ELSE pc[s]
    BY <1>21 DEF Kill, GoTo
  <2> QED
    BY <2>1, <2>2, <2>3
<1>22. ASSUME NEW r \in Runs, Reply(r) PROVE CreatingInv'
  BY <1>22 DEF Reply, fileVars, signalVars, brokerVars
<1>23. ASSUME NEW r \in Runs, Disconnect(r) PROVE CreatingInv'
  BY <1>23 DEF Disconnect, fileVars, signalVars, brokerVars
<1>24. CASE UNCHANGED vars
  BY <1>24 DEF vars, fileVars, signalVars, netVars, brokerVars
<1> QED
  BY <1>1, <1>2, <1>3, <1>4, <1>5, <1>6, <1>7, <1>8, <1>9, <1>10, <1>11, <1>12, <1>13,
     <1>14, <1>15, <1>16, <1>17, <1>18, <1>19, <1>20, <1>21, <1>22, <1>23, <1>24 DEF Next,
     Main, Worker, AllEnded

\* Only the run that creates the UUID file changes it, before any other has read it.
LEMMA UuidPreserved == Inv /\ [Next]_vars => UuidAgrees'
<1> SUFFICES ASSUME Inv, [Next]_vars PROVE UuidAgrees'
  OBVIOUS
<1> USE ClientAssumption, ThenOrder DEF Inv, UuidAgrees, CreatingInv, Creating,
      OwnInv, TypeOK, Ends, Absent, Empty, Unset, Given, Junk
<1>1. ASSUME NEW r \in Runs, TestUuid(r) PROVE UuidAgrees'
  BY <1>1 DEF TestUuid, GoTo, signalVars, netVars, brokerVars
<1>2. ASSUME NEW r \in Runs, ReadUuid(r) PROVE UuidAgrees'
  BY <1>2 DEF ReadUuid, GoTo, fileVars, signalVars, netVars, brokerVars
<1>3. ASSUME NEW r \in Runs, OpenUuid(r) PROVE UuidAgrees'
  BY <1>3 DEF OpenUuid, GoTo, signalVars, netVars, brokerVars
<1>4. ASSUME NEW r \in Runs, WriteUuid(r) PROVE UuidAgrees'
  BY <1>4 DEF WriteUuid, GoTo, signalVars, netVars, brokerVars
<1>5. ASSUME NEW r \in Runs, Args(r) PROVE UuidAgrees'
  BY <1>5 DEF Args, GoTo, fileVars, signalVars, netVars, brokerVars
<1>6. ASSUME NEW r \in Runs, Signals(r) PROVE UuidAgrees'
  BY <1>6 DEF Signals, GoTo, fileVars, netVars, brokerVars
<1>7. ASSUME NEW r \in Runs, Connect(r) PROVE UuidAgrees'
  BY <1>7 DEF Connect, GoTo, fileVars, signalVars, brokerVars
<1>8. ASSUME NEW r \in Runs, makeLocalFile(r) PROVE UuidAgrees'
  BY <1>8 DEF makeLocalFile, GoTo, fileVars, signalVars, netVars, brokerVars
<1>9. ASSUME NEW r \in Runs, StartBroker(r) PROVE UuidAgrees'
  BY <1>9 DEF StartBroker, GoTo, fileVars, netVars
<1>10. ASSUME NEW r \in Runs, Offer(r) PROVE UuidAgrees'
  BY <1>10 DEF Offer, GoTo, Send, fileVars, signalVars, brokerVars
<1>11. ASSUME NEW r \in Runs, LoopTest(r) PROVE UuidAgrees'
  BY <1>11 DEF LoopTest, GoTo, fileVars, signalVars, netVars, brokerVars
<1>12. ASSUME NEW r \in Runs, Poll(r) PROVE UuidAgrees'
  BY <1>12 DEF Poll, GoTo, Handled, fileVars
<1>13. ASSUME NEW r \in Runs, Leave(r) PROVE UuidAgrees'
  BY <1>13 DEF Leave, GoTo, fileVars, signalVars, brokerVars
<1>14. ASSUME NEW r \in Runs, DestroyStatics(r) PROVE UuidAgrees'
  BY <1>14 DEF DestroyStatics, GoTo, fileVars, signalVars, netVars
<1>15. ASSUME NEW r \in Runs, StopWorkers(r) PROVE UuidAgrees'
  BY <1>15 DEF StopWorkers, GoTo, fileVars, signalVars, netVars
<1>16. ASSUME NEW r \in Runs, Join(r) PROVE UuidAgrees'
  BY <1>16 DEF Join, GoTo, fileVars, signalVars, netVars, brokerVars
<1>17. ASSUME NEW r \in Runs, Take(r) PROVE UuidAgrees'
  <2>1. pc[r] \notin BeforeBroker
    BY <1>17 DEF Take, MaskInv
  <2>2. pc' = pc \/ pc' = [pc EXCEPT ![r] = "aborted"]
    BY <1>17 DEF Take, GoTo
  <2> QED
    BY <1>17, <2>1, <2>2 DEF Take, BeforeBroker, fileVars
<1>18. ASSUME NEW r \in Runs, Handle(r) PROVE UuidAgrees'
  <2>1. pc[r] \notin BeforeBroker
    BY <1>18 DEF Handle, MaskInv
  <2>2. pc' = pc \/ pc' = [pc EXCEPT ![r] = "aborted"]
    BY <1>18 DEF Handle, GoTo
  <2> QED
    BY <1>18, <2>1, <2>2 DEF Handle, BeforeBroker, fileVars
<1>19. ASSUME NEW r \in Runs, Return(r) PROVE UuidAgrees'
  BY <1>19 DEF Return, fileVars, signalVars, netVars
<1>20. ASSUME NEW r \in Runs, Signal(r) PROVE UuidAgrees'
  <2>1. CASE UNCHANGED <<pc, disturbed>>
    BY <1>20, <2>1 DEF Signal
  <2>2. CASE pc' = [pc EXCEPT ![r] = "signalled"] /\ Torn(r)
    <3>1. uuid_file' = uuid_file /\ client_uuid' = client_uuid
      BY <1>20 DEF Signal
    <3>2. ~disturbed' => ~disturbed /\ pc[r] # "write"
      BY <2>2 DEF Torn
    <3>3. \A s \in Runs : pc'[s] = IF s = r THEN "signalled" ELSE pc[s]
      BY <2>2
    <3> QED
      BY <3>1, <3>2, <3>3
  <2> QED
    BY <1>20, <2>1, <2>2 DEF Signal, GoTo
<1>21. ASSUME NEW r \in Runs, Kill(r) PROVE UuidAgrees'
  <2>1. uuid_file' = uuid_file /\ client_uuid' = client_uuid
    BY <1>21 DEF Kill
  <2>2. ~disturbed' => ~disturbed /\ pc[r] # "write"
    BY <1>21 DEF Kill, Torn
  <2>3. \A s \in Runs : pc'[s] = IF s = r THEN "killed" ELSE pc[s]
    BY <1>21 DEF Kill, GoTo
  <2> QED
    BY <2>1, <2>2, <2>3
<1>22. ASSUME NEW r \in Runs, Reply(r) PROVE UuidAgrees'
  BY <1>22 DEF Reply, fileVars, signalVars, brokerVars
<1>23. ASSUME NEW r \in Runs, Disconnect(r) PROVE UuidAgrees'
  BY <1>23 DEF Disconnect, fileVars, signalVars, brokerVars
<1>24. CASE UNCHANGED vars
  BY <1>24 DEF vars, fileVars, signalVars, netVars, brokerVars
<1> QED
  BY <1>1, <1>2, <1>3, <1>4, <1>5, <1>6, <1>7, <1>8, <1>9, <1>10, <1>11, <1>12, <1>13,
     <1>14, <1>15, <1>16, <1>17, <1>18, <1>19, <1>20, <1>21, <1>22, <1>23, <1>24 DEF Next,
     Main, Worker, AllEnded

\* The worker inherits the mask of main.
LEMMA MaskPreserved == Inv /\ [Next]_vars => MaskInv'
<1> SUFFICES ASSUME Inv, [Next]_vars PROVE MaskInv'
  OBVIOUS
<1> USE ThenOrder DEF Inv, MaskInv, BeforeBroker, TypeOK, Ends
<1>1. ASSUME NEW r \in Runs, TestUuid(r) PROVE MaskInv'
  BY <1>1 DEF TestUuid, GoTo, signalVars, netVars, brokerVars
<1>2. ASSUME NEW r \in Runs, ReadUuid(r) PROVE MaskInv'
  BY <1>2 DEF ReadUuid, GoTo, fileVars, signalVars, netVars, brokerVars
<1>3. ASSUME NEW r \in Runs, OpenUuid(r) PROVE MaskInv'
  BY <1>3 DEF OpenUuid, GoTo, signalVars, netVars, brokerVars
<1>4. ASSUME NEW r \in Runs, WriteUuid(r) PROVE MaskInv'
  BY <1>4 DEF WriteUuid, GoTo, signalVars, netVars, brokerVars
<1>5. ASSUME NEW r \in Runs, Args(r) PROVE MaskInv'
  BY <1>5 DEF Args, GoTo, fileVars, signalVars, netVars, brokerVars
<1>6. ASSUME NEW r \in Runs, Signals(r) PROVE MaskInv'
  BY <1>6 DEF Signals, GoTo, fileVars, netVars, brokerVars
<1>7. ASSUME NEW r \in Runs, Connect(r) PROVE MaskInv'
  BY <1>7 DEF Connect, GoTo, fileVars, signalVars, brokerVars
<1>8. ASSUME NEW r \in Runs, makeLocalFile(r) PROVE MaskInv'
  BY <1>8 DEF makeLocalFile, GoTo, fileVars, signalVars, netVars, brokerVars
<1>9. ASSUME NEW r \in Runs, StartBroker(r) PROVE MaskInv'
  BY <1>9 DEF StartBroker, GoTo, fileVars, netVars
<1>10. ASSUME NEW r \in Runs, Offer(r) PROVE MaskInv'
  BY <1>10 DEF Offer, GoTo, Send, fileVars, signalVars, brokerVars
<1>11. ASSUME NEW r \in Runs, LoopTest(r) PROVE MaskInv'
  BY <1>11 DEF LoopTest, GoTo, fileVars, signalVars, netVars, brokerVars
<1>12. ASSUME NEW r \in Runs, Poll(r) PROVE MaskInv'
  BY <1>12 DEF Poll, GoTo, Handled, fileVars
<1>13. ASSUME NEW r \in Runs, Leave(r) PROVE MaskInv'
  BY <1>13 DEF Leave, GoTo, fileVars, signalVars, brokerVars
<1>14. ASSUME NEW r \in Runs, DestroyStatics(r) PROVE MaskInv'
  BY <1>14 DEF DestroyStatics, GoTo, fileVars, signalVars, netVars
<1>15. ASSUME NEW r \in Runs, StopWorkers(r) PROVE MaskInv'
  BY <1>15 DEF StopWorkers, GoTo, fileVars, signalVars, netVars
<1>16. ASSUME NEW r \in Runs, Join(r) PROVE MaskInv'
  BY <1>16 DEF Join, GoTo, fileVars, signalVars, netVars, brokerVars
<1>17. ASSUME NEW r \in Runs, Take(r) PROVE MaskInv'
  BY <1>17 DEF Take, GoTo, Alive, fileVars, signalVars, netVars
<1>18. ASSUME NEW r \in Runs, Handle(r) PROVE MaskInv'
  BY <1>18 DEF Handle, GoTo, Send, Alive, fileVars, signalVars
<1>19. ASSUME NEW r \in Runs, Return(r) PROVE MaskInv'
  BY <1>19 DEF Return, fileVars, signalVars, netVars
<1>20. ASSUME NEW r \in Runs, Signal(r) PROVE MaskInv'
  BY <1>20 DEF Signal, GoTo, Torn, Alive, Threads, netVars, brokerVars
<1>21. ASSUME NEW r \in Runs, Kill(r) PROVE MaskInv'
  BY <1>21 DEF Kill, GoTo, Torn, Alive, signalVars, netVars, brokerVars
<1>22. ASSUME NEW r \in Runs, Reply(r) PROVE MaskInv'
  BY <1>22 DEF Reply, fileVars, signalVars, brokerVars
<1>23. ASSUME NEW r \in Runs, Disconnect(r) PROVE MaskInv'
  BY <1>23 DEF Disconnect, fileVars, signalVars, brokerVars
<1>24. CASE UNCHANGED vars
  BY <1>24 DEF vars, fileVars, signalVars, netVars, brokerVars
<1> QED
  BY <1>1, <1>2, <1>3, <1>4, <1>5, <1>6, <1>7, <1>8, <1>9, <1>10, <1>11, <1>12, <1>13,
     <1>14, <1>15, <1>16, <1>17, <1>18, <1>19, <1>20, <1>21, <1>22, <1>23, <1>24 DEF Next,
     Main, Worker, AllEnded

\* A signal is fatal only to a run that does not block it.
LEMMA SignalsPreserved == Inv /\ [Next]_vars => SignalsAreRead'
<1> SUFFICES ASSUME Inv, [Next]_vars PROVE SignalsAreRead'
  OBVIOUS
<1> USE ThenOrder DEF Inv, SignalsAreRead, MaskInv, TypeOK, Ends
<1>1. ASSUME NEW r \in Runs, TestUuid(r) PROVE SignalsAreRead'
  BY <1>1 DEF TestUuid, GoTo, signalVars, netVars, brokerVars
<1>2. ASSUME NEW r \in Runs, ReadUuid(r) PROVE SignalsAreRead'
  BY <1>2 DEF ReadUuid, GoTo, fileVars, signalVars, netVars, brokerVars
<1>3. ASSUME NEW r \in Runs, OpenUuid(r) PROVE SignalsAreRead'
  BY <1>3 DEF OpenUuid, GoTo, signalVars, netVars, brokerVars
<1>4. ASSUME NEW r \in Runs, WriteUuid(r) PROVE SignalsAreRead'
  BY <1>4 DEF WriteUuid, GoTo, signalVars, netVars, brokerVars
<1>5. ASSUME NEW r \in Runs, Args(r) PROVE SignalsAreRead'
  BY <1>5 DEF Args, GoTo, fileVars, signalVars, netVars, brokerVars
<1>6. ASSUME NEW r \in Runs, Signals(r) PROVE SignalsAreRead'
  BY <1>6 DEF Signals, GoTo, fileVars, netVars, brokerVars
<1>7. ASSUME NEW r \in Runs, Connect(r) PROVE SignalsAreRead'
  BY <1>7 DEF Connect, GoTo, fileVars, signalVars, brokerVars
<1>8. ASSUME NEW r \in Runs, makeLocalFile(r) PROVE SignalsAreRead'
  BY <1>8 DEF makeLocalFile, GoTo, fileVars, signalVars, netVars, brokerVars
<1>9. ASSUME NEW r \in Runs, StartBroker(r) PROVE SignalsAreRead'
  BY <1>9 DEF StartBroker, GoTo, fileVars, netVars
<1>10. ASSUME NEW r \in Runs, Offer(r) PROVE SignalsAreRead'
  BY <1>10 DEF Offer, GoTo, Send, fileVars, signalVars, brokerVars
<1>11. ASSUME NEW r \in Runs, LoopTest(r) PROVE SignalsAreRead'
  BY <1>11 DEF LoopTest, GoTo, fileVars, signalVars, netVars, brokerVars
<1>12. ASSUME NEW r \in Runs, Poll(r) PROVE SignalsAreRead'
  BY <1>12 DEF Poll, GoTo, Handled, fileVars
<1>13. ASSUME NEW r \in Runs, Leave(r) PROVE SignalsAreRead'
  BY <1>13 DEF Leave, GoTo, fileVars, signalVars, brokerVars
<1>14. ASSUME NEW r \in Runs, DestroyStatics(r) PROVE SignalsAreRead'
  BY <1>14 DEF DestroyStatics, GoTo, fileVars, signalVars, netVars
<1>15. ASSUME NEW r \in Runs, StopWorkers(r) PROVE SignalsAreRead'
  BY <1>15 DEF StopWorkers, GoTo, fileVars, signalVars, netVars
<1>16. ASSUME NEW r \in Runs, Join(r) PROVE SignalsAreRead'
  BY <1>16 DEF Join, GoTo, fileVars, signalVars, netVars, brokerVars
<1>17. ASSUME NEW r \in Runs, Take(r) PROVE SignalsAreRead'
  BY <1>17 DEF Take, GoTo, Alive, fileVars, signalVars, netVars
<1>18. ASSUME NEW r \in Runs, Handle(r) PROVE SignalsAreRead'
  BY <1>18 DEF Handle, GoTo, Send, Alive, fileVars, signalVars
<1>19. ASSUME NEW r \in Runs, Return(r) PROVE SignalsAreRead'
  BY <1>19 DEF Return, fileVars, signalVars, netVars
<1>20. ASSUME NEW r \in Runs, Signal(r) PROVE SignalsAreRead'
  BY <1>20 DEF Signal, GoTo, Torn, Alive, Threads, netVars, brokerVars
<1>21. ASSUME NEW r \in Runs, Kill(r) PROVE SignalsAreRead'
  BY <1>21 DEF Kill, GoTo, Torn, Alive, signalVars, netVars, brokerVars
<1>22. ASSUME NEW r \in Runs, Reply(r) PROVE SignalsAreRead'
  BY <1>22 DEF Reply, fileVars, signalVars, brokerVars
<1>23. ASSUME NEW r \in Runs, Disconnect(r) PROVE SignalsAreRead'
  BY <1>23 DEF Disconnect, fileVars, signalVars, brokerVars
<1>24. CASE UNCHANGED vars
  BY <1>24 DEF vars, fileVars, signalVars, netVars, brokerVars
<1> QED
  BY <1>1, <1>2, <1>3, <1>4, <1>5, <1>6, <1>7, <1>8, <1>9, <1>10, <1>11, <1>12, <1>13,
     <1>14, <1>15, <1>16, <1>17, <1>18, <1>19, <1>20, <1>21, <1>22, <1>23, <1>24 DEF Next,
     Main, Worker, AllEnded

\* A message is passed on or answered, never doubled.
LEMMA TokenPreserved == Inv /\ [Next]_vars => TokenInv'
<1> SUFFICES ASSUME Inv, [Next]_vars PROVE TokenInv'
  OBVIOUS
<1> USE ThenOrder DEF Inv, TokenInv, BeforeBroker, TypeOK, Ends
<1>1. ASSUME NEW r \in Runs, TestUuid(r) PROVE TokenInv'
  BY <1>1 DEF TestUuid, GoTo, signalVars, netVars, brokerVars
<1>2. ASSUME NEW r \in Runs, ReadUuid(r) PROVE TokenInv'
  BY <1>2 DEF ReadUuid, GoTo, fileVars, signalVars, netVars, brokerVars
<1>3. ASSUME NEW r \in Runs, OpenUuid(r) PROVE TokenInv'
  BY <1>3 DEF OpenUuid, GoTo, signalVars, netVars, brokerVars
<1>4. ASSUME NEW r \in Runs, WriteUuid(r) PROVE TokenInv'
  BY <1>4 DEF WriteUuid, GoTo, signalVars, netVars, brokerVars
<1>5. ASSUME NEW r \in Runs, Args(r) PROVE TokenInv'
  BY <1>5 DEF Args, GoTo, fileVars, signalVars, netVars, brokerVars
<1>6. ASSUME NEW r \in Runs, Signals(r) PROVE TokenInv'
  BY <1>6 DEF Signals, GoTo, fileVars, netVars, brokerVars
<1>7. ASSUME NEW r \in Runs, Connect(r) PROVE TokenInv'
  BY <1>7 DEF Connect, GoTo, fileVars, signalVars, brokerVars
<1>8. ASSUME NEW r \in Runs, makeLocalFile(r) PROVE TokenInv'
  BY <1>8 DEF makeLocalFile, GoTo, fileVars, signalVars, netVars, brokerVars
<1>9. ASSUME NEW r \in Runs, StartBroker(r) PROVE TokenInv'
  <2>1. client_files' = client_files /\ turn' = turn /\ inbox' = inbox /\ request' = request
    BY <1>9 DEF StartBroker, netVars
  <2>2. \A s \in Runs : pc'[s] = IF s = r THEN "offer" ELSE pc[s]
    BY <1>9 DEF StartBroker, GoTo
  <2>3. \A s \in Runs : worker'[s] = "handle" => worker[s] = "handle"
    BY <1>9 DEF StartBroker
  <2>4. pc[r] \in BeforeBroker
    BY <1>9 DEF StartBroker
  <2> QED
    BY <2>1, <2>2, <2>3, <2>4
<1>10. ASSUME NEW r \in Runs, Offer(r) PROVE TokenInv'
  BY <1>10 DEF Offer, GoTo, Send, fileVars, signalVars, brokerVars
<1>11. ASSUME NEW r \in Runs, LoopTest(r) PROVE TokenInv'
  BY <1>11 DEF LoopTest, GoTo, fileVars, signalVars, netVars, brokerVars
<1>12. ASSUME NEW r \in Runs, Poll(r) PROVE TokenInv'
  BY <1>12 DEF Poll, GoTo, Handled, fileVars
<1>13. ASSUME NEW r \in Runs, Leave(r) PROVE TokenInv'
  BY <1>13 DEF Leave, GoTo, fileVars, signalVars, brokerVars
<1>14. ASSUME NEW r \in Runs, DestroyStatics(r) PROVE TokenInv'
  BY <1>14 DEF DestroyStatics, GoTo, fileVars, signalVars, netVars
<1>15. ASSUME NEW r \in Runs, StopWorkers(r) PROVE TokenInv'
  BY <1>15 DEF StopWorkers, GoTo, fileVars, signalVars, netVars
<1>16. ASSUME NEW r \in Runs, Join(r) PROVE TokenInv'
  BY <1>16 DEF Join, GoTo, fileVars, signalVars, netVars, brokerVars
<1>17. ASSUME NEW r \in Runs, Take(r) PROVE TokenInv'
  BY <1>17 DEF Take, GoTo, Alive, fileVars, signalVars, netVars
<1>18. ASSUME NEW r \in Runs, Handle(r) PROVE TokenInv'
  BY <1>18 DEF Handle, GoTo, Send, Alive, fileVars, signalVars
<1>19. ASSUME NEW r \in Runs, Return(r) PROVE TokenInv'
  BY <1>19 DEF Return, fileVars, signalVars, netVars
<1>20. ASSUME NEW r \in Runs, Signal(r) PROVE TokenInv'
  BY <1>20 DEF Signal, GoTo, Torn, Alive, Threads, netVars, brokerVars
<1>21. ASSUME NEW r \in Runs, Kill(r) PROVE TokenInv'
  BY <1>21 DEF Kill, GoTo, Torn, Alive, signalVars, netVars, brokerVars
<1>22. ASSUME NEW r \in Runs, Reply(r) PROVE TokenInv'
  BY <1>22 DEF Reply, fileVars, signalVars, brokerVars
<1>23. ASSUME NEW r \in Runs, Disconnect(r) PROVE TokenInv'
  BY <1>23 DEF Disconnect, fileVars, signalVars, brokerVars
<1>24. CASE UNCHANGED vars
  BY <1>24 DEF vars, fileVars, signalVars, netVars, brokerVars
<1> QED
  BY <1>1, <1>2, <1>3, <1>4, <1>5, <1>6, <1>7, <1>8, <1>9, <1>10, <1>11, <1>12, <1>13,
     <1>14, <1>15, <1>16, <1>17, <1>18, <1>19, <1>20, <1>21, <1>22, <1>23, <1>24 DEF Next,
     Main, Worker, AllEnded

\* A file that is complete is not offered again, and no signal is forgotten.
LEMMA EndPreserved == Inv /\ [Next]_vars => EndInv'
<1> SUFFICES ASSUME Inv, [Next]_vars PROVE EndInv'
  OBVIOUS
<1> USE ThenOrder DEF Inv, EndInv, TypeOK, Ends
<1>1. ASSUME NEW r \in Runs, TestUuid(r) PROVE EndInv'
  BY <1>1 DEF TestUuid, GoTo, signalVars, netVars, brokerVars
<1>2. ASSUME NEW r \in Runs, ReadUuid(r) PROVE EndInv'
  BY <1>2 DEF ReadUuid, GoTo, fileVars, signalVars, netVars, brokerVars
<1>3. ASSUME NEW r \in Runs, OpenUuid(r) PROVE EndInv'
  BY <1>3 DEF OpenUuid, GoTo, signalVars, netVars, brokerVars
<1>4. ASSUME NEW r \in Runs, WriteUuid(r) PROVE EndInv'
  BY <1>4 DEF WriteUuid, GoTo, signalVars, netVars, brokerVars
<1>5. ASSUME NEW r \in Runs, Args(r) PROVE EndInv'
  BY <1>5 DEF Args, GoTo, fileVars, signalVars, netVars, brokerVars
<1>6. ASSUME NEW r \in Runs, Signals(r) PROVE EndInv'
  BY <1>6 DEF Signals, GoTo, fileVars, netVars, brokerVars
<1>7. ASSUME NEW r \in Runs, Connect(r) PROVE EndInv'
  BY <1>7 DEF Connect, GoTo, fileVars, signalVars, brokerVars
<1>8. ASSUME NEW r \in Runs, makeLocalFile(r) PROVE EndInv'
  BY <1>8 DEF makeLocalFile, GoTo, fileVars, signalVars, netVars, brokerVars
<1>9. ASSUME NEW r \in Runs, StartBroker(r) PROVE EndInv'
  BY <1>9 DEF StartBroker, GoTo, fileVars, netVars
<1>10. ASSUME NEW r \in Runs, Offer(r) PROVE EndInv'
  BY <1>10 DEF Offer, GoTo, Send, fileVars, signalVars, brokerVars
<1>11. ASSUME NEW r \in Runs, LoopTest(r) PROVE EndInv'
  BY <1>11 DEF LoopTest, GoTo, fileVars, signalVars, netVars, brokerVars
<1>12. ASSUME NEW r \in Runs, Poll(r) PROVE EndInv'
  <2>1. client_files' = client_files /\ destroyed' = destroyed
    BY <1>12 DEF Poll, Handled
  <2>2. \A s \in Runs : s # r => pc'[s] = pc[s] /\ term_signal'[s] = term_signal[s]
    BY <1>12 DEF Poll, Handled, GoTo
  <2>3. pc'[r] = IF term_signal'[r] THEN "leave" ELSE "test"
    BY <1>12 DEF Poll, GoTo
  <2>4. ~destroyed[r]
    BY <1>12 DEF Poll
  <2> QED
    BY <2>1, <2>2, <2>3, <2>4
<1>13. ASSUME NEW r \in Runs, Leave(r) PROVE EndInv'
  BY <1>13 DEF Leave, GoTo, fileVars, signalVars, brokerVars
<1>14. ASSUME NEW r \in Runs, DestroyStatics(r) PROVE EndInv'
  BY <1>14 DEF DestroyStatics, GoTo, fileVars, signalVars, netVars
<1>15. ASSUME NEW r \in Runs, StopWorkers(r) PROVE EndInv'
  BY <1>15 DEF StopWorkers, GoTo, fileVars, signalVars, netVars
<1>16. ASSUME NEW r \in Runs, Join(r) PROVE EndInv'
  BY <1>16 DEF Join, GoTo, fileVars, signalVars, netVars, brokerVars
<1>17. ASSUME NEW r \in Runs, Take(r) PROVE EndInv'
  BY <1>17 DEF Take, GoTo, Alive, fileVars, signalVars, netVars
<1>18. ASSUME NEW r \in Runs, Handle(r) PROVE EndInv'
  BY <1>18 DEF Handle, GoTo, Send, Alive, fileVars, signalVars
<1>19. ASSUME NEW r \in Runs, Return(r) PROVE EndInv'
  BY <1>19 DEF Return, fileVars, signalVars, netVars
<1>20. ASSUME NEW r \in Runs, Signal(r) PROVE EndInv'
  BY <1>20 DEF Signal, GoTo, Torn, Alive, Threads, netVars, brokerVars
<1>21. ASSUME NEW r \in Runs, Kill(r) PROVE EndInv'
  BY <1>21 DEF Kill, GoTo, Torn, Alive, signalVars, netVars, brokerVars
<1>22. ASSUME NEW r \in Runs, Reply(r) PROVE EndInv'
  BY <1>22 DEF Reply, fileVars, signalVars, brokerVars
<1>23. ASSUME NEW r \in Runs, Disconnect(r) PROVE EndInv'
  BY <1>23 DEF Disconnect, fileVars, signalVars, brokerVars
<1>24. CASE UNCHANGED vars
  BY <1>24 DEF vars, fileVars, signalVars, netVars, brokerVars
<1> QED
  BY <1>1, <1>2, <1>3, <1>4, <1>5, <1>6, <1>7, <1>8, <1>9, <1>10, <1>11, <1>12, <1>13,
     <1>14, <1>15, <1>16, <1>17, <1>18, <1>19, <1>20, <1>21, <1>22, <1>23, <1>24 DEF Next,
     Main, Worker, AllEnded

-----------------------------------------------------------------------------
(* The theorems. *)

\* Inv is an invariant.
LEMMA Invariance == Spec => []Inv
<1>1. Init => Inv
  <2> SUFFICES ASSUME Init PROVE Inv
    OBVIOUS
  <2>1. TypeOK
    <3>1. kills \in 0..MaxKills
      BY ClientAssumption DEF Init
    <3> QED
      BY <3>1 DEF Init, TypeOK
  <2>2. OwnInv /\ CreatingInv /\ UuidAgrees
    BY DEF Init, OwnInv, CreatingInv, Creating, UuidAgrees, Absent, Empty
  <2>3. MaskInv /\ SignalsAreRead /\ TokenInv /\ EndInv
    BY DEF Init, MaskInv, SignalsAreRead, TokenInv, EndInv
  <2> QED
    BY <2>1, <2>2, <2>3 DEF Inv
<1>2. Inv /\ [Next]_vars => Inv'
  BY TypePreserved, OwnPreserved, CreatingPreserved, UuidPreserved, MaskPreserved,
     SignalsPreserved, TokenPreserved, EndPreserved DEF Inv
<1> QED
  BY <1>1, <1>2, PTL DEF Spec

\* The types of ClientProcess, for any number of runs, uploaders and kills.
THEOREM ClientTypeCorrect == Spec => []TypeOK
  BY Invariance, PTL DEF Inv

\* Runs that are not disturbed while they create the UUID file have the UUID in it,
\* however many they are (getClientUUID).
THEOREM RunsAgree == Spec => []UuidAgrees
  BY Invariance, PTL DEF Inv

\* Once the SignalHandler is constructed no termination signal is fatal, since main
\* starts the worker after it.
THEOREM NoFatalSignal == Spec => []SignalsAreRead
  BY Invariance, PTL DEF Inv

\* Unless a signal has ended the loop of main, the worker makes no use of what is freed
\* with the statics, which are destroyed before it is joined and possibly before it
\* has returned from its last request (main, handleRequest).
THEOREM NothingFreedUsed == Spec => []FreedUnused
<1>1. Inv => FreedUnused
  BY DEF Inv, TokenInv, EndInv, FreedUnused
<1> QED
  BY <1>1, Invariance, PTL

=============================================================================
