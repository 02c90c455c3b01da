------------------------ MODULE RequestBrokerProofs -------------------------
(***************************************************************************)
(* Proofs about RequestBroker, for any number of workers and requests: the *)
(* type invariant, that no wakeup is lost, that a worker never takes from  *)
(* an empty queue, that stopping leaves nothing running, and that the      *)
(* broker implements WorkQueue.                                            *)
(***************************************************************************)
EXTENDS RequestBroker, TLAPS

USE DEF Main, Nobody, Workers, Requests

\* Where a worker, and where the owner, holds the mutex.
WorkerHolds == {"check", "sleep", "woken"}

OwnerHolds == {"start", "push", "notify", "unlock", "stopSet", "stopNotify",
               "stopUnlock"}

\* The mutex has the holder that the program counters say it has.
MutexInv ==
    /\ mainPc \in OwnerHolds <=> sm_req_brkr_mtx = Main
    /\ \A w \in Workers : pc[w] \in WorkerHolds <=> sm_req_brkr_mtx = w

\* What a worker has found while it holds the mutex stays true.
TestedInv ==
    \A w \in Workers : pc[w] = "sleep" => sm_req_list = <<>> /\ ~sm_terminate

\* Only a worker in wait is on the condition variable, and only one in handle has
\* a request.
WorkerInv ==
    \A w \in Workers :
        /\ w \in waiting => pc[w] = "wait"
        /\ req[w] # 0 <=> pc[w] = "handle"

\* Workers are started in order, count starts again from 0 for the joins, and a
\* request is queued only within the bound.
OwnerInv ==
    /\ mainPc \in {"startLock", "start"} =>
          \A w \in Workers : w > count => pc[w] = "new"
    /\ mainPc \notin {"start", "join", "end"} => count = 0
    /\ mainPc \in {"queueLock", "push"} => queued < MaxRequests

\* The workers joined so far have ended.
JoinInv ==
    /\ mainPc \in {"join", "end"} => \A w \in Workers : w <= count => pc[w] = "exit"
    /\ mainPc = "end" => count = NumWorkers

\* The invariant that the others follow from.
Inv ==
    /\ TypeOK
    /\ MutexInv
    /\ TestedInv
    /\ WorkerInv
    /\ OwnerInv
    /\ JoinInv
    /\ NoLostWakeup
    /\ FrontExists

-----------------------------------------------------------------------------
(* Types. *)

\* The initial values have their types.
LEMMA TypeInit == Init => TypeOK
<1> SUFFICES ASSUME Init PROVE TypeOK
  OBVIOUS
<1> USE BrokerAssumption DEF Init
<1>1. sm_req_brkr_mtx \in 0..Nobody /\ sm_req_list \in Seq(Requests)
  OBVIOUS
<1>2. sm_terminate \in BOOLEAN /\ waiting \subseteq Workers /\ handled \subseteq Requests
  OBVIOUS
<1>3. pc \in [Workers -> WorkerPcs] /\ req \in [Workers -> 0..MaxRequests]
  BY DEF WorkerPcs
<1>4. mainPc \in MainPcs
  BY DEF MainPcs
<1>5. count \in 0..NumWorkers /\ queued \in 0..MaxRequests /\ spurious \in 0..MaxSpurious
  OBVIOUS
<1> QED
  BY <1>1, <1>2, <1>3, <1>4, <1>5 DEF TypeOK

\* A step keeps the types: the bound on queued, that a worker takes a request only
\* from a queue that has one, and that it handles only a request it has, are
\* needed for the actions that use them.
LEMMA TypeNext == TypeOK /\ OwnerInv /\ FrontExists /\ WorkerInv /\ [Next]_vars => TypeOK'
<1> SUFFICES ASSUME TypeOK, OwnerInv, FrontExists, WorkerInv, [Next]_vars PROVE TypeOK'
  OBVIOUS
<1> USE BrokerAssumption DEF TypeOK
<1>1. CASE StartLock
  <2>1. mainPc' \in MainPcs /\ sm_req_brkr_mtx' \in 0..Nobody
    BY <1>1 DEF StartLock, Lock, MainPcs
  <2>2. sm_terminate' \in BOOLEAN
    BY <1>1 DEF StartLock
  <2> QED
    BY <1>1, <2>1, <2>2 DEF StartLock
<1>2. CASE StartWorker
  BY <1>2 DEF StartWorker, WorkerPcs
<1>3. CASE StartUnlock
  BY <1>3 DEF StartUnlock, Unlock, MainPcs
<1>4. CASE Queue
  BY <1>4 DEF Queue, MainPcs
<1>5. CASE QueueLock
  BY <1>5 DEF QueueLock, Lock, MainPcs
<1>6. CASE QueuePush
  BY <1>6 DEF QueuePush, OwnerInv, MainPcs
<1>7. CASE QueueNotify
  BY <1>7 DEF QueueNotify, MainPcs
<1>8. CASE QueueUnlock
  BY <1>8 DEF QueueUnlock, Unlock, MainPcs
<1>9. CASE Stop
  BY <1>9 DEF Stop, MainPcs
<1>10. CASE StopLock
  BY <1>10 DEF StopLock, Lock, MainPcs
<1>11. CASE StopSet
  BY <1>11 DEF StopSet, MainPcs
<1>12. CASE StopNotify
  BY <1>12 DEF StopNotify, MainPcs
<1>13. CASE StopUnlock
  BY <1>13 DEF StopUnlock, Unlock, MainPcs
<1>14. CASE Join
  BY <1>14 DEF Join
<1>15. CASE Stopped
  BY <1>15 DEF Stopped, MainPcs
<1>16. ASSUME NEW w \in Workers, WorkerStep(w) \/ SpuriousWakeup(w)
       PROVE  TypeOK'
  <2> USE DEF ownerVars
  <2>1. CASE LoopTest(w)
    BY <2>1 DEF LoopTest, WorkerPcs
  <2>2. CASE WorkerLock(w)
    BY <2>2 DEF WorkerLock, Lock, WorkerPcs
  <2>3. CASE Test(w)
    BY <2>3 DEF Test, WorkerPcs
  <2>4. CASE Wait(w)
    BY <2>4 DEF Wait, Unlock, WorkerPcs
  <2>5. CASE SpuriousWakeup(w)
    BY <2>5 DEF SpuriousWakeup
  <2>6. CASE Relock(w)
    BY <2>6 DEF Relock, Lock, WorkerPcs
  <2>7. CASE Terminate(w)
    BY <2>7 DEF Terminate, Unlock, WorkerPcs
  <2>8. CASE TestAgain(w)
    BY <2>8 DEF TestAgain, WorkerPcs
  <2>9. CASE Take(w)
    <3>1. sm_req_list # <<>>
      BY <2>9 DEF Take, FrontExists
    <3>2. Head(sm_req_list) \in Requests /\ Tail(sm_req_list) \in Seq(Requests)
      BY <3>1
    <3>3. sm_req_list' \in Seq(Requests) /\ sm_req_brkr_mtx' \in 0..Nobody
      BY <2>9, <3>2 DEF Take, Unlock
    <3>4. pc' \in [Workers -> WorkerPcs]
      BY <2>9 DEF Take, WorkerPcs
    <3>5. req' \in [Workers -> 0..MaxRequests]
      BY <2>9, <3>2 DEF Take
    <3> QED
      BY <2>9, <3>3, <3>4, <3>5 DEF Take, ownerVars
  <2>10. CASE Handle(w)
    <3>1. pc' \in [Workers -> WorkerPcs] /\ req' \in [Workers -> 0..MaxRequests]
      BY <2>10 DEF Handle, WorkerPcs
    <3>2. req[w] \in Requests
      BY <2>10 DEF Handle, WorkerInv
    <3>3. handled' \subseteq Requests
      BY <2>10, <3>2 DEF Handle
    <3> QED
      BY <2>10, <3>1, <3>3 DEF Handle
  <2> QED
    BY <1>16, <2>1, <2>2, <2>3, <2>4, <2>5, <2>6, <2>7, <2>8, <2>9, <2>10 DEF WorkerStep
<1>17. CASE UNCHANGED vars
  BY <1>17 DEF vars
<1> QED
  BY <1>1, <1>2, <1>3, <1>4, <1>5, <1>6, <1>7, <1>8,
     <1>9, <1>10, <1>11, <1>12, <1>13, <1>14, <1>15, <1>16, <1>17 DEF Next, OwnerStep, Ended

-----------------------------------------------------------------------------
(* The inductive invariant. *)

\* It holds initially.
LEMMA InvInit == Init => Inv
<1> SUFFICES ASSUME Init PROVE Inv
  OBVIOUS
<1> USE BrokerAssumption DEF Init
<1>1. TypeOK
  BY TypeInit
<1>2. MutexInv /\ TestedInv
  BY DEF MutexInv, WorkerHolds, OwnerHolds, TestedInv
<1>3. WorkerInv /\ OwnerInv /\ JoinInv
  BY DEF WorkerInv, OwnerInv, JoinInv
<1>4. NoLostWakeup /\ FrontExists
  BY DEF NoLostWakeup, FrontExists
<1> QED
  BY <1>1, <1>2, <1>3, <1>4 DEF Inv

\* A worker that takes the mutex goes where a worker holds it.
LEMMA MutexTaken ==
    ASSUME TypeOK, MutexInv, NEW w \in Workers, NEW p \in WorkerHolds, Lock(w),
           pc' = [pc EXCEPT ![w] = p], mainPc' = mainPc
    PROVE  MutexInv'
<1>1. w # Main /\ w # Nobody /\ \A v \in Workers : v # Nobody
  BY BrokerAssumption DEF Workers, Main, Nobody
<1>2. sm_req_brkr_mtx = Nobody /\ sm_req_brkr_mtx' = w
  BY DEF Lock
<1>3. mainPc' \in OwnerHolds <=> sm_req_brkr_mtx' = Main
  <2>1. mainPc \notin OwnerHolds
    BY <1>2, BrokerAssumption DEF MutexInv, Main, Nobody
  <2> QED
    BY <1>1, <1>2, <2>1
<1>4. ASSUME NEW v \in Workers
      PROVE  pc'[v] \in WorkerHolds <=> sm_req_brkr_mtx' = v
  <2>1. pc'[v] = IF v = w THEN p ELSE pc[v]
    BY DEF TypeOK
  <2>2. pc[v] \notin WorkerHolds
    BY <1>1, <1>2 DEF MutexInv
  <2> QED
    BY <1>2, <2>1, <2>2
<1> QED
  BY <1>3, <1>4 DEF MutexInv, OwnerHolds, WorkerHolds

\* A worker that releases the mutex goes where no worker holds it.
LEMMA MutexReleased ==
    ASSUME TypeOK, MutexInv, NEW w \in Workers, pc[w] \in WorkerHolds, NEW p,
           p \notin WorkerHolds, Unlock, pc' = [pc EXCEPT ![w] = p], mainPc' = mainPc
    PROVE  MutexInv'
<1>1. w # Main /\ Nobody # Main /\ \A v \in Workers : v # Nobody
  BY BrokerAssumption DEF Workers, Main, Nobody
<1>2. sm_req_brkr_mtx = w /\ sm_req_brkr_mtx' = Nobody
  BY DEF Unlock, MutexInv
<1>3. mainPc' \in OwnerHolds <=> sm_req_brkr_mtx' = Main
  BY <1>1, <1>2 DEF MutexInv
<1>4. ASSUME NEW v \in Workers
      PROVE  pc'[v] \in WorkerHolds <=> sm_req_brkr_mtx' = v
  <2>1. pc'[v] = IF v = w THEN p ELSE pc[v]
    BY DEF TypeOK
  <2>2. v # w => pc[v] \notin WorkerHolds
    BY <1>2 DEF MutexInv
  <2> QED
    BY <1>1, <1>2, <2>1, <2>2
<1> QED
  BY <1>3, <1>4 DEF MutexInv, OwnerHolds, WorkerHolds

\* Every step keeps it.
LEMMA InvNext == Inv /\ [Next]_vars => Inv'
<1> SUFFICES ASSUME Inv, [Next]_vars PROVE Inv'
  OBVIOUS
<1> TypeOK'
  BY TypeNext DEF Inv
<1> USE BrokerAssumption DEF Inv, TypeOK, MutexInv, WorkerHolds, OwnerHolds, TestedInv,
           WorkerInv, OwnerInv, JoinInv, NoLostWakeup, FrontExists,
           Lock, Unlock
<1>1. CASE StartLock
  <2>1. MutexInv'
    BY <1>1 DEF StartLock
  <2>2. TestedInv'
    BY <1>1 DEF StartLock
  <2>3. WorkerInv'
    BY <1>1 DEF StartLock
  <2>4. OwnerInv'
    BY <1>1 DEF StartLock
  <2>5. JoinInv'
    BY <1>1 DEF StartLock
  <2>6. NoLostWakeup'
    BY <1>1 DEF StartLock
  <2>7. FrontExists'
    BY <1>1 DEF StartLock
  <2> QED
    BY <2>1, <2>2, <2>3, <2>4, <2>5, <2>6, <2>7
<1>2. CASE StartWorker
  <2>1. MutexInv'
    BY <1>2 DEF StartWorker
  <2>2. TestedInv'
    BY <1>2 DEF StartWorker
  <2>3. WorkerInv'
    BY <1>2 DEF StartWorker
  <2>4. OwnerInv'
    BY <1>2 DEF StartWorker
  <2>5. JoinInv'
    BY <1>2 DEF StartWorker
  <2>6. NoLostWakeup'
    BY <1>2 DEF StartWorker
  <2>7. FrontExists'
    BY <1>2 DEF StartWorker
  <2> QED
    BY <2>1, <2>2, <2>3, <2>4, <2>5, <2>6, <2>7
<1>3. CASE StartUnlock
  <2>1. MutexInv'
    BY <1>3 DEF StartUnlock
  <2>2. TestedInv'
    BY <1>3 DEF StartUnlock
  <2>3. WorkerInv'
    BY <1>3 DEF StartUnlock
  <2>4. OwnerInv'
    BY <1>3 DEF StartUnlock
  <2>5. JoinInv'
    BY <1>3 DEF StartUnlock
  <2>6. NoLostWakeup'
    BY <1>3 DEF StartUnlock
  <2>7. FrontExists'
    BY <1>3 DEF StartUnlock
  <2> QED
    BY <2>1, <2>2, <2>3, <2>4, <2>5, <2>6, <2>7
<1>4. CASE Queue
  BY <1>4 DEF Queue
<1>5. CASE QueueLock
  BY <1>5 DEF QueueLock
<1>6. CASE QueuePush
  <2>1. MutexInv'
    BY <1>6 DEF QueuePush
  <2>2. TestedInv'
    BY <1>6 DEF QueuePush
  <2>3. WorkerInv'
    BY <1>6 DEF QueuePush
  <2>4. OwnerInv'
    BY <1>6 DEF QueuePush
  <2>5. JoinInv'
    BY <1>6 DEF QueuePush
  <2>6. NoLostWakeup'
    BY <1>6 DEF QueuePush
  <2>7. FrontExists'
    BY <1>6 DEF QueuePush
  <2> QED
    BY <2>1, <2>2, <2>3, <2>4, <2>5, <2>6, <2>7
<1>7. CASE QueueNotify
  BY <1>7 DEF QueueNotify
<1>8. CASE QueueUnlock
  <2>1. MutexInv'
    BY <1>8 DEF QueueUnlock
  <2>2. TestedInv'
    BY <1>8 DEF QueueUnlock
  <2>3. WorkerInv'
    BY <1>8 DEF QueueUnlock
  <2>4. OwnerInv'
    BY <1>8 DEF QueueUnlock
  <2>5. JoinInv'
    BY <1>8 DEF QueueUnlock
  <2>6. NoLostWakeup'
    BY <1>8 DEF QueueUnlock
  <2>7. FrontExists'
    BY <1>8 DEF QueueUnlock
  <2> QED
    BY <2>1, <2>2, <2>3, <2>4, <2>5, <2>6, <2>7
<1>9. CASE Stop
  BY <1>9 DEF Stop
<1>10. CASE StopLock
  <2>1. MutexInv'
    BY <1>10 DEF StopLock
  <2>2. TestedInv'
    BY <1>10 DEF StopLock
  <2>3. WorkerInv'
    BY <1>10 DEF StopLock
  <2>4. OwnerInv'
    BY <1>10 DEF StopLock
  <2>5. JoinInv'
    BY <1>10 DEF StopLock
  <2>6. NoLostWakeup'
    BY <1>10 DEF StopLock
  <2>7. FrontExists'
    BY <1>10 DEF StopLock
  <2> QED
    BY <2>1, <2>2, <2>3, <2>4, <2>5, <2>6, <2>7
<1>11. CASE StopSet
  BY <1>11 DEF StopSet
<1>12. CASE StopNotify
  BY <1>12 DEF StopNotify
<1>13. CASE StopUnlock
  <2>1. MutexInv'
    BY <1>13 DEF StopUnlock
  <2>2. TestedInv'
    BY <1>13 DEF StopUnlock
  <2>3. WorkerInv'
    BY <1>13 DEF StopUnlock
  <2>4. OwnerInv'
    BY <1>13 DEF StopUnlock
  <2>5. JoinInv'
    BY <1>13 DEF StopUnlock
  <2>6. NoLostWakeup'
    BY <1>13 DEF StopUnlock
  <2>7. FrontExists'
    BY <1>13 DEF StopUnlock
  <2> QED
    BY <2>1, <2>2, <2>3, <2>4, <2>5, <2>6, <2>7
<1>14. CASE Join
  <2>1. MutexInv'
    BY <1>14 DEF Join
  <2>2. TestedInv'
    BY <1>14 DEF Join
  <2>3. WorkerInv'
    BY <1>14 DEF Join
  <2>4. OwnerInv'
    BY <1>14 DEF Join
  <2>5. JoinInv'
    BY <1>14 DEF Join
  <2>6. NoLostWakeup'
    BY <1>14 DEF Join
  <2>7. FrontExists'
    BY <1>14 DEF Join
  <2> QED
    BY <2>1, <2>2, <2>3, <2>4, <2>5, <2>6, <2>7
<1>15. CASE Stopped
  BY <1>15 DEF Stopped
<1>16. ASSUME NEW w \in Workers, WorkerStep(w) \/ SpuriousWakeup(w)
       PROVE  Inv'
  <2> USE DEF ownerVars
  <2>1. CASE LoopTest(w)
    <3>1. MutexInv'
      BY <2>1 DEF LoopTest
    <3>2. TestedInv'
      BY <2>1 DEF LoopTest
    <3>3. WorkerInv'
      BY <2>1 DEF LoopTest
    <3>4. OwnerInv'
      BY <2>1 DEF LoopTest
    <3>5. JoinInv'
      BY <2>1 DEF LoopTest
    <3>6. NoLostWakeup'
      BY <2>1 DEF LoopTest
    <3>7. FrontExists'
      BY <2>1 DEF LoopTest
    <3> QED
      BY <3>1, <3>2, <3>3, <3>4, <3>5, <3>6, <3>7
  <2>2. CASE WorkerLock(w)
    <3>1. MutexInv'
      <4> HIDE DEF Inv, TypeOK, MutexInv, WorkerHolds, OwnerHolds, Lock, Unlock
      <4>1. TypeOK /\ MutexInv
        BY DEF Inv
      <4>2. "check" \in WorkerHolds
        BY DEF WorkerHolds
      <4> QED
        BY <4>1, <4>2, <2>2, MutexTaken DEF WorkerLock, ownerVars
    <3>2. TestedInv'
      BY <2>2 DEF WorkerLock
    <3>3. WorkerInv'
      BY <2>2 DEF WorkerLock
    <3>4. OwnerInv'
      BY <2>2 DEF WorkerLock
    <3>5. JoinInv'
      BY <2>2 DEF WorkerLock
    <3>6. NoLostWakeup'
      BY <2>2 DEF WorkerLock
    <3>7. FrontExists'
      BY <2>2 DEF WorkerLock
    <3> QED
      BY <3>1, <3>2, <3>3, <3>4, <3>5, <3>6, <3>7
  <2>3. CASE Test(w)
    BY <2>3 DEF Test
  <2>4. CASE Wait(w)
    <3>1. MutexInv'
      <4> HIDE DEF Inv, TypeOK, MutexInv, WorkerHolds, OwnerHolds, Lock, Unlock
      <4>1. TypeOK /\ MutexInv
        BY DEF Inv
      <4>2. pc[w] \in WorkerHolds /\ "wait" \notin WorkerHolds
        BY <2>4 DEF Wait, WorkerHolds
      <4> QED
        BY <4>1, <4>2, <2>4, MutexReleased DEF Wait, ownerVars
    <3>2. TestedInv'
      BY <2>4 DEF Wait
    <3>3. WorkerInv'
      BY <2>4 DEF Wait
    <3>4. OwnerInv'
      BY <2>4 DEF Wait
    <3>5. JoinInv'
      BY <2>4 DEF Wait
    <3>6. NoLostWakeup'
      BY <2>4 DEF Wait
    <3>7. FrontExists'
      BY <2>4 DEF Wait
    <3> QED
      BY <3>1, <3>2, <3>3, <3>4, <3>5, <3>6, <3>7
  <2>5. CASE SpuriousWakeup(w)
    <3>1. MutexInv'
      BY <2>5 DEF SpuriousWakeup
    <3>2. TestedInv'
      BY <2>5 DEF SpuriousWakeup
    <3>3. WorkerInv'
      BY <2>5 DEF SpuriousWakeup
    <3>4. OwnerInv'
      BY <2>5 DEF SpuriousWakeup
    <3>5. JoinInv'
      BY <2>5 DEF SpuriousWakeup
    <3>6. NoLostWakeup'
      BY <2>5 DEF SpuriousWakeup
    <3>7. FrontExists'
      BY <2>5 DEF SpuriousWakeup
    <3> QED
      BY <3>1, <3>2, <3>3, <3>4, <3>5, <3>6, <3>7
  <2>6. CASE Relock(w)
    <3>1. MutexInv'
      <4> HIDE DEF Inv, TypeOK, MutexInv, WorkerHolds, OwnerHolds, Lock, Unlock
      <4>1. TypeOK /\ MutexInv
        BY DEF Inv
      <4>2. "check" \in WorkerHolds
        BY DEF WorkerHolds
      <4> QED
        BY <4>1, <4>2, <2>6, MutexTaken DEF Relock, ownerVars
    <3>2. TestedInv'
      BY <2>6 DEF Relock
    <3>3. WorkerInv'
      BY <2>6 DEF Relock
    <3>4. OwnerInv'
      BY <2>6 DEF Relock
    <3>5. JoinInv'
      BY <2>6 DEF Relock
    <3>6. NoLostWakeup'
      BY <2>6 DEF Relock
    <3>7. FrontExists'
      BY <2>6 DEF Relock
    <3> QED
      BY <3>1, <3>2, <3>3, <3>4, <3>5, <3>6, <3>7
  <2>7. CASE Terminate(w)
    BY <2>7 DEF Terminate
  <2>8. CASE TestAgain(w)
    BY <2>8 DEF TestAgain
  <2>9. CASE Take(w)
    <3>1. MutexInv'
      BY <2>9 DEF Take
    <3>2. TestedInv'
      BY <2>9 DEF Take
    <3>3. WorkerInv'
      BY <2>9 DEF Take
    <3>4. OwnerInv'
      BY <2>9 DEF Take
    <3>5. JoinInv'
      BY <2>9 DEF Take
    <3>6. NoLostWakeup'
      BY <2>9 DEF Take
    <3>7. FrontExists'
      BY <2>9 DEF Take
    <3> QED
      BY <3>1, <3>2, <3>3, <3>4, <3>5, <3>6, <3>7
  <2>10. CASE Handle(w)
    <3>1. MutexInv'
      BY <2>10 DEF Handle
    <3>2. TestedInv'
      BY <2>10 DEF Handle
    <3>3. WorkerInv'
      BY <2>10 DEF Handle
    <3>4. OwnerInv'
      BY <2>10 DEF Handle
    <3>5. JoinInv'
      BY <2>10 DEF Handle
    <3>6. NoLostWakeup'
      BY <2>10 DEF Handle
    <3>7. FrontExists'
      BY <2>10 DEF Handle
    <3> QED
      BY <3>1, <3>2, <3>3, <3>4, <3>5, <3>6, <3>7
  <2> QED
    BY <1>16, <2>1, <2>2, <2>3, <2>4, <2>5, <2>6, <2>7, <2>8, <2>9, <2>10 DEF WorkerStep
<1>17. CASE UNCHANGED vars
  BY <1>17 DEF vars
<1> HIDE DEF Inv, TypeOK, MutexInv, WorkerHolds, OwnerHolds, TestedInv,
           WorkerInv, OwnerInv, JoinInv, NoLostWakeup, FrontExists
<1> QED
  BY <1>1, <1>2, <1>3, <1>4, <1>5, <1>6, <1>7, <1>8,
     <1>9, <1>10, <1>11, <1>12, <1>13, <1>14, <1>15, <1>16, <1>17 DEF Next, OwnerStep, Ended

\* The invariant holds always.
LEMMA Invariance == Spec => []Inv
BY InvInit, InvNext, PTL DEF Spec

-----------------------------------------------------------------------------
(* Theorems. *)

\* Every variable of the broker always has its type.
THEOREM TypeCorrect == Spec => []TypeOK
<1>1. Inv => TypeOK
  BY DEF Inv
<1> QED
  BY <1>1, Invariance, PTL

\* No worker sleeps through the notification of queueRequest or stopWorkers.
THEOREM WakeupsArrive == Spec => []NoLostWakeup
<1>1. Inv => NoLostWakeup
  BY DEF Inv
<1> QED
  BY <1>1, Invariance, PTL

\* run never calls front and pop_front on an empty deque.
THEOREM TakesWhatIsThere == Spec => []FrontExists
<1>1. Inv => FrontExists
  BY DEF Inv
<1> QED
  BY <1>1, Invariance, PTL

\* When stopWorkers has returned, no thread of the broker runs.
THEOREM StopLeavesNothing == Spec => []StoppedMeansIdle
<1>1. Inv => StoppedMeansIdle
  <2> SUFFICES ASSUME Inv, mainPc = "end"
               PROVE  /\ \A w \in Workers : pc[w] = "exit" /\ req[w] = 0
                      /\ waiting = {}
                      /\ sm_req_brkr_mtx = Nobody
    BY DEF StoppedMeansIdle
  <2> USE BrokerAssumption DEF Inv, TypeOK
  <2>1. \A w \in Workers : pc[w] = "exit"
    BY DEF JoinInv
  <2>2. \A w \in Workers : req[w] = 0
    BY <2>1 DEF WorkerInv
  <2>3. waiting = {}
    BY <2>1 DEF WorkerInv
  <2>4. sm_req_brkr_mtx = Nobody
    <3>1. sm_req_brkr_mtx # Main
      BY DEF MutexInv, OwnerHolds
    <3>2. \A w \in Workers : sm_req_brkr_mtx # w
      BY <2>1 DEF MutexInv, WorkerHolds
    <3> QED
      BY <3>1, <3>2
  <2> QED
    BY <2>1, <2>2, <2>3, <2>4
<1> QED
  BY <1>1, Invariance, PTL

-----------------------------------------------------------------------------
(* The broker implements WorkQueue. *)

\* The elements of a sequence that has been extended.
LEMMA AppendElements ==
    ASSUME NEW S, NEW s \in Seq(S), NEW e \in S
    PROVE  {Append(s, e)[i] : i \in 1..Len(Append(s, e))}
              = {s[i] : i \in 1..Len(s)} \cup {e}
<1>1. Len(Append(s, e)) = Len(s) + 1 /\ Append(s, e)[Len(s) + 1] = e
  OBVIOUS
<1>2. \A i \in 1..Len(s) : Append(s, e)[i] = s[i]
  OBVIOUS
<1>3. Len(s) \in Nat
  OBVIOUS
<1> QED
  BY <1>1, <1>2, <1>3

\* The elements of a sequence, its first taken apart.
LEMMA TailElements ==
    ASSUME NEW S, NEW s \in Seq(S), s # <<>>
    PROVE  {s[i] : i \in 1..Len(s)}
              = {Head(s)} \cup {Tail(s)[i] : i \in 1..Len(Tail(s))}
<1>1. Len(s) \in Nat \ {0} /\ Len(Tail(s)) = Len(s) - 1 /\ Head(s) = s[1]
  OBVIOUS
<1>2. \A i \in 1..Len(Tail(s)) : Tail(s)[i] = s[i + 1]
  OBVIOUS
<1>3. ASSUME NEW i \in 1..Len(s), s[i] # Head(s)
      PROVE  \E j \in 1..Len(Tail(s)) : Tail(s)[j] = s[i]
  <2>1. i - 1 \in 1..Len(Tail(s)) /\ Tail(s)[i - 1] = s[i]
    BY <1>1, <1>2, <1>3
  <2> QED
    BY <2>1
<1>4. ASSUME NEW j \in 1..Len(Tail(s))
      PROVE  \E i \in 1..Len(s) : s[i] = Tail(s)[j]
  <2>1. j + 1 \in 1..Len(s) /\ s[j + 1] = Tail(s)[j]
    BY <1>1, <1>2, <1>4
  <2> QED
    BY <2>1
<1>5. \E i \in 1..Len(s) : s[i] = Head(s)
  BY <1>1
<1> DEFINE All  == {s[i] : i \in 1..Len(s)}
           Rest == {Tail(s)[i] : i \in 1..Len(Tail(s))}
<1>6. ASSUME NEW x \in All PROVE x \in {Head(s)} \cup Rest
  <2>1. PICK i \in 1..Len(s) : x = s[i]
    BY Zenon
  <2> QED
    BY <1>3, <2>1, Zenon
<1>7. ASSUME NEW x \in {Head(s)} \cup Rest PROVE x \in All
  <2>1. CASE x = Head(s)
    BY <1>5, <2>1, Zenon
  <2>2. CASE x \in Rest
    <3>1. PICK j \in 1..Len(Tail(s)) : x = Tail(s)[j]
      BY <2>2, Zenon
    <3> QED
      BY <1>4, <3>1, Zenon
  <2> QED
    BY <1>7, <2>1, <2>2, Zenon
<1> HIDE DEF All, Rest
<1>8. All = {Head(s)} \cup Rest
  BY <1>6, <1>7, Zenon
<1> QED
  BY <1>8, Zenon DEF All, Rest

\* The requests queued so far are those that wait, are being handled or have been.
KnownInv == \A r \in Requests : r \in WQ!Known <=> r <= queued

\* A step of the broker is a step of WorkQueue or leaves its variables alone.
LEMMA StepSimulation ==
    Inv /\ KnownInv /\ [Next]_vars => [WQ!Next]_(WQ!vars) /\ KnownInv'
<1> SUFFICES ASSUME Inv, KnownInv, [Next]_vars
             PROVE  [WQ!Next]_(WQ!vars) /\ KnownInv'
  OBVIOUS
<1> USE BrokerAssumption
<1>0. TypeOK /\ WorkerInv /\ FrontExists /\ OwnerInv
  BY DEF Inv
<1>1. CASE QueuePush
  <2>1. queued + 1 \in Requests /\ queued + 1 \notin WQ!Known
    BY <1>0, <1>1 DEF QueuePush, OwnerInv, KnownInv, TypeOK
  <2>2. 1..((queued + 1) - 1) \subseteq WQ!Known
    BY <1>0 DEF KnownInv, TypeOK
  <2>3. WQ!Put(queued + 1)
    <3>1. sm_req_list' = Append(sm_req_list, queued + 1) /\ UNCHANGED <<req, handled>>
      BY <1>1 DEF QueuePush
    <3> QED
      BY <2>1, <2>2, <3>1 DEF WQ!Put
  <2>4. \A r : r \in WQ!Known' <=> r = queued + 1 \/ r \in WQ!Known
    <3>1. sm_req_list \in Seq(Requests) /\ sm_req_list' = Append(sm_req_list, queued + 1)
      BY <1>0, <1>1 DEF QueuePush, TypeOK
    <3>2. {sm_req_list'[i] : i \in 1..Len(sm_req_list')}
             = {sm_req_list[i] : i \in 1..Len(sm_req_list)} \cup {queued + 1}
      BY <2>1, <3>1, AppendElements
    <3> QED
      BY <1>1, <3>2 DEF QueuePush, WQ!Known
  <2>5. KnownInv'
    BY <1>0, <1>1, <2>1, <2>4 DEF KnownInv, QueuePush, TypeOK
  <2> QED
    BY <2>1, <2>3, <2>5 DEF WQ!Next
<1>2. ASSUME NEW w \in Workers, Take(w)
      PROVE  [WQ!Next]_(WQ!vars) /\ KnownInv'
  <2>1. sm_req_list # <<>> /\ req[w] = 0
    BY <1>0, <1>2 DEF Take, FrontExists, WorkerInv
  <2>2. WQ!Take(w)
    BY <1>2, <2>1 DEF Take, WQ!Take
  <2>3. \A r \in Requests : r \in WQ!Known' <=> r \in WQ!Known
    <3> SUFFICES ASSUME NEW r \in Requests PROVE r \in WQ!Known' <=> r \in WQ!Known
      OBVIOUS
    <3>1. {sm_req_list[i] : i \in 1..Len(sm_req_list)}
             = {Head(sm_req_list)} \cup {sm_req_list'[i] : i \in 1..Len(sm_req_list')}
      <4>1. sm_req_list \in Seq(Requests) /\ sm_req_list' = Tail(sm_req_list)
        BY <1>0, <1>2 DEF Take, TypeOK
      <4>2. {sm_req_list[i] : i \in 1..Len(sm_req_list)}
               = {Head(sm_req_list)}
                 \cup {Tail(sm_req_list)[i] : i \in 1..Len(Tail(sm_req_list))}
        <5> HIDE DEF Requests
        <5>1. sm_req_list \in Seq(Requests)
          BY <4>1
        <5>2. sm_req_list # <<>>
          BY <2>1
        <5> QED
          BY <5>1, <5>2, TailElements, Zenon
      <4> QED
        BY <4>1, <4>2
    <3>2. (\E v \in Workers : req'[v] = r)
             <=> (r = Head(sm_req_list) \/ \E v \in Workers : req[v] = r)
      BY <1>0, <1>2, <2>1 DEF Take, TypeOK
    <3>3. handled' = handled
      BY <1>2 DEF Take
    <3> QED
      BY <3>1, <3>2, <3>3 DEF WQ!Known
  <2>4. KnownInv'
    BY <1>2, <2>3 DEF KnownInv, Take, ownerVars
  <2> QED
    BY <1>2, <2>2, <2>4 DEF WQ!Next
<1>3. ASSUME NEW w \in Workers, Handle(w)
      PROVE  [WQ!Next]_(WQ!vars) /\ KnownInv'
  <2>1. req[w] # 0
    BY <1>0, <1>3 DEF Handle, WorkerInv
  <2>2. WQ!Finish(w)
    BY <1>3, <2>1 DEF Handle, WQ!Finish
  <2>3. \A r \in Requests : r \in WQ!Known' <=> r \in WQ!Known
    <3> SUFFICES ASSUME NEW r \in Requests PROVE r \in WQ!Known' <=> r \in WQ!Known
      OBVIOUS
    <3>1. r \in handled' <=> r = req[w] \/ r \in handled
      BY <1>3 DEF Handle
    <3>2. (\E v \in Workers : req[v] = r)
             <=> (r = req[w] \/ \E v \in Workers : req'[v] = r)
      BY <1>0, <1>3, <2>1 DEF Handle, TypeOK
    <3>3. sm_req_list' = sm_req_list
      BY <1>3 DEF Handle
    <3> QED
      BY <3>1, <3>2, <3>3 DEF WQ!Known
  <2>4. KnownInv'
    BY <1>3, <2>3 DEF KnownInv, Handle, ownerVars
  <2> QED
    BY <1>3, <2>2, <2>4 DEF WQ!Next
<1>4. ASSUME UNCHANGED <<sm_req_list, req, handled, queued>>
      PROVE  [WQ!Next]_(WQ!vars) /\ KnownInv'
  BY <1>4 DEF WQ!vars, KnownInv, WQ!Known
<1> QED
  <2>1. CASE OwnerStep \/ Queue \/ Stop
    BY <1>1, <1>4, <2>1 DEF OwnerStep, StartLock, StartWorker, StartUnlock, Queue,
       QueueLock, QueueNotify, QueueUnlock, Stop, StopLock, StopSet, StopNotify,
       StopUnlock, Join, Stopped
  <2>2. ASSUME NEW w \in Workers, WorkerStep(w) \/ SpuriousWakeup(w)
        PROVE  [WQ!Next]_(WQ!vars) /\ KnownInv'
    BY <1>2, <1>3, <1>4, <2>2 DEF WorkerStep, LoopTest, WorkerLock, Test, Wait,
       SpuriousWakeup, Relock, Terminate, TestAgain, ownerVars
  <2>3. CASE UNCHANGED vars
    BY <1>4, <2>3 DEF vars
  <2> QED
    BY <2>1, <2>2, <2>3 DEF Next, Ended

\* The broker implements WorkQueue: requests are handed out in order, each once.
THEOREM BrokerIsWorkQueue == Spec => ImplementsWorkQueue
<1>1. Init => WQ!Init /\ KnownInv
  BY BrokerAssumption DEF Init, WQ!Init, KnownInv, WQ!Known
<1> QED
  BY <1>1, Invariance, StepSimulation, PTL DEF Spec, WQ!Spec, ImplementsWorkQueue
=============================================================================
