--------------------------- MODULE RequestBroker ----------------------------
(***************************************************************************)
(* RequestBroker and its worker threads: one mutex, one condition variable,*)
(* the request queue and the termination flag.  The thread that owns the   *)
(* broker (main, with the event loop that queues requests) starts the      *)
(* workers, queues requests and at some point stops the broker.            *)
(*                                                                         *)
(* A step of a thread is what it does between two points at which another  *)
(* thread can see or change what it uses: taking the mutex, each statement *)
(* on the shared state while holding it, releasing it, and the test of the *)
(* termination flag that is made without it.                               *)
(***************************************************************************)
EXTENDS Naturals, Sequences

CONSTANTS
    NumWorkers,   \* n_workers
    MaxRequests,  \* bound: how many requests are queued
    MaxSpurious   \* bound: how many spurious wakeups there are

ASSUME BrokerAssumption ==
    /\ NumWorkers \in Nat
    /\ MaxRequests \in Nat
    /\ MaxSpurious \in Nat

Workers == 1..NumWorkers
Requests == 1..MaxRequests

Main == 0      \* the thread that owns the broker
Nobody == NumWorkers + 1

VARIABLES
    sm_req_brkr_mtx,  \* the holder of the mutex, or Nobody
    sm_req_list,      \* the queue
    sm_terminate,     \* the termination flag
    waiting,          \* the workers blocked on sm_req_list_cv
    pc,               \* pc[w]: where worker w is
    req,              \* req[w]: the request it has taken, 0 for none
    mainPc,           \* where the owner is
    count,            \* workers started or joined, by mainPc
    queued,           \* how many requests have been queued
    handled,          \* the requests that have been handled
    spurious          \* how many spurious wakeups there have been

vars == <<sm_req_brkr_mtx, sm_req_list, sm_terminate, waiting, pc, req, mainPc,
          count, queued, handled, spurious>>

WorkerPcs == {"new", "loop", "lock", "check", "sleep", "wait", "woken",
              "handle", "again", "exit"}

MainPcs == {"startLock", "start", "idle", "queueLock", "push", "notify", "unlock",
            "stopLock", "stopSet", "stopNotify", "stopUnlock", "join", "end"}

TypeOK ==
    /\ sm_req_brkr_mtx \in 0..Nobody
    /\ sm_req_list \in Seq(Requests)
    /\ sm_terminate \in BOOLEAN
    /\ waiting \subseteq Workers
    /\ pc \in [Workers -> WorkerPcs]
    /\ req \in [Workers -> 0..MaxRequests]
    /\ mainPc \in MainPcs
    /\ count \in 0..NumWorkers
    /\ queued \in 0..MaxRequests
    /\ handled \subseteq Requests
    /\ spurious \in 0..MaxSpurious

Init ==
    /\ sm_req_brkr_mtx = Nobody
    /\ sm_req_list = <<>>
    /\ sm_terminate = FALSE
    /\ waiting = {}
    /\ pc = [w \in Workers |-> "new"]
    /\ req = [w \in Workers |-> 0]
    /\ mainPc = "startLock"
    /\ count = 0
    /\ queued = 0
    /\ handled = {}
    /\ spurious = 0

Lock(t) == sm_req_brkr_mtx = Nobody /\ sm_req_brkr_mtx' = t
Unlock == sm_req_brkr_mtx' = Nobody

-----------------------------------------------------------------------------
(* startWorkers: the workers are started while the mutex is held. *)

StartLock ==
    /\ mainPc = "startLock"
    /\ Lock(Main)
    /\ sm_terminate' = FALSE
    /\ mainPc' = "start"
    /\ UNCHANGED <<sm_req_list, waiting, pc, req, count, queued, handled, spurious>>

\* A defect: one worker too many is counted.
StartWorker_off_by_one ==
    /\ mainPc = "start"
    /\ count <= NumWorkers
    /\ count' = count + 1
    /\ pc' = [pc EXCEPT ![count + 1] = "loop"]
    /\ UNCHANGED <<sm_req_brkr_mtx, sm_req_list, sm_terminate, waiting, req, mainPc,
                   queued, handled, spurious>>

StartWorker ==
    /\ mainPc = "start"
    /\ count < NumWorkers
    /\ count' = count + 1
    /\ pc' = [pc EXCEPT ![count + 1] = "loop"]
    /\ UNCHANGED <<sm_req_brkr_mtx, sm_req_list, sm_terminate, waiting, req, mainPc,
                   queued, handled, spurious>>

StartUnlock ==
    /\ mainPc = "start"
    /\ count = NumWorkers
    /\ Unlock
    /\ count' = 0
    /\ mainPc' = "idle"
    /\ UNCHANGED <<sm_req_list, sm_terminate, waiting, pc, req, queued, handled,
                   spurious>>

-----------------------------------------------------------------------------
(* queueRequest, called from the event loop. *)

Queue ==
    /\ mainPc = "idle"
    /\ queued < MaxRequests
    /\ mainPc' = "queueLock"
    /\ UNCHANGED <<sm_req_brkr_mtx, sm_req_list, sm_terminate, waiting, pc, req, count,
                   queued, handled, spurious>>

\* A defect: the queue is changed without the mutex.
QueueLock_skipped ==
    /\ mainPc = "queueLock"
    /\ mainPc' = "push"
    /\ UNCHANGED <<sm_req_brkr_mtx, sm_req_list, sm_terminate, waiting, pc, req, count,
                   queued, handled, spurious>>

QueueLock ==
    /\ mainPc = "queueLock"
    /\ Lock(Main)
    /\ mainPc' = "push"
    /\ UNCHANGED <<sm_req_list, sm_terminate, waiting, pc, req, count, queued, handled,
                   spurious>>

QueuePush ==
    /\ mainPc = "push"
    /\ queued' = queued + 1
    /\ sm_req_list' = Append(sm_req_list, queued + 1)
    /\ mainPc' = "notify"
    /\ UNCHANGED <<sm_req_brkr_mtx, sm_terminate, waiting, pc, req, count, handled,
                   spurious>>

\* A defect: nobody is notified.
QueueNotify_missing ==
    /\ mainPc = "notify"
    /\ mainPc' = "unlock"
    /\ UNCHANGED <<sm_req_brkr_mtx, sm_req_list, sm_terminate, waiting, pc, req, count,
                   queued, handled, spurious>>

QueueNotify ==
    /\ mainPc = "notify"
    /\ waiting' = {}
    /\ mainPc' = "unlock"
    /\ UNCHANGED <<sm_req_brkr_mtx, sm_req_list, sm_terminate, pc, req, count, queued,
                   handled, spurious>>

QueueUnlock ==
    /\ mainPc = "unlock"
    /\ Unlock
    /\ mainPc' = "idle"
    /\ UNCHANGED <<sm_req_list, sm_terminate, waiting, pc, req, count, queued, handled,
                   spurious>>

-----------------------------------------------------------------------------
(* stopWorkers, called by the destructor. *)

Stop ==
    /\ mainPc = "idle"
    /\ mainPc' = "stopLock"
    /\ UNCHANGED <<sm_req_brkr_mtx, sm_req_list, sm_terminate, waiting, pc, req, count,
                   queued, handled, spurious>>

StopLock ==
    /\ mainPc = "stopLock"
    /\ Lock(Main)
    /\ mainPc' = "stopSet"
    /\ UNCHANGED <<sm_req_list, sm_terminate, waiting, pc, req, count, queued, handled,
                   spurious>>

StopSet ==
    /\ mainPc = "stopSet"
    /\ sm_terminate' = TRUE
    /\ mainPc' = "stopNotify"
    /\ UNCHANGED <<sm_req_brkr_mtx, sm_req_list, waiting, pc, req, count, queued,
                   handled, spurious>>

\* A defect: one of the waiting workers is notified instead of all.
StopNotify_one ==
    /\ mainPc = "stopNotify"
    /\ \/ waiting = {} /\ UNCHANGED waiting
       \/ \E w \in waiting : waiting' = waiting \ {w}
    /\ mainPc' = "stopUnlock"
    /\ UNCHANGED <<sm_req_brkr_mtx, sm_req_list, sm_terminate, pc, req, count, queued,
                   handled, spurious>>

StopNotify ==
    /\ mainPc = "stopNotify"
    /\ waiting' = {}
    /\ mainPc' = "stopUnlock"
    /\ UNCHANGED <<sm_req_brkr_mtx, sm_req_list, sm_terminate, pc, req, count, queued,
                   handled, spurious>>

StopUnlock ==
    /\ mainPc = "stopUnlock"
    /\ Unlock
    /\ mainPc' = "join"
    /\ UNCHANGED <<sm_req_list, sm_terminate, waiting, pc, req, count, queued, handled,
                   spurious>>

\* A defect: the workers are not waited for.
Join_detached ==
    /\ mainPc = "join"
    /\ count < NumWorkers
    /\ count' = count + 1
    /\ UNCHANGED <<sm_req_brkr_mtx, sm_req_list, sm_terminate, waiting, pc, req, mainPc,
                   queued, handled, spurious>>

\* The workers are joined in the order in which they were started.
Join ==
    /\ mainPc = "join"
    /\ count < NumWorkers
    /\ pc[count + 1] = "exit"
    /\ count' = count + 1
    /\ UNCHANGED <<sm_req_brkr_mtx, sm_req_list, sm_terminate, waiting, pc, req, mainPc,
                   queued, handled, spurious>>

Stopped ==
    /\ mainPc = "join"
    /\ count = NumWorkers
    /\ mainPc' = "end"
    /\ UNCHANGED <<sm_req_brkr_mtx, sm_req_list, sm_terminate, waiting, pc, req, count,
                   queued, handled, spurious>>

-----------------------------------------------------------------------------
(* RequestBrokerWorker::run. *)

ownerVars == <<mainPc, count, queued>>

\* The test of the loop reads the flag without the mutex, in a race with
\* stopWorkers: it may see the flag as it was before it was set.
LoopTest(w) ==
    /\ pc[w] = "loop"
    /\ \E seen \in {FALSE, sm_terminate} :
          pc' = [pc EXCEPT ![w] = IF seen THEN "exit" ELSE "lock"]
    /\ UNCHANGED <<sm_req_brkr_mtx, sm_req_list, sm_terminate, waiting, req, ownerVars,
                   handled, spurious>>

WorkerLock(w) ==
    /\ pc[w] = "lock"
    /\ Lock(w)
    /\ pc' = [pc EXCEPT ![w] = "check"]
    /\ UNCHANGED <<sm_req_list, sm_terminate, waiting, req, ownerVars, handled, spurious>>

\* The condition of the inner loop.
Test(w) ==
    /\ pc[w] = "check"
    /\ pc' = [pc EXCEPT ![w] = IF sm_req_list = <<>> /\ ~sm_terminate
                               THEN "sleep" ELSE "woken"]
    /\ UNCHANGED <<sm_req_brkr_mtx, sm_req_list, sm_terminate, waiting, req, ownerVars,
                   handled, spurious>>

\* The wait releases the mutex.
Wait(w) ==
    /\ pc[w] = "sleep"
    /\ Unlock
    /\ waiting' = waiting \cup {w}
    /\ pc' = [pc EXCEPT ![w] = "wait"]
    /\ UNCHANGED <<sm_req_list, sm_terminate, req, ownerVars, handled, spurious>>

SpuriousWakeup(w) ==
    /\ w \in waiting
    /\ spurious < MaxSpurious
    /\ spurious' = spurious + 1
    /\ waiting' = waiting \ {w}
    /\ UNCHANGED <<sm_req_brkr_mtx, sm_req_list, sm_terminate, pc, req, ownerVars, handled>>

\* A defect: a worker that was woken does not test the condition again.
Relock_untested(w) ==
    /\ pc[w] = "wait"
    /\ w \notin waiting
    /\ Lock(w)
    /\ pc' = [pc EXCEPT ![w] = "woken"]
    /\ UNCHANGED <<sm_req_list, sm_terminate, waiting, req, ownerVars, handled, spurious>>

\* A worker that was woken takes the mutex again and tests the condition again.
Relock(w) ==
    /\ pc[w] = "wait"
    /\ w \notin waiting
    /\ Lock(w)
    /\ pc' = [pc EXCEPT ![w] = "check"]
    /\ UNCHANGED <<sm_req_list, sm_terminate, waiting, req, ownerVars, handled, spurious>>

\* The continue, which releases the mutex.
Terminate(w) ==
    /\ pc[w] = "woken"
    /\ sm_terminate
    /\ Unlock
    /\ pc' = [pc EXCEPT ![w] = "again"]
    /\ UNCHANGED <<sm_req_list, sm_terminate, waiting, req, ownerVars, handled, spurious>>

\* The test of the loop after the continue: having seen the flag set while it held
\* the mutex, the worker cannot read an earlier value.
TestAgain(w) ==
    /\ pc[w] = "again"
    /\ pc' = [pc EXCEPT ![w] = IF sm_terminate THEN "exit" ELSE "lock"]
    /\ UNCHANGED <<sm_req_brkr_mtx, sm_req_list, sm_terminate, waiting, req, ownerVars,
                   handled, spurious>>

\* A defect: the request stays in the queue.
Take_peek(w) ==
    /\ pc[w] = "woken"
    /\ ~sm_terminate
    /\ req' = [req EXCEPT ![w] = Head(sm_req_list)]
    /\ Unlock
    /\ pc' = [pc EXCEPT ![w] = "handle"]
    /\ UNCHANGED <<sm_req_list, sm_terminate, waiting, ownerVars, handled, spurious>>

\* The first request is taken and the mutex released. Nothing tests that there is
\* one.
Take(w) ==
    /\ pc[w] = "woken"
    /\ ~sm_terminate
    /\ req' = [req EXCEPT ![w] = Head(sm_req_list)]
    /\ sm_req_list' = Tail(sm_req_list)
    /\ Unlock
    /\ pc' = [pc EXCEPT ![w] = "handle"]
    /\ UNCHANGED <<sm_terminate, waiting, ownerVars, handled, spurious>>

\* handleRequest returns, or throws and is caught.
Handle(w) ==
    /\ pc[w] = "handle"
    /\ handled' = handled \cup {req[w]}
    /\ req' = [req EXCEPT ![w] = 0]
    /\ pc' = [pc EXCEPT ![w] = "loop"]
    /\ UNCHANGED <<sm_req_brkr_mtx, sm_req_list, sm_terminate, waiting, ownerVars, spurious>>

-----------------------------------------------------------------------------
\* The owner has stopped the broker: nothing runs any more.
Ended == mainPc = "end" /\ UNCHANGED vars

OwnerStep ==
    \/ StartLock \/ StartWorker \/ StartUnlock
    \/ QueueLock \/ QueuePush \/ QueueNotify \/ QueueUnlock
    \/ StopLock \/ StopSet \/ StopNotify \/ StopUnlock \/ Join \/ Stopped

WorkerStep(w) ==
    \/ LoopTest(w) \/ WorkerLock(w) \/ Test(w) \/ Wait(w) \/ Relock(w)
    \/ Terminate(w) \/ TestAgain(w) \/ Take(w) \/ Handle(w)

Next ==
    \/ OwnerStep
    \/ Queue
    \/ Stop
    \/ \E w \in Workers : WorkerStep(w) \/ SpuriousWakeup(w)
    \/ Ended

Spec == Init /\ [][Next]_vars

\* Every thread keeps running. Nothing obliges the owner to queue a request or to
\* stop the broker, and a spurious wakeup need not happen.
FairSpec ==
    /\ Spec
    /\ WF_vars(OwnerStep)
    /\ \A w \in Workers : WF_vars(WorkerStep(w))

-----------------------------------------------------------------------------
(* Properties. *)

\* A worker sleeps on the condition variable while there is something for it to do
\* only as long as the owner, about to call notify_all, still holds the mutex: no
\* wakeup is lost between the test of the condition and the wait.
NoLostWakeup ==
    waiting # {} /\ (sm_req_list # <<>> \/ sm_terminate)
        => mainPc \in {"notify", "stopNotify"}

\* A worker takes the front of the queue only when there is one: what it found when
\* it tested the condition still holds, although other workers were woken for the
\* same request.
FrontExists ==
    \A w \in Workers : pc[w] = "woken" => sm_req_list # <<>> \/ sm_terminate

\* When stopWorkers has returned every worker has left run: no request is being
\* handled, and no thread will touch the queue, the mutex or the handler again.
StoppedMeansIdle ==
    mainPc = "end" =>
        /\ \A w \in Workers : pc[w] = "exit" /\ req[w] = 0
        /\ waiting = {}
        /\ sm_req_brkr_mtx = Nobody

\* The broker is a queue that hands out each request once and in order.
WQ == INSTANCE WorkQueue WITH queue <- sm_req_list, busy <- req

ImplementsWorkQueue == WQ!Spec

\* A request that is queued is handled, unless the broker is stopped before.
QueuedIsHandled ==
    \A r \in Requests : queued >= r ~> r \in handled \/ sm_terminate

\* stopWorkers returns: no worker is left asleep or waiting for the mutex.
StopReturns == mainPc = "stopLock" ~> mainPc = "end"
=============================================================================
