--------------------------- MODULE ClientProcess ----------------------------
(***************************************************************************)
(* The life of ft_client processes on one machine: the UUID file that they *)
(* share, the order in which main constructs its parts, the loop of main   *)
(* and the worker beside it, signals, and the end of a process up to the   *)
(* destruction of its static objects.                                      *)
(*                                                                         *)
(* The server is an environment that answers each message of a client with *)
(* one of its own, or closes the connection.  What is offered and sent is  *)
(* the subject of Transfer.                                                *)
(***************************************************************************)
EXTENDS Naturals, FiniteSets

CONSTANTS
    Runs,              \* the runs of ft_client; one names the UUID it generates, too
    Uploaders,         \* those whose arguments may be good
    MaxKills,          \* bound: how many are killed
    CondDestroyWaits   \* ~condition_variable waits for the threads that wait for it

\* Contents of the UUID file that are not the UUID of a run.
Absent == "absent"
Empty == "empty"

\* UUIDs that are not in the file: none yet, the one given with -u, and whatever is
\* on the stack when the file is empty.
Unset == "unset"
Given == "given"
Junk == "junk"

ASSUME ClientAssumption ==
    /\ IsFiniteSet(Runs)
    /\ Uploaders \subseteq Runs
    /\ MaxKills \in Nat
    /\ CondDestroyWaits \in BOOLEAN
    /\ Runs \cap {Absent, Empty, Unset, Given, Junk} = {}

VARIABLES
    uuid_file,     \* the contents of the UUID file
    disturbed,     \* a run looked for the file, or ended, while one was creating it
    kills,         \* how many runs have been killed
    pc,            \* pc[r]: where main is, or how the process has ended
    client_uuid,   \* client_uuid[r]
    masked,        \* masked[r]: the threads of r that block the termination signals
    pending,       \* pending[r]: a signal waits to be read
    term_signal,   \* term_signal[r]: SignalHandler::terminate_signal
    conn,          \* conn[r]: the connection, "invalid" when its fd is -1
    inbox,         \* inbox[r]: the message to be read from it, or "none"
    turn,          \* turn[r]: the server has a message of r to answer
    client_files,  \* client_files[r]: the offered file is not known to be complete
    worker,        \* worker[r]: where the worker is
    request,       \* request[r]: the queued or handled message, or "none"
    destroyed,     \* destroyed[r]: the statics of ft_req_brkr.cpp are destroyed
    sm_terminate   \* sm_terminate[r]: RequestBroker::sm_terminate

fileVars == <<uuid_file, disturbed, kills>>
signalVars == <<masked, pending, term_signal>>
netVars == <<conn, inbox, turn>>
brokerVars == <<worker, request, destroyed, sm_terminate>>
vars == <<fileVars, pc, client_uuid, signalVars, netVars, client_files, brokerVars>>

Ends == {"usage", "exited", "aborted", "signalled", "killed"}

\* A defect: the worker is started before the signals are blocked.
Order_broker_first == <<"args", "file", "broker", "signals", "connect", "offer", "test">>

\* What main does before its loop, in this order.
Order == <<"args", "signals", "connect", "file", "broker", "offer", "test">>

Then(p) == Order[(CHOOSE k \in DOMAIN Order : Order[k] = p) + 1]

Alive(r) == pc[r] \notin Ends \cup {"new"}

TypeOK ==
    /\ uuid_file \in Runs \cup {Absent, Empty}
    /\ disturbed \in BOOLEAN
    /\ kills \in 0..MaxKills
    /\ pc \in [Runs -> {"new", "read", "open", "write", "args", "signals", "connect", "file",
                        "broker", "offer", "test", "poll", "leave", "statics", "stop",
                        "join"} \cup Ends]
    /\ client_uuid \in [Runs -> Runs \cup {Unset, Given, Junk}]
    /\ masked \in [Runs -> SUBSET {"main", "worker"}]
    /\ pending \in [Runs -> BOOLEAN]
    /\ term_signal \in [Runs -> BOOLEAN]
    /\ conn \in [Runs -> {"none", "open", "closed", "invalid"}]
    /\ inbox \in [Runs -> {"none", "FILE_CHUNK_REQ", "FILE_COMPLETE"}]
    /\ turn \in [Runs -> BOOLEAN]
    /\ client_files \in [Runs -> BOOLEAN]
    /\ worker \in [Runs -> {"none", "idle", "wait", "handle", "return", "ended"}]
    /\ request \in [Runs -> {"none", "FILE_CHUNK_REQ", "FILE_COMPLETE"}]
    /\ destroyed \in [Runs -> BOOLEAN]
    /\ sm_terminate \in [Runs -> BOOLEAN]

Init ==
    /\ uuid_file = Absent
    /\ disturbed = FALSE
    /\ kills = 0
    /\ pc = [r \in Runs |-> "new"]
    /\ client_uuid = [r \in Runs |-> Unset]
    /\ masked = [r \in Runs |-> {}]
    /\ pending = [r \in Runs |-> FALSE]
    /\ term_signal = [r \in Runs |-> FALSE]
    /\ conn = [r \in Runs |-> "none"]
    /\ inbox = [r \in Runs |-> "none"]
    /\ turn = [r \in Runs |-> FALSE]
    /\ client_files = [r \in Runs |-> FALSE]
    /\ worker = [r \in Runs |-> "none"]
    /\ request = [r \in Runs |-> "none"]
    /\ destroyed = [r \in Runs |-> FALSE]
    /\ sm_terminate = [r \in Runs |-> FALSE]

GoTo(r, p) == pc' = [pc EXCEPT ![r] = p]

-----------------------------------------------------------------------------
(* getClientUUID. *)

Creating == {r \in Runs : pc[r] \in {"open", "write"}}

\* A defect: the file is not looked for.
TestUuid_unchecked(r) ==
    /\ pc[r] = "new"
    /\ GoTo(r, "open")
    /\ disturbed' = (disturbed \/ Creating # {})
    /\ UNCHANGED <<uuid_file, kills, client_uuid, signalVars, netVars, client_files, brokerVars>>

TestUuid(r) ==
    /\ pc[r] = "new"
    /\ GoTo(r, IF uuid_file = Absent THEN "open" ELSE "read")
    /\ disturbed' = (disturbed \/ Creating # {})
    /\ UNCHANGED <<uuid_file, kills, client_uuid, signalVars, netVars, client_files, brokerVars>>

\* A defect: whatever the file holds is taken for a UUID.
ReadUuid_raw(r) ==
    /\ pc[r] = "read"
    /\ client_uuid' = [client_uuid EXCEPT ![r] = uuid_file]
    /\ GoTo(r, "args")
    /\ UNCHANGED <<fileVars, signalVars, netVars, client_files, brokerVars>>

\* Nothing is read from an empty file, and the UUID stays uninitialised.
ReadUuid(r) ==
    /\ pc[r] = "read"
    /\ client_uuid' = [client_uuid EXCEPT ![r] = IF uuid_file = Empty THEN Junk ELSE uuid_file]
    /\ GoTo(r, "args")
    /\ UNCHANGED <<fileVars, signalVars, netVars, client_files, brokerVars>>

\* A UUID is generated, and the file is created or truncated.
OpenUuid(r) ==
    /\ pc[r] = "open"
    /\ client_uuid' = [client_uuid EXCEPT ![r] = r]
    /\ uuid_file' = Empty
    /\ GoTo(r, "write")
    /\ UNCHANGED <<disturbed, kills, signalVars, netVars, client_files, brokerVars>>

WriteUuid(r) ==
    /\ pc[r] = "write"
    /\ uuid_file' = client_uuid[r]
    /\ GoTo(r, "args")
    /\ UNCHANGED <<disturbed, kills, client_uuid, signalVars, netVars, client_files, brokerVars>>

-----------------------------------------------------------------------------
(* main, up to its loop. What a constructor throws ends the process. *)

\* Usage and errors end here; -u replaces the UUID.
Args(r) ==
    /\ pc[r] = "args"
    /\ \/ GoTo(r, "usage") /\ UNCHANGED client_uuid
       \/ GoTo(r, "aborted") /\ UNCHANGED client_uuid
       \/ /\ r \in Uploaders
          /\ GoTo(r, Then("args"))
          /\ client_uuid' \in {client_uuid, [client_uuid EXCEPT ![r] = Given]}
    /\ UNCHANGED <<fileVars, signalVars, netVars, client_files, brokerVars>>

\* The constructor of SignalHandler blocks the signals in the calling thread.
Signals(r) ==
    /\ pc[r] = "signals"
    /\ masked' = [masked EXCEPT ![r] = @ \cup {"main"}]
    /\ GoTo(r, Then("signals"))
    /\ UNCHANGED <<fileVars, client_uuid, pending, term_signal, netVars, client_files, brokerVars>>

Connect(r) ==
    /\ pc[r] = "connect"
    /\ \/ GoTo(r, Then("connect")) /\ conn' = [conn EXCEPT ![r] = "open"]
       \/ GoTo(r, "aborted") /\ UNCHANGED conn
    /\ UNCHANGED <<fileVars, client_uuid, signalVars, inbox, turn, client_files, brokerVars>>

makeLocalFile(r) ==
    /\ pc[r] = "file"
    /\ GoTo(r, Then("file")) \/ GoTo(r, "aborted")
    /\ UNCHANGED <<fileVars, client_uuid, signalVars, netVars, client_files, brokerVars>>

\* The new thread inherits the mask of the one that creates it.
StartBroker(r) ==
    /\ pc[r] = "broker"
    /\ worker' = [worker EXCEPT ![r] = "idle"]
    /\ masked' = [masked EXCEPT ![r] = IF "main" \in @ THEN @ \cup {"worker"} ELSE @]
    /\ GoTo(r, Then("broker"))
    /\ UNCHANGED <<fileVars, client_uuid, pending, term_signal, netVars, client_files, request,
                   destroyed, sm_terminate>>

\* A message goes to the server, or is lost because the connection has ended.
Send(r) == turn' = [turn EXCEPT ![r] = conn[r] = "open"]

\* On a connection that the peer has ended the send may also fail, which main does
\* not catch.
Offer(r) ==
    /\ pc[r] = "offer"
    /\ client_files' = [client_files EXCEPT ![r] = TRUE]
    /\ Send(r)
    /\ \/ GoTo(r, Then("offer"))
       \/ conn[r] = "closed" /\ GoTo(r, "aborted")
    /\ UNCHANGED <<fileVars, client_uuid, signalVars, conn, inbox, brokerVars>>

-----------------------------------------------------------------------------
(* The loop of main. *)

LoopTest(r) ==
    /\ pc[r] = "test"
    /\ GoTo(r, IF client_files[r] THEN "poll" ELSE "leave")
    /\ UNCHANGED <<fileVars, client_uuid, signalVars, netVars, client_files, brokerVars>>

\* What pollAndHandle does when it returns: the signal handler, which is registered
\* first, reads the signals; the connection queues the message that has arrived,
\* and is given up when its peer has ended it.
Handled(r) ==
    /\ term_signal' = [term_signal EXCEPT ![r] = @ \/ pending[r]]
    /\ pending' = [pending EXCEPT ![r] = FALSE]
    /\ conn' = [conn EXCEPT ![r] = IF @ = "closed" THEN "invalid" ELSE @]
    /\ inbox' = [inbox EXCEPT ![r] = "none"]
    /\ request' = [request EXCEPT ![r] = IF inbox[r] # "none" THEN inbox[r] ELSE @]
    /\ worker' = [worker EXCEPT ![r] = IF inbox[r] # "none" /\ @ = "wait" THEN "idle" ELSE @]
    /\ UNCHANGED <<fileVars, client_uuid, masked, turn, client_files, destroyed, sm_terminate>>

\* A defect: poll waits without a timeout.
Poll_untimed(r) ==
    /\ pc[r] = "poll"
    /\ pending[r] \/ inbox[r] # "none" \/ conn[r] = "closed"
    /\ Handled(r)
    /\ GoTo(r, IF term_signal'[r] THEN "leave" ELSE "test")

\* A defect: the loop also ends when the connection does.
Poll_ends(r) ==
    /\ pc[r] = "poll"
    /\ Handled(r)
    /\ GoTo(r, IF term_signal'[r] \/ conn'[r] = "invalid" THEN "leave" ELSE "test")

\* A defect: the signals that were read are forgotten.
Poll_deaf(r) ==
    /\ pc[r] = "poll"
    /\ Handled(r)
    /\ GoTo(r, "test")

\* poll returns after 500 ms at the latest.
Poll(r) ==
    /\ pc[r] = "poll"
    /\ Handled(r)
    /\ GoTo(r, IF term_signal'[r] THEN "leave" ELSE "test")

-----------------------------------------------------------------------------
(* The end of the process. *)

\* main returns. The connection is closed; the broker is not destroyed, because
\* Connection::sm_request_broker refers to it.
Leave(r) ==
    /\ pc[r] = "leave"
    /\ conn' = [conn EXCEPT ![r] = "invalid"]
    /\ GoTo(r, "statics")
    /\ UNCHANGED <<fileVars, client_uuid, signalVars, inbox, turn, client_files, brokerVars>>

\* Static objects are destroyed in the reverse of the order of linking. Those of
\* ft_req_brkr.cpp come first: the handler, the queue, the condition variable.
DestroyStatics(r) ==
    /\ pc[r] = "statics"
    /\ CondDestroyWaits => worker[r] # "wait"
    /\ destroyed' = [destroyed EXCEPT ![r] = TRUE]
    /\ GoTo(r, "stop")
    /\ UNCHANGED <<fileVars, client_uuid, signalVars, netVars, client_files, worker, request,
                   sm_terminate>>

\* Then Connection::sm_request_broker, and with it the broker: stopWorkers.
StopWorkers(r) ==
    /\ pc[r] = "stop"
    /\ sm_terminate' = [sm_terminate EXCEPT ![r] = TRUE]
    /\ worker' = [worker EXCEPT ![r] = IF @ = "wait" THEN "idle" ELSE @]
    /\ GoTo(r, "join")
    /\ UNCHANGED <<fileVars, client_uuid, signalVars, netVars, client_files, request, destroyed>>

Join(r) ==
    /\ pc[r] = "join"
    /\ worker[r] = "ended"
    /\ GoTo(r, "exited")
    /\ UNCHANGED <<fileVars, client_uuid, signalVars, netVars, client_files, brokerVars>>

-----------------------------------------------------------------------------
(* The worker. *)

\* The worker ends, waits, or takes a request. What is read here of the statics is
\* in static storage, and their destructors leave it as it is: the flag, the mutex,
\* the condition variable (in musl) and the two pointers by which empty() tells
\* whether there is a request. The requests themselves and the handler are freed:
\* who uses them afterwards goes on or aborts.
Take(r) ==
    /\ Alive(r)
    /\ worker[r] = "idle"
    /\ \/ /\ worker' = [worker EXCEPT ![r] = CASE sm_terminate[r] -> "ended"
                                              [] ~sm_terminate[r] /\ request[r] = "none" -> "wait"
                                              [] OTHER -> "handle"]
          /\ UNCHANGED pc
       \/ /\ destroyed[r] /\ ~sm_terminate[r] /\ request[r] # "none"
          /\ GoTo(r, "aborted")
          /\ UNCHANGED worker
    /\ UNCHANGED <<fileVars, client_uuid, signalVars, netVars, client_files, request, destroyed,
                   sm_terminate>>

\* handleRequest sends the chunk, or erases the file from the map, which is the last
\* use that it makes of the handler. uploadsCompleted may read the map at the same
\* time: the size it reads is the last thing that erase changes. What the send
\* throws is caught, but one on a connection that the peer has reset may also raise
\* SIGPIPE, which nobody blocks.
Handle(r) ==
    /\ Alive(r)
    /\ worker[r] = "handle"
    /\ \/ /\ request[r] = "FILE_CHUNK_REQ"
          /\ Send(r)
          /\ UNCHANGED client_files
       \/ /\ request[r] = "FILE_COMPLETE"
          /\ client_files' = [client_files EXCEPT ![r] = FALSE]
          /\ UNCHANGED turn
    /\ \/ UNCHANGED pc
       \/ destroyed[r] /\ GoTo(r, "aborted")
       \/ request[r] = "FILE_CHUNK_REQ" /\ conn[r] = "closed" /\ GoTo(r, "aborted")
    /\ worker' = [worker EXCEPT ![r] = "return"]
    /\ request' = [request EXCEPT ![r] = "none"]
    /\ UNCHANGED <<fileVars, client_uuid, signalVars, conn, inbox, destroyed, sm_terminate>>

\* The worker leaves handleRequest for its own loop. Meanwhile main may have seen the
\* map empty, left its own and destroyed the statics; all that is used on the way
\* out belongs to the worker (its references to message, file and connection).
Return(r) ==
    /\ Alive(r)
    /\ worker[r] = "return"
    /\ worker' = [worker EXCEPT ![r] = "idle"]
    /\ UNCHANGED <<fileVars, pc, client_uuid, signalVars, netVars, client_files, request,
                   destroyed, sm_terminate>>

-----------------------------------------------------------------------------
(* The environment. *)

\* A run that ends while it writes the file leaves it empty.
Torn(r) == disturbed' = (disturbed \/ pc[r] = "write")

Threads(r) == {"main"} \cup (IF worker[r] \in {"none", "ended"} THEN {} ELSE {"worker"})

\* A termination signal stays pending if every thread blocks it, and ends the
\* process otherwise.
Signal(r) ==
    /\ Alive(r)
    /\ \/ /\ Threads(r) \subseteq masked[r]
          /\ ~pending[r] /\ pending' = [pending EXCEPT ![r] = TRUE]
          /\ UNCHANGED <<pc, disturbed>>
       \/ /\ ~(Threads(r) \subseteq masked[r])
          /\ GoTo(r, "signalled")
          /\ Torn(r)
          /\ UNCHANGED pending
    /\ UNCHANGED <<uuid_file, kills, client_uuid, masked, term_signal, netVars, client_files,
                   brokerVars>>

Kill(r) ==
    /\ Alive(r)
    /\ kills < MaxKills
    /\ kills' = kills + 1
    /\ GoTo(r, "killed")
    /\ Torn(r)
    /\ UNCHANGED <<uuid_file, client_uuid, signalVars, netVars, client_files, brokerVars>>

\* The server answers a message.
Reply(r) ==
    /\ turn[r]
    /\ conn[r] = "open"
    /\ \E m \in {"FILE_CHUNK_REQ", "FILE_COMPLETE"} : inbox' = [inbox EXCEPT ![r] = m]
    /\ turn' = [turn EXCEPT ![r] = FALSE]
    /\ UNCHANGED <<fileVars, pc, client_uuid, signalVars, conn, client_files, brokerVars>>

\* The server or the network ends the connection; what is on its way may be lost.
Disconnect(r) ==
    /\ conn[r] = "open"
    /\ conn' = [conn EXCEPT ![r] = "closed"]
    /\ inbox' \in {inbox, [inbox EXCEPT ![r] = "none"]}
    /\ UNCHANGED <<fileVars, pc, client_uuid, signalVars, turn, client_files, brokerVars>>

-----------------------------------------------------------------------------
Main(r) ==
    \/ ReadUuid(r) \/ OpenUuid(r) \/ WriteUuid(r)
    \/ Args(r) \/ Signals(r) \/ Connect(r) \/ makeLocalFile(r) \/ StartBroker(r) \/ Offer(r)
    \/ LoopTest(r) \/ Poll(r)
    \/ Leave(r) \/ DestroyStatics(r) \/ StopWorkers(r) \/ Join(r)

Worker(r) == Take(r) \/ Handle(r) \/ Return(r)

AllEnded == (\A r \in Runs : pc[r] \in Ends) /\ UNCHANGED vars

Next ==
    \/ \E r \in Runs :
          \/ TestUuid(r) \/ Main(r) \/ Worker(r)
          \/ Signal(r) \/ Kill(r) \/ Reply(r) \/ Disconnect(r)
    \/ AllEnded

\* The two threads of a run keep running. Nobody has to start a run, and the server
\* does not have to answer.
Spec == Init /\ [][Next]_vars /\ \A r \in Runs : WF_vars(Main(r)) /\ WF_vars(Worker(r))

-----------------------------------------------------------------------------
(* Properties. *)

\* Every run has the UUID in the file, so that the server finds what an earlier run
\* has sent, unless it is given another. The code ensures this as long as no run
\* looks for the file while another creates it, and none ends between creating
\* and writing it.
UuidAgrees ==
    ~disturbed =>
        \A r \in Runs :
            client_uuid[r] \in {Unset, Given} \/ pc[r] = "write" \/ client_uuid[r] = uuid_file

\* Once SignalHandler is constructed, no termination signal kills the process: each
\* one is left for the loop of main to read, the thread of the worker included.
SignalsAreRead ==
    \A r \in Runs : pc[r] = "signalled" => "main" \notin masked[r]

\* The statics that the worker uses are destroyed before it is joined, and after an
\* upload that ends by itself they may even be destroyed before the worker has
\* returned from the handler that erased the file. It then no longer uses what is
\* freed: no request is left, and none is about to be handled.
FreedUnused ==
    \A r \in Runs :
        destroyed[r] /\ ~term_signal[r] => request[r] = "none" /\ worker[r] # "handle"

\* A client that has received FILE_COMPLETE ends, with its worker joined, even though
\* main may find the file still offered and go back to poll just before the worker
\* erases it. Only a kill, or a signal that ends the loop first, changes this.
CompletedEnds ==
    \A r \in Runs :
        request[r] = "FILE_COMPLETE"
            ~> pc[r] \in {"exited", "killed"} \/ (pc[r] = "aborted" /\ term_signal[r])

\* A client that has a signal to read ends, whether or not it has lost its server,
\* for which it would otherwise wait for ever.
SignalEnds ==
    \A r \in Runs : pending[r] ~> pc[r] \in Ends
=============================================================================
