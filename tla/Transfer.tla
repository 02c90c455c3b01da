------------------------------ MODULE Transfer ------------------------------
(***************************************************************************)
(* Uploads: runs of ft_client, each offering one file to ft_server, the    *)
(* messages between them, the server's request queue and its workers.      *)
(*                                                                         *)
(* A session is one run of ft_client.  Sessions with the same client UUID  *)
(* and file name write to the same path on the server; a later one may be  *)
(* the retry of an earlier one that was killed or lost its server.  The    *)
(* server may crash and be started again: its files survive, everything    *)
(* else is lost.                                                           *)
(*                                                                         *)
(* The sequence number of a message is left out, since nothing reads it.   *)
(* The locking of the request queue is the subject of RequestBroker; here  *)
(* queueing and taking a request are atomic.                               *)
(***************************************************************************)
EXTENDS RemoteFile

CONSTANTS
    Sessions,    \* the runs of ft_client
    Uuid,        \* Uuid[s]: the client UUID of a run
    Name,        \* Name[s]: the name of the file it offers
    Content,     \* Content[s]: the bytes of that file
    Killable,    \* the sessions that may be killed
    MaxCrashes,  \* how often the server may crash
    EXCLUSIVE    \* TRUE: one session at a time uses a path

Path(s) == <<Uuid[s], Name[s]>>

ASSUME TransferAssumption ==
    /\ Conns = Sessions
    /\ Sessions # {}
    /\ Paths = {Uuid[s] : s \in Sessions} \X {Name[s] : s \in Sessions}
    /\ Content \in [Sessions -> FileBytes]
    /\ Sizes = {Len(Content[s]) : s \in Sessions}
    /\ Killable \subseteq Sessions
    /\ MaxCrashes \in Nat
    /\ EXCLUSIVE \in BOOLEAN

VARIABLES
    st,            \* st[s]: the state of the client process
    client_files,  \* client_files[s]: the offered files not known to be complete
    up,            \* up[s]: the connection is open at both ends
    toServer,      \* toServer[s]: the messages on the way to the server
    toClient,      \* toClient[s]: the messages on the way to the client
    sm_req_list,   \* the requests queued at the server
    crashes        \* how often the server has crashed

netVars == <<st, client_files, up, toServer, toClient, sm_req_list>>
vars == <<meta, data, wk, netVars, crashes>>

-----------------------------------------------------------------------------
(* Messages. *)

Uuids == {Uuid[s] : s \in Sessions}
Names == {Name[s] : s \in Sessions}

Offer == [type : {"FILE_OFFER"}, uuid : Uuids, name : Names, size : Sizes,
          hash : FileBytes]
ChunkData == [type : {"FILE_CHUNK_DATA"}, uuid : Uuids, name : Names, idx : Nat,
              data : FileBytes]
ChunkReq == [type : {"FILE_CHUNK_REQ"}, uuid : Uuids, name : Names, first : Nat]
Complete == [type : {"FILE_COMPLETE"}, uuid : Uuids, name : Names]

buildMsgOffer(s) ==
    [type |-> "FILE_OFFER", uuid |-> Uuid[s], name |-> Name[s],
     size |-> Len(Content[s]), hash |-> Content[s]]

buildMsgChunkData(s, idx) ==
    [type |-> "FILE_CHUNK_DATA", uuid |-> Uuid[s], name |-> Name[s], idx |-> idx,
     data |-> ChunkBytes(Content[s], Len(Content[s]), idx)]

buildMsgChunkReq(path, idx) ==
    [type |-> "FILE_CHUNK_REQ", uuid |-> path[1], name |-> path[2], first |-> idx]

buildMsgComplete(path) ==
    [type |-> "FILE_COMPLETE", uuid |-> path[1], name |-> path[2]]

Requests == [conn : Sessions, msg : Offer \cup ChunkData]

TypeOK ==
    /\ RemoteTypeOK
    /\ st \in [Sessions -> {"new", "run", "done", "dead"}]
    /\ client_files \in [Sessions -> SUBSET Names]
    /\ up \in [Sessions -> BOOLEAN]
    /\ toServer \in [Sessions -> Seq(Offer \cup ChunkData)]
    /\ toClient \in [Sessions -> Seq(ChunkReq \cup Complete)]
    /\ sm_req_list \in Seq(Requests)
    /\ crashes \in 0..MaxCrashes

Init ==
    /\ RemoteInit
    /\ st = [s \in Sessions |-> "new"]
    /\ client_files = [s \in Sessions |-> {}]
    /\ up = [s \in Sessions |-> FALSE]
    /\ toServer = [s \in Sessions |-> <<>>]
    /\ toClient = [s \in Sessions |-> <<>>]
    /\ sm_req_list = <<>>
    /\ crashes = 0

-----------------------------------------------------------------------------
(* The client. *)

\* Something of session s is still going on at the client or the server.
Active(s) ==
    \/ st[s] = "run"
    \/ toServer[s] # <<>>
    \/ \E i \in 1..Len(sm_req_list) : sm_req_list[i].conn = s
    \/ \E w \in Workers : Busy(w) /\ wk[w].conn = s

\* main connects, and offer records the file and sends the FILE_OFFER.
StartSession(s) ==
    /\ st[s] = "new"
    /\ EXCLUSIVE => \A t \in Sessions : Path(t) = Path(s) => ~Active(t)
    /\ st' = [st EXCEPT ![s] = "run"]
    /\ client_files' = [client_files EXCEPT ![s] = {Name[s]}]
    /\ up' = [up EXCEPT ![s] = TRUE]
    /\ toServer' = [toServer EXCEPT ![s] = Append(@, buildMsgOffer(s))]
    /\ UNCHANGED <<meta, data, wk, toClient, sm_req_list, crashes>>

\* FileLocal::getChunk throws for a chunk beyond the end of the file, and
\* Message::serialize for an empty one.
Sendable(s, idx) ==
    /\ ChunkOffset(idx) <= Len(Content[s])
    /\ ChunkLength(Len(Content[s]), idx) > 0

\* ClientRequestHandler::handleRequest. What it throws is caught by the worker,
\* and a send on a broken connection throws too. In either case the client sends
\* nothing and keeps waiting.
ClientHandle(s) ==
    LET m       == Head(toClient[s])
        offered == m.uuid = Uuid[s] /\ m.name \in client_files[s]
        replies == offered /\ m.type = "FILE_CHUNK_REQ" /\ up[s]
                   /\ Sendable(s, ToU16(m.first))
        erases  == offered /\ m.type = "FILE_COMPLETE"
    IN  /\ st[s] = "run"
        /\ toClient[s] # <<>>
        /\ toClient' = [toClient EXCEPT ![s] = Tail(@)]
        /\ toServer' = IF replies
                       THEN [toServer EXCEPT ![s] =
                                Append(@, buildMsgChunkData(s, ToU16(m.first)))]
                       ELSE toServer
        /\ client_files' = IF erases
                           THEN [client_files EXCEPT ![s] = @ \ {m.name}]
                           ELSE client_files
        /\ UNCHANGED <<meta, data, wk, st, up, sm_req_list, crashes>>

\* The connection of s ends at the client.
HangUp(s, state) ==
    /\ st' = [st EXCEPT ![s] = state]
    /\ up' = [up EXCEPT ![s] = FALSE]
    /\ toClient' = [toClient EXCEPT ![s] = <<>>]
    /\ UNCHANGED <<meta, data, wk, client_files, sm_req_list, crashes>>

\* uploadsCompleted ends the loop of main.
ClientExit(s) ==
    /\ st[s] = "run"
    /\ client_files[s] = {}
    /\ HangUp(s, "done")
    /\ UNCHANGED toServer

\* The process is terminated; what it has sent may arrive or not.
KillClient(s) ==
    /\ s \in Killable
    /\ st[s] = "run"
    /\ HangUp(s, "dead")
    /\ \/ UNCHANGED toServer
       \/ toServer' = [toServer EXCEPT ![s] = <<>>]

-----------------------------------------------------------------------------
(* The server. *)

\* Connection::handleMessage queues the request.
ServerReceive(s) ==
    /\ toServer[s] # <<>>
    /\ sm_req_list' = Append(sm_req_list, [conn |-> s, msg |-> Head(toServer[s])])
    /\ toServer' = [toServer EXCEPT ![s] = Tail(@)]
    /\ UNCHANGED <<meta, data, wk, st, client_files, up, toClient, crashes>>

\* The start of handleRequest.
StartRequest(w, req) ==
    LET m == req.msg
        p == <<m.uuid, m.name>>
    IN  IF m.type = "FILE_OFFER"
        THEN StartOffer(w, req.conn, p, m.size, m.hash)
        ELSE StartChunkData(w, req.conn, p, m.idx, m.data)

\* A defect: the request is read and left in the queue.
TakeRequest_peek(w) ==
    /\ ~Busy(w)
    /\ sm_req_list # <<>>
    /\ StartRequest(w, Head(sm_req_list))
    /\ UNCHANGED <<meta, data, netVars, crashes>>

\* A worker removes the first request and starts handling it.
TakeRequest(w) ==
    /\ ~Busy(w)
    /\ sm_req_list # <<>>
    /\ StartRequest(w, Head(sm_req_list))
    /\ sm_req_list' = Tail(sm_req_list)
    /\ UNCHANGED <<meta, data, st, client_files, up, toServer, toClient, crashes>>

Step(w) == HandleStep(w) /\ UNCHANGED <<netVars, crashes>>

\* The reply goes out if the connection is still there. The weak_ptr is locked when the
\* handling starts; a reply that this still lets through after DropConnection is one
\* that was sent before it and is not lost.
Respond(w) ==
    LET s == wk[w].conn
        m == IF wk[w].reply = "FILE_COMPLETE" THEN buildMsgComplete(wk[w].path)
             ELSE buildMsgChunkReq(wk[w].path, wk[w].first)
    IN  /\ At(w, "reply")
        /\ toClient' = IF up[s] THEN [toClient EXCEPT ![s] = Append(@, m)]
                       ELSE toClient
        /\ wk' = [wk EXCEPT ![w] = IdleWorker]
        /\ UNCHANGED <<meta, data, st, client_files, up, toServer, sm_req_list, crashes>>

\* The event loop drops a connection that its client still uses, along with one
\* that a killed client has reset (see OnlyEndedRemoved in PollGroup). A message
\* on its way may be lost; the client is not told and keeps waiting.
DropConnection(s) ==
    /\ up[s]
    /\ \E t \in Sessions : st[t] = "dead"
    /\ up' = [up EXCEPT ![s] = FALSE]
    /\ \/ UNCHANGED <<toServer, toClient>>
       \/ /\ toServer' = [toServer EXCEPT ![s] = <<>>]
          /\ toClient' = [toClient EXCEPT ![s] = <<>>]
    /\ UNCHANGED <<meta, data, wk, st, client_files, sm_req_list, crashes>>

\* The server crashes and is started again. Of the messages it has sent, those of
\* the connections in kept still arrive.
ServerCrash ==
    /\ crashes < MaxCrashes
    /\ crashes' = crashes + 1
    /\ wk' = [w \in Workers |-> IdleWorker]
    /\ sm_req_list' = <<>>
    /\ up' = [s \in Sessions |-> FALSE]
    /\ toServer' = [s \in Sessions |-> <<>>]
    /\ \E kept \in SUBSET Sessions :
          toClient' = [s \in Sessions |-> IF s \in kept THEN toClient[s] ELSE <<>>]
    /\ UNCHANGED <<meta, data, st, client_files>>

-----------------------------------------------------------------------------
\* Every session is over and the server has nothing left to do.
Finished ==
    /\ \A s \in Sessions : st[s] \in {"done", "dead"} /\ ~Active(s)
    /\ UNCHANGED vars

Next ==
    \/ \E s \in Sessions :
          \/ StartSession(s) \/ ClientHandle(s) \/ ClientExit(s) \/ KillClient(s)
          \/ ServerReceive(s) \/ DropConnection(s)
    \/ \E w \in Workers : TakeRequest(w) \/ Step(w) \/ Respond(w)
    \/ ServerCrash
    \/ Finished

Spec == Init /\ [][Next]_vars

\* The event loops and the workers keep running, and so does a client that was
\* started. Nothing obliges anyone to start, to kill or to crash.
FairSpec ==
    /\ Spec
    /\ \A s \in Sessions :
          /\ WF_vars(ClientHandle(s))
          /\ WF_vars(ClientExit(s))
          /\ WF_vars(ServerReceive(s))
    /\ \A w \in Workers :
          WF_vars(TakeRequest(w)) /\ WF_vars(Step(w)) /\ WF_vars(Respond(w))

-----------------------------------------------------------------------------
(* Properties. *)

\* Chunk c of the file that the header of path p describes is in the file.
Saved(p, c) ==
    \A i \in ChunkOffset(c) + 1..ChunkOffset(c) + ChunkLength(meta[p].size, c) :
        i <= Len(data[p].bytes) /\ data[p].bytes[i] = meta[p].hash[i]

\* A bit of the bitmap is set only once the bytes of that chunk, of the file the
\* header describes, are in the received file: saveChunk writes before it marks,
\* and whoever creates either file does so before any chunk of it is saved.
MarkedMeansSaved ==
    \A p \in Paths : \A c \in 0..(getNumOfChunks(meta[p].size) - 1) :
        Marked(meta[p].bitmap, c) => Saved(p, c)

\* A client that is told its file is complete, or has ended because of it, finds
\* exactly the bytes it offered on the server.
CompleteMeansStored ==
    \A s \in Sessions :
        (\/ st[s] = "done"
         \/ \E i \in 1..Len(toClient[s]) : toClient[s][i].type = "FILE_COMPLETE")
        => data[Path(s)].bytes = Content[s]

\* Neither a new offer of the file nor a restart of the server ever clears a bit,
\* so a chunk that was received is not asked for again.
ProgressKept ==
    [][\A p \in Paths : \A c \in 0..(getNumOfChunks(meta[p].size) - 1) :
          Marked(meta[p].bitmap, c) => Marked(meta'[p].bitmap, c)]_vars

Handling(s) == {w \in Workers : Busy(w) /\ wk[w].conn = s}

Queued(s) == {i \in 1..Len(sm_req_list) : sm_req_list[i].conn = s}

\* The protocol is stop-and-wait: client, queue, workers and server never hold
\* more than one message of a session between them. The handlers rely on it, as
\* nothing orders two requests of a client that two workers have taken.
OneOutstanding ==
    \A s \in Sessions :
        Len(toServer[s]) + Len(toClient[s]) + Cardinality(Queued(s))
            + Cardinality(Handling(s)) <= 1

\* A crash has left the metadata file of path p without a header.
Torn(p) == crashes > 0 /\ meta[p].exists /\ meta[p].chunk_size = 0

\* A request for a chunk names, in 16 bits, the first chunk of the client's file that
\* is still missing when the client gets it, after a crash of the server too: there
\* is one, and no request is made for a file that is all there. The exception is a
\* file whose metadata a crash has torn: nothing can be recorded of it, and the
\* server asks for a chunk that no file has (see UploadResumes).
RequestsNextMissing ==
    \A s \in Sessions : \A i \in 1..Len(toClient[s]) :
        LET missing == Missing(meta[Path(s)].bitmap, getNumOfChunks(Len(Content[s])))
        IN  toClient[s][i].type = "FILE_CHUNK_REQ" /\ ~Torn(Path(s)) =>
                missing # {} /\ toClient[s][i].first = ToU16(Min(missing))

\* As long as the server has not crashed, a client that has started completes its
\* upload, unless it is killed or loses its connection.
UploadCompletes ==
    \A s \in Sessions :
        st[s] = "run" /\ up[s] /\ crashes = 0 ~> st[s] \in {"done", "dead"} \/ ~up[s]

\* The metadata is there to resume an upload after the server has been terminated
\* and started again: once it no longer crashes, a client that has a connection
\* to it, and keeps it, completes its upload.
UploadResumes ==
    \A s \in Sessions :
        st[s] = "run" /\ up[s] /\ crashes = MaxCrashes
            ~> st[s] \in {"done", "dead"} \/ ~up[s]

\* The chunks of path p that are recorded and there.
Stored(p) ==
    {c \in 0..(getNumOfChunks(meta[p].size) - 1) : Marked(meta[p].bitmap, c) /\ Saved(p, c)}

AllZeros(bytes) == \A i \in 1..Len(bytes) : bytes[i] = 0

Upload == INSTANCE Upload WITH
    Target <- [s \in Sessions |-> Path(s)],
    n_chunks <- [s \in Sessions |-> getNumOfChunks(Len(Content[s]))],
    Zeros <- {s \in Sessions : AllZeros(Content[s])},
    stored <- [p \in Paths |-> Stored(p)],
    told <- {s \in Sessions : st[s] # "new" /\ client_files[s] = {}}

\* Seen from the clients, an upload is what Upload says: the server's store grows by
\* one chunk at a time and never shrinks, whatever is killed or crashes in between,
\* and a client learns that its file is complete only when every chunk is there. A
\* file of zeros is complete as soon as one of its size is: the metadata of such a
\* file may be torn by a crash, and its hash is right nevertheless.
ImplementsUpload == Upload!Spec
=============================================================================
