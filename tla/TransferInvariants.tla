------------------------- MODULE TransferInvariants -------------------------
(***************************************************************************)
(* The inductive invariant of Transfer: what holds of the messages, the    *)
(* workers and the files between any two steps, and from which the         *)
(* properties of Transfer follow.                                          *)
(***************************************************************************)
EXTENDS Transfer

\* Every run that writes to a path offers the same file: a retry does not offer
\* another one.
SameContent ==
    \A s, t \in Sessions : Path(s) = Path(t) => Content[s] = Content[t]

-----------------------------------------------------------------------------
(* Messages. *)

\* Session s has started, and nothing of it is on the network.
AtServer(s) == st[s] # "new" /\ toServer[s] = <<>> /\ toClient[s] = <<>>

\* Of the network, the queue and the workers at most one has something of a
\* session, and that is a single message.
NetToken(s) ==
    /\ Len(toServer[s]) <= 1 /\ Len(toClient[s]) <= 1
    /\ toServer[s] # <<>> => toClient[s] = <<>>
    /\ st[s] = "new" => toServer[s] = <<>>
    /\ up[s] \/ toClient[s] # <<>> => st[s] = "run"

QueueToken(i) ==
    /\ AtServer(sm_req_list[i].conn)
    /\ \A j \in 1..Len(sm_req_list) : sm_req_list[i].conn = sm_req_list[j].conn => i = j

WorkerToken(w) == Busy(w) =>
    /\ AtServer(wk[w].conn)
    /\ \A i \in 1..Len(sm_req_list) : sm_req_list[i].conn # wk[w].conn
    /\ \A v \in Workers : Busy(v) /\ wk[v].conn = wk[w].conn => v = w

TokenInv ==
    /\ \A s \in Sessions : NetToken(s)
    /\ \A i \in 1..Len(sm_req_list) : QueueToken(i)
    /\ \A w \in Workers : WorkerToken(w)

\* Message m is one that session s sends: its offer, or a chunk of its file.
SentBy(s, m) ==
    \/ m = buildMsgOffer(s)
    \/ /\ m.type = "FILE_CHUNK_DATA"
       /\ Sendable(s, m.idx)
       /\ m = buildMsgChunkData(s, m.idx)

\* What arrives at the server is what the session of that connection has sent.
MessageInv ==
    /\ \A s \in Sessions : \A i \in 1..Len(toServer[s]) : SentBy(s, toServer[s][i])
    /\ \A i \in 1..Len(sm_req_list) : SentBy(sm_req_list[i].conn, sm_req_list[i].msg)

\* At most one session is active on a path.
ExclusiveInv ==
    \A s, t \in Sessions : Path(s) = Path(t) /\ Active(s) /\ Active(t) => s = t

-----------------------------------------------------------------------------
(* Files. *)

\* Metadata that was never written: no file, or one that a crash has left empty.
Blank(m) == m.chunk_size = 0 /\ m.size = 0 /\ m.hash = <<>> /\ m.bitmap = <<>>

\* Metadata m is that of the file that session s uploads.
Describes(m, s) ==
    /\ m.exists
    /\ m.chunk_size = CHUNK_SIZE
    /\ m.size = Len(Content[s])
    /\ m.hash = Content[s]
    /\ m.bitmap \in Bitmap(getNumOfChunks(Len(Content[s])))

\* The files of a path: a marked chunk is saved, a header is that of the file
\* being uploaded, and without a header the received file holds nothing but zeros.
FileInv(p) ==
    /\ \/ Blank(meta[p]) /\ AllZeros(data[p].bytes)
       \/ \E s \in Sessions : Path(s) = p /\ Describes(meta[p], s)
    /\ ~data[p].exists => data[p].bytes = <<>>
    /\ \A c \in 0..(getNumOfChunks(meta[p].size) - 1) :
          Marked(meta[p].bitmap, c) => Saved(p, c)

\* The first missing chunk of path p.
FirstMissingAt(p) == FirstMissing(meta[p].bitmap, getNumOfChunks(meta[p].size))

\* The file of session s is there, and recorded to be unless it is all zeros.
Delivered(s) ==
    /\ data[Path(s)].bytes = Content[s]
    /\ \/ AllZeros(Content[s])
       \/ /\ Describes(meta[Path(s)], s)
          /\ Missing(meta[Path(s)].bitmap, getNumOfChunks(Len(Content[s]))) = {}

\* What the handler of a request of session s knows of it.
RequestInv(w, s) ==
    /\ wk[w].path = Path(s)
    /\ wk[w].pc # "readHeader" => wk[w].size = Len(Content[s]) /\ wk[w].hash = Content[s]
    /\ wk[w].op = "FILE_OFFER" => wk[w].pc \notin {"readHeader", "saveChunk", "markRead", "markWrite"}
    /\ wk[w].op = "FILE_CHUNK_DATA" =>
          /\ Sendable(s, wk[w].idx)
          /\ wk[w].payload = ChunkBytes(Content[s], Len(Content[s]), wk[w].idx)
          /\ wk[w].pc # "readHeader" => Describes(meta[Path(s)], s)

\* What the handler knows of the files at each of its steps, as it left them or
\* found them in an earlier one.
StepInv(w, s) ==
    LET m == meta[Path(s)]
        d == data[Path(s)]
    IN  /\ wk[w].pc = "metaOpen" => ~m.exists
        /\ wk[w].pc = "metaWrite" => Blank(m)
        /\ wk[w].pc = "fileOpen" => ~d.exists
        /\ wk[w].pc = "fileExtend" => d.bytes = <<>>
        /\ wk[w].pc \in {"fileExtend", "saveChunk"} => d.exists
        /\ wk[w].pc \in {"markRead", "markWrite"} => Saved(Path(s), wk[w].idx)
        /\ wk[w].pc = "markWrite" =>
              /\ ByteOf(wk[w].idx) \in DOMAIN m.bitmap
              /\ wk[w].byte = m.bitmap[ByteOf(wk[w].idx)]
        /\ wk[w].pc = "hash" => FirstMissingAt(Path(s)) = UINT64_MAX
        /\ wk[w].pc = "reply" =>
              \/ wk[w].reply = "FILE_COMPLETE" /\ Delivered(s)
              \/ /\ wk[w].reply = "FILE_CHUNK_REQ"
                 /\ wk[w].first = ToU16(FirstMissingAt(Path(s)))

WorkerInv(w) == Busy(w) => RequestInv(w, wk[w].conn) /\ StepInv(w, wk[w].conn)

\* What the client is told is true when it gets it, and that its file is complete
\* is true ever after.
ClientInv(s) ==
    /\ st[s] # "new" /\ client_files[s] = {} => Delivered(s)
    /\ \A i \in 1..Len(toClient[s]) :
          /\ toClient[s][i].type = "FILE_COMPLETE" => Delivered(s)
          /\ toClient[s][i].type = "FILE_CHUNK_REQ" =>
                toClient[s][i].first = ToU16(FirstMissingAt(Path(s)))

\* A client ends by itself only when every file it has offered is complete.
ExitInv(s) == st[s] = "done" => client_files[s] = {}

-----------------------------------------------------------------------------
(* What there is to ask for. *)

\* Some chunk of the file of session s is missing, or its metadata has no header.
Wanting(s) ==
    /\ meta[Path(s)].exists
    /\ \/ meta[Path(s)].chunk_size = 0
       \/ Missing(meta[Path(s)].bitmap, getNumOfChunks(Len(Content[s]))) # {}

\* Metadata without a header is about to be written, or was torn by a crash.
HeaderInv(p) ==
    meta[p].exists /\ meta[p].chunk_size = 0 =>
        crashes > 0 \/ \E w \in Workers : wk[w].pc = "metaWrite" /\ wk[w].path = p

\* The received file is never longer than the one that is offered.
LengthInv(s) == Len(data[Path(s)].bytes) <= Len(Content[s])

\* The files that the steps of a handler have created are there, and a handler that
\* asks for a chunk has something to ask for.
CreatedInv(w) == Busy(w) =>
    /\ wk[w].pc \notin {"readHeader", "metaExists", "metaOpen"} => meta[wk[w].path].exists
    /\ wk[w].pc \in {"markRead", "markWrite", "scan"} => data[wk[w].path].exists
    /\ wk[w].pc = "next" \/ (wk[w].pc = "reply" /\ wk[w].reply = "FILE_CHUNK_REQ") =>
          Wanting(wk[w].conn)

WantedInv ==
    /\ \A p \in Paths : HeaderInv(p)
    /\ \A w \in Workers : CreatedInv(w)
    /\ \A s \in Sessions :
          /\ LengthInv(s)
          /\ \A i \in 1..Len(toClient[s]) :
                toClient[s][i].type = "FILE_CHUNK_REQ" => Wanting(s)

-----------------------------------------------------------------------------
\* When one session at a time uses a path and its file is always the same, every
\* request is handled on files that are as its handler, or a handler before a
\* crash, has left them.
TransferInv ==
    /\ TokenInv
    /\ MessageInv
    /\ ExclusiveInv
    /\ \A p \in Paths : FileInv(p)
    /\ \A w \in Workers : WorkerInv(w)
    /\ \A s \in Sessions : ClientInv(s) /\ ExitInv(s)
    /\ WantedInv
=============================================================================
