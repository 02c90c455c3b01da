----------------------------- MODULE RemoteFile -----------------------------
(***************************************************************************)
(* The server's files and the steps by which a worker thread of ft_server  *)
(* handles one request on them: ServerRequestHandler::handleRequest, the   *)
(* FileRemote class and the file operations of FileMetadata.               *)
(*                                                                         *)
(* Nothing locks a path, so every access to the file system that another   *)
(* worker, or a crash of the process, can come between is an action of its *)
(* own.  A stream writes its buffer when it is closed: the metadata header *)
(* and bitmap reach the disk in one write (true up to the stream's buffer  *)
(* size), after an open that has already truncated the file.               *)
(*                                                                         *)
(* The hash of a file is modelled by its contents, that is, BLAKE2 is      *)
(* taken to be free of collisions.                                         *)
(***************************************************************************)
EXTENDS Metadata

CONSTANTS
    Workers,  \* the threads of the RequestBroker
    Conns,    \* the connections requests come from
    Paths,    \* the paths <client uuid>/<file name> under the upload directory
    Sizes     \* the sizes of the files that are offered

\* A size is a size_t.
ASSUME SizesAssumption == Sizes \subseteq 0..(U64 - 1)

VARIABLES
    meta,  \* meta[p]: the metadata file of path p
    data,  \* data[p]: the file received at path p
    wk     \* wk[w]: what worker w is doing

remoteVars == <<meta, data, wk>>

FileBytes == Seq(Nat)

\* The file sizes a header can hold.
HeaderSizes == Sizes \cup {0}

\* A metadata file that has been created and not yet written reads as a header
\* of zeros, because readHeader zeroes its results first.
MetaFile ==
    [exists : BOOLEAN, chunk_size : Nat, size : HeaderSizes, hash : FileBytes,
     bitmap : Seq(Byte)]

BlankMeta(exists) ==
    [exists |-> exists, chunk_size |-> 0, size |-> 0, hash |-> <<>>,
     bitmap |-> <<>>]

DataFile == [exists : BOOLEAN, bytes : FileBytes]

Steps ==
    {"idle", "readHeader", "metaExists", "metaOpen", "metaWrite", "fileExists",
     "fileOpen", "fileExtend", "saveChunk", "markRead", "markWrite", "scan",
     "hash", "next", "reply"}

Ops == {"FILE_OFFER", "FILE_CHUNK_DATA"}

Replies == {"none", "FILE_CHUNK_REQ", "FILE_COMPLETE"}

\* size and hash are the members of the FileRemote the handler has built, idx and
\* payload those of its FileChunk; byte is the bitmap byte markChunk has read.
WorkerState ==
    [pc : Steps, conn : Conns, op : Ops, path : Paths, size : HeaderSizes,
     hash : FileBytes, idx : Nat, payload : FileBytes, byte : Byte,
     reply : Replies, first : Nat]

RemoteTypeOK ==
    /\ meta \in [Paths -> MetaFile]
    /\ data \in [Paths -> DataFile]
    /\ wk \in [Workers -> WorkerState]

IdleWorker ==
    [pc |-> "idle", conn |-> CHOOSE c \in Conns : TRUE, op |-> "FILE_OFFER",
     path |-> CHOOSE p \in Paths : TRUE, size |-> 0, hash |-> <<>>, idx |-> 0,
     payload |-> <<>>, byte |-> {}, reply |-> "none", first |-> 0]

RemoteInit ==
    /\ meta = [p \in Paths |-> BlankMeta(FALSE)]
    /\ data = [p \in Paths |-> [exists |-> FALSE, bytes |-> <<>>]]
    /\ wk = [w \in Workers |-> IdleWorker]

Busy(w) == wk[w].pc # "idle"

\* Bytes written at an offset of a file; a gap reads as zeros.
WriteAt(bytes, offset, new) ==
    LET end == offset + Len(new)
    IN  [i \in 1..(IF end > Len(bytes) THEN end ELSE Len(bytes)) |->
            IF i > offset /\ i <= end THEN new[i - offset]
            ELSE IF i <= Len(bytes) THEN bytes[i] ELSE 0]

\* The bytes of chunk idx of a file of the given size.
ChunkBytes(bytes, size, idx) ==
    SubSeq(bytes, ChunkOffset(idx) + 1, ChunkOffset(idx) + ChunkLength(size, idx))

-----------------------------------------------------------------------------
(* Starting on a request. *)

\* makeRemoteFile(path, hash, size) for a FILE_OFFER.
StartOffer(w, conn, path, size, hash) ==
    wk' = [wk EXCEPT ![w] =
              [IdleWorker EXCEPT !.pc = "metaExists", !.conn = conn,
                  !.op = "FILE_OFFER", !.path = path, !.size = size,
                  !.hash = hash]]

\* makeRemoteFile(path) for a FILE_CHUNK_DATA, whose size and hash come from the
\* metadata file.
StartChunkData(w, conn, path, idx, payload) ==
    wk' = [wk EXCEPT ![w] =
              [IdleWorker EXCEPT !.pc = "readHeader", !.conn = conn,
                  !.op = "FILE_CHUNK_DATA", !.path = path, !.idx = idx,
                  !.payload = payload]]

At(w, pc) == wk[w].pc = pc

Goto(w, pc) == wk' = [wk EXCEPT ![w].pc = pc]

\* readHeader: without a header there is no FileRemote and the handler gives no
\* response.
ReadHeader(w) ==
    LET m == meta[wk[w].path]
    IN  /\ At(w, "readHeader")
        /\ wk' = [wk EXCEPT ![w] =
                     IF m.chunk_size > 0
                     THEN [@ EXCEPT !.pc = "metaExists", !.size = m.size,
                                    !.hash = m.hash]
                     ELSE IdleWorker]
        /\ UNCHANGED <<meta, data>>

-----------------------------------------------------------------------------
(* The constructor of FileRemote, with FileMetadata::createIfNotExist. *)

\* A defect: the metadata file is created again whether or not it exists.
MetaExists_unchecked(w) ==
    /\ At(w, "metaExists")
    /\ Goto(w, "metaOpen")
    /\ UNCHANGED <<meta, data>>

MetaExists(w) ==
    /\ At(w, "metaExists")
    /\ Goto(w, IF meta[wk[w].path].exists THEN "fileExists" ELSE "metaOpen")
    /\ UNCHANGED <<meta, data>>

\* Opening the stream truncates the file.
MetaOpen(w) ==
    /\ At(w, "metaOpen")
    /\ meta' = [meta EXCEPT ![wk[w].path] = BlankMeta(TRUE)]
    /\ Goto(w, "metaWrite")
    /\ UNCHANGED data

\* A defect: the size is rounded up to whole chunks in the header.
MetaWrite_rounded(w) ==
    LET n == getNumOfChunks(wk[w].size)
    IN  /\ At(w, "metaWrite")
        /\ meta' = [meta EXCEPT ![wk[w].path] =
                       [exists |-> TRUE, chunk_size |-> CHUNK_SIZE,
                        size |-> n * CHUNK_SIZE, hash |-> wk[w].hash,
                        bitmap |-> EmptyBitmap(n)]]
        /\ Goto(w, "fileExists")
        /\ UNCHANGED data

\* Closing it writes the header and a bitmap of zeros over what is there.
MetaWrite(w) ==
    LET fresh == bitmap_size(getNumOfChunks(wk[w].size))
        old   == meta[wk[w].path].bitmap
    IN  /\ At(w, "metaWrite")
        /\ meta' = [meta EXCEPT ![wk[w].path] =
                       [exists |-> TRUE, chunk_size |-> CHUNK_SIZE,
                        size |-> wk[w].size, hash |-> wk[w].hash,
                        bitmap |-> [i \in 1..(IF fresh > Len(old) THEN fresh
                                              ELSE Len(old)) |->
                                       IF i <= fresh THEN {} ELSE old[i]]]]
        /\ Goto(w, "fileExists")
        /\ UNCHANGED data

\* What follows the constructor: an offered file is checked for completeness, a
\* chunk is saved first.
Constructed(w) == IF wk[w].op = "FILE_OFFER" THEN "scan" ELSE "saveChunk"

\* A defect: the file is created again whether or not it exists.
FileExists_unchecked(w) ==
    /\ At(w, "fileExists")
    /\ Goto(w, "fileOpen")
    /\ UNCHANGED <<meta, data>>

\* A defect: an offer creates the file again.
FileExists_on_offer(w) ==
    /\ At(w, "fileExists")
    /\ Goto(w, IF data[wk[w].path].exists /\ wk[w].op # "FILE_OFFER"
               THEN Constructed(w) ELSE "fileOpen")
    /\ UNCHANGED <<meta, data>>

FileExists(w) ==
    /\ At(w, "fileExists")
    /\ Goto(w, IF data[wk[w].path].exists THEN Constructed(w) ELSE "fileOpen")
    /\ UNCHANGED <<meta, data>>

FileOpen(w) ==
    /\ At(w, "fileOpen")
    /\ data' = [data EXCEPT ![wk[w].path] = [exists |-> TRUE, bytes |-> <<>>]]
    /\ Goto(w, "fileExtend")
    /\ UNCHANGED meta

\* A zero written at size - 1. For an empty file the seek to -1 fails and nothing
\* is written.
FileExtend(w) ==
    /\ At(w, "fileExtend")
    /\ data' = IF wk[w].size = 0 THEN data
               ELSE [data EXCEPT ![wk[w].path].bytes =
                        WriteAt(@, wk[w].size - 1, <<0>>)]
    /\ Goto(w, Constructed(w))
    /\ UNCHANGED meta

-----------------------------------------------------------------------------
(* FileRemote::saveChunk and FileMetadata::markChunk. *)

\* The chunk lies in the file and has the length its index calls for.
Acceptable(w) ==
    /\ ChunkOffset(wk[w].idx) <= wk[w].size
    /\ Len(wk[w].payload) = ChunkLength(wk[w].size, wk[w].idx)

\* A chunk that is not acceptable is dropped; the handler goes on.
SaveChunk(w) ==
    /\ At(w, "saveChunk")
    /\ data' = IF Acceptable(w)
               THEN [data EXCEPT ![wk[w].path].bytes =
                        WriteAt(@, ChunkOffset(wk[w].idx), wk[w].payload)]
               ELSE data
    /\ Goto(w, IF Acceptable(w) THEN "markRead" ELSE "scan")
    /\ UNCHANGED meta

\* When the byte is past the end of the file the read fails, and so the write.
MarkRead(w) ==
    LET bitmap == meta[wk[w].path].bitmap
        k      == ByteOf(wk[w].idx)
    IN  /\ At(w, "markRead")
        /\ wk' = [wk EXCEPT ![w] =
                     IF k \in DOMAIN bitmap
                     THEN [@ EXCEPT !.pc = "markWrite", !.byte = bitmap[k]]
                     ELSE [@ EXCEPT !.pc = "scan"]]
        /\ UNCHANGED <<meta, data>>

\* A defect: the byte is read and changed, and never written back.
MarkWrite_lost(w) ==
    /\ At(w, "markWrite")
    /\ wk' = [wk EXCEPT ![w].pc = "scan", ![w].byte = {}]
    /\ UNCHANGED <<meta, data>>

MarkWrite(w) ==
    /\ At(w, "markWrite")
    /\ meta' = [meta EXCEPT ![wk[w].path].bitmap =
                   PutByte(@, ByteOf(wk[w].idx),
                           MarkedByte(wk[w].byte, wk[w].idx, TRUE))]
    /\ wk' = [wk EXCEPT ![w].pc = "scan", ![w].byte = {}]
    /\ UNCHANGED data

-----------------------------------------------------------------------------
(* FileRemote::isComplete and the choice of the response. *)

\* The chunk that the bitmap says comes next, for a FileRemote of this size.
NextMissing(w) ==
    nextMissingChunk(meta[wk[w].path].bitmap, getNumOfChunks(wk[w].size), 0)

\* A defect: the hash is not checked once every chunk is marked.
Scan_no_hash(w) ==
    /\ At(w, "scan")
    /\ wk' = [wk EXCEPT ![w] = IF NextMissing(w) = UINT64_MAX
                               THEN [@ EXCEPT !.pc = "reply", !.reply = "FILE_COMPLETE"]
                               ELSE [@ EXCEPT !.pc = "next"]]
    /\ UNCHANGED <<meta, data>>

\* The hash is computed only when no chunk is missing.
Scan(w) ==
    /\ At(w, "scan")
    /\ Goto(w, IF data[wk[w].path].exists /\ NextMissing(w) = UINT64_MAX
               THEN "hash" ELSE "next")
    /\ UNCHANGED <<meta, data>>

CheckHash(w) ==
    /\ At(w, "hash")
    /\ wk' = [wk EXCEPT ![w] =
                 IF data[wk[w].path].bytes = wk[w].hash
                 THEN [@ EXCEPT !.pc = "reply", !.reply = "FILE_COMPLETE"]
                 ELSE [@ EXCEPT !.pc = "next"]]
    /\ UNCHANGED <<meta, data>>

\* A defect: the chunk after the missing one is requested.
RequestNext_off_by_one(w) ==
    /\ At(w, "next")
    /\ wk' = [wk EXCEPT ![w].pc = "reply", ![w].reply = "FILE_CHUNK_REQ",
                        ![w].first = ToU16(NextMissing(w) + 1)]
    /\ UNCHANGED <<meta, data>>

\* getNextMissingChunk reads the bitmap again. Its result, UINT64_MAX included,
\* becomes the uint16_t parameter of buildMsgChunkReq.
RequestNext(w) ==
    /\ At(w, "next")
    /\ wk' = [wk EXCEPT ![w].pc = "reply", ![w].reply = "FILE_CHUNK_REQ",
                        ![w].first = ToU16(NextMissing(w))]
    /\ UNCHANGED <<meta, data>>

\* One step of the handling of a request, up to its reply.
HandleStep(w) ==
    \/ ReadHeader(w)
    \/ MetaExists(w) \/ MetaOpen(w) \/ MetaWrite(w)
    \/ FileExists(w) \/ FileOpen(w) \/ FileExtend(w)
    \/ SaveChunk(w) \/ MarkRead(w) \/ MarkWrite(w)
    \/ Scan(w) \/ CheckHash(w) \/ RequestNext(w)
=============================================================================
