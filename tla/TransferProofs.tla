--------------------------- MODULE TransferProofs ---------------------------
(***************************************************************************)
(* Proofs about Transfer, for any files, clients, workers and crashes: its *)
(* types, its messages, which sessions are active, the chunks written and  *)
(* what a handler may rely on.                                             *)
(***************************************************************************)
EXTENDS TransferInvariants, MetadataLemmas, TLAPS

-----------------------------------------------------------------------------
(* Types of the operators the actions are built from. *)

\* A size in a header is a natural number.
LEMMA HeaderSizesType == HeaderSizes \subseteq Nat
BY SizesAssumption, WidthAssumption DEF HeaderSizes

\* A converted index is a natural number.
LEMMA ToU16Type == ASSUME NEW n \in Int PROVE ToU16(n) \in Nat
BY WidthAssumption DEF ToU16

\* Writing into a file yields a file.
LEMMA WriteAtType ==
    ASSUME NEW bytes \in FileBytes, NEW offset \in Nat, NEW new \in FileBytes
    PROVE  WriteAt(bytes, offset, new) \in FileBytes
<1> DEFINE end == offset + Len(new)
           n == IF end > Len(bytes) THEN end ELSE Len(bytes)
<1>1. end \in Nat /\ n \in Nat
  BY DEF FileBytes
<1>2. ASSUME NEW i \in 1..n
      PROVE  (IF i > offset /\ i <= end THEN new[i - offset]
              ELSE IF i <= Len(bytes) THEN bytes[i] ELSE 0) \in Nat
  BY <1>1 DEF FileBytes
<1>3. WriteAt(bytes, offset, new) \in [1..n -> Nat]
  BY <1>2 DEF WriteAt
<1> HIDE DEF n
<1> QED
  BY <1>1, <1>3, IsSequence DEF FileBytes

\* An idle worker has its type: there is a session, and so a path.
LEMMA IdleWorkerType == IdleWorker \in WorkerState
<1>1. (CHOOSE c \in Conns : TRUE) \in Conns
  BY TransferAssumption
<1>2. (CHOOSE p \in Paths : TRUE) \in Paths
  <2>1. PICK s \in Sessions : TRUE
    BY TransferAssumption
  <2>2. <<Uuid[s], Name[s]>> \in Paths
    BY TransferAssumption
  <2> QED
    BY <2>2
<1>3. {} \in Byte /\ <<>> \in FileBytes
  BY DEF Byte, FileBytes
<1> QED
  BY <1>1, <1>2, <1>3 DEF IdleWorker, WorkerState, Steps, Ops, Replies, HeaderSizes

-----------------------------------------------------------------------------
(* The steps of a worker. *)

\* A worker that only moves to another step keeps its type.
LEMMA GotoType ==
    ASSUME RemoteTypeOK, NEW w \in Workers, NEW pc \in Steps, Goto(w, pc)
    PROVE  wk' \in [Workers -> WorkerState]
<1>1. wk[w] \in WorkerState
  BY DEF RemoteTypeOK
<1>2. [wk[w] EXCEPT !.pc = pc] \in WorkerState
  BY <1>1 DEF WorkerState
<1>3. wk' = [wk EXCEPT ![w] = [wk[w] EXCEPT !.pc = pc]]
  BY DEF Goto, RemoteTypeOK
<1> QED
  BY <1>2, <1>3 DEF RemoteTypeOK

\* The chunk that a worker finds missing is an integer.
LEMMA WorkerNextMissing ==
    ASSUME RemoteTypeOK, NEW w \in Workers
    PROVE  NextMissing(w) \in Int
<1>1. wk[w] \in WorkerState
  BY DEF RemoteTypeOK
<1>2. wk[w].path \in Paths /\ wk[w].size \in Nat
  BY <1>1, HeaderSizesType, Zenon DEF WorkerState
<1>3. meta[wk[w].path] \in MetaFile
  BY <1>2 DEF RemoteTypeOK
<1>4. meta[wk[w].path].bitmap \in Seq(Byte)
  BY <1>3 DEF MetaFile
<1> QED
  BY <1>2, <1>4, ChunkCount, NextMissingType, Zenon DEF NextMissing

\* Every step of the handling of a request keeps files and workers in their types.
LEMMA HandleStepType ==
    ASSUME RemoteTypeOK, NEW w \in Workers, HandleStep(w)
    PROVE  RemoteTypeOK'
<1> DEFINE p == wk[w].path
<1>1. wk[w] \in WorkerState
  BY DEF RemoteTypeOK
<1>2. p \in Paths /\ wk[w].size \in HeaderSizes /\ wk[w].size \in Nat
      /\ wk[w].hash \in FileBytes /\ wk[w].idx \in Nat /\ wk[w].payload \in FileBytes
      /\ wk[w].byte \in Byte
  BY <1>1, HeaderSizesType, Zenon DEF WorkerState
<1>3. meta[p] \in MetaFile /\ data[p] \in DataFile
  BY <1>2 DEF RemoteTypeOK
<1>4. meta[p].bitmap \in Seq(Byte) /\ meta[p].size \in HeaderSizes
      /\ meta[p].hash \in FileBytes /\ data[p].bytes \in FileBytes
  BY <1>3 DEF MetaFile, DataFile
<1>5. ByteOf(wk[w].idx) \in Nat /\ ChunkOffset(wk[w].idx) \in Nat
  BY <1>2, WidthAssumption DEF ByteOf, ChunkOffset
<1>6. Constructed(w) \in Steps
  BY DEF Constructed, Steps
<1>7. ASSUME NEW r \in WorkerState, wk' = [wk EXCEPT ![w] = r]
      PROVE  wk' \in [Workers -> WorkerState]
  BY <1>7 DEF RemoteTypeOK
<1>8. ASSUME NEW m \in MetaFile, meta' = [meta EXCEPT ![p] = m]
      PROVE  meta' \in [Paths -> MetaFile]
  BY <1>8, Zenon DEF RemoteTypeOK
<1>9. ASSUME NEW d \in DataFile, data' = [data EXCEPT ![p] = d]
      PROVE  data' \in [Paths -> DataFile]
  BY <1>9, Zenon DEF RemoteTypeOK
<1>10. ASSUME UNCHANGED <<meta, data>>, wk' \in [Workers -> WorkerState]
       PROVE  RemoteTypeOK'
  BY <1>10 DEF RemoteTypeOK
<1>11. ASSUME NEW bytes \in FileBytes
       PROVE  [data[p] EXCEPT !.bytes = bytes] \in DataFile
  BY <1>3 DEF DataFile
<1> HIDE DEF p
<1>12. CASE ReadHeader(w)
  <2>1. [wk[w] EXCEPT !.pc = "metaExists", !.size = meta[p].size,
                      !.hash = meta[p].hash] \in WorkerState
    BY <1>1, <1>4, Zenon DEF WorkerState, Steps
  <2>2. PICK r \in WorkerState : wk' = [wk EXCEPT ![w] = r]
    BY <1>12, <2>1, IdleWorkerType, Zenon DEF ReadHeader, p, RemoteTypeOK
  <2> QED
    BY <1>7, <1>10, <1>12, <2>2, Zenon DEF ReadHeader
<1>13. CASE MetaExists(w)
  <2>1. PICK pc \in Steps : Goto(w, pc)
    BY <1>13 DEF MetaExists, Steps
  <2> QED
    BY <1>10, <1>13, <2>1, GotoType DEF MetaExists
<1>14. CASE MetaOpen(w)
  <2>1. BlankMeta(TRUE) \in MetaFile
    BY DEF BlankMeta, MetaFile, HeaderSizes, FileBytes
  <2>2. meta' \in [Paths -> MetaFile]
    BY <1>8, <1>14, <2>1, Zenon DEF MetaOpen, p
  <2>3. wk' \in [Workers -> WorkerState]
    BY <1>14, GotoType DEF MetaOpen, Steps
  <2> QED
    BY <1>14, <2>2, <2>3, Zenon DEF MetaOpen, RemoteTypeOK
<1>15. CASE MetaWrite(w)
  <2> DEFINE fresh == bitmap_size(getNumOfChunks(wk[w].size))
             old   == meta[p].bitmap
             n     == IF fresh > Len(old) THEN fresh ELSE Len(old)
             bm    == [i \in 1..n |-> IF i <= fresh THEN {} ELSE old[i]]
  <2>1. fresh \in Nat
    BY <1>2, ChunkCount, BitmapSize
  <2>2. n \in Nat /\ {} \in Byte
    BY <1>4, <2>1 DEF Byte
  <2>3. \A i \in 1..n : (IF i <= fresh THEN {} ELSE old[i]) \in Byte
    BY <1>4, <2>1, <2>2
  <2>4. bm \in [1..n -> Byte]
    BY <2>3
  <2> HIDE DEF n
  <2>5. bm \in Seq(Byte)
    BY <2>2, <2>4, IsSequence
  <2> DEFINE m == [exists |-> TRUE, chunk_size |-> CHUNK_SIZE, size |-> wk[w].size,
                   hash |-> wk[w].hash, bitmap |-> bm]
  <2>6. meta' = [meta EXCEPT ![p] = m]
    BY <1>15 DEF MetaWrite, p, n
  <2> HIDE DEF bm
  <2>7. m \in MetaFile
    BY <1>2, <2>5, WidthAssumption DEF MetaFile
  <2> HIDE DEF m
  <2>8. meta' \in [Paths -> MetaFile]
    BY <1>8, <2>6, <2>7, Zenon
  <2>9. wk' \in [Workers -> WorkerState]
    BY <1>15, GotoType DEF MetaWrite, Steps
  <2> QED
    BY <1>15, <2>8, <2>9 DEF MetaWrite, RemoteTypeOK
<1>16. CASE FileExists(w)
  <2>1. PICK pc \in Steps : Goto(w, pc)
    BY <1>6, <1>16 DEF FileExists, Steps
  <2> QED
    BY <1>10, <1>16, <2>1, GotoType DEF FileExists
<1>17. CASE FileOpen(w)
  <2>1. [exists |-> TRUE, bytes |-> <<>>] \in DataFile
    BY DEF DataFile, FileBytes
  <2>2. data' \in [Paths -> DataFile]
    BY <1>9, <1>17, <2>1, Zenon DEF FileOpen, p
  <2>3. wk' \in [Workers -> WorkerState]
    BY <1>17, GotoType DEF FileOpen, Steps
  <2> QED
    BY <1>17, <2>2, <2>3 DEF FileOpen, RemoteTypeOK
<1>18. CASE FileExtend(w)
  <2>1. wk' \in [Workers -> WorkerState]
    BY <1>6, <1>18, GotoType DEF FileExtend
  <2>2. CASE wk[w].size = 0
    BY <1>10, <1>18, <2>1, <2>2 DEF FileExtend
  <2>3. CASE wk[w].size # 0
    <3> DEFINE bytes == WriteAt(data[p].bytes, wk[w].size - 1, <<0>>)
    <3>1. wk[w].size - 1 \in Nat /\ <<0>> \in FileBytes
      BY <1>2, <2>3 DEF FileBytes
    <3>2. bytes \in FileBytes
      BY <1>4, <3>1, WriteAtType
    <3>3. data' = [data EXCEPT ![p] = [data[p] EXCEPT !.bytes = bytes]]
      BY <1>2, <1>18, <2>3 DEF FileExtend, RemoteTypeOK, p
    <3> HIDE DEF bytes
    <3>4. data' \in [Paths -> DataFile]
      BY <1>9, <1>11, <3>2, <3>3, Zenon
    <3> QED
      BY <1>18, <2>1, <3>4 DEF FileExtend, RemoteTypeOK
  <2> QED
    BY <2>2, <2>3
<1>19. CASE SaveChunk(w)
  <2>1. PICK pc \in Steps : Goto(w, pc)
    BY <1>19 DEF SaveChunk, Steps
  <2>2. wk' \in [Workers -> WorkerState]
    BY <2>1, GotoType
  <2>3. CASE ~Acceptable(w)
    BY <1>10, <1>19, <2>2, <2>3 DEF SaveChunk
  <2>4. CASE Acceptable(w)
    <3> DEFINE bytes == WriteAt(data[p].bytes, ChunkOffset(wk[w].idx), wk[w].payload)
    <3>1. bytes \in FileBytes
      BY <1>2, <1>4, <1>5, WriteAtType
    <3>2. data' = [data EXCEPT ![p] = [data[p] EXCEPT !.bytes = bytes]]
      BY <1>2, <1>19, <2>4 DEF SaveChunk, RemoteTypeOK, p
    <3> HIDE DEF bytes
    <3>3. data' \in [Paths -> DataFile]
      BY <1>9, <1>11, <3>1, <3>2, Zenon
    <3> QED
      BY <1>19, <2>2, <3>3 DEF SaveChunk, RemoteTypeOK
  <2> QED
    BY <2>3, <2>4
<1>20. CASE MarkRead(w)
  <2> DEFINE k == ByteOf(wk[w].idx)
  <2>1. k \in DOMAIN meta[p].bitmap =>
           [wk[w] EXCEPT !.pc = "markWrite", !.byte = meta[p].bitmap[k]] \in WorkerState
    <3>1. k \in DOMAIN meta[p].bitmap => meta[p].bitmap[k] \in Byte
      BY <1>4
    <3> QED
      BY <1>1, <3>1, Zenon DEF WorkerState, Steps
  <2>2. [wk[w] EXCEPT !.pc = "scan"] \in WorkerState
    BY <1>1 DEF WorkerState, Steps
  <2>3. PICK r \in WorkerState : wk' = [wk EXCEPT ![w] = r]
    BY <1>20, <2>1, <2>2, Zenon DEF MarkRead, p, RemoteTypeOK
  <2> QED
    BY <1>7, <1>10, <1>20, <2>3, Zenon DEF MarkRead
<1>21. CASE MarkWrite(w)
  <2> DEFINE k    == ByteOf(wk[w].idx)
             byte == MarkedByte(wk[w].byte, wk[w].idx, TRUE)
             bm   == PutByte(meta[p].bitmap, k, byte)
  <2>1. byte \in Byte
    BY <1>2, MarkedByteType, Zenon
  <2>2. bm \in Seq(Byte)
    BY <1>4, <1>5, <2>1, PutByteType, Zenon
  <2>3. meta' = [meta EXCEPT ![p] = [meta[p] EXCEPT !.bitmap = bm]]
    BY <1>2, <1>21 DEF MarkWrite, RemoteTypeOK, p
  <2> HIDE DEF bm
  <2>4. [meta[p] EXCEPT !.bitmap = bm] \in MetaFile
    BY <1>3, <2>2 DEF MetaFile
  <2>5. meta' \in [Paths -> MetaFile]
    BY <1>8, <2>3, <2>4, Zenon
  <2>6. {} \in Byte
    BY DEF Byte
  <2>7. [wk[w] EXCEPT !.pc = "scan", !.byte = {}] \in WorkerState
    BY <1>1, <2>6, Zenon DEF WorkerState, Steps
  <2>8. wk' = [wk EXCEPT ![w] = [wk[w] EXCEPT !.pc = "scan", !.byte = {}]]
    BY <1>21, Zenon DEF MarkWrite, RemoteTypeOK
  <2>9. wk' \in [Workers -> WorkerState]
    BY <1>7, <2>7, <2>8, Zenon
  <2> QED
    BY <1>21, <2>5, <2>9 DEF MarkWrite, RemoteTypeOK
<1>22. CASE Scan(w)
  <2>1. PICK pc \in Steps : Goto(w, pc)
    BY <1>22 DEF Scan, Steps
  <2> QED
    BY <1>10, <1>22, <2>1, GotoType DEF Scan
<1>23. CASE CheckHash(w)
  <2>1. /\ [wk[w] EXCEPT !.pc = "reply", !.reply = "FILE_COMPLETE"] \in WorkerState
        /\ [wk[w] EXCEPT !.pc = "next"] \in WorkerState
    BY <1>1, Zenon DEF WorkerState, Steps, Replies
  <2>2. PICK r \in WorkerState : wk' = [wk EXCEPT ![w] = r]
    BY <1>23, <2>1, Zenon DEF CheckHash, RemoteTypeOK
  <2> QED
    BY <1>7, <1>10, <1>23, <2>2, Zenon DEF CheckHash
<1>24. CASE RequestNext(w)
  <2> DEFINE first == ToU16(NextMissing(w))
  <2>1. first \in Nat
    BY WorkerNextMissing, ToU16Type
  <2>2. wk' = [wk EXCEPT ![w] = [wk[w] EXCEPT !.pc = "reply",
                                     !.reply = "FILE_CHUNK_REQ", !.first = first]]
    BY <1>24, Zenon DEF RequestNext, RemoteTypeOK
  <2> HIDE DEF first
  <2>3. [wk[w] EXCEPT !.pc = "reply", !.reply = "FILE_CHUNK_REQ",
                      !.first = first] \in WorkerState
    BY <1>1, <2>1, Zenon DEF WorkerState, Steps, Replies
  <2> QED
    BY <1>7, <1>10, <1>24, <2>2, <2>3, Zenon DEF RequestNext
<1> QED
  BY <1>12, <1>13, <1>14, <1>15, <1>16, <1>17, <1>18, <1>19, <1>20, <1>21, <1>22,
     <1>23, <1>24 DEF HandleStep

-----------------------------------------------------------------------------
(* Messages and requests. *)

\* The messages of the client and of the server have their types.
LEMMA MessageTypes ==
    /\ \A s \in Sessions : buildMsgOffer(s) \in Offer
    /\ \A s \in Sessions, idx \in Nat :
          Sendable(s, idx) => buildMsgChunkData(s, idx) \in ChunkData
    /\ \A path \in Paths, idx \in Nat : buildMsgChunkReq(path, idx) \in ChunkReq
    /\ \A path \in Paths : buildMsgComplete(path) \in Complete
<1>1. ASSUME NEW s \in Sessions PROVE buildMsgOffer(s) \in Offer
  <2>1. Uuid[s] \in Uuids /\ Name[s] \in Names /\ Len(Content[s]) \in Sizes
        /\ Content[s] \in FileBytes
    BY TransferAssumption DEF Uuids, Names
  <2> QED
    BY <2>1 DEF buildMsgOffer, Offer
<1>2. ASSUME NEW s \in Sessions, NEW idx \in Nat, Sendable(s, idx)
      PROVE  buildMsgChunkData(s, idx) \in ChunkData
  <2> DEFINE size == Len(Content[s])
             from == ChunkOffset(idx) + 1
             to   == ChunkOffset(idx) + ChunkLength(size, idx)
  <2>1. Content[s] \in Seq(Nat) /\ size \in Nat
    BY TransferAssumption DEF FileBytes
  <2>2. ChunkOffset(idx) \in Nat
    BY WidthAssumption DEF ChunkOffset
  <2>3. from \in 1..(size + 1) /\ to \in 0..size
    <3> DEFINE off == ChunkOffset(idx)
               len == ChunkLength(size, idx)
    <3>1. off <= size /\ len > 0
      BY <1>2 DEF Sendable
    <3>2. CHUNK_SIZE \in Nat
      BY WidthAssumption
    <3>3. len = IF size - off < CHUNK_SIZE THEN size - off ELSE CHUNK_SIZE
      BY DEF ChunkLength
    <3> HIDE DEF size, off, len
    <3>4. off + 1 \in 1..(size + 1) /\ off + len \in 0..size
      BY <2>1, <2>2, <3>1, <3>2, <3>3 DEF off
    <3> QED
      BY <3>4 DEF off, len
  <2> HIDE DEF size, from, to
  <2>4. SubSeq(Content[s], from, to) \in Seq(Nat)
    BY <2>1, <2>3 DEF size
  <2>5. ChunkBytes(Content[s], size, idx) \in FileBytes
    BY <2>4 DEF ChunkBytes, FileBytes, from, to
  <2>6. Uuid[s] \in Uuids /\ Name[s] \in Names
    BY DEF Uuids, Names
  <2> QED
    BY <2>5, <2>6 DEF buildMsgChunkData, ChunkData, size
<1>3. \A path \in Paths : path[1] \in Uuids /\ path[2] \in Names
  BY TransferAssumption DEF Uuids, Names
<1>4. \A path \in Paths, idx \in Nat : buildMsgChunkReq(path, idx) \in ChunkReq
  BY <1>3 DEF buildMsgChunkReq, ChunkReq
<1>5. \A path \in Paths : buildMsgComplete(path) \in Complete
  BY <1>3 DEF buildMsgComplete, Complete
<1> QED
  BY <1>1, <1>2, <1>4, <1>5

\* A worker that starts on a request has its type.
LEMMA StartRequestType ==
    ASSUME RemoteTypeOK, NEW w \in Workers, NEW req \in Requests, StartRequest(w, req)
    PROVE  wk' \in [Workers -> WorkerState]
<1> DEFINE m == req.msg
           p == <<m.uuid, m.name>>
<1>1. req.conn \in Conns /\ m \in Offer \cup ChunkData
  BY TransferAssumption DEF Requests
<1> HIDE DEF m
<1>2. m.uuid \in Uuids /\ m.name \in Names
  BY <1>1 DEF Offer, ChunkData
<1>3. p \in Paths
  BY <1>2, TransferAssumption DEF Uuids, Names
<1> HIDE DEF p
<1>4. ASSUME NEW r \in WorkerState, wk' = [wk EXCEPT ![w] = r]
      PROVE  wk' \in [Workers -> WorkerState]
  BY <1>4 DEF RemoteTypeOK
<1>5. CASE m.type = "FILE_OFFER"
  <2> DEFINE r == [IdleWorker EXCEPT !.pc = "metaExists", !.conn = req.conn,
                      !.op = "FILE_OFFER", !.path = p, !.size = m.size,
                      !.hash = m.hash]
  <2>1. m \in Offer
    BY <1>1, <1>5 DEF ChunkData
  <2>2. m.size \in HeaderSizes /\ m.hash \in FileBytes
    BY <2>1 DEF Offer, HeaderSizes
  <2>3. r \in WorkerState
    BY <1>1, <1>3, <2>2, IdleWorkerType, Zenon DEF WorkerState, Steps, Ops
  <2>4. wk' = [wk EXCEPT ![w] = r]
    BY <1>5 DEF StartRequest, StartOffer, m, p
  <2> HIDE DEF r
  <2> QED
    BY <1>4, <2>3, <2>4, Zenon
<1>6. CASE m.type # "FILE_OFFER"
  <2> DEFINE r == [IdleWorker EXCEPT !.pc = "readHeader", !.conn = req.conn,
                      !.op = "FILE_CHUNK_DATA", !.path = p, !.idx = m.idx,
                      !.payload = m.data]
  <2>1. m \in ChunkData
    BY <1>1, <1>6 DEF Offer
  <2>2. m.idx \in Nat /\ m.data \in FileBytes
    BY <2>1 DEF ChunkData
  <2>3. r \in WorkerState
    BY <1>1, <1>3, <2>2, IdleWorkerType, Zenon DEF WorkerState, Steps, Ops
  <2>4. wk' = [wk EXCEPT ![w] = r]
    BY <1>6 DEF StartRequest, StartChunkData, m, p
  <2> HIDE DEF r
  <2> QED
    BY <1>4, <2>3, <2>4, Zenon
<1> QED
  BY <1>5, <1>6

-----------------------------------------------------------------------------
(* The invariant. *)

\* The initial state has its type.
LEMMA TransferTypeInit == Init => TypeOK
<1> SUFFICES ASSUME Init PROVE TypeOK
  OBVIOUS
<1>1. BlankMeta(FALSE) \in MetaFile
  BY DEF BlankMeta, MetaFile, HeaderSizes, FileBytes
<1>2. [exists |-> FALSE, bytes |-> <<>>] \in DataFile
  BY DEF DataFile, FileBytes
<1>3. RemoteTypeOK
  BY <1>1, <1>2, IdleWorkerType, Zenon DEF Init, RemoteInit, RemoteTypeOK
<1>4. crashes \in 0..MaxCrashes
  BY TransferAssumption DEF Init
<1> QED
  BY <1>3, <1>4 DEF Init, TypeOK

\* Every step keeps the types.
LEMMA TransferTypeNext == TypeOK /\ [Next]_vars => TypeOK'
<1> SUFFICES ASSUME TypeOK, [Next]_vars PROVE TypeOK'
  OBVIOUS
<1> DEFINE ToS == Offer \cup ChunkData
           ToC == ChunkReq \cup Complete
           NetTypeOK == /\ st \in [Sessions -> {"new", "run", "done", "dead"}]
                        /\ client_files \in [Sessions -> SUBSET Names]
                        /\ up \in [Sessions -> BOOLEAN]
                        /\ toServer \in [Sessions -> Seq(ToS)]
                        /\ toClient \in [Sessions -> Seq(ToC)]
                        /\ sm_req_list \in Seq(Requests)
                        /\ crashes \in 0..MaxCrashes
<1>1. RemoteTypeOK /\ NetTypeOK
  BY DEF TypeOK
<1>2. ASSUME RemoteTypeOK', NetTypeOK' PROVE TypeOK'
  BY <1>2 DEF TypeOK
<1>3. ASSUME UNCHANGED <<meta, data, wk>> PROVE RemoteTypeOK'
  BY <1>1, <1>3 DEF RemoteTypeOK
<1>4. ASSUME UNCHANGED <<netVars, crashes>> PROVE NetTypeOK'
  BY <1>1, <1>4 DEF netVars
<1>5. ASSUME NEW s \in Sessions, StartSession(s) PROVE TypeOK'
  <2>1. buildMsgOffer(s) \in ToS
    BY MessageTypes
  <2>2. toServer' \in [Sessions -> Seq(ToS)]
    <3> HIDE DEF ToS
    <3> QED
      BY <1>1, <1>5, <2>1 DEF StartSession
  <2>3. Name[s] \in Names
    BY DEF Names
  <2>4. NetTypeOK'
    BY <1>1, <1>5, <2>2, <2>3 DEF StartSession
  <2> QED
    BY <1>2, <1>3, <1>5, <2>4 DEF StartSession
<1>6. ASSUME NEW s \in Sessions, ClientHandle(s) PROVE TypeOK'
  <2> DEFINE m   == Head(toClient[s])
             idx == ToU16(m.first)
             msg == buildMsgChunkData(s, idx)
  <2>1. toClient[s] \in Seq(ToC) /\ toClient[s] # <<>> /\ toServer[s] \in Seq(ToS)
    BY <1>1, <1>6 DEF ClientHandle
  <2>2. m \in ToC /\ Tail(toClient[s]) \in Seq(ToC)
    <3> HIDE DEF ToC
    <3> QED
      BY <2>1
  <2> HIDE DEF m
  <2>3. m.type = "FILE_CHUNK_REQ" => idx \in Nat
    <3>1. m.type = "FILE_CHUNK_REQ" => m.first \in Int
      BY <2>2 DEF ChunkReq, Complete
    <3> QED
      BY <3>1, ToU16Type
  <2>4. m.type = "FILE_CHUNK_REQ" /\ Sendable(s, idx) => msg \in ToS
    BY <2>3, MessageTypes
  <2> HIDE DEF ToS, ToC, idx, msg
  <2>5. toServer' \in [Sessions -> Seq(ToS)]
    <3>1. CASE toServer' = toServer
      BY <1>1, <3>1
    <3>2. CASE toServer' # toServer
      <4>1. msg \in ToS /\ toServer' = [toServer EXCEPT ![s] = Append(@, msg)]
        BY <1>6, <2>4, <3>2 DEF ClientHandle, m, idx, msg
      <4> QED
        BY <1>1, <2>1, <4>1
    <3> QED
      BY <3>1, <3>2
  <2>6. toClient' \in [Sessions -> Seq(ToC)]
    BY <1>1, <1>6, <2>2 DEF ClientHandle
  <2>7. client_files' \in [Sessions -> SUBSET Names]
    BY <1>1, <1>6 DEF ClientHandle
  <2>8. NetTypeOK'
    BY <1>1, <1>6, <2>5, <2>6, <2>7 DEF ClientHandle
  <2> QED
    BY <1>2, <1>3, <1>6, <2>8 DEF ClientHandle
<1>7. ASSUME NEW s \in Sessions, ClientExit(s) \/ KillClient(s) PROVE TypeOK'
  <2>1. PICK state \in {"done", "dead"} : HangUp(s, state)
    BY <1>7 DEF ClientExit, KillClient
  <2>2. toServer' = toServer \/ toServer' = [toServer EXCEPT ![s] = <<>>]
    BY <1>7 DEF ClientExit, KillClient
  <2> HIDE DEF ToS, ToC
  <2>3. toServer' \in [Sessions -> Seq(ToS)]
    <3>1. <<>> \in Seq(ToS) /\ toServer \in [Sessions -> Seq(ToS)]
      BY <1>1
    <3> QED
      BY <2>2, <3>1, Zenon
  <2>4. toClient' \in [Sessions -> Seq(ToC)]
    BY <1>1, <2>1 DEF HangUp
  <2>5. st' \in [Sessions -> {"new", "run", "done", "dead"}]
    BY <1>1, <2>1 DEF HangUp
  <2>6. up' \in [Sessions -> BOOLEAN]
    BY <1>1, <2>1 DEF HangUp
  <2>7. NetTypeOK'
    BY <1>1, <2>1, <2>3, <2>4, <2>5, <2>6 DEF HangUp
  <2> QED
    BY <1>2, <1>3, <2>1, <2>7 DEF HangUp
<1>8. ASSUME NEW s \in Sessions, ServerReceive(s) PROVE TypeOK'
  <2> DEFINE m == Head(toServer[s])
  <2>1. toServer[s] \in Seq(ToS) /\ toServer[s] # <<>>
    BY <1>1, <1>8 DEF ServerReceive
  <2>2. m \in ToS /\ Tail(toServer[s]) \in Seq(ToS)
    <3> HIDE DEF ToS
    <3> QED
      BY <2>1
  <2> HIDE DEF m
  <2>3. [conn |-> s, msg |-> m] \in Requests
    BY <2>2 DEF Requests
  <2>4. sm_req_list' \in Seq(Requests)
    BY <1>1, <1>8, <2>3 DEF ServerReceive, m
  <2> HIDE DEF ToS, ToC
  <2>5. toServer' \in [Sessions -> Seq(ToS)]
    BY <1>1, <1>8, <2>2 DEF ServerReceive
  <2>6. NetTypeOK'
    BY <1>1, <1>8, <2>4, <2>5 DEF ServerReceive
  <2> QED
    BY <1>2, <1>3, <1>8, <2>6 DEF ServerReceive
<1>9. ASSUME NEW w \in Workers, TakeRequest(w) PROVE TypeOK'
  <2>1. sm_req_list \in Seq(Requests) /\ sm_req_list # <<>>
    BY <1>1, <1>9 DEF TakeRequest
  <2>2. Head(sm_req_list) \in Requests /\ Tail(sm_req_list) \in Seq(Requests)
    BY <2>1
  <2>3. wk' \in [Workers -> WorkerState]
    BY <1>1, <1>9, <2>2, StartRequestType DEF TakeRequest
  <2>4. RemoteTypeOK'
    BY <1>1, <1>9, <2>3 DEF TakeRequest, RemoteTypeOK
  <2> HIDE DEF ToS, ToC
  <2>5. NetTypeOK'
    BY <1>1, <1>9, <2>2 DEF TakeRequest
  <2> QED
    BY <1>2, <2>4, <2>5
<1>10. ASSUME NEW w \in Workers, Step(w) PROVE TypeOK'
  BY <1>1, <1>2, <1>4, <1>10, HandleStepType DEF Step
<1>11. ASSUME NEW w \in Workers, Respond(w) PROVE TypeOK'
  <2> DEFINE s == wk[w].conn
             m == IF wk[w].reply = "FILE_COMPLETE" THEN buildMsgComplete(wk[w].path)
                  ELSE buildMsgChunkReq(wk[w].path, wk[w].first)
  <2>1. wk[w] \in WorkerState
    BY <1>1 DEF RemoteTypeOK
  <2>2. s \in Sessions /\ wk[w].path \in Paths /\ wk[w].first \in Nat
    BY <2>1, TransferAssumption DEF WorkerState
  <2>3. m \in ToC
    BY <2>2, MessageTypes
  <2>4. toClient' = toClient \/ toClient' = [toClient EXCEPT ![s] = Append(@, m)]
    BY <1>11 DEF Respond
  <2> HIDE DEF ToS, ToC, s, m
  <2>5. toClient' \in [Sessions -> Seq(ToC)]
    <3>1. toClient[s] \in Seq(ToC) /\ toClient \in [Sessions -> Seq(ToC)]
      BY <1>1, <2>2
    <3>2. Append(toClient[s], m) \in Seq(ToC)
      BY <2>3, <3>1
    <3>3. CASE toClient' = [toClient EXCEPT ![s] = Append(toClient[s], m)]
      BY <3>1, <3>2, <3>3, Zenon
    <3> QED
      BY <2>2, <2>4, <3>1, <3>3
  <2>6. NetTypeOK'
    BY <1>1, <1>11, <2>5 DEF Respond
  <2>7. RemoteTypeOK'
    BY <1>1, <1>11, IdleWorkerType DEF Respond, RemoteTypeOK
  <2> QED
    BY <1>2, <2>6, <2>7
<1>12. CASE ServerCrash
  <2>1. crashes' \in 0..MaxCrashes
    BY <1>1, <1>12, TransferAssumption DEF ServerCrash
  <2> HIDE DEF ToS, ToC
  <2>2. PICK kept \in SUBSET Sessions :
           toClient' = [s \in Sessions |-> IF s \in kept THEN toClient[s] ELSE <<>>]
    BY <1>12 DEF ServerCrash
  <2>3. toClient' \in [Sessions -> Seq(ToC)]
    BY <1>1, <2>2
  <2>4. NetTypeOK'
    BY <1>1, <1>12, <2>1, <2>3 DEF ServerCrash
  <2>5. RemoteTypeOK'
    BY <1>1, <1>12, IdleWorkerType DEF ServerCrash, RemoteTypeOK
  <2> QED
    BY <1>2, <2>4, <2>5
<1>13. ASSUME NEW s \in Sessions, DropConnection(s) PROVE TypeOK'
  <2> HIDE DEF ToS, ToC
  <2>1. /\ <<>> \in Seq(ToS) /\ toServer \in [Sessions -> Seq(ToS)]
        /\ <<>> \in Seq(ToC) /\ toClient \in [Sessions -> Seq(ToC)]
    BY <1>1
  <2>2. toServer' \in [Sessions -> Seq(ToS)]
    BY <1>13, <2>1, Zenon DEF DropConnection
  <2>3. toClient' \in [Sessions -> Seq(ToC)]
    BY <1>13, <2>1, Zenon DEF DropConnection
  <2>4. up' \in [Sessions -> BOOLEAN]
    BY <1>1, <1>13 DEF DropConnection
  <2>5. NetTypeOK'
    BY <1>1, <1>13, <2>2, <2>3, <2>4 DEF DropConnection
  <2> QED
    BY <1>2, <1>3, <1>13, <2>5 DEF DropConnection
<1>14. CASE Finished \/ UNCHANGED vars
  BY <1>2, <1>3, <1>4, <1>14 DEF Finished, vars
<1> QED
  BY <1>5, <1>6, <1>7, <1>8, <1>9, <1>10, <1>11, <1>12, <1>13, <1>14 DEF Next

\* Files, workers, messages and requests keep their types, for any files, clients
\* and workers and any number of crashes: no header gets a size that was not
\* offered, and every message is one that the other side can read.
THEOREM TransferTypeCorrect == Spec => []TypeOK
<1>1. Init => TypeOK
  BY TransferTypeInit
<1>2. TypeOK /\ [Next]_vars => TypeOK'
  BY TransferTypeNext
<1> QED
  BY <1>1, <1>2, PTL DEF Spec

-----------------------------------------------------------------------------
(* Sequences and sets. Of the library's theorems on them only these few are *)
(* needed.                                                                   *)

\* The elements of a sequence.
LEMMA ElementOfSeq ==
    ASSUME NEW S, NEW q \in Seq(S), NEW n \in 1..Len(q)
    PROVE  q[n] \in S
OBVIOUS

\* The empty sequence is the one of length 0.
LEMMA EmptySeq ==
    ASSUME NEW S
    PROVE  /\ <<>> \in Seq(S) /\ Len(<<>>) = 0
           /\ \A q \in Seq(S) : q # <<>> => Len(q) \in Nat \ {0}
OBVIOUS

\* A sequence with an element is not empty.
LEMMA NotEmpty ==
    ASSUME NEW q, NEW i \in 1..Len(q)
    PROVE  q # <<>>
OBVIOUS

\* A sequence is a function on the numbers up to its length.
LEMMA LenProperties ==
    ASSUME NEW S, NEW q \in Seq(S)
    PROVE  Len(q) \in Nat /\ q \in [1..Len(q) -> S] /\ DOMAIN q = 1..Len(q)
OBVIOUS

\* Sequences with the same elements are the same.
LEMMA SeqEqual ==
    ASSUME NEW S, NEW q \in Seq(S), NEW r \in Seq(S),
           Len(q) = Len(r), \A i \in 1..Len(q) : q[i] = r[i]
    PROVE  q = r
OBVIOUS

\* The first element of a sequence and the others.
LEMMA HeadTailProperties ==
    ASSUME NEW S, NEW q \in Seq(S), q # <<>>
    PROVE  /\ Head(q) \in S /\ Tail(q) \in Seq(S) /\ Len(Tail(q)) = Len(q) - 1
           /\ \A i \in 1..Len(Tail(q)) : Tail(q)[i] = q[i + 1]
OBVIOUS

\* A part of a sequence.
LEMMA SubSeqProperties ==
    ASSUME NEW S, NEW q, NEW m \in Int, NEW n \in Int, \A i \in m..n : q[i] \in S
    PROVE  /\ SubSeq(q, m, n) \in Seq(S)
           /\ Len(SubSeq(q, m, n)) = IF m <= n THEN n - m + 1 ELSE 0
           /\ \A i \in 1..(n - m + 1) : SubSeq(q, m, n)[i] = q[m + i - 1]
OBVIOUS

\* Appending to a sequence.
LEMMA AppendFacts ==
    ASSUME NEW S, NEW q \in Seq(S), NEW x \in S
    PROVE  /\ Append(q, x) \in Seq(S)
           /\ Len(Append(q, x)) = Len(q) + 1
           /\ \A i \in 1..Len(Append(q, x)) :
                 Append(q, x)[i] = IF i = Len(q) + 1 THEN x ELSE q[i]
OBVIOUS

\* Removing the first element of a sequence.
LEMMA TailFacts ==
    ASSUME NEW S, NEW q \in Seq(S), q # <<>>
    PROVE  /\ Len(q) \in Nat \ {0}
           /\ 1 \in 1..Len(q)
           /\ Head(q) = q[1]
           /\ Len(Tail(q)) = Len(q) - 1
           /\ \A i \in 1..Len(Tail(q)) : i + 1 \in 1..Len(q) /\ Tail(q)[i] = q[i + 1]
<1>1. Len(q) \in Nat \ {0}
  BY EmptySeq
<1>2. Head(q) = q[1]
  BY <1>1
<1> QED
  BY <1>1, <1>2, HeadTailProperties

\* A sequence is empty when its length is 0, and one of at most one element is
\* empty without it.
LEMMA ShortSeq ==
    ASSUME NEW S, NEW q \in Seq(S)
    PROVE  /\ Len(q) \in Nat
           /\ q = <<>> <=> Len(q) = 0
           /\ q # <<>> /\ Len(q) <= 1 => Len(q) = 1 /\ Tail(q) = <<>>
<1>1. Len(q) \in Nat /\ (q # <<>> => Len(q) # 0)
  BY EmptySeq, LenProperties
<1>2. ASSUME q # <<>>, Len(q) <= 1 PROVE Len(q) = 1 /\ Tail(q) = <<>>
  <2>1. Len(q) = 1
    <3>1. Len(q) \in Nat /\ Len(q) # 0 /\ Len(q) <= 1
      BY <1>1, <1>2, Zenon
    <3>2. \A n \in Nat : n # 0 /\ n <= 1 => n = 1
      OBVIOUS
    <3> QED
      BY <3>1, <3>2, Zenon
  <2>2. Tail(q) \in Seq(S) /\ Len(Tail(q)) = Len(q) - 1
    BY <1>2, HeadTailProperties
  <2>3. Len(Tail(q)) = 0
    BY <2>1, <2>2
  <2>4. Tail(q) = <<>>
    BY <2>2, <2>3, EmptySeq, Zenon
  <2> QED
    BY <2>1, <2>4
<1>3. q = <<>> => Len(q) = 0
  BY EmptySeq
<1>4. Len(q) = 0 => q = <<>>
  BY <1>1
<1> QED
  BY <1>1, <1>2, <1>3, <1>4, Zenon

\* The number of elements of the empty set, and of a set of one element.
LEMMA SmallSets ==
    /\ Cardinality({}) = 0
    /\ \A x : Cardinality({x}) = 1
<1>1. Cardinality({}) = 0
  BY Zenon DEF Cardinality
<1>2. ASSUME NEW x PROVE Cardinality({x}) = 1
  <2> DEFINE F(CS) == CS = [T \in SUBSET {x} |->
                              IF T = {} THEN 0 ELSE 1 + CS[T \ {CHOOSE y : y \in T}]]
             CS == CHOOSE f : F(f)
             G == [T \in SUBSET {x} |-> IF T = {} THEN 0 ELSE 1]
  <2>1. F(G)
    <3>1. ASSUME NEW T \in SUBSET {x}, T # {} PROVE 1 + G[T \ {CHOOSE y : y \in T}] = 1
      <4>1. T = {x} /\ (CHOOSE y : y \in T) = x
        BY <3>1
      <4>2. T \ {CHOOSE y : y \in T} = {}
        BY <4>1
      <4> QED
        BY <4>2
    <3> QED
      BY <3>1
  <2>2. F(CS)
    BY <2>1, Zenon
  <2>3. CS[{x}] = 1
    <3>1. CS[{}] = 0
      BY <2>2, Zenon
    <3>2. (CHOOSE y : y \in {x}) = x /\ {x} \ {x} = {}
      OBVIOUS
    <3>3. CS[{x}] = 1 + CS[{x} \ {CHOOSE y : y \in {x}}]
      BY <2>2, Zenon
    <3> QED
      BY <3>1, <3>2, <3>3
  <2> QED
    BY <2>3 DEF Cardinality
<1> QED
  BY <1>1, <1>2

-----------------------------------------------------------------------------
(* Steps of the workers. *)

\* The types of what a worker is doing.
LEMMA WorkerTypes ==
    ASSUME TypeOK, NEW w \in Workers
    PROVE  /\ wk[w] \in WorkerState
           /\ wk[w].conn \in Sessions /\ wk[w].path \in Paths
           /\ wk[w].size \in Nat /\ wk[w].hash \in FileBytes
           /\ wk[w].idx \in Nat /\ wk[w].payload \in FileBytes
           /\ wk[w].op \in Ops /\ wk[w].reply \in Replies
<1>1. wk[w] \in WorkerState
  BY DEF TypeOK, RemoteTypeOK
<1> QED
  BY <1>1, TransferAssumption, HeaderSizesType, Zenon DEF WorkerState

\* An idle worker is idle.
LEMMA IdlePc == IdleWorker.pc = "idle"
BY DEF IdleWorker

\* A step of a worker that handles a request changes that worker, which stays with
\* its request or gives it up, and no file but those of the request's path.
LEMMA StepFrame ==
    ASSUME TypeOK, NEW w \in Workers, Step(w)
    PROVE  /\ UNCHANGED <<st, client_files, up, toServer, toClient, sm_req_list>>
           /\ Busy(w)
           /\ \A v \in Workers : v # w => wk'[v] = wk[v]
           /\ Busy(w)' => /\ wk'[w].conn = wk[w].conn /\ wk'[w].path = wk[w].path
                          /\ wk'[w].op = wk[w].op /\ wk'[w].idx = wk[w].idx
                          /\ wk'[w].payload = wk[w].payload
           /\ \A p \in Paths : p # wk[w].path => meta'[p] = meta[p] /\ data'[p] = data[p]
<1>1. wk[w] \in WorkerState /\ wk \in [Workers -> WorkerState]
      /\ meta \in [Paths -> MetaFile] /\ data \in [Paths -> DataFile]
  BY DEF TypeOK, RemoteTypeOK
<1>2. UNCHANGED <<st, client_files, up, toServer, toClient, sm_req_list>>
  BY DEF Step, netVars
<1>3. HandleStep(w)
  BY DEF Step
<1>4. Busy(w)
  BY <1>3, ZenonT(40) DEF HandleStep, ReadHeader, MetaExists, MetaOpen, MetaWrite, FileExists,
     FileOpen, FileExtend, SaveChunk, MarkRead, MarkWrite, Scan, CheckHash,
     RequestNext, At, Busy
<1>5. \A p \in Paths : p # wk[w].path => meta'[p] = meta[p] /\ data'[p] = data[p]
  <2>1. CASE UNCHANGED <<meta, data>>
    BY <2>1
  <2>2. CASE MetaOpen(w) \/ MetaWrite(w) \/ MarkWrite(w)
    BY <1>1, <2>2, Zenon DEF MetaOpen, MetaWrite, MarkWrite
  <2>3. CASE FileOpen(w) \/ FileExtend(w) \/ SaveChunk(w)
    BY <1>1, <2>3 DEF FileOpen, FileExtend, SaveChunk
  <2> QED
    BY <1>3, <2>1, <2>2, <2>3 DEF HandleStep, ReadHeader, MetaExists, FileExists,
       MarkRead, Scan, CheckHash, RequestNext
<1>6. \E r : /\ wk' = [wk EXCEPT ![w] = r]
             /\ \/ r.pc = "idle"
                \/ /\ r.conn = wk[w].conn /\ r.path = wk[w].path /\ r.op = wk[w].op
                   /\ r.idx = wk[w].idx /\ r.payload = wk[w].payload
  <2> DEFINE Same(r) ==
               \/ r.pc = "idle"
               \/ /\ r.conn = wk[w].conn /\ r.path = wk[w].path /\ r.op = wk[w].op
                  /\ r.idx = wk[w].idx /\ r.payload = wk[w].payload
  <2>1. ASSUME NEW pc, Goto(w, pc)
        PROVE  \E r : wk' = [wk EXCEPT ![w] = r] /\ Same(r)
    <3> WITNESS [wk[w] EXCEPT !.pc = pc]
    <3> QED
      BY <1>1, <2>1 DEF Goto, WorkerState
  <2>2. CASE ReadHeader(w)
    <3> DEFINE m == meta[wk[w].path]
               r == IF m.chunk_size > 0
                    THEN [wk[w] EXCEPT !.pc = "metaExists", !.size = m.size,
                                       !.hash = m.hash]
                    ELSE IdleWorker
    <3>1. wk' = [wk EXCEPT ![w] = r]
      BY <1>1, <2>2 DEF ReadHeader
    <3>2. Same(r)
      BY <1>1 DEF WorkerState, IdleWorker
    <3> QED
      BY <3>1, <3>2, Zenon
  <2>3. CASE MarkRead(w)
    <3> DEFINE k == ByteOf(wk[w].idx)
               b == meta[wk[w].path].bitmap
               r == IF k \in DOMAIN b
                    THEN [wk[w] EXCEPT !.pc = "markWrite", !.byte = b[k]]
                    ELSE [wk[w] EXCEPT !.pc = "scan"]
    <3>1. wk' = [wk EXCEPT ![w] = r]
      BY <1>1, <2>3 DEF MarkRead
    <3>2. Same(r)
      BY <1>1 DEF WorkerState
    <3> QED
      BY <3>1, <3>2, Zenon
  <2>4. CASE MarkWrite(w)
    <3> DEFINE r == [wk[w] EXCEPT !.pc = "scan", !.byte = {}]
    <3>1. wk' = [wk EXCEPT ![w] = r]
      BY <1>1, <2>4, Zenon DEF MarkWrite
    <3>2. Same(r)
      BY <1>1 DEF WorkerState
    <3> QED
      BY <3>1, <3>2, Zenon
  <2>5. CASE CheckHash(w)
    <3> DEFINE r == IF data[wk[w].path].bytes = wk[w].hash
                    THEN [wk[w] EXCEPT !.pc = "reply", !.reply = "FILE_COMPLETE"]
                    ELSE [wk[w] EXCEPT !.pc = "next"]
    <3>1. wk' = [wk EXCEPT ![w] = r]
      BY <1>1, <2>5 DEF CheckHash
    <3>2. Same(r)
      BY <1>1 DEF WorkerState
    <3> QED
      BY <3>1, <3>2, Zenon
  <2>6. CASE RequestNext(w)
    <3> DEFINE r == [wk[w] EXCEPT !.pc = "reply", !.reply = "FILE_CHUNK_REQ",
                                  !.first = ToU16(NextMissing(w))]
    <3>1. wk' = [wk EXCEPT ![w] = r]
      BY <1>1, <2>6, Zenon DEF RequestNext
    <3>2. Same(r)
      BY <1>1 DEF WorkerState
    <3> QED
      BY <3>1, <3>2, Zenon
  <2> QED
    BY <1>3, <2>1, <2>2, <2>3, <2>4, <2>5, <2>6, Zenon DEF HandleStep, MetaExists,
       MetaOpen, MetaWrite, FileExists, FileOpen, FileExtend, SaveChunk, Scan
<1> QED
  BY <1>1, <1>2, <1>4, <1>5, <1>6 DEF Busy

-----------------------------------------------------------------------------
(* One message of a session at a time. *)

\* The types of the network and the queue.
LEMMA NetTypes ==
    ASSUME TypeOK
    PROVE  /\ \A s \in Sessions : /\ toServer[s] \in Seq(Offer \cup ChunkData)
                                  /\ toClient[s] \in Seq(ChunkReq \cup Complete)
           /\ sm_req_list \in Seq(Requests)
           /\ \A i \in 1..Len(sm_req_list) :
                 /\ sm_req_list[i].conn \in Sessions
                 /\ sm_req_list[i].msg \in Offer \cup ChunkData
<1>1. sm_req_list \in Seq(Requests)
  BY DEF TypeOK
<1>2. \A i \in 1..Len(sm_req_list) : sm_req_list[i] \in Requests
  BY <1>1, ElementOfSeq
<1> QED
  BY <1>1, <1>2 DEF TypeOK, Requests

\* A worker that takes a request handles that request, for its session.
LEMMA TakeFrame ==
    ASSUME TypeOK, NEW w \in Workers, TakeRequest(w)
    PROVE  /\ ~Busy(w) /\ Busy(w)'
           /\ \A v \in Workers : v # w => wk'[v] = wk[v]
           /\ wk'[w].conn = sm_req_list[1].conn
           /\ 1 \in 1..Len(sm_req_list)
           /\ Len(sm_req_list') = Len(sm_req_list) - 1
           /\ \A i \in 1..Len(sm_req_list') :
                 i + 1 \in 1..Len(sm_req_list) /\ sm_req_list'[i] = sm_req_list[i + 1]
<1>1. sm_req_list \in Seq(Requests) /\ sm_req_list # <<>>
  BY NetTypes DEF TakeRequest
<1>2. /\ 1 \in 1..Len(sm_req_list)
      /\ Head(sm_req_list) = sm_req_list[1]
      /\ Len(sm_req_list') = Len(sm_req_list) - 1
      /\ \A i \in 1..Len(sm_req_list') :
            i + 1 \in 1..Len(sm_req_list) /\ sm_req_list'[i] = sm_req_list[i + 1]
  BY <1>1, TailFacts DEF TakeRequest
<1>3. wk \in [Workers -> WorkerState] /\ IdleWorker \in WorkerState
  BY IdleWorkerType DEF TypeOK, RemoteTypeOK
<1>4. StartRequest(w, sm_req_list[1])
  BY <1>2 DEF TakeRequest
<1> DEFINE req == sm_req_list[1]
<1>5. \E r : wk' = [wk EXCEPT ![w] = r] /\ r.conn = req.conn /\ r.pc # "idle"
  <2>1. CASE req.msg.type = "FILE_OFFER"
    <3> DEFINE r == [IdleWorker EXCEPT !.pc = "metaExists", !.conn = req.conn,
                        !.op = "FILE_OFFER", !.path = <<req.msg.uuid, req.msg.name>>,
                        !.size = req.msg.size, !.hash = req.msg.hash]
    <3>1. wk' = [wk EXCEPT ![w] = r]
      BY <1>4, <2>1 DEF StartRequest, StartOffer
    <3>2. r.conn = req.conn /\ r.pc # "idle"
      BY <1>3 DEF WorkerState
    <3> QED
      BY <3>1, <3>2, Zenon
  <2>2. CASE req.msg.type # "FILE_OFFER"
    <3> DEFINE r == [IdleWorker EXCEPT !.pc = "readHeader", !.conn = req.conn,
                        !.op = "FILE_CHUNK_DATA", !.path = <<req.msg.uuid, req.msg.name>>,
                        !.idx = req.msg.idx, !.payload = req.msg.data]
    <3>1. wk' = [wk EXCEPT ![w] = r]
      BY <1>4, <2>2 DEF StartRequest, StartChunkData
    <3>2. r.conn = req.conn /\ r.pc # "idle"
      BY <1>3 DEF WorkerState
    <3> QED
      BY <3>1, <3>2, Zenon
  <2> QED
    BY <2>1, <2>2
<1>6. ~Busy(w)
  BY DEF TakeRequest
<1> HIDE DEF req
<1>7. Busy(w)' /\ wk'[w].conn = req.conn /\ \A v \in Workers : v # w => wk'[v] = wk[v]
  BY <1>3, <1>5 DEF Busy
<1> QED
  BY <1>2, <1>6, <1>7 DEF req

\* Initially there are no messages.
LEMMA TokenInit == Init => TokenInv
BY DEF Init, RemoteInit, TokenInv, NetToken, QueueToken, WorkerToken, Busy, IdleWorker

\* No step makes a second message of a session: each passes on the one there is,
\* answers it or loses it.
LEMMA TokenNext ==
    ASSUME TypeOK, TokenInv, [Next]_vars
    PROVE  TokenInv'
<1>1. ASSUME NEW s \in Sessions, StartSession(s) PROVE TokenInv'
  <2>1. /\ \A t \in Sessions :
              t # s => st'[t] = st[t] /\ up'[t] = up[t] /\ toServer'[t] = toServer[t]
        /\ st'[s] = "run"
        /\ toServer'[s] = Append(toServer[s], buildMsgOffer(s))
        /\ UNCHANGED <<toClient, wk, sm_req_list>>
    BY <1>1 DEF StartSession, TypeOK
  <2>2. toServer[s] = <<>> /\ toClient[s] = <<>> /\ st[s] = "new"
    BY <1>1 DEF StartSession, TokenInv, NetToken
  <2>3. Len(toServer'[s]) = 1
    BY <2>1, <2>2
  <2>4. \A t \in Sessions : NetToken(t)'
    <3>1. NetToken(s)'
      BY <2>1, <2>2, <2>3 DEF NetToken
    <3>2. ASSUME NEW t \in Sessions, t # s PROVE NetToken(t)'
      BY <2>1, <3>2 DEF TokenInv, NetToken
    <3> QED
      BY <3>1, <3>2
  <2>5. \A t \in Sessions : AtServer(t) => AtServer(t)'
    BY <2>1, <2>2 DEF AtServer
  <2>6. \A i \in 1..Len(sm_req_list) : QueueToken(i)'
    BY <2>1, <2>5, NetTypes DEF TokenInv, QueueToken
  <2>7. \A w \in Workers : WorkerToken(w)'
    BY <2>1, <2>5, WorkerTypes DEF TokenInv, WorkerToken, Busy
  <2> QED
    BY <2>1, <2>4, <2>6, <2>7 DEF TokenInv
<1>2. ASSUME NEW s \in Sessions, ClientHandle(s) PROVE TokenInv'
  <2>1. /\ \A t \in Sessions : t # s => toServer'[t] = toServer[t] /\ toClient'[t] = toClient[t]
        /\ toClient'[s] = Tail(toClient[s])
        /\ UNCHANGED <<st, up, wk, sm_req_list>>
        /\ st[s] = "run" /\ toClient[s] # <<>>
    BY <1>2 DEF ClientHandle, TypeOK
  <2>2. toClient'[s] = <<>> /\ toServer[s] = <<>>
    BY <2>1, ShortSeq, NetTypes DEF TokenInv, NetToken
  <2>3. toServer'[s] = toServer[s] \/ \E m : toServer'[s] = Append(toServer[s], m)
    BY <1>2 DEF ClientHandle, TypeOK
  <2>4. Len(toServer'[s]) <= 1
    <3>1. Len(<<>>) = 0
      BY EmptySeq
    <3>2. ASSUME NEW m PROVE Len(Append(<<>>, m)) = 1
      <4>1. <<>> \in Seq({m})
        BY EmptySeq
      <4> QED
        BY <3>1, <4>1, AppendFacts
    <3>3. Len(toServer'[s]) = 0 \/ Len(toServer'[s]) = 1
      BY <2>2, <2>3, <3>1, <3>2, Zenon
    <3>4. \A k \in Nat : k = 0 \/ k = 1 => k <= 1
      OBVIOUS
    <3>5. 0 \in Nat /\ 1 \in Nat
      OBVIOUS
    <3> QED
      BY <3>3, <3>4, <3>5, Zenon
  <2>5. \A t \in Sessions : NetToken(t)'
    BY <2>1, <2>2, <2>4 DEF TokenInv, NetToken
  <2>6. \A t \in Sessions : AtServer(t) => AtServer(t)'
    BY <2>1 DEF AtServer
  <2>7. \A i \in 1..Len(sm_req_list) : QueueToken(i)'
    BY <2>1, <2>6, NetTypes DEF TokenInv, QueueToken
  <2>8. \A w \in Workers : WorkerToken(w)'
    BY <2>1, <2>6, WorkerTypes DEF TokenInv, WorkerToken, Busy
  <2> QED
    BY <2>1, <2>5, <2>7, <2>8 DEF TokenInv
<1>3. ASSUME NEW s \in Sessions, ClientExit(s) \/ KillClient(s) \/ DropConnection(s)
      PROVE  TokenInv'
  <2>1. /\ \A t \in Sessions :
              /\ st[t] # "new" => st'[t] # "new"
              /\ st[t] = "new" <=> st'[t] = "new"
              /\ toServer'[t] \in {toServer[t], <<>>}
              /\ toClient'[t] \in {toClient[t], <<>>}
              /\ up'[t] \/ toClient'[t] # <<>> => st'[t] = "run"
        /\ UNCHANGED <<wk, sm_req_list>>
    <3>1. CASE ClientExit(s) \/ KillClient(s)
      <4>1. PICK state \in {"done", "dead"} : HangUp(s, state) /\ st[s] = "run"
        BY <3>1 DEF ClientExit, KillClient
      <4>2. /\ \A t \in Sessions :
                  /\ st'[t] = IF t = s THEN state ELSE st[t]
                  /\ up'[t] = IF t = s THEN FALSE ELSE up[t]
                  /\ toClient'[t] = IF t = s THEN <<>> ELSE toClient[t]
            /\ UNCHANGED <<wk, sm_req_list>>
        BY <4>1 DEF HangUp, TypeOK
      <4>3. \A t \in Sessions : toServer'[t] \in {toServer[t], <<>>}
        BY <3>1 DEF ClientExit, KillClient, TypeOK
      <4> QED
        BY <4>1, <4>2, <4>3, Zenon DEF TokenInv, NetToken
    <3>2. CASE DropConnection(s)
      <4>1. /\ \A t \in Sessions : up'[t] = IF t = s THEN FALSE ELSE up[t]
            /\ UNCHANGED <<wk, sm_req_list, st>>
        BY <3>2 DEF DropConnection, TypeOK
      <4>2. \A t \in Sessions : /\ toServer'[t] \in {toServer[t], <<>>}
                                /\ toClient'[t] \in {toClient[t], <<>>}
        BY <3>2 DEF DropConnection, TypeOK
      <4> QED
        BY <4>1, <4>2, ZenonT(40) DEF TokenInv, NetToken
    <3> QED
      BY <1>3, <3>1, <3>2
  <2>2. \A t \in Sessions : NetToken(t)'
    BY <2>1 DEF TokenInv, NetToken
  <2>3. \A t \in Sessions : AtServer(t) => AtServer(t)'
    BY <2>1 DEF AtServer
  <2>4. \A i \in 1..Len(sm_req_list) : QueueToken(i)'
    BY <2>1, <2>3, NetTypes DEF TokenInv, QueueToken
  <2>5. \A w \in Workers : WorkerToken(w)'
    BY <2>1, <2>3, WorkerTypes DEF TokenInv, WorkerToken, Busy
  <2> QED
    BY <2>1, <2>2, <2>4, <2>5 DEF TokenInv
<1>4. ASSUME NEW s \in Sessions, ServerReceive(s) PROVE TokenInv'
  <2> DEFINE n == Len(sm_req_list)
             Ready(t) == st'[t] # "new" /\ toServer'[t] = <<>> /\ toClient'[t] = <<>>
  <2>1. /\ \A t \in Sessions : t # s => toServer'[t] = toServer[t]
        /\ toServer'[s] = Tail(toServer[s])
        /\ toServer[s] # <<>>
        /\ UNCHANGED <<st, up, wk, toClient>>
    BY <1>4 DEF ServerReceive, TypeOK
  <2>2. toServer'[s] = <<>> /\ toClient[s] = <<>> /\ st[s] # "new"
    BY <2>1, ShortSeq, NetTypes DEF TokenInv, NetToken
  <2>3. Head(toServer[s]) \in Offer \cup ChunkData
    BY <2>1, NetTypes, HeadTailProperties
  <2>4. [conn |-> s, msg |-> Head(toServer[s])] \in Requests
    BY <2>3 DEF Requests
  <2>5. /\ Len(sm_req_list') = n + 1 /\ n \in Nat
        /\ \A i \in 1..(n + 1) : sm_req_list'[i].conn = IF i = n + 1 THEN s
                                                        ELSE sm_req_list[i].conn
    <3>1. sm_req_list' = Append(sm_req_list, [conn |-> s, msg |-> Head(toServer[s])])
      BY <1>4 DEF ServerReceive
    <3>2. n \in Nat
      BY NetTypes, LenProperties
    <3> QED
      BY <2>4, <3>1, <3>2, NetTypes, AppendFacts
  <2> HIDE DEF n
  <2>6. Len(toServer'[s]) = 0
    BY <2>2, EmptySeq
  <2>7. \A t \in Sessions : NetToken(t)'
    <3>1. NetToken(s)'
      BY <2>1, <2>2, <2>6 DEF TokenInv, NetToken
    <3>2. ASSUME NEW t \in Sessions, t # s PROVE NetToken(t)'
      BY <2>1, <3>2 DEF TokenInv, NetToken
    <3> QED
      BY <3>1, <3>2
  <2>8. \A t \in Sessions : AtServer(t) => Ready(t) /\ t # s
    BY <2>1, <2>2 DEF AtServer
  <2>9. Ready(s)
    BY <2>1, <2>2, Zenon DEF AtServer
  <2> HIDE DEF Ready
  <2>10. \A i \in 1..n : AtServer(sm_req_list[i].conn) /\ sm_req_list[i].conn # s
    BY <2>8, NetTypes DEF TokenInv, QueueToken, n
  <2>11. \A i \in 1..(n + 1) : QueueToken(i)'
    <3> SUFFICES ASSUME NEW i \in 1..(n + 1) PROVE QueueToken(i)'
      OBVIOUS
    <3>1. Ready(sm_req_list'[i].conn)
      BY <2>5, <2>8, <2>9, <2>10, NetTypes DEF n
    <3>2. ASSUME NEW j \in 1..(n + 1), sm_req_list'[i].conn = sm_req_list'[j].conn
          PROVE  i = j
      BY <2>5, <2>10, <3>2 DEF TokenInv, QueueToken, n
    <3> QED
      BY <2>5, <3>1, <3>2 DEF QueueToken, AtServer, Ready
  <2>12. \A w \in Workers : WorkerToken(w)'
    <3> SUFFICES ASSUME NEW w \in Workers, Busy(w) PROVE WorkerToken(w)'
      BY <2>1 DEF WorkerToken, Busy
    <3>1. AtServer(wk[w].conn) /\ wk[w].conn # s /\ Ready(wk'[w].conn)
      BY <2>1, <2>8, WorkerTypes DEF TokenInv, WorkerToken
    <3>2. \A i \in 1..(n + 1) : sm_req_list'[i].conn # wk[w].conn
      BY <2>5, <3>1 DEF TokenInv, WorkerToken, n
    <3>3. \A v \in Workers : Busy(v) /\ wk[v].conn = wk[w].conn => v = w
      BY DEF TokenInv, WorkerToken
    <3> QED
      BY <2>1, <2>5, <3>1, <3>2, <3>3 DEF WorkerToken, Busy, AtServer, Ready
  <2> QED
    BY <2>5, <2>7, <2>11, <2>12 DEF TokenInv
<1>5. ASSUME NEW w \in Workers, TakeRequest(w) PROVE TokenInv'
  <2> DEFINE n == Len(sm_req_list)
             Ready(t) == st'[t] # "new" /\ toServer'[t] = <<>> /\ toClient'[t] = <<>>
  <2>1. UNCHANGED <<st, up, toServer, toClient>>
    BY <1>5 DEF TakeRequest
  <2>2. \A t \in Sessions : NetToken(t)' /\ (AtServer(t) => Ready(t))
    BY <2>1 DEF TokenInv, NetToken, AtServer
  <2>3. n \in Nat /\ 1 \in 1..n /\ Len(sm_req_list') = n - 1
        /\ \A i \in 1..(n - 1) : i + 1 \in 1..n /\ sm_req_list'[i] = sm_req_list[i + 1]
    BY <1>5, TakeFrame, NetTypes, LenProperties
  <2> HIDE DEF n, Ready
  <2>4. \A i \in 1..n : /\ Ready(sm_req_list[i].conn)
                        /\ \A j \in 1..n : sm_req_list[i].conn = sm_req_list[j].conn => i = j
    BY <2>2, NetTypes DEF TokenInv, QueueToken, n
  <2>5. \A i \in 1..(n - 1) : QueueToken(i)'
    <3> SUFFICES ASSUME NEW i \in 1..(n - 1) PROVE QueueToken(i)'
      OBVIOUS
    <3>1. Ready(sm_req_list'[i].conn)
      BY <2>3, <2>4
    <3>2. ASSUME NEW j \in 1..(n - 1), sm_req_list'[i].conn = sm_req_list'[j].conn
          PROVE  i = j
      <4>1. i + 1 \in 1..n /\ j + 1 \in 1..n
            /\ sm_req_list[i + 1].conn = sm_req_list[j + 1].conn
        BY <2>3, <3>2
      <4>2. i + 1 = j + 1
        BY <2>4, <4>1, Zenon
      <4> QED
        BY <2>3, <4>2
    <3> QED
      BY <2>3, <3>1, <3>2 DEF QueueToken, AtServer, Ready
  <2>6. /\ ~Busy(w) /\ wk'[w].conn = sm_req_list[1].conn
        /\ \A v \in Workers : v # w => wk'[v] = wk[v]
    BY <1>5, TakeFrame
  <2>7. \A i \in 1..(n - 1) : sm_req_list'[i].conn # wk'[w].conn
    BY <2>3, <2>4, <2>6
  <2>8. \A v \in Workers : Busy(v) => wk[v].conn # wk'[w].conn
    BY <2>3, <2>6 DEF TokenInv, WorkerToken, n
  <2>9. \A v \in Workers : v # w => (Busy(v)' <=> Busy(v))
    BY <2>6 DEF Busy
  <2>10. WorkerToken(w)'
    <3>1. Ready(wk'[w].conn)
      BY <2>3, <2>4, <2>6
    <3>2. \A v \in Workers : Busy(v)' /\ wk'[v].conn = wk'[w].conn => v = w
      BY <2>6, <2>8, <2>9
    <3> QED
      BY <2>3, <2>7, <3>1, <3>2 DEF WorkerToken, AtServer, Ready
  <2>11. ASSUME NEW v \in Workers, v # w, Busy(v) PROVE WorkerToken(v)'
    <3>1. Ready(wk'[v].conn)
      BY <2>2, <2>6, <2>11, WorkerTypes DEF TokenInv, WorkerToken
    <3>2. \A i \in 1..(n - 1) : sm_req_list'[i].conn # wk'[v].conn
      BY <2>3, <2>6, <2>11 DEF TokenInv, WorkerToken, n
    <3>3. \A x \in Workers : Busy(x)' /\ wk'[x].conn = wk'[v].conn => x = v
      BY <2>6, <2>8, <2>9, <2>11 DEF TokenInv, WorkerToken
    <3> QED
      BY <2>3, <3>1, <3>2, <3>3 DEF WorkerToken, AtServer, Ready
  <2>12. \A v \in Workers : WorkerToken(v)'
    BY <2>9, <2>10, <2>11 DEF WorkerToken
  <2> QED
    BY <2>2, <2>3, <2>5, <2>12 DEF TokenInv
<1>6. ASSUME NEW w \in Workers, Step(w) PROVE TokenInv'
  <2>1. /\ UNCHANGED <<st, up, toServer, toClient, sm_req_list>>
        /\ Busy(w)
        /\ \A v \in Workers : v # w => wk'[v] = wk[v]
        /\ Busy(w)' => wk'[w].conn = wk[w].conn
    BY <1>6, StepFrame, Zenon
  <2>2. \A v \in Workers : Busy(v)' => Busy(v) /\ wk'[v].conn = wk[v].conn
    BY <2>1 DEF Busy
  <2>3. \A t \in Sessions : NetToken(t)'
    BY <2>1 DEF TokenInv, NetToken
  <2>4. \A i \in 1..Len(sm_req_list) : QueueToken(i)'
    BY <2>1 DEF TokenInv, QueueToken, AtServer
  <2>5. \A v \in Workers : WorkerToken(v)'
    BY <2>1, <2>2 DEF TokenInv, WorkerToken, AtServer
  <2> QED
    BY <2>1, <2>3, <2>4, <2>5 DEF TokenInv
<1>7. ASSUME NEW w \in Workers, Respond(w) PROVE TokenInv'
  <2>0. PICK s \in Sessions : s = wk[w].conn
    BY WorkerTypes
  <2>1. /\ UNCHANGED <<st, up, toServer, sm_req_list>>
        /\ Busy(w)
        /\ \A t \in Sessions : t # s => toClient'[t] = toClient[t]
        /\ \/ toClient' = toClient
           \/ up[s] /\ \E m : toClient'[s] = Append(toClient[s], m)
    BY <1>7, <2>0 DEF Respond, At, Busy, TypeOK
  <2>2. \A v \in Workers : wk'[v] = IF v = w THEN IdleWorker ELSE wk[v]
    BY <1>7 DEF Respond, TypeOK, RemoteTypeOK
  <2>3. ~Busy(w)' /\ \A v \in Workers : v # w => (Busy(v)' <=> Busy(v))
    BY <2>2, IdlePc DEF Busy
  <2>4. AtServer(s) /\ (\A v \in Workers : v # w /\ Busy(v) => wk[v].conn # s)
        /\ \A i \in 1..Len(sm_req_list) : sm_req_list[i].conn # s
    BY <2>0, <2>1 DEF TokenInv, WorkerToken
  <2>5. NetToken(s)'
    <3>1. CASE toClient' = toClient
      BY <2>1, <3>1 DEF TokenInv, NetToken
    <3>2. CASE toClient' # toClient
      <4>1. PICK m : toClient'[s] = Append(toClient[s], m)
        BY <2>1, <3>2, ZenonT(40)
      <4>2. toClient[s] = <<>> /\ toServer'[s] = <<>> /\ up[s]
        BY <2>1, <2>4, <3>2 DEF AtServer
      <4>3. <<>> \in Seq({m}) /\ Len(<<>>) = 0
        BY EmptySeq
      <4>4. Len(toClient'[s]) = 1 /\ Len(toServer'[s]) = 0
        BY <4>1, <4>2, <4>3, AppendFacts
      <4>5. st'[s] = "run"
        BY <2>1, <4>2 DEF TokenInv, NetToken
      <4> QED
        BY <4>2, <4>4, <4>5 DEF NetToken
    <3> QED
      BY <3>1, <3>2
  <2>6. ASSUME NEW t \in Sessions, t # s PROVE NetToken(t)' /\ (AtServer(t)' <=> AtServer(t))
    BY <2>1, <2>6 DEF TokenInv, NetToken, AtServer
  <2>7. \A i \in 1..Len(sm_req_list) : QueueToken(i)'
    <3> SUFFICES ASSUME NEW i \in 1..Len(sm_req_list) PROVE QueueToken(i)'
      OBVIOUS
    <3>1. sm_req_list[i].conn \in Sessions /\ sm_req_list[i].conn # s
      BY <2>4, NetTypes
    <3>2. AtServer(sm_req_list[i].conn)
      BY DEF TokenInv, QueueToken
    <3> QED
      BY <2>1, <3>1, <3>2 DEF TokenInv, QueueToken, AtServer
  <2>8. ASSUME NEW v \in Workers, v # w, Busy(v) PROVE WorkerToken(v)'
    <3>1. wk[v].conn \in Sessions /\ wk[v].conn # s /\ wk'[v] = wk[v]
      BY <2>2, <2>4, <2>8, WorkerTypes
    <3>2. AtServer(wk[v].conn)
      BY <2>8 DEF TokenInv, WorkerToken
    <3> QED
      BY <2>1, <2>2, <2>3, <2>8, <3>1, <3>2 DEF TokenInv, WorkerToken, AtServer
  <2> QED
    BY <2>1, <2>3, <2>5, <2>6, <2>7, <2>8 DEF TokenInv, WorkerToken
<1>8. CASE ServerCrash
  <2>1. /\ UNCHANGED st /\ sm_req_list' = <<>>
        /\ \A w \in Workers : wk'[w] = IdleWorker
        /\ \A s \in Sessions : /\ ~up'[s] /\ toServer'[s] = <<>>
                                /\ toClient'[s] \in {toClient[s], <<>>}
    BY <1>8 DEF ServerCrash, TypeOK
  <2>2. \A s \in Sessions : NetToken(s)'
    BY <2>1, EmptySeq DEF TokenInv, NetToken
  <2>3. \A w \in Workers : WorkerToken(w)'
    BY <2>1, IdlePc DEF WorkerToken, Busy
  <2>4. Len(sm_req_list') = 0
    BY <2>1, EmptySeq
  <2> QED
    BY <2>2, <2>3, <2>4 DEF TokenInv
<1>9. CASE UNCHANGED vars
  BY <1>9 DEF vars, netVars, TokenInv, NetToken, QueueToken, WorkerToken, AtServer, Busy
<1> QED
  BY <1>1, <1>2, <1>3, <1>4, <1>5, <1>6, <1>7, <1>8, <1>9 DEF Next, Finished

\* The messages of a session are never more than one.
THEOREM TokenCorrect == Spec => []TokenInv
<1>1. TypeOK /\ TokenInv /\ [Next]_vars => TokenInv'
  BY TokenNext
<1> QED
  BY <1>1, TokenInit, TransferTypeCorrect, PTL DEF Spec

\* The invariant bounds what a session has in the queue and at the workers.
LEMMA TokenCounts ==
    ASSUME TypeOK, TokenInv
    PROVE  OneOutstanding
<1> SUFFICES ASSUME NEW s \in Sessions
             PROVE  Len(toServer[s]) + Len(toClient[s]) + Cardinality(Queued(s))
                        + Cardinality(Handling(s)) <= 1
  BY Zenon DEF OneOutstanding
<1>1. /\ Len(toServer[s]) \in Nat /\ Len(toClient[s]) \in Nat
      /\ toServer[s] = <<>> <=> Len(toServer[s]) = 0
      /\ toClient[s] = <<>> <=> Len(toClient[s]) = 0
  BY NetTypes, ShortSeq
<1>2. Len(toServer[s]) <= 1 /\ Len(toClient[s]) <= 1
      /\ (toServer[s] # <<>> => toClient[s] = <<>>)
  BY DEF TokenInv, NetToken
<1>3. \A i, j \in Queued(s) : i = j
  BY DEF TokenInv, QueueToken, Queued
<1>4. \A v, w \in Handling(s) : v = w
  BY DEF TokenInv, WorkerToken, Handling
<1>5. Queued(s) # {} => AtServer(s) /\ Handling(s) = {}
  BY DEF TokenInv, QueueToken, WorkerToken, Queued, Handling
<1>6. Handling(s) # {} => AtServer(s)
  BY DEF TokenInv, WorkerToken, Handling
<1>7. ASSUME NEW S, \A x, y \in S : x = y
      PROVE  S = {} \/ Cardinality(S) = 1
  <2>1. S = {} \/ \E x : S = {x}
    BY <1>7
  <2> QED
    BY <2>1, SmallSets
<1>8. Queued(s) = {} \/ Cardinality(Queued(s)) = 1
  BY <1>3, <1>7
<1>9. Handling(s) = {} \/ Cardinality(Handling(s)) = 1
  BY <1>4, <1>7
<1>10. AtServer(s) => Len(toServer[s]) = 0 /\ Len(toClient[s]) = 0
  BY <1>1 DEF AtServer
<1>11. Cardinality({}) = 0
  BY SmallSets
<1> DEFINE a == Len(toServer[s])
           b == Len(toClient[s])
           c == Cardinality(Queued(s))
           d == Cardinality(Handling(s))
<1>12. a \in Nat /\ b \in Nat /\ a <= 1 /\ b <= 1 /\ (a = 0 \/ b = 0)
  BY <1>1, <1>2
<1>13. c = 0 \/ (c = 1 /\ a = 0 /\ b = 0 /\ d = 0)
  <2>1. CASE Queued(s) = {}
    BY <1>11, <2>1, Zenon
  <2>2. CASE Queued(s) # {}
    BY <1>5, <1>8, <1>10, <1>11, <2>2, Zenon
  <2> QED
    BY <2>1, <2>2
<1>14. d = 0 \/ (d = 1 /\ a = 0 /\ b = 0)
  <2>1. CASE Handling(s) = {}
    BY <1>11, <2>1, Zenon
  <2>2. CASE Handling(s) # {}
    BY <1>6, <1>9, <1>10, <2>2, Zenon
  <2> QED
    BY <2>1, <2>2
<1> HIDE DEF a, b, c, d
<1>15. a + b + c + d <= 1
  BY <1>12, <1>13, <1>14
<1> QED
  BY <1>15, Zenon DEF a, b, c, d

\* Client, network, queue and workers never hold more than one message of a session
\* between them, however often clients are killed and the server crashes.
THEOREM StopAndWait == Spec => []OneOutstanding
BY TokenCounts, TokenCorrect, TransferTypeCorrect, PTL

-----------------------------------------------------------------------------
(* What the server handles is what the sessions have sent. *)

\* Initially nothing is sent.
LEMMA MessageInit == Init => MessageInv
BY EmptySeq DEF Init, MessageInv

\* Only the clients make messages for the server.
LEMMA MessageNext ==
    ASSUME TypeOK, MessageInv, [Next]_vars
    PROVE  MessageInv'
<1> DEFINE QueueSent == \A i \in 1..Len(sm_req_list) :
                           SentBy(sm_req_list[i].conn, sm_req_list[i].msg)
           NetSent(s) == \A i \in 1..Len(toServer[s]) : SentBy(s, toServer[s][i])
<1>1. MessageInv <=> QueueSent /\ \A s \in Sessions : NetSent(s)
  BY DEF MessageInv
<1>2. MessageInv' <=> QueueSent' /\ \A s \in Sessions : NetSent(s)'
  BY DEF MessageInv
<1>3. ASSUME NEW s \in Sessions, NEW m \in Offer \cup ChunkData, SentBy(s, m),
             toServer' = [toServer EXCEPT ![s] = Append(@, m)], UNCHANGED sm_req_list
      PROVE  MessageInv'
  <2>1. /\ toServer'[s] = Append(toServer[s], m)
        /\ \A t \in Sessions : t # s => toServer'[t] = toServer[t]
    BY <1>3 DEF TypeOK
  <2>2. NetSent(s)'
    <3>1. /\ Len(toServer'[s]) = Len(toServer[s]) + 1 /\ Len(toServer[s]) \in Nat
          /\ \A i \in 1..Len(toServer'[s]) :
                toServer'[s][i] = IF i = Len(toServer[s]) + 1 THEN m ELSE toServer[s][i]
      BY <2>1, AppendFacts, LenProperties, NetTypes
    <3>2. \A i \in 1..Len(toServer[s]) : SentBy(s, toServer[s][i])
      BY <1>1
    <3> QED
      BY <1>3, <3>1, <3>2 DEF SentBy, buildMsgOffer, buildMsgChunkData
  <2>3. \A t \in Sessions : t # s => NetSent(t)'
    BY <1>1, <2>1, Zenon
  <2>4. QueueSent'
    BY <1>1, <1>3
  <2> QED
    BY <1>2, <2>2, <2>3, <2>4
<1>4. ASSUME \A s \in Sessions : toServer'[s] = toServer[s] \/ toServer'[s] = <<>>
      PROVE  \A s \in Sessions : NetSent(s)'
  <2> SUFFICES ASSUME NEW s \in Sessions PROVE NetSent(s)'
    OBVIOUS
  <2>1. CASE toServer'[s] = toServer[s]
    BY <1>1, <2>1
  <2>2. CASE toServer'[s] = <<>>
    BY <2>2, EmptySeq
  <2> QED
    BY <1>4, <2>1, <2>2
<1>5. ASSUME NEW s \in Sessions, StartSession(s) PROVE MessageInv'
  <2>1. buildMsgOffer(s) \in Offer \cup ChunkData /\ SentBy(s, buildMsgOffer(s))
    BY MessageTypes DEF SentBy
  <2> QED
    BY <1>3, <1>5, <2>1, Zenon DEF StartSession
<1>6. ASSUME NEW s \in Sessions, ClientHandle(s) PROVE MessageInv'
  <2> DEFINE idx == ToU16(Head(toClient[s]).first)
  <2>1. UNCHANGED sm_req_list
    BY <1>6, Zenon DEF ClientHandle
  <2>2. CASE toServer' = toServer
    BY <1>2, <1>4, <2>1, <2>2, <1>1
  <2>3. CASE toServer' # toServer
    <3>1. /\ toServer' = [toServer EXCEPT ![s] = Append(@, buildMsgChunkData(s, idx))]
          /\ Head(toClient[s]).type = "FILE_CHUNK_REQ" /\ toClient[s] # <<>>
          /\ Sendable(s, idx)
      BY <1>6, <2>3 DEF ClientHandle
    <3>2. Head(toClient[s]) \in ChunkReq \cup Complete
      BY <3>1, NetTypes, HeadTailProperties
    <3>3. Head(toClient[s]).first \in Nat
      BY <3>1, <3>2 DEF ChunkReq, Complete
    <3>4. idx \in Nat
      BY <3>3, ToU16Type
    <3> HIDE DEF idx
    <3>5. buildMsgChunkData(s, idx) \in ChunkData
      BY <3>1, <3>4, MessageTypes
    <3>6. SentBy(s, buildMsgChunkData(s, idx))
      <4>1. buildMsgChunkData(s, idx).type = "FILE_CHUNK_DATA"
            /\ buildMsgChunkData(s, idx).idx = idx
        BY DEF buildMsgChunkData
      <4> QED
        BY <3>1, <4>1 DEF SentBy
    <3> QED
      BY <1>3, <2>1, <3>1, <3>5, <3>6, Zenon
  <2> QED
    BY <2>2, <2>3
<1>7. ASSUME NEW s \in Sessions, ServerReceive(s) PROVE MessageInv'
  <2> DEFINE req == [conn |-> s, msg |-> Head(toServer[s])]
  <2>1. /\ toServer[s] # <<>> /\ toServer'[s] = Tail(toServer[s])
        /\ \A t \in Sessions : t # s => toServer'[t] = toServer[t]
        /\ sm_req_list' = Append(sm_req_list, req)
    BY <1>7 DEF ServerReceive, TypeOK
  <2>2. /\ 1 \in 1..Len(toServer[s]) /\ Head(toServer[s]) = toServer[s][1]
        /\ \A i \in 1..Len(Tail(toServer[s])) :
              i + 1 \in 1..Len(toServer[s]) /\ Tail(toServer[s])[i] = toServer[s][i + 1]
    BY <2>1, NetTypes, TailFacts
  <2>3. SentBy(s, Head(toServer[s])) /\ NetSent(s)'
    BY <1>1, <2>1, <2>2 DEF SentBy
  <2>4. \A t \in Sessions : t # s => NetSent(t)'
    BY <1>1, <2>1
  <2>5. req \in Requests
    BY <2>1, NetTypes, HeadTailProperties DEF Requests
  <2>6. /\ Len(sm_req_list') = Len(sm_req_list) + 1 /\ Len(sm_req_list) \in Nat
        /\ \A i \in 1..Len(sm_req_list') :
              sm_req_list'[i] = IF i = Len(sm_req_list) + 1 THEN req ELSE sm_req_list[i]
    BY <2>1, <2>5, AppendFacts, LenProperties, NetTypes
  <2>7. QueueSent'
    <3> SUFFICES ASSUME NEW i \in 1..Len(sm_req_list')
                 PROVE  SentBy(sm_req_list[i].conn, sm_req_list[i].msg)'
      OBVIOUS
    <3>1. CASE i = Len(sm_req_list) + 1
      <4>1. sm_req_list'[i] = req
        BY <2>6, <3>1
      <4>2. sm_req_list'[i].conn = s /\ sm_req_list'[i].msg = Head(toServer[s])
        BY <4>1
      <4> HIDE DEF req
      <4> QED
        BY <2>3, <4>2 DEF SentBy
    <3>2. CASE i # Len(sm_req_list) + 1
      <4>1. i \in 1..Len(sm_req_list) /\ sm_req_list'[i] = sm_req_list[i]
        BY <2>6, <3>2
      <4> QED
        BY <1>1, <4>1 DEF SentBy
    <3> QED
      BY <3>1, <3>2
  <2> QED
    BY <1>2, <2>3, <2>4, <2>7
<1>8. ASSUME NEW w \in Workers, TakeRequest(w) PROVE MessageInv'
  <2>1. \A i \in 1..Len(sm_req_list') :
           i + 1 \in 1..Len(sm_req_list) /\ sm_req_list'[i] = sm_req_list[i + 1]
    BY <1>8, TakeFrame
  <2>2. UNCHANGED toServer
    BY <1>8 DEF TakeRequest
  <2>3. QueueSent'
    BY <1>1, <2>1 DEF SentBy
  <2> QED
    BY <1>2, <1>4, <2>2, <2>3
<1>9. ASSUME \A s \in Sessions : toServer'[s] = toServer[s] \/ toServer'[s] = <<>>,
             sm_req_list' = sm_req_list \/ sm_req_list' = <<>>
      PROVE  MessageInv'
  <2>1. QueueSent'
    BY <1>1, <1>9, EmptySeq DEF SentBy
  <2> QED
    BY <1>2, <1>4, <1>9, <2>1
<1>10. ASSUME NEW s \in Sessions, ClientExit(s) \/ KillClient(s) \/ DropConnection(s)
       PROVE  MessageInv'
  BY <1>9, <1>10 DEF ClientExit, KillClient, HangUp, DropConnection, TypeOK
<1>11. ASSUME NEW w \in Workers, Step(w) \/ Respond(w) PROVE MessageInv'
  BY <1>9, <1>11, ZenonT(40) DEF Step, netVars, Respond
<1>12. CASE ServerCrash
  BY <1>9, <1>12, ZenonT(40) DEF ServerCrash
<1>13. CASE UNCHANGED vars
  BY <1>9, <1>13 DEF vars, netVars
<1> QED
  BY <1>5, <1>6, <1>7, <1>8, <1>10, <1>11, <1>12, <1>13 DEF Next, Finished

-----------------------------------------------------------------------------
(* One session at a time on a path. *)

\* A session becomes active only by starting.
LEMMA ActiveNext ==
    ASSUME TypeOK, [Next]_vars, NEW t \in Sessions, Active(t)'
    PROVE  Active(t) \/ StartSession(t)
<1> DEFINE AtQueue == \E i \in 1..Len(sm_req_list) : sm_req_list[i].conn = t
           AtWorker == \E w \in Workers : Busy(w) /\ wk[w].conn = t
<1>1. Active(t) <=> st[t] = "run" \/ toServer[t] # <<>> \/ AtQueue \/ AtWorker
  BY ZenonT(40) DEF Active
<1>2. st'[t] = "run" \/ toServer'[t] # <<>> \/ AtQueue' \/ AtWorker'
  BY DEF Active
<1> HIDE DEF AtQueue, AtWorker
<1>3. ASSUME NEW s \in Sessions, StartSession(s), s # t PROVE Active(t)
  BY <1>1, <1>2, <1>3 DEF StartSession, TypeOK, AtQueue, AtWorker, Busy
<1>4. ASSUME NEW s \in Sessions, ClientHandle(s) PROVE Active(t)
  <2>1. UNCHANGED <<wk, sm_req_list, st>> /\ (t = s => st[t] = "run")
        /\ (t # s => toServer'[t] = toServer[t])
    BY <1>4 DEF ClientHandle, TypeOK
  <2> QED
    BY <1>1, <1>2, <2>1 DEF AtQueue, AtWorker, Busy
<1>5. ASSUME NEW s \in Sessions, ClientExit(s) \/ KillClient(s) \/ DropConnection(s)
      PROVE Active(t)
  <2>1. UNCHANGED <<wk, sm_req_list>> /\ (toServer'[t] = toServer[t] \/ toServer'[t] = <<>>)
        /\ (st'[t] = "run" => st[t] = "run")
    BY <1>5 DEF ClientExit, KillClient, DropConnection, HangUp, TypeOK
  <2> QED
    BY <1>1, <1>2, <2>1, ZenonT(40) DEF AtQueue, AtWorker, Busy
<1>6. ASSUME NEW s \in Sessions, ServerReceive(s) PROVE Active(t)
  <2> DEFINE req == [conn |-> s, msg |-> Head(toServer[s])]
  <2>1. /\ UNCHANGED <<wk, st>> /\ toServer[s] # <<>>
        /\ (t # s => toServer'[t] = toServer[t])
        /\ sm_req_list' = Append(sm_req_list, req)
    BY <1>6 DEF ServerReceive, TypeOK
  <2>2. req \in Requests
    BY <2>1, NetTypes, HeadTailProperties DEF Requests
  <2>3. \A i \in 1..Len(sm_req_list') :
           \/ sm_req_list'[i] = req
           \/ i \in 1..Len(sm_req_list) /\ sm_req_list'[i] = sm_req_list[i]
    <3>1. /\ Len(sm_req_list') = Len(sm_req_list) + 1 /\ Len(sm_req_list) \in Nat
          /\ \A i \in 1..Len(sm_req_list') :
                sm_req_list'[i] = IF i = Len(sm_req_list) + 1 THEN req ELSE sm_req_list[i]
      BY <2>1, <2>2, AppendFacts, LenProperties, NetTypes
    <3> HIDE DEF req
    <3> QED
      BY <3>1
  <2>4. ASSUME t # s, AtQueue' PROVE AtQueue
    <3>1. PICK i \in 1..Len(sm_req_list') : sm_req_list'[i].conn = t
      BY <2>4 DEF AtQueue
    <3>2. sm_req_list'[i] # req
      BY <2>4, <3>1
    <3> HIDE DEF req
    <3> QED
      BY <2>3, <3>1, <3>2 DEF AtQueue
  <2> QED
    BY <1>1, <1>2, <2>1, <2>4, ZenonT(40) DEF AtWorker, Busy
<1>7. ASSUME NEW w \in Workers, TakeRequest(w) PROVE Active(t)
  <2>1. UNCHANGED <<st, toServer>>
    BY <1>7 DEF TakeRequest
  <2>2. AtQueue' => AtQueue
    BY <1>7, TakeFrame DEF AtQueue
  <2>3. AtWorker' => AtQueue \/ AtWorker
    BY <1>7, TakeFrame DEF AtQueue, AtWorker, Busy
  <2> QED
    BY <1>1, <1>2, <2>1, <2>2, <2>3
<1>8. ASSUME NEW w \in Workers, Step(w) PROVE Active(t)
  <2>1. UNCHANGED <<st, toServer, sm_req_list>>
    BY <1>8, StepFrame
  <2>2. AtWorker' => AtWorker
    BY <1>8, StepFrame DEF AtWorker, Busy
  <2> QED
    BY <1>1, <1>2, <2>1, <2>2 DEF AtQueue
<1>9. ASSUME NEW w \in Workers, Respond(w) PROVE Active(t)
  <2>1. UNCHANGED <<st, toServer, sm_req_list>>
    BY <1>9, Zenon DEF Respond
  <2>2. \A v \in Workers : wk'[v] = IF v = w THEN IdleWorker ELSE wk[v]
    BY <1>9 DEF Respond, TypeOK, RemoteTypeOK
  <2>3. AtWorker' => AtWorker
    BY <2>2, IdlePc DEF AtWorker, Busy
  <2> QED
    BY <1>1, <1>2, <2>1, <2>3 DEF AtQueue
<1>10. CASE ServerCrash
  <2>1. UNCHANGED st /\ toServer'[t] = <<>> /\ sm_req_list' = <<>>
        /\ \A w \in Workers : wk'[w] = IdleWorker
    BY <1>10 DEF ServerCrash
  <2>2. ~AtQueue' /\ ~AtWorker'
    BY <2>1, IdlePc, EmptySeq DEF AtQueue, AtWorker, Busy
  <2> QED
    BY <1>1, <1>2, <2>1, <2>2
<1>11. CASE UNCHANGED vars
  BY <1>1, <1>2, <1>11 DEF vars, netVars, AtQueue, AtWorker, Busy
<1> QED
  BY <1>3, <1>4, <1>5, <1>6, <1>7, <1>8, <1>9, <1>10, <1>11 DEF Next, Finished

\* When sessions of a path start one after the other, at most one is active.
LEMMA ExclusiveNext ==
    ASSUME TypeOK, EXCLUSIVE, ExclusiveInv, [Next]_vars
    PROVE  ExclusiveInv'
<1> SUFFICES ASSUME NEW s \in Sessions, NEW t \in Sessions, Path(s) = Path(t),
                    Active(s)', Active(t)', s # t
             PROVE  FALSE
  BY DEF ExclusiveInv, Path
<1>1. ASSUME NEW x \in Sessions, NEW y \in Sessions, x # y, Path(x) = Path(y),
             Active(y)', StartSession(x)
      PROVE  FALSE
  <2>1. ~Active(y)
    BY <1>1 DEF StartSession
  <2>2. StartSession(y)
    BY <1>1, <2>1, ActiveNext
  <2>3. st'[x] = "run" /\ st'[x] = st[x] /\ st[x] = "new"
    BY <1>1, <2>2 DEF StartSession, TypeOK
  <2> QED
    BY <2>3
<1>2. Active(s) \/ StartSession(s)
  BY ActiveNext
<1>3. Active(t) \/ StartSession(t)
  BY ActiveNext
<1> QED
  BY <1>1, <1>2, <1>3 DEF ExclusiveInv

-----------------------------------------------------------------------------
(* Chunks and bytes. *)

\* What a client sends is a chunk of its file.
LEMMA SendableChunk ==
    ASSUME NEW s \in Sessions, NEW c \in Nat, Sendable(s, c)
    PROVE  /\ ChunkOffset(c) < Len(Content[s])
           /\ c \in 0..(getNumOfChunks(Len(Content[s])) - 1)
<1>1. Len(Content[s]) \in Nat
  BY TransferAssumption, LenProperties DEF FileBytes
<1>2. ChunkOffset(c) \in Nat /\ ChunkOffset(c) <= Len(Content[s])
      /\ ChunkLength(Len(Content[s]), c) > 0
  BY <1>1, ChunkIn DEF Sendable
<1>3. ChunkOffset(c) < Len(Content[s])
  BY <1>1, <1>2, WidthAssumption DEF ChunkLength
<1>4. getNumOfChunks(Len(Content[s])) \in Nat
  BY <1>1, ChunkCount
<1>5. c < getNumOfChunks(Len(Content[s]))
  BY <1>1, <1>3, ChunkIn
<1> QED
  BY <1>3, <1>4, <1>5

\* The bytes of a chunk are those of the file at its place.
LEMMA ChunkBytesFacts ==
    ASSUME NEW file \in FileBytes, NEW c \in Nat, ChunkOffset(c) < Len(file)
    PROVE  /\ ChunkBytes(file, Len(file), c) \in FileBytes
           /\ Len(ChunkBytes(file, Len(file), c)) = ChunkLength(Len(file), c)
           /\ \A i \in 1..ChunkLength(Len(file), c) :
                 ChunkBytes(file, Len(file), c)[i] = file[ChunkOffset(c) + i]
<1> DEFINE off == ChunkOffset(c)
           len == ChunkLength(Len(file), c)
           m == off + 1
           n == off + len
<1>1. file \in Seq(Nat) /\ Len(file) \in Nat
  BY LenProperties DEF FileBytes
<1>2. off \in Nat /\ len \in Nat /\ len >= 1 /\ off + len <= Len(file)
  BY <1>1, ChunkExtent
<1> HIDE DEF off, len
<1>3. m \in Int /\ n \in Int /\ m <= n /\ n - m + 1 = len
  BY <1>2
<1>4. \A i \in m..n : file[i] \in Nat
  BY <1>1, <1>2
<1> HIDE DEF m, n
<1>5. /\ SubSeq(file, m, n) \in Seq(Nat)
      /\ Len(SubSeq(file, m, n)) = len
      /\ \A i \in 1..len : SubSeq(file, m, n)[i] = file[m + i - 1]
  BY <1>3, <1>4, SubSeqProperties
<1>6. \A i \in 1..len : m + i - 1 = off + i
  BY <1>2 DEF m
<1>7. ChunkBytes(file, Len(file), c) = SubSeq(file, m, n)
  BY DEF ChunkBytes, m, n, off, len
<1> QED
  BY <1>5, <1>6, <1>7 DEF FileBytes, off, len

\* What a write leaves at each place of a file.
LEMMA WriteAtFacts ==
    ASSUME NEW bytes \in FileBytes, NEW offset \in Nat, NEW new \in FileBytes
    PROVE  LET W == WriteAt(bytes, offset, new)
           IN  /\ W \in FileBytes
               /\ Len(W) = IF offset + Len(new) > Len(bytes) THEN offset + Len(new)
                           ELSE Len(bytes)
               /\ \A i \in 1..Len(W) :
                     W[i] = IF i > offset /\ i <= offset + Len(new) THEN new[i - offset]
                            ELSE IF i <= Len(bytes) THEN bytes[i] ELSE 0
<1> DEFINE W == WriteAt(bytes, offset, new)
           n == IF offset + Len(new) > Len(bytes) THEN offset + Len(new) ELSE Len(bytes)
<1>1. W \in FileBytes
  BY WriteAtType
<1>2. Len(bytes) \in Nat /\ Len(new) \in Nat
  BY LenProperties DEF FileBytes
<1>3. n \in Nat
  BY <1>2
<1>4. DOMAIN W = 1..n
  BY DEF WriteAt
<1>5. DOMAIN W = 1..Len(W) /\ Len(W) \in Nat
  BY <1>1, LenProperties DEF FileBytes
<1>6. Len(W) = n
  <2> HIDE DEF W, n
  <2> QED
    BY <1>3, <1>4, <1>5
<1>7. \A i \in 1..n :
         W[i] = IF i > offset /\ i <= offset + Len(new) THEN new[i - offset]
                ELSE IF i <= Len(bytes) THEN bytes[i] ELSE 0
  BY DEF WriteAt
<1> QED
  BY <1>1, <1>6, <1>7

\* The bytes new are those of the file from offset on.
PieceOf(file, offset, new) == \A k \in 1..Len(new) : new[k] = file[offset + k]

\* A piece of a file, written where it belongs, is there afterwards, and what was
\* there of the file still is.
LEMMA WriteOwn ==
    ASSUME NEW file \in FileBytes, NEW bytes \in FileBytes, NEW offset \in Nat,
           NEW new \in FileBytes, PieceOf(file, offset, new),
           NEW i \in Nat \ {0},
           \/ i <= Len(bytes) /\ bytes[i] = file[i]
           \/ i > offset /\ i <= offset + Len(new)
    PROVE  LET W == WriteAt(bytes, offset, new)
           IN  i <= Len(W) /\ W[i] = file[i]
<1> DEFINE W == WriteAt(bytes, offset, new)
<1>1. Len(bytes) \in Nat /\ Len(new) \in Nat
  BY LenProperties DEF FileBytes
<1>2. /\ Len(W) = IF offset + Len(new) > Len(bytes) THEN offset + Len(new) ELSE Len(bytes)
      /\ \A j \in 1..Len(W) :
            W[j] = IF j > offset /\ j <= offset + Len(new) THEN new[j - offset]
                   ELSE IF j <= Len(bytes) THEN bytes[j] ELSE 0
  BY WriteAtFacts
<1> HIDE DEF W
<1>3. i \in 1..Len(W)
  BY <1>1, <1>2
<1>4. CASE i > offset /\ i <= offset + Len(new)
  <2>1. W[i] = new[i - offset] /\ i - offset \in 1..Len(new) /\ offset + (i - offset) = i
    BY <1>1, <1>2, <1>3, <1>4
  <2>2. new[i - offset] = file[offset + (i - offset)]
    BY <2>1 DEF PieceOf
  <2> QED
    BY <1>3, <2>1, <2>2 DEF W
<1>5. CASE ~(i > offset /\ i <= offset + Len(new))
  BY <1>2, <1>3, <1>5 DEF W
<1> QED
  BY <1>4, <1>5

\* A piece of a file written over the whole file changes nothing.
LEMMA WriteSame ==
    ASSUME NEW file \in FileBytes, NEW offset \in Nat,
           NEW new \in FileBytes, PieceOf(file, offset, new),
           offset + Len(new) <= Len(file)
    PROVE  WriteAt(file, offset, new) = file
<1> DEFINE W == WriteAt(file, offset, new)
<1>1. Len(file) \in Nat /\ Len(new) \in Nat
  BY LenProperties DEF FileBytes
<1>2. W \in FileBytes /\ Len(W) = Len(file)
  BY <1>1, WriteAtFacts
<1>3. \A i \in 1..Len(W) : W[i] = file[i]
  <2> SUFFICES ASSUME NEW i \in 1..Len(W) PROVE W[i] = file[i]
    OBVIOUS
  <2>1. i \in Nat \ {0} /\ i <= Len(file)
    BY <1>1, <1>2
  <2> QED
    BY <2>1, WriteOwn
<1> QED
  BY <1>2, <1>3, SeqEqual DEF FileBytes

\* Zeros written into zeros are zeros.
LEMMA WriteZeros ==
    ASSUME NEW bytes \in FileBytes, NEW offset \in Nat, AllZeros(bytes)
    PROVE  AllZeros(WriteAt(bytes, offset, <<0>>))
<1> DEFINE W == WriteAt(bytes, offset, <<0>>)
<1>1. <<0>> \in FileBytes /\ Len(<<0>>) = 1 /\ <<0>>[1] = 0
  BY DEF FileBytes
<1>2. Len(bytes) \in Nat
  BY LenProperties DEF FileBytes
<1>3. \A i \in 1..Len(W) :
         W[i] = IF i > offset /\ i <= offset + 1 THEN <<0>>[i - offset]
                ELSE IF i <= Len(bytes) THEN bytes[i] ELSE 0
  BY <1>1, WriteAtFacts
<1>4. Len(W) \in Nat
  BY <1>1, WriteAtType, LenProperties DEF FileBytes
<1> HIDE DEF W
<1>5. ASSUME NEW i \in 1..Len(W) PROVE W[i] = 0
  <2>1. CASE i > offset /\ i <= offset + 1
    <3>1. i - offset = 1
      BY <1>4, <2>1
    <3> QED
      BY <1>1, <1>3, <2>1, <3>1
  <2>2. CASE ~(i > offset /\ i <= offset + 1)
    BY <1>2, <1>3, <1>4, <2>2 DEF AllZeros
  <2> QED
    BY <2>1, <2>2
<1> QED
  BY <1>5 DEF AllZeros, W

-----------------------------------------------------------------------------
(* What a handler may rely on. *)

\* What holds of the files of a path holds as long as they do not change.
LEMMA FileFrame ==
    ASSUME NEW p, meta'[p] = meta[p], data'[p] = data[p]
    PROVE  /\ FileInv(p)' <=> FileInv(p)
           /\ FirstMissingAt(p)' = FirstMissingAt(p)
           /\ \A c : Saved(p, c)' <=> Saved(p, c)
           /\ \A s \in Sessions : Path(s) = p => (Delivered(s)' <=> Delivered(s))
<1>1. \A c : Saved(p, c)' <=> Saved(p, c)
  BY DEF Saved
<1>2. FirstMissingAt(p)' = FirstMissingAt(p)
  BY DEF FirstMissingAt
<1>3. FileInv(p)' <=> FileInv(p)
  BY <1>1 DEF FileInv
<1>4. \A s \in Sessions : Path(s) = p => (Delivered(s)' <=> Delivered(s))
  BY DEF Delivered
<1> QED
  BY <1>1, <1>2, <1>3, <1>4

\* A worker that does nothing knows what it knew, if the files of its path do not
\* change.
LEMMA WorkerFrame ==
    ASSUME NEW w \in Workers, WorkerInv(w), UNCHANGED wk[w],
           UNCHANGED <<meta[wk[w].path], data[wk[w].path]>>
    PROVE  WorkerInv(w)'
<1> SUFFICES ASSUME Busy(w) PROVE WorkerInv(w)'
  BY DEF WorkerInv, Busy
<1>1. PICK s : s = wk[w].conn
  OBVIOUS
<1>2. PICK p : p = Path(s)
  OBVIOUS
<1>3. RequestInv(w, s) /\ StepInv(w, s) /\ wk[w].path = p
  BY <1>1, <1>2 DEF WorkerInv, RequestInv
<1>4. meta'[p] = meta[p] /\ data'[p] = data[p]
  BY <1>3
<1>5. RequestInv(w, s)'
  BY <1>2, <1>3, <1>4 DEF RequestInv
<1>6. FirstMissingAt(p)' = FirstMissingAt(p) /\ \A c : Saved(p, c)' <=> Saved(p, c)
  BY <1>4, FileFrame
<1>7. Delivered(s)' <=> Delivered(s)
  BY <1>2, <1>4 DEF Delivered
<1>8. StepInv(w, s)'
  BY <1>2, <1>3, <1>4, <1>6, <1>7 DEF StepInv
<1> QED
  BY <1>1, <1>5, <1>8 DEF WorkerInv

\* Two workers never handle requests for the same path.
LEMMA WorkerAlone ==
    ASSUME TypeOK, TransferInv, NEW v \in Workers, NEW w \in Workers, Busy(v), Busy(w),
           wk[v].path = wk[w].path
    PROVE  v = w
<1>1. wk[v].conn \in Sessions /\ wk[w].conn \in Sessions
  BY WorkerTypes
<1>2. wk[v].path = Path(wk[v].conn) /\ wk[w].path = Path(wk[w].conn)
  BY DEF TransferInv, WorkerInv, RequestInv
<1>3. Active(wk[v].conn) /\ Active(wk[w].conn)
  BY DEF Active
<1>4. wk[v].conn = wk[w].conn
  BY <1>1, <1>2, <1>3, Zenon DEF TransferInv, ExclusiveInv
<1> QED
  BY <1>4 DEF TransferInv, TokenInv, WorkerToken

\* While a session has an answer to read, no worker handles a request for its path.
LEMMA WorkerAway ==
    ASSUME TypeOK, TransferInv, NEW w \in Workers, Busy(w),
           NEW t \in Sessions, toClient[t] # <<>>
    PROVE  Path(t) # wk[w].path
<1> SUFFICES ASSUME Path(t) = wk[w].path PROVE FALSE
  OBVIOUS
<1>1. wk[w].conn \in Sessions
  BY WorkerTypes
<1>2. wk[w].path = Path(wk[w].conn)
  BY DEF TransferInv, WorkerInv, RequestInv
<1>3. Active(wk[w].conn)
  BY DEF Active
<1>4. st[t] = "run"
  BY DEF TransferInv, TokenInv, NetToken
<1>5. Active(t)
  BY <1>4 DEF Active
<1>6. wk[w].conn = t
  BY <1>1, <1>2, <1>3, <1>5 DEF TransferInv, ExclusiveInv
<1>7. AtServer(wk[w].conn)
  BY DEF TransferInv, TokenInv, WorkerToken
<1> QED
  BY <1>6, <1>7 DEF AtServer

\* The types of the files of a path, and of the file that a session offers.
LEMMA FileTypes ==
    ASSUME TypeOK, NEW p \in Paths
    PROVE  /\ meta[p].exists \in BOOLEAN /\ meta[p].chunk_size \in Nat
           /\ meta[p].size \in Nat /\ meta[p].hash \in FileBytes
           /\ meta[p].bitmap \in Seq(Byte)
           /\ data[p].exists \in BOOLEAN /\ data[p].bytes \in FileBytes
<1>1. meta[p] \in MetaFile /\ data[p] \in DataFile
  BY DEF TypeOK, RemoteTypeOK
<1> QED
  BY <1>1, HeaderSizesType, ZenonT(40) DEF MetaFile, DataFile

\* The file of a session: its size is one that a size_t holds.
LEMMA ContentTypes ==
    ASSUME NEW s \in Sessions
    PROVE  /\ Path(s) \in Paths
           /\ Content[s] \in FileBytes /\ Len(Content[s]) \in Nat
           /\ Len(Content[s]) < U64
           /\ getNumOfChunks(Len(Content[s])) \in Nat
<1>1. Path(s) \in Paths
  BY TransferAssumption DEF Path
<1>2. Content[s] \in FileBytes /\ Len(Content[s]) \in Nat
  BY TransferAssumption, LenProperties DEF FileBytes
<1>3. Len(Content[s]) \in Sizes
  BY TransferAssumption
<1>4. Len(Content[s]) < U64
  BY <1>3, SizesAssumption, WidthAssumption
<1> QED
  BY <1>1, <1>2, <1>4, ChunkCount

\* What the handler of a request of session s finds at its path.
LEMMA HandlerFacts ==
    ASSUME TypeOK, TransferInv, SameContent, NEW w \in Workers, NEW s \in Sessions,
           Busy(w), wk[w].conn = s
    PROVE  /\ wk[w].path = Path(s)
           /\ RequestInv(w, s) /\ StepInv(w, s) /\ FileInv(Path(s))
           /\ \/ Blank(meta[Path(s)]) /\ AllZeros(data[Path(s)].bytes)
              \/ Describes(meta[Path(s)], s)
<1>1. RequestInv(w, s) /\ StepInv(w, s)
  BY DEF TransferInv, WorkerInv
<1>2. wk[w].path = Path(s)
  BY <1>1 DEF RequestInv
<1>3. FileInv(Path(s))
  BY ContentTypes DEF TransferInv
<1>4. ASSUME NEW t \in Sessions, Path(t) = Path(s), Describes(meta[Path(s)], t)
      PROVE  Describes(meta[Path(s)], s)
  <2>1. Content[t] = Content[s]
    BY <1>4 DEF SameContent
  <2> QED
    BY <1>4, <2>1 DEF Describes
<1> QED
  BY <1>1, <1>2, <1>3, <1>4 DEF FileInv

\* Metadata is not both written and not written.
LEMMA BlankDescribes ==
    ASSUME NEW m, NEW s, Blank(m), Describes(m, s)
    PROVE  FALSE
BY WidthAssumption DEF Blank, Describes

\* The number of a chunk is less than the size of its file.
LEMMA ChunkBelowSize ==
    ASSUME NEW size \in Nat, NEW c \in Nat, c < getNumOfChunks(size)
    PROVE  c < size
<1>1. ChunkOffset(c) < size
  BY ChunkIn
<1>2. CHUNK_SIZE \in Nat /\ 1 <= CHUNK_SIZE
  BY WidthAssumption
<1>3. 1 * c <= CHUNK_SIZE * c
  BY <1>2, TimesMonotone
<1>4. c <= ChunkOffset(c) /\ ChunkOffset(c) \in Nat
  BY <1>2, <1>3 DEF ChunkOffset
<1> QED
  BY <1>1, <1>4

\* An empty bitmap has no marks and nothing missing.
LEMMA NoBitmap ==
    ASSUME NEW n \in Nat
    PROVE  nextMissingChunk(<<>>, n, 0) = UINT64_MAX
<1>1. NotFull(<<>>, 0) = {}
  BY DEF NotFull
<1> QED
  BY <1>1 DEF nextMissingChunk

\* An empty file has no chunks.
LEMMA NoChunks == getNumOfChunks(0) = 0
BY WidthAssumption DEF getNumOfChunks

\* Past the header, a handler finds the chunk that is missing at its path.
LEMMA HandlerMissing ==
    ASSUME TypeOK, TransferInv, SameContent, NEW w \in Workers, NEW s \in Sessions,
           Busy(w), wk[w].conn = s, wk[w].pc # "readHeader"
    PROVE  NextMissing(w) = FirstMissingAt(Path(s))
<1> DEFINE m == meta[Path(s)]
           n == getNumOfChunks(Len(Content[s]))
<1>1. wk[w].path = Path(s) /\ wk[w].size = Len(Content[s])
  BY HandlerFacts DEF RequestInv
<1>2. n \in Nat
  BY ContentTypes
<1>3. NextMissing(w) = nextMissingChunk(m.bitmap, n, 0)
  BY <1>1 DEF NextMissing
<1> HIDE DEF m
<1>4. CASE Describes(m, s)
  <2>1. m.size = Len(Content[s]) /\ m.bitmap \in Bitmap(n)
    BY <1>4 DEF Describes
  <2> QED
    BY <1>2, <1>3, <2>1, NextMissingFirst DEF FirstMissingAt, m
<1>5. CASE Blank(m)
  <2>1. m.size = 0 /\ m.bitmap = <<>>
    BY <1>5 DEF Blank
  <2>2. NextMissing(w) = UINT64_MAX
    BY <1>2, <1>3, <2>1, NoBitmap
  <2>3. Missing(m.bitmap, getNumOfChunks(m.size)) = {}
    BY <2>1, NoChunks DEF Missing
  <2> QED
    BY <2>2, <2>3 DEF FirstMissingAt, FirstMissing, m
<1> QED
  BY <1>4, <1>5, HandlerFacts DEF m

\* A worker that moves to another step keeps the rest of its state.
LEMMA GotoFields ==
    ASSUME TypeOK, NEW w \in Workers, NEW pc, Goto(w, pc)
    PROVE  /\ wk'[w].pc = pc
           /\ wk'[w].conn = wk[w].conn /\ wk'[w].path = wk[w].path
           /\ wk'[w].op = wk[w].op /\ wk'[w].size = wk[w].size
           /\ wk'[w].hash = wk[w].hash /\ wk'[w].idx = wk[w].idx
           /\ wk'[w].payload = wk[w].payload /\ wk'[w].byte = wk[w].byte
           /\ wk'[w].reply = wk[w].reply /\ wk'[w].first = wk[w].first
<1>1. wk \in [Workers -> WorkerState] /\ wk[w] \in WorkerState
  BY DEF TypeOK, RemoteTypeOK
<1>2. wk'[w] = [wk[w] EXCEPT !.pc = pc]
  BY <1>1 DEF Goto
<1> QED
  BY <1>1, <1>2 DEF WorkerState

-----------------------------------------------------------------------------
(* When there is something to ask for. *)

\* A file of which every chunk is marked is the file that is offered.
LEMMA AllMarked ==
    ASSUME TypeOK, NEW s \in Sessions, FileInv(Path(s)), LengthInv(s),
           Describes(meta[Path(s)], s),
           Missing(meta[Path(s)].bitmap, getNumOfChunks(Len(Content[s]))) = {}
    PROVE  data[Path(s)].bytes = Content[s]
<1>1. PICK p : p = Path(s)
  OBVIOUS
<1>2. PICK file : file = Content[s]
  OBVIOUS
<1>3. PICK bytes : bytes = data[p].bytes
  OBVIOUS
<1>4. /\ file \in FileBytes /\ bytes \in FileBytes
      /\ Len(file) \in Nat /\ Len(bytes) \in Nat
  BY <1>1, <1>2, <1>3, ContentTypes, FileTypes, LenProperties DEF FileBytes
<1>5. meta[p].size = Len(file) /\ meta[p].hash = file
  BY <1>1, <1>2 DEF Describes
<1>6. ASSUME NEW i \in 1..Len(file) PROVE i <= Len(bytes) /\ bytes[i] = file[i]
  <2>1. PICK c \in 0..(getNumOfChunks(Len(file)) - 1) :
           i \in ChunkOffset(c) + 1..ChunkOffset(c) + ChunkLength(Len(file), c)
    BY <1>4, ByteInChunk
  <2>2. Marked(meta[p].bitmap, c)
    BY <1>1, <1>2, <2>1, Zenon DEF Missing
  <2>3. Saved(p, c)
    BY <1>1, <1>5, <2>1, <2>2, Zenon DEF FileInv
  <2> QED
    BY <1>3, <1>5, <2>1, <2>3, Zenon DEF Saved
<1>7. Len(bytes) = Len(file)
  <2>1. Len(bytes) <= Len(file)
    BY <1>1, <1>2, <1>3, Zenon DEF LengthInv
  <2>2. Len(file) # 0 => Len(file) <= Len(bytes)
    BY <1>4, <1>6
  <2> QED
    BY <1>4, <2>1, <2>2
<1>8. bytes = file
  BY <1>4, <1>6, <1>7, SeqEqual DEF FileBytes
<1> QED
  BY <1>1, <1>2, <1>3, <1>8

\* Whether there is something to ask for depends on the metadata alone.
LEMMA WantingFrame ==
    ASSUME NEW s, meta'[Path(s)] = meta[Path(s)]
    PROVE  Wanting(s)' <=> Wanting(s)
BY DEF Wanting

\* A worker that does nothing, on files that do not change.
LEMMA CreatedFrame ==
    ASSUME NEW w \in Workers, CreatedInv(w), UNCHANGED wk[w],
           wk[w].path = Path(wk[w].conn),
           UNCHANGED <<meta[wk[w].path], data[wk[w].path]>>
    PROVE  CreatedInv(w)'
<1>1. Wanting(wk[w].conn)' <=> Wanting(wk[w].conn)
  <2>1. PICK s : s = wk[w].conn
    OBVIOUS
  <2>2. meta'[Path(s)] = meta[Path(s)]
    BY <2>1
  <2>3. Wanting(s)' <=> Wanting(s)
    BY <2>2, WantingFrame
  <2> QED
    BY <2>1, <2>3
<1>2. Busy(w)' <=> Busy(w)
  BY DEF Busy
<1> QED
  BY <1>1, <1>2, Zenon DEF CreatedInv

\* The header is written by the step after the one that creates the file.
LEMMA StepHeader ==
    ASSUME TypeOK, TransferInv, NEW w \in Workers, Step(w), NEW p \in Paths
    PROVE  HeaderInv(p)'
<1>1. /\ \A v \in Workers : v # w => wk'[v] = wk[v]
      /\ \A r \in Paths : r # wk[w].path => meta'[r] = meta[r]
      /\ Busy(w)' => wk'[w].path = wk[w].path
  BY StepFrame
<1>2. crashes' = crashes /\ HandleStep(w) /\ HeaderInv(p)
  BY DEF Step, TransferInv, WantedInv
<1>3. meta \in [Paths -> MetaFile] /\ meta[p] \in MetaFile
  BY DEF TypeOK, RemoteTypeOK
<1>4. ASSUME wk[w].pc # "metaWrite" \/ wk[w].path # p,
             meta'[p].exists = meta[p].exists, meta'[p].chunk_size = meta[p].chunk_size
      PROVE  HeaderInv(p)'
  BY <1>1, <1>2, <1>4, Zenon DEF HeaderInv
<1>5. CASE p # wk[w].path
  BY <1>1, <1>4, <1>5
<1>6. CASE p = wk[w].path /\ MetaOpen(w)
  <2>1. wk'[w].pc = "metaWrite" /\ wk'[w].path = p
    BY <1>6, GotoFields DEF MetaOpen
  <2> QED
    BY <2>1 DEF HeaderInv
<1>7. CASE p = wk[w].path /\ MetaWrite(w)
  <2>1. meta'[p].chunk_size = CHUNK_SIZE
    BY <1>3, <1>7 DEF MetaWrite
  <2> QED
    BY <2>1, WidthAssumption DEF HeaderInv
<1>8. CASE p = wk[w].path /\ MarkWrite(w)
  <2>1. wk[w].pc # "metaWrite"
    BY <1>8 DEF MarkWrite, At
  <2>2. meta'[p].exists = meta[p].exists /\ meta'[p].chunk_size = meta[p].chunk_size
    BY <1>3, <1>8 DEF MarkWrite, MetaFile
  <2> QED
    BY <1>4, <2>1, <2>2
<1>9. CASE wk[w].pc # "metaWrite" /\ meta' = meta
  BY <1>4, <1>9
<1> QED
  BY <1>2, <1>5, <1>6, <1>7, <1>8, <1>9, ZenonT(40)
     DEF HandleStep, ReadHeader, MetaExists, FileExists, FileOpen, FileExtend, SaveChunk,
         MarkRead, Scan, CheckHash, RequestNext, At

\* What is written to the received file ends where the offered file does or before.
LEMMA StepLength ==
    ASSUME TypeOK, TransferInv, SameContent, NEW w \in Workers, Step(w),
           NEW s \in Sessions, wk[w].conn = s
    PROVE  LengthInv(s)'
<1>1. PICK p \in Paths : p = Path(s)
  BY ContentTypes
<1>2. Busy(w) /\ HandleStep(w) /\ LengthInv(s) /\ wk[w].path = p /\ RequestInv(w, s)
      /\ StepInv(w, s)
  BY <1>1, StepFrame, HandlerFacts DEF Step, TransferInv, WantedInv
<1>3. /\ data \in [Paths -> DataFile] /\ data[p] \in DataFile
      /\ data[p].bytes \in FileBytes /\ Len(data[p].bytes) \in Nat
      /\ Content[s] \in FileBytes /\ Len(Content[s]) \in Nat
  BY FileTypes, ContentTypes, LenProperties DEF TypeOK, RemoteTypeOK, FileBytes
<1> SUFFICES Len(data'[p].bytes) <= Len(Content[s])
  BY <1>1 DEF LengthInv
<1>4. Len(data[p].bytes) <= Len(Content[s])
  BY <1>1, <1>2 DEF LengthInv
<1>5. PICK n \in Nat, l \in Nat : n = Len(Content[s]) /\ l = Len(data[p].bytes)
  BY <1>3, Zenon
<1>6. l <= n
  BY <1>4, <1>5, Zenon
<1>7. CASE data' = data
  BY <1>4, <1>7
<1>8. CASE FileOpen(w)
  <2>1. data'[p].bytes = <<>>
    BY <1>2, <1>3, <1>8 DEF FileOpen
  <2>2. Len(data'[p].bytes) = 0
    BY <2>1, EmptySeq, Zenon
  <2>3. 0 <= n
    OBVIOUS
  <2> QED
    BY <1>5, <2>2, <2>3, Zenon
<1>9. CASE FileExtend(w) /\ data' # data
  <2>1. wk[w].size = Len(Content[s]) /\ data[p].bytes = <<>>
    BY <1>1, <1>2, <1>9 DEF FileExtend, At, RequestInv, StepInv
  <2>2. wk[w].size # 0
    BY <1>9, Zenon DEF FileExtend
  <2>3. n # 0
    BY <1>5, <2>1, <2>2, Zenon
  <2>4. PICK o \in Nat : o = n - 1
    BY <2>3
  <2>5. o = Len(Content[s]) - 1
    BY <1>5, <2>4, Zenon
  <2>6. <<0>> \in FileBytes /\ Len(<<0>>) = 1
    BY DEF FileBytes
  <2>7. PICK zero : zero = <<0>> /\ zero \in FileBytes /\ Len(zero) = 1
    BY <2>6, Zenon
  <2>8. data'[p].bytes = WriteAt(data[p].bytes, o, zero)
    BY <1>2, <1>3, <1>9, <2>1, <2>2, <2>5, <2>7 DEF FileExtend, DataFile
  <2>9. PICK b \in FileBytes : b = data[p].bytes
    BY <1>3
  <2>10. Len(WriteAt(b, o, zero)) = IF o + Len(zero) > Len(b) THEN o + Len(zero) ELSE Len(b)
    BY <2>7, WriteAtFacts, Zenon
  <2>11. Len(data'[p].bytes) = IF o + 1 > l THEN o + 1 ELSE l
    BY <1>5, <2>7, <2>8, <2>9, <2>10, Zenon
  <2>12. (IF o + 1 > l THEN o + 1 ELSE l) <= n
    BY <1>6, <2>4
  <2> QED
    BY <1>5, <2>11, <2>12, Zenon
<1>10. CASE SaveChunk(w) /\ data' # data
  <2>1. PICK idx \in Nat : idx = wk[w].idx
    BY WorkerTypes
  <2>2. PICK new : new = wk[w].payload
    OBVIOUS
  <2>3. wk[w].op = "FILE_CHUNK_DATA" /\ wk[w].pc = "saveChunk"
    BY <1>2, <1>10, WorkerTypes DEF RequestInv, SaveChunk, At, Ops
  <2>4. Sendable(s, idx) /\ new = ChunkBytes(Content[s], Len(Content[s]), idx)
    BY <1>2, <2>1, <2>2, <2>3 DEF RequestInv
  <2>5. PICK o \in Nat : o = ChunkOffset(idx) /\ o < Len(Content[s])
    BY <1>3, <2>1, <2>4, SendableChunk, ChunkIn
  <2>6. new \in FileBytes /\ Len(new) \in Nat /\ o + Len(new) <= Len(Content[s])
    BY <1>3, <2>4, <2>5, ChunkExtent, ChunkBytesFacts
  <2>7. data'[p].bytes = WriteAt(data[p].bytes, o, new)
    BY <1>2, <1>3, <1>10, <2>1, <2>2, <2>5 DEF SaveChunk, DataFile
  <2>8. Len(data'[p].bytes) = IF o + Len(new) > Len(data[p].bytes) THEN o + Len(new)
                              ELSE Len(data[p].bytes)
    BY <1>3, <2>6, <2>7, WriteAtFacts
  <2>9. PICK k \in Nat : k = Len(new)
    BY <2>6, Zenon
  <2>10. o + k <= n
    BY <1>5, <2>6, <2>9, Zenon
  <2>11. Len(data'[p].bytes) = IF o + k > l THEN o + k ELSE l
    BY <1>5, <2>8, <2>9, Zenon
  <2>12. (IF o + k > l THEN o + k ELSE l) <= n
    BY <1>6, <2>10
  <2> QED
    BY <1>5, <2>11, <2>12, Zenon
<1> QED
  BY <1>2, <1>7, <1>8, <1>9, <1>10, ZenonT(40)
     DEF HandleStep, ReadHeader, MetaExists, MetaOpen, MetaWrite, FileExists, MarkRead,
         MarkWrite, Scan, CheckHash, RequestNext

=============================================================================
