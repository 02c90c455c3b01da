------------------------ MODULE TransferSafetyProofs ------------------------
(***************************************************************************)
(* Proofs of the safety properties of Transfer, for any files, clients,    *)
(* workers and crashes, from the invariant of TransferInvariants.          *)
(***************************************************************************)
EXTENDS TransferProofs

-----------------------------------------------------------------------------
(* The steps of a handler. *)

\* A step of worker w keeps what it knows of the request of session s, and what
\* holds of the files at its path.
StepKeeps(w, s) ==
    /\ FileInv(Path(s))'
    /\ Delivered(s) => Delivered(s)'
    /\ Busy(w)' => RequestInv(w, s)' /\ StepInv(w, s)'

\* The request of a handler that goes on stays what it was, as long as the header of
\* its path does.
LEMMA RequestKept ==
    ASSUME NEW w \in Workers, NEW s \in Sessions, RequestInv(w, s),
           wk[w].pc # "readHeader", wk'[w].pc # "readHeader",
           wk'[w].path = wk[w].path, wk'[w].op = wk[w].op, wk'[w].size = wk[w].size,
           wk'[w].hash = wk[w].hash, wk'[w].idx = wk[w].idx,
           wk'[w].payload = wk[w].payload,
           wk[w].op = "FILE_OFFER" => wk'[w].pc \notin {"saveChunk", "markRead", "markWrite"},
           wk[w].op = "FILE_CHUNK_DATA" => Describes(meta'[Path(s)], s)
    PROVE  RequestInv(w, s)'
BY DEF RequestInv

\* A step that changes no file.
LEMMA FilesKept ==
    ASSUME NEW s \in Sessions, UNCHANGED <<meta, data>>, FileInv(Path(s))
    PROVE  /\ FileInv(Path(s))' /\ (Delivered(s)' <=> Delivered(s))
           /\ meta'[Path(s)] = meta[Path(s)] /\ data'[Path(s)] = data[Path(s)]
           /\ FirstMissingAt(Path(s))' = FirstMissingAt(Path(s))
           /\ \A c : Saved(Path(s), c)' <=> Saved(Path(s), c)
<1>1. PICK p : p = Path(s)
  OBVIOUS
<1>2. meta'[p] = meta[p] /\ data'[p] = data[p]
  OBVIOUS
<1> QED
  BY <1>1, <1>2, FileFrame

\* The header read for a chunk is that of the file being uploaded.
LEMMA ReadHeaderKeeps ==
    ASSUME TypeOK, TransferInv, SameContent, NEW w \in Workers, NEW s \in Sessions,
           wk[w].conn = s, ReadHeader(w)
    PROVE  StepKeeps(w, s)
<1> DEFINE m == meta[Path(s)]
<1>1. Busy(w) /\ wk[w].pc = "readHeader" /\ UNCHANGED <<meta, data>>
  BY DEF ReadHeader, At, Busy
<1>2. /\ wk[w].path = Path(s) /\ RequestInv(w, s) /\ FileInv(Path(s))
      /\ Blank(m) \/ Describes(m, s)
  BY <1>1, HandlerFacts
<1>3. wk \in [Workers -> WorkerState] /\ wk[w] \in WorkerState
  BY DEF TypeOK, RemoteTypeOK
<1>4. CASE m.chunk_size > 0
  <2>1. Describes(m, s)
    BY <1>2, <1>4 DEF Blank
  <2>2. m.size = Len(Content[s]) /\ m.hash = Content[s]
    BY <2>1 DEF Describes
  <2>3. wk'[w] = [wk[w] EXCEPT !.pc = "metaExists", !.size = m.size, !.hash = m.hash]
    BY <1>2, <1>3, <1>4 DEF ReadHeader
  <2> HIDE DEF m
  <2>4. /\ wk'[w].pc = "metaExists" /\ wk'[w].size = m.size /\ wk'[w].hash = m.hash
        /\ wk'[w].path = wk[w].path /\ wk'[w].op = wk[w].op
        /\ wk'[w].idx = wk[w].idx /\ wk'[w].payload = wk[w].payload
    BY <1>3, <2>3 DEF WorkerState
  <2>5. RequestInv(w, s)'
    <3>1. Describes(meta'[Path(s)], s)
      BY <1>1, <2>1 DEF m
    <3> QED
      BY <1>2, <2>2, <2>4, <3>1 DEF RequestInv
  <2>6. StepInv(w, s)'
    BY <2>4 DEF StepInv
  <2> QED
    BY <1>1, <1>2, <2>5, <2>6, FilesKept DEF StepKeeps
<1>5. CASE ~(m.chunk_size > 0)
  <2>1. wk'[w] = IdleWorker
    BY <1>2, <1>3, <1>5 DEF ReadHeader
  <2>2. ~Busy(w)'
    BY <2>1, IdlePc DEF Busy
  <2> QED
    BY <1>1, <1>2, <2>2, FilesKept DEF StepKeeps
<1> QED
  BY <1>4, <1>5

\* The metadata is created only where there is none.
LEMMA MetaExistsKeeps ==
    ASSUME TypeOK, TransferInv, SameContent, NEW w \in Workers, NEW s \in Sessions,
           wk[w].conn = s, MetaExists(w)
    PROVE  StepKeeps(w, s)
<1>1. Busy(w) /\ wk[w].pc = "metaExists" /\ UNCHANGED <<meta, data>>
  BY DEF MetaExists, At, Busy
<1>2. wk[w].path = Path(s) /\ RequestInv(w, s) /\ FileInv(Path(s))
  BY <1>1, HandlerFacts
<1>3. PICK pc : /\ Goto(w, pc)
                /\ pc = IF meta[Path(s)].exists THEN "fileExists" ELSE "metaOpen"
  BY <1>2 DEF MetaExists
<1>4. /\ wk'[w].pc = pc
      /\ wk'[w].path = wk[w].path /\ wk'[w].op = wk[w].op /\ wk'[w].size = wk[w].size
      /\ wk'[w].hash = wk[w].hash /\ wk'[w].idx = wk[w].idx
      /\ wk'[w].payload = wk[w].payload
  BY <1>3, GotoFields
<1>5. RequestInv(w, s)'
  <2>1. wk[w].op = "FILE_CHUNK_DATA" => Describes(meta'[Path(s)], s)
    BY <1>1, <1>2 DEF RequestInv
  <2> QED
    BY <1>1, <1>2, <1>3, <1>4, <2>1, RequestKept
<1>6. StepInv(w, s)'
  BY <1>1, <1>3, <1>4 DEF StepInv
<1> QED
  BY <1>1, <1>2, <1>5, <1>6, FilesKept DEF StepKeeps

\* Creating it takes nothing away.
LEMMA MetaOpenKeeps ==
    ASSUME TypeOK, TransferInv, SameContent, NEW w \in Workers, NEW s \in Sessions,
           wk[w].conn = s, MetaOpen(w)
    PROVE  StepKeeps(w, s)
<1> DEFINE p == Path(s)
<1>1. Busy(w) /\ wk[w].pc = "metaOpen"
  BY DEF MetaOpen, At, Busy
<1>2. /\ wk[w].path = p /\ RequestInv(w, s) /\ FileInv(p) /\ ~meta[p].exists
      /\ (Blank(meta[p]) /\ AllZeros(data[p].bytes)) \/ Describes(meta[p], s)
  BY <1>1, HandlerFacts DEF StepInv
<1>3. ~Describes(meta[p], s)
  BY <1>2 DEF Describes
<1>4. p \in Paths /\ meta \in [Paths -> MetaFile]
  BY ContentTypes DEF TypeOK, RemoteTypeOK
<1>5. meta'[p] = BlankMeta(TRUE) /\ data' = data /\ Goto(w, "metaWrite")
  BY <1>2, <1>4 DEF MetaOpen
<1>6. Blank(meta'[p]) /\ meta'[p].size = 0
  BY <1>5 DEF BlankMeta, Blank
<1>7. /\ wk'[w].pc = "metaWrite"
      /\ wk'[w].path = wk[w].path /\ wk'[w].op = wk[w].op /\ wk'[w].size = wk[w].size
      /\ wk'[w].hash = wk[w].hash /\ wk'[w].idx = wk[w].idx
      /\ wk'[w].payload = wk[w].payload
  BY <1>5, GotoFields
<1> HIDE DEF p
<1>8. FileInv(p)'
  <2>1. 0..(getNumOfChunks(meta'[p].size) - 1) = {}
    BY <1>6, NoChunks
  <2>2. AllZeros(data'[p].bytes) /\ (~data'[p].exists => data'[p].bytes = <<>>)
    BY <1>2, <1>3, <1>5 DEF FileInv
  <2> QED
    BY <1>6, <2>1, <2>2 DEF FileInv
<1>9. RequestInv(w, s)'
  <2>1. wk[w].op # "FILE_CHUNK_DATA"
    BY <1>1, <1>2, <1>3 DEF RequestInv, p
  <2> QED
    BY <1>1, <1>2, <1>7, <2>1, RequestKept, ZenonT(40)
<1>10. StepInv(w, s)'
  BY <1>6, <1>7 DEF StepInv, p
<1>11. Delivered(s) => Delivered(s)'
  BY <1>3, <1>5, ZenonT(40) DEF Delivered, p
<1> QED
  BY <1>8, <1>9, <1>10, <1>11 DEF StepKeeps, p

\* The header written is that of the file being uploaded, with nothing marked.
LEMMA MetaWriteKeeps ==
    ASSUME TypeOK, TransferInv, SameContent, NEW w \in Workers, NEW s \in Sessions,
           wk[w].conn = s, MetaWrite(w)
    PROVE  StepKeeps(w, s)
<1> DEFINE p == Path(s)
           n == getNumOfChunks(Len(Content[s]))
<1>1. Busy(w) /\ wk[w].pc = "metaWrite"
  BY DEF MetaWrite, At, Busy
<1>2. wk[w].path = p /\ RequestInv(w, s) /\ FileInv(p) /\ Blank(meta[p])
      /\ wk[w].size = Len(Content[s]) /\ wk[w].hash = Content[s]
  BY <1>1, HandlerFacts, ZenonT(40) DEF StepInv, RequestInv
<1>3. ~Describes(meta[p], s)
  BY <1>2, BlankDescribes
<1>4. p \in Paths /\ meta \in [Paths -> MetaFile] /\ n \in Nat /\ bitmap_size(n) \in Nat
  BY ContentTypes, BitmapSize DEF TypeOK, RemoteTypeOK
<1>5. meta[p].bitmap = <<>> /\ Len(<<>>) = 0
  BY <1>2, EmptySeq DEF Blank
<1> DEFINE bm == [i \in 1..(IF bitmap_size(n) > Len(meta[p].bitmap) THEN bitmap_size(n)
                            ELSE Len(meta[p].bitmap)) |->
                     IF i <= bitmap_size(n) THEN {} ELSE meta[p].bitmap[i]]
<1>6. /\ meta'[p] = [exists |-> TRUE, chunk_size |-> CHUNK_SIZE, size |-> Len(Content[s]),
                     hash |-> Content[s], bitmap |-> bm]
      /\ data' = data /\ Goto(w, "fileExists")
  BY <1>2, <1>4 DEF MetaWrite
<1>7. bm = EmptyBitmap(n)
  <2> DEFINE k == bitmap_size(n)
  <2>1. (IF k > Len(meta[p].bitmap) THEN k ELSE Len(meta[p].bitmap)) = k
    BY <1>4, <1>5
  <2>2. bm = [i \in 1..k |-> IF i <= k THEN {} ELSE meta[p].bitmap[i]]
    BY <2>1
  <2>3. \A i \in 1..k : i <= k
    BY <1>4
  <2> QED
    BY <2>2, <2>3, Zenon DEF EmptyBitmap
<1> HIDE DEF bm
<1>8. EmptyBitmap(n) \in Bitmap(n)
  BY DEF EmptyBitmap, Bitmap, Byte
<1>9. meta'[p].bitmap = EmptyBitmap(n) /\ Describes(meta'[p], s)
  BY <1>6, <1>7, <1>8 DEF Describes
<1>10. \A c : ~Marked(EmptyBitmap(n), c)
  BY DEF Marked, EmptyBitmap
<1>11. /\ wk'[w].pc = "fileExists"
       /\ wk'[w].path = wk[w].path /\ wk'[w].op = wk[w].op /\ wk'[w].size = wk[w].size
       /\ wk'[w].hash = wk[w].hash /\ wk'[w].idx = wk[w].idx
       /\ wk'[w].payload = wk[w].payload
  BY <1>6, GotoFields
<1> HIDE DEF n
<1>12. FileInv(p)'
  BY <1>2, <1>6, <1>9, <1>10, ZenonT(40) DEF FileInv
<1>13. RequestInv(w, s)'
  BY <1>1, <1>2, <1>9, <1>11, RequestKept, Zenon
<1>14. StepInv(w, s)'
  BY <1>11 DEF StepInv
<1>15. Delivered(s) => Delivered(s)'
  BY <1>3, <1>6, ZenonT(40) DEF Delivered
<1> QED
  BY <1>12, <1>13, <1>14, <1>15 DEF StepKeeps

\* The received file is created only where there is none.
LEMMA FileExistsKeeps ==
    ASSUME TypeOK, TransferInv, SameContent, NEW w \in Workers, NEW s \in Sessions,
           wk[w].conn = s, FileExists(w)
    PROVE  StepKeeps(w, s)
<1>1. Busy(w) /\ wk[w].pc = "fileExists" /\ UNCHANGED <<meta, data>>
  BY DEF FileExists, At, Busy
<1>2. wk[w].path = Path(s) /\ RequestInv(w, s) /\ FileInv(Path(s))
  BY <1>1, HandlerFacts
<1>3. PICK pc : /\ Goto(w, pc)
                /\ pc = IF data[Path(s)].exists THEN Constructed(w) ELSE "fileOpen"
  BY <1>2 DEF FileExists
<1>4. wk[w].op \in {"FILE_OFFER", "FILE_CHUNK_DATA"}
  BY WorkerTypes DEF Ops
<1>5. \/ pc = "fileOpen" /\ ~data[Path(s)].exists
      \/ pc = "scan" /\ wk[w].op = "FILE_OFFER"
      \/ pc = "saveChunk" /\ wk[w].op = "FILE_CHUNK_DATA" /\ data[Path(s)].exists
  BY <1>3, <1>4 DEF Constructed
<1>6. /\ wk'[w].pc = pc
      /\ wk'[w].path = wk[w].path /\ wk'[w].op = wk[w].op /\ wk'[w].size = wk[w].size
      /\ wk'[w].hash = wk[w].hash /\ wk'[w].idx = wk[w].idx
      /\ wk'[w].payload = wk[w].payload
  BY <1>3, GotoFields
<1>7. RequestInv(w, s)'
  <2>1. wk[w].op = "FILE_CHUNK_DATA" => Describes(meta'[Path(s)], s)
    BY <1>1, <1>2 DEF RequestInv
  <2> QED
    BY <1>1, <1>2, <1>5, <1>6, <2>1, RequestKept
<1>8. StepInv(w, s)'
  BY <1>1, <1>5, <1>6 DEF StepInv
<1> QED
  BY <1>1, <1>2, <1>7, <1>8, FilesKept, Zenon DEF StepKeeps

\* Creating it takes nothing away.
LEMMA FileOpenKeeps ==
    ASSUME TypeOK, TransferInv, SameContent, NEW w \in Workers, NEW s \in Sessions,
           wk[w].conn = s, FileOpen(w)
    PROVE  StepKeeps(w, s)
<1> DEFINE p == Path(s)
<1>1. Busy(w) /\ wk[w].pc = "fileOpen"
  BY DEF FileOpen, At, Busy
<1>2. wk[w].path = p /\ RequestInv(w, s) /\ FileInv(p) /\ ~data[p].exists
  BY <1>1, HandlerFacts, Zenon DEF StepInv
<1>3. p \in Paths /\ data \in [Paths -> DataFile]
  BY ContentTypes DEF TypeOK, RemoteTypeOK
<1>4. data'[p] = [exists |-> TRUE, bytes |-> <<>>] /\ meta' = meta /\ Goto(w, "fileExtend")
  BY <1>2, <1>3 DEF FileOpen
<1>5. data'[p].exists /\ data'[p].bytes = <<>> /\ data[p].bytes = <<>>
  <2>1. data[p].bytes = <<>>
    BY <1>2, Zenon DEF FileInv
  <2> QED
    BY <1>4, <2>1
<1>6. /\ wk'[w].pc = "fileExtend"
      /\ wk'[w].path = wk[w].path /\ wk'[w].op = wk[w].op /\ wk'[w].size = wk[w].size
      /\ wk'[w].hash = wk[w].hash /\ wk'[w].idx = wk[w].idx
      /\ wk'[w].payload = wk[w].payload
  BY <1>4, GotoFields
<1>7. \A c : Saved(p, c)' <=> Saved(p, c)
  BY <1>4, <1>5 DEF Saved
<1>8. RequestInv(w, s)'
  <2>1. wk[w].op = "FILE_CHUNK_DATA" => Describes(meta'[Path(s)], s)
    BY <1>1, <1>2, <1>4, ZenonT(40) DEF RequestInv
  <2> QED
    BY <1>1, <1>2, <1>6, <2>1, RequestKept
<1> HIDE DEF p
<1>9. FileInv(p)'
  BY <1>2, <1>4, <1>5, <1>7 DEF FileInv
<1>10. StepInv(w, s)'
  BY <1>5, <1>6 DEF StepInv, p
<1>11. Delivered(s) => Delivered(s)'
  BY <1>4, <1>5 DEF Delivered, p
<1> QED
  BY <1>8, <1>9, <1>10, <1>11 DEF StepKeeps, p

\* While the received file is empty no chunk of it is marked, and so it may be
\* extended with zeros.
LEMMA FileExtendKeeps ==
    ASSUME TypeOK, TransferInv, SameContent, NEW w \in Workers, NEW s \in Sessions,
           wk[w].conn = s, FileExtend(w)
    PROVE  StepKeeps(w, s)
<1> DEFINE p == Path(s)
           size == Len(Content[s])
<1>1. Busy(w) /\ wk[w].pc = "fileExtend"
  BY DEF FileExtend, At, Busy
<1>2. /\ wk[w].path = p /\ RequestInv(w, s) /\ FileInv(p) /\ wk[w].size = size
      /\ data[p].bytes = <<>> /\ data[p].exists
      /\ Blank(meta[p]) \/ Describes(meta[p], s)
  BY <1>1, HandlerFacts, ZenonT(40) DEF StepInv, RequestInv
<1>3. /\ p \in Paths /\ data \in [Paths -> DataFile] /\ data[p] \in DataFile
      /\ size \in Nat /\ meta[p].size \in Nat
  BY ContentTypes, FileTypes DEF TypeOK, RemoteTypeOK
<1>4. meta' = meta /\ Goto(w, Constructed(w))
  BY DEF FileExtend
<1>5. \/ Constructed(w) = "scan" /\ wk[w].op = "FILE_OFFER"
      \/ Constructed(w) = "saveChunk" /\ wk[w].op = "FILE_CHUNK_DATA"
  BY WorkerTypes DEF Constructed, Ops
<1>6. PICK pc : pc = Constructed(w)
  OBVIOUS
<1>7. /\ wk'[w].pc = pc
      /\ wk'[w].path = wk[w].path /\ wk'[w].op = wk[w].op /\ wk'[w].size = wk[w].size
      /\ wk'[w].hash = wk[w].hash /\ wk'[w].idx = wk[w].idx
      /\ wk'[w].payload = wk[w].payload
  BY <1>4, <1>6, GotoFields
<1>8. \/ pc = "scan" /\ wk[w].op = "FILE_OFFER"
      \/ pc = "saveChunk" /\ wk[w].op = "FILE_CHUNK_DATA"
  BY <1>5, <1>6
<1>9. RequestInv(w, s)'
  <2>1. wk[w].op = "FILE_CHUNK_DATA" => Describes(meta'[Path(s)], s)
    BY <1>1, <1>2, <1>4, ZenonT(40) DEF RequestInv
  <2> QED
    BY <1>1, <1>2, <1>7, <1>8, <2>1, RequestKept, ZenonT(40)
<1> HIDE DEF p, size
<1>10. ASSUME NEW c \in 0..(getNumOfChunks(meta[p].size) - 1)
       PROVE  ~Marked(meta[p].bitmap, c)
  <2>1. ~Saved(p, c)
    <3> DEFINE i == ChunkOffset(c) + 1
    <3>1. getNumOfChunks(meta[p].size) \in Nat
      BY <1>3, ChunkCount
    <3>2. c \in Nat /\ c < getNumOfChunks(meta[p].size)
      BY <1>10, <3>1
    <3>3. ChunkOffset(c) < meta[p].size
      BY <1>3, <3>2, ChunkIn
    <3>4. ChunkOffset(c) \in Nat /\ ChunkLength(meta[p].size, c) \in Nat
          /\ ChunkLength(meta[p].size, c) >= 1
      BY <1>3, <3>2, <3>3, ChunkExtent
    <3>5. i \in ChunkOffset(c) + 1..ChunkOffset(c) + ChunkLength(meta[p].size, c)
      BY <3>4
    <3>6. ~(i <= Len(data[p].bytes))
      BY <1>2, <3>4, EmptySeq
    <3> HIDE DEF i
    <3> QED
      BY <3>5, <3>6 DEF Saved
  <2> QED
    BY <1>2, <2>1 DEF FileInv
<1>11. data'[p].exists /\ (AllZeros(data[p].bytes) => AllZeros(data'[p].bytes))
       /\ (size = 0 => data'[p] = data[p])
  <2>1. CASE size = 0
    <3>1. data' = data
      BY <1>2, <2>1 DEF FileExtend
    <3> QED
      BY <1>2, <3>1
  <2>2. CASE size # 0
    <3>1. data'[p] = [data[p] EXCEPT !.bytes = WriteAt(@, size - 1, <<0>>)]
      BY <1>2, <1>3, <2>2 DEF FileExtend
    <3>2. data'[p].exists /\ data'[p].bytes = WriteAt(data[p].bytes, size - 1, <<0>>)
      BY <1>2, <1>3, <3>1 DEF DataFile
    <3>3. size - 1 \in Nat /\ data[p].bytes \in FileBytes
      BY <1>3, <2>2 DEF DataFile
    <3> QED
      BY <2>2, <3>2, <3>3, WriteZeros
  <2> QED
    BY <2>1, <2>2
<1>12. FileInv(p)'
  BY <1>2, <1>4, <1>10, <1>11 DEF FileInv
<1>13. StepInv(w, s)'
  BY <1>7, <1>8, <1>11, ZenonT(40) DEF StepInv, p
<1>14. Delivered(s) => Delivered(s)'
  <2> SUFFICES ASSUME Delivered(s) PROVE Delivered(s)'
    OBVIOUS
  <2>1. size = 0
    BY <1>2, EmptySeq DEF Delivered, p, size
  <2> QED
    BY <1>4, <1>11, <2>1, Zenon DEF Delivered, p
<1> QED
  BY <1>9, <1>12, <1>13, <1>14 DEF StepKeeps, p

\* A chunk of the file is written over the same file.
LEMMA SaveChunkKeeps ==
    ASSUME TypeOK, TransferInv, SameContent, NEW w \in Workers, NEW s \in Sessions,
           wk[w].conn = s, SaveChunk(w)
    PROVE  StepKeeps(w, s)
<1> DEFINE p == Path(s)
           file == Content[s]
           idx == wk[w].idx
           off == ChunkOffset(idx)
           new == wk[w].payload
<1>1. Busy(w) /\ wk[w].pc = "saveChunk"
  BY DEF SaveChunk, At, Busy
<1>2. /\ wk[w].path = p /\ RequestInv(w, s) /\ FileInv(p) /\ data[p].exists
  BY <1>1, HandlerFacts, ZenonT(40) DEF StepInv
<1>3. wk[w].op = "FILE_CHUNK_DATA"
  BY <1>1, <1>2, WorkerTypes DEF RequestInv, Ops
<1>4. /\ Describes(meta[p], s) /\ Sendable(s, idx) /\ new = ChunkBytes(file, Len(file), idx)
      /\ wk[w].size = Len(file)
  BY <1>1, <1>2, <1>3 DEF RequestInv
<1>5. meta[p].size = Len(file) /\ meta[p].hash = file
  BY <1>4 DEF Describes
<1>6. /\ p \in Paths /\ data \in [Paths -> DataFile] /\ data[p] \in DataFile
      /\ data[p].bytes \in FileBytes /\ idx \in Nat /\ file \in FileBytes /\ Len(file) \in Nat
  BY ContentTypes, FileTypes, WorkerTypes, ZenonT(40) DEF TypeOK, RemoteTypeOK
<1>7. off < Len(file)
  BY <1>4, <1>6, SendableChunk, ZenonT(40)
<1>8. /\ off \in Nat /\ new \in FileBytes /\ Len(new) = ChunkLength(Len(file), idx)
      /\ Len(new) \in Nat /\ off + Len(new) <= Len(file)
      /\ PieceOf(file, off, new)
  BY <1>4, <1>6, <1>7, ChunkExtent, ChunkBytesFacts DEF PieceOf
<1>9. Acceptable(w)
  BY <1>4, <1>6, <1>7, <1>8, SMTT(30) DEF Acceptable
<1> DEFINE W == WriteAt(data[p].bytes, off, new)
<1>10. meta' = meta /\ Goto(w, "markRead")
  BY <1>9 DEF SaveChunk
<1>11. data'[p].exists /\ data'[p].bytes = W
  <2>1. data'[p] = [data[p] EXCEPT !.bytes = W]
    BY <1>2, <1>6, <1>9 DEF SaveChunk
  <2> QED
    BY <1>2, <1>6, <2>1 DEF DataFile
<1>12. /\ wk'[w].pc = "markRead"
       /\ wk'[w].path = wk[w].path /\ wk'[w].op = wk[w].op /\ wk'[w].size = wk[w].size
       /\ wk'[w].hash = wk[w].hash /\ wk'[w].idx = wk[w].idx
       /\ wk'[w].payload = wk[w].payload
  BY <1>10, GotoFields
<1>13. PICK i0 : i0 = idx
  OBVIOUS
<1> HIDE DEF p, file, idx, off, new
<1>14. ASSUME NEW i \in Nat \ {0},
              \/ i <= Len(data[p].bytes) /\ data[p].bytes[i] = file[i]
              \/ i > off /\ i <= off + Len(new)
       PROVE  i <= Len(data'[p].bytes) /\ data'[p].bytes[i] = file[i]
  <2>1. data[p].bytes \in FileBytes /\ file \in FileBytes /\ off \in Nat /\ new \in FileBytes
    BY <1>6, <1>8
  <2>2. PieceOf(file, off, new)
    BY <1>8
  <2>3. i <= Len(WriteAt(data[p].bytes, off, new)) /\ WriteAt(data[p].bytes, off, new)[i] = file[i]
    <3> DEFINE b == data[p].bytes
    <3>1. b \in FileBytes /\ ((i <= Len(b) /\ b[i] = file[i]) \/ (i > off /\ i <= off + Len(new)))
      BY <1>14, <2>1
    <3> SUFFICES i <= Len(WriteAt(b, off, new)) /\ WriteAt(b, off, new)[i] = file[i]
      OBVIOUS
    <3> HIDE DEF b
    <3> QED
      BY <2>1, <2>2, <3>1, WriteOwn
  <2> QED
    BY <1>11, <2>3 DEF W
<1> HIDE DEF W
<1>15. \A c \in Nat : Saved(p, c) => Saved(p, c)'
  <2> SUFFICES ASSUME NEW c \in Nat, Saved(p, c),
                      NEW i \in ChunkOffset(c) + 1..ChunkOffset(c) + ChunkLength(meta[p].size, c)
               PROVE  i <= Len(data'[p].bytes) /\ data'[p].bytes[i] = meta[p].hash[i]
    BY <1>10 DEF Saved
  <2>1. i \in Nat \ {0}
    BY <1>6, ChunkIn
  <2>2. i <= Len(data[p].bytes) /\ data[p].bytes[i] = file[i]
    BY <1>5 DEF Saved
  <2> QED
    BY <1>5, <1>14, <2>1, <2>2
<1>16. Saved(p, i0)'
  <2> SUFFICES ASSUME NEW i \in ChunkOffset(i0) + 1..ChunkOffset(i0) + ChunkLength(meta[p].size, i0)
               PROVE  i <= Len(data'[p].bytes) /\ data'[p].bytes[i] = meta[p].hash[i]
    BY <1>10 DEF Saved
  <2>1. ChunkOffset(i0) = off /\ ChunkLength(meta[p].size, i0) = Len(new)
    BY <1>5, <1>8, <1>13 DEF off
  <2>2. i \in Nat \ {0} /\ i > off /\ i <= off + Len(new)
    BY <1>8, <2>1
  <2> QED
    BY <1>5, <1>14, <2>2
<1>17. FileInv(p)'
  <2>1. getNumOfChunks(meta[p].size) \in Nat
    BY <1>5, <1>6, ChunkCount
  <2>2. \A c \in 0..(getNumOfChunks(meta[p].size) - 1) : Marked(meta[p].bitmap, c) => Saved(p, c)'
    BY <1>2, <1>15, <2>1, SMTT(30) DEF FileInv
  <2> QED
    BY <1>4, <1>10, <1>11, <2>2, ZenonT(40) DEF FileInv, p
<1>18. RequestInv(w, s)'
  <2>1. Describes(meta'[Path(s)], s)
    BY <1>4, <1>10 DEF p
  <2> QED
    BY <1>1, <1>2, <1>3, <1>12, <2>1, RequestKept
<1>19. StepInv(w, s)'
  BY <1>12, <1>13, <1>16 DEF StepInv, p, idx
<1>20. Delivered(s) => Delivered(s)'
  <2> SUFFICES ASSUME Delivered(s) PROVE Delivered(s)'
    OBVIOUS
  <2>1. data[p].bytes = file
    BY Zenon DEF Delivered, p, file
  <2>2. W = file
    BY <1>6, <1>8, <2>1, WriteSame DEF W
  <2> QED
    BY <1>10, <1>11, <2>2, ZenonT(40) DEF Delivered, p, file
<1> QED
  BY <1>17, <1>18, <1>19, <1>20 DEF StepKeeps, p

\* Reading the byte of the bitmap.
LEMMA MarkReadKeeps ==
    ASSUME TypeOK, TransferInv, SameContent, NEW w \in Workers, NEW s \in Sessions,
           wk[w].conn = s, MarkRead(w)
    PROVE  StepKeeps(w, s)
<1> DEFINE k == ByteOf(wk[w].idx)
           bm == meta[Path(s)].bitmap
<1>1. Busy(w) /\ wk[w].pc = "markRead" /\ UNCHANGED <<meta, data>>
  BY DEF MarkRead, At, Busy
<1>2. /\ wk[w].path = Path(s) /\ RequestInv(w, s) /\ FileInv(Path(s))
      /\ Saved(Path(s), wk[w].idx)
  BY <1>1, HandlerFacts, ZenonT(40) DEF StepInv
<1>3. wk[w] \in WorkerState /\ wk \in [Workers -> WorkerState]
  BY WorkerTypes DEF TypeOK, RemoteTypeOK
<1>4. wk'[w] = IF k \in DOMAIN bm THEN [wk[w] EXCEPT !.pc = "markWrite", !.byte = bm[k]]
               ELSE [wk[w] EXCEPT !.pc = "scan"]
  BY <1>2, <1>3 DEF MarkRead
<1> HIDE DEF k, bm
<1>5. /\ wk'[w].path = wk[w].path /\ wk'[w].op = wk[w].op /\ wk'[w].size = wk[w].size
      /\ wk'[w].hash = wk[w].hash /\ wk'[w].idx = wk[w].idx
      /\ wk'[w].payload = wk[w].payload
      /\ \/ wk'[w].pc = "markWrite" /\ k \in DOMAIN bm /\ wk'[w].byte = bm[k]
         \/ wk'[w].pc = "scan"
  BY <1>3, <1>4 DEF WorkerState
<1>6. RequestInv(w, s)'
  <2>1. wk[w].op # "FILE_OFFER" /\ wk[w].op \in Ops
    BY <1>1, <1>2, WorkerTypes, ZenonT(40) DEF RequestInv
  <2>2. wk[w].op = "FILE_CHUNK_DATA" => Describes(meta'[Path(s)], s)
    BY <1>1, <1>2, Zenon DEF RequestInv
  <2> QED
    BY <1>1, <1>2, <1>5, <2>1, <2>2, RequestKept, ZenonT(40)
<1>7. PICK i : i = wk[w].idx
  OBVIOUS
<1>8. StepInv(w, s)'
  <2>1. Saved(Path(s), i)'
    BY <1>1, <1>2, <1>7, FilesKept, ZenonT(40)
  <2> QED
    BY <1>1, <1>5, <1>7, <2>1, ZenonT(40) DEF StepInv, k, bm
<1> QED
  BY <1>1, <1>2, <1>6, <1>8, FilesKept, ZenonT(40) DEF StepKeeps

\* The byte that is written back is the one that was read, with the bit of the
\* chunk set, so that one bit is set and no other is changed.
LEMMA MarkWriteKeeps ==
    ASSUME TypeOK, TransferInv, SameContent, NEW w \in Workers, NEW s \in Sessions,
           wk[w].conn = s, MarkWrite(w)
    PROVE  StepKeeps(w, s)
<1> DEFINE p == Path(s)
           idx == wk[w].idx
           bm == meta[p].bitmap
           n == getNumOfChunks(Len(Content[s]))
           new == markChunk(bm, idx, TRUE)
<1>1. Busy(w) /\ wk[w].pc = "markWrite" /\ data' = data
  BY DEF MarkWrite, At, Busy
<1>2. /\ wk[w].path = p /\ RequestInv(w, s) /\ FileInv(p) /\ Saved(p, idx)
      /\ ByteOf(idx) \in DOMAIN bm /\ wk[w].byte = bm[ByteOf(idx)]
  BY <1>1, HandlerFacts, ZenonT(40) DEF StepInv
<1>3. wk[w].op = "FILE_CHUNK_DATA"
  BY <1>1, <1>2, WorkerTypes, ZenonT(40) DEF RequestInv, Ops
<1>4. Describes(meta[p], s) /\ Sendable(s, idx)
  BY <1>1, <1>2, <1>3, ZenonT(40) DEF RequestInv
<1>5. /\ p \in Paths /\ meta \in [Paths -> MetaFile] /\ meta[p] \in MetaFile /\ n \in Nat
      /\ bm \in Bitmap(n) /\ idx \in Nat /\ meta[p].size = Len(Content[s])
      /\ wk[w] \in WorkerState /\ wk \in [Workers -> WorkerState]
  BY <1>4, ContentTypes, WorkerTypes DEF TypeOK, RemoteTypeOK, Describes
<1>6. /\ meta'[p].exists = meta[p].exists /\ meta'[p].chunk_size = meta[p].chunk_size
      /\ meta'[p].size = meta[p].size /\ meta'[p].hash = meta[p].hash
      /\ meta'[p].bitmap = new
  <2>1. meta'[p] = [meta[p] EXCEPT !.bitmap =
                       PutByte(bm, ByteOf(idx), MarkedByte(wk[w].byte, idx, TRUE))]
    BY <1>2, <1>5 DEF MarkWrite
  <2>2. new = PutByte(bm, ByteOf(idx), MarkedByte(wk[w].byte, idx, TRUE))
    BY <1>2 DEF markChunk
  <2> QED
    BY <1>5, <2>1, <2>2, Zenon DEF MetaFile
<1>7. /\ wk'[w].pc = "scan"
      /\ wk'[w].path = wk[w].path /\ wk'[w].op = wk[w].op /\ wk'[w].size = wk[w].size
      /\ wk'[w].hash = wk[w].hash /\ wk'[w].idx = wk[w].idx
      /\ wk'[w].payload = wk[w].payload
  <2>1. wk'[w] = [wk[w] EXCEPT !.pc = "scan", !.byte = {}]
    BY <1>5 DEF MarkWrite
  <2> QED
    BY <1>5, <2>1 DEF WorkerState
<1> HIDE DEF p, idx, bm, n, new
<1>8. new \in Bitmap(n)
  BY <1>5, MarkChunkBytes, Zenon DEF new
<1>9. ASSUME NEW c \in Nat
      PROVE  Marked(new, c) => Marked(bm, c) \/ c = idx
  BY <1>5, MarkChunkBits, Zenon DEF new
<1>10. ASSUME NEW c \in 0..(n - 1)
       PROVE  Marked(bm, c) => Marked(new, c)
  <2>1. CASE c = idx
    BY <1>5, <1>10, <2>1, MarkChunkSets, Zenon DEF new
  <2>2. CASE c # idx
    <3>1. c \in Nat
      BY <1>5, <1>10
    <3> QED
      BY <1>5, <2>2, <3>1, MarkChunkBits, ZenonT(40) DEF new
  <2> QED
    BY <2>1, <2>2
<1>11. \A c : Saved(p, c)' <=> Saved(p, c)
  BY <1>1, <1>6 DEF Saved
<1>12. Describes(meta'[p], s)
  BY <1>4, <1>6, <1>8 DEF Describes, n
<1>13. FileInv(p)'
  <2>1. \A c \in 0..(getNumOfChunks(meta'[p].size) - 1) :
            Marked(meta'[p].bitmap, c) => Saved(p, c)
    <3> SUFFICES ASSUME NEW c \in 0..(n - 1), Marked(new, c)
                 PROVE  Saved(p, c)
      BY <1>5, <1>6 DEF n
    <3>1. c \in Nat
      BY <1>5
    <3>2. Marked(bm, c) => Saved(p, c)
      BY <1>2, <1>5, ZenonT(40) DEF FileInv, bm, n
    <3> QED
      BY <1>2, <1>9, <3>1, <3>2, ZenonT(40)
  <2> QED
    BY <1>1, <1>2, <1>11, <1>12, <2>1, ZenonT(40) DEF FileInv, p
<1>14. RequestInv(w, s)'
  BY <1>1, <1>2, <1>3, <1>7, <1>12, RequestKept, ZenonT(40) DEF p
<1>15. StepInv(w, s)'
  BY <1>7, ZenonT(40) DEF StepInv
<1>16. Delivered(s) => Delivered(s)'
  <2>1. Missing(bm, n) = {} => Missing(new, n) = {}
    BY <1>10 DEF Missing
  <2> QED
    BY <1>1, <1>6, <1>12, <2>1, ZenonT(40) DEF Delivered, p, bm, n
<1> QED
  BY <1>13, <1>14, <1>15, <1>16 DEF StepKeeps, p

\* The hash is checked when no chunk is missing.
LEMMA ScanKeeps ==
    ASSUME TypeOK, TransferInv, SameContent, NEW w \in Workers, NEW s \in Sessions,
           wk[w].conn = s, Scan(w)
    PROVE  StepKeeps(w, s)
<1>1. Busy(w) /\ wk[w].pc = "scan" /\ UNCHANGED <<meta, data>>
  BY DEF Scan, At, Busy
<1>2. wk[w].path = Path(s) /\ RequestInv(w, s) /\ FileInv(Path(s))
  BY <1>1, HandlerFacts
<1>3. NextMissing(w) = FirstMissingAt(Path(s))
  BY <1>1, HandlerMissing
<1>4. PICK pc : Goto(w, pc) /\ ((pc = "hash" /\ NextMissing(w) = UINT64_MAX) \/ pc = "next")
  BY DEF Scan
<1>5. /\ wk'[w].pc = pc
      /\ wk'[w].path = wk[w].path /\ wk'[w].op = wk[w].op /\ wk'[w].size = wk[w].size
      /\ wk'[w].hash = wk[w].hash /\ wk'[w].idx = wk[w].idx
      /\ wk'[w].payload = wk[w].payload
  BY <1>4, GotoFields
<1>6. RequestInv(w, s)'
  <2>1. wk[w].op = "FILE_CHUNK_DATA" => Describes(meta'[Path(s)], s)
    BY <1>1, <1>2, ZenonT(40) DEF RequestInv
  <2> QED
    BY <1>1, <1>2, <1>4, <1>5, <2>1, RequestKept, ZenonT(40)
<1>7. StepInv(w, s)'
  <2>1. FirstMissingAt(Path(s))' = FirstMissingAt(Path(s))
    BY <1>1, <1>2, FilesKept, ZenonT(40)
  <2> QED
    BY <1>3, <1>4, <1>5, <2>1, ZenonT(40) DEF StepInv, UINT64_MAX
<1> QED
  BY <1>1, <1>2, <1>6, <1>7, FilesKept, ZenonT(40) DEF StepKeeps

\* The next chunk that is requested is the first one missing.
LEMMA RequestNextKeeps ==
    ASSUME TypeOK, TransferInv, SameContent, NEW w \in Workers, NEW s \in Sessions,
           wk[w].conn = s, RequestNext(w)
    PROVE  StepKeeps(w, s)
<1>1. Busy(w) /\ wk[w].pc = "next" /\ UNCHANGED <<meta, data>>
  BY DEF RequestNext, At, Busy
<1>2. wk[w].path = Path(s) /\ RequestInv(w, s) /\ FileInv(Path(s))
  BY <1>1, HandlerFacts, Zenon
<1>3. NextMissing(w) = FirstMissingAt(Path(s))
  BY <1>1, HandlerMissing
<1>4. wk[w] \in WorkerState /\ wk \in [Workers -> WorkerState]
  BY WorkerTypes DEF TypeOK, RemoteTypeOK
<1>5. wk'[w] = [wk[w] EXCEPT !.pc = "reply", !.reply = "FILE_CHUNK_REQ",
                             !.first = ToU16(NextMissing(w))]
  BY <1>4 DEF RequestNext
<1>6. /\ wk'[w].pc = "reply" /\ wk'[w].reply = "FILE_CHUNK_REQ"
      /\ wk'[w].first = ToU16(NextMissing(w))
      /\ wk'[w].path = wk[w].path /\ wk'[w].op = wk[w].op /\ wk'[w].size = wk[w].size
      /\ wk'[w].hash = wk[w].hash /\ wk'[w].idx = wk[w].idx
      /\ wk'[w].payload = wk[w].payload
  BY <1>4, <1>5 DEF WorkerState
<1>7. RequestInv(w, s)'
  <2>1. wk[w].op = "FILE_CHUNK_DATA" => Describes(meta'[Path(s)], s)
    BY <1>1, <1>2, ZenonT(40) DEF RequestInv
  <2> QED
    BY <1>1, <1>2, <1>6, <2>1, RequestKept, ZenonT(40)
<1>8. StepInv(w, s)'
  <2>1. FirstMissingAt(Path(s))' = FirstMissingAt(Path(s))
    BY <1>1, <1>2, FilesKept, ZenonT(40)
  <2>2. wk'[w].first = ToU16(FirstMissingAt(Path(s)))
    BY <1>3, <1>6
  <2> QED
    BY <1>6, <2>1, <2>2, ZenonT(40) DEF StepInv, ToU16
<1> QED
  BY <1>1, <1>2, <1>7, <1>8, FilesKept, ZenonT(40) DEF StepKeeps

\* UINT64_MAX stands for no chunk: no file is that large.
LEMMA NoneMissing ==
    ASSUME NEW bm, NEW size \in Nat, size < U64,
           FirstMissing(bm, getNumOfChunks(size)) = UINT64_MAX
    PROVE  Missing(bm, getNumOfChunks(size)) = {}
<1> DEFINE n == getNumOfChunks(size)
           M == Missing(bm, n)
<1> SUFFICES ASSUME M # {} PROVE FALSE
  OBVIOUS
<1>1. n \in Nat /\ M \subseteq 0..(n - 1) /\ M # {}
  BY ChunkCount DEF Missing
<1>2. Min(M) = UINT64_MAX
  BY DEF FirstMissing
<1> HIDE DEF M, n
<1>3. M \subseteq Nat /\ M # {}
  BY <1>1
<1>4. Min(M) \in M
  BY <1>3, MinIsLeast, Zenon
<1>5. PICK c : c = Min(M)
  OBVIOUS
<1>6. c \in Nat /\ c < n
  <2>1. c \in 0..(n - 1)
    BY <1>1, <1>4, <1>5, Zenon
  <2> QED
    BY <1>1, <2>1
<1>7. c < size
  BY <1>6, ChunkBelowSize DEF n
<1> QED
  BY <1>2, <1>5, <1>6, <1>7, WidthAssumption DEF UINT64_MAX

\* FILE_COMPLETE is sent only for a file that is there.
LEMMA CheckHashKeeps ==
    ASSUME TypeOK, TransferInv, SameContent, NEW w \in Workers, NEW s \in Sessions,
           wk[w].conn = s, CheckHash(w)
    PROVE  StepKeeps(w, s)
<1>1. Busy(w) /\ wk[w].pc = "hash" /\ UNCHANGED <<meta, data>>
  BY DEF CheckHash, At, Busy
<1>2. /\ wk[w].path = Path(s) /\ RequestInv(w, s) /\ FileInv(Path(s))
      /\ wk[w].hash = Content[s] /\ FirstMissingAt(Path(s)) = UINT64_MAX
  BY <1>1, HandlerFacts, Zenon DEF RequestInv, StepInv
<1>3. wk[w] \in WorkerState /\ wk \in [Workers -> WorkerState]
  BY WorkerTypes DEF TypeOK, RemoteTypeOK
<1>4. wk'[w] = IF data[Path(s)].bytes = Content[s]
               THEN [wk[w] EXCEPT !.pc = "reply", !.reply = "FILE_COMPLETE"]
               ELSE [wk[w] EXCEPT !.pc = "next"]
  BY <1>2, <1>3 DEF CheckHash
<1>5. /\ wk'[w].path = wk[w].path /\ wk'[w].op = wk[w].op /\ wk'[w].size = wk[w].size
      /\ wk'[w].hash = wk[w].hash /\ wk'[w].idx = wk[w].idx
      /\ wk'[w].payload = wk[w].payload
      /\ \/ /\ wk'[w].pc = "reply" /\ wk'[w].reply = "FILE_COMPLETE"
            /\ data[Path(s)].bytes = Content[s]
         \/ wk'[w].pc = "next"
  BY <1>3, <1>4 DEF WorkerState
<1>6. RequestInv(w, s)'
  <2>1. wk[w].op = "FILE_CHUNK_DATA" => Describes(meta'[Path(s)], s)
    BY <1>1, <1>2, ZenonT(40) DEF RequestInv
  <2> QED
    BY <1>1, <1>2, <1>5, <2>1, RequestKept, ZenonT(40)
<1>7. data[Path(s)].bytes = Content[s] => Delivered(s)
  <2> SUFFICES ASSUME data[Path(s)].bytes = Content[s] PROVE Delivered(s)
    OBVIOUS
  <2>1. CASE Describes(meta[Path(s)], s)
    <3>1. meta[Path(s)].size = Len(Content[s])
      BY <2>1 DEF Describes
    <3>2. FirstMissing(meta[Path(s)].bitmap, getNumOfChunks(Len(Content[s]))) = UINT64_MAX
      BY <1>2, <3>1 DEF FirstMissingAt
    <3>3. Missing(meta[Path(s)].bitmap, getNumOfChunks(Len(Content[s]))) = {}
      BY <3>2, ContentTypes, NoneMissing
    <3> QED
      BY <2>1, <3>3 DEF Delivered
  <2>2. CASE AllZeros(data[Path(s)].bytes)
    BY <2>2 DEF Delivered
  <2> QED
    BY <1>1, <2>1, <2>2, HandlerFacts, ZenonT(40)
<1>8. StepInv(w, s)'
  <2>1. Delivered(s)' <=> Delivered(s)
    BY <1>1, <1>2, FilesKept, ZenonT(40)
  <2> QED
    BY <1>5, <1>7, <2>1, ZenonT(40) DEF StepInv
<1> QED
  BY <1>1, <1>2, <1>6, <1>8, FilesKept, ZenonT(40) DEF StepKeeps

-----------------------------------------------------------------------------
(* What one step does to every path, handler and client. *)

\* Sessions of one path offer the same file, and so it is there for both or for
\* none.
LEMMA DeliveredSame ==
    ASSUME SameContent, NEW s \in Sessions, NEW t \in Sessions, Path(s) = Path(t)
    PROVE  (Delivered(s) <=> Delivered(t)) /\ (Delivered(s)' <=> Delivered(t)')
<1>1. Content[s] = Content[t]
  BY DEF SameContent
<1> QED
  BY <1>1, Zenon DEF Delivered, Describes

\* A step of a handler leaves what the invariant says of every path, every handler
\* and every client true: it changes only the files of its own path, on which no
\* other handler is at work and for which no message is on its way to a client.
LEMMA StepNext ==
    ASSUME TypeOK, TransferInv, SameContent, NEW w \in Workers, Step(w)
    PROVE  /\ \A p \in Paths : FileInv(p)'
           /\ \A v \in Workers : WorkerInv(v)'
           /\ \A t \in Sessions : ClientInv(t)'
<1>1. PICK s \in Sessions : wk[w].conn = s
  BY WorkerTypes
<1>2. StepKeeps(w, s)
  BY <1>1, ReadHeaderKeeps, MetaExistsKeeps, MetaOpenKeeps, MetaWriteKeeps,
     FileExistsKeeps, FileOpenKeeps, FileExtendKeeps, SaveChunkKeeps, MarkReadKeeps,
     MarkWriteKeeps, ScanKeeps, CheckHashKeeps, RequestNextKeeps, Zenon
     DEF Step, HandleStep
<1>3. /\ UNCHANGED <<st, client_files, toClient>> /\ Busy(w)
      /\ \A v \in Workers : v # w => wk'[v] = wk[v]
      /\ Busy(w)' => wk'[w].conn = s
      /\ \A p \in Paths : p # wk[w].path => meta'[p] = meta[p] /\ data'[p] = data[p]
  BY <1>1, StepFrame
<1>4. wk[w].path = Path(s)
  BY <1>1, <1>3, HandlerFacts
<1>5. ASSUME NEW p \in Paths PROVE FileInv(p)'
  <2>1. CASE p = Path(s)
    BY <1>2, <2>1 DEF StepKeeps
  <2>2. CASE p # Path(s)
    <3>1. FileInv(p) /\ meta'[p] = meta[p] /\ data'[p] = data[p]
      BY <1>3, <1>4, <2>2, Zenon DEF TransferInv
    <3> QED
      BY <3>1, FileFrame, ZenonT(40)
  <2> QED
    BY <2>1, <2>2
<1>6. ASSUME NEW v \in Workers PROVE WorkerInv(v)'
  <2>1. CASE v = w
    BY <1>2, <1>3, <2>1, ZenonT(40) DEF StepKeeps, WorkerInv
  <2>2. CASE v # w /\ Busy(v)
    <3>1. wk[v].path # wk[w].path /\ wk[v].path \in Paths
      BY <1>3, <2>2, WorkerAlone, WorkerTypes
    <3>2. UNCHANGED wk[v] /\ UNCHANGED <<meta[wk[v].path], data[wk[v].path]>>
      BY <1>3, <2>2, <3>1
    <3>3. WorkerInv(v)
      BY DEF TransferInv
    <3> QED
      BY <3>2, <3>3, WorkerFrame, ZenonT(40)
  <2>3. CASE v # w /\ ~Busy(v)
    BY <1>3, <2>3 DEF WorkerInv, Busy
  <2> QED
    BY <2>1, <2>2, <2>3
<1>7. ASSUME NEW t \in Sessions PROVE ClientInv(t)'
  <2>1. ClientInv(t)
    BY DEF TransferInv
  <2>2. CASE Path(t) = Path(s)
    <3>1. toClient[t] = <<>>
      BY <1>3, <1>4, <2>2, WorkerAway
    <3>2. Delivered(t) => Delivered(t)'
      BY <1>2, <2>2, DeliveredSame DEF StepKeeps
    <3>3. toClient' = toClient /\ client_files' = client_files /\ st' = st
      BY <1>3
    <3>4. 1..Len(toClient'[t]) = {}
      BY <3>1, <3>3
    <3> QED
      BY <2>1, <3>2, <3>3, <3>4, ZenonT(40) DEF ClientInv
  <2>3. CASE Path(t) # Path(s)
    <3>1. meta'[Path(t)] = meta[Path(t)] /\ data'[Path(t)] = data[Path(t)]
      BY <1>3, <1>4, <2>3, ContentTypes, ZenonT(40)
    <3>2. (Delivered(t)' <=> Delivered(t))
          /\ FirstMissingAt(Path(t))' = FirstMissingAt(Path(t))
      BY <3>1, FileFrame, Zenon
    <3> QED
      BY <1>3, <2>1, <3>2, ZenonT(40) DEF ClientInv, ToU16
  <2> QED
    BY <2>2, <2>3
<1> QED
  BY <1>5, <1>6, <1>7

\* A step that touches no file, and of the clients only loses messages.
LEMMA ClientFrame ==
    ASSUME NEW t \in Sessions, ClientInv(t), UNCHANGED <<meta, data>>,
           st'[t] # "new" /\ client_files'[t] = {} => st[t] # "new" /\ client_files[t] = {},
           toClient'[t] = toClient[t] \/ toClient'[t] = <<>>
    PROVE  ClientInv(t)'
<1>1. /\ Delivered(t)' <=> Delivered(t)
      /\ FirstMissingAt(Path(t))' = FirstMissingAt(Path(t))
  BY FileFrame
<1>2. CASE toClient'[t] = toClient[t]
  BY <1>1, <1>2, ZenonT(40) DEF ClientInv, ToU16
<1>3. CASE toClient'[t] = <<>>
  <2>1. 1..Len(toClient'[t]) = {}
    BY <1>3
  <2> QED
    BY <1>1, <2>1, ZenonT(40) DEF ClientInv
<1> QED
  BY <1>2, <1>3

\* What a client gets to know.
LEMMA ClientHandleNext ==
    ASSUME TypeOK, TransferInv, NEW s \in Sessions, ClientHandle(s), NEW t \in Sessions
    PROVE  ClientInv(t)'
<1>1. /\ UNCHANGED <<meta, data, st>> /\ toClient[s] # <<>>
      /\ toClient \in [Sessions -> Seq(ChunkReq \cup Complete)]
      /\ client_files \in [Sessions -> SUBSET Names]
      /\ toClient' = [toClient EXCEPT ![s] = Tail(@)]
  BY Zenon DEF ClientHandle, TypeOK
<1>2. ClientInv(t) /\ NetToken(s)
  BY DEF TransferInv, TokenInv
<1>3. toClient'[s] = <<>> /\ Len(toClient[s]) = 1 /\ 1 \in 1..Len(toClient[s])
      /\ Head(toClient[s]) = toClient[s][1]
  BY <1>1, <1>2, ShortSeq, TailFacts DEF NetToken
<1>4. CASE t # s
  <2>1. toClient'[t] = toClient[t] /\ client_files'[t] = client_files[t]
    BY <1>1, <1>4 DEF ClientHandle
  <2> QED
    BY <1>1, <1>2, <2>1, ClientFrame
<1>5. CASE t = s
  <2>1. CASE toClient[s][1].type = "FILE_COMPLETE"
    <3>1. Delivered(s)
      BY <1>2, <1>3, <1>5, <2>1 DEF ClientInv
    <3>2. Delivered(s)' <=> Delivered(s)
      BY <1>1, FileFrame, Zenon
    <3> QED
      BY <1>3, <1>5, <3>1, <3>2, EmptySeq DEF ClientInv
  <2>2. CASE toClient[s][1].type # "FILE_COMPLETE"
    <3>1. client_files' = client_files
      BY <1>3, <2>2 DEF ClientHandle
    <3> QED
      BY <1>1, <1>2, <1>3, <1>5, <3>1, ClientFrame
  <2> QED
    BY <2>1, <2>2
<1> QED
  BY <1>4, <1>5

\* The handling of a request starts from what the session has sent.
LEMMA TakeRequestNext ==
    ASSUME TypeOK, TransferInv, NEW w \in Workers, TakeRequest(w)
    PROVE  WorkerInv(w)'
<1> DEFINE r == sm_req_list[1]
<1>1. 1 \in 1..Len(sm_req_list) /\ wk'[w].conn = r.conn /\ Head(sm_req_list) = r
  BY TakeFrame, NetTypes, TailFacts, ZenonT(40) DEF TakeRequest
<1>2. r.conn \in Sessions /\ r.msg \in Offer \cup ChunkData /\ SentBy(r.conn, r.msg)
  BY <1>1, NetTypes, Zenon DEF TransferInv, MessageInv
<1>3. PICK s \in Sessions : s = r.conn
  BY <1>2
<1>4. PICK m : m = r.msg
  OBVIOUS
<1>5. IdleWorker \in WorkerState /\ wk \in [Workers -> WorkerState]
  BY IdleWorkerType DEF TypeOK, RemoteTypeOK
<1>6. IF m.type = "FILE_OFFER" THEN StartOffer(w, s, <<m.uuid, m.name>>, m.size, m.hash)
      ELSE StartChunkData(w, s, <<m.uuid, m.name>>, m.idx, m.data)
  BY <1>1, <1>3, <1>4 DEF TakeRequest, StartRequest
<1> HIDE DEF r
<1>7. CASE m = buildMsgOffer(s)
  <2>1. StartOffer(w, s, Path(s), Len(Content[s]), Content[s])
    BY <1>6, <1>7, Zenon DEF buildMsgOffer, Path
  <2>2. wk'[w] = [IdleWorker EXCEPT !.pc = "metaExists", !.conn = s, !.op = "FILE_OFFER",
                      !.path = Path(s), !.size = Len(Content[s]), !.hash = Content[s]]
    BY <1>5, <2>1 DEF StartOffer
  <2>3. /\ wk'[w].pc = "metaExists" /\ wk'[w].op = "FILE_OFFER" /\ wk'[w].path = Path(s)
        /\ wk'[w].size = Len(Content[s]) /\ wk'[w].hash = Content[s]
    BY <1>5, <2>2 DEF WorkerState
  <2>4. RequestInv(w, s)'
    BY <2>3, ZenonT(40) DEF RequestInv
  <2>5. StepInv(w, s)'
    BY <2>3, ZenonT(40) DEF StepInv
  <2> QED
    BY <1>1, <1>3, <2>4, <2>5 DEF WorkerInv
<1>8. CASE m.type = "FILE_CHUNK_DATA" /\ Sendable(s, m.idx)
           /\ m = buildMsgChunkData(s, m.idx)
  <2>1. PICK idx : idx = m.idx
    OBVIOUS
  <2>2. m = buildMsgChunkData(s, idx) /\ Sendable(s, idx) /\ m.type = "FILE_CHUNK_DATA"
    BY <1>8, <2>1
  <2>3. StartChunkData(w, s, Path(s), idx, ChunkBytes(Content[s], Len(Content[s]), idx))
    BY <1>6, <2>1, <2>2 DEF buildMsgChunkData, Path
  <2>4. wk'[w] = [IdleWorker EXCEPT !.pc = "readHeader", !.conn = s,
                      !.op = "FILE_CHUNK_DATA", !.path = Path(s), !.idx = idx,
                      !.payload = ChunkBytes(Content[s], Len(Content[s]), idx)]
    BY <1>5, <2>3 DEF StartChunkData
  <2>5. /\ wk'[w].pc = "readHeader" /\ wk'[w].op = "FILE_CHUNK_DATA"
        /\ wk'[w].path = Path(s) /\ wk'[w].idx = idx
        /\ wk'[w].payload = ChunkBytes(Content[s], Len(Content[s]), idx)
    BY <1>5, <2>4 DEF WorkerState
  <2>6. RequestInv(w, s)'
    BY <2>2, <2>5, ZenonT(40) DEF RequestInv
  <2>7. StepInv(w, s)'
    BY <2>5, Zenon DEF StepInv
  <2> QED
    BY <1>1, <1>3, <2>6, <2>7 DEF WorkerInv
<1> QED
  BY <1>2, <1>3, <1>4, <1>7, <1>8 DEF SentBy

\* The reply of a handler is true when it is sent.
LEMMA RespondNext ==
    ASSUME TypeOK, TransferInv, SameContent, NEW w \in Workers, Respond(w),
           NEW t \in Sessions
    PROVE  ClientInv(t)'
<1>1. PICK s \in Sessions : wk[w].conn = s
  BY WorkerTypes
<1>2. Busy(w) /\ wk[w].pc = "reply" /\ UNCHANGED <<meta, data, st, client_files>>
  BY DEF Respond, At, Busy
<1>3. wk[w].path = Path(s) /\ StepInv(w, s) /\ ClientInv(t) /\ AtServer(s)
  BY <1>1, <1>2, HandlerFacts, ZenonT(40) DEF TransferInv, TokenInv, WorkerToken
<1>4. toClient[s] = <<>> /\ toClient \in [Sessions -> Seq(ChunkReq \cup Complete)]
  BY <1>3 DEF AtServer, TypeOK
<1>5. PICK m : m = IF wk[w].reply = "FILE_COMPLETE" THEN buildMsgComplete(wk[w].path)
                   ELSE buildMsgChunkReq(wk[w].path, wk[w].first)
  OBVIOUS
<1>6. toClient' = toClient \/ toClient' = [toClient EXCEPT ![s] = Append(<<>>, m)]
  BY <1>1, <1>4, <1>5 DEF Respond
<1>7. \/ m.type = "FILE_COMPLETE" /\ Delivered(s)
      \/ /\ m.type = "FILE_CHUNK_REQ"
         /\ m.first = ToU16(FirstMissingAt(Path(s)))
  BY <1>2, <1>3, <1>5, ZenonT(40) DEF StepInv, buildMsgComplete, buildMsgChunkReq
<1>8. CASE toClient'[t] = toClient[t]
  BY <1>2, <1>3, <1>8, ClientFrame, ZenonT(40)
<1>9. CASE t = s /\ toClient'[t] = Append(<<>>, m)
  <2>1. Len(toClient'[t]) = 1 /\ toClient'[t][1] = m
    BY <1>9
  <2>2. /\ Delivered(t)' <=> Delivered(t)
        /\ FirstMissingAt(Path(t))' = FirstMissingAt(Path(t))
    BY <1>2, FileFrame, ZenonT(40)
  <2>3. \A i \in 1..Len(toClient'[t]) : toClient'[t][i] = m
    BY <2>1
  <2> QED
    BY <1>2, <1>3, <1>7, <1>9, <2>2, <2>3, ZenonT(40) DEF ClientInv, ToU16
<1> QED
  BY <1>4, <1>6, <1>8, <1>9

-----------------------------------------------------------------------------
(* What there is to ask for, from one step to the next. *)

\* A handler that goes on to ask for a chunk has found one missing; or all are marked,
\* and the hash can differ only when there is no header.
LEMMA StepCreated ==
    ASSUME TypeOK, TransferInv, SameContent, NEW w \in Workers, Step(w),
           NEW s \in Sessions, wk[w].conn = s
    PROVE  CreatedInv(w)'
<1>1. PICK p \in Paths : p = Path(s)
  BY ContentTypes
<1>2. PICK q : q = wk'[w].pc
  OBVIOUS
<1>3. Busy(w) /\ HandleStep(w) /\ CreatedInv(w) /\ LengthInv(s)
  BY StepFrame DEF Step, TransferInv, WantedInv
<1>4. /\ wk[w].path = p /\ StepInv(w, s) /\ FileInv(p)
      /\ Blank(meta[p]) \/ Describes(meta[p], s)
  BY <1>1, <1>3, HandlerFacts
<1>5. /\ wk \in [Workers -> WorkerState] /\ wk[w] \in WorkerState
      /\ meta \in [Paths -> MetaFile] /\ meta[p] \in MetaFile
      /\ data \in [Paths -> DataFile] /\ data[p] \in DataFile
  BY DEF TypeOK, RemoteTypeOK
<1> DEFINE Exist == q \notin {"readHeader", "metaExists", "metaOpen"} => meta'[p].exists
           Received == q \in {"markRead", "markWrite", "scan"} => data'[p].exists
           Want == q = "next" \/ (q = "reply" /\ wk'[w].reply = "FILE_CHUNK_REQ") => Wanting(s)'
<1> SUFFICES ASSUME q # "idle" PROVE Exist /\ Received /\ Want
  <2>1. Busy(w)' => wk'[w].path = p /\ wk'[w].conn = s
    BY <1>4, StepFrame
  <2> QED
    BY <1>2, <2>1, Zenon DEF CreatedInv, Busy
<1>6. ASSUME meta' = meta PROVE Wanting(s)' <=> Wanting(s)
  BY <1>6, WantingFrame
<1>7. wk[w].pc \notin {"readHeader", "metaExists", "metaOpen"} => meta[p].exists
  BY <1>3, <1>4 DEF CreatedInv
<1>8. wk[w].pc \in {"markRead", "markWrite", "scan"} => data[p].exists
  BY <1>3, <1>4 DEF CreatedInv
<1>9. CASE ReadHeader(w)
  <2>1. q = "metaExists"
    <3>1. IdleWorker.pc = "idle"
      BY IdlePc
    <3> QED
      BY <1>2, <1>5, <1>9, <3>1 DEF ReadHeader, WorkerState
  <2> QED
    BY <2>1
<1>10. CASE MetaExists(w)
  <2>1. q = IF meta[p].exists THEN "fileExists" ELSE "metaOpen"
    BY <1>2, <1>4, <1>10, GotoFields DEF MetaExists
  <2> QED
    BY <1>10, <2>1 DEF MetaExists
<1>11. CASE MetaOpen(w)
  <2>1. q = "metaWrite" /\ meta'[p].exists
    BY <1>2, <1>4, <1>5, <1>11, GotoFields DEF MetaOpen, BlankMeta
  <2> QED
    BY <2>1
<1>12. CASE MetaWrite(w)
  <2>1. q = "fileExists"
    BY <1>2, <1>12, GotoFields DEF MetaWrite
  <2>2. meta'[p].exists
    BY <1>4, <1>5, <1>12 DEF MetaWrite
  <2> QED
    BY <2>1, <2>2
<1>13. CASE FileExists(w)
  <2>1. q = IF data[p].exists THEN Constructed(w) ELSE "fileOpen"
    BY <1>2, <1>4, <1>13, GotoFields DEF FileExists
  <2>2. wk[w].pc = "fileExists" /\ meta' = meta /\ data' = data
    BY <1>13 DEF FileExists, At
  <2> QED
    BY <1>7, <2>1, <2>2 DEF Constructed
<1>14. CASE FileOpen(w)
  <2>1. q = "fileExtend" /\ wk[w].pc = "fileOpen" /\ meta' = meta
    BY <1>2, <1>14, GotoFields DEF FileOpen, At
  <2> QED
    BY <1>7, <2>1
<1>15. CASE FileExtend(w)
  <2>1. q = Constructed(w) /\ wk[w].pc = "fileExtend" /\ meta' = meta
    BY <1>2, <1>15, GotoFields DEF FileExtend, At
  <2>2. data[p].exists
    BY <1>1, <1>4, <2>1 DEF StepInv
  <2>3. data'[p].exists
    BY <1>4, <1>5, <1>15, <2>2 DEF FileExtend, DataFile
  <2> QED
    BY <1>7, <2>1, <2>3 DEF Constructed
<1>16. CASE SaveChunk(w)
  <2>1. q \in {"markRead", "scan"} /\ wk[w].pc = "saveChunk" /\ meta' = meta
    BY <1>2, <1>16, GotoFields DEF SaveChunk, At
  <2>2. data[p].exists
    BY <1>1, <1>4, <2>1 DEF StepInv
  <2>3. data'[p].exists
    BY <1>4, <1>5, <1>16, <2>2 DEF SaveChunk, DataFile
  <2> QED
    BY <1>7, <2>1, <2>3
<1>17. CASE MarkRead(w)
  <2>1. q \in {"markWrite", "scan"} /\ wk[w].pc = "markRead" /\ meta' = meta /\ data' = data
    BY <1>2, <1>5, <1>17 DEF MarkRead, At, WorkerState
  <2> QED
    BY <1>7, <1>8, <2>1
<1>18. CASE MarkWrite(w)
  <2>1. q = "scan" /\ wk[w].pc = "markWrite" /\ data' = data
    BY <1>2, <1>5, <1>18 DEF MarkWrite, At, WorkerState
  <2>2. meta'[p].exists = meta[p].exists
    BY <1>4, <1>5, <1>18 DEF MarkWrite, MetaFile
  <2> QED
    BY <1>7, <1>8, <2>1, <2>2
<1>19. CASE Scan(w)
  <2>1. wk[w].pc = "scan" /\ meta' = meta /\ data' = data /\ meta[p].exists
    BY <1>7, <1>19 DEF Scan, At
  <2>2. NextMissing(w) = FirstMissingAt(p)
    BY <1>1, <1>3, <2>1, HandlerMissing
  <2>3. q = IF FirstMissingAt(p) = UINT64_MAX THEN "hash" ELSE "next"
    BY <1>2, <1>4, <1>8, <1>19, <2>1, <2>2, GotoFields DEF Scan
  <2>4. FirstMissingAt(p) # UINT64_MAX => Wanting(s)
    <3>1. CASE Blank(meta[p])
      BY <1>1, <2>1, <3>1 DEF Blank, Wanting
    <3>2. CASE Describes(meta[p], s)
      <4>1. meta[p].size = Len(Content[s])
        BY <3>2 DEF Describes
      <4> QED
        BY <1>1, <2>1, <4>1, Zenon DEF FirstMissingAt, FirstMissing, Wanting
    <3> QED
      BY <1>4, <3>1, <3>2
  <2> QED
    BY <1>6, <2>1, <2>3, <2>4
<1>20. CASE CheckHash(w)
  <2>1. wk[w].pc = "hash" /\ meta' = meta /\ data' = data /\ meta[p].exists
    BY <1>7, <1>20 DEF CheckHash, At
  <2>2. wk[w].hash = Content[s] /\ FirstMissingAt(p) = UINT64_MAX
    BY <1>1, <1>3, <2>1, HandlerFacts, Zenon DEF RequestInv, StepInv
  <2>3. \/ q = "reply" /\ wk'[w].reply = "FILE_COMPLETE"
        \/ q = "next" /\ data[p].bytes # Content[s]
    BY <1>2, <1>4, <1>5, <1>20, <2>2 DEF CheckHash, WorkerState
  <2>4. data[p].bytes # Content[s] => Wanting(s)
    <3>1. CASE Blank(meta[p])
      BY <1>1, <2>1, <3>1 DEF Blank, Wanting
    <3>2. CASE Describes(meta[p], s) /\ data[p].bytes # Content[s]
      <4>1. Missing(meta[p].bitmap, getNumOfChunks(Len(Content[s]))) # {}
        BY <1>1, <1>3, <1>4, <3>2, AllMarked, Zenon
      <4> QED
        BY <1>1, <2>1, <4>1, Zenon DEF Wanting
    <3> QED
      BY <1>4, <3>1, <3>2
  <2> QED
    BY <1>6, <2>1, <2>3, <2>4
<1>21. CASE RequestNext(w)
  <2>1. wk[w].pc = "next" /\ meta' = meta /\ data' = data
    BY <1>21 DEF RequestNext, At
  <2>2. q = "reply"
    BY <1>2, <1>5, <1>21 DEF RequestNext, WorkerState
  <2>3. Wanting(s)
    BY <1>3, <2>1 DEF CreatedInv
  <2> QED
    BY <1>6, <1>7, <2>1, <2>2, <2>3
<1> HIDE DEF Exist, Received, Want
<1> QED
  BY <1>3, <1>9, <1>10, <1>11, <1>12, <1>13, <1>14, <1>15, <1>16, <1>17, <1>18, <1>19,
     <1>20, <1>21, Zenon DEF HandleStep

\* A step that touches no file, after which what is asked for was already wanted.
LEMMA WantedIdle ==
    ASSUME TransferInv, UNCHANGED <<meta, data>>,
           crashes' = crashes \/ crashes' > 0,
           \A v \in Workers : \/ wk'[v] = wk[v]
                              \/ wk'[v].pc \in {"idle", "readHeader", "metaExists"},
           \A v \in Workers : crashes' = crashes /\ wk[v].pc = "metaWrite" => wk'[v] = wk[v],
           \A t \in Sessions : \A i \in 1..Len(toClient'[t]) :
              toClient'[t][i].type = "FILE_CHUNK_REQ" => Wanting(t)
    PROVE  WantedInv'
<1>1. ASSUME NEW p \in Paths PROVE HeaderInv(p)'
  <2>1. HeaderInv(p) /\ meta'[p] = meta[p]
    BY DEF TransferInv, WantedInv
  <2> QED
    BY <2>1, Zenon DEF HeaderInv
<1>2. ASSUME NEW v \in Workers PROVE CreatedInv(v)'
  <2>1. CASE wk'[v] = wk[v] /\ Busy(v)
    <3>1. wk[v].path = Path(wk[v].conn)
      BY <2>1 DEF TransferInv, WorkerInv, RequestInv
    <3>2. CreatedInv(v)
      BY DEF TransferInv, WantedInv
    <3> QED
      BY <2>1, <3>1, <3>2, CreatedFrame
  <2>2. CASE wk'[v] = wk[v] /\ ~Busy(v)
    BY <2>2 DEF CreatedInv, Busy
  <2>3. CASE wk'[v].pc \in {"idle", "readHeader", "metaExists"}
    BY <2>3 DEF CreatedInv, Busy
  <2> QED
    BY <2>1, <2>2, <2>3
<1>3. \A t \in Sessions : LengthInv(t)'
  BY DEF TransferInv, WantedInv, LengthInv
<1>4. \A t \in Sessions : Wanting(t)' <=> Wanting(t)
  BY WantingFrame
<1>5. \A t \in Sessions : \A i \in 1..Len(toClient'[t]) :
         toClient'[t][i].type = "FILE_CHUNK_REQ" => Wanting(t)'
  BY <1>4, Zenon
<1> QED
  BY <1>1, <1>2, <1>3, <1>5, Zenon DEF WantedInv

\* A step of a handler leaves what is asked for elsewhere as it is.
LEMMA WantedStep ==
    ASSUME TypeOK, TransferInv, SameContent, NEW w \in Workers, Step(w)
    PROVE  WantedInv'
<1>1. PICK s \in Sessions : wk[w].conn = s
  BY WorkerTypes
<1>2. /\ UNCHANGED toClient /\ Busy(w)
      /\ \A v \in Workers : v # w => wk'[v] = wk[v]
      /\ \A p \in Paths : p # wk[w].path => meta'[p] = meta[p] /\ data'[p] = data[p]
  BY StepFrame
<1>3. wk[w].path = Path(s)
  BY <1>1, <1>2, HandlerFacts
<1>4. ASSUME NEW v \in Workers PROVE CreatedInv(v)'
  <2>1. CASE v = w
    BY <1>1, <2>1, StepCreated
  <2>2. CASE v # w /\ Busy(v)
    <3>1. wk[v].path # wk[w].path /\ wk[v].path \in Paths
      BY <1>2, <2>2, WorkerAlone, WorkerTypes
    <3>2. UNCHANGED wk[v] /\ UNCHANGED <<meta[wk[v].path], data[wk[v].path]>>
      BY <1>2, <2>2, <3>1
    <3>3. CreatedInv(v) /\ wk[v].path = Path(wk[v].conn)
      BY <2>2 DEF TransferInv, WantedInv, WorkerInv, RequestInv
    <3> QED
      BY <3>2, <3>3, CreatedFrame, ZenonT(40)
  <2>3. CASE v # w /\ ~Busy(v)
    BY <1>2, <2>3 DEF CreatedInv, Busy
  <2> QED
    BY <2>1, <2>2, <2>3
<1>5. ASSUME NEW t \in Sessions PROVE LengthInv(t)'
  <2>1. CASE Path(t) = Path(s)
    <3>1. LengthInv(s)' /\ Content[t] = Content[s]
      BY <1>1, <2>1, StepLength DEF SameContent
    <3> QED
      BY <2>1, <3>1, Zenon DEF LengthInv
  <2>2. CASE Path(t) # Path(s)
    <3>1. data'[Path(t)] = data[Path(t)] /\ LengthInv(t)
      BY <1>2, <1>3, <2>2, ContentTypes DEF TransferInv, WantedInv
    <3> QED
      BY <3>1 DEF LengthInv
  <2> QED
    BY <2>1, <2>2
<1>6. ASSUME NEW t \in Sessions, NEW i \in 1..Len(toClient'[t]),
             toClient'[t][i].type = "FILE_CHUNK_REQ"
      PROVE  Wanting(t)'
  <2>1. i \in 1..Len(toClient[t]) /\ toClient[t][i].type = "FILE_CHUNK_REQ"
    BY <1>2, <1>6
  <2>2. Wanting(t)
    BY <2>1, Zenon DEF TransferInv, WantedInv
  <2>3. toClient[t] # <<>>
    BY <2>1, NotEmpty, Zenon
  <2>4. meta'[Path(t)] = meta[Path(t)]
    BY <1>2, <2>3, WorkerAway, ContentTypes
  <2> QED
    BY <2>2, <2>4, WantingFrame
<1>7. \A p \in Paths : HeaderInv(p)'
  BY StepHeader
<1> QED
  BY <1>4, <1>5, <1>6, <1>7, Zenon DEF WantedInv

\* Every step leaves it so that no chunk is asked for that is there already.
LEMMA WantedNext ==
    ASSUME TypeOK, SameContent, TransferInv, [Next]_vars
    PROVE  WantedInv'
<1>1. /\ toClient \in [Sessions -> Seq(ChunkReq \cup Complete)]
      /\ wk \in [Workers -> WorkerState] /\ crashes \in Nat
  BY DEF TypeOK, RemoteTypeOK
<1>2. \A t \in Sessions : \A i \in 1..Len(toClient[t]) :
         toClient[t][i].type = "FILE_CHUNK_REQ" => Wanting(t)
  BY DEF TransferInv, WantedInv
<1>3. ASSUME \A t \in Sessions : toClient'[t] = toClient[t] \/ toClient'[t] = <<>>
      PROVE  \A t \in Sessions : \A i \in 1..Len(toClient'[t]) :
                toClient'[t][i].type = "FILE_CHUNK_REQ" => Wanting(t)
  <2> SUFFICES ASSUME NEW t \in Sessions, NEW i \in 1..Len(toClient'[t]),
                      toClient'[t][i].type = "FILE_CHUNK_REQ"
               PROVE  Wanting(t)
    OBVIOUS
  <2>1. toClient'[t] # <<>>
    BY NotEmpty, Zenon
  <2>2. toClient'[t] = toClient[t]
    BY <1>3, <2>1
  <2> QED
    BY <1>2, <2>2
<1>4. ASSUME UNCHANGED <<meta, data, wk, crashes>>,
             \A t \in Sessions : toClient'[t] = toClient[t] \/ toClient'[t] = <<>>
      PROVE  WantedInv'
  BY <1>3, <1>4, WantedIdle
<1>5. ASSUME NEW s \in Sessions, StartSession(s) \/ ServerReceive(s) PROVE WantedInv'
  BY <1>4, <1>5 DEF StartSession, ServerReceive
<1>6. ASSUME NEW s \in Sessions, ClientHandle(s) PROVE WantedInv'
  <2>1. NetToken(s)
    BY DEF TransferInv, TokenInv
  <2>2. /\ UNCHANGED <<meta, data, wk, crashes>> /\ toClient[s] # <<>>
        /\ toClient' = [toClient EXCEPT ![s] = Tail(@)]
    BY <1>6, Zenon DEF ClientHandle
  <2>3. toClient'[s] = <<>>
    BY <1>1, <2>1, <2>2, ShortSeq DEF NetToken
  <2> QED
    BY <1>1, <1>4, <2>2, <2>3
<1>7. ASSUME NEW s \in Sessions, NEW state, HangUp(s, state) PROVE WantedInv'
  BY <1>1, <1>4, <1>7 DEF HangUp
<1>8. ASSUME NEW s \in Sessions, DropConnection(s) PROVE WantedInv'
  BY <1>1, <1>4, <1>8 DEF DropConnection
<1>9. ASSUME NEW w \in Workers, TakeRequest(w) PROVE WantedInv'
  <2>1. UNCHANGED <<meta, data, toClient, crashes>> /\ wk[w].pc = "idle"
    BY <1>9 DEF TakeRequest, Busy
  <2>2. \A v \in Workers : v # w => wk'[v] = wk[v]
    BY <1>9, TakeFrame
  <2>3. wk'[w].pc \in {"readHeader", "metaExists"}
    <3>1. IdleWorker \in WorkerState
      BY IdleWorkerType
    <3>2. \/ \E c, path, size, hash : StartOffer(w, c, path, size, hash)
          \/ \E c, path, idx, payload : StartChunkData(w, c, path, idx, payload)
      BY <1>9, Zenon DEF TakeRequest, StartRequest
    <3>3. ASSUME NEW c, NEW path, NEW size, NEW hash, StartOffer(w, c, path, size, hash)
          PROVE  wk'[w].pc = "metaExists"
      BY <1>1, <3>1, <3>3 DEF StartOffer, WorkerState
    <3>4. ASSUME NEW c, NEW path, NEW idx, NEW payload, StartChunkData(w, c, path, idx, payload)
          PROVE  wk'[w].pc = "readHeader"
      BY <1>1, <3>1, <3>4 DEF StartChunkData, WorkerState
    <3> QED
      BY <3>2, <3>3, <3>4
  <2> QED
    BY <1>3, <2>1, <2>2, <2>3, WantedIdle
<1>10. ASSUME NEW w \in Workers, Step(w) PROVE WantedInv'
  BY <1>10, WantedStep
<1>11. ASSUME NEW w \in Workers, Respond(w) PROVE WantedInv'
  <2>1. PICK s \in Sessions : wk[w].conn = s
    BY WorkerTypes
  <2>2. /\ UNCHANGED <<meta, data, crashes>> /\ wk' = [wk EXCEPT ![w] = IdleWorker]
        /\ wk[w].pc = "reply" /\ Busy(w)
    BY <1>11 DEF Respond, At, Busy
  <2>3. \A v \in Workers : v # w => wk'[v] = wk[v]
    BY <1>1, <2>2
  <2>4. wk'[w].pc = "idle"
    BY <1>1, <2>2, IdlePc
  <2>5. toClient[s] = <<>>
    BY <2>1, <2>2 DEF TransferInv, TokenInv, WorkerToken, AtServer
  <2>6. PICK m : m = IF wk[w].reply = "FILE_COMPLETE" THEN buildMsgComplete(wk[w].path)
                     ELSE buildMsgChunkReq(wk[w].path, wk[w].first)
    OBVIOUS
  <2>7. toClient' = toClient \/ toClient' = [toClient EXCEPT ![s] = Append(<<>>, m)]
    BY <1>11, <2>1, <2>5, <2>6 DEF Respond
  <2>8. m.type = "FILE_CHUNK_REQ" => Wanting(s)
    <3>1. StepInv(w, s) /\ CreatedInv(w)
      BY <2>1, <2>2 DEF TransferInv, WorkerInv, WantedInv
    <3>2. wk[w].reply \in {"FILE_COMPLETE", "FILE_CHUNK_REQ"}
      BY <2>2, <3>1 DEF StepInv
    <3>3. m.type = "FILE_CHUNK_REQ" => wk[w].reply = "FILE_CHUNK_REQ"
      BY <2>6, <3>2 DEF buildMsgComplete
    <3> QED
      BY <2>1, <2>2, <3>1, <3>3 DEF CreatedInv
  <2>9. ASSUME NEW t \in Sessions, NEW i \in 1..Len(toClient'[t]),
               toClient'[t][i].type = "FILE_CHUNK_REQ"
        PROVE  Wanting(t)
    <3>1. CASE toClient'[t] = toClient[t]
      BY <1>2, <2>9, <3>1
    <3>2. CASE t = s /\ toClient'[t] = Append(<<>>, m)
      BY <2>8, <2>9, <3>2
    <3> QED
      BY <1>1, <2>7, <3>1, <3>2
  <2> QED
    BY <2>2, <2>3, <2>4, <2>9, WantedIdle
<1>12. CASE ServerCrash
  <2>1. /\ UNCHANGED <<meta, data>> /\ crashes' > 0 /\ crashes' # crashes
        /\ wk' = [w \in Workers |-> IdleWorker]
    BY <1>1, <1>12 DEF ServerCrash
  <2>2. \A v \in Workers : wk'[v].pc = "idle"
    BY <2>1, IdlePc
  <2>3. \A t \in Sessions : toClient'[t] = toClient[t] \/ toClient'[t] = <<>>
    BY <1>12 DEF ServerCrash
  <2> QED
    BY <1>3, <2>1, <2>2, <2>3, WantedIdle
<1>13. CASE UNCHANGED vars
  BY <1>4, <1>13 DEF vars, netVars
<1> QED
  BY <1>5, <1>6, <1>7, <1>8, <1>9, <1>10, <1>11, <1>12, <1>13, ZenonT(40)
     DEF Next, ClientExit, KillClient, Finished

-----------------------------------------------------------------------------
(* The invariant, and what follows from it. *)

\* There are no files, no messages and no requests at first.
LEMMA TransferInvInit == Init => TransferInv
<1> SUFFICES ASSUME Init PROVE TransferInv
  OBVIOUS
<1>1. TokenInv /\ MessageInv
  BY TokenInit, MessageInit
<1>2. ExclusiveInv
  BY IdlePc, EmptySeq, SMTT(30) DEF Init, RemoteInit, ExclusiveInv, Active, Busy
<1>3. ASSUME NEW p \in Paths PROVE FileInv(p)
  <2>1. /\ meta[p].chunk_size = 0 /\ meta[p].size = 0 /\ meta[p].hash = <<>>
        /\ meta[p].bitmap = <<>> /\ data[p].bytes = <<>>
    BY DEF Init, RemoteInit, BlankMeta
  <2>2. AllZeros(data[p].bytes)
    BY <2>1, EmptySeq DEF AllZeros
  <2>3. 0..(getNumOfChunks(meta[p].size) - 1) = {}
    BY <2>1, NoChunks
  <2> QED
    BY <2>1, <2>2, <2>3, Zenon DEF FileInv, Blank
<1>4. \A w \in Workers : WorkerInv(w)
  BY IdlePc DEF Init, RemoteInit, WorkerInv, Busy
<1>5. \A s \in Sessions : ClientInv(s) /\ ExitInv(s)
  BY EmptySeq DEF Init, ClientInv, ExitInv
<1>6. WantedInv
  <2>1. \A p \in Paths : ~meta[p].exists /\ data[p].bytes = <<>>
    BY DEF Init, RemoteInit, BlankMeta
  <2>2. \A s \in Sessions : LengthInv(s)
    BY <2>1, ContentTypes, EmptySeq DEF LengthInv
  <2>3. \A s \in Sessions : 1..Len(toClient[s]) = {}
    BY EmptySeq DEF Init
  <2>4. \A w \in Workers : ~Busy(w)
    BY IdlePc DEF Init, RemoteInit, Busy
  <2> QED
    BY <2>1, <2>2, <2>3, <2>4, Zenon DEF WantedInv, HeaderInv, CreatedInv
<1> QED
  BY <1>1, <1>2, <1>3, <1>4, <1>5, <1>6 DEF TransferInv

\* A step that touches neither the files nor the workers.
LEMMA ServerIdle ==
    ASSUME TransferInv, UNCHANGED <<meta, data, wk>>
    PROVE  /\ \A p \in Paths : FileInv(p)'
           /\ \A w \in Workers : WorkerInv(w)'
BY FileFrame, WorkerFrame, ZenonT(40) DEF TransferInv

\* uploadsCompleted is what ends a client.
LEMMA ExitNext ==
    ASSUME TypeOK, [Next]_vars, NEW s \in Sessions, ExitInv(s)
    PROVE  ExitInv(s)'
<1>1. /\ st \in [Sessions -> {"new", "run", "done", "dead"}]
      /\ client_files \in [Sessions -> SUBSET Names]
  BY DEF TypeOK
<1>2. ASSUME NEW t \in Sessions, StartSession(t) PROVE ExitInv(s)'
  BY <1>1, <1>2 DEF StartSession, ExitInv
<1>3. ASSUME NEW t \in Sessions, ClientHandle(t) PROVE ExitInv(s)'
  BY <1>1, <1>3 DEF ClientHandle, ExitInv
<1>4. ASSUME NEW t \in Sessions, ClientExit(t) PROVE ExitInv(s)'
  BY <1>1, <1>4 DEF ClientExit, HangUp, ExitInv
<1>5. ASSUME NEW t \in Sessions, KillClient(t) PROVE ExitInv(s)'
  BY <1>1, <1>5 DEF KillClient, HangUp, ExitInv
<1>6. ASSUME UNCHANGED <<st, client_files>> PROVE ExitInv(s)'
  BY <1>6 DEF ExitInv
<1> QED
  BY <1>2, <1>3, <1>4, <1>5, <1>6, ZenonT(40)
     DEF Next, vars, netVars, ServerReceive, DropConnection, TakeRequest, Step, Respond,
         ServerCrash, Finished

\* Every step preserves the invariant.
LEMMA TransferInvNext ==
    ASSUME TypeOK, EXCLUSIVE, SameContent, TransferInv, [Next]_vars
    PROVE  TransferInv'
<1>1. /\ TokenInv' /\ MessageInv' /\ ExclusiveInv' /\ WantedInv'
      /\ \A s \in Sessions : ExitInv(s)'
  BY TokenNext, MessageNext, ExclusiveNext, WantedNext, ExitNext DEF TransferInv
<1> DEFINE Rest == /\ \A p \in Paths : FileInv(p)'
                   /\ \A w \in Workers : WorkerInv(w)'
                   /\ \A s \in Sessions : ClientInv(s)'
<1> SUFFICES Rest
  BY <1>1 DEF TransferInv
<1>2. /\ st \in [Sessions -> {"new", "run", "done", "dead"}]
      /\ client_files \in [Sessions -> SUBSET Names]
      /\ toClient \in [Sessions -> Seq(ChunkReq \cup Complete)]
      /\ wk \in [Workers -> WorkerState]
      /\ \A t \in Sessions : ClientInv(t)
  BY DEF TypeOK, RemoteTypeOK, TransferInv
<1>3. ASSUME NEW s \in Sessions, StartSession(s) PROVE Rest
  <2>1. ASSUME NEW t \in Sessions PROVE ClientInv(t)'
    <3>1. UNCHANGED <<meta, data, toClient>>
      BY <1>3 DEF StartSession
    <3>2. st'[t] # "new" /\ client_files'[t] = {} => st[t] # "new" /\ client_files[t] = {}
      BY <1>2, <1>3, Zenon DEF StartSession
    <3> QED
      BY <1>2, <3>1, <3>2, ClientFrame
  <2> QED
    BY <1>3, <2>1, ServerIdle DEF StartSession
<1>4. ASSUME NEW s \in Sessions, ClientHandle(s) PROVE Rest
  BY <1>4, ServerIdle, ClientHandleNext, Zenon DEF ClientHandle
<1>5. ASSUME NEW s \in Sessions, NEW state, HangUp(s, state), st[s] = "run" PROVE Rest
  <2>1. ASSUME NEW t \in Sessions PROVE ClientInv(t)'
    <3>1. UNCHANGED <<meta, data, client_files>>
      BY <1>5 DEF HangUp
    <3>2. st'[t] # "new" => st[t] # "new"
      BY <1>2, <1>5 DEF HangUp
    <3>3. toClient'[t] = toClient[t] \/ toClient'[t] = <<>>
      BY <1>2, <1>5 DEF HangUp
    <3> QED
      BY <1>2, <3>1, <3>2, <3>3, ClientFrame
  <2> QED
    BY <1>5, <2>1, ServerIdle DEF HangUp
<1>6. ASSUME NEW s \in Sessions, ServerReceive(s) PROVE Rest
  BY <1>2, <1>6, ServerIdle, ClientFrame DEF ServerReceive
<1>7. ASSUME NEW s \in Sessions, DropConnection(s) PROVE Rest
  <2>1. ASSUME NEW t \in Sessions PROVE ClientInv(t)'
    <3>1. UNCHANGED <<meta, data, st, client_files>>
      BY <1>7 DEF DropConnection
    <3>2. toClient'[t] = toClient[t] \/ toClient'[t] = <<>>
      BY <1>2, <1>7 DEF DropConnection
    <3> QED
      BY <1>2, <3>1, <3>2, ClientFrame
  <2> QED
    BY <1>7, <2>1, ServerIdle DEF DropConnection
<1>8. ASSUME NEW w \in Workers, TakeRequest(w) PROVE Rest
  <2>1. UNCHANGED <<meta, data, st, client_files, toClient>>
    BY <1>8 DEF TakeRequest
  <2>2. ASSUME NEW v \in Workers PROVE WorkerInv(v)'
    <3>1. CASE v = w
      BY <1>8, <3>1, TakeRequestNext
    <3>2. CASE v # w
      BY <1>8, <2>1, <3>2, TakeFrame, WorkerFrame, ZenonT(40) DEF TransferInv
    <3> QED
      BY <3>1, <3>2
  <2>3. \A p \in Paths : FileInv(p)'
    BY <2>1, FileFrame, Zenon DEF TransferInv
  <2>4. \A t \in Sessions : ClientInv(t)'
    BY <1>2, <2>1, ClientFrame
  <2> QED
    BY <2>2, <2>3, <2>4
<1>9. ASSUME NEW w \in Workers, Step(w) PROVE Rest
  BY <1>9, StepNext
<1>10. ASSUME NEW w \in Workers, Respond(w) PROVE Rest
  <2>1. UNCHANGED <<meta, data>> /\ wk' = [wk EXCEPT ![w] = IdleWorker]
    BY <1>10 DEF Respond
  <2>2. ASSUME NEW v \in Workers PROVE WorkerInv(v)'
    <3>1. CASE v = w
      BY <1>2, <2>1, <3>1, IdlePc DEF WorkerInv, Busy
    <3>2. CASE v # w
      <4>1. UNCHANGED wk[v]
        BY <1>2, <2>1, <3>2
      <4> QED
        BY <2>1, <4>1, WorkerFrame DEF TransferInv
    <3> QED
      BY <3>1, <3>2
  <2>3. \A p \in Paths : FileInv(p)'
    BY <2>1, FileFrame, Zenon DEF TransferInv
  <2> QED
    BY <1>10, <2>2, <2>3, RespondNext
<1>11. CASE ServerCrash
  <2>1. UNCHANGED <<meta, data, st, client_files>> /\ wk' = [w \in Workers |-> IdleWorker]
    BY <1>11 DEF ServerCrash
  <2>2. \A w \in Workers : WorkerInv(w)'
    BY <2>1, IdlePc DEF WorkerInv, Busy
  <2>3. \A p \in Paths : FileInv(p)'
    BY <2>1, FileFrame, ZenonT(40) DEF TransferInv
  <2>4. ASSUME NEW t \in Sessions PROVE ClientInv(t)'
    <3>1. toClient'[t] = toClient[t] \/ toClient'[t] = <<>>
      BY <1>11 DEF ServerCrash
    <3> QED
      BY <1>2, <2>1, <3>1, ClientFrame, ZenonT(40)
  <2> QED
    BY <2>2, <2>3, <2>4
<1>12. CASE UNCHANGED vars
  <2>1. UNCHANGED <<meta, data, wk, st, client_files, toClient>>
    BY <1>12 DEF vars, netVars
  <2> QED
    BY <1>2, <2>1, ServerIdle, ClientFrame
<1> HIDE DEF Rest
<1> QED
  BY <1>3, <1>4, <1>5, <1>6, <1>7, <1>8, <1>9, <1>10, <1>11, <1>12, ZenonT(40)
     DEF Next, ClientExit, KillClient, Finished

\* With one session at a time on a path, and the same file in all of them, the
\* invariant holds in every state.
THEOREM TransferInvCorrect ==
    ASSUME EXCLUSIVE, SameContent
    PROVE  Spec => []TransferInv
<1>1. TypeOK /\ TransferInv /\ [Next]_vars => TransferInv'
  BY TransferInvNext
<1> QED
  BY <1>1, TransferInvInit, TransferTypeCorrect, PTL DEF Spec

\* A bit of the bitmap is set only once the bytes of its chunk are in the received
\* file: saveChunk writes before it marks, and neither file is created again.
THEOREM BitmapIsTruthful ==
    ASSUME EXCLUSIVE, SameContent
    PROVE  Spec => []MarkedMeansSaved
<1>1. TransferInv => MarkedMeansSaved
  BY ZenonT(40) DEF TransferInv, FileInv, MarkedMeansSaved
<1> QED
  BY <1>1, TransferInvCorrect, PTL

\* A client that is told its file is complete, or has ended because of it, finds
\* exactly its bytes on the server: every chunk is marked and the hash was checked,
\* and what is written later are the same bytes.
THEOREM CompleteIsStored ==
    ASSUME EXCLUSIVE, SameContent
    PROVE  Spec => []CompleteMeansStored
<1>1. TransferInv => CompleteMeansStored
  BY ZenonT(40) DEF TransferInv, ClientInv, ExitInv, Delivered, CompleteMeansStored
<1> QED
  BY <1>1, TransferInvCorrect, PTL

\* What is asked for is missing.
LEMMA WantedIsNext ==
    ASSUME TypeOK, TransferInv, SameContent
    PROVE  RequestsNextMissing
<1> SUFFICES ASSUME NEW s \in Sessions, NEW i \in 1..Len(toClient[s]),
                    toClient[s][i].type = "FILE_CHUNK_REQ", ~Torn(Path(s))
             PROVE  LET missing == Missing(meta[Path(s)].bitmap, getNumOfChunks(Len(Content[s])))
                    IN  missing # {} /\ toClient[s][i].first = ToU16(Min(missing))
  BY Zenon DEF RequestsNextMissing
<1>1. PICK p \in Paths : p = Path(s)
  BY ContentTypes
<1>2. /\ toClient[s][i].first = ToU16(FirstMissingAt(p))
      /\ HeaderInv(p) /\ Wanting(s) /\ FileInv(p)
  BY <1>1, Zenon DEF TransferInv, ClientInv, WantedInv
<1>3. toClient[s] # <<>>
  BY NotEmpty, Zenon
<1>4. meta[p].exists /\ meta[p].chunk_size # 0
  <2>1. meta[p].exists
    BY <1>1, <1>2 DEF Wanting
  <2>2. ASSUME NEW w \in Workers, wk[w].pc = "metaWrite", wk[w].path = p PROVE FALSE
    BY <1>1, <1>3, <2>2, WorkerAway DEF Busy
  <2> QED
    BY <1>1, <1>2, <2>1, <2>2, Zenon DEF HeaderInv, Torn
<1>5. PICK t \in Sessions : Path(t) = p /\ Describes(meta[p], t)
  BY <1>2, <1>4 DEF FileInv, Blank
<1>6. meta[p].size = Len(Content[s])
  <2>1. Content[t] = Content[s]
    BY <1>1, <1>5 DEF SameContent
  <2> QED
    BY <1>5, <2>1 DEF Describes
<1>7. Missing(meta[p].bitmap, getNumOfChunks(Len(Content[s]))) # {}
  BY <1>1, <1>2, <1>4 DEF Wanting
<1> QED
  BY <1>1, <1>2, <1>6, <1>7, Zenon DEF FirstMissingAt, FirstMissing

\* A request for a chunk is made only when one is missing, and names the first that
\* is missing when the client gets it: no other request of the path is handled in
\* between. Where a crash has torn the metadata there is nothing to go by.
THEOREM RequestsAreCurrent ==
    ASSUME EXCLUSIVE, SameContent
    PROVE  Spec => []RequestsNextMissing
<1>1. TypeOK /\ TransferInv => RequestsNextMissing
  BY WantedIsNext
<1> QED
  BY <1>1, TransferInvCorrect, TransferTypeCorrect, PTL

-----------------------------------------------------------------------------
(* Progress. *)

\* The chunks of the file that are marked, per path.
MarkedChunks(p) ==
    {c \in 0..(getNumOfChunks(meta[p].size) - 1) : Marked(meta[p].bitmap, c)}

\* What is marked is saved, and so stored.
LEMMA StoredIsMarked ==
    ASSUME NEW p
    PROVE  /\ FileInv(p) => Stored(p) = MarkedChunks(p)
           /\ FileInv(p)' => Stored(p)' = MarkedChunks(p)'
BY Zenon DEF FileInv, Stored, MarkedChunks

\* Blank metadata has no chunks.
LEMMA BlankMarks ==
    ASSUME NEW p, Blank(meta[p])
    PROVE  MarkedChunks(p) = {}
BY NoChunks DEF Blank, MarkedChunks

\* A handler's step leaves what is marked as it is, or marks one more chunk of the
\* file it receives.
LEMMA MarksStep ==
    ASSUME TypeOK, TransferInv, SameContent, NEW w \in Workers, NEW s \in Sessions,
           wk[w].conn = s, Step(w)
    PROVE  \/ MarkedChunks(Path(s))' = MarkedChunks(Path(s))
           \/ \E c \in 0..(getNumOfChunks(Len(Content[s])) - 1) \ MarkedChunks(Path(s)) :
                 MarkedChunks(Path(s))' = MarkedChunks(Path(s)) \cup {c}
<1> DEFINE p == Path(s)
           n == getNumOfChunks(Len(Content[s]))
<1>1. /\ Busy(w) /\ wk[w].path = p /\ RequestInv(w, s) /\ StepInv(w, s)
      /\ Blank(meta[p]) \/ Describes(meta[p], s)
      /\ p \in Paths /\ n \in Nat /\ meta \in [Paths -> MetaFile] /\ meta[p] \in MetaFile
      /\ wk[w].idx \in Nat
  BY StepFrame, HandlerFacts, ContentTypes, WorkerTypes, ZenonT(40) DEF TypeOK, RemoteTypeOK
<1>2. CASE meta' = meta
  BY <1>2 DEF MarkedChunks
<1>3. CASE MetaOpen(w)
  <2>1. ~meta[p].exists
    BY <1>1, <1>3, ZenonT(40) DEF MetaOpen, At, StepInv
  <2>2. Blank(meta[p])
    BY <1>1, <2>1, ZenonT(40) DEF Describes
  <2>3. meta'[p].size = 0
    BY <1>1, <1>3, ZenonT(40) DEF MetaOpen, BlankMeta
  <2>4. MarkedChunks(p)' = {}
    BY <2>3, NoChunks, SMTT(30) DEF MarkedChunks
  <2> QED
    BY <2>2, <2>4, BlankMarks
<1>4. CASE MetaWrite(w)
  <2> DEFINE size == wk[w].size
             fresh == bitmap_size(getNumOfChunks(size))
  <2>1. Blank(meta[p]) /\ size \in Nat /\ size = Len(Content[s])
    BY <1>1, <1>4, ContentTypes, ZenonT(40) DEF MetaWrite, At, StepInv, RequestInv
  <2>2. meta[p].bitmap = <<>> /\ Len(meta[p].bitmap) = 0 /\ fresh \in Nat
    BY <2>1, EmptySeq, ChunkCount, BitmapSize, ZenonT(40) DEF Blank
  <2>3. meta'[p].bitmap = [i \in 1..(IF fresh > Len(meta[p].bitmap) THEN fresh
                                     ELSE Len(meta[p].bitmap)) |->
                             IF i <= fresh THEN {} ELSE meta[p].bitmap[i]]
    BY <1>1, <1>4, ZenonT(40) DEF MetaWrite
  <2> HIDE DEF fresh
  <2>4. \A i \in DOMAIN meta'[p].bitmap : meta'[p].bitmap[i] = {}
    BY <2>2, <2>3
  <2>5. MarkedChunks(p)' = {}
    BY <2>4 DEF MarkedChunks, Marked
  <2> QED
    BY <2>1, <2>5, BlankMarks
<1>5. CASE MarkWrite(w)
  <2> DEFINE idx == wk[w].idx
             bm == meta[p].bitmap
             new == markChunk(bm, idx, TRUE)
  <2>1. /\ wk[w].pc = "markWrite" /\ wk[w].op = "FILE_CHUNK_DATA"
        /\ ByteOf(idx) \in DOMAIN bm /\ wk[w].byte = bm[ByteOf(idx)]
    BY <1>1, <1>5, WorkerTypes DEF MarkWrite, At, StepInv, RequestInv, Ops
  <2>2. Describes(meta[p], s) /\ Sendable(s, idx)
    BY <1>1, <2>1, ZenonT(40) DEF RequestInv
  <2>3. bm \in Bitmap(n) /\ meta[p].size = Len(Content[s]) /\ idx \in 0..(n - 1)
    BY <1>1, <2>2, SendableChunk, Zenon DEF Describes
  <2>4. meta'[p].size = meta[p].size /\ meta'[p].bitmap = new
    <3>1. meta'[p] = [meta[p] EXCEPT !.bitmap =
                         PutByte(bm, ByteOf(idx), MarkedByte(wk[w].byte, idx, TRUE))]
      BY <1>1, <1>5 DEF MarkWrite
    <3>2. new = PutByte(bm, ByteOf(idx), MarkedByte(wk[w].byte, idx, TRUE))
      BY <2>1, Zenon DEF markChunk
    <3> QED
      BY <1>1, <3>1, <3>2, ZenonT(40) DEF MetaFile
  <2> HIDE DEF idx, bm, new
  <2>5. Marked(new, idx)
    BY <1>1, <2>3, MarkChunkSets, Zenon DEF new
  <2>6. ASSUME NEW c \in 0..(n - 1), c # idx
        PROVE  Marked(new, c) <=> Marked(bm, c)
    <3>1. c \in Nat /\ idx \in Nat
      BY <1>1, <2>3, <2>6, SMTT(30)
    <3> QED
      BY <1>1, <2>3, <2>6, <3>1, MarkChunkBits, ZenonT(40) DEF new
  <2>7. /\ MarkedChunks(p) = {c \in 0..(n - 1) : Marked(bm, c)}
        /\ MarkedChunks(p)' = {c \in 0..(n - 1) : Marked(new, c)}
    BY <2>3, <2>4 DEF MarkedChunks, bm, n
  <2> HIDE DEF n, p
  <2>8. MarkedChunks(p)' = MarkedChunks(p) \cup {idx}
    BY <2>3, <2>5, <2>6, <2>7
  <2>9. MarkedChunks(p)' = MarkedChunks(p) \/ idx \in 0..(n - 1) \ MarkedChunks(p)
    BY <2>3, <2>8
  <2> QED
    BY <2>8, <2>9 DEF n, p
<1> QED
  BY <1>2, <1>3, <1>4, <1>5, ZenonT(40)
     DEF Step, HandleStep, ReadHeader, MetaExists, FileExists, FileOpen, FileExtend,
         SaveChunk, MarkRead, Scan, CheckHash, RequestNext

\* Only the steps of the handlers write to the metadata.
LEMMA MetaNext ==
    ASSUME [Next]_vars
    PROVE  meta' = meta \/ \E w \in Workers : Step(w)
BY Zenon DEF Next, vars, StartSession, ClientHandle, ClientExit, KillClient, HangUp,
       ServerReceive, DropConnection, TakeRequest, Respond, ServerCrash, Finished

\* Neither a new offer of the file nor a restart of the server ever clears a bit.
THEOREM ProgressIsKept ==
    ASSUME EXCLUSIVE, SameContent
    PROVE  Spec => ProgressKept
<1> DEFINE Kept == \A p \in Paths : \A c \in 0..(getNumOfChunks(meta[p].size) - 1) :
                      Marked(meta[p].bitmap, c) => Marked(meta'[p].bitmap, c)
<1>1. ASSUME TypeOK, TransferInv, [Next]_vars
      PROVE  Kept
  <2>1. CASE meta' = meta
    BY <2>1
  <2>2. ASSUME NEW w \in Workers, Step(w), NEW p \in Paths,
               NEW c \in 0..(getNumOfChunks(meta[p].size) - 1), Marked(meta[p].bitmap, c)
        PROVE  Marked(meta'[p].bitmap, c)
    <3>1. PICK s \in Sessions : wk[w].conn = s
      BY <1>1, WorkerTypes
    <3>2. wk[w].path = Path(s)
      BY <1>1, <2>2, <3>1, StepFrame, HandlerFacts, ZenonT(40)
    <3>3. CASE p # Path(s)
      BY <1>1, <2>2, <3>2, <3>3, StepFrame
    <3>4. CASE p = Path(s)
      <4>1. c \in MarkedChunks(p)
        BY <2>2 DEF MarkedChunks
      <4>2. c \in MarkedChunks(p)'
        BY <1>1, <2>2, <3>1, <3>4, <4>1, MarksStep
      <4> QED
        BY <4>2 DEF MarkedChunks
    <3> QED
      BY <3>3, <3>4
  <2> QED
    BY <1>1, <2>1, <2>2, MetaNext
<1>2. TypeOK /\ TransferInv /\ [Next]_vars => [Kept]_vars
  BY <1>1
<1> QED
  BY <1>2, TransferInvCorrect, TransferTypeCorrect, PTL DEF Spec, ProgressKept

-----------------------------------------------------------------------------
(* Transfer implements Upload. *)

\* The clients that know their file to be complete.
Told == {s \in Sessions : st[s] # "new" /\ client_files[s] = {}}

\* A handler's step stores one chunk, or nothing.
LEMMA StepStores ==
    ASSUME TypeOK, TransferInv, TransferInv', SameContent, NEW w \in Workers, Step(w)
    PROVE  \/ [p \in Paths |-> Stored(p)]' = [p \in Paths |-> Stored(p)]
           \/ \E s \in Sessions : Upload!Store(s)
<1> DEFINE S == [p \in Paths |-> Stored(p)]
<1>1. PICK s \in Sessions : wk[w].conn = s
  BY WorkerTypes
<1>2. /\ UNCHANGED <<st, client_files>> /\ wk[w].path = Path(s) /\ Path(s) \in Paths
      /\ \A p \in Paths : p # Path(s) => meta'[p] = meta[p] /\ data'[p] = data[p]
  BY <1>1, StepFrame, HandlerFacts, ContentTypes, ZenonT(40)
<1>3. \A p \in Paths : Stored(p) = MarkedChunks(p) /\ Stored(p)' = MarkedChunks(p)'
  BY StoredIsMarked DEF TransferInv
<1>4. \A p \in Paths : p # Path(s) => Stored(p)' = Stored(p)
  BY <1>2, <1>3 DEF MarkedChunks
<1>5. CASE MarkedChunks(Path(s))' = MarkedChunks(Path(s))
  <2>1. \A p \in Paths : Stored(p)' = Stored(p)
    BY <1>3, <1>4, <1>5
  <2> QED
    BY <2>1
<1>6. ASSUME NEW c \in 0..(getNumOfChunks(Len(Content[s])) - 1) \ MarkedChunks(Path(s)),
             MarkedChunks(Path(s))' = MarkedChunks(Path(s)) \cup {c}
      PROVE  Upload!Store(s)
  <2>1. c \in Upload!Chunks(s) \ S[Path(s)]
    BY <1>2, <1>3, ZenonT(40) DEF Upload!Chunks
  <2>2. S' = [S EXCEPT ![Path(s)] = @ \cup {c}]
    <3>1. Stored(Path(s))' = Stored(Path(s)) \cup {c}
      BY <1>2, <1>3, <1>6
    <3> QED
      BY <1>2, <1>4, <3>1, ZenonT(40)
  <2>3. Told' = Told
    BY <1>2 DEF Told
  <2>4. [t \in Sessions |-> Path(t)][s] = Path(s)
    OBVIOUS
  <2> QED
    BY <2>1, <2>2, <2>3, <2>4, ZenonT(40) DEF Upload!Store, Told
<1> QED
  BY <1>1, <1>5, <1>6, MarksStep

\* Only the handling of a FILE_COMPLETE makes a client know, and then its file is
\* there.
LEMMA ClientLearns ==
    ASSUME TypeOK, TransferInv, SameContent, NEW s \in Sessions, ClientHandle(s)
    PROVE  Told' = Told \/ Upload!Tell(s)
<1> DEFINE S == [p \in Paths |-> Stored(p)]
<1>1. /\ UNCHANGED <<meta, data, st>> /\ st[s] = "run" /\ toClient[s] # <<>>
      /\ client_files \in [Sessions -> SUBSET Names]
      /\ st \in [Sessions -> {"new", "run", "done", "dead"}]
      /\ toClient[s] \in Seq(ChunkReq \cup Complete)
  BY DEF ClientHandle, TypeOK
<1>2. 1 \in 1..Len(toClient[s]) /\ Head(toClient[s]) = toClient[s][1]
  BY <1>1, TailFacts
<1>3. CASE toClient[s][1].type # "FILE_COMPLETE"
  <2>1. client_files' = client_files
    BY <1>2, <1>3 DEF ClientHandle
  <2> QED
    BY <1>1, <2>1 DEF Told
<1>4. CASE toClient[s][1].type = "FILE_COMPLETE"
  <2>1. Delivered(s) /\ Path(s) \in Paths
    BY <1>2, <1>4, ContentTypes, ZenonT(40) DEF TransferInv, ClientInv
  <2>2. S' = S
    BY <1>1 DEF Stored, Saved
  <2>3. S[Path(s)] = Upload!Chunks(s) \/ s \in {t \in Sessions : AllZeros(Content[t])}
    <3>1. CASE AllZeros(Content[s])
      BY <3>1
    <3>2. CASE /\ Describes(meta[Path(s)], s)
               /\ Missing(meta[Path(s)].bitmap, getNumOfChunks(Len(Content[s]))) = {}
      <4>1. meta[Path(s)].size = Len(Content[s])
        BY <3>2 DEF Describes
      <4>2. Stored(Path(s)) = MarkedChunks(Path(s))
        BY <2>1, StoredIsMarked DEF TransferInv
      <4>3. MarkedChunks(Path(s)) = 0..(getNumOfChunks(Len(Content[s])) - 1)
        BY <3>2, <4>1 DEF MarkedChunks, Missing
      <4>4. Upload!Chunks(s) = 0..(getNumOfChunks(Len(Content[s])) - 1)
        BY DEF Upload!Chunks
      <4> QED
        BY <2>1, <4>2, <4>3, <4>4
    <3> QED
      BY <2>1, <3>1, <3>2, Zenon DEF Delivered
  <2>4. Told' = Told \/ Told' = Told \cup {s}
    <3>1. \A t \in Sessions : t # s => client_files'[t] = client_files[t]
      BY <1>1, ZenonT(40) DEF ClientHandle
    <3>2. client_files[s] = {} => client_files'[s] = {}
      BY <1>1 DEF ClientHandle
    <3> QED
      BY <1>1, <3>1, <3>2 DEF Told
  <2>5. [t \in Sessions |-> Path(t)][s] = Path(s)
    OBVIOUS
  <2>6. Told' = Told \cup {s} => Upload!Tell(s)
    BY <2>2, <2>3, <2>5, ZenonT(40) DEF Upload!Tell, Told
  <2> QED
    BY <2>4, <2>6
<1> QED
  BY <1>3, <1>4

\* The other steps store nothing and tell nobody.
LEMMA OtherSteps ==
    ASSUME TypeOK, [Next]_vars, \A w \in Workers : ~Step(w),
           \A s \in Sessions : ~ClientHandle(s)
    PROVE  Told' = Told /\ [p \in Paths |-> Stored(p)]' = [p \in Paths |-> Stored(p)]
<1>1. UNCHANGED <<meta, data>>
  BY Zenon DEF Next, vars, StartSession, ClientExit, KillClient, HangUp, ServerReceive,
         DropConnection, TakeRequest, Respond, ServerCrash, Finished
<1>2. /\ st \in [Sessions -> {"new", "run", "done", "dead"}]
      /\ client_files \in [Sessions -> SUBSET Names]
  BY DEF TypeOK
<1>3. \A t \in Sessions : (st'[t] # "new" /\ client_files'[t] = {})
                           <=> (st[t] # "new" /\ client_files[t] = {})
  <2>1. ASSUME NEW s \in Sessions, StartSession(s), NEW t \in Sessions
        PROVE  (st'[t] # "new" /\ client_files'[t] = {})
               <=> (st[t] # "new" /\ client_files[t] = {})
    BY <1>2, <2>1, Zenon DEF StartSession
  <2>2. ASSUME NEW s \in Sessions, NEW state \in {"done", "dead"}, st[s] = "run",
               HangUp(s, state), NEW t \in Sessions
        PROVE  (st'[t] # "new" /\ client_files'[t] = {})
               <=> (st[t] # "new" /\ client_files[t] = {})
    BY <1>2, <2>2 DEF HangUp
  <2>3. \/ \E s \in Sessions : StartSession(s)
        \/ \E s \in Sessions : st[s] = "run" /\ (HangUp(s, "done") \/ HangUp(s, "dead"))
        \/ UNCHANGED <<st, client_files>>
    BY Zenon DEF Next, vars, netVars, ClientExit, KillClient, ServerReceive, DropConnection,
           TakeRequest, Respond, ServerCrash, Finished
  <2> QED
    BY <2>1, <2>2, <2>3
<1>4. Told' = Told
  BY <1>3 DEF Told
<1> QED
  BY <1>1, <1>4 DEF Stored, Saved

\* Every step of Transfer is a step of Upload or changes nothing that it sees.
LEMMA UploadSimulation ==
    ASSUME TypeOK, TransferInv, TransferInv', SameContent, [Next]_vars
    PROVE  [Upload!Next]_<<[p \in Paths |-> Stored(p)], Told>>
<1> DEFINE S == [p \in Paths |-> Stored(p)]
<1>1. ASSUME NEW w \in Workers, Step(w)
      PROVE  [Upload!Next]_<<S, Told>>
  <2>1. Told' = Told
    BY <1>1, StepFrame DEF Told
  <2>2. CASE S' = S
    BY <2>1, <2>2
  <2>3. CASE S' # S
    BY <1>1, <2>3, StepStores, Zenon DEF Upload!Next
  <2> QED
    BY <2>2, <2>3
<1>2. ASSUME NEW s \in Sessions, ClientHandle(s)
      PROVE  [Upload!Next]_<<S, Told>>
  <2>1. S' = S
    BY <1>2, ZenonT(40) DEF ClientHandle, Stored, Saved
  <2>2. CASE Told' = Told
    BY <2>1, <2>2
  <2>3. CASE Told' # Told
    BY <1>2, <2>3, ClientLearns, ZenonT(40) DEF Upload!Next, Told
  <2> QED
    BY <2>2, <2>3
<1>3. CASE (\A w \in Workers : ~Step(w)) /\ (\A s \in Sessions : ~ClientHandle(s))
  BY <1>3, OtherSteps
<1> QED
  BY <1>1, <1>2, <1>3

\* Seen from the clients, an upload is what Upload says: the server's store grows by
\* one chunk at a time and never shrinks, whatever is killed or crashes in between,
\* and a client learns that its file is complete only when every chunk is there.
THEOREM TransferIsUpload ==
    ASSUME EXCLUSIVE, SameContent
    PROVE  Spec => ImplementsUpload
<1>1. Init => Upload!Init
  <2> SUFFICES ASSUME Init PROVE Upload!Init
    OBVIOUS
  <2>1. ASSUME NEW p \in Paths PROVE Stored(p) = {}
    <3>1. meta[p].size = 0
      BY DEF Init, RemoteInit, BlankMeta
    <3> QED
      BY <3>1, NoChunks DEF Stored
  <2>2. Told = {}
    BY DEF Init, Told
  <2> QED
    BY <2>1, <2>2 DEF Upload!Init, Told
<1>2. TypeOK /\ TransferInv /\ TransferInv' /\ [Next]_vars
      => [Upload!Next]_<<[p \in Paths |-> Stored(p)], Told>>
  BY UploadSimulation
<1>3. TypeOK /\ TransferInv /\ TransferInv' /\ [Next]_vars
      => [Upload!Next]_<<[p \in Paths |-> Stored(p)],
                         {s \in Sessions : st[s] # "new" /\ client_files[s] = {}}>>
  BY <1>2 DEF Told
<1> QED
  BY <1>1, <1>3, TransferInvCorrect, TransferTypeCorrect, PTL
     DEF Spec, Upload!Spec, ImplementsUpload
=============================================================================
