--------------------------- MODULE MetadataProofs ---------------------------
(***************************************************************************)
(* Proofs about the metadata file, for files of any size: the scan of      *)
(* nextMissingChunk finds the first missing chunk, and markChunk changes   *)
(* the bit of one chunk.                                                   *)
(***************************************************************************)
EXTENDS MetadataFile, MetadataLemmas, TLAPS

\* The number of chunks of the file, and the indices that reach markChunk.
LEMMA IndexTypes ==
    ASSUME TypeOK
    PROVE  n_chunks \in Nat /\ bitmap \in Bitmap(n_chunks) /\ ValidIdx \subseteq Nat
<1>1. file_size \in Nat
  BY SizesAssumption, WidthAssumption DEF TypeOK
<1>2. n_chunks \in Nat
  BY <1>1, ChunkCount DEF n_chunks
<1> QED
  BY <1>2 DEF TypeOK, ValidIdx

\* The header and the bitmap always have their types: in particular the bitmap
\* keeps the length it was created with.
THEOREM MetadataTypeCorrect == Spec => []TypeOK
<1>1. Init => TypeOK
  <2> SUFFICES ASSUME Init PROVE EmptyBitmap(n_chunks) \in Bitmap(n_chunks)
    BY DEF Init, TypeOK
  <2> QED
    BY DEF EmptyBitmap, Bitmap, Byte
<1>2. TypeOK /\ [Next]_vars => TypeOK'
  <2> SUFFICES ASSUME TypeOK, [Next]_vars PROVE TypeOK'
    OBVIOUS
  <2>1. ASSUME NEW idx \in ValidIdx, NEW valid \in BOOLEAN, Mark(idx, valid)
        PROVE  TypeOK'
    <3>1. idx \in Nat
      BY IndexTypes
    <3>2. markChunk(bitmap, idx, valid) \in Bitmap(n_chunks)
      BY <3>1, IndexTypes, MarkChunkBytes
    <3> QED
      BY <2>1, <3>2 DEF Mark, TypeOK, n_chunks
  <2>2. CASE UNCHANGED vars
    BY <2>2 DEF vars, TypeOK, n_chunks
  <2> QED
    BY <2>1, <2>2 DEF Next
<1> QED
  BY <1>1, <1>2, PTL DEF Spec

\* In every state of the metadata file, nextMissingChunk(0) answers with the first
\* chunk that is missing.
THEOREM NextMissingCorrect == Spec => []NextMissingIsFirst
<1>1. TypeOK => NextMissingIsFirst
  BY IndexTypes, NextMissingFirst DEF NextMissingIsFirst
<1> QED
  BY <1>1, MetadataTypeCorrect, PTL

\* Marking or unmarking a chunk changes that chunk as asked, and never another one.
THEOREM MarkIsLocal == Spec => MarkTouchesOneChunk
<1> DEFINE Local == \A idx \in ValidIdx, valid \in BOOLEAN : Mark(idx, valid) =>
                       \A c \in 0..(n_chunks - 1) :
                           Marked(bitmap, c)' <=>
                               (IF c = idx THEN valid ELSE Marked(bitmap, c))
<1>1. TypeOK /\ [Next]_vars => [Local]_vars
  <2> SUFFICES ASSUME TypeOK, NEW idx \in ValidIdx, NEW valid \in BOOLEAN,
                      Mark(idx, valid), NEW c \in 0..(n_chunks - 1)
               PROVE  Marked(bitmap, c)' <=>
                          (IF c = idx THEN valid ELSE Marked(bitmap, c))
    OBVIOUS
  <2>1. idx \in Nat /\ n_chunks \in Nat /\ bitmap \in Bitmap(n_chunks) /\ c \in Nat
    BY IndexTypes
  <2>2. Marked(bitmap, c)' <=> Marked(markChunk(bitmap, idx, valid), c)
    BY DEF Mark, Marked
  <2>3. CASE c = idx
    <3>1. Marked(markChunk(bitmap, c, valid), c) <=> valid
      BY <2>1, MarkChunkSets
    <3> QED
      BY <2>2, <2>3, <3>1, Zenon
  <2>4. CASE c # idx
    <3>1. Marked(markChunk(bitmap, idx, valid), c) <=> Marked(bitmap, c)
      BY <2>1, <2>4, MarkChunkBits
    <3> QED
      BY <2>2, <2>4, <3>1, Zenon
  <2> QED
    BY <2>3, <2>4
<1> QED
  BY <1>1, MetadataTypeCorrect, PTL DEF Spec, MarkTouchesOneChunk
=============================================================================
