---------------------------- MODULE MetadataFile ----------------------------
(***************************************************************************)
(* The metadata file of one upload, used by one thread at a time: it is    *)
(* created for a file of some size and its chunks are then marked and      *)
(* unmarked in any order.                                                  *)
(***************************************************************************)
EXTENDS Metadata

CONSTANT Sizes  \* the file sizes considered

ASSUME SizesAssumption == Sizes \subseteq 0..(U64 - 1)

VARIABLES
    file_size,  \* the size in the header
    bitmap      \* the bytes after the header

vars == <<file_size, bitmap>>

n_chunks == getNumOfChunks(file_size)

TypeOK ==
    /\ file_size \in Sizes
    /\ bitmap \in Bitmap(n_chunks)

\* createIfNotExist: every bit is 0.
Init ==
    /\ file_size \in Sizes
    /\ bitmap = EmptyBitmap(n_chunks)

\* The indices that FileRemote::saveChunk lets through to markChunk.
ValidIdx == {i \in 0..n_chunks : ChunkOffset(i) <= file_size}

Mark(idx, valid) ==
    /\ bitmap' = markChunk(bitmap, idx, valid)
    /\ UNCHANGED file_size

Next == \E idx \in ValidIdx, valid \in BOOLEAN : Mark(idx, valid)

Spec == Init /\ [][Next]_vars

-----------------------------------------------------------------------------
\* nextMissingChunk(0), which skips bytes and then bits, finds the least chunk
\* whose bit is clear, and UINT64_MAX exactly when no chunk of the file is
\* missing, whatever the padding of the last byte holds.
NextMissingIsFirst ==
    nextMissingChunk(bitmap, n_chunks, 0) = FirstMissing(bitmap, n_chunks)

\* markChunk rewrites a whole byte, and of all chunks only the one it is given
\* changes: that one is marked, or unmarked, as it was asked to.
MarkTouchesOneChunk ==
    [][\A idx \in ValidIdx, valid \in BOOLEAN : Mark(idx, valid) =>
          \A c \in 0..(n_chunks - 1) :
              Marked(bitmap, c)' <=> (IF c = idx THEN valid ELSE Marked(bitmap, c))]_vars
=============================================================================
