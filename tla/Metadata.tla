------------------------------ MODULE Metadata ------------------------------
(***************************************************************************)
(* The chunk arithmetic of a file and the operations of FileMetadata on    *)
(* the progress bitmap kept in ".<name>.meta".                             *)
(*                                                                         *)
(* A bitmap is the part of the metadata file that follows the header, a    *)
(* sequence of bytes.  A byte is the set of the bit positions that are     *)
(* set, counted from the most significant bit (the code's mask for chunk c *)
(* is 1 << (7 - c % 8)).                                                   *)
(***************************************************************************)
EXTENDS Integers, Sequences, FiniteSets, FiniteSetsExt

CONSTANTS
    CHUNK_SIZE,  \* payload bytes of a chunk (3968 in the code)
    U16,         \* number of values of a uint16_t (2^16)
    U64          \* number of values of a size_t (2^64)

ASSUME WidthAssumption ==
    /\ CHUNK_SIZE \in Nat \ {0}
    /\ U16 \in Nat \ {0}
    /\ U64 \in Nat \ {0}
    /\ U64 % U16 = 0

UINT64_MAX == U64 - 1

\* Assigning to a uint16_t parameter.
ToU16(n) == n % U16

-----------------------------------------------------------------------------
(* Chunks of a file of a given size. *)

getNumOfChunks(size) ==
    size \div CHUNK_SIZE + (IF size % CHUNK_SIZE > 0 THEN 1 ELSE 0)

\* The first byte of a chunk.
ChunkOffset(idx) == idx * CHUNK_SIZE

\* The length of a chunk: the last one may be short.
ChunkLength(size, idx) ==
    IF size - ChunkOffset(idx) < CHUNK_SIZE
    THEN size - ChunkOffset(idx) ELSE CHUNK_SIZE

-----------------------------------------------------------------------------
(* The bitmap. *)

Bits == 0..7
Byte == SUBSET Bits

\* The bytes needed for one bit per chunk.
bitmap_size(n_chunks) ==
    n_chunks \div 8 + (IF n_chunks % 8 > 0 THEN 1 ELSE 0)

Bitmap(n_chunks) == [1..bitmap_size(n_chunks) -> Byte]

EmptyBitmap(n_chunks) == [i \in 1..bitmap_size(n_chunks) |-> {}]

\* The byte of the bitmap that holds the bit of a chunk.
ByteOf(idx) == (idx \div 8) + 1

\* The bit of a chunk is set.
Marked(bitmap, idx) ==
    /\ ByteOf(idx) \in DOMAIN bitmap
    /\ idx % 8 \in bitmap[ByteOf(idx)]

\* Byte k is stored; a file that ends before it is extended with zeros.
PutByte(bitmap, k, byte) ==
    [i \in 1..(IF k > Len(bitmap) THEN k ELSE Len(bitmap)) |->
        IF i = k THEN byte ELSE IF i \in DOMAIN bitmap THEN bitmap[i] ELSE {}]

\* A defect: the neighbouring bit is set.
MarkedByte_off_by_one(byte, idx, valid) ==
    IF valid THEN byte \cup {(idx + 1) % 8} ELSE byte \ {(idx + 1) % 8}

\* The byte that markChunk writes back over the byte it has read.
MarkedByte(byte, idx, valid) ==
    IF valid THEN byte \cup {idx % 8} ELSE byte \ {idx % 8}

\* A defect: the failure to read past the end of the file is overcome.
markChunk_extends(bitmap, idx, valid) ==
    PutByte(bitmap, ByteOf(idx),
            MarkedByte(IF ByteOf(idx) \in DOMAIN bitmap THEN bitmap[ByteOf(idx)] ELSE {},
                       idx, valid))

\* markChunk when nothing else touches the file. Reading past the end of the
\* file fails, and then the stream writes nothing.
markChunk(bitmap, idx, valid) ==
    IF ByteOf(idx) \in DOMAIN bitmap
    THEN PutByte(bitmap, ByteOf(idx), MarkedByte(bitmap[ByteOf(idx)], idx, valid))
    ELSE bitmap

\* The bytes that stop the scan for a byte other than 0xFF.
NotFull(bitmap, from) == {b \in DOMAIN bitmap : b >= ByteOf(from) /\ bitmap[b] # Bits}

\* A defect: the padding of the last byte is taken for a missing chunk.
nextMissingChunk_padding(bitmap, n_chunks, from) ==
    LET b == Min(NotFull(bitmap, from))
    IN  IF NotFull(bitmap, from) # {}
        THEN (b - 1) * 8 + Min(Bits \ bitmap[b]) ELSE UINT64_MAX

\* The scan skips full bytes from from_chunk_idx / 8 on, then looks for the first
\* zero bit of the byte it stopped at. A zero bit past the last chunk is padding.
nextMissingChunk(bitmap, n_chunks, from) ==
    LET b   == Min(NotFull(bitmap, from))
        ret == (b - 1) * 8 + Min(Bits \ bitmap[b])
    IN  IF NotFull(bitmap, from) # {} /\ ret < n_chunks THEN ret ELSE UINT64_MAX

-----------------------------------------------------------------------------
(* Reference definitions. *)

\* The chunks of the file that are not marked.
Missing(bitmap, n_chunks) == {c \in 0..(n_chunks - 1) : ~Marked(bitmap, c)}

\* What the caller of nextMissingChunk(0) wants.
FirstMissing(bitmap, n_chunks) ==
    IF Missing(bitmap, n_chunks) = {} THEN UINT64_MAX
    ELSE Min(Missing(bitmap, n_chunks))
=============================================================================
