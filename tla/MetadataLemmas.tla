--------------------------- MODULE MetadataLemmas ---------------------------
(***************************************************************************)
(* Facts about the operators of Metadata, for files of any size.           *)
(***************************************************************************)
EXTENDS Metadata, WellFoundedInduction, TLAPS

\* Every nonempty set of natural numbers has a least element, and Min names it.
LEMMA MinIsLeast ==
    ASSUME NEW S, S \subseteq Nat, S # {}
    PROVE  Min(S) \in S /\ \A y \in S : Min(S) <= y
<1>1. \E x \in S : \A y \in S : ~(<<y, x>> \in OpToRel(<, Nat))
  BY NatLessThanWellFounded, WFMin
<1>2. \A x, y \in Nat : y < x => <<y, x>> \in OpToRel(<, Nat)
  BY DEF OpToRel
<1>3. \E x \in S : \A y \in S : x <= y
  <2>1. PICK x \in S : \A y \in S : ~(<<y, x>> \in OpToRel(<, Nat))
    BY <1>1
  <2>2. \A y \in S : ~(y < x)
    BY <1>2, <2>1
  <2> QED
    BY <2>2
<1> QED
  BY <1>3 DEF Min

\* The number of chunks is a natural number.
LEMMA ChunkCount ==
    ASSUME NEW size \in Nat
    PROVE  getNumOfChunks(size) \in Nat
<1>1. size \div CHUNK_SIZE \in Nat
  BY WidthAssumption
<1> QED
  BY <1>1 DEF getNumOfChunks

\* The size of the bitmap is one too, and the bitmap has a bit for every chunk.
LEMMA BitmapSize ==
    ASSUME NEW n \in Nat
    PROVE  /\ bitmap_size(n) \in Nat
           /\ \A c \in 0..(n - 1) : ByteOf(c) \in 1..bitmap_size(n)
BY DEF bitmap_size, ByteOf

\* The bit k of byte b + 1 is that of chunk b * 8 + k.
LEMMA BytePosition ==
    ASSUME NEW b \in Nat, NEW k \in Bits
    PROVE  b * 8 + k \in Nat /\ ByteOf(b * 8 + k) = b + 1 /\ (b * 8 + k) % 8 = k
BY DEF Bits, ByteOf

\* A chunk is where its byte and its position in the byte say.
LEMMA PositionByte ==
    ASSUME NEW c \in Nat
    PROVE  c \div 8 \in Nat /\ c % 8 \in Bits /\ c = (c \div 8) * 8 + (c % 8)
BY DEF Bits

-----------------------------------------------------------------------------
\* nextMissingChunk(0) finds the first missing chunk, for any bitmap of any length,
\* whatever its padding holds.
LEMMA NextMissingFirst ==
    ASSUME NEW n \in Nat, NEW bm \in Bitmap(n)
    PROVE  nextMissingChunk(bm, n, 0) = FirstMissing(bm, n)
<1> DEFINE N == NotFull(bm, 0)
           M == Missing(bm, n)
           b == Min(N)
           k == Min(Bits \ bm[b])
           ret == (b - 1) * 8 + k
<1>1. DOMAIN bm = 1..bitmap_size(n) /\ bitmap_size(n) \in Nat
  BY BitmapSize DEF Bitmap
<1>2. N \subseteq Nat /\ M \subseteq Nat
  BY <1>1 DEF NotFull, Missing
<1>3. \A i \in DOMAIN bm : i \in N <=> bm[i] # Bits
  BY <1>1 DEF NotFull, ByteOf
<1>4. ASSUME N # {}
      PROVE  /\ b \in N /\ \A y \in N : b <= y
             /\ k \in Bits \ bm[b] /\ \A y \in Bits \ bm[b] : k <= y
  <2>1. b \in N /\ \A y \in N : b <= y
    BY <1>2, <1>4, MinIsLeast
  <2>2. bm[b] \in SUBSET Bits /\ bm[b] # Bits
    BY <1>1, <1>3, <2>1 DEF NotFull, Bitmap, Byte
  <2>3. Bits \ bm[b] # {} /\ Bits \ bm[b] \subseteq Nat
    BY <2>2 DEF Bits
  <2>4. k \in Bits \ bm[b] /\ \A y \in Bits \ bm[b] : k <= y
    BY <2>3, MinIsLeast
  <2> QED
    BY <2>1, <2>4
<1>5. ASSUME N # {}, ret < n PROVE ret \in M
  <2>1. b \in DOMAIN bm /\ b \in Nat /\ b - 1 \in Nat /\ k \in Bits /\ k \notin bm[b]
    BY <1>1, <1>4, <1>5 DEF NotFull
  <2>2. ret \in Nat /\ ByteOf(ret) = (b - 1) + 1 /\ ret % 8 = k
    BY <2>1, BytePosition
  <2> HIDE DEF ret, b, k
  <2>3. ByteOf(ret) = b
    BY <2>1, <2>2
  <2>4. ret \in 0..(n - 1) /\ ~Marked(bm, ret)
    BY <1>5, <2>1, <2>2, <2>3 DEF Marked
  <2> QED
    BY <2>4 DEF Missing
<1>6. nextMissingChunk(bm, n, 0) = IF N # {} /\ ret < n THEN ret ELSE UINT64_MAX
  BY DEF nextMissingChunk
<1>7. CASE M = {}
  BY <1>5, <1>6, <1>7 DEF FirstMissing
<1>8. CASE M # {}
  <2> DEFINE m == Min(M)
  <2>1. m \in M /\ \A y \in M : m <= y
    BY <1>2, <1>8, MinIsLeast
  <2>2. m \in 0..(n - 1) /\ ~Marked(bm, m)
    BY <2>1 DEF Missing
  <2>3. ByteOf(m) \in DOMAIN bm /\ m % 8 \in Bits \ bm[ByteOf(m)]
    <3>1. ByteOf(m) \in DOMAIN bm
      BY <1>1, <2>2, BitmapSize
    <3>2. m % 8 \in Bits
      BY <2>2, PositionByte
    <3> QED
      BY <2>2, <3>1, <3>2 DEF Marked
  <2>4. ByteOf(m) \in N
    BY <1>3, <2>3
  <2>5. b \in Nat \ {0} /\ k \in Bits /\ b <= ByteOf(m)
    BY <1>1, <1>4, <2>4 DEF NotFull
  <2>6. ret <= m
    <3>1. CASE b < ByteOf(m)
      BY <2>2, <2>5, <3>1 DEF Bits, ByteOf
    <3>2. CASE b = ByteOf(m)
      <4>1. k <= m % 8
        BY <1>4, <2>3, <2>4, <3>2
      <4>2. m = (m \div 8) * 8 + (m % 8) /\ m % 8 \in Nat
        BY <2>2, PositionByte DEF Bits
      <4>3. b - 1 = m \div 8 /\ m \div 8 \in Nat
        BY <2>2, <3>2, PositionByte DEF ByteOf
      <4> HIDE DEF k, b, m
      <4> QED
        BY <2>5, <4>1, <4>2, <4>3 DEF Bits
    <3>3. ByteOf(m) \in Nat
      BY <2>2 DEF ByteOf
    <3> HIDE DEF ret, b, m
    <3> QED
      BY <2>5, <3>1, <3>2, <3>3
  <2>7. ret < n /\ ret \in Nat
    BY <2>2, <2>5, <2>6 DEF Bits
  <2>8. m <= ret
    BY <1>5, <2>1, <2>4, <2>7
  <2>9. ret = m
    BY <2>2, <2>6, <2>7, <2>8
  <2> QED
    BY <1>6, <1>8, <2>4, <2>7, <2>9 DEF FirstMissing
<1> QED
  BY <1>7, <1>8

-----------------------------------------------------------------------------
(* Marking a chunk. *)

\* A marked byte is a byte.
LEMMA MarkedByteType ==
    ASSUME NEW byte \in Byte, NEW idx \in Nat, NEW valid \in BOOLEAN
    PROVE  MarkedByte(byte, idx, valid) \in Byte
BY DEF MarkedByte, Byte, Bits

\* markChunk keeps the length of the bitmap, and replaces at most one byte.
LEMMA MarkChunkBytes ==
    ASSUME NEW n \in Nat, NEW bm \in Bitmap(n), NEW idx \in Nat, NEW valid \in BOOLEAN
    PROVE  /\ markChunk(bm, idx, valid) \in Bitmap(n)
           /\ \A i \in DOMAIN bm :
                 markChunk(bm, idx, valid)[i] =
                     IF i = ByteOf(idx) THEN MarkedByte(bm[i], idx, valid) ELSE bm[i]
<1>1. DOMAIN bm = 1..bitmap_size(n) /\ bitmap_size(n) \in Nat /\ ByteOf(idx) \in Nat
  BY BitmapSize DEF Bitmap, ByteOf
<1>2. CASE ByteOf(idx) \notin DOMAIN bm
  BY <1>2 DEF markChunk
<1>3. CASE ByteOf(idx) \in DOMAIN bm
  <2> DEFINE byte == MarkedByte(bm[ByteOf(idx)], idx, valid)
  <2>1. ByteOf(idx) <= Len(bm) /\ DOMAIN bm = 1..Len(bm) /\ Len(bm) \in Nat
    BY <1>1, <1>3 DEF Bitmap
  <2>2. markChunk(bm, idx, valid)
           = [i \in DOMAIN bm |-> IF i = ByteOf(idx) THEN byte ELSE bm[i]]
    BY <1>3, <2>1 DEF markChunk, PutByte
  <2>3. \A i \in DOMAIN bm : bm[i] \in Byte
    BY DEF Bitmap
  <2>4. byte \in Byte
    BY <1>3, <2>3, MarkedByteType
  <2> HIDE DEF byte
  <2>5. markChunk(bm, idx, valid) \in [DOMAIN bm -> Byte]
    BY <2>2, <2>3, <2>4
  <2> QED
    BY <1>1, <2>2, <2>5 DEF Bitmap, byte
<1> QED
  BY <1>2, <1>3

\* The bit of any other chunk stays as it is.
LEMMA MarkChunkBits ==
    ASSUME NEW n \in Nat, NEW bm \in Bitmap(n), NEW idx \in Nat, NEW valid \in BOOLEAN,
           NEW c \in Nat, c # idx
    PROVE  Marked(markChunk(bm, idx, valid), c) <=> Marked(bm, c)
<1>1. DOMAIN markChunk(bm, idx, valid) = DOMAIN bm
  BY MarkChunkBytes DEF Bitmap
<1>2. CASE ByteOf(c) # ByteOf(idx)
  BY <1>1, <1>2, MarkChunkBytes DEF Marked
<1>3. CASE ByteOf(c) = ByteOf(idx)
  <2>1. c % 8 # idx % 8
    BY <1>3, PositionByte DEF ByteOf
  <2>2. \A byte : c % 8 \in MarkedByte(byte, idx, valid) <=> c % 8 \in byte
    BY <2>1 DEF MarkedByte
  <2> QED
    BY <1>1, <1>3, <2>2, MarkChunkBytes DEF Marked
<1> QED
  BY <1>2, <1>3

\* markChunk gives the chunk it is asked to the bit it is asked to, if the chunk is
\* one of the file.
LEMMA MarkChunkSets ==
    ASSUME NEW n \in Nat, NEW bm \in Bitmap(n), NEW idx \in 0..(n - 1),
           NEW valid \in BOOLEAN
    PROVE  Marked(markChunk(bm, idx, valid), idx) <=> valid
<1>1. idx \in Nat
  OBVIOUS
<1>2. DOMAIN bm = 1..bitmap_size(n) /\ ByteOf(idx) \in DOMAIN bm
  BY BitmapSize DEF Bitmap
<1>3. DOMAIN markChunk(bm, idx, valid) = DOMAIN bm
  BY <1>1, MarkChunkBytes DEF Bitmap
<1>4. markChunk(bm, idx, valid)[ByteOf(idx)] = MarkedByte(bm[ByteOf(idx)], idx, valid)
  BY <1>1, <1>2, MarkChunkBytes
<1>5. idx % 8 \in MarkedByte(bm[ByteOf(idx)], idx, valid) <=> valid
  BY Zenon DEF MarkedByte
<1> QED
  BY <1>2, <1>3, <1>4, <1>5, Zenon DEF Marked

-----------------------------------------------------------------------------
(* Bitmaps of a length that nothing is known about. *)

\* A function on an initial segment of the positive numbers is a sequence.
LEMMA IsSequence ==
    ASSUME NEW S, NEW n \in Nat, NEW f \in [1..n -> S]
    PROVE  f \in Seq(S)
OBVIOUS

\* Storing a byte into a bitmap yields a bitmap.
LEMMA PutByteType ==
    ASSUME NEW bm \in Seq(Byte), NEW k \in Nat, NEW byte \in Byte
    PROVE  PutByte(bm, k, byte) \in Seq(Byte)
<1> DEFINE n == IF k > Len(bm) THEN k ELSE Len(bm)
<1>1. n \in Nat /\ {} \in Byte
  BY DEF Byte
<1>2. PutByte(bm, k, byte) \in [1..n -> Byte]
  BY <1>1 DEF PutByte
<1> HIDE DEF n
<1> QED
  BY <1>1, <1>2, IsSequence

\* What the scan finds is an integer.
LEMMA NextMissingType ==
    ASSUME NEW bm \in Seq(Byte), NEW n \in Nat
    PROVE  nextMissingChunk(bm, n, 0) \in Int
<1> DEFINE N == NotFull(bm, 0)
           b == Min(N)
           k == Min(Bits \ bm[b])
<1>1. CASE N = {}
  BY <1>1, WidthAssumption DEF nextMissingChunk, UINT64_MAX
<1>2. CASE N # {}
  <2>1. N \subseteq Nat
    BY DEF NotFull
  <2>2. b \in N
    BY <1>2, <2>1, MinIsLeast
  <2>3. b \in DOMAIN bm /\ bm[b] # Bits /\ b \in Nat
    BY <2>1, <2>2 DEF NotFull
  <2>4. bm[b] \in SUBSET Bits
    BY <2>3 DEF Byte
  <2>5. Bits \ bm[b] # {} /\ Bits \ bm[b] \subseteq Nat
    BY <2>3, <2>4 DEF Bits
  <2>6. k \in Nat
    BY <2>5, MinIsLeast
  <2>7. nextMissingChunk(bm, n, 0) \in {(b - 1) * 8 + k, UINT64_MAX}
    BY DEF nextMissingChunk
  <2> HIDE DEF b, k
  <2> QED
    BY <2>3, <2>6, <2>7, WidthAssumption DEF UINT64_MAX
<1> QED
  BY <1>1, <1>2

-----------------------------------------------------------------------------
(* Chunks and their bytes. *)

\* A product grows with its first factor.
LEMMA TimesMonotone ==
    ASSUME NEW a \in Nat, NEW b \in Nat, NEW k \in Nat, a <= b
    PROVE  a * k <= b * k
<1>1. (b - a) * k \in Nat
  <2>1. b - a \in Nat
    OBVIOUS
  <2> QED
    BY <2>1
<1>2. b * k = a * k + (b - a) * k
  OBVIOUS
<1>3. a * k \in Nat /\ b * k \in Nat
  OBVIOUS
<1> QED
  BY <1>1, <1>2, <1>3

\* Division by a positive number, and its rest.
LEMMA DivMod ==
    ASSUME NEW a \in Nat, NEW k \in Nat \ {0}
    PROVE  /\ a \div k \in Nat /\ a % k \in 0..(k - 1) /\ k * (a \div k) \in Nat
           /\ a - k * (a \div k) = a % k
<1>1. a \div k \in Nat
  OBVIOUS
<1>2. a % k \in 0..(k - 1)
  OBVIOUS
<1>3. a - k * (a \div k) = a % k
  BY Z3
<1> QED
  BY <1>1, <1>2, <1>3

\* The chunks of a file are those that start before its end.
LEMMA ChunkIn ==
    ASSUME NEW size \in Nat, NEW c \in Nat
    PROVE  /\ ChunkOffset(c) \in Nat
           /\ c < getNumOfChunks(size) <=> ChunkOffset(c) < size
<1> DEFINE q == size \div CHUNK_SIZE
           r == size % CHUNK_SIZE
           n == getNumOfChunks(size)
<1>1. q \in Nat /\ r \in 0..(CHUNK_SIZE - 1) /\ size = q * CHUNK_SIZE + r
  <2>1. q \in Nat /\ r \in 0..(CHUNK_SIZE - 1) /\ CHUNK_SIZE * q \in Nat
        /\ size - CHUNK_SIZE * q = r
    BY DivMod, WidthAssumption
  <2> HIDE DEF q, r
  <2>2. CHUNK_SIZE * q = q * CHUNK_SIZE
    BY <2>1, WidthAssumption
  <2> QED
    BY <2>1, <2>2, WidthAssumption
<1>2. n = q + (IF r > 0 THEN 1 ELSE 0)
  BY DEF getNumOfChunks
<1>3. CHUNK_SIZE \in Nat /\ CHUNK_SIZE > 0
  BY WidthAssumption
<1>4. c * CHUNK_SIZE \in Nat /\ q * CHUNK_SIZE \in Nat
      /\ (q + 1) * CHUNK_SIZE = q * CHUNK_SIZE + CHUNK_SIZE
      /\ (c + 1) * CHUNK_SIZE = c * CHUNK_SIZE + CHUNK_SIZE
  BY <1>1, <1>3
<1>5. (c <= q => c * CHUNK_SIZE <= q * CHUNK_SIZE)
      /\ (q <= c => q * CHUNK_SIZE <= c * CHUNK_SIZE)
      /\ (c + 1 <= q => (c + 1) * CHUNK_SIZE <= q * CHUNK_SIZE)
      /\ (q + 1 <= c => (q + 1) * CHUNK_SIZE <= c * CHUNK_SIZE)
  BY <1>1, <1>3, TimesMonotone
<1> DEFINE cc == c * CHUNK_SIZE
           qq == q * CHUNK_SIZE
<1>6. cc \in Nat /\ qq \in Nat /\ size = qq + r
      /\ (c <= q => cc <= qq) /\ (q <= c => qq <= cc)
      /\ (c + 1 <= q => cc + CHUNK_SIZE <= qq) /\ (q + 1 <= c => qq + CHUNK_SIZE <= cc)
  BY <1>1, <1>4, <1>5
<1> HIDE DEF q, r, n, cc, qq
<1>7. c < n <=> cc < size
  BY <1>1, <1>2, <1>3, <1>6
<1> QED
  BY <1>6, <1>7 DEF n, cc, ChunkOffset

\* A chunk of a file has at least one byte, and ends where the file does or before.
LEMMA ChunkExtent ==
    ASSUME NEW size \in Nat, NEW c \in Nat, ChunkOffset(c) < size
    PROVE  /\ ChunkOffset(c) \in Nat
           /\ ChunkLength(size, c) \in Nat /\ ChunkLength(size, c) >= 1
           /\ ChunkOffset(c) + ChunkLength(size, c) <= size
<1>1. ChunkOffset(c) \in Nat
  BY ChunkIn
<1>2. CHUNK_SIZE \in Nat /\ CHUNK_SIZE > 0
  BY WidthAssumption
<1> QED
  BY <1>1, <1>2 DEF ChunkLength

\* Every byte of a file lies in one of its chunks.
LEMMA ByteInChunk ==
    ASSUME NEW size \in Nat, NEW i \in 1..size
    PROVE  \E c \in 0..(getNumOfChunks(size) - 1) :
              i \in ChunkOffset(c) + 1..ChunkOffset(c) + ChunkLength(size, c)
<1>1. PICK k \in Nat : k = i - 1 /\ k < size
  OBVIOUS
<1>2. CHUNK_SIZE \in Nat \ {0}
  BY WidthAssumption
<1>3. PICK c \in Nat : /\ CHUNK_SIZE * c \in Nat
                       /\ k - CHUNK_SIZE * c \in 0..(CHUNK_SIZE - 1)
  BY <1>1, <1>2, DivMod, Zenon
<1>4. ChunkOffset(c) = CHUNK_SIZE * c
  BY <1>2, <1>3 DEF ChunkOffset
<1>5. PICK o \in Nat : o = ChunkOffset(c)
  BY <1>3, <1>4
<1>6. o <= k /\ k < o + CHUNK_SIZE
  BY <1>2, <1>3, <1>4, <1>5
<1>7. c < getNumOfChunks(size)
  BY <1>1, <1>5, <1>6, ChunkIn
<1>8. c \in 0..(getNumOfChunks(size) - 1)
  BY <1>7, ChunkCount
<1>9. i \in o + 1..o + ChunkLength(size, c)
  BY <1>1, <1>2, <1>5, <1>6 DEF ChunkLength
<1> QED
  BY <1>5, <1>8, <1>9
=============================================================================
