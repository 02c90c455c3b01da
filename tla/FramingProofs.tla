--------------------------- MODULE FramingProofs ----------------------------
(***************************************************************************)
(* Proofs about Framing, for any messages and any size of the kernel's     *)
(* buffer: the types, and that the parser stays in step with the sender    *)
(* until something follows a message that was cut.                         *)
(***************************************************************************)
EXTENDS Framing, SequenceTheorems, TLAPS

-----------------------------------------------------------------------------
(* Numbers and sequences. *)

\* The lesser of two numbers.
LEMMA MinOfTwo ==
    ASSUME NEW a \in Int, NEW b \in Int
    PROVE  Min({a, b}) = IF a <= b THEN a ELSE b
<1> DEFINE c == IF a <= b THEN a ELSE b
<1>1. c \in {a, b} /\ \A y \in {a, b} : c <= y
  OBVIOUS
<1>2. \A x \in {a, b} : (\A y \in {a, b} : x <= y) => x = c
  OBVIOUS
<1> QED
  BY <1>1, <1>2 DEF Min

\* One sequence after another.
LEMMA ConcatFacts ==
    ASSUME NEW S, NEW q \in Seq(S), NEW r \in Seq(S)
    PROVE  /\ q \o r \in Seq(S)
           /\ Len(q \o r) = Len(q) + Len(r)
           /\ \A i \in 1..Len(q) : (q \o r)[i] = q[i]
           /\ \A i \in 1..Len(r) : (q \o r)[Len(q) + i] = r[i]
OBVIOUS

\* Division with remainder.
LEMMA DivMod ==
    ASSUME NEW a \in Nat, NEW k \in Nat \ {0}
    PROVE  /\ a \div k \in Nat /\ a % k \in 0..(k - 1) /\ k * (a \div k) \in Nat
           /\ a - k * (a \div k) = a % k
<1>1. a \div k \in Nat /\ a % k \in 0..(k - 1)
  OBVIOUS
<1>2. k * (a \div k) \in Nat
  BY <1>1
<1>3. a - k * (a \div k) = a % k
  BY Z3
<1> QED
  BY <1>1, <1>2, <1>3

\* The bytes of the model.
LEMMA ByteWidth ==
    /\ BYTE \in Nat /\ BYTE > 5 /\ MSGTYPE_MAX = 5
    /\ BYTE * BYTE \in Nat
    /\ MAGIC[1] \in Bytes /\ MAGIC[2] \in Bytes /\ MAGIC[3] \in Bytes
    /\ MAGIC \in Seq(Bytes) /\ Len(MAGIC) = 3
<1>1. MSGTYPE_MAX = 5
  BY DEF MSGTYPE_MAX, MSGTYPE
<1>2. BYTE \in Nat /\ BYTE > 5
  BY <1>1, MessageAssumption
<1>3. MAGIC \in Bytes \X Bytes \X Bytes
  BY MessageAssumption
<1>4. MAGIC = <<MAGIC[1], MAGIC[2], MAGIC[3]>>
      /\ MAGIC[1] \in Bytes /\ MAGIC[2] \in Bytes /\ MAGIC[3] \in Bytes
  BY <1>3
<1>5. MAGIC \in Seq(Bytes) /\ Len(MAGIC) = 3
  <2>1. \A a, b, c \in Bytes : <<a, b, c>> \in Seq(Bytes) /\ Len(<<a, b, c>>) = 3
    OBVIOUS
  <2>2. PICK a \in Bytes, b \in Bytes, c \in Bytes : MAGIC = <<a, b, c>>
    BY <1>4
  <2> QED
    BY <2>1, <2>2
<1>6. BYTE * BYTE \in Nat
  BY <1>2
<1> QED
  BY <1>1, <1>2, <1>4, <1>5, <1>6

\* putU16 gives two bytes, and for a number that has no more they are its digits.
LEMMA PutU16Facts ==
    ASSUME NEW val \in Nat
    PROVE  /\ putU16(val) \in Seq(Bytes) /\ Len(putU16(val)) = 2
           /\ val \in UINT16 => putU16(val)[1] * BYTE + putU16(val)[2] = val
<1> DEFINE hi == val \div BYTE
           lo == val % BYTE
<1>1. BYTE \in Nat \ {0}
  BY ByteWidth
<1>2. hi \in Nat /\ lo \in 0..(BYTE - 1) /\ BYTE * hi \in Nat /\ val - BYTE * hi = lo
  BY <1>1, DivMod
<1>3. hi % BYTE \in 0..(BYTE - 1)
  BY <1>1, <1>2, DivMod
<1>4. putU16(val) = <<hi % BYTE, lo>>
  BY DEF putU16
<1> HIDE DEF hi, lo
<1>5. putU16(val) \in Seq(Bytes) /\ Len(putU16(val)) = 2
  BY <1>2, <1>3, <1>4 DEF Bytes
<1>6. ASSUME val \in UINT16 PROVE hi % BYTE = hi
  <2>1. val < BYTE * BYTE
    BY <1>1, <1>6 DEF UINT16
  <2>2. hi < BYTE
    <3>1. SUFFICES ASSUME hi >= BYTE PROVE FALSE
      BY <1>1, <1>2
    <3>2. BYTE * hi >= BYTE * BYTE
      BY <1>1, <1>2, <3>1, Z3
    <3> QED
      BY <1>1, <1>2, <2>1, <3>2
  <2> QED
    BY <1>1, <1>2, <2>2
<1>7. hi * BYTE = BYTE * hi
  BY <1>1, <1>2
<1> QED
  BY <1>1, <1>2, <1>4, <1>5, <1>6, <1>7

\* putU32 gives four bytes.
LEMMA PutU32Type ==
    ASSUME NEW val \in Nat
    PROVE  putU32(val) \in Seq(Bytes) /\ Len(putU32(val)) = 4
<1>1. BYTE * BYTE \in Nat \ {0}
  BY ByteWidth
<1>2. val \div (BYTE * BYTE) \in Nat
  BY <1>1, DivMod
<1>3. PICK high : high = val \div (BYTE * BYTE)
  OBVIOUS
<1>4. /\ putU16(high) \in Seq(Bytes) /\ Len(putU16(high)) = 2
      /\ putU16(val) \in Seq(Bytes) /\ Len(putU16(val)) = 2
  BY <1>2, <1>3, PutU16Facts
<1>5. putU32(val) = putU16(high) \o putU16(val)
  BY <1>3 DEF putU32
<1>6. \A q, r \in Seq(Bytes) : q \o r \in Seq(Bytes) /\ Len(q \o r) = Len(q) + Len(r)
  BY ConcatFacts
<1>7. /\ putU16(high) \o putU16(val) \in Seq(Bytes)
      /\ Len(putU16(high) \o putU16(val)) = Len(putU16(high)) + Len(putU16(val))
  BY <1>4, <1>6, Zenon
<1> QED
  BY <1>4, <1>5, <1>7

-----------------------------------------------------------------------------
(* What serialize writes. *)

\* The fields of a message.
LEMMA MessageFields ==
    ASSUME NEW m \in Messages
    PROVE  /\ m.seq_number \in Nat
           /\ m.client_uuid \in Seq(Bytes)
           /\ m.file_name \in Seq(Bytes) /\ Len(m.file_name) \in 0..UINT8_MAX
           /\ \/ /\ m.type = "FILE_OFFER" /\ m.body.file_size \in Nat
                 /\ m.body.file_n_chunks \in Nat /\ m.body.file_hash \in Seq(Bytes)
              \/ /\ m.type = "FILE_CHUNK_REQ" /\ m.body.chunk_idx_first \in Nat
                 /\ m.body.chunk_idx_last \in Nat
              \/ /\ m.type = "FILE_CHUNK_DATA" /\ m.body.idx \in Nat
                 /\ m.body.data \in Seq(Bytes)
              \/ m.type = "FILE_COMPLETE"
<1>1. m \in AllMessages /\ Len(m.file_name) <= UINT8_MAX
  BY FramingAssumption
<1>2. \A n \in Nat : \A f \in [1..n -> Bytes] : f \in Seq(Bytes)
  OBVIOUS
<1>3. UINT16 \subseteq Nat /\ UINT32 \subseteq Nat
  BY DEF UINT16, UINT32
<1>4. UUID_SIZE \in Nat /\ HASH_SIZE \in Nat
  BY MessageAssumption
<1>5. \/ /\ m.type = "FILE_OFFER" /\ m.body.file_size \in UINT32
         /\ m.body.file_n_chunks \in UINT32 /\ m.body.file_hash \in [1..HASH_SIZE -> Bytes]
      \/ /\ m.type = "FILE_CHUNK_REQ" /\ m.body.chunk_idx_first \in UINT32
         /\ m.body.chunk_idx_last \in UINT32
      \/ /\ m.type = "FILE_CHUNK_DATA" /\ m.body.idx \in UINT32 /\ m.body.data \in Seq(Bytes)
      \/ m.type = "FILE_COMPLETE"
  BY <1>1 DEF AllMessages, OfType
<1>6. /\ m.seq_number \in UINT16 /\ m.client_uuid \in [1..UUID_SIZE -> Bytes]
      /\ m.file_name \in Seq(Bytes)
  BY <1>1 DEF AllMessages, OfType
<1>7. Len(m.file_name) \in 0..UINT8_MAX
  BY <1>1, <1>6, LenProperties, ByteWidth DEF UINT8_MAX
<1> QED
  BY <1>2, <1>3, <1>4, <1>5, <1>6, <1>7

\* One byte sequence after another.
LEMMA JoinBytes ==
    ASSUME NEW q \in Seq(Bytes), NEW r \in Seq(Bytes)
    PROVE  /\ q \o r \in Seq(Bytes) /\ Len(q \o r) = Len(q) + Len(r)
           /\ \A i \in 1..Len(q) : (q \o r)[i] = q[i]
           /\ \A i \in 1..Len(r) : (q \o r)[Len(q) + i] = r[i]
BY ConcatFacts

\* What follows the fields that all messages have.
LEMMA BodyType ==
    ASSUME NEW m \in Messages
    PROVE  Body(m) \in Seq(Bytes)
<1>1. CASE m.type = "FILE_OFFER"
  <2>1. /\ putU32(m.body.file_size) \in Seq(Bytes)
        /\ putU32(m.body.file_n_chunks) \in Seq(Bytes) /\ m.body.file_hash \in Seq(Bytes)
    BY <1>1, MessageFields, PutU32Type
  <2>2. Body(m) = putU32(m.body.file_size) \o putU32(m.body.file_n_chunks)
                     \o m.body.file_hash
    BY <1>1 DEF Body
  <2>3. putU32(m.body.file_size) \o putU32(m.body.file_n_chunks) \in Seq(Bytes)
    BY <2>1, JoinBytes, Zenon
  <2> QED
    BY <2>1, <2>2, <2>3, JoinBytes, Zenon
<1>2. CASE m.type = "FILE_CHUNK_REQ"
  <2>1. /\ putU32(m.body.chunk_idx_first) \in Seq(Bytes)
        /\ putU32(m.body.chunk_idx_last) \in Seq(Bytes)
    BY <1>2, MessageFields, PutU32Type
  <2>2. Body(m) = putU32(m.body.chunk_idx_first) \o putU32(m.body.chunk_idx_last)
    BY <1>2 DEF Body
  <2> QED
    BY <2>1, <2>2, JoinBytes, Zenon
<1>3. CASE m.type = "FILE_CHUNK_DATA"
  <2>1. /\ putU32(m.body.idx) \in Seq(Bytes) /\ putU16(Len(m.body.data)) \in Seq(Bytes)
        /\ m.body.data \in Seq(Bytes)
    BY <1>3, MessageFields, PutU32Type, PutU16Facts, LenProperties
  <2>2. Body(m) = putU32(m.body.idx) \o putU16(Len(m.body.data)) \o m.body.data
    BY <1>3 DEF Body
  <2>3. putU32(m.body.idx) \o putU16(Len(m.body.data)) \in Seq(Bytes)
    BY <2>1, JoinBytes, Zenon
  <2> QED
    BY <2>1, <2>2, <2>3, JoinBytes, Zenon
<1>4. CASE m.type = "FILE_COMPLETE"
  BY <1>4 DEF Body
<1> QED
  BY <1>1, <1>2, <1>3, <1>4, MessageFields

\* What follows the envelope.
LEMMA ContentsType ==
    ASSUME NEW m \in Messages
    PROVE  /\ Contents(m) \in Seq(Bytes)
           /\ Len(Contents(m)) \in Nat /\ Len(Contents(m)) >= 3
           /\ Len(Contents(m)) \in UINT16
<1> DEFINE l == Len(m.file_name)
           A == putU16(m.seq_number)
           B == A \o m.client_uuid
           C == B \o <<l>>
           D == C \o SubSeq(m.file_name, 1, l)
<1>1. /\ l \in Int /\ l \in Nat /\ l \in Bytes /\ m.file_name \in Seq(Bytes)
      /\ UINT8_MAX \in Int /\ l <= UINT8_MAX
  BY MessageFields, ByteWidth DEF Bytes, UINT8_MAX
<1>2. Min({l, UINT8_MAX}) = l
  <2>1. \A a, b \in Int : a <= b => Min({a, b}) = a
    BY MinOfTwo
  <2> QED
    BY <1>1, <2>1, Zenon
<1>3. Contents(m) = D \o Body(m)
  BY <1>2 DEF Contents
<1>4. A \in Seq(Bytes) /\ Len(A) = 2
  BY MessageFields, PutU16Facts
<1>5. m.client_uuid \in Seq(Bytes) /\ Len(m.client_uuid) \in Nat
  BY MessageFields, LenProperties
<1>6. <<l>> \in Seq(Bytes) /\ Len(<<l>>) = 1
  BY <1>1
<1>7. SubSeq(m.file_name, 1, l) \in Seq(Bytes) /\ Len(SubSeq(m.file_name, 1, l)) \in Nat
  <2>1. SubSeq(m.file_name, 1, l) \in Seq(Bytes)
    BY <1>1, SubSeqProperties
  <2> QED
    BY <2>1, LenProperties
<1>8. Body(m) \in Seq(Bytes) /\ Len(Body(m)) \in Nat
  BY BodyType, LenProperties
<1> HIDE DEF l, A, B, C, D
<1>9. B \in Seq(Bytes) /\ Len(B) = Len(A) + Len(m.client_uuid)
  BY <1>4, <1>5, JoinBytes DEF B
<1>10. C \in Seq(Bytes) /\ Len(C) = Len(B) + Len(<<l>>)
  BY <1>6, <1>9, JoinBytes DEF C
<1>11. D \in Seq(Bytes) /\ Len(D) = Len(C) + Len(SubSeq(m.file_name, 1, l))
  BY <1>7, <1>10, JoinBytes DEF D
<1>12. Contents(m) \in Seq(Bytes) /\ Len(Contents(m)) = Len(D) + Len(Body(m))
  BY <1>3, <1>8, <1>11, JoinBytes
<1>13. Len(Contents(m)) \in UINT16
  BY FramingAssumption
<1>14. PICK a \in Nat, b \in Nat, c \in Nat : Len(Contents(m)) = 2 + a + 1 + b + c
  BY <1>4, <1>5, <1>6, <1>7, <1>8, <1>9, <1>10, <1>11, <1>12
<1> QED
  BY <1>12, <1>13, <1>14

\* A message starts with its envelope: the magic, the type and the length of what
\* follows.
LEMMA SerializeFacts ==
    ASSUME NEW m \in Messages
    PROVE  LET buf == serialize(m)
           IN  /\ buf \in Seq(Bytes)
               /\ Len(buf) \in Nat /\ Len(buf) >= 9
               /\ buf[1] = MAGIC[1] /\ buf[2] = MAGIC[2] /\ buf[3] = MAGIC[3]
               /\ buf[4] \in 1..4
               /\ buf[5] * BYTE + buf[6] = Len(buf) - 6
<1> DEFINE t == CHOOSE k \in DOMAIN MSGTYPE : MSGTYPE[k] = m.type
           E == MAGIC \o <<t>>
           L == putU16(Len(Contents(m)))
           H == E \o L
           buf == H \o Contents(m)
<1>1. t \in 1..4
  <2>1. \E k \in DOMAIN MSGTYPE : MSGTYPE[k] = m.type
    BY MessageFields DEF MSGTYPE
  <2>2. t \in DOMAIN MSGTYPE
    BY <2>1
  <2> QED
    BY <2>2 DEF MSGTYPE
<1>2. serialize(m) = buf
  BY DEF serialize
<1>3. /\ L \in Seq(Bytes) /\ Len(L) = 2
      /\ L[1] * BYTE + L[2] = Len(Contents(m))
      /\ Contents(m) \in Seq(Bytes) /\ Len(Contents(m)) \in Nat /\ Len(Contents(m)) >= 3
  BY ContentsType, PutU16Facts
<1> HIDE DEF t, L
<1>4. <<t>> \in Seq(Bytes) /\ Len(<<t>>) = 1 /\ <<t>>[1] = t
  BY <1>1, ByteWidth DEF Bytes
<1>5. /\ E \in Seq(Bytes) /\ Len(E) = 4
      /\ E[1] = MAGIC[1] /\ E[2] = MAGIC[2] /\ E[3] = MAGIC[3] /\ E[4] = t
  <2>1. /\ E \in Seq(Bytes) /\ Len(E) = Len(MAGIC) + Len(<<t>>)
        /\ \A i \in 1..Len(MAGIC) : E[i] = MAGIC[i]
        /\ \A i \in 1..Len(<<t>>) : E[Len(MAGIC) + i] = <<t>>[i]
    BY <1>4, ByteWidth, JoinBytes, Zenon
  <2> HIDE DEF E
  <2> QED
    BY <1>4, <2>1, ByteWidth
<1> HIDE DEF E
<1>6. /\ H \in Seq(Bytes) /\ Len(H) = 6
      /\ H[1] = MAGIC[1] /\ H[2] = MAGIC[2] /\ H[3] = MAGIC[3] /\ H[4] = t
      /\ H[5] = L[1] /\ H[6] = L[2]
  <2>1. /\ H \in Seq(Bytes) /\ Len(H) = Len(E) + Len(L)
        /\ \A i \in 1..Len(E) : H[i] = E[i]
        /\ \A i \in 1..Len(L) : H[Len(E) + i] = L[i]
    BY <1>3, <1>5, JoinBytes, Zenon
  <2> HIDE DEF H
  <2> QED
    BY <1>3, <1>5, <2>1
<1> HIDE DEF H
<1>7. /\ buf \in Seq(Bytes) /\ Len(buf) = 6 + Len(Contents(m))
      /\ \A i \in 1..6 : buf[i] = H[i]
  <2>1. /\ buf \in Seq(Bytes) /\ Len(buf) = Len(H) + Len(Contents(m))
        /\ \A i \in 1..Len(H) : buf[i] = H[i]
    BY <1>3, <1>6, JoinBytes, Zenon
  <2> HIDE DEF buf
  <2> QED
    BY <1>6, <2>1
<1> HIDE DEF buf
<1> QED
  BY <1>1, <1>2, <1>3, <1>6, <1>7

-----------------------------------------------------------------------------
(* Types. *)

Records == [msg : Messages, buf : Seq(Bytes), taken : {"all", "part", "none"}]

\* How many bytes are taken decides how the message is recorded.
LEMMA TakenFacts ==
    ASSUME NEW m \in Messages, NEW n \in 0..Len(serialize(m))
    PROVE  /\ Taken(n, m) \in {"all", "part", "none"}
           /\ Taken(n, m) = "none" <=> n = 0
           /\ Taken(n, m) = "all" <=> n = Len(serialize(m))
<1>1. Len(serialize(m)) \in Nat /\ Len(serialize(m)) >= 9
  BY SerializeFacts
<1>2. CASE n = 0
  BY <1>1, <1>2 DEF Taken
<1>3. CASE n = Len(serialize(m))
  BY <1>1, <1>3 DEF Taken
<1>4. CASE n # 0 /\ n # Len(serialize(m))
  BY <1>1, <1>4 DEF Taken
<1> QED
  BY <1>2, <1>3, <1>4

\* What sendBuffer adds to the record of messages and to the wire.
LEMMA SendFacts ==
    ASSUME TypeOK, RecordInv, NEW m \in Messages, sendBuffer(m)
    PROVE  \E n \in 0..Len(serialize(m)) :
              /\ Len(wire) + n <= SNDBUF
              /\ sent' \in Seq(Records) /\ Len(sent') = Len(sent) + 1
              /\ \A j \in 1..Len(sent) : sent'[j] = sent[j]
              /\ sent'[Len(sent) + 1] = [msg |-> m, buf |-> serialize(m), taken |-> Taken(n, m)]
              /\ wire' \in Seq(Nat \X Nat) /\ Len(wire') = Len(wire) + n
              /\ \A j \in 1..Len(wire) : wire'[j] = wire[j]
              /\ \A k \in 1..n : wire'[Len(wire) + k] = <<Len(sent) + 1, k>>
<1>1. /\ sent \in Seq(Records) /\ Len(sent) \in Nat
      /\ wire \in Seq(Nat \X Nat) /\ Len(wire) \in Nat /\ Len(wire) <= SNDBUF /\ SNDBUF \in Nat
  BY LenProperties, FramingAssumption DEF TypeOK, RecordInv, Records
<1>2. serialize(m) \in Seq(Bytes) /\ Len(serialize(m)) \in Nat
  BY SerializeFacts
<1> DEFINE l == Len(serialize(m))
           room == SNDBUF - Len(wire)
           n == Min({l, room})
<1>3. l \in Nat /\ room \in Nat
  BY <1>1, <1>2
<1>4. n \in 0..l /\ n <= room
  <2>1. \A a, b \in Nat : Min({a, b}) \in 0..a /\ Min({a, b}) <= b
    BY MinOfTwo
  <2> HIDE DEF l, room
  <2> QED
    BY <1>3, <2>1
<1> DEFINE r == [msg |-> m, buf |-> serialize(m), taken |-> Taken(n, m)]
           tail == [k \in 1..n |-> <<Len(sent) + 1, k>>]
<1>5. sent' = Append(sent, r) /\ wire' = wire \o tail
  BY DEF sendBuffer
<1> HIDE DEF n
<1>6. r \in Records
  BY <1>2, <1>4, TakenFacts DEF Records
<1> HIDE DEF r
<1>7. /\ sent' \in Seq(Records) /\ Len(sent') = Len(sent) + 1
      /\ \A j \in 1..Len(sent) : sent'[j] = sent[j]
      /\ sent'[Len(sent) + 1] = r
  BY <1>1, <1>5, <1>6, AppendProperties
<1>8. tail \in Seq(Nat \X Nat) /\ Len(tail) = n /\ \A k \in 1..n : tail[k] = <<Len(sent) + 1, k>>
  <2>1. n \in Nat
    BY <1>3, <1>4
  <2> QED
    BY <1>1, <2>1
<1> HIDE DEF tail
<1>9. /\ wire' \in Seq(Nat \X Nat) /\ Len(wire') = Len(wire) + n
      /\ \A j \in 1..Len(wire) : wire'[j] = wire[j]
      /\ \A k \in 1..n : wire'[Len(wire) + k] = <<Len(sent) + 1, k>>
  <2>1. /\ wire \o tail \in Seq(Nat \X Nat) /\ Len(wire \o tail) = Len(wire) + Len(tail)
        /\ \A j \in 1..Len(wire) : (wire \o tail)[j] = wire[j]
        /\ \A k \in 1..Len(tail) : (wire \o tail)[Len(wire) + k] = tail[k]
    <3> DEFINE P == Nat \X Nat
    <3>1. wire \in Seq(P) /\ tail \in Seq(P)
      BY <1>1, <1>8
    <3> SUFFICES /\ wire \o tail \in Seq(P) /\ Len(wire \o tail) = Len(wire) + Len(tail)
                 /\ \A j \in 1..Len(wire) : (wire \o tail)[j] = wire[j]
                 /\ \A k \in 1..Len(tail) : (wire \o tail)[Len(wire) + k] = tail[k]
      OBVIOUS
    <3> HIDE DEF P
    <3> QED
      BY <3>1, ConcatFacts
  <2> QED
    BY <1>5, <1>8, <2>1
<1>10. Len(wire) + n <= SNDBUF
  BY <1>1, <1>3, <1>4
<1> QED
  BY <1>4, <1>7, <1>9, <1>10 DEF r

\* The byte that is read.
LEMMA ReadFacts ==
    ASSUME TypeOK, RecordInv, Read
    PROVE  /\ Len(wire) \in Nat \ {0} /\ Head(wire) = wire[1]
           /\ wire[1][1] \in DOMAIN sent /\ wire[1][2] \in DOMAIN sent[wire[1][1]].buf
           /\ Byte(wire[1]) \in Bytes
           /\ wire' \in Seq(Nat \X Nat) /\ Len(wire') = Len(wire) - 1
           /\ \A j \in 1..Len(wire') : j + 1 \in 1..Len(wire) /\ wire'[j] = wire[j + 1]
           /\ sent' = sent /\ peer' = peer /\ fd' = fd
<1>1. /\ wire \in Seq(Nat \X Nat) /\ wire # <<>> /\ wire' = Tail(wire)
      /\ sent' = sent /\ peer' = peer /\ fd' = fd
  BY DEF Read, RecordInv, sendVars
<1>2. Len(wire) \in Nat \ {0}
  BY <1>1, EmptySeq
<1>3. /\ Head(wire) = wire[1] /\ Tail(wire) \in Seq(Nat \X Nat)
      /\ Len(Tail(wire)) = Len(wire) - 1
      /\ \A j \in 1..Len(Tail(wire)) : Tail(wire)[j] = wire[j + 1]
  BY <1>1, HeadTailProperties
<1>4. 1 \in DOMAIN wire /\ DOMAIN wire = 1..Len(wire)
  BY <1>1, <1>2, LenProperties
<1>5. wire[1][1] \in DOMAIN sent /\ wire[1][2] \in DOMAIN sent[wire[1][1]].buf
  BY <1>4 DEF TypeOK
<1>6. PICK n, k : n = wire[1][1] /\ k = wire[1][2]
  OBVIOUS
<1>7. sent \in Seq(Records) /\ n \in 1..Len(sent)
  BY <1>5, <1>6, LenProperties DEF TypeOK, Records
<1>8. sent[n] \in Records
  BY <1>7, ElementOfSeq
<1>9. sent[n].buf \in Seq(Bytes) /\ k \in 1..Len(sent[n].buf)
  BY <1>5, <1>6, <1>8, LenProperties DEF Records
<1>10. sent[n].buf[k] \in Bytes
  BY <1>9, ElementOfSeq
<1>11. \A j \in 1..Len(wire') : j + 1 \in 1..Len(wire)
  BY <1>1, <1>2, <1>3
<1> QED
  BY <1>1, <1>2, <1>3, <1>5, <1>6, <1>10, <1>11 DEF Byte

\* One round of the parser's loop: msg_len never needs more than its two bytes.
LEMMA ParseType ==
    ASSUME TypeOK, RecordInv, NEW b \in Bytes, Parse1(b)
    PROVE  /\ msg_buf' \in Seq(Bytes)
           /\ msg_len' \in UINT16
           /\ Len(msg_buf') = 5 => msg_len' = msg_buf'[5] * BYTE
<1>1. msg_buf \in Seq(Bytes) /\ Len(msg_buf) \in Nat /\ msg_len \in UINT16
  BY LenProperties DEF TypeOK, UINT16
<1>2. b \in Nat /\ b <= BYTE - 1 /\ BYTE \in Nat /\ BYTE > 5
  BY ByteWidth DEF Bytes
<1>3. \A c \in Bytes : c * BYTE \in Nat /\ c * BYTE <= (BYTE - 1) * BYTE
  BY <1>2 DEF Bytes
<1>4. (BYTE - 1) * BYTE = BYTE * BYTE - BYTE /\ BYTE * BYTE \in Nat
  BY <1>2
<1>5. CASE Expected(b)
  <2>1. /\ msg_buf' \in Seq(Bytes) /\ Len(msg_buf') = Len(msg_buf) + 1
        /\ msg_buf'[Len(msg_buf) + 1] = b
    <3>1. msg_buf' = Append(msg_buf, b)
      BY <1>5 DEF Parse1
    <3> QED
      BY <1>1, <3>1, AppendProperties
  <2>2. msg_len' = CASE Len(msg_buf) = 4 -> b * BYTE
                     [] Len(msg_buf) = 5 -> msg_len + b
                     [] OTHER -> msg_len
    BY <1>5, Zenon DEF Parse1
  <2>3. \A i \in 1..Len(msg_buf) : msg_buf[i] \in Bytes
    BY <1>1, ElementOfSeq
  <2>4. CASE Len(msg_buf) = 4
    <3>1. msg_len' = b * BYTE
      BY <2>2, <2>4
    <3>2. b * BYTE \in UINT16
      BY <1>2, <1>3, <1>4 DEF UINT16
    <3> QED
      BY <2>1, <2>4, <3>1, <3>2
  <2>5. CASE Len(msg_buf) = 5
    <3>1. msg_len' = msg_len + b /\ msg_len = msg_buf[5] * BYTE
      BY <2>2, <2>5 DEF RecordInv
    <3>2. msg_buf[5] \in Bytes
      BY <2>3, <2>5
    <3>3. msg_len \in Nat /\ msg_len <= BYTE * BYTE - BYTE
      BY <1>3, <1>4, <3>1, <3>2
    <3>4. msg_len + b \in UINT16
      BY <1>2, <1>4, <3>3 DEF UINT16
    <3> QED
      BY <2>1, <2>5, <3>1, <3>4
  <2>6. CASE Len(msg_buf) # 4 /\ Len(msg_buf) # 5
    <3>1. msg_len' = msg_len
      BY <2>2, <2>6
    <3>2. \A k \in Nat : k # 4 => k + 1 # 5
      OBVIOUS
    <3>3. Len(msg_buf') # 5
      BY <1>1, <2>1, <2>6, <3>2, Zenon
    <3> QED
      BY <1>1, <2>1, <3>1, <3>3
  <2> QED
    BY <2>4, <2>5, <2>6
<1>6. CASE msg_buf' = <<>> /\ msg_len' = 0
  BY <1>2, <1>4, <1>6 DEF UINT16
<1> QED
  BY <1>5, <1>6 DEF Parse1

\* Initially nothing was sent.
LEMMA FramingTypeInit == Init => TypeOK /\ RecordInv
<1> SUFFICES ASSUME Init PROVE TypeOK /\ RecordInv
  OBVIOUS
<1>1. /\ sent = <<>> /\ wire = <<>> /\ msg_buf = <<>> /\ msg_len = 0
      /\ DOMAIN sent = {} /\ DOMAIN wire = {}
      /\ Len(sent) = 0 /\ Len(wire) = 0 /\ Len(msg_buf) = 0
  BY DEF Init
<1>2. 0 \in 0..(BYTE * BYTE - 1)
  BY ByteWidth
<1>3. sent \in Seq([msg : Messages, buf : Seq(Bytes), taken : {"all", "part", "none"}])
      /\ wire \in Seq(Nat \X Nat) /\ msg_buf \in Seq(Bytes)
  BY <1>1, EmptySeq
<1>4. TypeOK
  BY <1>1, <1>2, <1>3, FramingAssumption DEF TypeOK, Init
<1>5. RecordInv
  BY <1>1, <1>3 DEF RecordInv, SentInv
<1> QED
  BY <1>4, <1>5

\* Every step preserves the types.
LEMMA FramingTypeNext ==
    ASSUME TypeOK, RecordInv, [Next]_vars
    PROVE  TypeOK' /\ RecordInv'
<1>1. /\ sent \in Seq(Records) /\ DOMAIN sent = 1..Len(sent) /\ Len(sent) \in Nat
      /\ wire \in Seq(Nat \X Nat) /\ DOMAIN wire = 1..Len(wire) /\ Len(wire) \in Nat
      /\ Len(wire) <= SNDBUF /\ SNDBUF \in Nat /\ MaxSent \in Nat /\ Len(sent) <= MaxSent
      /\ \A j \in 1..Len(wire) :
            wire[j][1] \in DOMAIN sent /\ wire[j][2] \in DOMAIN sent[wire[j][1]].buf
      /\ SentInv
  BY LenProperties, FramingAssumption DEF TypeOK, RecordInv, Records
<1>2. ASSUME NEW m \in Messages, sendBuffer(m)
      PROVE  TypeOK' /\ RecordInv'
  <2>1. PICK n \in 0..Len(serialize(m)) :
           /\ Len(wire) + n <= SNDBUF
           /\ sent' \in Seq(Records) /\ Len(sent') = Len(sent) + 1
           /\ \A j \in 1..Len(sent) : sent'[j] = sent[j]
           /\ sent'[Len(sent) + 1] = [msg |-> m, buf |-> serialize(m), taken |-> Taken(n, m)]
           /\ wire' \in Seq(Nat \X Nat) /\ Len(wire') = Len(wire) + n
           /\ \A j \in 1..Len(wire) : wire'[j] = wire[j]
           /\ \A k \in 1..n : wire'[Len(wire) + k] = <<Len(sent) + 1, k>>
    BY <1>2, SendFacts
  <2>2. Len(sent') <= MaxSent /\ UNCHANGED <<peer, fd, msg_buf, msg_len, aligned>>
    BY <1>1, <1>2, <2>1 DEF sendBuffer, parserVars
  <2>3. /\ DOMAIN sent' = 1..(Len(sent) + 1) /\ DOMAIN wire' = 1..Len(wire')
        /\ Len(sent') \in Nat
    BY <2>1, LenProperties
  <2>4. serialize(m) \in Seq(Bytes) /\ DOMAIN serialize(m) = 1..Len(serialize(m))
        /\ Len(serialize(m)) \in Nat
    BY SerializeFacts, LenProperties
  <2>5. n \in Nat /\ n <= Len(serialize(m))
    BY <2>4
  <2>6. ASSUME NEW j \in 1..Len(wire')
        PROVE  wire'[j][1] \in DOMAIN sent' /\ wire'[j][2] \in DOMAIN sent'[wire'[j][1]].buf
    <3>1. CASE j \in 1..Len(wire)
      <4>1. wire'[j] = wire[j] /\ wire[j][1] \in 1..Len(sent)
        BY <1>1, <2>1, <3>1
      <4>2. \A i \in 1..Len(sent) : sent'[i] = sent[i] /\ i \in DOMAIN sent'
        BY <1>1, <2>1, <2>3
      <4> QED
        BY <1>1, <3>1, <4>1, <4>2
    <3>2. CASE j \notin 1..Len(wire)
      <4>1. PICK k \in 1..n : j = Len(wire) + k
        <5>1. j - Len(wire) \in 1..n /\ j = Len(wire) + (j - Len(wire))
          BY <1>1, <2>1, <2>5, <2>6, <3>2
        <5> QED
          BY <5>1
      <4>2. wire'[j] = <<Len(sent) + 1, k>>
        BY <2>1, <4>1
      <4>3. wire'[j][1] = Len(sent) + 1 /\ wire'[j][2] = k
        BY <4>2
      <4>4. sent'[Len(sent) + 1].buf = serialize(m) /\ k \in DOMAIN serialize(m)
        BY <2>1, <2>4, <2>5
      <4> QED
        BY <1>1, <2>3, <4>3, <4>4
    <3> QED
      BY <3>1, <3>2
  <2>7. TypeOK'
    BY <1>1, <2>1, <2>2, <2>3, <2>6 DEF TypeOK, Records
  <2>8. SentInv'
    <3> SUFFICES ASSUME NEW j \in 1..(Len(sent) + 1)
                 PROVE  sent'[j].msg \in Messages /\ sent'[j].buf = serialize(sent'[j].msg)
      BY <2>3 DEF SentInv
    <3>1. CASE j = Len(sent) + 1
      BY <2>1, <3>1
    <3>2. CASE j # Len(sent) + 1
      <4>1. j \in 1..Len(sent)
        BY <1>1, <3>2
      <4> QED
        BY <1>1, <2>1, <4>1 DEF SentInv
    <3> QED
      BY <3>1, <3>2
  <2>9. RecordInv'
    BY <2>1, <2>2, <2>8 DEF RecordInv
  <2> QED
    BY <2>7, <2>9
<1>3. CASE Close
  <2>1. /\ UNCHANGED <<sent, fd, msg_buf, msg_len, aligned>>
        /\ peer' \in {"closed", "reset"} /\ (wire' = wire \/ wire' = <<>>)
    BY <1>3 DEF Close, parserVars
  <2>2. <<>> \in Seq(Nat \X Nat) /\ Len(<<>>) = 0 /\ DOMAIN <<>> = {}
    OBVIOUS
  <2>3. SentInv'
    BY <1>1, <2>1 DEF SentInv
  <2>4. CASE wire' = wire
    BY <2>1, <2>3, <2>4 DEF TypeOK, RecordInv
  <2>5. CASE wire' = <<>>
    BY <1>1, <2>1, <2>2, <2>3, <2>5 DEF TypeOK, RecordInv
  <2> QED
    BY <2>1, <2>4, <2>5
<1>4. CASE Read
  <2>1. /\ Head(wire) = wire[1] /\ Byte(wire[1]) \in Bytes
        /\ wire' \in Seq(Nat \X Nat) /\ Len(wire') = Len(wire) - 1
        /\ \A j \in 1..Len(wire') : j + 1 \in 1..Len(wire) /\ wire'[j] = wire[j + 1]
        /\ sent' = sent /\ peer' = peer /\ fd' = fd
    BY <1>4, ReadFacts
  <2>2. PICK b \in Bytes : Parse1(b)
    BY <1>4, <2>1 DEF Read
  <2>3. /\ msg_buf' \in Seq(Bytes) /\ msg_len' \in UINT16
        /\ Len(msg_buf') = 5 => msg_len' = msg_buf'[5] * BYTE
    BY <2>2, ParseType
  <2>4. aligned' \in BOOLEAN
    BY <1>4 DEF Read, TypeOK
  <2>5. DOMAIN wire' = 1..Len(wire') /\ Len(wire') <= SNDBUF
    BY <1>1, <2>1, LenProperties
  <2>6. SentInv'
    BY <1>1, <2>1 DEF SentInv
  <2>7. TypeOK'
    BY <1>1, <2>1, <2>3, <2>4, <2>5 DEF TypeOK, UINT16
  <2>8. RecordInv'
    BY <2>1, <2>3, <2>6 DEF RecordInv
  <2> QED
    BY <2>7, <2>8
<1>5. CASE ReadEnd
  BY <1>5 DEF ReadEnd, sendVars, TypeOK, RecordInv, SentInv
<1>6. CASE UNCHANGED vars
  BY <1>6 DEF vars, parserVars, TypeOK, RecordInv, SentInv
<1> QED
  BY <1>2, <1>3, <1>4, <1>5, <1>6 DEF Next, Ended

\* The state keeps its types: the length of a message, put together from two bytes,
\* fits msg_len whatever is received, and the wire holds bytes of what was sent.
THEOREM FramingTypeCorrect == Spec => []TypeOK
<1>1. TypeOK /\ RecordInv /\ [Next]_vars => (TypeOK /\ RecordInv)'
  BY FramingTypeNext
<1> QED
  BY <1>1, FramingTypeInit, PTL DEF Spec

\* The records of what was sent are as serialize made them.
LEMMA RecordCorrect == Spec => [](TypeOK /\ RecordInv)
<1>1. TypeOK /\ RecordInv /\ [Next]_vars => (TypeOK /\ RecordInv)'
  BY FramingTypeNext
<1> QED
  BY <1>1, FramingTypeInit, PTL DEF Spec

-----------------------------------------------------------------------------
(* The parser in step with the sender. *)

\* Given the next byte of a message, the parser stores it, or is done with the
\* message if it was the last.
LEMMA ParseInStep ==
    ASSUME TypeOK, RecordInv, NEW m \in Messages, NEW buf, buf = serialize(m),
           NEW k \in 1..Len(buf), Len(msg_buf) = k - 1,
           \A i \in 1..(k - 1) : msg_buf[i] = buf[i],
           k - 1 >= 6 => msg_len = Len(buf) - 6,
           Parse1(buf[k])
    PROVE  /\ k = Len(buf) => msg_buf' = <<>>
           /\ k # Len(buf) => /\ Len(msg_buf') = k
                              /\ \A i \in 1..k : msg_buf'[i] = buf[i]
                              /\ k >= 6 => msg_len' = Len(buf) - 6
<1>1. /\ buf \in Seq(Bytes) /\ Len(buf) \in Nat /\ Len(buf) >= 9
      /\ buf[1] = MAGIC[1] /\ buf[2] = MAGIC[2] /\ buf[3] = MAGIC[3]
      /\ buf[4] \in 1..4 /\ buf[5] * BYTE + buf[6] = Len(buf) - 6
  BY SerializeFacts
<1>2. k \in Nat /\ k >= 1 /\ k <= Len(buf)
  BY <1>1
<1>3. buf[k] \in Bytes /\ msg_buf \in Seq(Bytes)
  BY <1>1, ElementOfSeq DEF TypeOK
<1>4. CASE k = Len(buf)
  <2>1. k - 1 >= 6 /\ Len(msg_buf) = msg_len + 5
    BY <1>1, <1>2, <1>4
  <2>2. ~Expected(buf[k])
    <3>1. msg_len = Len(buf) - 6 /\ Len(msg_buf) = Len(buf) - 1
      BY <1>1, <1>2, <1>4
    <3> HIDE DEF Expected
    <3>2. PICK l \in Nat : l = Len(buf) /\ l >= 9
      BY <1>1
    <3>3. ~(Len(msg_buf) <= 2) /\ Len(msg_buf) # 3 /\ Len(msg_buf) \notin {4, 5}
          /\ ~(Len(msg_buf) < msg_len + 5)
      BY <3>1, <3>2
    <3> QED
      BY <3>3 DEF Expected
  <2> QED
    BY <1>4, <2>2 DEF Parse1
<1>5. CASE k # Len(buf)
  <2>1. Expected(buf[k])
    <3>1. CASE k \in {1, 2, 3}
      BY <1>1, <3>1 DEF Expected
    <3>2. CASE k = 4
      BY <1>1, <3>2, ByteWidth DEF Expected
    <3>3. CASE k \in {5, 6}
      BY <3>3 DEF Expected
    <3>4. CASE k >= 7
      <4>1. PICK l \in Nat : l = Len(buf)
        BY <1>1
      <4>2. Len(msg_buf) >= 6 /\ Len(msg_buf) < msg_len + 5
        BY <1>2, <1>5, <3>4, <4>1
      <4> QED
        BY <4>2 DEF Expected
    <3> QED
      BY <1>2, <3>1, <3>2, <3>3, <3>4
  <2>2. msg_buf' = Append(msg_buf, buf[k])
    BY <2>1 DEF Parse1
  <2>3. msg_len' = CASE Len(msg_buf) = 4 -> buf[k] * BYTE
                     [] Len(msg_buf) = 5 -> msg_len + buf[k]
                     [] OTHER -> msg_len
    BY <2>1, Zenon DEF Parse1
  <2>4. /\ Len(msg_buf') = Len(msg_buf) + 1
        /\ \A i \in 1..Len(msg_buf) : msg_buf'[i] = msg_buf[i]
        /\ msg_buf'[Len(msg_buf) + 1] = buf[k]
    BY <1>3, <2>2, AppendProperties
  <2>5. Len(msg_buf') = k /\ \A i \in 1..k : msg_buf'[i] = buf[i]
    <3>1. Len(msg_buf) + 1 = k
      BY <1>2
    <3>2. ASSUME NEW i \in 1..k PROVE msg_buf'[i] = buf[i]
      <4>1. CASE i = k
        BY <2>4, <3>1, <4>1
      <4>2. CASE i # k
        <5>1. i \in 1..(k - 1)
          BY <1>2, <4>2
        <5> QED
          BY <2>4, <5>1
      <4> QED
        BY <4>1, <4>2
    <3> QED
      BY <2>4, <3>1, <3>2
  <2>6. ASSUME k >= 6 PROVE msg_len' = Len(buf) - 6
    <3>1. CASE k = 6
      <4>1. Len(msg_buf) = 5 /\ msg_buf[5] = buf[5] /\ msg_len' = msg_len + buf[6]
        BY <2>3, <3>1
      <4>2. msg_len = buf[5] * BYTE
        BY <4>1 DEF RecordInv
      <4> QED
        BY <1>1, <4>1, <4>2
    <3>2. CASE k # 6
      <4>1. k - 1 >= 6 /\ Len(msg_buf) # 4 /\ Len(msg_buf) # 5
        BY <1>2, <2>6, <3>2
      <4>2. msg_len' = msg_len
        BY <2>3, <4>1
      <4> QED
        BY <4>1, <4>2
    <3> QED
      BY <3>1, <3>2
  <2> QED
    BY <1>5, <2>5, <2>6
<1> QED
  BY <1>4, <1>5

\* What follows on the wire once a byte is read.
LEMMA NextByte ==
    ASSUME TypeOK, RecordInv, WireInv, Read, NEW n, NEW k,
           n = wire[1][1], k = wire[1][2]
    PROVE  /\ k # Len(sent[n].buf) =>
                 IF wire' = <<>> THEN Cut(n) ELSE wire'[1] = <<n, k + 1>>
           /\ k = Len(sent[n].buf) => (wire' # <<>> => wire'[1][2] = 1)
<1>1. /\ Len(wire) \in Nat \ {0}
      /\ n \in DOMAIN sent /\ k \in DOMAIN sent[n].buf
      /\ wire' \in Seq(Nat \X Nat) /\ Len(wire') = Len(wire) - 1
      /\ \A j \in 1..Len(wire') : j + 1 \in 1..Len(wire) /\ wire'[j] = wire[j + 1]
  BY ReadFacts
<1>2. wire \in Seq(Nat \X Nat) /\ wire # <<>> /\ DOMAIN wire = 1..Len(wire)
  BY LenProperties DEF RecordInv, Read
<1>3. CASE wire' = <<>>
  <2>1. Len(wire) = 1
    BY <1>1, <1>3, EmptySeq
  <2>2. Final(wire[1]) \/ Cut(wire[1][1])
    BY <1>2, <2>1 DEF WireInv
  <2> QED
    BY <1>3, <2>2 DEF Final
<1>4. CASE wire' # <<>>
  <2>1. Len(wire') \in Nat \ {0}
    BY <1>1, <1>4, EmptySeq
  <2>2. 1 \in 1..Len(wire') /\ 1 \in 1..(Len(wire) - 1) /\ 2 \in 1..Len(wire)
    BY <1>1, <2>1
  <2>3. wire'[1] = wire[2]
    BY <1>1, <2>2
  <2>4. \/ wire[2] = <<n, k + 1>>
        \/ k = Len(sent[n].buf) /\ wire[2][2] = 1
    BY <2>2 DEF WireInv, Final
  <2>5. ASSUME wire[2] = <<n, k + 1>>, k = Len(sent[n].buf) PROVE FALSE
    <3>1. wire[2][1] = n /\ wire[2][2] = k + 1
      BY <2>5
    <3>2. k + 1 \in DOMAIN sent[n].buf
      BY <1>2, <2>2, <3>1 DEF TypeOK
    <3>3. sent[n] \in Records
      <4>1. sent \in Seq(Records)
        BY DEF TypeOK, Records
      <4> QED
        BY <1>1, <4>1, ElementOfSeq, LenProperties
    <3>4. DOMAIN sent[n].buf = 1..Len(sent[n].buf) /\ Len(sent[n].buf) \in Nat
      BY <3>3, LenProperties DEF Records
    <3>5. \A l \in Nat : l + 1 \notin 1..l
      OBVIOUS
    <3> QED
      BY <2>5, <3>2, <3>4, <3>5, Zenon
  <2> QED
    BY <1>4, <2>3, <2>4, <2>5
<1> QED
  BY <1>3, <1>4

\* At the start nothing is on the wire.
LEMMA InStepInit == Init => InStep
<1> SUFFICES ASSUME Init PROVE aligned /\ WireInv /\ Waiting
  BY DEF InStep
<1>1. wire = <<>> /\ Len(wire) = 0 /\ msg_buf = <<>> /\ aligned
  BY DEF Init
<1> QED
  BY <1>1 DEF WireInv, Waiting

\* What is sent goes behind the last byte of a whole message.
LEMMA InStepSend ==
    ASSUME TypeOK, RecordInv, InStep, NEW m \in Messages, sendBuffer(m)
    PROVE  InStep'
<1> SUFFICES ASSUME ~CutThenSent'
             PROVE  /\ aligned' /\ WireInv'
                    /\ Waiting' \/ \E q \in DOMAIN sent' : Reading(q)'
  BY DEF InStep
<1>1. /\ sent \in Seq(Records) /\ DOMAIN sent = 1..Len(sent) /\ Len(sent) \in Nat
      /\ wire \in Seq(Nat \X Nat) /\ DOMAIN wire = 1..Len(wire) /\ Len(wire) \in Nat
      /\ \A j \in 1..Len(wire) : wire[j][1] \in 1..Len(sent)
  BY LenProperties DEF TypeOK, RecordInv, Records
<1>2. PICK n \in 0..Len(serialize(m)) :
         /\ sent' \in Seq(Records) /\ Len(sent') = Len(sent) + 1
         /\ \A j \in 1..Len(sent) : sent'[j] = sent[j]
         /\ sent'[Len(sent) + 1] = [msg |-> m, buf |-> serialize(m), taken |-> Taken(n, m)]
         /\ wire' \in Seq(Nat \X Nat) /\ Len(wire') = Len(wire) + n
         /\ \A j \in 1..Len(wire) : wire'[j] = wire[j]
         /\ \A k \in 1..n : wire'[Len(wire) + k] = <<Len(sent) + 1, k>>
  BY SendFacts
<1>3. /\ UNCHANGED <<peer, fd, msg_buf, msg_len, aligned>> /\ peer = "open"
      /\ DOMAIN sent' = 1..(Len(sent) + 1) /\ 1..Len(sent) \subseteq DOMAIN sent'
      /\ Len(sent) + 1 \in DOMAIN sent'
  BY <1>1, <1>2, LenProperties DEF sendBuffer, parserVars
<1>4. Len(serialize(m)) \in Nat /\ n \in Nat /\ n <= Len(serialize(m))
  BY SerializeFacts
<1>5. aligned /\ WireInv /\ (Waiting \/ \E q \in DOMAIN sent : Reading(q))
  <2>1. ~CutThenSent
    BY <1>1, <1>2, <1>3 DEF CutThenSent, Cut
  <2> QED
    BY <2>1 DEF InStep
<1>6. CASE n = 0
  <2>1. wire' = wire
    BY <1>1, <1>2, <1>6, SeqEqual
  <2>2. WireInv'
    <3>1. \A j \in 1..Len(wire) : sent'[wire[j][1]] = sent[wire[j][1]]
      BY <1>1, <1>2
    <3>2. \A j \in 1..(Len(wire) - 1) : j \in 1..Len(wire)
      BY <1>1
    <3>3. wire # <<>> => Len(wire) \in 1..Len(wire)
      BY <1>1, EmptySeq
    <3> QED
      BY <1>5, <2>1, <3>1, <3>2, <3>3 DEF WireInv, Final, Cut
  <2>3. CASE Waiting
    BY <1>3, <1>5, <2>1, <2>2, <2>3 DEF Waiting
  <2>4. ASSUME NEW q \in 1..Len(sent), Reading(q) PROVE Reading(q)'
    <3>1. sent'[q] = sent[q]
      BY <1>2
    <3> QED
      BY <1>3, <2>1, <2>4, <3>1 DEF Reading, Cut
  <2> QED
    BY <1>1, <1>3, <1>5, <2>2, <2>3, <2>4
<1>7. CASE n # 0
  <2>1. n \in Nat \ {0} /\ Len(wire') \in Nat \ {0} /\ wire' # <<>>
    BY <1>1, <1>2, <1>4, <1>7, EmptySeq
  <2>2. ASSUME NEW j \in 1..Len(sent) PROVE ~Cut(j)
    <3>1. sent'[Len(sent) + 1].taken # "none"
      BY <1>2, <1>7, TakenFacts
    <3>2. ~(sent'[j].taken = "part")
      <4>1. \A l \in Nat : \A i \in 1..l : i < l + 1
        OBVIOUS
      <4>2. j < Len(sent) + 1 /\ j \in DOMAIN sent' /\ Len(sent) + 1 \in DOMAIN sent'
        BY <1>1, <1>3, <4>1
      <4> QED
        BY <3>1, <4>2 DEF CutThenSent, Cut
    <3> QED
      BY <1>2, <2>2, <3>2 DEF Cut
  <2>3. ASSUME NEW j \in 1..(Len(wire') - 1)
        PROVE  \/ wire'[j + 1] = <<wire'[j][1], wire'[j][2] + 1>>
               \/ wire'[j][2] = Len(sent'[wire'[j][1]].buf) /\ wire'[j + 1][2] = 1
    <3> DEFINE l == Len(wire)
    <3>1. l \in Nat /\ j \in 1..(l + n - 1)
      BY <1>1, <1>2
    <3>2. /\ j < l => j \in 1..(l - 1) /\ j \in 1..l /\ j + 1 \in 1..l
          /\ j > l => j - l \in 1..n /\ j = l + (j - l) /\ (j - l) + 1 \in 1..n
          /\ j < l \/ j = l \/ j > l
      <4> HIDE DEF l
      <4> QED
        BY <1>4, <3>1
    <3>3. CASE j < Len(wire)
      <4>1. j \in 1..(Len(wire) - 1) /\ j \in 1..Len(wire) /\ j + 1 \in 1..Len(wire)
        BY <3>3, <3>2
      <4>2. /\ wire'[j] = wire[j] /\ wire'[j + 1] = wire[j + 1]
            /\ sent'[wire[j][1]] = sent[wire[j][1]]
        BY <1>1, <1>2, <4>1
      <4>3. \/ wire[j + 1] = <<wire[j][1], wire[j][2] + 1>>
            \/ wire[j][2] = Len(sent[wire[j][1]].buf) /\ wire[j + 1][2] = 1
        BY <1>5, <4>1 DEF WireInv, Final
      <4> QED
        BY <4>2, <4>3
    <3>4. CASE j = Len(wire)
      <4>1. wire # <<>> /\ j \in 1..Len(wire) /\ 1 \in 1..n
        BY <1>1, <2>1, <3>4, EmptySeq
      <4>2. /\ wire'[j] = wire[j] /\ wire'[j + 1] = <<Len(sent) + 1, 1>>
            /\ wire[j][1] \in 1..Len(sent) /\ sent'[wire[j][1]] = sent[wire[j][1]]
        BY <1>1, <1>2, <3>4, <4>1
      <4>3. Final(wire[j])
        BY <1>5, <2>2, <3>4, <4>1, <4>2 DEF WireInv
      <4> QED
        BY <4>2, <4>3 DEF Final
    <3>5. CASE j > Len(wire)
      <4>1. PICK k \in 1..n : j = Len(wire) + k /\ k + 1 \in 1..n
        <5>1. /\ j - Len(wire) \in 1..n /\ j = Len(wire) + (j - Len(wire))
              /\ (j - Len(wire)) + 1 \in 1..n
          BY <3>5, <3>2
        <5> QED
          BY <5>1
      <4>2. wire'[j] = <<Len(sent) + 1, k>>
        BY <1>2, <4>1
      <4>3. wire'[Len(wire) + (k + 1)] = <<Len(sent) + 1, k + 1>>
        BY <1>2, <4>1
      <4>4. Len(wire) + (k + 1) = j + 1
        BY <1>1, <4>1
      <4> QED
        BY <4>2, <4>3, <4>4
    <3> QED
      BY <3>3, <3>4, <3>5, <3>2
  <2>4. LET x == wire'[Len(wire')]
        IN  x[2] = Len(sent'[x[1]].buf) \/ sent'[x[1]].taken = "part"
    <3>1. n \in 1..n
      BY <2>1
    <3>2. wire'[Len(wire')] = <<Len(sent) + 1, n>>
      BY <1>2, <3>1
    <3>3. sent'[Len(sent) + 1].buf = serialize(m) /\ sent'[Len(sent) + 1].taken = Taken(n, m)
      BY <1>2
    <3>4. n = Len(serialize(m)) \/ Taken(n, m) = "part"
      BY <1>7, TakenFacts
    <3> QED
      BY <3>2, <3>3, <3>4
  <2>5. WireInv'
    BY <2>3, <2>4 DEF WireInv, Final, Cut
  <2>6. wire # <<>> => wire'[1] = wire[1]
    <3>1. wire # <<>> => 1 \in 1..Len(wire)
      BY <1>1, EmptySeq
    <3> QED
      BY <1>2, <3>1
  <2>7. CASE Waiting
    <3>1. CASE wire = <<>>
      <4>1. 1 \in 1..n /\ Len(wire) = 0
        BY <2>1, <3>1
      <4>2. wire'[0 + 1] = <<Len(sent) + 1, 1>>
        BY <1>2, <4>1
      <4>3. wire'[1][2] = 1
        BY <4>2
      <4> QED
        BY <1>3, <1>5, <2>5, <2>7, <4>3 DEF Waiting
    <3>2. CASE wire # <<>>
      BY <1>3, <1>5, <2>5, <2>6, <2>7, <3>2 DEF Waiting
    <3> QED
      BY <3>1, <3>2
  <2>8. ASSUME NEW q \in 1..Len(sent), Reading(q) PROVE Reading(q)'
    <3>1. sent'[q] = sent[q]
      BY <1>2
    <3>2. wire # <<>>
      BY <1>3, <2>2, <2>8 DEF Reading
    <3> QED
      BY <1>3, <2>1, <2>6, <2>8, <3>1, <3>2 DEF Reading, Cut
  <2> QED
    BY <1>1, <1>3, <1>5, <2>5, <2>7, <2>8
<1> QED
  BY <1>6, <1>7

\* A byte that is read is the one the parser is waiting for.
LEMMA InStepRead ==
    ASSUME TypeOK, RecordInv, InStep, Read
    PROVE  InStep'
<1> SUFFICES ASSUME ~CutThenSent'
             PROVE  /\ aligned' /\ WireInv'
                    /\ Waiting' \/ \E q \in DOMAIN sent' : Reading(q)'
  BY DEF InStep
<1>1. /\ wire \in Seq(Nat \X Nat) /\ wire # <<>> /\ Len(wire) \in Nat \ {0}
      /\ Head(wire) = wire[1] /\ wire[1] \in Nat \X Nat
      /\ wire[1][1] \in DOMAIN sent /\ wire[1][2] \in DOMAIN sent[wire[1][1]].buf
      /\ wire' \in Seq(Nat \X Nat) /\ Len(wire') = Len(wire) - 1
      /\ \A j \in 1..Len(wire') : j + 1 \in 1..Len(wire) /\ wire'[j] = wire[j + 1]
      /\ sent' = sent /\ peer' = peer
  <2>1. wire \in Seq(Nat \X Nat) /\ wire # <<>>
    BY DEF RecordInv, Read
  <2>2. wire[1] \in Nat \X Nat
    BY <2>1, ReadFacts, ElementOfSeq
  <2> QED
    BY <2>1, <2>2, ReadFacts
<1>2. aligned /\ WireInv /\ (Waiting \/ \E q \in DOMAIN sent : Reading(q))
  <2>1. ~CutThenSent
    BY <1>1 DEF CutThenSent, Cut
  <2> QED
    BY <2>1 DEF InStep
<1>3. PICK n \in Nat, k \in Nat : n = wire[1][1] /\ k = wire[1][2] /\ wire[1] = <<n, k>>
  <2>1. \A x \in Nat \X Nat : x[1] \in Nat /\ x[2] \in Nat /\ x = <<x[1], x[2]>>
    OBVIOUS
  <2> QED
    BY <1>1, <2>1
<1>4. PICK buf : buf = sent[n].buf
  OBVIOUS
<1>5. PICK m \in Messages : buf = serialize(m)
  BY <1>1, <1>3, <1>4 DEF RecordInv, SentInv
<1>6. buf \in Seq(Bytes) /\ Len(buf) \in Nat /\ Len(buf) >= 9 /\ DOMAIN buf = 1..Len(buf)
  BY <1>5, SerializeFacts, LenProperties
<1>7. n \in DOMAIN sent /\ k \in 1..Len(buf)
  BY <1>1, <1>3, <1>4, <1>6
<1>8. /\ Parse1(buf[k])
      /\ aligned' = IF k = 1 THEN msg_buf = <<>> ELSE aligned
  BY <1>1, <1>3, <1>4 DEF Read, Byte
<1>9. /\ aligned'
      /\ Len(msg_buf) = k - 1
      /\ \A i \in 1..(k - 1) : msg_buf[i] = buf[i]
      /\ k - 1 >= 6 => msg_len = Len(buf) - 6
  <2>1. CASE Waiting
    <3>1. k = 1 /\ msg_buf = <<>> /\ Len(msg_buf) = 0
      BY <1>1, <1>3, <2>1 DEF Waiting
    <3>2. k - 1 = 0 /\ 1..(k - 1) = {} /\ ~(k - 1 >= 6)
      BY <3>1
    <3> QED
      BY <1>8, <3>1, <3>2
  <2>2. ASSUME NEW q \in DOMAIN sent, Reading(q)
        PROVE  /\ aligned' /\ Len(msg_buf) = k - 1
               /\ \A i \in 1..(k - 1) : msg_buf[i] = buf[i]
               /\ k - 1 >= 6 => msg_len = Len(buf) - 6
    <3>1. wire[1] = <<q, Len(msg_buf) + 1>>
      BY <1>1, <2>2 DEF Reading
    <3>2. q = n /\ k = Len(msg_buf) + 1
      BY <1>3, <3>1
    <3>3. /\ Len(msg_buf) \in 1..(Len(buf) - 1)
          /\ Len(msg_buf) >= 6 => msg_len = Len(buf) - 6
          /\ \A i \in 1..Len(msg_buf) : msg_buf[i] = buf[i]
      BY <1>4, <2>2, <3>2 DEF Reading
    <3>4. Len(msg_buf) = k - 1 /\ k # 1
      <4>1. \A a \in Nat : \A l \in 1..a : k = l + 1 => l = k - 1 /\ k # 1
        BY <1>3
      <4>2. Len(buf) - 1 \in Nat
        BY <1>6
      <4> QED
        BY <3>2, <3>3, <4>1, <4>2
    <3> QED
      BY <1>2, <1>8, <3>3, <3>4
  <2> QED
    BY <1>2, <2>1, <2>2
<1>10. /\ k = Len(buf) => msg_buf' = <<>>
       /\ k # Len(buf) => /\ Len(msg_buf') = k
                          /\ \A i \in 1..k : msg_buf'[i] = buf[i]
                          /\ k >= 6 => msg_len' = Len(buf) - 6
  BY <1>5, <1>7, <1>8, <1>9, ParseInStep
<1>11. /\ k # Len(buf) => IF wire' = <<>> THEN Cut(n) ELSE wire'[1] = <<n, k + 1>>
       /\ k = Len(buf) => (wire' # <<>> => wire'[1][2] = 1)
  BY <1>2, <1>3, <1>4, NextByte
<1>12. WireInv'
  <2>1. ASSUME NEW j \in 1..(Len(wire') - 1)
        PROVE  \/ wire'[j + 1] = <<wire'[j][1], wire'[j][2] + 1>>
               \/ Final(wire'[j]) /\ wire'[j + 1][2] = 1
    <3> DEFINE l == Len(wire)
    <3>1. /\ j \in 1..Len(wire') /\ j + 1 \in 1..Len(wire')
          /\ j + 1 \in 1..(Len(wire) - 1)
      <4>1. l \in Nat \ {0} /\ Len(wire') = l - 1
        BY <1>1
      <4>2. j \in 1..((l - 1) - 1)
        BY <4>1
      <4>3. j \in 1..(l - 1) /\ j + 1 \in 1..(l - 1)
        <5> HIDE DEF l
        <5> QED
          BY <4>1, <4>2
      <4> QED
        BY <4>1, <4>3
    <3>2. wire'[j] = wire[j + 1] /\ wire'[j + 1] = wire[(j + 1) + 1]
      BY <1>1, <3>1
    <3> QED
      BY <1>2, <3>1, <3>2 DEF WireInv
  <2>2. ASSUME wire' # <<>>
        PROVE  Final(wire'[Len(wire')]) \/ Cut(wire'[Len(wire')][1])
    <3>1. Len(wire') \in Nat \ {0}
      BY <1>1, <2>2, EmptySeq
    <3>2. Len(wire') \in 1..Len(wire') /\ Len(wire') + 1 = Len(wire)
      BY <1>1, <3>1
    <3>3. wire'[Len(wire')] = wire[Len(wire)]
      BY <1>1, <3>2
    <3> QED
      BY <1>1, <1>2, <3>3 DEF WireInv
  <2> QED
    BY <1>1, <2>1, <2>2 DEF WireInv, Final, Cut
<1>13. CASE k = Len(buf)
  BY <1>9, <1>10, <1>11, <1>12, <1>13 DEF Waiting
<1>14. CASE k # Len(buf)
  <2>1. k \in 1..(Len(buf) - 1)
    <3>1. \A l \in Nat : k \in 1..l /\ k # l => k \in 1..(l - 1)
      BY <1>3
    <3> QED
      BY <1>6, <1>7, <1>14, <3>1
  <2>2. IF wire' = <<>> THEN sent'[n].taken = "part" ELSE wire'[1] = <<n, k + 1>>
    BY <1>1, <1>11, <1>14 DEF Cut
  <2>3. sent'[n].buf = buf /\ n \in DOMAIN sent'
    BY <1>1, <1>4, <1>7
  <2>4. Reading(n)'
    BY <1>10, <1>14, <2>1, <2>2, <2>3 DEF Reading, Cut
  <2> QED
    BY <1>9, <1>12, <2>3, <2>4
<1> QED
  BY <1>13, <1>14

\* Closing leaves the wire as it is, or empties it.
LEMMA InStepClose ==
    ASSUME InStep, Close
    PROVE  InStep'
<1>1. /\ UNCHANGED <<sent, msg_buf, msg_len, aligned>> /\ peer = "open"
      /\ wire' = wire \/ (wire' = <<>> /\ peer' = "reset")
  BY DEF Close, parserVars
<1>2. CASE wire' = wire
  BY <1>1, <1>2 DEF InStep, CutThenSent, WireInv, Waiting, Reading, Final, Cut
<1>3. CASE wire' = <<>> /\ peer' = "reset"
  <2> SUFFICES ASSUME ~CutThenSent'
               PROVE  /\ aligned' /\ WireInv'
                      /\ Waiting' \/ \E q \in DOMAIN sent' : Reading(q)'
    BY DEF InStep
  <2>1. aligned /\ (Waiting \/ \E q \in DOMAIN sent : Reading(q))
    BY <1>1 DEF InStep, CutThenSent, Cut
  <2>2. WireInv'
    <3>1. wire' = <<>> /\ Len(wire') = 0
      BY <1>3
    <3> QED
      BY <3>1 DEF WireInv
  <2>3. CASE Waiting
    BY <1>1, <1>3, <2>1, <2>2, <2>3 DEF Waiting
  <2>4. ASSUME NEW q \in DOMAIN sent, Reading(q) PROVE Reading(q)'
    BY <1>1, <1>3, <2>4 DEF Reading
  <2> QED
    BY <1>1, <2>1, <2>2, <2>3, <2>4
<1> QED
  BY <1>1, <1>2, <1>3

\* Every step keeps the parser in step.
LEMMA InStepNext ==
    ASSUME TypeOK, RecordInv, InStep, [Next]_vars
    PROVE  InStep'
<1>1. ASSUME NEW m \in Messages, sendBuffer(m) PROVE InStep'
  BY <1>1, InStepSend
<1>2. CASE Close
  BY <1>2, InStepClose
<1>3. CASE Read
  BY <1>3, InStepRead
<1>4. CASE ReadEnd \/ Ended \/ UNCHANGED vars
  <2>1. UNCHANGED <<sent, wire, peer, msg_buf, msg_len, aligned>>
    BY <1>4 DEF ReadEnd, Ended, vars, sendVars, parserVars
  <2> QED
    BY <2>1 DEF InStep, CutThenSent, WireInv, Waiting, Reading, Final, Cut
<1> QED
  BY <1>1, <1>2, <1>3, <1>4 DEF Next

\* The invariant that ties the parser's buffer to the bytes on the wire.
THEOREM FramingInvCorrect == Spec => []FramingInv
<1>1. Init => InStep
  BY InStepInit
<1>2. TypeOK /\ RecordInv /\ InStep /\ [Next]_vars => InStep'
  BY InStepNext
<1>3. RecordInv /\ InStep => FramingInv
  BY DEF FramingInv
<1> QED
  BY <1>1, <1>2, <1>3, RecordCorrect, PTL DEF Spec

\* Whatever is sent, in whatever pieces it is taken and read, the parser is out of
\* step with the sender only after something was sent behind a message that was cut.
THEOREM OnlyCutsMisalign == Spec => []OnlyCutsBreak
<1>1. FramingInv => OnlyCutsBreak
  BY DEF FramingInv, InStep, OnlyCutsBreak
<1> QED
  BY <1>1, FramingInvCorrect, PTL
=============================================================================
