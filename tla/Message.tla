------------------------------ MODULE Message -------------------------------
(***************************************************************************)
(* The layout of the protocol's messages: Message::serialize and the       *)
(* constructor that parses.  A message is a sequence of bytes; how many    *)
(* values a byte has, and the sizes of the fixed fields, are constants.    *)
(* Numbers have the widths of the code, in bytes.                          *)
(***************************************************************************)
EXTENDS Integers, Sequences, FiniteSetsExt

CONSTANTS
    BYTE,                  \* the number of values of a byte
    MAGIC,                 \* the three bytes that start a message
    UUID_SIZE,             \* bytes of a client UUID
    HASH_SIZE,             \* bytes of a digest
    MAX_MSG_PAYLOAD_SIZE   \* the largest chunk

Bytes == 0..(BYTE - 1)

UINT8_MAX == BYTE - 1

\* The type's place in this sequence is the last byte of its enumerator.
MSGTYPE == <<"FILE_OFFER", "FILE_CHUNK_REQ", "FILE_CHUNK_DATA", "FILE_COMPLETE">>

MSGTYPE_MAX == Len(MSGTYPE) + 1

ASSUME MessageAssumption ==
    /\ BYTE \in Nat /\ BYTE > MSGTYPE_MAX
    /\ MAGIC \in Bytes \X Bytes \X Bytes
    /\ UUID_SIZE \in Nat /\ HASH_SIZE \in Nat
    /\ MAX_MSG_PAYLOAD_SIZE \in 1..(BYTE * BYTE - 1)

UINT16 == 0..(BYTE * BYTE - 1)
UINT32 == 0..(BYTE * BYTE * BYTE * BYTE - 1)

\* The messages of a type, given the fields that only this type has.
OfType(type, fields) ==
    [type : {type}, seq_number : UINT16, client_uuid : [1..UUID_SIZE -> Bytes],
     file_name : Seq(Bytes), body : fields]

\* The members of class Message that a message of each type uses.
AllMessages ==
    OfType("FILE_OFFER", [file_size : UINT32, file_n_chunks : UINT32,
                          file_hash : [1..HASH_SIZE -> Bytes]])
    \cup OfType("FILE_CHUNK_REQ", [chunk_idx_first : UINT32, chunk_idx_last : UINT32])
    \cup OfType("FILE_CHUNK_DATA", [idx : UINT32, data : Seq(Bytes)])
    \cup OfType("FILE_COMPLETE", {<<>>})

-----------------------------------------------------------------------------
(* Numbers are in network byte order. *)

\* A defect: the high byte is not masked.
putU16_unmasked(val) == <<val \div BYTE, val % BYTE>>

putU16(val) == <<(val \div BYTE) % BYTE, val % BYTE>>

putU32(val) == putU16(val \div (BYTE * BYTE)) \o putU16(val)

getU16(buf, at) == buf[at] * BYTE + buf[at + 1]

getU32(buf, at) == getU16(buf, at) * BYTE * BYTE + getU16(buf, at + 2)

-----------------------------------------------------------------------------
(* serialize. *)

\* It throws for a chunk that is empty or too long.
Serializable(m) ==
    m.type = "FILE_CHUNK_DATA" => Len(m.body.data) \in 1..MAX_MSG_PAYLOAD_SIZE

Body(m) ==
    CASE m.type = "FILE_OFFER" ->
            putU32(m.body.file_size) \o putU32(m.body.file_n_chunks) \o m.body.file_hash
      [] m.type = "FILE_CHUNK_REQ" ->
            putU32(m.body.chunk_idx_first) \o putU32(m.body.chunk_idx_last)
      [] m.type = "FILE_CHUNK_DATA" ->
            putU32(m.body.idx) \o putU16(Len(m.body.data)) \o m.body.data
      [] m.type = "FILE_COMPLETE" -> <<>>

\* What follows the envelope: no more of the file name than its length byte can tell.
Contents(m) ==
    LET filename_len == Min({Len(m.file_name), UINT8_MAX})
    IN  putU16(m.seq_number) \o m.client_uuid \o <<filename_len>>
            \o SubSeq(m.file_name, 1, filename_len) \o Body(m)

serialize(m) ==
    MAGIC \o <<CHOOSE k \in DOMAIN MSGTYPE : MSGTYPE[k] = m.type>>
        \o putU16(Len(Contents(m))) \o Contents(m)

-----------------------------------------------------------------------------
(* The constructor that parses a buffer. *)

\* The places of the length of the file name and of its last byte.
NameLenAt == 9 + UUID_SIZE
NameEnd(buf) == NameLenAt + buf[NameLenAt]

\* The length that the fields have, going by the type and the lengths in the buffer.
FieldsEnd(buf) ==
    CASE buf[4] = 1 -> NameEnd(buf) + 8 + HASH_SIZE
      [] buf[4] = 2 -> NameEnd(buf) + 8
      [] buf[4] = 3 -> IF NameEnd(buf) + 6 > Len(buf) THEN NameEnd(buf) + 6
                       ELSE NameEnd(buf) + 6 + getU16(buf, NameEnd(buf) + 5)
      [] buf[4] = 4 -> NameEnd(buf)

\* Every field lies in the buffer. The constructor does not test this; without it,
\* it reads beyond the buffer.
Fits(buf) == Len(buf) >= NameLenAt /\ FieldsEnd(buf) <= Len(buf)

ParsedBody(buf) ==
    LET e == NameEnd(buf)
    IN  CASE buf[4] = 1 -> [file_size     |-> getU32(buf, e + 1),
                            file_n_chunks |-> getU32(buf, e + 5),
                            file_hash     |-> SubSeq(buf, e + 9, e + 8 + HASH_SIZE)]
          [] buf[4] = 2 -> [chunk_idx_first |-> getU32(buf, e + 1),
                            chunk_idx_last  |-> getU32(buf, e + 5)]
          [] buf[4] = 3 -> [idx  |-> getU32(buf, e + 1),
                            data |-> SubSeq(buf, e + 7, e + 6 + getU16(buf, e + 5))]
          [] buf[4] = 4 -> <<>>

\* A defect: the name is taken to end one byte early.
Parse_short_name(buf) ==
    [type        |-> MSGTYPE[buf[4]],
     seq_number  |-> getU16(buf, 7),
     client_uuid |-> SubSeq(buf, 9, 8 + UUID_SIZE),
     file_name   |-> SubSeq(buf, NameLenAt + 1, NameEnd(buf) - 1),
     body        |-> ParsedBody(buf)]

Parse(buf) ==
    [type        |-> MSGTYPE[buf[4]],
     seq_number  |-> getU16(buf, 7),
     client_uuid |-> SubSeq(buf, 9, 8 + UUID_SIZE),
     file_name   |-> SubSeq(buf, NameLenAt + 1, NameEnd(buf)),
     body        |-> ParsedBody(buf)]
=============================================================================
