----------------------------- MODULE MCFraming ------------------------------
(* An instance of Framing for TLC. *)
EXTENDS Framing

MCMagic == <<5, 6, 7>>

Msg(type, seq, body) ==
    [type |-> type, seq_number |-> seq, client_uuid |-> <<6>>, file_name |-> <<7>>,
     body |-> body]

\* Every type. The chunk contains the envelope of a message, the digest and the UUID
\* bytes of the magic; chunk_idx_last is UINT16_MAX, which fills two of four bytes.
MCMessages ==
    {Msg("FILE_OFFER", 1, [file_size |-> 524, file_n_chunks |-> 88, file_hash |-> <<5>>]),
     Msg("FILE_CHUNK_REQ", 2, [chunk_idx_first |-> 9, chunk_idx_last |-> 63]),
     Msg("FILE_CHUNK_DATA", 63, [idx |-> 9, data |-> MAGIC \o <<4>>]),
     Msg("FILE_CHUNK_DATA", 4, [idx |-> 0, data |-> <<0>>]),
     Msg("FILE_COMPLETE", 0, <<>>)}
=============================================================================
