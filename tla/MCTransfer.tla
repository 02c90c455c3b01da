----------------------------- MODULE MCTransfer -----------------------------
(* Instances of Transfer for TLC. *)
EXTENDS TransferInvariants

\* "a" and "b" are runs of one client for one file; "c" and "d" are clients of
\* their own whose files have the same name.
MCUuid == [s \in Sessions |-> CASE s \in {"a", "b"} -> "u1" [] s = "c" -> "u2"
                                [] s = "d" -> "u3"]
MCName == [s \in Sessions |-> "f"]
MCPaths == {MCUuid[s] : s \in Sessions} \X {MCName[s] : s \in Sessions}

\* When CHUNK_SIZE is 2: two chunks of which the second is short, a single full
\* chunk, and an empty file.
MCContent == [s \in Sessions |-> CASE s \in {"a", "b"} -> <<1, 2, 1>>
                                   [] s = "c" -> <<2, 2>> [] s = "d" -> <<>>]

\* The file is changed between runs "a" and "b".
ChangedContent == [s \in Sessions |-> IF s = "a" THEN <<1, 2, 1>> ELSE <<2, 2, 1>>]

\* When CHUNK_SIZE is 1 and U16 is 2, one chunk more than a uint16_t can name.
LongContent == [s \in Sessions |-> <<1, 1, 1>>]

\* The sizes of these files.
MCSizes == {Len(Content[s]) : s \in Sessions}
=============================================================================
