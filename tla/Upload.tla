------------------------------- MODULE Upload -------------------------------
(***************************************************************************)
(* What uploading promises: the chunks that the server has of each path,   *)
(* and the sessions that know their file to be complete.                   *)
(***************************************************************************)
EXTENDS Naturals

CONSTANTS
    Sessions,
    Paths,
    Target,    \* Target[s]: the path that session s uploads to
    n_chunks,  \* n_chunks[s]: the number of chunks of its file
    Zeros      \* the sessions whose file is nothing but zeros

VARIABLES
    stored,  \* stored[p]: the chunks stored for good
    told     \* the sessions that were told that their file is complete

Chunks(s) == 0..(n_chunks[s] - 1)

Init == stored = [p \in Paths |-> {}] /\ told = {}

\* One chunk is added to what the server has.
Store(s) ==
    /\ \E c \in Chunks(s) \ stored[Target[s]] :
          stored' = [stored EXCEPT ![Target[s]] = @ \cup {c}]
    /\ UNCHANGED told

\* A session is told that its file is complete. A file of zeros is there, chunks
\* or not, once a file of its size is.
Tell(s) ==
    /\ stored[Target[s]] = Chunks(s) \/ s \in Zeros
    /\ told' = told \cup {s}
    /\ UNCHANGED stored

Next ==
    \/ stored' # stored /\ \E s \in Sessions : Store(s)
    \/ told' # told /\ \E s \in Sessions : Tell(s)

Spec == Init /\ [][Next]_<<stored, told>>
=============================================================================
