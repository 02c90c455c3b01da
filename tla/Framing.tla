------------------------------ MODULE Framing -------------------------------
(***************************************************************************)
(* One direction of a connection as a stream of bytes: Connection's        *)
(* sendBuffer at one end, the parser of handleEvent at the other.          *)
(*                                                                         *)
(* The kernel holds SNDBUF bytes at most.  A send that finds too little    *)
(* room takes what fits, or nothing, and sendBuffer does not send the      *)
(* rest.  The parser takes the bytes one by one, with any pauses between   *)
(* them, and keeps an unfinished message from one event to the next.       *)
(*                                                                         *)
(* msg_len is not initialised in the code.  Nothing depends on it before   *)
(* the bytes of the length are read.                                       *)
(***************************************************************************)
EXTENDS Message

CONSTANTS
    Messages,  \* the messages that may be sent
    MaxSent,   \* bound: how many are sent
    SNDBUF     \* how many bytes the kernel holds

\* msg_len has room for the longest message of the code (2 + 16 + 1 + 255 + 6 + 3968
\* bytes).
ASSUME FramingAssumption ==
    /\ Messages \subseteq AllMessages
    /\ \A m \in Messages : /\ Serializable(m)
                           /\ Len(m.file_name) <= UINT8_MAX
                           /\ Len(Contents(m)) \in UINT16
    /\ MaxSent \in Nat
    /\ SNDBUF \in Nat

VARIABLES
    sent,     \* the messages sendBuffer was called for, serialized, and how much of it was taken
    wire,     \* the bytes on their way; <<n, k>> is byte k of the n-th message
    peer,     \* what the sender has done with the connection
    fd,       \* the receiver's descriptor is not -1
    msg_buf,  \* the bytes of the message being parsed
    msg_len,  \* its length
    handed,   \* the messages handed on to the RequestBroker
    aligned   \* the message being read was begun with an empty buffer

sendVars == <<sent, peer>>
parserVars == <<fd, msg_buf, msg_len, handed, aligned>>
vars == <<sent, wire, peer, parserVars>>

\* What the parser makes of a buffer whose fields do not fit: it reads beyond it.
Garbled == [type |-> "garbled"]

TypeOK ==
    /\ sent \in Seq([msg : Messages, buf : Seq(Bytes), taken : {"all", "part", "none"}])
    /\ Len(sent) <= MaxSent
    /\ Len(wire) <= SNDBUF
    /\ \A j \in DOMAIN wire :
          wire[j][1] \in DOMAIN sent /\ wire[j][2] \in DOMAIN sent[wire[j][1]].buf
    /\ peer \in {"open", "closed", "reset"}
    /\ fd \in BOOLEAN
    /\ msg_buf \in Seq(Bytes)
    /\ msg_len \in 0..(BYTE * BYTE - 1)
    /\ aligned \in BOOLEAN

Init ==
    /\ sent = <<>>
    /\ wire = <<>>
    /\ peer = "open"
    /\ fd = TRUE
    /\ msg_buf = <<>>
    /\ msg_len = 0
    /\ handed = <<>>
    /\ aligned = TRUE

-----------------------------------------------------------------------------
(* The sender. *)

\* How much of a message n bytes are.
Taken(n, m) ==
    CASE n = 0 -> "none"
      [] n = Len(serialize(m)) -> "all"
      [] OTHER -> "part"

\* This direction carries either the client's messages or the server's.
FromClient(m) == m.type \in {"FILE_OFFER", "FILE_CHUNK_DATA"}
OneWay(m) == \A j \in DOMAIN sent : FromClient(m) = FromClient(sent[j].msg)

\* sendBuffer. That send takes only a part, or fails with EAGAIN, goes unnoticed.
sendBuffer(m) ==
    LET n == Min({Len(serialize(m)), SNDBUF - Len(wire)})
    IN  /\ peer = "open"
        /\ Len(sent) < MaxSent
        /\ OneWay(m)
        /\ sent' = Append(sent, [msg |-> m, buf |-> serialize(m), taken |-> Taken(n, m)])
        /\ wire' = wire \o [k \in 1..n |-> <<Len(sent) + 1, k>>]
        /\ UNCHANGED <<peer, parserVars>>

\* The sender's process ends the connection; a reset discards what is on its way.
Close ==
    /\ peer = "open"
    /\ \/ peer' = "closed" /\ UNCHANGED wire
       \/ peer' = "reset" /\ wire' = <<>>
    /\ UNCHANGED <<sent, parserVars>>

-----------------------------------------------------------------------------
(* handleEvent. *)

\* The byte is part of the message the parser is reading, and not its last.
Expected(b) ==
    LET buf_curr_size == Len(msg_buf)
    IN  \/ buf_curr_size <= 2 /\ b = MAGIC[buf_curr_size + 1]
        \/ buf_curr_size = 3 /\ b > 0 /\ b < MSGTYPE_MAX
        \/ buf_curr_size \in {4, 5}
        \/ buf_curr_size >= 6 /\ buf_curr_size < msg_len + 5

\* A defect: off by one.
IsLast_late == Len(msg_buf) = msg_len + 6

IsLast == Len(msg_buf) = msg_len + 5

\* handleMessage parses the buffer and queues the request.
handleMessage(buf) ==
    handed' = Append(handed, IF Fits(buf) THEN Parse(buf) ELSE Garbled)

Byte(x) == sent[x[1]].buf[x[2]]

\* A defect: the buffer is not cleared when a message is complete.
Parse1_kept(b) ==
    \/ /\ Expected(b)
       /\ msg_buf' = Append(msg_buf, b)
       /\ msg_len' = CASE Len(msg_buf) = 4 -> b * BYTE
                       [] Len(msg_buf) = 5 -> msg_len + b
                       [] OTHER -> msg_len
       /\ UNCHANGED handed
    \/ /\ ~Expected(b) /\ IsLast
       /\ handleMessage(Append(msg_buf, b))
       /\ UNCHANGED msg_buf
       /\ msg_len' = 0
    \/ /\ ~Expected(b) /\ ~IsLast
       /\ msg_buf' = <<>>
       /\ msg_len' = 0
       /\ UNCHANGED handed

\* One round of the loop: the next byte is stored, completes a message, or is
\* discarded along with the bytes before it.
Parse1(b) ==
    \/ /\ Expected(b)
       /\ msg_buf' = Append(msg_buf, b)
       /\ msg_len' = CASE Len(msg_buf) = 4 -> b * BYTE
                       [] Len(msg_buf) = 5 -> msg_len + b
                       [] OTHER -> msg_len
       /\ UNCHANGED handed
    \/ /\ ~Expected(b) /\ IsLast
       /\ handleMessage(Append(msg_buf, b))
       /\ msg_buf' = <<>>
       /\ msg_len' = 0
    \/ /\ ~Expected(b) /\ ~IsLast
       /\ msg_buf' = <<>>
       /\ msg_len' = 0
       /\ UNCHANGED handed

Read ==
    LET x == Head(wire)
    IN  /\ fd
        /\ wire # <<>>
        /\ Parse1(Byte(x))
        /\ wire' = Tail(wire)
        /\ aligned' = IF x[2] = 1 THEN msg_buf = <<>> ELSE aligned
        /\ UNCHANGED <<sendVars, fd>>

\* recv returns 0 or an error.
ReadEnd ==
    /\ fd
    /\ wire = <<>>
    /\ peer # "open"
    /\ fd' = FALSE
    /\ UNCHANGED <<sendVars, wire, msg_buf, msg_len, handed, aligned>>

-----------------------------------------------------------------------------
Ended == ~fd /\ UNCHANGED vars

Next ==
    \/ \E m \in Messages : sendBuffer(m)
    \/ Close
    \/ Read
    \/ ReadEnd
    \/ Ended

\* The event loop reads what there is to read. Nobody has to send.
Spec == Init /\ [][Next]_vars /\ WF_vars(Read)

-----------------------------------------------------------------------------
(* Properties. *)

\* Message n was sent as a whole, or cut.
Whole(n) == sent[n].taken = "all"
Cut(n) == sent[n].taken = "part"

\* The whole messages whose last byte is still on its way.
Transit ==
    LET ends == SelectSeq(wire, LAMBDA x : x[2] = Len(sent[x[1]].buf))
    IN  [j \in DOMAIN ends |-> sent[ends[j][1]].msg]

Abstract == INSTANCE Channel WITH transit <- Transit, received <- handed, broken <- ~aligned

\* However the bytes are spread over events, and whatever a file contains, the
\* messages that are handed on are those that were sent, field by field and in
\* order. A message that finds no room is lost as a whole; a reader that got out of
\* step is right again from the first message it begins with an empty buffer.
ImplementsChannel == Abstract!Spec

CutThenSent == \E j, k \in DOMAIN sent : j < k /\ Cut(j) /\ sent[k].taken # "none"

\* The reader gets out of step only when something is sent after a message that was
\* cut. A cut alone leaves it waiting: nothing wrong is handed on, which is how a
\* sender that waits for replies meets it.
OnlyCutsBreak == ~aligned => CutThenSent

\* As long as no message is cut, each one that is sent whole is handed on, also when
\* the connection is closed behind it.
SentIsHandedOn ==
    \A n \in 1..MaxSent :
        (n \in DOMAIN sent /\ Whole(n))
            ~> \/ peer = "reset"
               \/ \E j \in DOMAIN sent : Cut(j)
               \/ n \in DOMAIN sent /\ Len(handed) >= Cardinality({j \in 1..n : Whole(j)})

-----------------------------------------------------------------------------
(* The inductive invariant. *)

SentInv ==
    \A n \in DOMAIN sent :
        sent[n].msg \in Messages /\ sent[n].buf = serialize(sent[n].msg)

\* What holds also when the parser is out of step.
RecordInv ==
    /\ SentInv
    /\ wire \in Seq(Nat \X Nat)
    /\ Len(msg_buf) = 5 => msg_len = msg_buf[5] * BYTE

\* Byte x is the last one of its message.
Final(x) == x[2] = Len(sent[x[1]].buf)

\* On the wire every message is followed by its next byte or, at its end, by the
\* first byte of another; the last one may be cut.
WireInv ==
    /\ \A j \in 1..(Len(wire) - 1) :
          \/ wire[j + 1] = <<wire[j][1], wire[j][2] + 1>>
          \/ Final(wire[j]) /\ wire[j + 1][2] = 1
    /\ wire # <<>> => Final(wire[Len(wire)]) \/ Cut(wire[Len(wire)][1])

\* The parser has the first bytes of message n, and the next one follows unless the
\* message was cut or the connection reset.
Reading(n) ==
    LET k   == Len(msg_buf)
        buf == sent[n].buf
    IN  /\ k \in 1..(Len(buf) - 1)
        /\ k >= 6 => msg_len = Len(buf) - 6
        /\ \A i \in 1..k : msg_buf[i] = buf[i]
        /\ IF wire = <<>> THEN Cut(n) \/ peer = "reset" ELSE wire[1] = <<n, k + 1>>

\* The parser has nothing, and the next byte is the first of a message.
Waiting == msg_buf = <<>> /\ (wire # <<>> => wire[1][2] = 1)

\* As long as nothing follows a cut, the parser is in step with the sender.
InStep ==
    ~CutThenSent => aligned /\ WireInv /\ (Waiting \/ \E n \in DOMAIN sent : Reading(n))

FramingInv == RecordInv /\ InStep
=============================================================================
