# A TLA+ model of file_transfer

file_transfer uploads files from `ft_client` to `ft_server` in chunks. The server
keeps a metadata file with a bitmap of the chunks it has, so that an upload can be
resumed. This directory models the server's files, its request handling, the
protocol down to its bytes, the event loop and the client process, checks them
with TLC and proves most of the safety properties with TLAPS. Source paths below are
relative to `src/src/`.

## 1. The system

| Part | State | What changes it | Who runs it |
|---|---|---|---|
| `file`: `FileMetadata` | `.name.meta`: header, bitmap | `createIfNotExist`, `markChunk` | a worker |
| `file`: `FileRemote` | the received file | constructor, `saveChunk` | a worker |
| `file`: `FileLocal` | none | `getChunk` only reads | the client's worker |
| `request`: `RequestBroker` | queue, termination flag, mutex, condition variable | `startWorkers`, `queueRequest`, `stopWorkers`, `run` | main, workers |
| `protocol` | none | building, parsing and serializing messages | main, workers |
| `netwrk`: `Connection` | `fd`, parser buffer | `handleEvent`, `sendBuffer`, destructor | main reads, workers send |
| `netwrk`: `ConnectionListener` | `fd` | `handleEvent` accepts | main |
| `loop`: `PollGroup` | Pollables, array of `pollfd` | `add`, `remove`, `pollAndHandle` | main |
| `loop`: `SignalHandler` | termination flag | `handleEvent` | main |
| `ft_server` | none of its own | `main`, `handleRequest` | main, workers |
| `ft_client` | map of offered files | `offer`, `handleRequest` | main, one worker |
| client UUID (`ft_utils.cpp`) | a file | `getClientUUID` | main, at start |

The event loop reads messages from connections and queues each as a request with a
weak pointer to its connection. A worker takes the request, opens or creates the
two files of its path, saves and marks a chunk if the message has one, and replies
with `FILE_CHUNK_REQ` or `FILE_COMPLETE`. The client answers a `FILE_CHUNK_REQ`
with the chunk and ends when its file is complete.

What is persistent are the two files of each path on the server, and the UUID file on
the client's machine. They are shared by all workers, and by all runs of `ft_client`,
and no lock protects them. The hazards this leads to are listed, each at its line,
in `PROJECT.json`.

## 2. The modules

| Module | Models | Rests on |
|---|---|---|
| `Metadata` | chunk arithmetic and the bitmap, as operators | |
| `MetadataFile` | one metadata file used by one thread | `Metadata` |
| `RemoteFile` | the server's files and the steps of a worker on them | `Metadata` |
| `Transfer` | clients, messages, request queue, workers, crashes | `RemoteFile`; implements `Upload` |
| `Upload` | what uploading promises (abstract) | |
| `TransferInvariants` | the inductive invariant of `Transfer` | `Transfer` |
| `MCTransfer` | instances of `Transfer` for TLC | `TransferInvariants` |
| `WorkQueue` | what the broker promises (abstract) | |
| `RequestBroker` | mutex, condition variable, queue, termination | implements `WorkQueue` |
| `PollGroup` | the event loop with listener, signals, connections | |
| `Message` | the bytes of a message, serialized and parsed, as operators | |
| `Channel` | what a connection promises (abstract) | |
| `Framing` | `sendBuffer` and the parser on a stream of bytes | `Message`; implements `Channel` |
| `MCFraming` | an instance of `Framing` for TLC | `Framing` |
| `ClientProcess` | runs of `ft_client` from the UUID file to the end of the process | |
| `MetadataLemmas`, `MetadataProofs` | proofs | `MetadataFile` |
| `RequestBrokerProofs` | proofs | `RequestBroker` |
| `TransferProofs` | proofs: types, messages, active sessions, chunks written, what a handler relies on | `TransferInvariants`, `MetadataLemmas` |
| `TransferSafetyProofs` | proofs: files, what is asked for, progress, refinement | `TransferProofs` |
| `FramingProofs` | proofs | `Framing` |
| `ClientProcessProofs` | proofs | `ClientProcess` |
| `PollGroupProofs` | proofs | `PollGroup` |

**Metadata.** A bitmap is a sequence of bytes, a byte the set of its bits that are
set, counted from the most significant. `nextMissingChunk` skips full bytes and
then looks for a bit, as the code does. `FirstMissing` is the reference definition
that it is compared with. The widths of `uint16_t` and `size_t` are constants, so
that a small instance reaches the narrowing of a chunk index.

**RemoteFile.** `handleRequest` of the server, the constructor, `saveChunk` and
`isComplete` of `FileRemote`, and `createIfNotExist`, `markChunk`, `readHeader` of
`FileMetadata`, cut into one action per access to the file system: testing that a
file exists, the open that truncates it, the write. `wk[w].pc` names the next
access. Other workers, and a crash, can come between any two.

**Transfer.** A session is one run of `ft_client`. Sessions with the same UUID and
file name share a path; a later one is a retry. Messages travel in order and may be
lost when a client is killed, a connection is dropped or the server crashes.
Queueing and taking a request are atomic here, which `RequestBroker` justifies by
implementing `WorkQueue`; messages are whole, which `Framing` justifies by
implementing `Channel`, as long as nothing is sent after a message that was cut.
`DropConnection` is what the event loop may do to a live connection when another one
is reset, taken from `PollGroup` and made more permissive: any live connection, at
any time after a client was killed.

Seen from outside, `Transfer` is `Upload`: `stored` maps to the chunks that are both
marked and in the file, `told` to the clients whose map of files is empty again. One
exception is part of `Upload`: a client whose file is nothing but zeros may be told that
it is complete though no chunk is recorded. A crash that tears the metadata leaves a
received file of the right size full of zeros, and its hash is then right.

**RequestBroker.** One action per statement on shared state. The test of
`sm_terminate` that is made without the mutex may read the old value. Wakeups may be
spurious. `Take` does not test that the queue has a front, as the code does not. Queue,
mutex and condition variable are there throughout; that they are destroyed before
`stopWorkers` is called when a process ends is part of `ClientProcess`.

**PollGroup.** One action per round of the loops in `pollAndHandle`,
`ConnectionListener::handleEvent` and `Connection::handleEvent`. The last one takes one
byte per round (`Receive`), and clients may send, close or reset between two rounds; it
ends when there is nothing to read, at the end of the stream or at an error
(`ReceiveEnds`). `remove` keeps the `revents` where they are, as
the code does. What poll reports is the kernel's side: an orderly close is input, a
reset is POLLIN, POLLERR and POLLHUP together.

**Message and Framing.** `serialize` and `Parse` follow the layout of
`protocol/ft_msg.cpp` field by field, with the number of values of a byte, the sizes
of UUID and digest and the payload limit as constants. `Framing` is one direction of
a connection. The kernel has room for `SNDBUF` bytes: `send` takes all of a message,
a part of it or nothing, and `sendBuffer` does not look. `Read` is one round of the
loop in `Connection::handleEvent`, which takes one byte. A buffer whose fields do
not fit, which the code would read beyond, is parsed to `Garbled`. `aligned` is a
history variable: the message being read was begun with an empty buffer. The messages
are records of `AllMessages`, whose fields have the widths of class `Message`. `Channel`
promises messages as sent and in order while it is not `broken`, and nothing while
it is.

**ClientProcess.** `pc[r]` is where `main` is: looking for, opening, writing or
reading the UUID file; then the constructors in the order of `main` (`Order`); the
loop; and after `main` the destruction of the static objects, in the order that the
list of sources in `CMakeLists.txt` leads to. Handler, queue and condition variable
are destroyed first, and only then the broker that joins the worker. The handler erases
the file in `Handle` and is back in the loop of the worker with `Return`: in between,
`main` may find that the uploads are completed and end the process. The server is
an environment that answers once per message or ends the connection. The value of
the UUID when the file is empty is whatever is on the stack (`Junk`). Using memory that
was freed, a request of the destroyed queue or the handler, has both outcomes: the
process goes on, or it aborts. What the worker and `stopWorkers` read of the destroyed
statics themselves (flag, mutex, condition variable, the two pointers that tell an empty
queue) is in static storage, which the destructors of the image's library leave as it
is, and has the one outcome that follows from that.

Abstractions that hold throughout:

- The hash of a file is its contents, that is, BLAKE2 is free of collisions.
- `Transfer` leaves out sequence numbers, the hash of a chunk and `chunk_idx_last`,
  since no handler reads them. `Message` has the fields that are on the wire.
- A write to a metadata file reaches the disk when the stream is closed. This is
  true while header and bitmap fit the buffer of the stream.
- A crash ends the process, not the machine: what was written stays.
- The offer's 32-bit file size is not narrowed: files of 4 GB and more are outside
  the documented limit.
- A system call that fails for other reasons than those named is not modelled
  (a full disk, missing permissions).

## 3. The runs

Passing runs:

| Run | Instance | States | What it shows |
|---|---|---|---|
| `metadata_file` | files of 0, 1, 7, 8, 9 and 10 chunks | 3,331 | the scan agrees with its definition; marking is local |
| `broker` | 3 workers, 3 requests, 2 spurious wakeups | 44,964 | no lost wakeup, `front` exists, stop joins all, refinement of `WorkQueue`, requests are handled |
| `resume` | 2 workers; a client, its retry, a client with an empty file; kills; 2 crashes | 235,659 | bitmap, completion and progress survive kills and crashes; stop-and-wait; the first missing chunk is requested, and only if there is one; the inductive invariant `TransferInv`; uploads complete if the server does not crash; refinement of `Upload` |
| `wire` | 3 messages out of 5, of every type, with room for less than 2 | 435,857 | what is handed on is what was sent, unless something follows a message that was cut; the inductive invariant `FramingInv`; refinement of `Channel` |
| `client` | 2 runs that share the UUID file, 1 of which uploads; signals, 1 kill, lost connections | 79,292 | the runs agree on the UUID, no signal is fatal once the handler is there, nothing that is freed is used after a completed upload, a client that has its file complete or a signal to read ends |
| `poll_group` | 3 connections, one may reset; room for 2 | 305,673 | the polled array is right, services stay, signals end the loop, input is read, clients are accepted, unless one client outpaces the loop |

`resume` assumes `EXCLUSIVE`: two sessions do not use one path at the same time. The
code does not ensure this. It is what a user does who retries after a failure and
not during an upload. `same_path` drops the assumption, and the bitmap is wrong.

What the runs made explicit, and holds:

- The 500 ms timeout of `poll` is needed for a client to end at all
  (`CompletedEnds`): `main` may find the file still offered just before the worker
  erases it, and no event follows the last message.
- The static `Connection::sm_request_broker` keeps the broker alive beyond `main`.
  The worker is joined after the objects it uses are destroyed. For an upload that
  ends by itself nothing is queued by then, and no request is about to be handled
  (`FreedUnused`), because the protocol is stop-and-wait. The worker may still be on its
  way back from the handler that erased the file, but uses neither the handler nor a
  request any more. After a signal it may.
- Where a crash has torn the metadata, the server asks for chunk `UINT64_MAX`, narrowed,
  though it knows of none that is missing. `RequestsNextMissing` excepts this (`Torn`)
  and nothing else; `torn_metadata` shows what it leads to.
- `Connection::handleEvent` reads until nothing is left. A client that always has the
  next byte there in time keeps the loop on its connection for ever (`Outpaced`). No
  other client is read or accepted and no signal is seen: without this exception TLC
  finds `SignalEndsLoop`, `InputIsRead` and `ClientIsAccepted` violated.
- Destroying a condition variable that a thread waits for is undefined. In the
  library of the image that the Dockerfile builds (musl) it returns at once
  (`CondDestroyWaits = FALSE`). A library that waits for the threads to leave, as
  glibc does, never returns, and with `TRUE` TLC finds `CompletedEnds` violated.
- A `send` that is cut leaves the peer waiting and does no other harm while the
  sender waits for replies: only what is sent after it puts the reader out of step
  (`OnlyCutsBreak`). `OneOutstanding` is thus what both halves rest on.
- SIGPIPE is neither blocked nor ignored and `send` is called without MSG_NOSIGNAL.
  `ClientProcess` has this as an outcome of a send on a connection that was ended;
  for the server it is one of the crashes of `Transfer`.

Runs that show a disagreement between the code and its documentation:

| Run | Violated | What happens |
|---|---|---|
| `torn_metadata` | `UploadResumes` | a crash after the metadata file was created and before it was written leaves an upload that no retry completes |
| `changed_file` | `CompleteMeansStored` | the header of the first offer is kept; a changed file is announced complete while the server holds other bytes |
| `same_path` | `MarkedMeansSaved` | two workers find no file, and the second truncates what the first has saved and marked |
| `long_file` | `UploadCompletes` | chunk indices are narrowed to 16 bits; files of more than 65,536 chunks (248 MiB) never complete |
| `poll_reset` | `OnlyEndedRemoved` | the events of a connection that was reset are applied to the next one, which is dropped |
| `descriptors` | `ClientIsAccepted` | a connection closed by its client keeps its descriptor; in the end none is left to accept with |

One more divergence was read off the code and is not the subject of a run:
`nextMissingChunk` starts at the byte of `from_chunk_idx`, not after that index as
`file/ft_file_meta.hpp:76-77` says. Its callers pass 0, where the two agree.

**Bounds, and why they are enough.** A file of two chunks, the last one short, has
a first, a last, a full and a short chunk; an empty file is the other boundary.
`U16 = 2` puts the narrowing within reach. In `resume` no chunk index is changed by
it; `UINT64_MAX` is, after a crash that tears the metadata file, and there becomes
the index of a chunk, where the code's 0xFFFF is beyond the end of a short file.
`torn_metadata` has `U16 = 4` for that reason. The races are between two accesses to
one path, so two workers show them. Two sessions of one client are needed for a
retry, and a third for an independent client. A second crash can interrupt the
recovery from the first; more than two are not explored. Files of 7 to 10 chunks span
the end of a byte and its padding.

In `wire` a byte has 8 values, so that lengths and the 32-bit fields carry between
bytes. One chunk contains the start of a message, and digest and UUID are bytes of the
magic. `SNDBUF = 28` holds one message and cuts, refuses or holds the next,
depending on which they are and on what was read. Three messages are the fewest for
one that is cut, one that is misread after it and one that is read right again.

In `client` the shared state is the UUID file, and two runs are enough to disturb
each other in it. Larger instances are not explored; the safety properties of `client`
are proved for any number of runs and uploaders.

Three connections are the fewest for which a removed one has successors, one of
which moves twice. With `max_pollables = 4` the third client meets a full group.

**Fairness.** Weak fairness on every thread of the program: workers, event loops,
the reader of a connection, and main and the worker of a client. The scheduler runs
a thread that can run. Weak fairness promises nothing to a thread that finds the
mutex taken and free in turns; that each worker gets it in the end is a consequence
of the bounds on requests and spurious wakeups. No fairness is assumed of what comes
from outside: no client has to start or send, the server need not answer a client of
`ClientProcess`, nothing has to crash, no signal has to arrive. The liveness properties
of `PollGroup` say instead which behaviour of a client they do not hold for
(`Outpaced`): the loop stays in `handleEvent` of one connection for ever. The code does
not rule it out, a network slower than the loop does.
`UploadCompletes` is about uploads without a crash of the server, since after one
that tears the metadata file it does not hold (`torn_metadata`).
`UploadCompletes` and `UploadResumes` except a client that has lost its connection,
because such a client waits for ever (`ft_client.cpp:161`).

## 4. The proofs

| Theorem | Statement | For every |
|---|---|---|
| `MetadataTypeCorrect` | the bitmap keeps its length | chunk size, file size |
| `NextMissingCorrect` | `nextMissingChunk(0)` is the first missing chunk | chunk size, file size |
| `MarkIsLocal` | `markChunk` sets the chunk it names and changes no other | chunk size, file size |
| `TypeCorrect` | types of the broker | number of workers, requests, wakeups |
| `WakeupsArrive` | `NoLostWakeup` | same |
| `TakesWhatIsThere` | `FrontExists` | same |
| `StopLeavesNothing` | `StoppedMeansIdle` | same |
| `BrokerIsWorkQueue` | the broker implements `WorkQueue` | same |
| `TransferTypeCorrect` | types of files, workers, messages | sessions, contents, workers, crashes |
| `TokenCorrect` | `TokenInv`: one place at most holds a message of a session | same |
| `StopAndWait` | `OneOutstanding` | same |
| `TransferInvCorrect` | `TransferInv` | same, given `EXCLUSIVE` and `SameContent` |
| `BitmapIsTruthful` | `MarkedMeansSaved` | same |
| `CompleteIsStored` | `CompleteMeansStored` | same |
| `RequestsAreCurrent` | `RequestsNextMissing` | same |
| `ProgressIsKept` | `ProgressKept` | same |
| `TransferIsUpload` | `Transfer` implements `Upload` | same |
| `FramingTypeCorrect` | types of sender, wire and parser | messages, byte width, sizes, room in the socket |
| `FramingInvCorrect` | `FramingInv` | same |
| `OnlyCutsMisalign` | `OnlyCutsBreak` | same |
| `ClientTypeCorrect` | types of the client processes | number of runs, uploaders, kills |
| `RunsAgree` | `UuidAgrees` | same |
| `NoFatalSignal` | `SignalsAreRead` | same |
| `NothingFreedUsed` | `FreedUnused` | same |
| `PollTypeCorrect` | types of the event loop, the limit of the group | number of connections, limits |
| `PollsTheGroup` | `PolledIsRegistered` | same |
| `ServicesAreSafe` | `ServicesStay` | same |
| `OnlySignalsEnd` | `EndsForSignal` | same |
| `OrderlyCloseIsHarmless` | `OrderlyCloseHarmless` | same |

The assumptions are the named ASSUMEs of the modules: chunk size and widths are
positive, 2^16 divides 2^64, file sizes fit a `size_t`, bounds are natural numbers, the
constants of `Transfer` fit together, and names that stand for different things
(descriptors, UUIDs) are different. For `Framing` a message is a member of
`AllMessages`, its name has at most 255 bytes and its length fits the two bytes that
`serialize` writes; the longest that the factory builds has 4,248 bytes.

Six theorems about `Transfer` have two hypotheses more, and both are needed.
`EXCLUSIVE` is that a path has one active session at a time; without it `same_path`
shows `MarkedMeansSaved` violated. `SameContent` is that the sessions of a path offer
the same file; without it `changed_file` shows `CompleteMeansStored` violated. Neither
is ensured by the code: they say how the program has to be used. `StopAndWait` and the
types need neither.

*Metadata.* `BytePosition` and `PositionByte` relate a chunk to its byte and bit.
With `MinIsLeast`, which rests on the well-foundedness of the natural numbers,
`NextMissingFirst` follows: the first byte that is not full holds the first clear
bit, and a clear bit beyond the last chunk means that none is missing.

*RequestBroker.* `NoLostWakeup` and `FrontExists` are not inductive. `Inv` adds
that the mutex is held by whoever the program counters say (`MutexInv`); that what
a worker found when it tested the condition is still so when it goes to sleep
(`TestedInv`), because only a holder of the mutex changes it; which workers can be
waiting or have a request (`WorkerInv`); and how far starting and joining have come
(`OwnerInv`, `JoinInv`). The refinement needs one more fact, `KnownInv`: the
requests that are waiting, being handled or handled are those queued so far.

*Transfer: messages.* `TypeOK` is inductive. The work is in `HandleStepType`, one case
per access to the file system, and in `MessageTypes`. `OneOutstanding` counts and is
not inductive; `TokenInv` says where the one message of a session is, on the network,
in the queue or with a worker, and that nothing precedes the start of a session.
`MessageInv` adds that what arrives is what that session sends (`SentBy`), and
`ExclusiveInv` that a path has one active session.

*Transfer: files.* None of the properties is inductive, since each depends on what the
worker in the middle of a request will do next. `TransferInv` therefore says of the
files of a path (`FileInv`) that the metadata is either blank, with a received file
that holds only zeros, or describes the file being uploaded, and that what is marked
is saved; of each worker (`StepInv`) what the test it made before still says of the
files at every step, for example that there is no file when it is about to truncate
one, that the chunk is saved when it is about to mark it, and that the byte it is
about to write back is the byte in the file; and of each client (`ClientInv`) that
what it was told is true. Blank metadata is what a crash between `MetaOpen` and
`MetaWrite` leaves. `WantedInv` is what `RequestsNextMissing` needs beyond this: that a
request on its way, or a handler about to make one, has something to ask for. The hard
case is a hash that does not match although nothing is missing. `AllMarked` shows that
it cannot be, unless there is no header: every byte lies in a chunk (`ByteInChunk`),
every chunk is marked and so saved, and the file is never longer than the one offered
(`LengthInv`). That metadata without a header was torn by a crash is `HeaderInv`, with
the one worker that is about to write it excepted, and `WorkerAway` shows that no client
of its path has a message then. There is one lemma per step of the handler (`...Keeps`).
`WorkerAlone` says why no other worker comes in between: two busy workers on one path
would belong to two active sessions of it or to two messages of one session.
`TransferInvNext` puts the steps together, and the properties follow from the
invariant. `ProgressKept` is an action property: `MarksStep` shows that `MetaOpen`
meets only blank metadata and that every other step keeps the marks. For the
refinement `StepStores` shows that a step stores at most the chunk it marks, and
`ClientLearns` that a client is told only what `Upload` allows.

The attempt to prove the refinement showed that an earlier `Upload` was wrong about
files of zeros (section 2), and that `UINT64_MAX` is told apart from the index of a
chunk only because file sizes fit a `size_t`.

*Framing.* `aligned` says nothing about the next byte, so `OnlyCutsBreak` is not
inductive. `InStep` says that, as long as nothing was sent after a message that was
cut, the bytes on the wire are those of consecutive messages of which only the last may
be cut (`WireInv`), and that the parser either has nothing and the first byte of a
message is next, or has the first bytes of message n and the next one of it follows,
unless it was cut or the connection was reset (`Reading`). `SerializeFacts` has what
the parser relies on: the magic, a type in range, and a length field that is the length
of what follows it. `ParseInStep` is one round of the loop on the byte expected.
What the chunks, names and digests contain does not matter.

*ClientProcess.* `CreatingInv` is what `UuidAgrees` needs: undisturbed, at most one
run creates the file, there is none until it opens it, and the file is empty until it
writes it. `MaskInv` says that the worker starts after the signals are blocked and
inherits the mask. `TokenInv` is stop-and-wait seen from one client: server,
connection and worker hold one message between them, and none once the file is
complete. With `EndInv`, which says why `main` has left its loop, `FreedUnused`
follows.

*PollGroup.* `GroupInv` has the listener and the signal handler first and second;
`ArrayInv` has the array follow the group, with at most the Pollable being checked
without its descriptor; `ConnsInv` says who can be in the group; `EventsInv` says
what the events left in the array can be. The events that `remove` leaves at an
index never reach the first two entries, because no Pollable before them is ever
removed. An error among them means that some connection was reset, which gives the
action property `OrderlyCloseHarmless`.

Only model-checked: all liveness properties, which are out of the prover's reach, and
`ImplementsChannel`. The latter needs that `Parse` undoes `serialize` for every
message, and facts about `SelectSeq`, which is recursive.

## 5. Not modelled

- Socket options and the opening of the listening socket: start-up code without a
  state that a property could tell apart.
- Two workers that send on one connection at once (the TODO at
  `netwrk/ft_conn.cpp:213`). `OneOutstanding` shows that the protocol never does this.
- A local file that is changed while it is uploaded: its contents are a constant of a
  session. By the code its hash then never matches, and no chunk is asked for again.
- Two full clients at once in `ClientProcess`: they share only the UUID file, and the
  product of their steps is beyond what TLC finishes in a few minutes.
- Usage text and logging.

## 6. Plan

1. A proof that `Framing` implements `Channel`: that `Parse(serialize(m))` is `m`, and
   that the messages handed on are those whose last byte was read.
2. `PollGroup` and `Transfer` composed, in place of `DropConnection`.
