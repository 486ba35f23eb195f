# fileStorage_proxy: a TLA+ model of the file store

The program stores files as blocks of at most 64 MB, named by their MD5, on
*storage servers* behind a *proxy*. Clients upload and download through the
proxy. This directory holds TLA+ modules of its processes, TLC runs that check
them on small instances, and TLAPS proofs for every value of the constants.
`PROJECT.json` lists the components, the runs, the source lines of every
definition (`map`), a mutant of the code for every property (`mutants`), the
disagreements found (`findings`) and the hazards the properties are aimed at.

Run `tlc -config MCUpload.cfg MCFileStorage` for a run, `tlapm
StorageServerProofs.tla` for a module of proofs.

## 1. Inventory

Paths are relative to the repository.

| Component | State | Operations | Talks to |
|---|---|---|---|
| Proxy (`src/proxy/proxy.cpp`, contexts in `include/proxy/`, `src/proxy/id_stroage.cpp`) | per client a `ClientContext` (state, blocks, servers of the block under way, votes, download index); per server a `StorageContext` (state, digests stored, callbacks per digest); redis hash `id_md5s` | connect / message / close of clients and of servers; upload request, block, all-blocks; download request, block ack; callbacks at a server's ack, fail and death | clients on one port, servers on another, redis |
| Storage server (`src/sserver/`) | state, digests to announce, upload context per flow, loaded blocks with reference counts, download context per flow; redis hash `md5_path`; one file per block | announce digests in sets of 128; collect pieces, verify, store, acknowledge; send pieces back; forget a client; report failed uploads at close | proxy, redis, disk |
| Uploading client (`src/client/agent.cpp`) | state, blocks of the file, blocks to upload, position in them | hash the file, ask, send pieces one per completed write, next block at each ack, wait for the result | proxy |
| Downloading client (`examples/file_download.cpp`) | the file written so far | a blocking loop: request, write pieces, ack each block | proxy |
| Sessions (`src/common/asio_wrapper/`) | `state_`, `writing_`, `write_bufs_`, `have_closed_`, read buffer | one read outstanding, one write outstanding, `onWriteComplete` when everything queued is written, `onClose` once | the four above |
| Messages (`src/common/message.cpp`) | none | JSON constructors and getters | all |
| Configuration, MD5, base64, redis, json, asio, spdlog | | | |

Every process has one thread; a callback runs to its end, so concurrency is
between processes and between the callbacks of different connections. What is
hard: the pieces of several clients' blocks share one connection to a server;
the proxy's knowledge of the servers lags behind them; servers and clients die
and servers come back; acknowledgements are matched by digest; a transfer is
driven only by the completion of writes; storing a block is not atomic on disk.

What makes each component correct:

* **Storage server**: acknowledges a block only when it has it; loses no piece
  and no turn of the pump; counts references exactly; serves every flow.
* **Proxy**: owes an answer to every client that waits for one; believes of a
  server what is true of it; survives the death of the others; asks for blocks
  in order; leaves no half block behind.
* **Agent**: its pump does not stop; it says that all blocks are uploaded only
  when they are.
* **Downloading client**: what it writes is the start of the file, whoever else
  transfers or dies; it gets all of it or learns that it will not.
* **Session**: messages arrive whole, once and in order; nothing it was given
  waits for ever while it is open; it closes once, whatever fails first.
* **The whole**: a file recorded can be read back, a client told "stored" has
  its file recorded, every client is told something.

## 2. Modules

| Module | Models | Composed by |
|---|---|---|
| `Protocol` | messages and shared constants | all |
| `StorageServer` | the storage server in an open environment | `FileStorage` |
| `StorageServerProofs` | theorems about `StorageServer` | |
| `Proxy` | the proxy in an open environment | `FileStorage` |
| `ProxyProofs` | theorems about `Proxy` | |
| `Agent` | the handlers of the uploading client | `FileStorage` |
| `Downloader` | the loop of the downloading client | `FileStorage` |
| `FileStorage` | agents, downloaders, proxy and servers joined by their connections | |
| `FileStorageProofs` | theorems about `FileStorage`: its processes together | |
| `UploadProofs` | theorems about the pieces of the blocks uploaded | extends the former |
| `StoreProofs` | theorems about the files stored, and that `FileStorage` implements `FileStore` | extends the former |
| `DownloadProofs` | theorems about the servers the proxy works with and what it asks them for | extends the former |
| `ReadBackProofs` | the theorem about what a downloading client has written | extends the former |
| `FileStore` | the abstract specification: what those who store files are promised | refined by `FileStorage` |
| `Session` | the two sessions of one connection, against the kernel and asio | |
| `SessionProofs` | theorems about `Session`, and that it implements `Stream` | |
| `Stream` | the abstract specification: what a connection promises its users | refined by `Session` |
| `MCStorageServer`, `MCProxy`, `MCFileStorage`, `MCSession` | values of constants for TLC | |

### How state and actions correspond to the code

*Callbacks are actions.* Each handler of the code is one action with its guard,
its early returns and everything it calls. `Proxy!ClientOnMessage` is the
dispatch of `clientOnMessage`; a branch that calls `force_close` is the action
that also runs `clientOnClose`, because the session calls `onClose` as soon as
the callback returns (`session.cpp:59`) and no other callback runs in between.
In a state where no branch exists the message is ignored, as in the code
(`Agent!Ignore`).

*Contexts are functions.* A `std::map` from flow id to context is a function
from `Flows` with a null record for "no entry". `clientState[f] = "none"` means
that flow `f` is not in `clients_`; `storageState[s] = "none"` that server `s`
has no connection. The votes `succ_storages_ + fail_storages_` are compared only
with 1, so a Boolean `answered` (at least one vote) stands for both counters.

*A connection is a pair of queues* (`toClient`, `fromClient`, `toStorage`,
`toProxy`) of whole messages, delivered in order; when an end goes, an arbitrary
prefix of what it had sent still arrives, also of what a proxy that ended had
sent (`AgentLosesProxy`, `DownloaderLosesProxy`, `StorageLosesProxy`). That is
the abstraction `Stream` states and the run `session` shows `Session` to
implement. `writing` is `Session::writing_`; `OnWriteComplete` may run when all but `SocketBuffer`
messages have left, `SocketBuffer` being what the kernel takes.

*A `weak_ptr` to a closed connection* (`transfering_storage_servers_`) may still
be locked until the session is destroyed: `expired[f]` goes from "no" to
"closing" when the server's connection closes and to "yes" (`Expire`) when its
last handler has run. In `FileStorage` agents wait out that moment (`Settled`):
it is one turn of the proxy's loop, and everything an agent could do in it can
be done after it.

*Content is provenance.* A block of digest `m` has `Pieces[m]` pieces; a piece's
content is `<<m, i>>` or `AlteredContent`. A digest matches exactly when the
content collected is pieces 0, 1, ... of `m`, in order: MD5 is taken as free of
collisions. A file id, the MD5 of the digests of a file, is that sequence.

*A session's handlers run when asio runs them.* In `Session` an operation
completes (`ReadCompletes`, `ReadFails`, `WriteProceeds`, `WriteFails`) in a step
of its own and queues its handler; other handlers, which may send or close the
socket, run before it. A message is two buffers, its length and its body, and the
unit of reading and writing is a buffer: `async_read` and `async_write` do not
complete before they have one whole. `OnClose` is the private `onClose` of
`session.h`, guarded by `have_closed_`. The user's reactions in `onMessage` are
`AskForNext`, `ForceClose` and `ShutDownWrites`; `onWriteComplete` only ever
sends, since no user closes from it. `Stream` has one exception to "an end that
has closed receives nothing", and the code needs it: when a write fails while the
handler of a body that was read is queued, `onMessage` follows `onClose`
(`session.cpp:58`).

*That late message* is in `Proxy` and `FileStorage` too, for the proxy's clients.
`ClientWriteFails` is `clientOnClose` run by a failed write, with a message of the
client already read; `lateState[f]` keeps the state the client's context was left
in, which the queued handler still reads (the session owns the context), and
`LateMessage` runs the handler of that message once. Its effects are those of the
handler, save that nothing more can be sent to the client and that `force_close`
of a closed session does nothing; a piece is relayed with the flow id that was
just cleaned. In `FileStorage` (`ProxyWriteFails`, `ProxyReadsLate`) a write fails
when the client is gone and something sent to it had not arrived.

*A downloading client* writes every piece it receives, without looking at what
it is a piece of (`file_download.cpp:72`); `ReadBack` says that this is enough.
The example program asks for whole files; `Downloads` also gives clients some
blocks they hold, which the protocol provides for.

*Disk.* `md5_path[s]` is the redis hash, `file[s][m]` the number of pieces in a
block file or `Missing`; both survive the process. `StoreBlock` is the step that
goes well; `CrashWhileStoring` is the process ending between the three steps,
whether by a crash or by the `exit(-1)` of a failed create or write.

*The proxy's end* by a fault of its own is the state "crashed": `[0]` of a vector
without elements (`NothingToTransfer`), a null pointer (`RelayToExpired`), and the
assertion in `Md5Info` (`md5_info.h:16`), which an `upload_block_fail` with an
empty digest does not pass (`NamelessFail`; the makefiles do not define
`NDEBUG`). A storage server sends one at its end for the context a late piece
leaves (`storage_server.cpp:173-175`).

### What is abstracted

Wording, logs, addresses, JSON and base64. Which server the proxy picks
(`rand()`, the order of a `std::set` of pointers) is any. The one-second of MD5
computation and the size of a message are not represented.

## 3. Runs

All passing runs are exhaustive on their instance.

| Run | Instance | Shows |
|---|---|---|
| `storage_server` | 1 server, 2 flows, blocks of 1 and 2 pieces, sets of 1 digest | references exact, pump alive, acknowledged blocks on disk through crashes, no file without path, pieces in order, every flow served unless overtaken |
| `proxy` | 2 servers, 1 client, files of 0 to 2 blocks, any message at any time | an answer is owed to every waiting client, downloads ask for their blocks in order |
| `upload` | 1 client (mortal, unstable file) with files of two blocks, different or equal; a server that dies twice, also while storing | the proxy's view matches the disk, only a server that is still announcing its blocks is ever dropped, the agent's pump lives, **the system implements `FileStore`**, every upload ends |
| `upload_shared` | 2 clients with the same block of three pieces, one mortal; a server that dies once | contents are not mixed, no context is orphaned but for one late piece, recorded files are whole, no vote is left over |
| `upload_apart` | 2 clients with a block each; a server that dies once | both uploads end |
| `download` | 2 clients: one mortal, uploading a file of its own or downloading one of two blocks, the other downloading that file, the file being uploaded, the rest of a file it has half of, or an empty file; a server that dies once | what is written is the start of the file and at the end all of it, no server is asked for what it cannot serve, every download ends unless a server died with its block |
| `session` | one connection, 3 messages one way (the third too long) and 1 the other, 2 buffers in the kernel | a write is under way for what waits, closed once, **the session implements `Stream`**, what is sent arrives, a close is learnt |
| `own_block`, `one_uploader`, `storage_exit`, `backup`, `late_message` | the smallest instances | violated: see section 6 |

**Bounds.** `QueueBound` and `ContentBound` stop the environment of
`StorageServer` from sending beyond a backlog or a content of 2; two messages in
flight are enough for any reordering a FIFO allows between a piece, a clean and
a reply, and two pieces for a first, a middle-of-transfer and a last piece.
`SetLimit` (128 in the code) is 1 in `storage_server` and `upload`, so that two
digests need two sets and an upload can meet a server that is still announcing
its blocks; elsewhere it is large enough for one set.
`RequestBound` and `ReplyBound` play the same role for `Proxy`. `CrashBound`
counts deaths of servers: one is enough to die in any step, two to die again
after a restart on what the first death left. Blocks have two pieces, so that
something can happen between the first and the last; three in `upload_shared` and
`late_message`, so that the piece handled after the close can be neither the first
nor the last of its block. Restarts are not bounded.
`SendBound` in `session` is three messages, so that two can wait behind one that
is being written; `WireBound` 2 is less than they need, so that a write can be
half done. The theorems of section 5 hold for every value of these bounds.

**Fairness.** In `StorageServer`, completed writes and delivery; in
`FileStorage`, weak fairness of each process's own steps (`AgentStep`,
`DownloaderStep`, `ProxyStep`, `StorageStep`, `ProxyStorageStep`): the io_context
runs every ready handler, and TCP delivers or reports the end. In `Session` it
is the same one level down: queued handlers run (`Handler`), and the kernels make
progress (`KernelReads`, `KernelWrites`). Nothing is assumed of users, operators
or failures: clients need not start, servers need not come back.
Liveness is checked with one client, or with clients that share no block: with
a shared block it is false (section 6).

## 4. Properties

Safety invariants are stated in the module of the component they are about, with
a comment on each; the mutant beside each in `PROJECT.json` is a bug that breaks
it. The ones to start from:

* `RefCountExact`, `PumpAlive`, `AckedOnDisk`, `FileHasPath`, `PiecesInOrder`
  (`StorageServer`), and its liveness property `ServedUnlessOvertaken`. The two
  escapes of the latter are real: the pump serves `begin()` of a map ordered by
  flow id, and `onWriteComplete` only runs on an empty buffer.
  `PiecesInOrder` follows each piece to the next one of its flow, in the queue or
  still to come from the context: a flow that was cleaned may start anew at index
  0 at any point, but no piece of a transfer may be left out, repeated or mixed
  with another block's.
* `AnswerOwed`, `RequestedInOrder` (`Proxy`).
* `StoreSpec` (`FileStorage`): with `blocks` the union of the servers'
  `md5_path`, `files` the recorded files and `outcome` read off the agents'
  states, every step is a step of `FileStore` or a stutter.
* `ViewMatchesDisk`: `storageMd5s`, with the announcements under way, is exactly
  what redis holds on a running server, and never more than it.
* `RecordedFilesWhole` excepts blocks torn by a crash while storing: the code
  acknowledges a torn block when it is uploaded again (`storage_server.cpp:99`),
  which the repository's README lists as open (line 159). No property demands
  more of a torn block: the code does not repair it.
* `ContextIsPrefix` and `NoOrphanContexts` (`FileStorage`) follow a block's pieces
  through the proxy to the servers, and what becomes of a half block. Both state
  the exception the code makes (`LatePiece`): of a client whose connection was
  closed by a failed write while its next piece was waiting, one piece may stay
  at the servers for ever, as the start of its block or, if it is not the first
  piece, of a block without a name. `CleanReleases` is what `client_clean` was
  introduced for, without the exception; the run `late_message` refutes it.
* `ReadBack`, `RequestsServable` and `DownloadEnds` (`FileStorage`) are about
  downloads beside uploads and failures. `DownloadEnds` has one exception,
  `Stranded`: when a server dies with a block it was asked for, only upload
  callbacks are called (`proxy.cpp:423`), and the client waits for ever.
* `StreamSpec` (`Session`): with `queue` the message bodies on their way from one
  end to the other, wherever they are buffered, every step is a step of `Stream`
  or a stutter. `SentArrives` and `CloseIsLearnt` are what a session owes its
  user in time.

## 5. Proofs

The theorems hold for any values of the constants that satisfy the assumptions
of the modules: flow ids are naturals and finitely many, so are the servers,
`NoMd5` is no digest, blocks have at least one piece (`Protocol`); sets of digests
are not limited to size 0 (`StorageServer`); a connection has two ends
(`Session`); `BackupCount` is not 0, and the files recorded, uploaded and asked
for are sequences of digests (`Proxy`, `FileStorage`). TLC evaluates these
assumptions in the runs. What a theorem assumes beyond them is in its statement.

**`StorageServerProofs`**: `TypeCorrect`, `ReferencesCorrect`, `PumpNeverStops`,
`AcknowledgedIsStored`, `FilesAreRecorded`, `PiecesLeaveInOrder`.

* `IInv == TypeOK /\ RefCountExact /\ PumpAlive` is inductive. The types alone
  are not: a reference count must stay a natural when it is decremented, which
  needs it to count the flow that is taken away. `RefsMatch` states the count of
  one server; `RegisterMatches`, `ReleaseMatches` and `AdvanceMatches` show that
  adding, removing and advancing a flow keep it. Each action then has a lemma
  (`OnDownLoadBlockInvariant`, ...), and `NextInvariant` collects them.
* `DiskInv == FileHasPath /\ AckedOnDisk` is inductive relative to `IInv`. The
  argument is that disks only grow: what is acknowledged in a queue stays
  loadable (`AckedGrows`), and an acknowledgement is sent in the step that has
  the block on disk. The crash between the path and the file is the case that
  decides the order of the two.
* `PiecesInOrder` is inductive relative to `IInv`, because it speaks of the
  context as the end of the queue. Its lemmas say what keeps a queue and a context
  in order: appending the piece the context stands at (`AppendPiece`) or another
  message (`AppendOther`), starting or forgetting a context (`StartOrdered`),
  delivery (`TailOrdered`) and the prefix a dead process leaves (`PrefixOrdered`).

**`ProxyProofs`**: `ProxyTypeCorrect`, `AnswerAlwaysOwed`,
`BlocksRequestedInOrder`. `IInv` adds three parts to `TypeOK` and the properties.
`LateOK` says that a flow with a message handled late was connected and is no
longer. `Fresh` and `FreshDownload` say that a flow whose context is new, or not there
yet, has no servers, no download index and no request in any queue. Without them
a reused flow id could inherit both; they hold because ids only grow.
`InOrder` is `RequestedInOrder` in terms of sets of digests asked for and
wanted, which only grow or shrink as a whole.

**`SessionProofs`**: `SessionTypeCorrect`, `NothingWaitsUnwritten`,
`ClosedExactlyOnce`, `SessionIsAStream`. `EndInv` strengthens them for each end: of either operation
at most one handler is queued; without `writing_` there is no write under way and
no handler of one; a handler of a write that succeeded means that the write is
gone from the kernel. That at most one `async_write` is under way, which the type
`Sending` demands, needs all of it.

`SessionIsAStream` says that `Session` implements `Stream`, on a second invariant,
`StreamInv`. The buffers of one direction are numbered, a length and a body in
turn (`Nth`); what the reader has taken, the wire and what the kernel still has to
write follow each other from the last message received (`Follows`), and
`write_bufs_` goes on from there to the last message sent (`InOrder`). How much has
been taken agrees with what the read handler is waiting for (`ReadInv`). Since
this ties every place a buffer can be in to the two counts of messages, the queue
of `Stream` is a run of consecutive numbers (`QueuesAreRuns`), and a step is told by
the length of that run: `Send` makes it one longer, `Receive` takes its first,
`Close` cuts its end, and every other step of the session leaves it.

**`FileStorageProofs`**: `SystemTypeCorrect`, `UploadPumpNeverStops`,
`ProcessesKeepTheirProperties`, `ViewAlwaysMatchesDisk`, about the whole system.

* The proofs about the proxy and the server are not repeated.
  `ProxyProofs!ProxyStepKeeps` and `StorageServerProofs!ServerStepKeeps` say that
  their invariants survive any step with any message of the protocol, beyond the
  bounds of the open environment. `ProxySteps` and `ServerSteps` show that each
  step of `FileStorage` is such a step or leaves the process alone; for this the
  other processes have to keep their types, since a message read is a message
  somebody sent. So the types of all processes are one induction (`SystemInv`).
  `FileStorage` and the proofs hold the two processes in different instances
  (`P` and `PP`, `S` and `SS`); `ProxyInstances` and `ServerInstances` identify
  them.
* The agents add `AtABlock`: an agent that sends a block stands at one of the
  blocks it was asked for, so there is a digest to send.
* `ViewMatchesDisk` is inductive relative to the types. `AnnouncedBy` is what the
  messages of a queue announce, and its lemmas say what sending, reading and
  losing the end of a queue do to it; `ViewServerActs` and `ViewProxyReads` are
  the two ends of one connection, and `OtherServers` the rest.

**`UploadProofs`**: `ContextsArePrefixes`, `NoContextIsOrphaned`, for any
number of clients, servers and copies of a block.

* The invariant follows a block from the agent to the server's context, through
  two queues and the proxy between them, which relays pieces without looking at
  their order. A `Position` is a block and the number of its next piece, or
  `Idle`; a message `Moves` a flow from one position to the next; a queue is a
  `Path` if its messages lead from one to another. For each flow there is one
  position, that of the proxy, such that the queue from the client leads from it
  to where the agent stands (`ClientPath`) and the queue to each server chosen
  for the block leads to it from what that server has (`ServerPath`); a queue to
  any other server leads to `Idle`. Sending extends a path at one end, reading
  shortens it at the other, and the end of a connection cuts it anywhere.
* `client_clean` moves to `Idle` from everywhere, which is what lets a client die
  in the middle of a block. That no piece can follow it rests on `DownForgets`
  and `OneRole` (a flow id is used for one connection, in one role) and `Unborn`
  (nothing is about a flow that has not connected yet).
* A piece handled after the close follows nothing. It is the one move of a late
  flow from `Idle` into the middle of a block (`Moves` with `late`), it leads to
  the position `Lost`, and it is the last: from then on a server's path leads to a
  position with one piece at most (`PathEnd`). `LateGone`, from the proxy's
  `LateOK`, keeps these flows apart from the connected ones.
* `NoOrphanContexts` follows without further induction: the path from a
  context that is not empty to the `Idle` of a client that is gone has a message
  that ends it, unless the client is late, and then the context is one piece.

**`StoreProofs`**: `NoVoteOutlivesTheAnswer`, `RecordedFilesKept`,
`RecordedFilesKeptWhole`, `StoresFiles`. They assume `BackupCount = 1`, the value
in `src/conf/proxy.conf` (line 4, `"block_backup_count" : 1`). It is needed: with
2 the run `backup` shows `CalledBackWhenAnswered` false.

* `TokenInv`: the first piece of a block asks for one answer. So the first piece
  on its way to the proxy, the callback waiting at the server and the answer on
  its way back are at most one per flow, and about the block the agent has in
  hand. `CalledBackWhenAnswered` is a consequence.
* `StoreInv` is about what the messages of a flow say of the disks: an answer
  `upload_block_ack` names a stored block (`Told`), what is `Needed` of a file is
  among the blocks its agent has `Left` (`Done`), so `upload_all_blocks` is sent
  when nothing is missing (`Said`), and the proxy, which records the file without
  a check of its own (`Asked`), records no file with a block missing. `BothInv`
  joins the two, as an answer must be about the block in hand. What makes these
  stable is that disks only grow. `TokenInv` is why the assumption on
  `BackupCount` is there: a stray answer would advance an agent past a block.
* `RecordedFilesKept` has the exception of the property, a block torn by a death
  while it was written; `RecordedFilesKeptWhole` has none, where `MayTear` is
  `FALSE`, that is, no server dies between the steps of storing a block.
* `StoresFiles` goes step by step: `AgentConnects` is `Ask`, a server's
  `StoresBlock` is `TakeIn`, `HandleUploadAllBlocks` is `Record`, an agent that
  hears the final result or loses its connection is `Tell` or `GiveUp`, and every
  other step leaves `blocks`, `files` and `outcome` alone.

**`DownloadProofs`**: `WorkingServersAreKept`, `RequestsAreInTurn`,
`RequestsAreServable`.

* `StepInv`: how far a server has announced its blocks is known to the server
  (`sState`) and to the proxy (`storageState`), and the sets of digests on their
  way are the difference. While the proxy waits for sets and the server works,
  the last set is on its way; no set follows the last. So a server with no set on
  its way is in the same state at both ends, and what it sends is expected.
* `TurnInv`: a download passes a turn round five kinds of places
  (`TurnPlaces`): a request or an acknowledgement on its way to
  the proxy, a request on its way to a server, a context there, the last piece
  on its way to the proxy, and on its way to the client. Each flow has one turn
  at most. `TurnKept` is for the steps that give it none (a queue with `Fewer`
  turns), `TurnPassed` for those that move it. It rests on one fact of the code:
  the client acknowledges the last piece of a block only.
* `AskedInv`: what the proxy believes a server stores is stored
  (`ViewMatchesDisk`) when it asks, and disks only grow.
* `RequestsAreInTurn` is the part of `RequestsServable` that needs no assumption,
  with the path recorded in place of the file readable. `RequestsAreServable`
  assumes that no server dies between the steps of storing a block (`MayTear` is
  `FALSE`): a path without a file makes the server exit when it is asked for it,
  which is the code's behaviour and no fault of the request.

**`ReadBackProofs`**: `DownloadsReadBack`, for any number of clients, servers
and blocks, and blocks of any lengths.

* `Content` is the concatenation of the pieces of a file, and its definition a
  recursion over data, for which the prover has no induction. `Joins` states the
  recursion as a fact about the function of all concatenations; that there is one
  such function and no other (`JoinsExist`, `JoinsUnique`) follows from the least
  number for which there is none. `FlattenJoins` is all that the rest needs:
  `Content` grows by one block at a time.
* A `Line` is the way of one block to one flow: the request on its way to a
  server, the context of its pump, the pieces on their way to the proxy. Read
  from the proxy's end it holds the pieces from some number on, and then nothing
  of the flow (`Run`, `Hop`). The pump carries a line on (`PumpKeepsLine`), and a
  step that is not of the flow keeps it (`LinesKept`) or ends it, when a process
  dies. `Coming` says that every line of a flow is of one block, from one piece.
* A client that reads is at one of three stages (`ReadAt`): it has asked and
  nothing is under way (`Begun`); it has written a start of the file up to a piece
  of the block at the proxy's index, and the rest of that block is in its queue
  and then on the line (`Reading`); or all is written and the end is in its queue
  (`Ended`). When the proxy moves to the next block, the last piece is written
  and nothing of the flow is on any line: the turn of `DownloadProofs` is what the
  client has just given back.
* Four facts help: a message handled after the close is never a reading client's
  (`NoLateReader`); a client that downloads waits for no server's vote
  (`Uncalled`), so no answer to an upload gets between its pieces; a server that
  is down has no transfer (`DownIdle`); a request names the one block its client
  holds (`HeldOne`, `RequestNeeds`).
* Two hypotheses. `MayTear` is `FALSE`: a torn file would be announced by its
  server and read as if it were the block. `OneHeld`: a client holds one block at
  most when it asks. With more the property is false, because the request keeps
  only the last block it names (section 6); the example program holds none. Both are as in the run
  `download`, so TLC has checked what is proved.

Every invariant a passing run checks has a theorem. Only model-checked are the
liveness properties (`ServedUnlessOvertaken`, `UploadEnds`, `DownloadEnds`,
`SentArrives`, `CloseIsLearnt`), which the prover does not reach.

## 6. What the violated runs show

* `own_block`: the proxy subscribes clients under the digest alone
  (`proxy.cpp:160`). When two clients upload the same block, the server's first
  acknowledgement answers both. The slower one drops the answer, since it is not
  waiting yet, and nobody answers it again: it hangs. `UploadEnds` is false on
  that instance for the same reason.
* `one_uploader`: the server collects one copy of the block per client, where the
  repository's README drops the second.
* `storage_exit`: a server dies between two pieces, and the line that should warn
  of it (`proxy.cpp:172`) follows the null pointer it has just been given.
* `backup`: with `block_backup_count` 2 the client is answered at the first vote
  (`client_context.h:61`), and the other vote counts for its next block.
* `late_message`: a client uploads, is answered and dies. The write of the answer
  fails and runs `clientOnClose`, which sends `client_clean`; the piece read
  before is then handled all the same (`session.cpp:58`), relayed behind the
  clean, and kept by the server with no one left to release it. The repository's
  README (line 163) introduces `client_clean` as what releases the contexts of a
  client that disconnects midway.

Met while modelling, and not the subject of a run:

* A `download_request` keeps only the last of the blocks its client names
  (`message.cpp:170` assigns where it should append), where the repository's
  README has the proxy skip all of them (lines 51-53). `Protocol` models the
  message as it is built. The example client names none.
* A server that is still sending its block set is already asked to store and to
  serve blocks; its answer, coming before its last set, is taken for a protocol
  error and the server is dropped (`proxy.cpp:384`, `415`). An upload is told of
  it; a download waits for ever.
* A server that dies while it serves a block leaves its downloading client without
  word (`proxy.cpp:423`); a download of which nothing is needed
  (`proxy.cpp:222`), and a block for which too few servers are connected
  (`proxy.cpp:56`), end the proxy. The liveness properties count the last two as
  ends and except the first; the list of hazards has them without a property.

## 7. Not modelled

* Accepting and connecting (`server.cpp`, `client.cpp`) beyond that both ends of
  a connection exist; `run_after`, which nobody calls.
* Long messages beyond `TooLong` in `Session`: that an upload request of very
  many blocks is too long is a matter of its bytes.
* The text of messages, base64, MD5, logs; the programs' `main`, which read a
  configuration and run the loop; the third-party code.
* Errors that redis answers to a command: the code ends the process, which is
  the crash the models have.
* The message handled after `onClose` (section 2) at the other ends of
  connections. From a server, the proxy would handle one more message after
  `handleRemainEvent`: a `transfer_block` it relays as if it had come before the
  close; an answer to an upload finds the callbacks called already and is a second
  vote, which a client notices with two or more copies only, as in the run
  `backup`. A storage server and an agent end with their connection to the proxy,
  and nobody hears of what they do in between.
* A network that breaks without either end closing.

## 8. What could follow

Downloads while a server is still announcing its blocks (`SetLimit` 1): the proxy
drops the server at its first piece.
