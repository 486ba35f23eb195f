-------------------------------- MODULE Proxy --------------------------------
(***************************************************************************)
(* The proxy (src/src/proxy/proxy.cpp), the one process every client and   *)
(* every storage server is connected to.                                   *)
(*                                                                         *)
(* It keeps a context for each client connection (ClientContext), named by *)
(* its flow id, and one for each connected storage server (StorageContext, *)
(* and records in redis the files it was told are complete (IdStorage).    *)
(* Its one thread runs the callbacks of all connections, each to its end,  *)
(* so each is one action.  What it sends is in toClient and toStorage.     *)
(*                                                                         *)
(* A connection the proxy closes itself (force_close) is closed when the   *)
(* callback that asked for it returns, before any other callback runs: the *)
(* two are one action.  A process that dies leaves its variables as they   *)
(* were; proxyState says that nothing reads them any more.                 *)
(***************************************************************************)
EXTENDS Protocol, FiniteSetsExt

CONSTANTS
  BackupCount,     \* block_backup_count of the configuration
  Recorded,        \* the files that earlier runs of the proxy recorded
  RequestBound,    \* bound: blocks of a file the environment names
  ReplyBound       \* bound: the environment sends no more beyond this backlog

ASSUME BackupCountAssumption == BackupCount \in Nat \ {0}
ASSUME RecordedAssumption == Recorded \subseteq Seq(Md5s)

VARIABLES
  proxyState,           \* "running", "exited" by exit(-1), or "crashed"
  nextFlow,             \* counter of get_flow_id
  idStorage,            \* the redis hash id_md5s: the files recorded
  clientState,          \* per flow: ClientContext::state_, "none" = not in clients_
  lateState,            \* state_ of a client no longer in clients_ whose last
                        \* message is still to be handled, then "handled"
  uploadingMd5s,        \* uploading_block_md5s_
  transferingServers,   \* transfering_storage_servers_, those not expired
  expired,              \* "yes": one of transfering_storage_servers_ has
                        \* expired; "closing": it will, its connection is closed
  answered,             \* succ_storages_ + fail_storages_ >= 1
  transferingBlockMd5s, \* transfering_block_md5s_
  transferIndex,        \* current_transfering_block_index_
  storageState,         \* per server: StorageContext::state_, "none" = not connected
  storageMd5s,          \* storage_md5s_
  blockAckCallbacks,    \* block_ack_callbacks_: per digest, flows to call back
  toClient,             \* sent, not yet received by the client
  toStorage             \* sent, not yet received by the storage server

upload == <<uploadingMd5s, transferingServers, expired, answered>>
download == <<transferingBlockMd5s, transferIndex>>
storages == <<storageState, storageMd5s, blockAckCallbacks>>
process == <<proxyState, nextFlow>>
pVars == <<process, idStorage, clientState, lateState, upload, download, storages,
           toClient, toStorage>>

AnyMd5 == Md5s \cup {NoMd5}
NoCallbacks == [m \in AnyMd5 |-> {}]

ClientStates ==
  {"none", "init", "waiting_upload_block", "have_uploaded_all_blocks",
   "waiting_transfer_block", "have_transfered_all_blocks"}

TypeOK ==
  /\ proxyState \in {"running", "exited", "crashed"}
  /\ nextFlow \in Nat
  /\ idStorage \subseteq Seq(Md5s)
  /\ clientState \in [Flows -> ClientStates]
  /\ lateState \in [Flows -> ClientStates \cup {"handled"}]
  /\ uploadingMd5s \in [Flows -> Seq(Md5s)]
  /\ transferingServers \in [Flows -> SUBSET Servers]
  /\ expired \in [Flows -> {"no", "closing", "yes"}]
  /\ answered \in [Flows -> BOOLEAN]
  /\ transferingBlockMd5s \in [Flows -> Seq(Md5s)]
  /\ transferIndex \in [Flows -> Nat]
  /\ storageState \in [Servers -> {"none", "waiting_block_set", "working"}]
  /\ storageMd5s \in [Servers -> SUBSET AnyMd5]
  /\ blockAckCallbacks \in [Servers -> [AnyMd5 -> SUBSET Flows]]
  /\ toClient \in [Flows -> Seq(ClientMessage)]
  /\ toStorage \in [Servers -> Seq(ToStorageMessage)]

Init ==
  /\ proxyState = "running"
  /\ nextFlow = 0
  /\ idStorage = Recorded
  /\ clientState = [f \in Flows |-> "none"]
  /\ lateState = [f \in Flows |-> "none"]
  /\ uploadingMd5s = [f \in Flows |-> <<>>]
  /\ transferingServers = [f \in Flows |-> {}]
  /\ expired = [f \in Flows |-> "no"]
  /\ answered = [f \in Flows |-> FALSE]
  /\ transferingBlockMd5s = [f \in Flows |-> <<>>]
  /\ transferIndex = [f \in Flows |-> 0]
  /\ storageState = [s \in Servers |-> "none"]
  /\ storageMd5s = [s \in Servers |-> {}]
  /\ blockAckCallbacks = [s \in Servers |-> NoCallbacks]
  /\ toClient = [f \in Flows |-> <<>>]
  /\ toStorage = [s \in Servers |-> <<>>]

Connected == {s \in Servers : storageState[s] # "none"}
StoragesOf(m) == {s \in Connected : m \in storageMd5s[s]}

SendToClient(f, msg) == toClient' = [toClient EXCEPT ![f] = Append(@, msg)]
SendToStorages(S, msg) ==
  toStorage' = [s \in Servers |->
                  IF s \in S THEN Append(toStorage[s], msg) ELSE toStorage[s]]
SetClientState(f, state) == clientState' = [clientState EXCEPT ![f] = state]

Dies(state) ==
  /\ proxyState' = state
  /\ UNCHANGED <<nextFlow, idStorage, clientState, upload, download, storages, toClient>>

----------------------------------------------------------------------------
(* Clients come and go. *)

ClientOnConnection(f) ==
  /\ proxyState = "running"
  /\ f = nextFlow
  /\ nextFlow' = nextFlow + 1
  /\ SetClientState(f, "init")
  /\ UNCHANGED <<proxyState, idStorage, lateState, upload, download, storages,
                 toClient, toStorage>>

(* Of what was sent on a connection that closes, some prefix arrives. *)
Truncated(sent, x) ==
  {[sent EXCEPT ![x] = SubSeq(sent[x], 1, n)] : n \in 0 .. Len(sent[x])}

(* A client that was served to the end; variant: or is being served.       *)
FinishedOrUploading(f) ==
  clientState[f] \in {"waiting_upload_block", "have_uploaded_all_blocks",
                      "have_transfered_all_blocks"}
Finished(f) ==
  clientState[f] \in {"have_uploaded_all_blocks", "have_transfered_all_blocks"}

(* A client that goes before it was served to the end may have left        *)
(* contexts on the storage servers: every one is told.                     *)
ClientOnClose(f) ==
  /\ proxyState = "running"
  /\ clientState[f] # "none"
  /\ SetClientState(f, "none")
  /\ SendToStorages(IF Finished(f) THEN {} ELSE Connected, ClientClean(f))
  /\ toClient' \in Truncated(toClient, f)
  /\ UNCHANGED <<process, idStorage, upload, download, storages>>

(* A message the client's state does not allow: force_close. *)
Allowed(state) ==
  CASE state = "init" -> {"upload_request", "download_request"}
    [] state = "waiting_upload_block" -> {"upload_block", "upload_all_blocks"}
    [] state = "waiting_transfer_block" -> {"transfer_block_ack"}
    [] OTHER -> {}

ClientMessageError(f, msg) ==
  /\ msg.type \notin Allowed(clientState[f])
  /\ ClientOnClose(f)

----------------------------------------------------------------------------
(* Upload. *)

(* getNeedUploadMd5s: the blocks no connected server is known to store. *)
NeedUpload(md5s) == Kept(md5s, {m \in Md5s : StoragesOf(m) = {}})

HandleUploadRequest(f, msg) ==
  /\ proxyState = "running"
  /\ uploadingMd5s' = [uploadingMd5s EXCEPT ![f] = msg.md5s]
  /\ \E need \in NeedUpload(msg.md5s) : SendToClient(f, UploadResponse(need))
  /\ SetClientState(f, "waiting_upload_block")
  /\ UNCHANGED <<process, idStorage, transferingServers, expired, answered,
                 download, storages, toStorage>>

(* The callback the first piece subscribes on each selected server, for    *)
(* the digest alone, whatever flow the acknowledged block came from.       *)
SubBlockAckEvent(S, m, f) ==
  blockAckCallbacks' = [s \in Servers |->
    IF s \in S
      THEN [blockAckCallbacks[s] EXCEPT ![m] = blockAckCallbacks[s][m] \cup {f}]
      ELSE blockAckCallbacks[s]]

(* The first piece of a block chooses the servers the whole block goes to. *)
StartBlock(f, msg) ==
  /\ proxyState = "running"
  /\ TheFirstBlockPiece(msg)
  /\ answered' = [answered EXCEPT ![f] = FALSE]
  /\ \E selected \in kSubset(BackupCount, Connected) :
       /\ transferingServers' = [transferingServers EXCEPT ![f] = selected]
       /\ SendToStorages(selected, SetFlowId(msg, f))
       /\ SubBlockAckEvent(selected, msg.md5, f)
  /\ expired' = [expired EXCEPT ![f] = "no"]
  /\ UNCHANGED <<process, idStorage, clientState, uploadingMd5s, download,
                 storageState, storageMd5s, toClient>>

(* selectSuitableStorageServers ends the process. *)
TooFewServers(f, msg) ==
  /\ proxyState = "running"
  /\ TheFirstBlockPiece(msg)
  /\ Cardinality(Connected) < BackupCount
  /\ Dies("exited")
  /\ UNCHANGED toStorage

(* Any other piece follows it.  What is sent to a server whose connection  *)
(* was closed just before is lost.                                         *)
RelayPiece(f, msg) ==
  /\ proxyState = "running"
  /\ ~TheFirstBlockPiece(msg)
  /\ expired[f] # "yes"
  /\ SendToStorages(transferingServers[f], SetFlowId(msg, f))
  /\ UNCHANGED <<process, idStorage, clientState, upload, download, storages, toClient>>

(* The last handler of a closed connection has run, and its session is     *)
(* destroyed.                                                              *)
Expire(f) ==
  /\ proxyState = "running"
  /\ expired[f] = "closing"
  /\ expired' = [expired EXCEPT ![f] = "yes"]
  /\ UNCHANGED <<process, idStorage, clientState, lateState, uploadingMd5s,
                 transferingServers, answered, download, storages, toClient, toStorage>>

(* After that lock() fails, and the branch that reports the server's exit  *)
(* follows the null pointer.  Some of the other servers were sent the      *)
(* piece before.                                                           *)
RelayToExpired(f, msg) ==
  /\ proxyState = "running"
  /\ ~TheFirstBlockPiece(msg)
  /\ expired[f] = "yes"
  /\ \E sent \in SUBSET transferingServers[f] : SendToStorages(sent, SetFlowId(msg, f))
  /\ Dies("crashed")

HandleUploadBlock(f, msg) ==
  \/ StartBlock(f, msg)
  \/ TooFewServers(f, msg)
  \/ RelayPiece(f, msg)
  \/ RelayToExpired(f, msg)

HandleUploadAllBlocks(f) ==
  /\ proxyState = "running"
  /\ idStorage' = idStorage \cup {uploadingMd5s[f]}
  /\ SendToClient(f, FileStorageSucc)
  /\ SetClientState(f, "have_uploaded_all_blocks")
  /\ UNCHANGED <<process, upload, download, storages, toStorage>>

----------------------------------------------------------------------------
(* Download. *)

HandleFileNotExist(f, msg) ==
  /\ proxyState = "running"
  /\ msg.file_id \notin idStorage
  /\ SendToClient(f, FileNotExist(msg.file_id))
  /\ UNCHANGED <<process, idStorage, clientState, upload, download, storages, toStorage>>

(* requestBlockFromStorageServer where a server has the block; variant:    *)
(* its arguments swapped.                                                  *)
RequestBlockSwapped(f, m) ==
  \E s \in StoragesOf(m) :
    toStorage' = [toStorage EXCEPT ![s] = Append(@, DownLoadBlock(f, m))]
RequestBlock(f, m) ==
  \E s \in StoragesOf(m) :
    toStorage' = [toStorage EXCEPT ![s] = Append(@, DownLoadBlock(m, f))]

ReallyNeed(msg) == Kept(msg.file_id, Md5s \ msg.md5s)

StartDownload(f, msg, need) ==
  /\ proxyState = "running"
  /\ msg.file_id \in idStorage
  /\ need # <<>>
  /\ transferingBlockMd5s' = [transferingBlockMd5s EXCEPT ![f] = need]
  /\ RequestBlock(f, need[transferIndex[f] + 1])
  /\ SetClientState(f, "waiting_transfer_block")
  /\ UNCHANGED <<process, idStorage, upload, transferIndex, storages, toClient>>

(* No connected server has the first block wanted: force_close, in the     *)
(* state the handler has just entered.                                     *)
DownloadRefused(f, msg, need) ==
  /\ msg.file_id \in idStorage
  /\ need # <<>>
  /\ StoragesOf(need[transferIndex[f] + 1]) = {}
  /\ ClientOnClose(f)

(* No block wanted: [0] of a vector without elements. *)
NothingToTransfer(f, msg, need) ==
  /\ proxyState = "running"
  /\ msg.file_id \in idStorage
  /\ need = <<>>
  /\ Dies("crashed")
  /\ UNCHANGED toStorage

HandleDownloadRequest(f, msg) ==
  \/ HandleFileNotExist(f, msg)
  \/ \E need \in ReallyNeed(msg) :
       \/ StartDownload(f, msg, need)
       \/ DownloadRefused(f, msg, need)
       \/ NothingToTransfer(f, msg, need)

(* continueToTransferBlock: the index is not that of the last block;       *)
(* variant: nor that of the last but one.                                  *)
ContinueToTransferEarly(f) == transferIndex[f] + 2 < Len(transferingBlockMd5s[f])
ContinueToTransfer(f) == transferIndex[f] + 1 < Len(transferingBlockMd5s[f])

(* moveToNextTransferBlockIndex; variant: a block is skipped. *)
SkipTransferBlockIndex(f) == [transferIndex EXCEPT ![f] = transferIndex[f] + 2]
MoveToNextTransferBlockIndex(f) == [transferIndex EXCEPT ![f] = transferIndex[f] + 1]

NextBlock(f) == transferingBlockMd5s[f][transferIndex[f] + 2]

TransferNextBlock(f) ==
  /\ proxyState = "running"
  /\ ContinueToTransfer(f)
  /\ transferIndex' = MoveToNextTransferBlockIndex(f)
  /\ RequestBlock(f, NextBlock(f))
  /\ UNCHANGED <<process, idStorage, clientState, upload, transferingBlockMd5s,
                 storages, toClient>>

TransferRefused(f) ==
  /\ ContinueToTransfer(f)
  /\ StoragesOf(NextBlock(f)) = {}
  /\ ClientOnClose(f)

TransferEnds(f) ==
  /\ proxyState = "running"
  /\ ~ContinueToTransfer(f)
  /\ SendToClient(f, TransferAllBlocks)
  /\ SetClientState(f, "have_transfered_all_blocks")
  /\ UNCHANGED <<process, idStorage, upload, download, storages, toStorage>>

HandleTransferBlockAck(f) == TransferNextBlock(f) \/ TransferRefused(f) \/ TransferEnds(f)

----------------------------------------------------------------------------
(* What a client says: the handler for its state and its message. *)

ClientHandles(f, msg) ==
  \/ /\ clientState[f] = "init"
     /\ \/ msg.type = "upload_request" /\ HandleUploadRequest(f, msg)
        \/ msg.type = "download_request" /\ HandleDownloadRequest(f, msg)
  \/ /\ clientState[f] = "waiting_upload_block"
     /\ \/ msg.type = "upload_block" /\ HandleUploadBlock(f, msg)
        \/ msg.type = "upload_all_blocks" /\ HandleUploadAllBlocks(f)
  \/ /\ clientState[f] = "waiting_transfer_block"
     /\ msg.type = "transfer_block_ack"
     /\ HandleTransferBlockAck(f)
  \/ ClientMessageError(f, msg)

ClientOnMessage(f, msg) == ClientHandles(f, msg) /\ UNCHANGED lateState

(* A write fails while the client's next message, read already, waits in   *)
(* the loop: onClose runs first.                                           *)
ClientWriteFails(f) ==
  /\ toClient[f] # <<>>
  /\ ClientOnClose(f)
  /\ lateState' = [lateState EXCEPT ![f] = clientState[f]]

(* Then that message is handled, in the state the client was left in and   *)
(* for the flow the storage servers were told is gone.  What the handlers  *)
(* send the client is lost, force_close does nothing, the next read fails. *)
LateRecord(f) ==
  /\ proxyState = "running"
  /\ idStorage' = idStorage \cup {uploadingMd5s[f]}
  /\ UNCHANGED <<process, clientState, upload, download, storages, toClient, toStorage>>

RequestIfStored(f, m) ==
  RequestBlock(f, m) \/ (StoragesOf(m) = {} /\ UNCHANGED toStorage)

LateStart(f, need) ==
  /\ proxyState = "running"
  /\ need # <<>>
  /\ transferingBlockMd5s' = [transferingBlockMd5s EXCEPT ![f] = need]
  /\ RequestIfStored(f, need[transferIndex[f] + 1])
  /\ UNCHANGED <<process, idStorage, clientState, upload, transferIndex, storages, toClient>>

LateNextBlock(f) ==
  /\ proxyState = "running"
  /\ ContinueToTransfer(f)
  /\ transferIndex' = MoveToNextTransferBlockIndex(f)
  /\ RequestIfStored(f, NextBlock(f))
  /\ UNCHANGED <<process, idStorage, clientState, upload, transferingBlockMd5s,
                 storages, toClient>>

LateIgnored(f, msg) ==
  /\ proxyState = "running"
  /\ \/ msg.type \notin Allowed(lateState[f])
     \/ msg.type = "upload_request"
     \/ msg.type = "download_request" /\ msg.file_id \notin idStorage
     \/ msg.type = "transfer_block_ack" /\ ~ContinueToTransfer(f)
  /\ UNCHANGED <<process, idStorage, clientState, upload, download, storages,
                 toClient, toStorage>>

LateHandles(f, msg) ==
  \/ /\ lateState[f] = "waiting_upload_block"
     /\ \/ msg.type = "upload_block" /\ HandleUploadBlock(f, msg)
        \/ msg.type = "upload_all_blocks" /\ LateRecord(f)
  \/ /\ lateState[f] = "init" /\ msg.type = "download_request"
     /\ msg.file_id \in idStorage
     /\ \E need \in ReallyNeed(msg) : LateStart(f, need) \/ NothingToTransfer(f, msg, need)
  \/ /\ lateState[f] = "waiting_transfer_block" /\ msg.type = "transfer_block_ack"
     /\ LateNextBlock(f)
  \/ LateIgnored(f, msg)

LateMessage(f, msg) ==
  /\ lateState[f] \notin {"none", "handled"}
  /\ LateHandles(f, msg)
  /\ lateState' = [lateState EXCEPT ![f] = "handled"]

----------------------------------------------------------------------------
(* Storage servers come and go. *)

StorageOnConnection(s) ==
  /\ proxyState = "running"
  /\ storageState[s] = "none"
  /\ storageState' = [storageState EXCEPT ![s] = "waiting_block_set"]
  /\ storageMd5s' = [storageMd5s EXCEPT ![s] = {}]
  /\ blockAckCallbacks' = [blockAckCallbacks EXCEPT ![s] = NoCallbacks]
  /\ toStorage' = [toStorage EXCEPT ![s] = <<>>]
  /\ UNCHANGED <<process, idStorage, clientState, lateState, upload, download, toClient>>

(* What the callbacks do that are called for the flows in called: those of *)
(* connected clients vote, and the first vote on a block (readyToReply     *)
(* compares the votes with 1) answers its client, naming the digest called *)
(* for (md5, a function of the flow).                                      *)
Notified(called) == {f \in called : clientState[f] # "none"}

(* What the client is told; variant: ack when at least 0 servers voted for *)
(* success.                                                                *)
ReplyAnyway(succ, m) == UploadBlockAck(m)
Reply(succ, m) == IF succ THEN UploadBlockAck(m) ELSE UploadBlockFail(m)

CallBack(called, succ, md5) ==
  /\ answered' = [f \in Flows |-> answered[f] \/ f \in Notified(called)]
  /\ toClient' = [f \in Flows |->
       IF f \in Notified(called) /\ ~answered[f]
         THEN Append(toClient[f], Reply(succ, md5[f])) ELSE toClient[f]]

(* handleRemainEvent, in the order of the digests (any digest stands for   *)
(* the first: a client reads none), when the connection is dropped;        *)
(* variant: not called.                                                    *)
Remaining(s) == UNION {blockAckCallbacks[s][m] : m \in AnyMd5}
RemainingMd5(s, f) == CHOOSE m \in AnyMd5 : f \in blockAckCallbacks[s][m]

HandleRemainEventNot(s) == UNCHANGED <<answered, toClient>>
HandleRemainEvent(s) == CallBack(Remaining(s), FALSE, [f \in Remaining(s) |-> RemainingMd5(s, f)])

StorageOnClose(s) ==
  /\ proxyState = "running"
  /\ storageState[s] # "none"
  /\ HandleRemainEvent(s)
  /\ storageState' = [storageState EXCEPT ![s] = "none"]
  /\ storageMd5s' = [storageMd5s EXCEPT ![s] = {}]
  /\ blockAckCallbacks' = [blockAckCallbacks EXCEPT ![s] = NoCallbacks]
  /\ transferingServers' = [f \in Flows |-> transferingServers[f] \ {s}]
  /\ expired' = [f \in Flows |->
       IF s \in transferingServers[f] /\ expired[f] = "no" THEN "closing" ELSE expired[f]]
  /\ toStorage' \in Truncated(toStorage, s)
  /\ UNCHANGED <<process, idStorage, clientState, lateState, uploadingMd5s, download>>

(* What a storage server says. *)

(* pushStorageMd5; variant: forgotten. *)
PushStorageMd5Not(s, md5s) == storageMd5s
PushStorageMd5(s, md5s) == [storageMd5s EXCEPT ![s] = storageMd5s[s] \cup md5s]

(* The last set starts the work; variant: it does not. *)
AfterBlockSetNot(msg) == "waiting_block_set"
AfterBlockSet(msg) == IF msg.eof THEN "working" ELSE "waiting_block_set"

HandleTransferBlockSet(s, msg) ==
  /\ proxyState = "running"
  /\ storageState[s] = "waiting_block_set"
  /\ msg.type = "transfer_block_set"
  /\ storageMd5s' = PushStorageMd5(s, msg.md5s)
  /\ storageState' = [storageState EXCEPT ![s] = AfterBlockSet(msg)]
  /\ UNCHANGED <<process, idStorage, clientState, lateState, upload, download,
                 blockAckCallbacks, toClient, toStorage>>

(* pubBlockAckEvent erases the callbacks it has called; variants: none, or *)
(* all of the server's.                                                    *)
ErasedNot(s, m) == blockAckCallbacks
ErasedAll(s, m) == [blockAckCallbacks EXCEPT ![s] = NoCallbacks]
Erased(s, m) == [blockAckCallbacks EXCEPT ![s] = [blockAckCallbacks[s] EXCEPT ![m] = {}]]

HandleUploadBlockAck(s, msg) ==
  /\ proxyState = "running"
  /\ storageState[s] = "working"
  /\ msg.type = "upload_block_ack"
  /\ CallBack(blockAckCallbacks[s][msg.md5], TRUE, [f \in Flows |-> msg.md5])
  /\ blockAckCallbacks' = Erased(s, msg.md5)
  /\ storageMd5s' = PushStorageMd5(s, {msg.md5})
  /\ UNCHANGED <<process, idStorage, clientState, lateState, uploadingMd5s, transferingServers,
                 expired, download, storageState, toStorage>>

HandleUploadBlockFail(s, msg) ==
  /\ proxyState = "running"
  /\ storageState[s] = "working"
  /\ msg.type = "upload_block_fail"
  /\ msg.md5 # NoMd5
  /\ CallBack(blockAckCallbacks[s][msg.md5], FALSE, [f \in Flows |-> msg.md5])
  /\ blockAckCallbacks' = Erased(s, msg.md5)
  /\ UNCHANGED <<process, idStorage, clientState, lateState, uploadingMd5s, transferingServers,
                 expired, download, storageState, storageMd5s, toStorage>>

(* A fail that names no digest does not pass the assertion in Md5Info. *)
NamelessFail(s, msg) ==
  /\ proxyState = "running"
  /\ storageState[s] = "working"
  /\ msg.type = "upload_block_fail"
  /\ msg.md5 = NoMd5
  /\ Dies("crashed")
  /\ UNCHANGED <<lateState, toStorage>>

(* A piece goes to the client of its flow, if it is still there. *)
HandleTransferBlock(s, msg) ==
  /\ proxyState = "running"
  /\ storageState[s] = "working"
  /\ msg.type = "transfer_block"
  /\ toClient' = [f \in Flows |->
       IF f = msg.flow_id /\ clientState[f] # "none"
         THEN Append(toClient[f], msg) ELSE toClient[f]]
  /\ UNCHANGED <<process, idStorage, clientState, lateState, upload, download, storages, toStorage>>

(* Anything else is an error: force_close.  So is whatever a server that   *)
(* still sends its block set answers to what the proxy sent it already.    *)
StorageMessageError(s, msg) ==
  /\ storageState[s] = "waiting_block_set" <=> msg.type # "transfer_block_set"
  /\ StorageOnClose(s)

StorageOnMessage(s, msg) ==
  \/ HandleTransferBlockSet(s, msg)
  \/ HandleUploadBlockAck(s, msg)
  \/ HandleUploadBlockFail(s, msg)
  \/ NamelessFail(s, msg)
  \/ HandleTransferBlock(s, msg)
  \/ StorageMessageError(s, msg)

----------------------------------------------------------------------------
(* The proxy in an open environment: clients and storage servers that send *)
(* any message of the protocol at any time.                                *)

Requests == UNION {[1 .. n -> Md5s] : n \in 0 .. RequestBound}

ClientInput ==
       {UploadRequest(md5s) : md5s \in Requests} \cup {UploadAllBlocks}
  \cup {UploadBlock(m, i, eof, AlteredContent) : m \in Md5s, i \in {0, 1}, eof \in BOOLEAN}
  \cup {DownLoadRequest(id, have) : id \in Requests \cup Recorded, have \in Requests}
  \cup {TransferBlockAck(m) : m \in Md5s}

ClientSends(f) ==
  /\ Len(toClient[f]) < ReplyBound
  /\ \A s \in Connected : Len(toStorage[s]) < ReplyBound
  /\ \E msg \in ClientInput : ClientOnMessage(f, msg) \/ LateMessage(f, msg)

StorageInput ==
       {TransferBlockSet(md5s, eof) : md5s \in SUBSET Md5s, eof \in BOOLEAN}
  \cup {UploadBlockAck(m) : m \in Md5s} \cup {UploadBlockFail(m) : m \in AnyMd5}
  \cup {TransferBlock(m, 0, TRUE, f, AlteredContent) : m \in Md5s, f \in Flows}

StorageSends(s) ==
  /\ \A f \in Flows : Len(toClient[f]) < ReplyBound
  /\ \E msg \in StorageInput : StorageOnMessage(s, msg)

(* The other end receives the oldest message. *)
ClientReceives(f) ==
  /\ toClient[f] # <<>>
  /\ toClient' = [toClient EXCEPT ![f] = Tail(toClient[f])]
  /\ UNCHANGED <<process, idStorage, clientState, lateState, upload, download, storages,
                 toStorage>>

StorageReceives(s) ==
  /\ toStorage[s] # <<>>
  /\ toStorage' = [toStorage EXCEPT ![s] = Tail(toStorage[s])]
  /\ UNCHANGED <<process, idStorage, clientState, lateState, upload, download, storages,
                 toClient>>

Next ==
  \/ \E f \in Flows :
       \/ ClientOnConnection(f)
       \/ ClientSends(f)
       \/ Expire(f)
       \/ ClientOnClose(f) /\ UNCHANGED lateState
       \/ ClientWriteFails(f)
       \/ ClientReceives(f)
  \/ \E s \in Servers :
       \/ StorageOnConnection(s)
       \/ StorageSends(s)
       \/ StorageOnClose(s)
       \/ StorageReceives(s)

Spec == Init /\ [][Next]_pVars

----------------------------------------------------------------------------
(* Properties. *)

(* A client that has begun a block and has not been answered has a         *)
(* callback on a connected server: the server's answer, or the end of its  *)
(* connection, will reach the client.                                      *)
AnswerOwed ==
  \A f \in Flows :
    /\ clientState[f] = "waiting_upload_block"
    /\ transferingServers[f] # {} \/ expired[f] # "no"
    /\ ~answered[f]
    => \E s \in Connected : f \in Remaining(s)

(* A downloading client waits for the block at its index, which is one of  *)
(* those it wants (no index runs past them, whatever acknowledgements the  *)
(* client sends), and no later block was asked of a server for it.         *)
RequestedInOrder ==
  \A f \in Flows :
    clientState[f] = "waiting_transfer_block" =>
      /\ transferIndex[f] < Len(transferingBlockMd5s[f])
      /\ \A s \in Servers : \A i \in DOMAIN toStorage[s] :
           LET msg == toStorage[s][i]
               wanted == {transferingBlockMd5s[f][k] : k \in 1 .. transferIndex[f] + 1}
           IN msg.type = "download_block" /\ msg.flow_id = f => msg.md5 \in wanted
=============================================================================
