-------------------------- MODULE FileStorageProofs --------------------------
(***************************************************************************)
(* Theorems about FileStorage.tla, the composed system, for every number   *)
(* of clients, servers, blocks, pieces, deaths and killed clients.         *)
(*                                                                         *)
(* What ProxyProofs.tla and StorageServerProofs.tla prove of the proxy and *)
(* of a server, each with any partner, is carried over: every step of the  *)
(* system is one of theirs or leaves their variables alone.                *)
(***************************************************************************)
EXTENDS FileStorage, SequenceTheorems, FiniteSetTheorems, TLAPS

PP == INSTANCE ProxyProofs
SS == INSTANCE StorageServerProofs

----------------------------------------------------------------------------
(* P and PP, S and SS are instances of the same modules: what the one      *)
(* defines is, when all of it is expanded, what the other does.            *)

LEMMA ProxyInstances ==
  /\ \A f : P!ClientOnConnection(f) => PP!ClientOnConnection(f)
  /\ \A f : P!ClientOnClose(f) => PP!ClientOnClose(f)
  /\ \A f : P!Expire(f) => PP!Expire(f)
  /\ \A f, msg : P!ClientOnMessage(f, msg) => PP!ClientOnMessage(f, msg)
  /\ \A f : P!ClientWriteFails(f) => PP!ClientWriteFails(f)
  /\ \A f, msg : P!LateMessage(f, msg) => PP!LateMessage(f, msg)
  /\ \A s : P!StorageOnConnection(s) => PP!StorageOnConnection(s)
  /\ \A s : P!StorageOnClose(s) => PP!StorageOnClose(s)
  /\ \A s, msg : P!StorageOnMessage(s, msg) => PP!StorageOnMessage(s, msg)
  /\ P!Init => PP!Init
  /\ P!TypeOK <=> PP!TypeOK
  /\ P!AnswerOwed <=> PP!AnswerOwed
  /\ P!RequestedInOrder <=> PP!RequestedInOrder
<1> USE DEF
      P!upload, PP!upload, P!download, PP!download, P!storages, PP!storages,
      P!process, PP!process, P!AnyMd5, PP!AnyMd5, P!NoCallbacks, PP!NoCallbacks,
      P!ClientStates, PP!ClientStates, P!TypeOK, PP!TypeOK, P!Init, PP!Init,
      P!Connected, PP!Connected, P!StoragesOf, PP!StoragesOf, P!SendToClient,
      PP!SendToClient, P!SendToStorages, PP!SendToStorages, P!SetClientState,
      PP!SetClientState, P!Dies, PP!Dies, P!ClientOnConnection,
      PP!ClientOnConnection, P!Truncated, PP!Truncated, P!Finished, PP!Finished,
      P!ClientOnClose, PP!ClientOnClose, P!Allowed, PP!Allowed,
      P!ClientMessageError, PP!ClientMessageError, P!NeedUpload, PP!NeedUpload,
      P!HandleUploadRequest, PP!HandleUploadRequest, P!SubBlockAckEvent,
      PP!SubBlockAckEvent, P!StartBlock, PP!StartBlock, P!TooFewServers,
      PP!TooFewServers, P!RelayPiece, PP!RelayPiece, P!Expire, PP!Expire,
      P!RelayToExpired, PP!RelayToExpired, P!HandleUploadBlock,
      PP!HandleUploadBlock, P!HandleUploadAllBlocks, PP!HandleUploadAllBlocks,
      P!HandleFileNotExist, PP!HandleFileNotExist, P!RequestBlock,
      PP!RequestBlock, P!ReallyNeed, PP!ReallyNeed, P!StartDownload,
      PP!StartDownload, P!DownloadRefused, PP!DownloadRefused,
      P!NothingToTransfer, PP!NothingToTransfer, P!HandleDownloadRequest,
      PP!HandleDownloadRequest, P!ContinueToTransfer, PP!ContinueToTransfer,
      P!MoveToNextTransferBlockIndex, PP!MoveToNextTransferBlockIndex,
      P!NextBlock, PP!NextBlock, P!TransferNextBlock, PP!TransferNextBlock,
      P!TransferRefused, PP!TransferRefused, P!TransferEnds, PP!TransferEnds,
      P!HandleTransferBlockAck, PP!HandleTransferBlockAck, P!ClientHandles,
      PP!ClientHandles, P!ClientOnMessage, PP!ClientOnMessage, P!ClientWriteFails,
      PP!ClientWriteFails, P!LateRecord, PP!LateRecord, P!RequestIfStored,
      PP!RequestIfStored, P!LateStart, PP!LateStart, P!LateNextBlock,
      PP!LateNextBlock, P!LateIgnored, PP!LateIgnored, P!LateHandles,
      PP!LateHandles, P!LateMessage, PP!LateMessage, P!NamelessFail,
      PP!NamelessFail, P!StorageOnConnection, PP!StorageOnConnection,
      P!Notified, PP!Notified, P!Reply, PP!Reply, P!CallBack, PP!CallBack,
      P!Remaining, PP!Remaining, P!RemainingMd5, PP!RemainingMd5,
      P!HandleRemainEvent, PP!HandleRemainEvent, P!StorageOnClose,
      PP!StorageOnClose, P!PushStorageMd5, PP!PushStorageMd5, P!AfterBlockSet,
      PP!AfterBlockSet, P!HandleTransferBlockSet, PP!HandleTransferBlockSet,
      P!Erased, PP!Erased, P!HandleUploadBlockAck, PP!HandleUploadBlockAck,
      P!HandleUploadBlockFail, PP!HandleUploadBlockFail, P!HandleTransferBlock,
      PP!HandleTransferBlock, P!StorageMessageError, PP!StorageMessageError,
      P!StorageOnMessage, PP!StorageOnMessage, P!AnswerOwed, PP!AnswerOwed,
      P!RequestedInOrder, PP!RequestedInOrder, P!PieceContent, PP!PieceContent,
      P!Increasing, PP!Increasing, P!Kept, PP!Kept, P!UploadResponse,
      PP!UploadResponse, P!SetFlowId, PP!SetFlowId, P!UploadBlockAck,
      PP!UploadBlockAck, P!UploadBlockFail, PP!UploadBlockFail,
      P!FileStorageSucc, PP!FileStorageSucc, P!FileNotExist, PP!FileNotExist,
      P!TransferAllBlocks, PP!TransferAllBlocks, P!TheFirstBlockPiece,
      PP!TheFirstBlockPiece, P!DownLoadBlock, PP!DownLoadBlock, P!ClientClean,
      PP!ClientClean, P!UploadBlockMessage, PP!UploadBlockMessage,
      P!DownLoadBlockMessage, PP!DownLoadBlockMessage, P!ClientCleanMessage,
      PP!ClientCleanMessage, P!ToStorageMessage, PP!ToStorageMessage,
      P!FromClientMessage, PP!FromClientMessage, P!ClientMessage,
      PP!ClientMessage, P!kSubset, PP!kSubset, P!Cardinality, PP!Cardinality
<1>1. ASSUME NEW f PROVE P!ClientOnConnection(f) => PP!ClientOnConnection(f)
  OBVIOUS
<1>2. ASSUME NEW f PROVE P!ClientOnClose(f) => PP!ClientOnClose(f)
  OBVIOUS
<1>3. ASSUME NEW f PROVE P!Expire(f) => PP!Expire(f)
  BY SMTT(60)
<1>4. ASSUME NEW f, NEW msg PROVE P!ClientOnMessage(f, msg) => PP!ClientOnMessage(f, msg)
  OBVIOUS
<1>5. ASSUME NEW s PROVE P!StorageOnConnection(s) => PP!StorageOnConnection(s)
  OBVIOUS
<1>6. ASSUME NEW s PROVE P!StorageOnClose(s) => PP!StorageOnClose(s)
  BY SMTT(60)
<1>7. ASSUME NEW s, NEW msg PROVE P!StorageOnMessage(s, msg) => PP!StorageOnMessage(s, msg)
  OBVIOUS
<1>8. P!Init => PP!Init
  OBVIOUS
<1>9. P!TypeOK <=> PP!TypeOK
  OBVIOUS
<1>10. P!AnswerOwed <=> PP!AnswerOwed
  OBVIOUS
<1>11. P!RequestedInOrder <=> PP!RequestedInOrder
  BY SMTT(60)
<1>12. ASSUME NEW f PROVE P!ClientWriteFails(f) => PP!ClientWriteFails(f)
  OBVIOUS
<1>13. ASSUME NEW f, NEW msg PROVE P!LateMessage(f, msg) => PP!LateMessage(f, msg)
  OBVIOUS
<1> QED
  BY ZenonT(60), <1>1, <1>2, <1>3, <1>4, <1>5, <1>6, <1>7, <1>8, <1>9, <1>10, <1>11, <1>12, <1>13

LEMMA ServerInstances ==
  /\ \A s : S!OnConnection(s) => SS!OnConnection(s)
  /\ \A s : S!OnWriteComplete(s) => SS!OnWriteComplete(s)
  /\ \A s : S!OnClose(s) => SS!OnClose(s)
  /\ \A s : S!Crash(s) => SS!Crash(s)
  /\ \A s, msg : S!OnUploadBlock(s, msg) => SS!OnUploadBlock(s, msg)
  /\ \A s, msg : S!CrashWhileStoring(s, msg) => SS!CrashWhileStoring(s, msg)
  /\ \A s, msg : S!OnDownLoadBlock(s, msg) => SS!OnDownLoadBlock(s, msg)
  /\ \A s, msg : S!ExitOnDownLoadBlock(s, msg) => SS!ExitOnDownLoadBlock(s, msg)
  /\ \A s, msg : S!OnClientClean(s, msg) => SS!OnClientClean(s, msg)
  /\ S!Init => SS!Init
  /\ S!TypeOK <=> SS!TypeOK
  /\ S!RefCountExact <=> SS!RefCountExact
  /\ S!PumpAlive <=> SS!PumpAlive
  /\ S!AckedOnDisk <=> SS!AckedOnDisk
  /\ S!FileHasPath <=> SS!FileHasPath
  /\ S!PiecesInOrder <=> SS!PiecesInOrder
<1> USE DEF
      S!memory, SS!memory, S!disk, SS!disk, S!Missing, SS!Missing, S!NoUpload,
      SS!NoUpload, S!NoDownload, SS!NoDownload, S!UploadContext,
      SS!UploadContext, S!DownloadContext, SS!DownloadContext, S!TypeOK,
      SS!TypeOK, S!Init, SS!Init, S!Send, SS!Send, S!SendSomeMd5sToProxy,
      SS!SendSomeMd5sToProxy, S!OnConnection, SS!OnConnection, S!Downloading,
      SS!Downloading, S!FirstFlow, SS!FirstFlow, S!Advanced, SS!Advanced,
      S!SendSomeMd5PieceToProxy, SS!SendSomeMd5PieceToProxy, S!Loadable,
      SS!Loadable, S!Servable, SS!Servable, S!OnDownLoadBlock,
      SS!OnDownLoadBlock, S!OnWriteComplete, SS!OnWriteComplete, S!Extended,
      SS!Extended, S!UploadOf, SS!UploadOf, S!DigestMatches, SS!DigestMatches,
      S!CleanUploadContext, SS!CleanUploadContext, S!ReceivePiece,
      SS!ReceivePiece, S!RejectBlock, SS!RejectBlock, S!StoredFile,
      SS!StoredFile, S!StoreBlock, SS!StoreBlock, S!OnUploadBlock,
      SS!OnUploadBlock, S!Released, SS!Released, S!Cleaned, SS!Cleaned,
      S!OnClientClean, SS!OnClientClean, S!Exit, SS!Exit, S!Crash, SS!Crash,
      S!CrashWhileStoring, SS!CrashWhileStoring, S!ExitOnDownLoadBlock,
      SS!ExitOnDownLoadBlock, S!Uploading, SS!Uploading, S!OnClose, SS!OnClose,
      S!RefCountExact, SS!RefCountExact, S!PumpAlive, SS!PumpAlive,
      S!AckedOnDisk, SS!AckedOnDisk, S!FileHasPath, SS!FileHasPath, S!PieceOf,
      SS!PieceOf, S!Follows, SS!Follows, S!Later, SS!Later, S!OrderedOn,
      SS!OrderedOn, S!PiecesInOrder, SS!PiecesInOrder, S!AlteredContent,
      SS!AlteredContent, S!PieceContent, SS!PieceContent, S!BlockContent,
      SS!BlockContent, S!UploadBlockAck, SS!UploadBlockAck, S!UploadBlockFail,
      SS!UploadBlockFail, S!TheFirstBlockPiece, SS!TheFirstBlockPiece,
      S!TransferBlockSet, SS!TransferBlockSet, S!TransferBlock,
      SS!TransferBlock, S!StorageMessage, SS!StorageMessage, S!Cardinality,
      SS!Cardinality
<1>1. ASSUME NEW s PROVE S!OnConnection(s) => SS!OnConnection(s)
  BY ZenonT(60)
<1>2. ASSUME NEW s PROVE S!OnWriteComplete(s) => SS!OnWriteComplete(s)
  OBVIOUS
<1>3. ASSUME NEW s PROVE S!OnClose(s) => SS!OnClose(s)
  OBVIOUS
<1>4. ASSUME NEW s PROVE S!Crash(s) => SS!Crash(s)
  OBVIOUS
<1>5. ASSUME NEW s, NEW msg PROVE S!OnUploadBlock(s, msg) => SS!OnUploadBlock(s, msg)
  OBVIOUS
<1>6. ASSUME NEW s, NEW msg PROVE S!CrashWhileStoring(s, msg) => SS!CrashWhileStoring(s, msg)
  OBVIOUS
<1>7. ASSUME NEW s, NEW msg PROVE S!OnDownLoadBlock(s, msg) => SS!OnDownLoadBlock(s, msg)
  OBVIOUS
<1>8. ASSUME NEW s, NEW msg
      PROVE  S!ExitOnDownLoadBlock(s, msg) => SS!ExitOnDownLoadBlock(s, msg)
  OBVIOUS
<1>9. ASSUME NEW s, NEW msg PROVE S!OnClientClean(s, msg) => SS!OnClientClean(s, msg)
  OBVIOUS
<1>10. S!Init => SS!Init
  OBVIOUS
<1>11. S!TypeOK <=> SS!TypeOK
  OBVIOUS
<1>12. S!RefCountExact <=> SS!RefCountExact
  OBVIOUS
<1>13. S!PumpAlive <=> SS!PumpAlive
  OBVIOUS
<1>14. S!AckedOnDisk <=> SS!AckedOnDisk
  OBVIOUS
<1>15. S!FileHasPath <=> SS!FileHasPath
  OBVIOUS
<1>16. S!PiecesInOrder <=> SS!PiecesInOrder
  OBVIOUS
<1> QED
  BY ZenonT(60), <1>1, <1>2, <1>3, <1>4, <1>5, <1>6, <1>7, <1>8, <1>9, <1>10, <1>11, <1>12, <1>13,
     <1>14, <1>15, <1>16

----------------------------------------------------------------------------
(* What was proved of the proxy and of a server; this module's assumptions *)
(* on the constants are those of theirs.                                   *)

LEMMA ProxyInit == PP!Init => PP!IInv
BY PP!InitIInv,
   ServersAssumption, FlowsAssumption, Md5sAssumption, PiecesAssumption, ProxyAssumption
   DEF PP!InitIInv, PP!IsFiniteSet, IsFiniteSet

LEMMA ProxyKeeps == PP!IInv /\ PP!ProxyStep => PP!IInv'
BY PP!ProxyStepKeeps,
   ServersAssumption, FlowsAssumption, Md5sAssumption, PiecesAssumption, ProxyAssumption
   DEF PP!ProxyStepKeeps, PP!IsFiniteSet, IsFiniteSet

LEMMA ProxyOrder == PP!IInv => PP!RequestedInOrder
BY PP!InOrderRequested,
   ServersAssumption, FlowsAssumption, Md5sAssumption, PiecesAssumption, ProxyAssumption
   DEF PP!InOrderRequested, PP!IsFiniteSet, IsFiniteSet

LEMMA ServerInit == SS!Init => SS!ServerInv
BY SS!ServerInit,
   ServersAssumption, FlowsAssumption, Md5sAssumption, PiecesAssumption, StorageAssumption
   DEF SS!ServerInit, SS!IsFiniteSet, IsFiniteSet

LEMMA ServerKeeps ==
  ASSUME SS!ServerInv, NEW s \in Servers, SS!ServerStep(s) PROVE SS!ServerInv'
BY SS!ServerStepKeeps,
   ServersAssumption, FlowsAssumption, Md5sAssumption, PiecesAssumption, StorageAssumption
   DEF SS!ServerStepKeeps, SS!IsFiniteSet, IsFiniteSet

LEMMA ServerSame == SS!ServerInv /\ UNCHANGED SS!sVars => SS!ServerInv'
BY SS!ServerSame,
   ServersAssumption, FlowsAssumption, Md5sAssumption, PiecesAssumption, StorageAssumption
   DEF SS!ServerSame, SS!IsFiniteSet, IsFiniteSet

----------------------------------------------------------------------------
(* Every step of the system, as the proxy and as a server see it.          *)

LEMMA ProxySteps ==
  ASSUME A!TypeOK, S!TypeOK, [Next]_vars PROVE PP!ProxyStep
<1>1. fromClient \in [Flows -> Seq(PP!FromClientMessage)]
  BY DEF A!TypeOK, A!FromClientMessage, A!PieceContent, PP!FromClientMessage, PP!PieceContent
<1>2. toProxy \in [Servers -> Seq(PP!StorageMessage)]
  BY DEF S!TypeOK, S!StorageMessage, S!PieceContent, PP!StorageMessage, PP!PieceContent
<1>3. ASSUME NEW f \in Flows, AgentConnects(f) \/ DownloaderConnects(f) PROVE PP!ClientStep(f)
  BY <1>3, ProxyInstances DEF AgentConnects, DownloaderConnects, PP!ClientStep
<1>4. ASSUME NEW f \in Flows, ProxyReadsClient(f) \/ ProxyReadsLate(f) PROVE PP!ClientStep(f)
  <2>1. Head(fromClient[f]) \in PP!FromClientMessage
    BY <1>1, <1>4 DEF ProxyReadsClient, ProxyReadsLate
  <2> QED
    BY <1>4, <2>1, ProxyInstances DEF ProxyReadsClient, ProxyReadsLate, PP!ClientStep
<1>5. ASSUME NEW f \in Flows,
             SessionDestroyed(f) \/ ProxyLosesClient(f) \/ ProxyWriteFails(f)
      PROVE  PP!ClientStep(f)
  BY <1>5, ProxyInstances
     DEF SessionDestroyed, ProxyLosesClient, ProxyWriteFails, PP!ClientStep
<1>6. ASSUME NEW f \in Flows, AgentReads(f) \/ DownloaderReads(f) PROVE PP!ClientStep(f)
  <2>1. PP!ClientReceives(f)
    BY <1>6 DEF AgentReads, DownloaderReads, PP!ClientReceives, proxy, PP!process, PP!upload,
                PP!download, PP!storages
  <2> QED
    BY <2>1 DEF PP!ClientStep
<1>7. ASSUME NEW s \in Servers, ServerConnects(s) \/ ProxyLosesStorage(s)
      PROVE  PP!StorageStep(s)
  BY <1>7, ProxyInstances DEF ServerConnects, ProxyLosesStorage, PP!StorageStep
<1>8. ASSUME NEW s \in Servers, ProxyReadsStorage(s) PROVE PP!StorageStep(s)
  <2>1. Head(toProxy[s]) \in PP!StorageMessage
    BY <1>2, <1>8 DEF ProxyReadsStorage
  <2> QED
    BY <1>8, <2>1, ProxyInstances DEF ProxyReadsStorage, PP!StorageStep
<1>9. ASSUME NEW s \in Servers, StorageReads(s) PROVE PP!StorageStep(s)
  <2>1. PP!StorageReceives(s)
    BY <1>9 DEF StorageReads, PP!StorageReceives, proxy, PP!process, PP!upload,
                PP!download, PP!storages
  <2> QED
    BY <2>1 DEF PP!StorageStep
<1>10. ASSUME \/ \E f \in Flows : \/ AgentWrote(f) \/ AgentLosesProxy(f) \/ AgentKilled(f)
                                  \/ DownloaderLosesProxy(f) \/ DownloaderKilled(f)
              \/ \E s \in Servers : StorageWrote(s) \/ StorageLosesProxy(s) \/ StorageDies(s)
              \/ UNCHANGED vars
       PROVE  UNCHANGED PP!pVars
  BY <1>10 DEF AgentWrote, AgentLosesProxy, AgentKilled, DownloaderLosesProxy,
               DownloaderKilled, StorageWrote, StorageLosesProxy, StorageDies, vars, proxy,
               PP!pVars, PP!process, PP!upload, PP!download, PP!storages
<1> QED
  BY <1>3, <1>4, <1>5, <1>6, <1>7, <1>8, <1>9, <1>10
     DEF PP!ProxyStep, Next, AgentStep, DownloaderStep, ProxyStep, StorageStep, ProxyStorageStep

LEMMA ServerSteps ==
  ASSUME P!TypeOK, [Next]_vars
  PROVE  (\E s \in Servers : SS!ServerStep(s)) \/ UNCHANGED SS!sVars
<1>1. ASSUME NEW s \in Servers, toStorage[s] # <<>>
      PROVE  LET msg == Head(toStorage[s]) IN
             /\ msg.type = "upload_block" => msg \in SS!UploadBlockMessage
             /\ msg.type = "download_block" => msg \in SS!DownLoadBlockMessage
             /\ msg.type = "client_clean" => msg \in SS!ClientCleanMessage
  <2>1. Head(toStorage[s]) \in P!ToStorageMessage
    BY <1>1 DEF P!TypeOK
  <2> QED
    BY <2>1 DEF P!ToStorageMessage, P!UploadBlockMessage, P!DownLoadBlockMessage,
                P!ClientCleanMessage, P!PieceContent, SS!UploadBlockMessage,
                SS!DownLoadBlockMessage, SS!ClientCleanMessage, SS!PieceContent
<1>2. ASSUME NEW s \in Servers, ServerConnects(s) PROVE SS!ServerStep(s)
  BY <1>2, ServerInstances DEF ServerConnects, SS!ServerStep
<1>3. ASSUME NEW s \in Servers, StorageReads(s) PROVE SS!ServerStep(s)
  BY <1>1, <1>3, ServerInstances DEF StorageReads, StorageHandles, SS!ServerStep
<1>4. ASSUME NEW s \in Servers, StorageWrote(s) \/ StorageLosesProxy(s) PROVE SS!ServerStep(s)
  BY <1>4, ServerInstances DEF StorageWrote, StorageLosesProxy, SS!ServerStep
<1>5. ASSUME NEW s \in Servers, StorageDies(s) PROVE SS!ServerStep(s)
  BY <1>1, <1>5, ServerInstances DEF StorageDies, SS!ServerStep
<1>6. ASSUME NEW s \in Servers, ProxyReadsStorage(s) PROVE SS!ServerStep(s)
  <2>1. SS!Deliver(s)
    BY <1>6 DEF ProxyReadsStorage, servers, SS!Deliver, SS!memory, SS!disk
  <2> QED
    BY <2>1 DEF SS!ServerStep
<1>7. ASSUME \/ \E f \in Flows :
                  \/ AgentConnects(f) \/ DownloaderConnects(f) \/ AgentStep(f)
                  \/ DownloaderStep(f) \/ ProxyStep(f) \/ AgentKilled(f)
                  \/ DownloaderKilled(f)
             \/ \E s \in Servers : ProxyLosesStorage(s)
             \/ UNCHANGED vars
      PROVE  UNCHANGED SS!sVars
  BY <1>7 DEF AgentConnects, DownloaderConnects, AgentStep, AgentReads, AgentWrote,
              AgentLosesProxy, DownloaderStep, DownloaderReads, DownloaderLosesProxy, ProxyStep,
              ProxyReadsClient, SessionDestroyed, ProxyLosesClient, ProxyWriteFails,
              ProxyReadsLate, AgentKilled, DownloaderKilled, ProxyLosesStorage, vars, servers,
              SS!sVars, SS!memory, SS!disk
<1> QED
  BY <1>2, <1>3, <1>4, <1>5, <1>6, <1>7 DEF Next, StorageStep, ProxyStorageStep

----------------------------------------------------------------------------
(* The clients.  An agent that sends a block is at one of its blocks.      *)

AtABlock ==
  \A f \in Flows :
    agentState[f] \in {"uploading_blocks", "waiting_block_ack"} =>
      uploadingIndex[f] \in DOMAIN uploadMd5s[f]
AgentInv == A!TypeOK /\ AtABlock /\ UploadPumpAlive

LEMMA SendPieceKeeps ==
  ASSUME NEW f \in Flows, A!TypeOK, NEW md5s \in Seq(Md5s), NEW at \in DOMAIN md5s,
         NEW i \in Nat, A!SendBlockPiece(f, md5s, at, i)
  PROVE  /\ fromClient' \in [Flows -> Seq(A!FromClientMessage)]
         /\ agentWriting' = [agentWriting EXCEPT ![f] = TRUE]
         /\ pieceIndex' \in [Flows -> Nat]
         /\ \E state \in {"waiting_block_ack", "uploading_blocks"} :
              agentState' = [agentState EXCEPT ![f] = state]
<1> DEFINE m == md5s[at]
           eof == i + 1 = Pieces[m]
<1>1. m \in Md5s
  OBVIOUS
<1>2. PICK content \in {<<m, i>>} \cup (IF f \in Unstable THEN {A!AlteredContent} ELSE {}) :
        A!Send(f, A!UploadBlock(m, i, eof, content))
  BY DEF A!SendBlockPiece
<1>3. content \in A!PieceContent
  BY <1>1 DEF A!PieceContent, A!AlteredContent
<1>4. eof \in BOOLEAN
  OBVIOUS
<1> HIDE DEF m, eof
<1>5. A!UploadBlock(m, i, eof, content) \in A!FromClientMessage
  BY <1>1, <1>3, <1>4 DEF A!UploadBlock, A!FromClientMessage
<1>6. fromClient' \in [Flows -> Seq(A!FromClientMessage)]
  BY <1>2, <1>5 DEF A!Send, A!TypeOK
<1>7. pieceIndex' \in [Flows -> Nat]
  BY DEF A!SendBlockPiece, A!TypeOK
<1>8. \E state \in {"waiting_block_ack", "uploading_blocks"} :
        agentState' = [agentState EXCEPT ![f] = state]
  BY DEF A!SendBlockPiece, A!SetState
<1> QED
  BY <1>2, <1>6, <1>7, <1>8 DEF A!Send

LEMMA SendAllKeeps ==
  ASSUME NEW f \in Flows, A!TypeOK, A!SendUploadAllBlocks(f)
  PROVE  /\ fromClient' \in [Flows -> Seq(A!FromClientMessage)]
         /\ agentWriting' = [agentWriting EXCEPT ![f] = TRUE]
         /\ agentState' = [agentState EXCEPT ![f] = "waiting_final_result"]
<1>1. A!UploadAllBlocks \in A!FromClientMessage
  BY DEF A!UploadAllBlocks, A!FromClientMessage
<1> QED
  BY <1>1 DEF A!SendUploadAllBlocks, A!Send, A!SetState, A!TypeOK

LEMMA CloseKeeps ==
  ASSUME AgentInv, NEW f \in Flows, A!Close(f) PROVE AgentInv'
<1>1. \A n \in 0 .. Len(fromClient[f]) :
        SubSeq(fromClient[f], 1, n) \in Seq(A!FromClientMessage)
  BY DEF AgentInv, A!TypeOK
<1>2. fromClient' \in [Flows -> Seq(A!FromClientMessage)]
  BY <1>1 DEF A!Close, AgentInv, A!TypeOK
<1>3. A!TypeOK'
  BY <1>2 DEF A!Close, A!SetState, AgentInv, A!TypeOK
<1>4. AtABlock' /\ UploadPumpAlive'
  BY DEF A!Close, A!SetState, AgentInv, A!TypeOK, AtABlock, UploadPumpAlive
<1> QED
  BY <1>3, <1>4 DEF AgentInv

LEMMA AgentConnectionKeeps ==
  ASSUME AgentInv, NEW f \in Flows, NEW md5s \in Seq(Md5s), A!OnConnection(f, md5s)
  PROVE  AgentInv'
<1>1. A!UploadRequest(md5s) \in A!FromClientMessage
  BY DEF A!UploadRequest, A!FromClientMessage
<1>2. A!TypeOK'
  BY <1>1 DEF A!OnConnection, A!Send, A!SetState, AgentInv, A!TypeOK
<1>3. AtABlock' /\ UploadPumpAlive'
  BY DEF A!OnConnection, A!Send, A!SetState, AgentInv, A!TypeOK, AtABlock, UploadPumpAlive
<1> QED
  BY <1>2, <1>3 DEF AgentInv

(* A step in which the agent sends something ends at a block of its list,  *)
(* or is the message that ends the upload.                                 *)
LEMMA SentKeeps ==
  ASSUME AgentInv, NEW f \in Flows, NEW md5s \in Seq(Md5s), NEW at \in Nat \ {0},
         NEW state \in {"waiting_final_result", "waiting_block_ack", "uploading_blocks"},
         state # "waiting_final_result" => at \in DOMAIN md5s,
         agentState' = [agentState EXCEPT ![f] = state],
         UNCHANGED fileMd5s,
         uploadMd5s' = [uploadMd5s EXCEPT ![f] = md5s],
         uploadingIndex' = [uploadingIndex EXCEPT ![f] = at],
         pieceIndex' \in [Flows -> Nat],
         agentWriting' = [agentWriting EXCEPT ![f] = TRUE],
         fromClient' \in [Flows -> Seq(A!FromClientMessage)]
  PROVE  AgentInv'
<1>1. agentState' \in [Flows -> {"init", "waiting_upload_response", "uploading_blocks",
                                "waiting_block_ack", "waiting_final_result",
                                "succ", "fail", "closed"}]
  BY DEF AgentInv, A!TypeOK
<1>2. A!TypeOK'
  BY <1>1 DEF AgentInv, A!TypeOK
<1>3. UploadPumpAlive'
  BY DEF AgentInv, A!TypeOK, UploadPumpAlive
<1>4. AtABlock'
  BY DEF AgentInv, A!TypeOK, AtABlock
<1> QED
  BY <1>2, <1>3, <1>4 DEF AgentInv

LEMMA AgentReadsKeeps ==
  ASSUME AgentInv, NEW f \in Flows, NEW msg \in P!ClientMessage, A!OnMessage(f, msg)
  PROVE  AgentInv'
<1>1. A!TypeOK
  BY DEF AgentInv
<1>2. CASE A!OnUploadResponse(f, msg)
  <2>1. /\ msg.md5s \in Seq(Md5s)
        /\ uploadMd5s' = [uploadMd5s EXCEPT ![f] = msg.md5s]
        /\ uploadingIndex' = [uploadingIndex EXCEPT ![f] = 1]
        /\ 1 \in Nat \ {0}
        /\ UNCHANGED fileMd5s
    BY <1>2 DEF A!OnUploadResponse, P!ClientMessage
  <2>2. CASE A!SendUploadAllBlocks(f) /\ pieceIndex' = [pieceIndex EXCEPT ![f] = 0]
    <3>1. pieceIndex' \in [Flows -> Nat]
      BY <1>1, <2>2 DEF A!TypeOK
    <3>2. /\ fromClient' \in [Flows -> Seq(A!FromClientMessage)]
          /\ agentWriting' = [agentWriting EXCEPT ![f] = TRUE]
          /\ agentState' = [agentState EXCEPT ![f] = "waiting_final_result"]
      BY <1>1, <2>2, SendAllKeeps
    <3> QED
      BY <2>1, <3>1, <3>2, SentKeeps
  <2>3. CASE msg.md5s # <<>> /\ A!StartBlock(f, msg.md5s, 1)
    <3>1. 1 \in DOMAIN msg.md5s
      BY <2>1, <2>3
    <3>2. A!SendBlockPiece(f, msg.md5s, 1, 0)
      BY <2>3 DEF A!StartBlock
    <3>3. PICK state \in {"waiting_block_ack", "uploading_blocks"} :
            /\ agentState' = [agentState EXCEPT ![f] = state]
            /\ fromClient' \in [Flows -> Seq(A!FromClientMessage)]
            /\ agentWriting' = [agentWriting EXCEPT ![f] = TRUE]
            /\ pieceIndex' \in [Flows -> Nat]
      BY <1>1, <2>1, <3>1, <3>2, SendPieceKeeps
    <3> QED
      BY <2>1, <3>1, <3>3, SentKeeps
  <2> QED
    BY <1>2, <2>2, <2>3 DEF A!OnUploadResponse
<1>3. CASE A!OnUploadBlockAck(f, msg)
  <2>1. /\ uploadMd5s[f] \in Seq(Md5s)
        /\ uploadingIndex[f] \in DOMAIN uploadMd5s[f]
        /\ uploadMd5s' = [uploadMd5s EXCEPT ![f] = uploadMd5s[f]]
        /\ uploadingIndex' = [uploadingIndex EXCEPT ![f] = uploadingIndex[f] + 1]
        /\ uploadingIndex[f] + 1 \in Nat \ {0}
        /\ UNCHANGED fileMd5s
    BY <1>3 DEF A!OnUploadBlockAck, AgentInv, A!TypeOK, AtABlock
  <2>2. CASE A!SendUploadAllBlocks(f) /\ pieceIndex' = [pieceIndex EXCEPT ![f] = 0]
    <3>1. pieceIndex' \in [Flows -> Nat]
      BY <1>1, <2>2 DEF A!TypeOK
    <3>2. /\ fromClient' \in [Flows -> Seq(A!FromClientMessage)]
          /\ agentWriting' = [agentWriting EXCEPT ![f] = TRUE]
          /\ agentState' = [agentState EXCEPT ![f] = "waiting_final_result"]
      BY <1>1, <2>2, SendAllKeeps
    <3> QED
      BY <2>1, <3>1, <3>2, SentKeeps
  <2>3. CASE ~A!LastBlock(f) /\ A!StartBlock(f, uploadMd5s[f], uploadingIndex[f] + 1)
    <3>1. uploadingIndex[f] + 1 \in DOMAIN uploadMd5s[f]
      BY <2>1, <2>3 DEF A!LastBlock
    <3>2. A!SendBlockPiece(f, uploadMd5s[f], uploadingIndex[f] + 1, 0)
      BY <2>3 DEF A!StartBlock
    <3>3. PICK state \in {"waiting_block_ack", "uploading_blocks"} :
            /\ agentState' = [agentState EXCEPT ![f] = state]
            /\ fromClient' \in [Flows -> Seq(A!FromClientMessage)]
            /\ agentWriting' = [agentWriting EXCEPT ![f] = TRUE]
            /\ pieceIndex' \in [Flows -> Nat]
      BY <1>1, <2>1, <3>1, <3>2, SendPieceKeeps
    <3> QED
      BY <2>1, <3>1, <3>3, SentKeeps
  <2> QED
    BY <1>3, <2>2, <2>3 DEF A!OnUploadBlockAck
<1>4. CASE A!OnFinalResult(f, msg)
  BY <1>4 DEF A!OnFinalResult, A!SetState, AgentInv, A!TypeOK, AtABlock, UploadPumpAlive
<1>5. CASE A!Ignore(f)
  BY <1>5 DEF A!Ignore, A!aVars, AgentInv, A!TypeOK, AtABlock, UploadPumpAlive
<1>6. CASE A!OnMessageError(f, msg)
  BY <1>6, CloseKeeps DEF A!OnMessageError
<1> QED
  BY <1>2, <1>3, <1>4, <1>5, <1>6 DEF A!OnMessage

LEMMA AgentWroteKeeps ==
  ASSUME AgentInv, NEW f \in Flows, A!OnWriteComplete(f) PROVE AgentInv'
<1>1. A!TypeOK
  BY DEF AgentInv
<1>2. CASE /\ agentState[f] = "uploading_blocks"
           /\ A!SendBlockPiece(f, uploadMd5s[f], uploadingIndex[f], pieceIndex[f])
           /\ UNCHANGED <<fileMd5s, uploadMd5s, uploadingIndex>>
  <2>1. /\ uploadMd5s[f] \in Seq(Md5s)
        /\ uploadingIndex[f] \in DOMAIN uploadMd5s[f]
        /\ uploadingIndex[f] \in Nat \ {0}
        /\ pieceIndex[f] \in Nat
        /\ uploadMd5s' = [uploadMd5s EXCEPT ![f] = uploadMd5s[f]]
        /\ uploadingIndex' = [uploadingIndex EXCEPT ![f] = uploadingIndex[f]]
    BY <1>2 DEF AgentInv, A!TypeOK, AtABlock
  <2>2. PICK state \in {"waiting_block_ack", "uploading_blocks"} :
          /\ agentState' = [agentState EXCEPT ![f] = state]
          /\ fromClient' \in [Flows -> Seq(A!FromClientMessage)]
          /\ agentWriting' = [agentWriting EXCEPT ![f] = TRUE]
          /\ pieceIndex' \in [Flows -> Nat]
    BY <1>1, <1>2, <2>1, SendPieceKeeps
  <2> QED
    BY <1>2, <2>1, <2>2, SentKeeps
<1>3. CASE /\ agentState[f] # "uploading_blocks"
           /\ agentWriting' = [agentWriting EXCEPT ![f] = FALSE]
           /\ UNCHANGED <<agentState, fileMd5s, uploadMd5s, uploadingIndex, pieceIndex,
                          fromClient>>
  BY <1>3 DEF AgentInv, A!TypeOK, AtABlock, UploadPumpAlive
<1> QED
  BY <1>2, <1>3 DEF A!OnWriteComplete

(* The downloaders and the proxy share the queue of an agent's flow.       *)
LEMMA QueueKeeps ==
  ASSUME AgentInv, UNCHANGED agents, fromClient' \in [Flows -> Seq(A!FromClientMessage)]
  PROVE  AgentInv'
BY DEF AgentInv, agents, A!TypeOK, AtABlock, UploadPumpAlive

LEMMA DownloaderSteps ==
  ASSUME D!TypeOK, NEW f \in Flows,
         \/ \E wish \in Seq(Md5s) \X Seq(Md5s) : D!OnConnection(f, wish[1], wish[2])
         \/ \E msg \in P!ClientMessage : D!OnMessage(f, msg)
         \/ D!Close(f)
  PROVE  D!TypeOK'
<1>1. ASSUME NEW id \in Seq(Md5s), NEW have \in Seq(Md5s), D!OnConnection(f, id, have)
      PROVE  D!TypeOK'
  <2> DEFINE held == IF have = <<>> THEN {} ELSE {have[Len(have)]}
  <2>1. held \in SUBSET Md5s
    OBVIOUS
  <2> HIDE DEF held
  <2>2. D!DownLoadRequest(id, have) = [type |-> "download_request", file_id |-> id, md5s |-> held]
    BY DEF D!DownLoadRequest, held
  <2>3. D!DownLoadRequest(id, have) \in D!FromClientMessage
    BY <2>1, <2>2 DEF D!FromClientMessage
  <2> QED
    BY <1>1, <2>3 DEF D!OnConnection, D!Send, D!SetState, D!TypeOK
<1>2. ASSUME NEW state \in {"done", "failed"}, D!End(f, state) PROVE D!TypeOK'
  <2>1. \A n \in 0 .. Len(fromClient[f]) :
          SubSeq(fromClient[f], 1, n) \in Seq(D!FromClientMessage)
    BY DEF D!TypeOK
  <2> QED
    BY <1>2, <2>1 DEF D!End, D!SetState, D!TypeOK
<1>3. ASSUME NEW msg \in P!ClientMessage, D!OnTransferBlock(f, msg) PROVE D!TypeOK'
  <2>1. msg.content \in D!PieceContent /\ msg.md5 \in Md5s
    BY <1>3 DEF D!OnTransferBlock, P!ClientMessage, P!PieceContent, D!PieceContent
  <2>2. D!TransferBlockAck(msg.md5) \in D!FromClientMessage
    BY <2>1 DEF D!TransferBlockAck, D!FromClientMessage
  <2>3. fromClient' \in [Flows -> Seq(D!FromClientMessage)]
    <3> DEFINE ack == D!TransferBlockAck(msg.md5)
    <3> HIDE DEF ack
    <3>1. UNCHANGED fromClient \/ fromClient' = [fromClient EXCEPT ![f] = Append(@, ack)]
      BY <1>3 DEF D!OnTransferBlock, D!Acknowledge, D!Send, ack
    <3>2. fromClient[f] \in Seq(D!FromClientMessage) /\ ack \in D!FromClientMessage
      BY <2>2 DEF ack, D!TypeOK
    <3>3. Append(fromClient[f], ack) \in Seq(D!FromClientMessage)
      BY <3>2
    <3> QED
      BY <3>1, <3>3 DEF D!TypeOK
  <2>4. output' \in [Flows -> Seq(D!PieceContent)]
    BY <1>3, <2>1 DEF D!OnTransferBlock, D!TypeOK
  <2>5. UNCHANGED <<downloadState, wantedFile, heldMd5s>>
    BY <1>3 DEF D!OnTransferBlock
  <2> QED
    BY <2>3, <2>4, <2>5 DEF D!TypeOK
<1> QED
  BY <1>1, <1>2, <1>3
     DEF D!OnMessage, D!OnTransferAllBlocks, D!OnMessageError, D!Close

(* Whoever moves, the clients' variables keep their types.                 *)
LEMMA ClientSteps ==
  ASSUME P!TypeOK, AgentInv, D!TypeOK, [Next]_vars PROVE AgentInv' /\ D!TypeOK'
<1>1. /\ fromClient \in [Flows -> Seq(A!FromClientMessage)]
      /\ \A f \in Flows : toClient[f] \in Seq(P!ClientMessage)
  BY DEF AgentInv, A!TypeOK, P!TypeOK
<1>2. A!FromClientMessage = D!FromClientMessage
  BY DEF A!FromClientMessage, D!FromClientMessage, A!PieceContent, D!PieceContent
<1>3. ASSUME AgentInv', UNCHANGED downloaders PROVE AgentInv' /\ D!TypeOK'
  <2>1. fromClient' \in [Flows -> Seq(A!FromClientMessage)]
    BY <1>3 DEF AgentInv, A!TypeOK
  <2> QED
    BY <1>2, <1>3, <2>1 DEF downloaders, D!TypeOK
<1>4. ASSUME D!TypeOK', UNCHANGED agents PROVE AgentInv' /\ D!TypeOK'
  <2>1. fromClient' \in [Flows -> Seq(D!FromClientMessage)]
    BY <1>4 DEF D!TypeOK
  <2> QED
    BY <1>2, <1>4, <2>1, QueueKeeps
<1>5. ASSUME NEW f \in Flows, AgentConnects(f) PROVE AgentInv' /\ D!TypeOK'
  <2>1. PICK md5s \in FilesOf[f] : A!OnConnection(f, md5s)
    BY <1>5 DEF AgentConnects
  <2>2. md5s \in Seq(Md5s) /\ UNCHANGED downloaders
    BY <1>5, ClientsAssumption DEF AgentConnects
  <2> QED
    BY <1>3, <2>1, <2>2, AgentConnectionKeeps
<1>6. ASSUME NEW f \in Flows, DownloaderConnects(f) PROVE AgentInv' /\ D!TypeOK'
  <2>1. PICK wish \in Downloads[f] : D!OnConnection(f, wish[1], wish[2])
    BY <1>6 DEF DownloaderConnects
  <2>2. wish \in Seq(Md5s) \X Seq(Md5s) /\ UNCHANGED agents
    BY <1>6, ClientsAssumption DEF DownloaderConnects
  <2> QED
    BY <1>4, <2>1, <2>2, DownloaderSteps
<1>7. ASSUME NEW f \in Flows, AgentReads(f) PROVE AgentInv' /\ D!TypeOK'
  <2>1. Head(toClient[f]) \in P!ClientMessage
    BY <1>1, <1>7 DEF AgentReads
  <2> QED
    BY <1>3, <1>7, <2>1, AgentReadsKeeps DEF AgentReads
<1>8. ASSUME NEW f \in Flows, DownloaderReads(f) PROVE AgentInv' /\ D!TypeOK'
  <2>1. Head(toClient[f]) \in P!ClientMessage
    BY <1>1, <1>8 DEF DownloaderReads
  <2> QED
    BY <1>4, <1>8, <2>1, DownloaderSteps DEF DownloaderReads
<1>9. ASSUME NEW f \in Flows, AgentWrote(f) PROVE AgentInv' /\ D!TypeOK'
  BY <1>3, <1>9, AgentWroteKeeps DEF AgentWrote
<1>10. ASSUME NEW f \in Flows, AgentLosesProxy(f) \/ AgentKilled(f) PROVE AgentInv' /\ D!TypeOK'
  BY <1>3, <1>10, CloseKeeps DEF AgentLosesProxy, AgentKilled
<1>11. ASSUME NEW f \in Flows, DownloaderLosesProxy(f) \/ DownloaderKilled(f)
       PROVE  AgentInv' /\ D!TypeOK'
  BY <1>4, <1>11, DownloaderSteps DEF DownloaderLosesProxy, DownloaderKilled
<1>12. ASSUME NEW f \in Flows, ProxyReadsClient(f) \/ ProxyReadsLate(f)
       PROVE  AgentInv' /\ D!TypeOK'
  <2>1. UNCHANGED <<agents, downloaders>>
    BY <1>12 DEF ProxyReadsClient, ProxyReadsLate, clients
  <2>2. fromClient[f] # <<>> /\ fromClient' \in {[fromClient EXCEPT ![f] = Tail(@)],
                                                [fromClient EXCEPT ![f] = <<>>]}
    BY <1>12 DEF ProxyReadsClient, ProxyReadsLate
  <2>3. Tail(fromClient[f]) \in Seq(A!FromClientMessage) /\ <<>> \in Seq(A!FromClientMessage)
    BY <1>1, <2>2
  <2>4. fromClient' \in [Flows -> Seq(A!FromClientMessage)]
    BY <1>1, <2>2, <2>3
  <2> QED
    BY <1>3, <2>1, <2>4, QueueKeeps
<1>13. ASSUME \/ \E f \in Flows :
                   SessionDestroyed(f) \/ ProxyLosesClient(f) \/ ProxyWriteFails(f)
              \/ \E s \in Servers : ServerConnects(s) \/ StorageStep(s) \/ ProxyStorageStep(s)
                                   \/ StorageDies(s)
              \/ UNCHANGED vars
       PROVE  AgentInv' /\ D!TypeOK'
  <2>1. UNCHANGED <<agents, downloaders, fromClient>>
    BY <1>13 DEF SessionDestroyed, ProxyLosesClient, ProxyWriteFails, ServerConnects,
         StorageStep, StorageReads, StorageWrote, StorageLosesProxy, ProxyStorageStep, ProxyReadsStorage,
         ProxyLosesStorage, StorageDies, clients, vars
  <2> QED
    BY <1>1, <1>3, <2>1, QueueKeeps
<1> QED
  BY <1>5, <1>6, <1>7, <1>8, <1>9, <1>10, <1>11, <1>12, <1>13
     DEF Next, AgentStep, DownloaderStep, ProxyStep

----------------------------------------------------------------------------
(* The system. *)

SystemInv ==
  /\ PP!IInv /\ SS!ServerInv /\ AgentInv /\ D!TypeOK
  /\ crashes \in 0 .. CrashBound

LEMMA SystemTypes ==
  SystemInv => P!TypeOK /\ S!TypeOK /\ A!TypeOK /\ D!TypeOK /\ TypeOK
BY ProxyInstances, ServerInstances
   DEF SystemInv, PP!IInv, SS!ServerInv, SS!IInv, AgentInv, TypeOK

LEMMA SystemInit == Init => SystemInv
<1> SUFFICES ASSUME Init PROVE SystemInv
  OBVIOUS
<1>1. PP!IInv
  BY ProxyInstances, ProxyInit DEF Init
<1>2. SS!ServerInv
  BY ServerInstances, ServerInit DEF Init
<1>3. AgentInv
  BY EmptySeq DEF Init, A!Init, AgentInv, A!TypeOK, AtABlock, UploadPumpAlive
<1>4. D!TypeOK
  BY EmptySeq DEF Init, D!Init, D!TypeOK
<1>5. crashes \in 0 .. CrashBound
  BY CrashAssumption DEF Init
<1> QED
  BY <1>1, <1>2, <1>3, <1>4, <1>5 DEF SystemInv

LEMMA SystemNext == SystemInv /\ [Next]_vars => SystemInv'
<1> SUFFICES ASSUME SystemInv, [Next]_vars PROVE SystemInv'
  OBVIOUS
<1>1. P!TypeOK /\ S!TypeOK /\ A!TypeOK
  BY SystemTypes
<1>2. PP!IInv'
  BY <1>1, ProxySteps, ProxyKeeps DEF SystemInv
<1>3. SS!ServerInv'
  BY <1>1, ServerSteps, ServerKeeps, ServerSame DEF SystemInv
<1>4. AgentInv' /\ D!TypeOK'
  BY <1>1, ClientSteps DEF SystemInv
<1>5. crashes' \in 0 .. CrashBound
  <2>1. CASE \E s \in Servers : StorageDies(s)
    BY <2>1, CrashAssumption DEF StorageDies, SystemInv
  <2>2. CASE ~\E s \in Servers : StorageDies(s)
    BY <2>2 DEF SystemInv, Next, vars, AgentConnects, DownloaderConnects, AgentStep, AgentReads,
         AgentWrote, AgentLosesProxy, DownloaderStep, DownloaderReads, DownloaderLosesProxy,
         ProxyStep, ProxyReadsClient, SessionDestroyed, ProxyLosesClient, ProxyWriteFails,
         ProxyReadsLate, AgentKilled, DownloaderKilled, ServerConnects, StorageStep,
         StorageReads, StorageWrote, StorageLosesProxy, ProxyStorageStep, ProxyReadsStorage,
         ProxyLosesStorage
  <2> QED
    BY <2>1, <2>2
<1> QED
  BY <1>2, <1>3, <1>4, <1>5 DEF SystemInv

(* Every variable of every process, and every message on its way, has its  *)
(* type in the system as a whole, whoever dies or is killed.               *)
THEOREM SystemTypeCorrect == Spec => []TypeOK
BY SystemInit, SystemNext, SystemTypes, PTL DEF Spec

(* While an agent has pieces of a block to send, a write is under way: its *)
(* completion is what sends the next one (sendBlockPieceFromCurrentPoint,  *)
(* agent.cpp onWriteComplete).                                             *)
THEOREM UploadPumpNeverStops == Spec => []UploadPumpAlive
<1>1. SystemInv => UploadPumpAlive
  BY DEF SystemInv, AgentInv
<1> QED
  BY <1>1, SystemInit, SystemNext, PTL DEF Spec

(* What was proved of the proxy among any clients and servers, and of a    *)
(* server with any proxy, is true of them together.                        *)
THEOREM ProcessesKeepTheirProperties ==
  Spec => [](/\ P!AnswerOwed /\ P!RequestedInOrder
             /\ S!RefCountExact /\ S!PumpAlive /\ S!AckedOnDisk /\ S!FileHasPath
             /\ S!PiecesInOrder)
<1>1. SystemInv => /\ P!AnswerOwed /\ P!RequestedInOrder
                   /\ S!RefCountExact /\ S!PumpAlive /\ S!AckedOnDisk /\ S!FileHasPath
                   /\ S!PiecesInOrder
  BY ProxyInstances, ServerInstances, ProxyOrder
     DEF SystemInv, PP!IInv, SS!ServerInv, SS!IInv, SS!DiskInv
<1> QED
  BY <1>1, SystemInit, SystemNext, PTL DEF Spec

----------------------------------------------------------------------------
(* What the proxy believes a server stores.                                *)

(* The digests a message announces, and those the messages of a queue do.  *)
Announces(msg) ==
  (IF msg.type = "transfer_block_set" THEN msg.md5s ELSE {})
    \cup (IF msg.type = "upload_block_ack" THEN {msg.md5} ELSE {})
AnnouncedBy(q) == UNION {Announces(q[i]) : i \in DOMAIN q}

LEMMA AnnouncedOnWay ==
  ASSUME NEW q
  PROVE  (UNION {msg.md5s : msg \in Sent(q, "transfer_block_set")})
           \cup {msg.md5 : msg \in Sent(q, "upload_block_ack")} = AnnouncedBy(q)
<1> DEFINE sets == UNION {msg.md5s : msg \in Sent(q, "transfer_block_set")}
           acks == {msg.md5 : msg \in Sent(q, "upload_block_ack")}
<1>1. ASSUME NEW type, NEW msg
      PROVE  msg \in Sent(q, type) <=> \E i \in DOMAIN q : q[i].type = type /\ msg = q[i]
  BY DEF Sent
<1>2. ASSUME NEW m
      PROVE  /\ m \in sets <=> \E msg \in Sent(q, "transfer_block_set") : m \in msg.md5s
             /\ m \in acks <=> \E msg \in Sent(q, "upload_block_ack") : m = msg.md5
  OBVIOUS
<1>3. ASSUME NEW m, NEW msg
      PROVE  m \in Announces(msg) <=> \/ msg.type = "transfer_block_set" /\ m \in msg.md5s
                                      \/ msg.type = "upload_block_ack" /\ m = msg.md5
  <2>1. CASE msg.type = "transfer_block_set"
    BY <2>1 DEF Announces
  <2>2. CASE msg.type # "transfer_block_set"
    BY <2>2 DEF Announces
  <2> QED
    BY <2>1, <2>2
<1>4. ASSUME NEW m
      PROVE  m \in AnnouncedBy(q) <=> \E i \in DOMAIN q : m \in Announces(q[i])
  BY DEF AnnouncedBy
<1> HIDE DEF sets, acks
<1>5. ASSUME NEW m, m \in sets \cup acks PROVE m \in AnnouncedBy(q)
  <2>1. CASE m \in sets
    BY <1>1, <1>2, <1>3, <1>4, <2>1
  <2>2. CASE m \in acks
    BY <1>1, <1>2, <1>3, <1>4, <2>2
  <2> QED
    BY <1>5, <2>1, <2>2
<1>6. ASSUME NEW m, m \in AnnouncedBy(q) PROVE m \in sets \cup acks
  <2>1. PICK i \in DOMAIN q : m \in Announces(q[i])
    BY <1>4, <1>6
  <2>2. q[i] \in Sent(q, q[i].type)
    BY <1>1
  <2> QED
    BY <1>2, <1>3, <2>1, <2>2
<1>7. sets \cup acks = AnnouncedBy(q)
  BY <1>5, <1>6
<1> QED
  BY <1>7 DEF sets, acks

LEMMA AnnouncedAppend ==
  ASSUME NEW q \in Seq(S!StorageMessage), NEW msg
  PROVE  AnnouncedBy(Append(q, msg)) = AnnouncedBy(q) \cup Announces(msg)
<1>1. /\ DOMAIN Append(q, msg) = DOMAIN q \cup {Len(q) + 1}
      /\ Append(q, msg)[Len(q) + 1] = msg
      /\ \A i \in DOMAIN q : Append(q, msg)[i] = q[i]
  OBVIOUS
<1> QED
  BY <1>1 DEF AnnouncedBy

LEMMA AnnouncedHead ==
  ASSUME NEW q \in Seq(S!StorageMessage), q # <<>>
  PROVE  AnnouncedBy(q) = Announces(Head(q)) \cup AnnouncedBy(Tail(q))
<1>1. /\ DOMAIN q = {1} \cup {i + 1 : i \in DOMAIN Tail(q)}
      /\ q[1] = Head(q)
      /\ \A i \in DOMAIN Tail(q) : q[i + 1] = Tail(q)[i]
  <2>1. \A i \in DOMAIN q : i = 1 \/ (i - 1 \in DOMAIN Tail(q) /\ i = (i - 1) + 1)
    OBVIOUS
  <2>2. \A i \in DOMAIN Tail(q) : i + 1 \in DOMAIN q /\ q[i + 1] = Tail(q)[i]
    OBVIOUS
  <2>3. 1 \in DOMAIN q /\ q[1] = Head(q)
    OBVIOUS
  <2> QED
    BY <2>1, <2>2, <2>3
<1> QED
  BY <1>1 DEF AnnouncedBy

LEMMA AnnouncedPart ==
  ASSUME NEW q \in Seq(S!StorageMessage), NEW n \in 0 .. Len(q)
  PROVE  AnnouncedBy(SubSeq(q, 1, n)) \subseteq AnnouncedBy(q)
<1>1. \A i \in DOMAIN SubSeq(q, 1, n) : i \in DOMAIN q /\ SubSeq(q, 1, n)[i] = q[i]
  OBVIOUS
<1> QED
  BY <1>1 DEF AnnouncedBy

(* ViewMatchesDisk of one server. *)
ViewOf(s) ==
  /\ storageMd5s[s] \cup AnnouncedBy(toProxy[s]) \subseteq md5_path[s]
  /\ Running(s) =>
       md5_path[s] = storageMd5s[s] \cup AnnouncedBy(toProxy[s]) \cup transferingMd5s[s]

LEMMA ViewByServer == ViewMatchesDisk <=> \A s \in P!Connected : ViewOf(s)
BY AnnouncedOnWay DEF ViewMatchesDisk, ViewOf, Announced

(* A server sends what announces nothing, or only receives. *)
LEMMA ViewSilent ==
  ASSUME S!TypeOK, NEW s \in Servers, ViewOf(s), storageMd5s'[s] = storageMd5s[s],
         \/ UNCHANGED toProxy
         \/ \E msg : Announces(msg) = {} /\ S!Send(s, msg),
         UNCHANGED <<sState, transferingMd5s, md5_path>>
  PROVE  ViewOf(s)'
<1>1. AnnouncedBy(toProxy'[s]) = AnnouncedBy(toProxy[s])
  <2>1. ASSUME NEW msg, Announces(msg) = {}, S!Send(s, msg)
        PROVE  AnnouncedBy(toProxy'[s]) = AnnouncedBy(toProxy[s])
    <3>1. toProxy'[s] = Append(toProxy[s], msg) /\ toProxy[s] \in Seq(S!StorageMessage)
      BY <2>1 DEF S!Send, S!TypeOK
    <3> QED
      BY ZenonT(60), <2>1, <3>1, AnnouncedAppend
  <2> QED
    BY <2>1
<1> QED
  BY <1>1 DEF ViewOf, Running

(* A process ends; of what it announced, some may be lost.                 *)
LEMMA ViewExit ==
  ASSUME S!TypeOK, NEW s \in Servers, ViewOf(s), storageMd5s'[s] = storageMd5s[s],
         S!Exit(s, toProxy[s]), md5_path[s] \subseteq md5_path'[s]
  PROVE  ViewOf(s)'
<1>1. toProxy[s] \in Seq(S!StorageMessage)
  BY DEF S!TypeOK
<1>2. PICK n \in 0 .. Len(toProxy[s]) :
        toProxy' = [toProxy EXCEPT ![s] = SubSeq(toProxy[s], 1, n)]
  BY DEF S!Exit
<1>3. AnnouncedBy(toProxy'[s]) \subseteq AnnouncedBy(toProxy[s])
  BY <1>1, <1>2, AnnouncedPart DEF S!TypeOK
<1>4. sState'[s] = "down"
  BY DEF S!Exit, S!TypeOK
<1> QED
  BY <1>3, <1>4 DEF ViewOf, Running

(* A set of digests is announced: of those left, or when it connects, of   *)
(* those stored.                                                           *)
LEMMA ViewSendSet ==
  ASSUME S!TypeOK, NEW s \in Servers, NEW left \in SUBSET Md5s,
         S!SendSomeMd5sToProxy(s, left), UNCHANGED md5_path,
         storageMd5s'[s] \cup AnnouncedBy(toProxy[s]) \cup left = md5_path[s]
  PROVE  ViewOf(s)'
<1>1. PICK chunk \in SUBSET left :
        /\ transferingMd5s' = [transferingMd5s EXCEPT ![s] = left \ chunk]
        /\ S!Send(s, S!TransferBlockSet(chunk, chunk = left))
  BY DEF S!SendSomeMd5sToProxy
<1>2. toProxy[s] \in Seq(S!StorageMessage)
  BY DEF S!TypeOK
<1>3. Announces(S!TransferBlockSet(chunk, chunk = left)) = chunk
  BY DEF S!TransferBlockSet, Announces
<1>4. AnnouncedBy(toProxy'[s]) = AnnouncedBy(toProxy[s]) \cup chunk
  <2>1. toProxy'[s] = Append(toProxy[s], S!TransferBlockSet(chunk, chunk = left))
    BY <1>1 DEF S!Send, S!TypeOK
  <2> QED
    BY <1>2, <1>3, <2>1, AnnouncedAppend
<1>5. transferingMd5s'[s] = left \ chunk
  BY <1>1 DEF S!TypeOK
<1> QED
  BY <1>4, <1>5 DEF ViewOf

LEMMA ViewSendPiece ==
  ASSUME S!TypeOK, NEW s \in Servers, ViewOf(s), storageMd5s'[s] = storageMd5s[s],
         NEW ctxs, NEW refs, S!SendSomeMd5PieceToProxy(s, ctxs, refs),
         UNCHANGED <<sState, transferingMd5s, md5_path>>
  PROVE  ViewOf(s)'
<1>1. \E m, i, eof, f, content : S!Send(s, S!TransferBlock(m, i, eof, f, content))
  BY DEF S!SendSomeMd5PieceToProxy
<1>2. \A m, i, eof, f, content : Announces(S!TransferBlock(m, i, eof, f, content)) = {}
  BY DEF S!TransferBlock, Announces
<1> QED
  BY <1>1, <1>2, ViewSilent

(* A server acts by itself or on what it is sent.                          *)
LEMMA ViewServerActs ==
  ASSUME S!TypeOK, NEW s \in Servers, ViewOf(s), storageMd5s'[s] = storageMd5s[s],
         \/ StorageReads(s) \/ StorageWrote(s) \/ StorageLosesProxy(s) \/ StorageDies(s)
  PROVE  ViewOf(s)'
<1>1. ASSUME NEW msg, S!OnUploadBlock(s, msg) PROVE ViewOf(s)'
  <2>1. CASE S!ReceivePiece(s, msg)
    BY <2>1, ViewSilent DEF S!ReceivePiece, S!disk
  <2>2. CASE S!RejectBlock(s, msg)
    <3>1. Announces(S!UploadBlockFail(msg.md5)) = {}
      BY DEF S!UploadBlockFail, Announces
    <3> QED
      BY <2>2, <3>1, ViewSilent DEF S!RejectBlock, S!disk
  <2>3. CASE S!StoreBlock(s, msg)
    <3>1. Announces(S!UploadBlockAck(msg.md5)) = {msg.md5}
      BY DEF S!UploadBlockAck, Announces
    <3>2. /\ toProxy[s] \in Seq(S!StorageMessage)
          /\ toProxy'[s] = Append(toProxy[s], S!UploadBlockAck(msg.md5))
          /\ md5_path'[s] = md5_path[s] \cup {msg.md5}
          /\ UNCHANGED <<sState, transferingMd5s>>
      BY <2>3 DEF S!StoreBlock, S!Send, S!TypeOK
    <3>3. AnnouncedBy(toProxy'[s]) = AnnouncedBy(toProxy[s]) \cup {msg.md5}
      BY <3>1, <3>2, AnnouncedAppend
    <3> QED
      BY <3>2, <3>3 DEF ViewOf, Running
  <2> QED
    BY <1>1, <2>1, <2>2, <2>3 DEF S!OnUploadBlock
<1>2. ASSUME NEW msg, S!OnDownLoadBlock(s, msg) PROVE ViewOf(s)'
  BY <1>2, ViewSendPiece DEF S!OnDownLoadBlock, S!disk
<1>3. ASSUME NEW msg, S!ExitOnDownLoadBlock(s, msg) PROVE ViewOf(s)'
  BY <1>3, ViewExit DEF S!ExitOnDownLoadBlock, S!disk
<1>4. ASSUME NEW msg, S!OnClientClean(s, msg) PROVE ViewOf(s)'
  BY <1>4, ViewSilent DEF S!OnClientClean, S!disk
<1>5. ASSUME S!OnWriteComplete(s) PROVE ViewOf(s)'
  <2>1. CASE /\ sState[s] = "transfering_block_set"
             /\ S!SendSomeMd5sToProxy(s, transferingMd5s[s])
             /\ UNCHANGED S!disk
    BY <2>1, ViewSendSet DEF ViewOf, Running, S!disk, S!TypeOK
  <2>2. CASE /\ S!SendSomeMd5PieceToProxy(s, downloadingContext[s], downloadingMd5s[s])
             /\ UNCHANGED <<sState, transferingMd5s, uploadingContext, S!disk>>
    BY <2>2, ViewSendPiece DEF S!disk
  <2>3. CASE UNCHANGED <<S!memory, toProxy, S!disk>>
    BY <2>3, ViewSilent DEF S!memory, S!disk
  <2> QED
    BY <1>5, <2>1, <2>2, <2>3 DEF S!OnWriteComplete
<1>6. ASSUME StorageLosesProxy(s) PROVE ViewOf(s)'
  <2>1. toProxy'[s] = <<>> /\ sState'[s] = "down" /\ md5_path'[s] = md5_path[s]
    BY <1>6 DEF StorageLosesProxy, S!OnClose, S!Exit, S!disk, S!TypeOK
  <2> QED
    BY SMTT(60), <2>1 DEF ViewOf, Running, AnnouncedBy
<1>7. ASSUME StorageDies(s) PROVE ViewOf(s)'
  <2>1. S!Exit(s, toProxy[s]) /\ md5_path[s] \subseteq md5_path'[s]
    BY <1>7 DEF StorageDies, S!Crash, S!CrashWhileStoring, S!disk, S!TypeOK
  <2> QED
    BY <2>1, ViewExit
<1> QED
  BY <1>1, <1>2, <1>3, <1>4, <1>5, <1>6, <1>7 DEF StorageReads, StorageHandles, StorageWrote

(* The proxy reads what a server announces, or drops the server.           *)
LEMMA ViewProxyReads ==
  ASSUME P!TypeOK, S!TypeOK, NEW s \in Servers, ProxyReadsStorage(s), ViewOf(s),
         s \in P!Connected'
  PROVE  ViewOf(s)'
<1> DEFINE msg == Head(toProxy[s])
<1>1. /\ toProxy[s] \in Seq(S!StorageMessage) /\ toProxy[s] # <<>>
      /\ toProxy'[s] = Tail(toProxy[s])
      /\ UNCHANGED <<sState, transferingMd5s, md5_path>>
  BY DEF ProxyReadsStorage, S!TypeOK, servers
<1>2. AnnouncedBy(toProxy[s]) = Announces(msg) \cup AnnouncedBy(toProxy'[s])
  BY <1>1, AnnouncedHead
<1>3. storageMd5s'[s] = storageMd5s[s] \cup Announces(msg)
  <2>1. CASE P!HandleTransferBlockSet(s, msg)
    BY <2>1 DEF P!HandleTransferBlockSet, P!PushStorageMd5, Announces, P!TypeOK
  <2>2. CASE P!HandleUploadBlockAck(s, msg)
    BY <2>2 DEF P!HandleUploadBlockAck, P!PushStorageMd5, Announces, P!TypeOK
  <2>3. CASE P!HandleUploadBlockFail(s, msg) \/ P!HandleTransferBlock(s, msg)
    BY <2>3 DEF P!HandleUploadBlockFail, P!HandleTransferBlock, P!storages, Announces
  <2>4. CASE P!StorageMessageError(s, msg)
    BY <2>4 DEF P!StorageMessageError, P!StorageOnClose, P!Connected, P!TypeOK
  <2>5. CASE P!NamelessFail(s, msg)
    BY <2>5 DEF P!NamelessFail, P!Dies, P!storages, Announces
  <2> QED
    BY <2>1, <2>2, <2>3, <2>4, <2>5 DEF ProxyReadsStorage, P!StorageOnMessage
<1> QED
  BY <1>1, <1>2, <1>3 DEF ViewOf, Running

(* A step moves one server at most, and its connection.                    *)
StorageMoves(s) == ServerConnects(s) \/ StorageStep(s) \/ ProxyStorageStep(s) \/ StorageDies(s)
SameServer(t) ==
  /\ storageState'[t] = storageState[t] /\ storageMd5s'[t] = storageMd5s[t]
  /\ sState'[t] = sState[t] /\ transferingMd5s'[t] = transferingMd5s[t]
  /\ md5_path'[t] = md5_path[t] /\ toProxy'[t] = toProxy[t]

LEMMA ViewSame ==
  ASSUME NEW t \in Servers, SameServer(t), t \in P!Connected => ViewOf(t), t \in P!Connected'
  PROVE  ViewOf(t)'
BY DEF SameServer, P!Connected, ViewOf, Running

LEMMA OtherServers ==
  ASSUME P!TypeOK, S!TypeOK, NEW s \in Servers, NEW t \in Servers, s # t, StorageMoves(s)
  PROVE  SameServer(t)
<1>1. ASSUME P!StorageOnConnection(s) \/ P!StorageOnClose(s)
      PROVE  storageState'[t] = storageState[t] /\ storageMd5s'[t] = storageMd5s[t]
  BY <1>1 DEF P!StorageOnConnection, P!StorageOnClose, P!TypeOK
<1>2. ASSUME NEW msg, P!StorageOnMessage(s, msg)
      PROVE  storageState'[t] = storageState[t] /\ storageMd5s'[t] = storageMd5s[t]
  BY <1>1, <1>2
     DEF P!StorageOnMessage, P!HandleTransferBlockSet, P!PushStorageMd5,
         P!HandleUploadBlockAck, P!HandleUploadBlockFail, P!NamelessFail, P!Dies,
         P!HandleTransferBlock, P!StorageMessageError, P!storages, P!TypeOK
<1>3. ASSUME \/ S!OnConnection(s) \/ S!OnWriteComplete(s) \/ S!OnClose(s) \/ S!Crash(s)
             \/ \E msg : \/ S!OnUploadBlock(s, msg) \/ S!CrashWhileStoring(s, msg)
                         \/ S!OnDownLoadBlock(s, msg) \/ S!ExitOnDownLoadBlock(s, msg)
                         \/ S!OnClientClean(s, msg)
      PROVE  /\ sState'[t] = sState[t] /\ transferingMd5s'[t] = transferingMd5s[t]
             /\ md5_path'[t] = md5_path[t] /\ toProxy'[t] = toProxy[t]
  <2> DEFINE Same == /\ sState'[t] = sState[t] /\ transferingMd5s'[t] = transferingMd5s[t]
                     /\ md5_path'[t] = md5_path[t] /\ toProxy'[t] = toProxy[t]
  <2>1. ASSUME NEW sent, S!Exit(s, sent),
               \/ UNCHANGED md5_path
               \/ \E m : md5_path' = [md5_path EXCEPT ![s] = @ \cup {m}]
        PROVE  Same
    BY <2>1 DEF S!Exit, S!TypeOK
  <2>2. ASSUME NEW left, S!SendSomeMd5sToProxy(s, left), UNCHANGED S!disk PROVE Same
    BY <2>2 DEF S!SendSomeMd5sToProxy, S!Send, S!disk, S!TypeOK
  <2>3. ASSUME NEW ctxs, NEW refs, S!SendSomeMd5PieceToProxy(s, ctxs, refs),
               UNCHANGED <<sState, transferingMd5s, uploadingContext, S!disk>>
        PROVE  Same
    BY <2>3 DEF S!SendSomeMd5PieceToProxy, S!Send, S!disk, S!TypeOK
  <2>4. CASE S!OnConnection(s) \/ S!OnWriteComplete(s)
    BY <2>2, <2>3, <2>4 DEF S!OnConnection, S!OnWriteComplete, S!memory, S!disk
  <2>5. CASE S!OnClose(s) \/ S!Crash(s)
    BY <2>1, <2>5 DEF S!OnClose, S!Crash, S!disk
  <2>6. ASSUME NEW msg, S!OnUploadBlock(s, msg) PROVE Same
    BY <2>6 DEF S!OnUploadBlock, S!ReceivePiece, S!RejectBlock, S!StoreBlock, S!Send, S!disk,
                S!TypeOK
  <2>7. ASSUME NEW msg, \/ S!CrashWhileStoring(s, msg) \/ S!ExitOnDownLoadBlock(s, msg)
                        \/ S!OnDownLoadBlock(s, msg) \/ S!OnClientClean(s, msg)
        PROVE  Same
    BY <2>1, <2>3, <2>7
       DEF S!CrashWhileStoring, S!ExitOnDownLoadBlock, S!OnDownLoadBlock, S!OnClientClean, S!disk
  <2> QED
    BY <1>3, <2>4, <2>5, <2>6, <2>7
<1>4. CASE ServerConnects(s)
  BY <1>1, <1>3, <1>4 DEF ServerConnects, SameServer
<1>5. CASE StorageReads(s)
  BY <1>3, <1>5 DEF StorageReads, StorageHandles, proxy, SameServer
<1>6. CASE StorageWrote(s) \/ StorageLosesProxy(s) \/ StorageDies(s)
  BY <1>3, <1>6 DEF StorageWrote, StorageLosesProxy, StorageDies, proxy, SameServer
<1>7. CASE ProxyReadsStorage(s)
  BY <1>2, <1>7 DEF ProxyReadsStorage, servers, SameServer, S!TypeOK
<1>8. CASE ProxyLosesStorage(s)
  BY <1>1, <1>8 DEF ProxyLosesStorage, servers, SameServer
<1> QED
  BY <1>4, <1>5, <1>6, <1>7, <1>8 DEF StorageMoves, StorageStep, ProxyStorageStep

LEMMA ViewOfMoving ==
  ASSUME P!TypeOK, S!TypeOK, NEW s \in Servers, StorageMoves(s),
         s \in P!Connected => ViewOf(s), s \in P!Connected'
  PROVE  ViewOf(s)'
<1>1. CASE ServerConnects(s)
  <2>1. /\ storageMd5s'[s] = {} /\ toProxy[s] = <<>> /\ md5_path[s] \in SUBSET Md5s
        /\ S!SendSomeMd5sToProxy(s, md5_path[s]) /\ UNCHANGED md5_path
    BY <1>1 DEF ServerConnects, P!StorageOnConnection, S!OnConnection, S!disk, P!TypeOK, S!TypeOK
  <2>2. AnnouncedBy(toProxy[s]) = {}
    BY <2>1 DEF AnnouncedBy
  <2> QED
    BY <2>1, <2>2, ViewSendSet
<1>2. CASE StorageStep(s) \/ StorageDies(s)
  <2>1. UNCHANGED <<storageState, storageMd5s>>
    BY <1>2 DEF StorageStep, StorageReads, StorageWrote, StorageLosesProxy, StorageDies, proxy
  <2>2. ViewOf(s)
    BY <2>1 DEF P!Connected
  <2> QED
    BY <1>2, <2>1, <2>2, ViewServerActs DEF StorageStep
<1>3. CASE ProxyReadsStorage(s)
  <2>1. s \in P!Connected
    BY <1>3 DEF ProxyReadsStorage, P!StorageOnMessage, P!HandleTransferBlockSet,
         P!HandleUploadBlockAck, P!HandleUploadBlockFail, P!NamelessFail,
         P!HandleTransferBlock, P!StorageMessageError, P!StorageOnClose, P!Connected
  <2> QED
    BY <1>3, <2>1, ViewProxyReads
<1>4. CASE ProxyLosesStorage(s)
  BY <1>4 DEF ProxyLosesStorage, P!StorageOnClose, P!Connected, P!TypeOK
<1> QED
  BY <1>1, <1>2, <1>3, <1>4 DEF StorageMoves, ProxyStorageStep

LEMMA ViewNext ==
  ASSUME P!TypeOK, S!TypeOK, ViewMatchesDisk, [Next]_vars PROVE ViewMatchesDisk'
<1> SUFFICES ASSUME NEW t \in Servers, t \in P!Connected' PROVE ViewOf(t)'
  <2>1. ViewMatchesDisk' <=> \A t \in P!Connected' : ViewOf(t)'
    BY AnnouncedOnWay DEF ViewMatchesDisk, ViewOf, Announced
  <2>2. P!Connected' \subseteq Servers
    BY DEF P!Connected
  <2> QED
    BY <2>1, <2>2
<1>1. t \in P!Connected => ViewOf(t)
  BY ViewByServer
<1>2. ASSUME NEW s \in Servers, StorageMoves(s) PROVE ViewOf(t)'
  BY <1>1, <1>2, ViewOfMoving, OtherServers, ViewSame
<1>3. ASSUME \/ \E f \in Flows :
                  \/ AgentConnects(f) \/ DownloaderConnects(f) \/ AgentStep(f)
                  \/ DownloaderStep(f) \/ AgentKilled(f) \/ DownloaderKilled(f)
             \/ UNCHANGED vars
      PROVE  ViewOf(t)'
  <2>1. SameServer(t)
    BY <1>3 DEF AgentConnects, DownloaderConnects, P!ClientOnConnection, P!storages, AgentStep,
         AgentReads, AgentWrote, AgentLosesProxy, DownloaderStep, DownloaderReads,
         DownloaderLosesProxy, AgentKilled, DownloaderKilled, vars, proxy, servers, SameServer
  <2> QED
    BY <1>1, <2>1, ViewSame
<1>4. ASSUME NEW f \in Flows, ProxyStep(f) PROVE ViewOf(t)'
  <2>1. ASSUME NEW msg, P!ClientOnMessage(f, msg) \/ P!LateMessage(f, msg)
        PROVE  UNCHANGED <<storageState, storageMd5s>>
    BY <2>1 DEF P!ClientOnMessage, P!ClientHandles, P!ClientMessageError, P!ClientOnClose,
         P!HandleUploadRequest, P!HandleUploadBlock, P!StartBlock, P!TooFewServers,
         P!RelayPiece, P!RelayToExpired, P!Dies, P!HandleUploadAllBlocks,
         P!HandleDownloadRequest, P!HandleFileNotExist, P!StartDownload, P!DownloadRefused,
         P!NothingToTransfer, P!HandleTransferBlockAck, P!TransferNextBlock,
         P!TransferRefused, P!TransferEnds, P!LateMessage, P!LateHandles, P!LateRecord,
         P!LateStart, P!LateNextBlock, P!LateIgnored, P!storages
  <2>2. UNCHANGED <<storageState, storageMd5s, servers, toProxy>>
    BY <1>4, <2>1 DEF ProxyStep, ProxyReadsClient, SessionDestroyed, ProxyLosesClient,
         ProxyWriteFails, ProxyReadsLate, P!ClientWriteFails, P!Expire, P!ClientOnClose,
         P!storages
  <2>3. SameServer(t)
    BY <2>2 DEF servers, SameServer
  <2> QED
    BY <1>1, <2>3, ViewSame
<1> QED
  BY <1>2, <1>3, <1>4 DEF Next, StorageMoves

(* The proxy's record of what a server stores never claims a block the     *)
(* server's redis does not hold, and with the digests on their way it      *)
(* claims all it holds, through restarts, lost announcements and blocks    *)
(* stored meanwhile (storage_md5s_, handleTransferBlockSet,                *)
(* handleUploadBlockAck): the choice of the blocks to upload and of the    *)
(* server to ask is made from it.                                          *)
THEOREM ViewAlwaysMatchesDisk == Spec => []ViewMatchesDisk
<1>1. Init => ViewMatchesDisk
  BY DEF Init, P!Init, P!Connected, ViewMatchesDisk
<1>2. SystemInv /\ ViewMatchesDisk /\ [Next]_vars => ViewMatchesDisk'
  BY SystemTypes, ViewNext
<1> QED
  BY <1>1, <1>2, SystemInit, SystemNext, PTL DEF Spec
=============================================================================
