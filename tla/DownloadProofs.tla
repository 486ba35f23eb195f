---------------------------- MODULE DownloadProofs ----------------------------
(***************************************************************************)
(* Theorems about the servers the proxy works with and what it asks them   *)
(* for (FileStorage.tla).                                                  *)
(*                                                                         *)
(* Two invariants.  In step (InStep): whether the proxy still waits for    *)
(* sets of digests and whether the server still sends them agree, by what  *)
(* is on its way between them.  Turns (TurnInv): a download passes a turn  *)
(* round, from the client by the proxy, a server and the proxy back to the *)
(* client, and there is one turn for each flow at most: an acknowledgement *)
(* asks for one block, and only the last piece of it is acknowledged.      *)
(***************************************************************************)
EXTENDS StoreProofs

(* How far a server has announced its blocks, to itself and to the proxy. *)
IsSet(msg) == msg.type = "transfer_block_set"
IsLastSet(msg) == IsSet(msg) /\ msg.eof
InStep(s) ==
  storageState[s] # "none" /\ Running(s) =>
    /\ \A i \in DOMAIN toProxy[s] : IsLastSet(toProxy[s][i]) =>
         sState[s] = "working" /\ \A j \in DOMAIN toProxy[s] : IsSet(toProxy[s][j]) => j <= i
    /\ storageState[s] = "working" =>
         sState[s] = "working" /\ \A i \in DOMAIN toProxy[s] : ~IsSet(toProxy[s][i])
    /\ storageState[s] # "working" /\ sState[s] = "working" =>
         \E i \in DOMAIN toProxy[s] : IsLastSet(toProxy[s][i])
StepInv == \A s \in Servers : InStep(s)

(* The messages that pass the turn of a download, of those about F's flows *)
(* (what a client sends names no flow).                                    *)
PassesTurn(F, msg) ==
  \/ msg.type \in {"download_request", "transfer_block_ack"}
  \/ msg.type = "download_block" /\ msg.flow_id \in F
  \/ msg.type = "transfer_block" /\ msg.eof /\ msg.flow_id \in F
Holds(F, q) == \E i \in DOMAIN q : PassesTurn(F, q[i])
Once(F, q) == \A i, j \in DOMAIN q : PassesTurn(F, q[i]) /\ PassesTurn(F, q[j]) => i = j

(* Where the turn of flow f is. *)
TurnPlaces(f) == ({"asking", "told"} \X {f}) \cup ({"asked", "sending", "sent"} \X Servers)
Turn(f, x) ==
  \/ x[1] = "asking" /\ Holds(Flows, fromClient[f])
  \/ x[1] = "told" /\ Holds(Flows, toClient[f])
  \/ x[1] = "asked" /\ Holds({f}, toStorage[x[2]])
  \/ x[1] = "sending" /\ downloadingContext[x[2]][f] # S!NoDownload
  \/ x[1] = "sent" /\ Holds({f}, toProxy[x[2]])
OneTurn(f) ==
  /\ \A x, y \in TurnPlaces(f) : Turn(f, x) /\ Turn(f, y) => x = y
  /\ Once(Flows, fromClient[f]) /\ Once(Flows, toClient[f])
  /\ \A s \in Servers : Once({f}, toStorage[s]) /\ Once({f}, toProxy[s])
FlowTurn(f) == OneTurn(f) /\ (f >= nextFlow => \A x \in TurnPlaces(f) : ~Turn(f, x))
TurnInv == \A f \in Flows : FlowTurn(f)

(* The proxy asks a server for what it stores. *)
AskedStored(s) ==
  \A i \in DOMAIN toStorage[s] :
    toStorage[s][i].type = "download_block" => toStorage[s][i].md5 \in md5_path[s]
AskedInv == \A s \in Servers : AskedStored(s)

----------------------------------------------------------------------------
(* The servers are in step with the proxy.                                 *)

(* Nothing but what is sent to them changes the other servers.             *)
LEMMA ClientSideServers ==
  ASSUME NEW f \in Flows, ClientSideStep(f)
  PROVE  UNCHANGED <<servers, toProxy, storageState, storageMd5s>>
<1>1. CASE AgentMoves(f) \/ DownloaderMoves(f) \/ Connects(f)
  BY <1>1 DEF Connects, AgentConnects, DownloaderConnects, P!ClientOnConnection, P!storages,
       AgentMoves, AgentReads, AgentWrote, AgentLosesProxy, AgentKilled, DownloaderMoves,
       DownloaderReads, DownloaderLosesProxy, DownloaderKilled, proxy
<1>2. ASSUME NEW msg, P!ClientOnMessage(f, msg)
      PROVE  UNCHANGED <<storageState, storageMd5s>>
  BY <1>2 DEF P!ClientOnMessage, P!ClientHandles, P!ClientMessageError, P!ClientOnClose,
       P!HandleUploadRequest, P!HandleUploadBlock, P!StartBlock, P!TooFewServers, P!RelayPiece,
       P!RelayToExpired, P!Dies, P!HandleUploadAllBlocks, P!HandleDownloadRequest,
       P!HandleFileNotExist, P!StartDownload, P!DownloadRefused, P!NothingToTransfer,
       P!HandleTransferBlockAck, P!TransferNextBlock, P!TransferRefused, P!TransferEnds, P!storages
<1>3. ASSUME NEW msg, P!LateMessage(f, msg)
      PROVE  UNCHANGED <<storageState, storageMd5s>>
  BY <1>3 DEF P!LateMessage, P!LateHandles, P!LateRecord, P!LateStart, P!LateNextBlock,
       P!LateIgnored, P!HandleUploadBlock, P!StartBlock, P!TooFewServers, P!RelayPiece,
       P!RelayToExpired, P!Dies, P!NothingToTransfer, P!storages
<1>4. CASE ProxyServesClient(f) \/ SessionDestroyed(f)
  BY <1>2, <1>3, <1>4 DEF ProxyServesClient, ProxyReadsClient, SessionDestroyed,
       ProxyLosesClient, ProxyWriteFails, ProxyReadsLate, P!ClientWriteFails, P!Expire,
       P!ClientOnClose, P!storages
<1> QED
  BY <1>1, <1>4 DEF ClientSideStep

LEMMA InStepSame ==
  ASSUME NEW s \in Servers, InStep(s), SameServer(s)
  PROVE  InStep(s)'
BY DEF InStep, SameServer, Running

(* A server announces digests, the first of them when it connects. *)
LEMMA InStepAnnounces ==
  ASSUME S!TypeOK, NEW s \in Servers, NEW left, S!SendSomeMd5sToProxy(s, left),
         \A i \in DOMAIN toProxy[s] : ~IsLastSet(toProxy[s][i]), storageState'[s] # "working"
  PROVE  InStep(s)'
<1>1. PICK chunk \in SUBSET left :
        /\ sState' = [sState EXCEPT
                        ![s] = IF chunk = left THEN "working" ELSE "transfering_block_set"]
        /\ S!Send(s, S!TransferBlockSet(chunk, chunk = left))
  BY DEF S!SendSomeMd5sToProxy
<1> DEFINE msg == S!TransferBlockSet(chunk, chunk = left)
           q == toProxy[s]
           r == toProxy'[s]
<1>2. q \in Seq(S!StorageMessage) /\ r = Append(q, msg)
  BY <1>1 DEF S!Send, S!TypeOK
<1>3. /\ DOMAIN r = 1 .. Len(q) + 1 /\ DOMAIN q = 1 .. Len(q) /\ Len(q) \in Nat
      /\ r[Len(q) + 1] = msg /\ \A i \in DOMAIN q : r[i] = q[i]
  BY <1>2
<1>4. IsLastSet(msg) <=> chunk = left
  BY DEF S!TransferBlockSet, IsLastSet, IsSet
<1>5. sState'[s] = IF chunk = left THEN "working" ELSE "transfering_block_set"
  BY <1>1 DEF S!TypeOK
<1>6. ASSUME NEW i \in DOMAIN r, IsLastSet(r[i])
      PROVE  i = Len(q) + 1 /\ chunk = left
  BY <1>3, <1>4, <1>6
<1>7. sState'[s] = "working" => Len(q) + 1 \in DOMAIN r /\ IsLastSet(r[Len(q) + 1])
  BY <1>3, <1>4, <1>5
<1>8. \A j \in DOMAIN r : j <= Len(q) + 1
  BY <1>3
<1> HIDE DEF q, msg
<1> QED
  BY <1>5, <1>6, <1>7, <1>8 DEF InStep

(* It sends something else, or only receives. *)
LEMMA InStepSends ==
  ASSUME S!TypeOK, NEW s \in Servers, InStep(s), UNCHANGED sState,
         storageState'[s] = storageState[s],
         \/ UNCHANGED toProxy
         \/ \E msg : ~IsSet(msg) /\ S!Send(s, msg)
  PROVE  InStep(s)'
<1>1. CASE UNCHANGED toProxy
  BY <1>1 DEF InStep, Running
<1>2. ASSUME NEW msg, ~IsSet(msg), S!Send(s, msg) PROVE InStep(s)'
  <2> DEFINE q == toProxy[s]
             r == toProxy'[s]
  <2>1. q \in Seq(S!StorageMessage) /\ r = Append(q, msg)
    BY <1>2 DEF S!Send, S!TypeOK
  <2>2. /\ DOMAIN r = 1 .. Len(q) + 1 /\ DOMAIN q = 1 .. Len(q) /\ Len(q) \in Nat
        /\ r[Len(q) + 1] = msg /\ \A i \in DOMAIN q : r[i] = q[i]
    BY <2>1
  <2>3. \A i \in DOMAIN r : IsSet(r[i]) => i \in DOMAIN q /\ r[i] = q[i]
    BY <1>2, <2>2
  <2>4. \A i \in DOMAIN q : i \in DOMAIN r /\ r[i] = q[i]
    BY <2>2
  <2>5. \A i \in DOMAIN r : IsLastSet(r[i]) => i \in DOMAIN q /\ IsLastSet(q[i])
    BY <2>3 DEF IsLastSet
  <2> HIDE DEF r
  <2> SUFFICES ASSUME storageState[s] # "none", Running(s)
               PROVE  /\ \A i \in DOMAIN r : IsLastSet(r[i]) =>
                           /\ sState[s] = "working"
                           /\ \A j \in DOMAIN r : IsSet(r[j]) => j <= i
                      /\ storageState[s] = "working" =>
                           sState[s] = "working" /\ \A i \in DOMAIN r : ~IsSet(r[i])
                      /\ storageState[s] # "working" /\ sState[s] = "working" =>
                           \E i \in DOMAIN r : IsLastSet(r[i])
    BY DEF InStep, Running, r
  <2> QED
    BY <2>3, <2>4, <2>5 DEF InStep
<1> QED
  BY <1>1, <1>2

LEMMA InStepServerActs ==
  ASSUME S!TypeOK, NEW s \in Servers, InStep(s),
         \/ StorageReads(s) \/ StorageWrote(s) \/ StorageLosesProxy(s) \/ StorageDies(s)
  PROVE  InStep(s)'
<1>1. UNCHANGED storageState
  BY DEF StorageReads, StorageWrote, StorageLosesProxy, StorageDies, proxy
<1>2. ASSUME NEW sent, S!Exit(s, sent) PROVE InStep(s)'
  BY <1>2, ExitForgets DEF InStep, S!Exit, S!TypeOK, Running
<1>3. ASSUME NEW ctxs, NEW refs, S!SendSomeMd5PieceToProxy(s, ctxs, refs), UNCHANGED sState
      PROVE  InStep(s)'
  <2>1. \A m, i, eof, f, content : ~IsSet(S!TransferBlock(m, i, eof, f, content))
    BY DEF S!TransferBlock, IsSet
  <2>2. \E msg : ~IsSet(msg) /\ S!Send(s, msg)
    BY <1>3, <2>1 DEF S!SendSomeMd5PieceToProxy
  <2> QED
    BY <1>1, <1>3, <2>2, InStepSends
<1>4. ASSUME NEW msg, S!OnUploadBlock(s, msg) PROVE InStep(s)'
  <2>1. ~IsSet(S!UploadBlockAck(msg.md5)) /\ ~IsSet(S!UploadBlockFail(msg.md5))
    BY DEF IsSet, S!UploadBlockAck, S!UploadBlockFail
  <2> QED
    BY <1>1, <1>4, <2>1, InStepSends
       DEF S!OnUploadBlock, S!ReceivePiece, S!RejectBlock, S!StoreBlock
<1>5. CASE StorageReads(s)
  <2> DEFINE msg == Head(toStorage[s])
  <2>1. CASE S!OnDownLoadBlock(s, msg)
    BY <1>3, <2>1 DEF S!OnDownLoadBlock
  <2>2. CASE S!ExitOnDownLoadBlock(s, msg)
    BY <1>2, <2>2 DEF S!ExitOnDownLoadBlock
  <2>3. CASE S!OnClientClean(s, msg)
    BY <1>1, <2>3, InStepSends DEF S!OnClientClean
  <2> QED
    BY <1>4, <1>5, <2>1, <2>2, <2>3 DEF StorageReads, StorageHandles
<1>6. CASE StorageWrote(s)
  <2>1. CASE /\ sState[s] = "transfering_block_set"
             /\ S!SendSomeMd5sToProxy(s, transferingMd5s[s])
    <3>1. CASE storageState[s] = "none"
      BY <1>1, <3>1 DEF InStep
    <3>2. CASE storageState[s] # "none"
      <4>1. Running(s)
        BY <2>1 DEF Running
      <4>2. \A i \in DOMAIN toProxy[s] : ~IsLastSet(toProxy[s][i])
        BY <2>1, <3>2, <4>1 DEF InStep
      <4>3. storageState[s] # "working"
        BY <2>1, <3>2, <4>1 DEF InStep
      <4> QED
        BY <1>1, <2>1, <4>2, <4>3, InStepAnnounces
    <3> QED
      BY <3>1, <3>2
  <2>2. CASE /\ S!SendSomeMd5PieceToProxy(s, downloadingContext[s], downloadingMd5s[s])
             /\ UNCHANGED sState
    BY <1>3, <2>2
  <2>3. CASE UNCHANGED <<sState, toProxy>>
    BY SMTT(60), <1>1, <2>3, InStepSends
  <2> QED
    BY <1>6, <2>1, <2>2, <2>3 DEF StorageWrote, S!OnWriteComplete, S!memory
<1>7. CASE StorageLosesProxy(s) \/ StorageDies(s)
  BY <1>2, <1>7 DEF StorageLosesProxy, S!OnClose, StorageDies, S!Crash, S!CrashWhileStoring
<1> QED
  BY <1>5, <1>6, <1>7

(* The proxy reads a set or works with a server that has announced all. *)
LEMMA InStepRead ==
  ASSUME S!TypeOK, P!TypeOK, NEW s \in Servers, InStep(s), ProxyReadsStorage(s)
  PROVE  InStep(s)'
<1> DEFINE msg == Head(toProxy[s])
           q == toProxy[s]
           r == Tail(toProxy[s])
<1>1. /\ q \in Seq(S!StorageMessage) /\ q # <<>> /\ toProxy'[s] = r
      /\ UNCHANGED sState /\ P!StorageOnMessage(s, msg)
  BY DEF ProxyReadsStorage, S!TypeOK, servers
<1>2. /\ DOMAIN r = 1 .. Len(q) - 1 /\ DOMAIN q = 1 .. Len(q) /\ Len(q) \in Nat \ {0}
      /\ q[1] = msg /\ \A i \in DOMAIN r : r[i] = q[i + 1]
  BY <1>1
<1> HIDE DEF q, r, msg
<1>3. \A i \in DOMAIN r : i + 1 \in DOMAIN q /\ r[i] = q[i + 1] /\ i \in Nat /\ i + 1 > 1
  BY <1>2
<1>4. \A i \in DOMAIN q : i = 1 \/ (i - 1 \in DOMAIN r /\ r[i - 1] = q[i])
  BY <1>2
<1>5. CASE P!StorageOnClose(s)
  BY <1>5, StorageClosed DEF InStep, P!TypeOK
<1>6. CASE ~P!StorageOnClose(s) /\ Running(s)
  <2>1. /\ storageState[s] # "none"
        /\ IsSet(msg) => /\ storageState[s] = "waiting_block_set"
                         /\ storageState'[s] = IF IsLastSet(msg) THEN "working"
                                               ELSE "waiting_block_set"
        /\ ~IsSet(msg) => storageState[s] = "working" /\ storageState'[s] = "working"
    BY <1>1, <1>6 DEF P!StorageOnMessage, P!HandleTransferBlockSet, P!AfterBlockSet,
         P!HandleUploadBlockAck, P!HandleUploadBlockFail, P!NamelessFail, P!Dies,
         P!HandleTransferBlock, P!StorageMessageError, P!storages, IsLastSet, IsSet, P!TypeOK
  <2>2. /\ \A i \in DOMAIN q : IsLastSet(q[i]) =>
             sState[s] = "working" /\ \A j \in DOMAIN q : IsSet(q[j]) => j <= i
        /\ storageState[s] = "working" =>
             sState[s] = "working" /\ \A i \in DOMAIN q : ~IsSet(q[i])
        /\ storageState[s] # "working" /\ sState[s] = "working" =>
             \E i \in DOMAIN q : IsLastSet(q[i])
    BY <1>6, <2>1 DEF InStep, q
  <2>3. \A i \in DOMAIN r : IsLastSet(r[i]) =>
          sState[s] = "working" /\ \A j \in DOMAIN r : IsSet(r[j]) => j <= i
    BY <1>3, <2>2
  <2>4. storageState'[s] = "working" =>
          sState[s] = "working" /\ \A i \in DOMAIN r : ~IsSet(r[i])
    <3>1. CASE IsSet(msg)
      <4> SUFFICES ASSUME IsLastSet(msg)
                   PROVE  sState[s] = "working" /\ \A i \in DOMAIN r : ~IsSet(r[i])
        BY <2>1, <3>1
      <4>1. 1 \in DOMAIN q
        BY <1>2
      <4>2. sState[s] = "working" /\ \A j \in DOMAIN q : IsSet(q[j]) => j <= 1
        BY <1>2, <2>2, <4>1
      <4> QED
        BY <1>3, <4>2
    <3>2. CASE ~IsSet(msg)
      BY <1>3, <2>1, <2>2, <3>2
    <3> QED
      BY <3>1, <3>2
  <2>5. storageState'[s] # "working" /\ sState[s] = "working" =>
          \E i \in DOMAIN r : IsLastSet(r[i])
    <3> SUFFICES ASSUME storageState'[s] # "working", sState[s] = "working"
                 PROVE  \E i \in DOMAIN r : IsLastSet(r[i])
      OBVIOUS
    <3>1. storageState[s] # "working" /\ ~IsLastSet(msg)
      BY <2>1 DEF IsLastSet
    <3>2. PICK i \in DOMAIN q : IsLastSet(q[i])
      BY <2>2, <3>1
    <3>3. i # 1
      BY <1>2, <3>1, <3>2
    <3> QED
      BY <1>4, <3>2, <3>3
  <2> QED
    BY <1>1, <2>3, <2>4, <2>5 DEF InStep
<1>7. CASE ~Running(s)
  BY <1>1, <1>7 DEF InStep, Running
<1> QED
  BY <1>5, <1>6, <1>7

LEMMA InStepMoves ==
  ASSUME S!TypeOK, P!TypeOK, NEW s \in Servers, InStep(s), StorageMoves(s)
  PROVE  InStep(s)'
<1>1. CASE ServerConnects(s)
  <2>1. /\ storageState'[s] = "waiting_block_set" /\ toProxy[s] = <<>>
        /\ S!SendSomeMd5sToProxy(s, md5_path[s])
    BY <1>1 DEF ServerConnects, P!StorageOnConnection, S!OnConnection, P!TypeOK
  <2> QED
    BY <2>1, InStepAnnounces
<1>2. CASE ProxyLosesStorage(s)
  BY <1>2, StorageClosed DEF ProxyLosesStorage, InStep, P!TypeOK
<1> QED
  BY <1>1, <1>2, InStepServerActs, InStepRead DEF StorageMoves, StorageStep, ProxyStorageStep

LEMMA StepNext == SystemInv /\ StepInv /\ [Next]_vars => StepInv'
<1> SUFFICES ASSUME SystemInv, StepInv, [Next]_vars, NEW t \in Servers PROVE InStep(t)'
  BY DEF StepInv
<1>1. P!TypeOK /\ S!TypeOK /\ InStep(t)
  BY SystemTypes DEF StepInv
<1>2. ASSUME NEW s \in Servers, StorageMoves(s) PROVE InStep(t)'
  BY <1>1, <1>2, InStepMoves, OtherServers, InStepSame
<1>3. ASSUME NEW f \in Flows, ClientSideStep(f) PROVE InStep(t)'
  BY <1>1, <1>3, ClientSideServers, InStepSame DEF SameServer, servers
<1>4. CASE UNCHANGED vars
  BY <1>1, <1>4, InStepSame DEF SameServer, vars, proxy, servers
<1> QED
  BY <1>2, <1>3, <1>4, StepKinds

LEMMA StepInit == Init => StepInv
BY DEF Init, P!Init, StepInv, InStep

(* The proxy drops no server that has announced all its blocks and lives:  *)
(* a message it does not expect (the force_close of storageOnMessage) can  *)
(* only come from one that still sends sets of digests, or sent one before *)
(* the proxy had read its last.                                            *)
THEOREM WorkingServersAreKept == Spec => ServersAreKept
<1>1. SystemInv /\ StepInv /\ [Next]_vars =>
        \A s \in Servers :
          proxyState = "running" /\ storageState[s] # "none" /\ AllAnnounced(s)
            => storageState'[s] # "none"
  <2> SUFFICES ASSUME SystemInv, StepInv, [Next]_vars, NEW s \in Servers,
                      storageState[s] # "none", AllAnnounced(s)
               PROVE  storageState'[s] # "none"
    OBVIOUS
  <2>1. P!TypeOK /\ S!TypeOK /\ InStep(s)
    BY SystemTypes DEF StepInv
  <2>2. sState[s] = "working" /\ \A i \in DOMAIN toProxy[s] : ~IsSet(toProxy[s][i])
    BY DEF AllAnnounced, Sent, IsSet
  <2>3. storageState[s] = "working"
    BY <2>1, <2>2 DEF InStep, Running, IsLastSet
  <2>4. CASE ProxyReadsStorage(s)
    <3>1. toProxy[s] # <<>> /\ toProxy[s] \in Seq(S!StorageMessage)
      BY <2>1, <2>4 DEF ProxyReadsStorage, S!TypeOK
    <3>2. ~IsSet(Head(toProxy[s]))
      <4>1. 1 \in DOMAIN toProxy[s] /\ Head(toProxy[s]) = toProxy[s][1]
        BY <3>1
      <4> QED
        BY <2>2, <4>1
    <3> QED
      BY <2>1, <2>3, <2>4, <3>2
         DEF ProxyReadsStorage, P!StorageOnMessage, P!HandleTransferBlockSet,
             P!HandleUploadBlockAck, P!HandleUploadBlockFail, P!NamelessFail, P!Dies,
             P!HandleTransferBlock, P!StorageMessageError, P!storages, IsSet
  <2>5. CASE StorageMoves(s) /\ ~ProxyReadsStorage(s)
    <3>1. ~ServerConnects(s) /\ ~ProxyLosesStorage(s)
      BY <2>2, <2>3 DEF ServerConnects, P!StorageOnConnection, ProxyLosesStorage
    <3> QED
      BY <2>3, <2>5, <3>1
         DEF StorageMoves, StorageStep, ProxyStorageStep, StorageReads, StorageWrote,
             StorageLosesProxy, StorageDies, proxy
  <2>6. ASSUME NEW t \in Servers, t # s, StorageMoves(t) PROVE storageState'[s] # "none"
    BY <2>1, <2>3, <2>6, OtherServers DEF SameServer
  <2>7. ASSUME NEW f \in Flows, ClientSideStep(f) PROVE storageState'[s] # "none"
    BY <2>3, <2>7, ClientSideServers
  <2>8. CASE UNCHANGED vars
    BY <2>3, <2>8 DEF vars, proxy
  <2> QED
    BY <2>4, <2>5, <2>6, <2>7, <2>8, StepKinds
<1>2. SystemInv /\ StepInv /\ [Next]_vars =>
        [\A s \in Servers :
           proxyState = "running" /\ storageState[s] # "none" /\ AllAnnounced(s)
             => storageState'[s] # "none"]_vars
  BY <1>1
<1> QED
  BY <1>2, SystemInit, SystemNext, StepInit, StepNext, PTL DEF Spec, ServersAreKept

----------------------------------------------------------------------------
(* Turns: in a queue one message longer, shorter, or cut.                  *)

(* r has no turn that is not one of q. *)
Fewer(F, q, r) == (Holds(F, r) => Holds(F, q)) /\ (Once(F, q) => Once(F, r))

LEMMA FewerSame == ASSUME NEW F, NEW q PROVE Fewer(F, q, q)
BY DEF Fewer

LEMMA FewerNone == ASSUME NEW F, NEW q PROVE Fewer(F, q, <<>>)
BY DEF Fewer, Holds, Once

LEMMA FewerShifted ==
  ASSUME NEW F, NEW M, NEW q \in Seq(M), NEW r \in Seq(M), NEW shift \in Nat,
         Len(r) + shift <= Len(q), \A i \in DOMAIN r : r[i] = q[i + shift]
  PROVE  Fewer(F, q, r)
<1>1. \A i \in DOMAIN r : i + shift \in DOMAIN q /\ r[i] = q[i + shift] /\ i \in Nat
  OBVIOUS
<1>2. \A i, j \in DOMAIN r : i + shift = j + shift => i = j
  BY <1>1
<1>3. Holds(F, r) => Holds(F, q)
  BY <1>1 DEF Holds
<1>4. Once(F, q) => Once(F, r)
  BY <1>1, <1>2 DEF Once
<1> QED
  BY <1>3, <1>4 DEF Fewer

LEMMA FewerTail ==
  ASSUME NEW F, NEW M, NEW q \in Seq(M), q # <<>>
  PROVE  /\ Fewer(F, q, Tail(q))
         /\ PassesTurn(F, Head(q)) /\ Once(F, q) => Holds(F, q) /\ ~Holds(F, Tail(q))
<1> DEFINE r == Tail(q)
<1>1. r \in Seq(M) /\ Len(r) + 1 = Len(q) /\ \A i \in DOMAIN r : r[i] = q[i + 1]
  OBVIOUS
<1>2. 1 \in DOMAIN q /\ Head(q) = q[1]
  OBVIOUS
<1>3. \A i \in DOMAIN r : i + 1 \in DOMAIN q /\ i + 1 # 1
  BY <1>1
<1> HIDE DEF r
<1>4. Fewer(F, q, r)
  BY <1>1, FewerShifted
<1>5. PassesTurn(F, Head(q)) /\ Once(F, q) => Holds(F, q) /\ ~Holds(F, r)
  BY <1>1, <1>2, <1>3 DEF Holds, Once
<1> QED
  BY <1>4, <1>5 DEF r

LEMMA FewerPart ==
  ASSUME NEW F, NEW M, NEW q \in Seq(M), NEW n \in 0 .. Len(q)
  PROVE  Fewer(F, q, SubSeq(q, 1, n))
<1> DEFINE r == SubSeq(q, 1, n)
<1>1. r \in Seq(M) /\ Len(r) + 0 <= Len(q) /\ \A i \in DOMAIN r : r[i] = q[i + 0]
  OBVIOUS
<1> HIDE DEF r
<1>2. Fewer(F, q, r)
  BY <1>1, FewerShifted
<1> QED
  BY <1>2 DEF r

LEMMA FewerAppend ==
  ASSUME NEW F, NEW M, NEW q \in Seq(M), NEW msg
  PROVE  /\ ~PassesTurn(F, msg) => Fewer(F, q, Append(q, msg))
         /\ ~Holds(F, q) => Once(F, Append(q, msg))
<1> DEFINE n == Len(q)
           r == Append(q, msg)
<1>1. /\ DOMAIN r = 1 .. n + 1 /\ DOMAIN q = 1 .. n /\ n \in Nat
      /\ r[n + 1] = msg /\ \A i \in 1 .. n : r[i] = q[i]
  OBVIOUS
<1>2. \A i \in DOMAIN r : (i \in DOMAIN q /\ r[i] = q[i]) \/ (i = n + 1 /\ r[i] = msg)
  BY <1>1
<1> HIDE DEF r, n
<1>3. ~PassesTurn(F, msg) => Fewer(F, q, r)
  BY <1>2 DEF Fewer, Holds, Once
<1>4. ~Holds(F, q) => Once(F, r)
  BY <1>2 DEF Holds, Once
<1> QED
  BY <1>3, <1>4 DEF r

----------------------------------------------------------------------------
(* A step that gives flow f no turn, and one that passes it on.            *)

Onces(f) ==
  /\ Once(Flows, fromClient[f]) /\ Once(Flows, toClient[f])
  /\ \A s \in Servers : Once({f}, toStorage[s]) /\ Once({f}, toProxy[s])
LessAtClient(f) ==
  Fewer(Flows, fromClient[f], fromClient'[f]) /\ Fewer(Flows, toClient[f], toClient'[f])
LessAtServer(f, s) ==
  /\ Fewer({f}, toStorage[s], toStorage'[s]) /\ Fewer({f}, toProxy[s], toProxy'[s])
  /\ downloadingContext'[s][f] # S!NoDownload => downloadingContext[s][f] # S!NoDownload
NotYounger(f) == f >= nextFlow' => f >= nextFlow

LEMMA TurnAt ==
  ASSUME NEW f \in Flows
  PROVE  /\ Turn(f, <<"asking", f>>) <=> Holds(Flows, fromClient[f])
         /\ Turn(f, <<"told", f>>) <=> Holds(Flows, toClient[f])
         /\ \A s \in Servers :
              /\ Turn(f, <<"asked", s>>) <=> Holds({f}, toStorage[s])
              /\ Turn(f, <<"sending", s>>) <=> downloadingContext[s][f] # S!NoDownload
              /\ Turn(f, <<"sent", s>>) <=> Holds({f}, toProxy[s])
BY DEF Turn

LEMMA TurnAtPrime ==
  ASSUME NEW f \in Flows
  PROVE  /\ Turn(f, <<"asking", f>>)' <=> Holds(Flows, fromClient'[f])
         /\ Turn(f, <<"told", f>>)' <=> Holds(Flows, toClient'[f])
         /\ \A s \in Servers :
              /\ Turn(f, <<"asked", s>>)' <=> Holds({f}, toStorage'[s])
              /\ Turn(f, <<"sending", s>>)' <=> downloadingContext'[s][f] # S!NoDownload
              /\ Turn(f, <<"sent", s>>)' <=> Holds({f}, toProxy'[s])
BY DEF Turn, Holds

LEMMA PlacesOfTurn ==
  ASSUME NEW f
  PROVE  /\ \A x \in TurnPlaces(f) :
              \/ x = <<"asking", f>> \/ x = <<"told", f>>
              \/ \E s \in Servers : x = <<"asked", s>> \/ x = <<"sending", s>> \/ x = <<"sent", s>>
         /\ <<"asking", f>> \in TurnPlaces(f) /\ <<"told", f>> \in TurnPlaces(f)
         /\ \A s \in Servers : /\ <<"asked", s>> \in TurnPlaces(f)
                               /\ <<"sending", s>> \in TurnPlaces(f)
                               /\ <<"sent", s>> \in TurnPlaces(f)
BY DEF TurnPlaces

LEMMA TurnKept ==
  ASSUME NEW f \in Flows, FlowTurn(f), LessAtClient(f), NotYounger(f),
         \A s \in Servers : LessAtServer(f, s)
  PROVE  FlowTurn(f)'
<1>1. ASSUME NEW x \in TurnPlaces(f), Turn(f, x)' PROVE Turn(f, x)
  <2>1. CASE x = <<"asking", f>> \/ x = <<"told", f>>
    BY <1>1, <2>1, TurnAt, TurnAtPrime DEF LessAtClient, Fewer
  <2>2. ASSUME NEW s \in Servers,
               x = <<"asked", s>> \/ x = <<"sending", s>> \/ x = <<"sent", s>>
        PROVE  Turn(f, x)
    <3>1. LessAtServer(f, s)
      OBVIOUS
    <3> QED
      BY <1>1, <2>2, <3>1, TurnAt, TurnAtPrime DEF LessAtServer, Fewer
  <2> QED
    BY <2>1, <2>2, PlacesOfTurn
<1>2. Onces(f)'
  <2>1. Once(Flows, fromClient'[f]) /\ Once(Flows, toClient'[f])
    BY DEF FlowTurn, OneTurn, LessAtClient, Fewer
  <2>2. \A s \in Servers : Once({f}, toStorage'[s]) /\ Once({f}, toProxy'[s])
    BY DEF FlowTurn, OneTurn, LessAtServer, Fewer
  <2> QED
    BY <2>1, <2>2 DEF Onces, Once
<1> QED
  BY <1>1, <1>2 DEF FlowTurn, OneTurn, Onces, NotYounger

LEMMA TurnPassed ==
  ASSUME NEW f \in Flows, FlowTurn(f), NotYounger(f), Onces(f)',
         NEW x \in TurnPlaces(f), NEW y \in TurnPlaces(f), Turn(f, x), ~Turn(f, x)',
         \A z \in TurnPlaces(f) : z # y /\ Turn(f, z)' => Turn(f, z)
  PROVE  FlowTurn(f)'
BY DEF FlowTurn, OneTurn, Onces, NotYounger

LEMMA TurnElsewhere ==
  ASSUME NEW f \in Flows, FlowTurn(f), NEW x \in TurnPlaces(f), NEW y \in TurnPlaces(f),
         Turn(f, x), x # y
  PROVE  ~Turn(f, y)
BY DEF FlowTurn, OneTurn

----------------------------------------------------------------------------
(* The steps of clients.                                                   *)

LEMMA ServersKeepTurn ==
  ASSUME NEW f \in Flows, UNCHANGED <<servers, toStorage, toProxy>>
  PROVE  \A s \in Servers : LessAtServer(f, s)
BY FewerSame DEF servers, LessAtServer

LEMMA OtherClientTurn ==
  ASSUME NEW f \in Flows, FlowTurn(f), UNCHANGED <<nextFlow, servers, toStorage, toProxy>>,
         fromClient'[f] = fromClient[f], toClient'[f] = toClient[f]
  PROVE  FlowTurn(f)'
<1>1. LessAtClient(f)
  BY FewerSame DEF LessAtClient
<1> QED
  BY <1>1, ServersKeepTurn, TurnKept DEF NotYounger

(* An agent passes no turn: it sends blocks and asks for none. *)
LEMMA AgentSends ==
  ASSUME A!TypeOK, NEW f \in Flows, AgentMoves(f)
  PROVE  Fewer(Flows, fromClient[f], fromClient'[f])
<1>1. fromClient[f] \in Seq(A!FromClientMessage)
  BY DEF A!TypeOK
<1>2. ASSUME NEW msg, msg.type \in {"upload_block", "upload_all_blocks"}, A!Send(f, msg)
      PROVE  Fewer(Flows, fromClient[f], fromClient'[f])
  <2>1. ~PassesTurn(Flows, msg) /\ fromClient'[f] = Append(fromClient[f], msg)
    BY <1>2 DEF PassesTurn, A!Send, A!TypeOK
  <2> QED
    BY <1>1, <2>1, FewerAppend
<1>3. ASSUME NEW md5s, NEW at, NEW i, A!SendBlockPiece(f, md5s, at, i)
      PROVE  Fewer(Flows, fromClient[f], fromClient'[f])
  <2>1. \A m, eof, content : A!UploadBlock(m, i, eof, content).type = "upload_block"
    BY DEF A!UploadBlock
  <2> QED
    BY <1>2, <1>3, <2>1 DEF A!SendBlockPiece
<1>4. ASSUME A!SendUploadAllBlocks(f) PROVE Fewer(Flows, fromClient[f], fromClient'[f])
  BY <1>2, <1>4 DEF A!SendUploadAllBlocks, A!UploadAllBlocks
<1>5. ASSUME A!Close(f) PROVE Fewer(Flows, fromClient[f], fromClient'[f])
  <2>1. \E n \in 0 .. Len(fromClient[f]) : fromClient'[f] = SubSeq(fromClient[f], 1, n)
    BY <1>5 DEF A!Close, A!TypeOK
  <2> QED
    BY <1>1, <2>1, FewerPart
<1>6. ASSUME UNCHANGED fromClient PROVE Fewer(Flows, fromClient[f], fromClient'[f])
  BY <1>6, FewerSame
<1>7. ASSUME NEW msg, A!OnMessage(f, msg) PROVE Fewer(Flows, fromClient[f], fromClient'[f])
  BY <1>3, <1>4, <1>5, <1>6, <1>7
     DEF A!OnMessage, A!OnUploadResponse, A!StartBlock, A!OnUploadBlockAck, A!OnFinalResult,
         A!Ignore, A!aVars, A!OnMessageError
<1>8. ASSUME A!OnWriteComplete(f) PROVE Fewer(Flows, fromClient[f], fromClient'[f])
  BY <1>3, <1>6, <1>8 DEF A!OnWriteComplete
<1> QED
  BY <1>5, <1>7, <1>8 DEF AgentMoves, AgentReads, AgentWrote, AgentLosesProxy, AgentKilled

(* What a client has received. *)
LEMMA ClientReceives ==
  ASSUME P!TypeOK, NEW f \in Flows,
         toClient'[f] = toClient[f] \/ (toClient[f] # <<>> /\ toClient'[f] = Tail(toClient[f]))
  PROVE  Fewer(Flows, toClient[f], toClient'[f])
<1>1. toClient[f] \in Seq(P!ClientMessage)
  BY DEF P!TypeOK
<1> QED
  BY <1>1, FewerTail, FewerSame

LEMMA AgentTurn ==
  ASSUME P!TypeOK, AgentInv, AgentPlaced, NEW f \in Flows, AgentMoves(f), NEW g \in Flows,
         FlowTurn(g)
  PROVE  FlowTurn(g)'
<1>1. A!TypeOK /\ AgentAt(f) \in Position
  BY DEF AgentInv, AgentPlaced
<1>2. /\ UNCHANGED <<nextFlow, servers, toStorage, toProxy>>
      /\ g # f => fromClient'[g] = fromClient[g] /\ toClient'[g] = toClient[g]
      /\ \/ toClient'[f] = toClient[f]
         \/ toClient[f] # <<>> /\ toClient'[f] = Tail(toClient[f])
  <2>1. ClientMoves(f)
    BY <1>1, AgentMovesOnly
  <2> QED
    BY <2>1 DEF ClientMoves, SameClient, proxy, AgentMoves, AgentReads, AgentWrote,
                AgentLosesProxy, AgentKilled, P!TypeOK
<1>3. CASE g # f
  BY <1>2, <1>3, OtherClientTurn
<1>4. CASE g = f
  <2>1. LessAtClient(f)
    BY <1>1, <1>2, AgentSends, ClientReceives DEF LessAtClient
  <2> QED
    BY <1>2, <1>4, <2>1, ServersKeepTurn, TurnKept DEF NotYounger
<1> QED
  BY <1>3, <1>4

(* A downloader that has read the last piece of a block acknowledges it. *)
LEMMA AcknowledgedTurn ==
  ASSUME P!TypeOK, A!TypeOK, D!TypeOK, NEW f \in Flows, FlowTurn(f), NEW msg,
         msg = Head(toClient[f]), toClient[f] # <<>>, toClient'[f] = Tail(toClient[f]),
         D!OnTransferBlock(f, msg), UNCHANGED <<nextFlow, servers, toStorage, toProxy>>
  PROVE  FlowTurn(f)'
<1>1. /\ toClient[f] \in Seq(P!ClientMessage) /\ msg \in P!ClientMessage
      /\ fromClient[f] \in Seq(A!FromClientMessage)
  BY DEF P!TypeOK, A!TypeOK
<1>2. Fewer(Flows, toClient[f], toClient'[f])
  BY ClientReceives
<1>3. CASE ~msg.eof
  <2>1. fromClient'[f] = fromClient[f]
    BY <1>3 DEF D!OnTransferBlock, D!Acknowledge
  <2>2. LessAtClient(f)
    BY <1>2, <2>1, FewerSame DEF LessAtClient
  <2> QED
    BY <2>2, ServersKeepTurn, TurnKept DEF NotYounger
<1>4. CASE msg.eof
  <2> DEFINE x == <<"told", f>>
             y == <<"asking", f>>
  <2>1. fromClient'[f] = Append(fromClient[f], D!TransferBlockAck(msg.md5))
    BY <1>4 DEF D!OnTransferBlock, D!Acknowledge, D!Send, D!TypeOK
  <2>2. PassesTurn(Flows, msg)
    BY <1>1, <1>4 DEF D!OnTransferBlock, P!ClientMessage, PassesTurn
  <2>3. Holds(Flows, toClient[f]) /\ ~Holds(Flows, toClient'[f])
    BY <1>1, <2>2, FewerTail DEF FlowTurn, OneTurn
  <2>4. x \in TurnPlaces(f) /\ y \in TurnPlaces(f) /\ x # y
    BY PlacesOfTurn
  <2>5. Turn(f, x) /\ ~Turn(f, x)'
    BY <2>3, TurnAt, TurnAtPrime
  <2>6. ~Holds(Flows, fromClient[f])
    BY <2>4, <2>5, TurnElsewhere, TurnAt
  <2>7. Once(Flows, fromClient'[f])
    BY <1>1, <2>1, <2>6, FewerAppend
  <2>8. Onces(f)'
    BY <1>2, <2>7 DEF FlowTurn, OneTurn, Onces, Once, Fewer
  <2>9. ASSUME NEW z \in TurnPlaces(f), z # y, Turn(f, z)' PROVE Turn(f, z)
    <3>1. CASE z = x
      BY <2>5, <3>1
    <3>2. ASSUME NEW s \in Servers,
                 z = <<"asked", s>> \/ z = <<"sending", s>> \/ z = <<"sent", s>>
          PROVE  Turn(f, z)
      BY <2>9, <3>2, TurnAt, TurnAtPrime DEF servers
    <3> QED
      BY <2>9, <3>1, <3>2, PlacesOfTurn
  <2> HIDE DEF x, y
  <2> QED
    BY <2>4, <2>5, <2>8, <2>9, TurnPassed DEF NotYounger
<1> QED
  BY <1>3, <1>4

LEMMA DownloaderTurn ==
  ASSUME P!TypeOK, A!TypeOK, D!TypeOK, NEW f \in Flows, DownloaderMoves(f), NEW g \in Flows,
         FlowTurn(g)
  PROVE  FlowTurn(g)'
<1>1. /\ UNCHANGED <<nextFlow, servers, toStorage, toProxy>>
      /\ g # f => fromClient'[g] = fromClient[g] /\ toClient'[g] = toClient[g]
      /\ \/ toClient'[f] = toClient[f]
         \/ toClient[f] # <<>> /\ toClient'[f] = Tail(toClient[f])
  <2>1. ClientMoves(f)
    BY DownloaderMovesOnly
  <2> QED
    BY <2>1 DEF ClientMoves, SameClient, proxy, DownloaderMoves, DownloaderReads,
                DownloaderLosesProxy, DownloaderKilled, P!TypeOK
<1>2. CASE g # f
  BY <1>1, <1>2, OtherClientTurn
<1>3. ASSUME g = f, NEW state, D!End(f, state) PROVE FlowTurn(g)'
  <2>1. /\ fromClient[f] \in Seq(A!FromClientMessage)
        /\ \E n \in 0 .. Len(fromClient[f]) : fromClient'[f] = SubSeq(fromClient[f], 1, n)
    BY <1>3 DEF D!End, A!TypeOK
  <2>2. LessAtClient(f)
    BY <1>1, <2>1, FewerPart, ClientReceives DEF LessAtClient
  <2> QED
    BY <1>1, <1>3, <2>2, ServersKeepTurn, TurnKept DEF NotYounger
<1>4. ASSUME g = f, NEW msg, msg = Head(toClient[f]), DownloaderReads(f),
             D!OnTransferBlock(f, msg)
      PROVE  FlowTurn(g)'
  <2>1. toClient[f] # <<>> /\ toClient'[f] = Tail(toClient[f])
    BY <1>4 DEF DownloaderReads, P!TypeOK
  <2> QED
    BY <1>1, <1>4, <2>1, AcknowledgedTurn
<1>5. CASE g = f
  BY <1>3, <1>4, <1>5
     DEF DownloaderMoves, DownloaderReads, DownloaderLosesProxy, DownloaderKilled,
         D!OnMessage, D!OnTransferAllBlocks, D!OnMessageError, D!Close
<1> QED
  BY <1>2, <1>5

LEMMA ConnectsTurn ==
  ASSUME P!TypeOK, A!TypeOK, D!TypeOK, NEW f \in Flows, Connects(f), NEW g \in Flows,
         FlowTurn(g)
  PROVE  FlowTurn(g)'
<1>1. /\ f = nextFlow /\ nextFlow' = nextFlow + 1 /\ UNCHANGED toClient
      /\ UNCHANGED <<servers, toStorage, toProxy>>
  BY DEF Connects, AgentConnects, DownloaderConnects, P!ClientOnConnection
<1>2. \E msg : fromClient' = [fromClient EXCEPT ![f] = Append(@, msg)]
  BY DEF Connects, AgentConnects, DownloaderConnects, A!OnConnection, A!Send,
         D!OnConnection, D!Send
<1>3. f \in Nat /\ g \in Nat /\ nextFlow \in Nat
  BY FlowsAssumption DEF P!TypeOK
<1>4. CASE g # f
  <2>1. LessAtClient(g)
    BY <1>1, <1>2, <1>4, FewerSame DEF LessAtClient, A!TypeOK
  <2>2. NotYounger(g)
    BY <1>1, <1>3 DEF NotYounger
  <2> QED
    BY <1>1, <2>1, <2>2, ServersKeepTurn, TurnKept
<1>5. CASE g = f
  <2>1. \A x \in TurnPlaces(f) : ~Turn(f, x)
    BY <1>1, <1>3, <1>5 DEF FlowTurn
  <2>2. ~Holds(Flows, fromClient[f]) /\ fromClient[f] \in Seq(A!FromClientMessage)
    BY <2>1, PlacesOfTurn, TurnAt DEF A!TypeOK
  <2>3. \E msg : fromClient'[f] = Append(fromClient[f], msg)
    BY <1>2 DEF A!TypeOK
  <2>4. Once(Flows, fromClient'[f])
    BY <2>2, <2>3, FewerAppend
  <2>5. Onces(f)'
    BY <1>1, <1>5, <2>4 DEF FlowTurn, OneTurn, Onces, Once, servers
  <2>6. ASSUME NEW x \in TurnPlaces(f), Turn(f, x)' PROVE x = <<"asking", f>>
    <3>1. CASE x = <<"told", f>>
      BY <1>1, <2>1, <2>6, <3>1, TurnAt, TurnAtPrime
    <3>2. ASSUME NEW s \in Servers,
                 x = <<"asked", s>> \/ x = <<"sending", s>> \/ x = <<"sent", s>>
          PROVE  Turn(f, x)
      BY <1>1, <2>6, <3>2, TurnAt, TurnAtPrime DEF servers
    <3> QED
      BY <2>1, <2>6, <3>1, <3>2, PlacesOfTurn
  <2>7. ~(f >= nextFlow')
    BY <1>1, <1>3
  <2> QED
    BY <1>5, <2>5, <2>6, <2>7 DEF FlowTurn, OneTurn, Onces
<1> QED
  BY <1>4, <1>5

----------------------------------------------------------------------------
(* The proxy and a client's message.                                       *)

(* What does not ask a server for a block, and what does. *)
Relays(f) ==
  \A s \in Servers :
    \/ toStorage'[s] = toStorage[s]
    \/ \E sent : /\ sent.type \in {"upload_block", "client_clean"}
                 /\ toStorage'[s] = Append(toStorage[s], sent)
Answers(f) ==
  /\ \A g \in Flows \ {f} : toClient'[g] = toClient[g]
  /\ Fewer(Flows, toClient[f], toClient'[f])
AsksFor(f) ==
  UNCHANGED toClient /\ \E s \in P!Connected : \E m \in storageMd5s[s] :
    toStorage' = [toStorage EXCEPT ![s] = Append(@, P!DownLoadBlock(m, f))]

LEMMA RepliesAnswer ==
  ASSUME P!TypeOK, NEW f \in Flows, NEW msg, P!SendToClient(f, msg), ~PassesTurn(Flows, msg)
  PROVE  Answers(f)
<1>1. toClient[f] \in Seq(P!ClientMessage) /\ toClient'[f] = Append(toClient[f], msg)
  BY DEF P!SendToClient, P!TypeOK
<1>2. \A g \in Flows \ {f} : toClient'[g] = toClient[g]
  BY DEF P!SendToClient, P!TypeOK
<1> QED
  BY <1>1, <1>2, FewerAppend DEF Answers

LEMMA SilenceAnswers ==
  ASSUME NEW f \in Flows, UNCHANGED toClient PROVE Answers(f)
BY FewerSame DEF Answers

LEMMA ClosePassesNoTurn ==
  ASSUME P!TypeOK, NEW f \in Flows, P!ClientOnClose(f) PROVE Relays(f) /\ Answers(f)
<1>1. P!ClientClean(f).type = "client_clean"
  BY DEF P!ClientClean
<1>2. Relays(f)
  BY <1>1 DEF P!ClientOnClose, P!SendToStorages, Relays
<1>3. /\ toClient[f] \in Seq(P!ClientMessage)
      /\ \E n \in 0 .. Len(toClient[f]) : toClient'[f] = SubSeq(toClient[f], 1, n)
      /\ \A g \in Flows \ {f} : toClient'[g] = toClient[g]
  BY DEF P!ClientOnClose, P!Truncated, P!TypeOK
<1> QED
  BY <1>2, <1>3, FewerPart DEF Answers

LEMMA HandlersPassTurn ==
  ASSUME P!TypeOK, NEW f \in Flows, NEW msg \in P!FromClientMessage,
         P!ClientOnMessage(f, msg) \/ P!LateMessage(f, msg)
  PROVE  \/ Relays(f) /\ Answers(f)
         \/ msg.type \in {"download_request", "transfer_block_ack"} /\ AsksFor(f)
<1>1. ASSUME UNCHANGED toStorage PROVE Relays(f)
  BY <1>1 DEF Relays
<1>2. CASE msg.type = "upload_block" /\ P!HandleUploadBlock(f, msg)
  <2>1. P!SetFlowId(msg, f).type = "upload_block"
    BY <1>2, Relayed
  <2>2. UNCHANGED toStorage \/ \E to : P!SendToStorages(to, P!SetFlowId(msg, f))
    BY <1>2 DEF P!HandleUploadBlock, P!StartBlock, P!TooFewServers, P!RelayPiece,
                P!RelayToExpired
  <2>3. UNCHANGED toClient
    BY <1>2 DEF P!HandleUploadBlock, P!StartBlock, P!TooFewServers, P!RelayPiece,
                P!RelayToExpired, P!Dies
  <2> QED
    BY <1>1, <2>1, <2>2, <2>3, SilenceAnswers DEF Relays, P!SendToStorages
<1>3. CASE P!HandleUploadRequest(f, msg)
  <2>1. \A need : ~PassesTurn(Flows, P!UploadResponse(need))
    BY DEF PassesTurn, P!UploadResponse
  <2> QED
    BY <1>1, <1>3, <2>1, RepliesAnswer DEF P!HandleUploadRequest
<1>4. CASE P!HandleUploadAllBlocks(f) \/ P!TransferEnds(f) \/ P!HandleFileNotExist(f, msg)
  <2>1. /\ ~PassesTurn(Flows, P!FileStorageSucc) /\ ~PassesTurn(Flows, P!TransferAllBlocks)
        /\ ~PassesTurn(Flows, P!FileNotExist(msg.file_id))
    BY DEF PassesTurn, P!FileStorageSucc, P!TransferAllBlocks, P!FileNotExist
  <2> QED
    BY <1>1, <1>4, <2>1, RepliesAnswer
       DEF P!HandleUploadAllBlocks, P!TransferEnds, P!HandleFileNotExist
<1>5. ASSUME NEW m, P!RequestBlock(f, m), UNCHANGED toClient PROVE AsksFor(f)
  BY <1>5 DEF P!RequestBlock, P!StoragesOf, AsksFor
<1>6. ASSUME NEW need, \/ P!StartDownload(f, msg, need) \/ P!DownloadRefused(f, msg, need)
                       \/ P!NothingToTransfer(f, msg, need)
      PROVE  (Relays(f) /\ Answers(f)) \/ AsksFor(f)
  BY <1>1, <1>5, <1>6, SilenceAnswers, ClosePassesNoTurn
     DEF P!StartDownload, P!DownloadRefused, P!NothingToTransfer, P!Dies
<1>7. CASE msg.type = "download_request" /\ P!HandleDownloadRequest(f, msg)
  BY <1>4, <1>6, <1>7 DEF P!HandleDownloadRequest
<1>8. CASE msg.type = "transfer_block_ack" /\ P!HandleTransferBlockAck(f)
  BY <1>4, <1>5, <1>8, ClosePassesNoTurn
     DEF P!HandleTransferBlockAck, P!TransferNextBlock, P!TransferRefused
<1>9. CASE P!ClientMessageError(f, msg)
  BY <1>9, ClosePassesNoTurn DEF P!ClientMessageError
<1>10. CASE P!ClientOnMessage(f, msg)
  BY <1>2, <1>3, <1>4, <1>7, <1>8, <1>9, <1>10 DEF P!ClientOnMessage, P!ClientHandles
<1>11. ASSUME UNCHANGED <<toClient, toStorage>> PROVE Relays(f) /\ Answers(f)
  BY <1>1, <1>11, SilenceAnswers
<1>12. CASE msg.type = "download_request" /\ \E need : P!LateStart(f, need)
  BY <1>5, <1>11, <1>12 DEF P!LateStart, P!RequestIfStored
<1>13. CASE msg.type = "transfer_block_ack" /\ P!LateNextBlock(f)
  BY <1>5, <1>11, <1>13 DEF P!LateNextBlock, P!RequestIfStored
<1>14. CASE \/ P!LateRecord(f) \/ P!LateIgnored(f, msg)
            \/ \E need : P!NothingToTransfer(f, msg, need)
  BY <1>11, <1>14 DEF P!LateRecord, P!LateIgnored, P!NothingToTransfer, P!Dies
<1>15. CASE P!LateMessage(f, msg)
  BY <1>2, <1>12, <1>13, <1>14, <1>15 DEF P!LateMessage, P!LateHandles
<1> QED
  BY <1>10, <1>15

LEMMA RelaysLess ==
  ASSUME P!TypeOK, NEW f, Relays(f), UNCHANGED <<servers, toProxy>>, NEW g \in Flows,
         NEW s \in Servers
  PROVE  LessAtServer(g, s)
<1>1. Fewer({g}, toStorage[s], toStorage'[s])
  <2>1. CASE toStorage'[s] = toStorage[s]
    BY <2>1, FewerSame
  <2>2. CASE toStorage'[s] # toStorage[s]
    <3>1. PICK sent : /\ sent.type \in {"upload_block", "client_clean"}
                      /\ toStorage'[s] = Append(toStorage[s], sent)
      BY <2>2 DEF Relays
    <3>2. toStorage[s] \in Seq(P!ToStorageMessage) /\ ~PassesTurn({g}, sent)
      BY <3>1 DEF P!TypeOK, PassesTurn
    <3> QED
      BY <3>1, <3>2, FewerAppend
  <2> QED
    BY <2>1, <2>2
<1> QED
  BY <1>1, FewerSame DEF LessAtServer, servers

LEMMA RequestsOfOthers ==
  ASSUME P!TypeOK, NEW f \in Flows, AsksFor(f), UNCHANGED <<servers, toProxy>>,
         NEW g \in Flows, f # g, NEW t \in Servers
  PROVE  LessAtServer(g, t)
<1>0. PICK s \in Servers : \E m :
        toStorage' = [toStorage EXCEPT ![s] = Append(@, P!DownLoadBlock(m, f))]
  BY DEF AsksFor, P!Connected
<1>1. PICK m : toStorage' = [toStorage EXCEPT ![s] = Append(@, P!DownLoadBlock(m, f))]
  BY <1>0
<1>2. ~PassesTurn({g}, P!DownLoadBlock(m, f)) /\ toStorage[t] \in Seq(P!ToStorageMessage)
  BY DEF PassesTurn, P!DownLoadBlock, P!TypeOK
<1>3. \/ toStorage'[t] = toStorage[t]
      \/ toStorage'[t] = Append(toStorage[t], P!DownLoadBlock(m, f))
  BY <1>1 DEF P!TypeOK
<1> QED
  BY <1>2, <1>3, FewerSame, FewerAppend DEF LessAtServer, servers

(* An acknowledgement, or the request itself, becomes the request for one block. *)
LEMMA RequestedTurn ==
  ASSUME P!TypeOK, A!TypeOK, NEW f \in Flows, FlowTurn(f), fromClient[f] # <<>>,
         PassesTurn(Flows, Head(fromClient[f])),
         fromClient'[f] \in {Tail(fromClient[f]), <<>>},
         AsksFor(f), UNCHANGED <<nextFlow, servers, toProxy>>
  PROVE  FlowTurn(f)'
<1>0. PICK s \in Servers : \E m :
        toStorage' = [toStorage EXCEPT ![s] = Append(@, P!DownLoadBlock(m, f))]
  BY DEF AsksFor, P!Connected
<1>1. PICK m : toStorage' = [toStorage EXCEPT ![s] = Append(@, P!DownLoadBlock(m, f))]
  BY <1>0
<1>2. /\ toStorage'[s] = Append(toStorage[s], P!DownLoadBlock(m, f))
      /\ \A t \in Servers \ {s} : toStorage'[t] = toStorage[t]
      /\ toStorage[s] \in Seq(P!ToStorageMessage)
      /\ fromClient[f] \in Seq(A!FromClientMessage) /\ UNCHANGED toClient
  BY <1>1 DEF P!TypeOK, A!TypeOK, AsksFor
<1> DEFINE x == <<"asking", f>>
           y == <<"asked", s>>
<1>3. x \in TurnPlaces(f) /\ y \in TurnPlaces(f) /\ x # y
  BY PlacesOfTurn
<1>4. Fewer(Flows, fromClient[f], fromClient'[f])
      /\ Holds(Flows, fromClient[f]) /\ ~Holds(Flows, fromClient'[f])
  <2>1. ~Holds(Flows, <<>>)
    BY DEF Holds
  <2> QED
    BY <1>2, <2>1, FewerTail, FewerNone DEF FlowTurn, OneTurn
<1>5. Turn(f, x) /\ ~Turn(f, x)'
  BY <1>4, TurnAt, TurnAtPrime
<1>6. ~Holds({f}, toStorage[s])
  BY <1>3, <1>5, TurnElsewhere, TurnAt
<1>7. Once({f}, toStorage'[s])
  BY <1>2, <1>6, FewerAppend
<1>8. Onces(f)'
  <2>1. \A t \in Servers : Once({f}, toStorage'[t]) /\ Once({f}, toProxy'[t])
    BY <1>2, <1>7 DEF FlowTurn, OneTurn
  <2>2. Once(Flows, fromClient'[f]) /\ Once(Flows, toClient'[f])
    BY <1>2, <1>4 DEF FlowTurn, OneTurn, Fewer
  <2> QED
    BY <2>1, <2>2 DEF Onces, Once
<1>9. ASSUME NEW z \in TurnPlaces(f), z # y, Turn(f, z)' PROVE Turn(f, z)
  <2>1. CASE z = x
    BY <1>5, <2>1
  <2>2. CASE z = <<"told", f>>
    BY <1>2, <1>9, <2>2, TurnAt, TurnAtPrime
  <2>3. ASSUME NEW t \in Servers, z = <<"asked", t>> PROVE Turn(f, z)
    BY <1>2, <1>9, <2>3, TurnAt, TurnAtPrime
  <2>4. ASSUME NEW t \in Servers, z = <<"sending", t>> \/ z = <<"sent", t>> PROVE Turn(f, z)
    BY <1>9, <2>4, TurnAt, TurnAtPrime DEF servers
  <2> QED
    BY <1>9, <2>1, <2>2, <2>3, <2>4, PlacesOfTurn
<1> HIDE DEF x, y
<1> QED
  BY <1>3, <1>5, <1>8, <1>9, TurnPassed DEF NotYounger

LEMMA ServedTurn ==
  ASSUME P!TypeOK, A!TypeOK, SelectedConnected, LateGone, NEW f \in Flows,
         ProxyServesClient(f), NEW g \in Flows, FlowTurn(g)
  PROVE  FlowTurn(g)'
<1>1. /\ UNCHANGED <<nextFlow, servers>>
      /\ \A h \in Flows \ {f} : fromClient'[h] = fromClient[h]
      /\ \/ UNCHANGED fromClient
         \/ fromClient[f] # <<>> /\ fromClient'[f] = Tail(fromClient[f])
         \/ fromClient'[f] = <<>>
  BY ProxyServes DEF ServesOnly
<1>0. UNCHANGED toProxy
  BY DEF ProxyServesClient, ProxyReadsClient, ProxyLosesClient, ProxyWriteFails, ProxyReadsLate
<1>2. Fewer(Flows, fromClient[g], fromClient'[g])
  <2>1. fromClient[f] \in Seq(A!FromClientMessage)
    BY DEF A!TypeOK
  <2>3. CASE g = f
    BY <1>1, <2>1, <2>3, FewerSame, FewerTail, FewerNone
  <2>4. CASE g # f
    BY <1>1, <2>4, FewerSame
  <2> QED
    BY <2>3, <2>4
<1>3. CASE Relays(f) /\ Answers(f)
  <2>1. LessAtClient(g)
    BY <1>2, <1>3, FewerSame DEF LessAtClient, Answers
  <2>2. \A s \in Servers : LessAtServer(g, s)
    BY <1>0, <1>1, <1>3, RelaysLess
  <2> QED
    BY <1>1, <2>1, <2>2, TurnKept DEF NotYounger
<1>4. CASE g # f /\ AsksFor(f)
  <2>1. LessAtClient(g)
    BY <1>2, <1>4, FewerSame DEF LessAtClient, AsksFor
  <2>2. \A s \in Servers : LessAtServer(g, s)
    BY <1>0, <1>1, <1>4, RequestsOfOthers
  <2> QED
    BY <1>1, <2>1, <2>2, TurnKept DEF NotYounger
<1>5. ASSUME NEW msg \in P!FromClientMessage, fromClient[f] # <<>>, msg = Head(fromClient[f]),
             P!ClientOnMessage(f, msg) \/ P!LateMessage(f, msg),
             fromClient'[f] \in {Tail(fromClient[f]), <<>>}
      PROVE  FlowTurn(g)'
  <2>1. \/ Relays(f) /\ Answers(f)
        \/ msg.type \in {"download_request", "transfer_block_ack"} /\ AsksFor(f)
    BY <1>5, HandlersPassTurn
  <2>2. CASE g = f /\ msg.type \in {"download_request", "transfer_block_ack"} /\ AsksFor(f)
    BY <1>0, <1>1, <1>5, <2>2, RequestedTurn DEF PassesTurn
  <2> QED
    BY <1>3, <1>4, <2>1, <2>2
<1>6. CASE P!ClientOnClose(f)
  BY <1>3, <1>6, ClosePassesNoTurn
<1> QED
  BY <1>5, <1>6, ClientServed

LEMMA ClientSideTurn ==
  ASSUME P!TypeOK, AgentInv, AgentPlaced, SelectedConnected, LateGone, D!TypeOK,
         NEW f \in Flows, ClientSideStep(f), NEW g \in Flows, FlowTurn(g)
  PROVE  FlowTurn(g)'
<1>1. A!TypeOK
  BY DEF AgentInv
<1>2. CASE SessionDestroyed(f)
  <2>1. UNCHANGED <<nextFlow, servers, toStorage, toProxy, fromClient, toClient>>
    BY <1>2 DEF SessionDestroyed, P!Expire, P!process
  <2> QED
    BY <2>1, OtherClientTurn
<1> QED
  BY <1>1, <1>2, AgentTurn, DownloaderTurn, ConnectsTurn, ServedTurn DEF ClientSideStep

----------------------------------------------------------------------------
(* The servers.                                                            *)

LEMMA OtherDownloads ==
  ASSUME P!TypeOK, S!TypeOK, NEW s \in Servers, StorageMoves(s), NEW t \in Servers, t # s
  PROVE  downloadingContext'[t] = downloadingContext[t]
<1>1. ASSUME NEW sent, S!Exit(s, sent) PROVE downloadingContext'[t] = downloadingContext[t]
  BY <1>1 DEF S!Exit, S!TypeOK
<1>2. ASSUME NEW ctxs, NEW refs, S!SendSomeMd5PieceToProxy(s, ctxs, refs)
      PROVE  downloadingContext'[t] = downloadingContext[t]
  BY <1>2 DEF S!SendSomeMd5PieceToProxy, S!TypeOK
<1>3. CASE ServerConnects(s)
  BY <1>3 DEF ServerConnects, S!OnConnection
<1>4. CASE StorageReads(s)
  BY <1>1, <1>2, <1>4 DEF StorageReads, StorageHandles, S!OnUploadBlock, S!ReceivePiece,
     S!RejectBlock, S!StoreBlock, S!OnDownLoadBlock, S!ExitOnDownLoadBlock, S!OnClientClean,
     S!TypeOK
<1>5. CASE StorageWrote(s)
  BY <1>2, <1>5 DEF StorageWrote, S!OnWriteComplete, S!memory
<1>6. CASE StorageLosesProxy(s) \/ StorageDies(s)
  BY <1>1, <1>6 DEF StorageLosesProxy, S!OnClose, StorageDies, S!Crash, S!CrashWhileStoring
<1>7. CASE ProxyStorageStep(s)
  BY <1>7 DEF ProxyStorageStep, ProxyReadsStorage, ProxyLosesStorage, servers
<1> QED
  BY <1>3, <1>4, <1>5, <1>6, <1>7 DEF StorageMoves, StorageStep

LEMMA OtherServersTurn ==
  ASSUME P!TypeOK, S!TypeOK, NEW s \in Servers, StorageMoves(s), NEW g \in Flows
  PROVE  \A t \in Servers \ {s} : LessAtServer(g, t)
<1> SUFFICES ASSUME NEW t \in Servers \ {s} PROVE LessAtServer(g, t)
  OBVIOUS
<1>1. downloadingContext'[t] = downloadingContext[t] /\ toStorage'[t] = toStorage[t]
  BY OtherDownloads, StorageMovesOnly
<1>2. toProxy'[t] = toProxy[t]
  BY OtherServers DEF SameServer
<1> QED
  BY <1>1, <1>2, FewerSame DEF LessAtServer

(* Within one server, the turn of a flow goes on. *)
LEMMA ServerPassesTurn ==
  ASSUME NEW g \in Flows, FlowTurn(g), LessAtClient(g), NotYounger(g), NEW s \in Servers,
         \A t \in Servers \ {s} : LessAtServer(g, t),
         Once({g}, toStorage'[s]), Once({g}, toProxy'[s]),
         NEW a \in {"asked", "sending"}, NEW b \in {"sending", "sent"}, a # b,
         Turn(g, <<a, s>>), ~Turn(g, <<a, s>>)',
         \A c \in {"asked", "sending", "sent"} \ {b} : Turn(g, <<c, s>>)' => Turn(g, <<c, s>>)
  PROVE  FlowTurn(g)'
<1>1. <<a, s>> \in TurnPlaces(g) /\ <<b, s>> \in TurnPlaces(g)
  BY PlacesOfTurn
<1>2. Onces(g)'
  <2>1. \A t \in Servers : Once({g}, toStorage'[t]) /\ Once({g}, toProxy'[t])
    BY DEF FlowTurn, OneTurn, LessAtServer, Fewer
  <2>2. Once(Flows, fromClient'[g]) /\ Once(Flows, toClient'[g])
    BY DEF FlowTurn, OneTurn, LessAtClient, Fewer
  <2> QED
    BY <2>1, <2>2 DEF Onces, Once
<1>3. ASSUME NEW z \in TurnPlaces(g), z # <<b, s>>, Turn(g, z)' PROVE Turn(g, z)
  <2>1. CASE z = <<"asking", g>> \/ z = <<"told", g>>
    BY <1>3, <2>1, TurnAt, TurnAtPrime DEF LessAtClient, Fewer
  <2>2. ASSUME NEW t \in Servers,
               z = <<"asked", t>> \/ z = <<"sending", t>> \/ z = <<"sent", t>>
        PROVE  Turn(g, z)
    <3>1. CASE t = s
      BY <1>3, <2>2, <3>1
    <3>2. CASE t # s
      <4>1. LessAtServer(g, t)
        BY <3>2
      <4> QED
        BY <1>3, <2>2, <4>1, TurnAt, TurnAtPrime DEF LessAtServer, Fewer
    <3> QED
      BY <3>1, <3>2
  <2> QED
    BY <1>3, <2>1, <2>2, PlacesOfTurn
<1> QED
  BY <1>1, <1>2, <1>3, TurnPassed

(* A server sends a piece: not the last one for g, or g's download is over. *)
LEMMA PieceSent ==
  ASSUME S!TypeOK, NEW s \in Servers, NEW ctxs \in [Flows -> S!DownloadContext], NEW refs,
         S!SendSomeMd5PieceToProxy(s, ctxs, refs), NEW g \in Flows
  PROVE  \E msg : /\ toProxy'[s] = Append(toProxy[s], msg)
                  /\ \/ /\ ~PassesTurn({g}, msg)
                        /\ downloadingContext'[s][g] = S!NoDownload <=> ctxs[g] = S!NoDownload
                     \/ ctxs[g] # S!NoDownload /\ downloadingContext'[s][g] = S!NoDownload
<1>1. PICK f \in Flows : \E content :
        LET eof == ctxs[f].index + 1 >= file[s][ctxs[f].md5] IN
        /\ S!FirstFlow(ctxs, f)
        /\ S!Send(s, S!TransferBlock(ctxs[f].md5, ctxs[f].index, eof, f, content))
        /\ downloadingContext' = [downloadingContext EXCEPT
             ![s] = [ctxs EXCEPT ![f] = S!Advanced(ctxs[f], eof)]]
  BY DEF S!SendSomeMd5PieceToProxy
<1> DEFINE eof == ctxs[f].index + 1 >= file[s][ctxs[f].md5]
<1>0. PICK content :
        /\ S!FirstFlow(ctxs, f)
        /\ S!Send(s, S!TransferBlock(ctxs[f].md5, ctxs[f].index, eof, f, content))
        /\ downloadingContext' = [downloadingContext EXCEPT
             ![s] = [ctxs EXCEPT ![f] = S!Advanced(ctxs[f], eof)]]
  BY <1>1
<1> DEFINE msg == S!TransferBlock(ctxs[f].md5, ctxs[f].index, eof, f, content)
<1> HIDE DEF eof
<1>2. toProxy'[s] = Append(toProxy[s], msg)
  BY <1>0 DEF S!Send, S!TypeOK
<1>3. downloadingContext'[s][g] = IF g = f THEN S!Advanced(ctxs[f], eof) ELSE ctxs[g]
  BY <1>0 DEF S!TypeOK
<1>4. ctxs[f] # S!NoDownload
  BY <1>0 DEF S!FirstFlow, S!Downloading
<1>5. PassesTurn({g}, msg) => eof /\ f = g
  BY DEF PassesTurn, S!TransferBlock
<1>6. CASE eof /\ f = g
  BY <1>2, <1>3, <1>4, <1>6 DEF S!Advanced
<1>7. CASE ~(eof /\ f = g)
  <2>1. downloadingContext'[s][g] = S!NoDownload <=> ctxs[g] = S!NoDownload
    <3>1. CASE f # g
      BY <1>3, <3>1
    <3>2. CASE f = g
      <4>1. downloadingContext'[s][g] = [md5 |-> ctxs[f].md5, index |-> ctxs[f].index + 1]
        BY <1>3, <1>7, <3>2 DEF S!Advanced
      <4>2. ctxs[f] \in [md5 : Md5s, index : Nat]
        BY <1>4 DEF S!DownloadContext
      <4>3. downloadingContext'[s][g].index # 0
        BY <4>1, <4>2
      <4>4. S!NoDownload.index = 0
        BY DEF S!NoDownload
      <4> QED
        BY <1>4, <3>2, <4>3, <4>4
    <3> QED
      BY <3>1, <3>2
  <2> QED
    BY <1>2, <1>5, <1>7, <2>1
<1> QED
  BY <1>6, <1>7

LEMMA PieceTurn ==
  ASSUME S!TypeOK, NEW s \in Servers, NEW ctxs \in [Flows -> S!DownloadContext], NEW refs,
         S!SendSomeMd5PieceToProxy(s, ctxs, refs), NEW g \in Flows, FlowTurn(g),
         LessAtClient(g), NotYounger(g), \A t \in Servers \ {s} : LessAtServer(g, t),
         Fewer({g}, toStorage[s], toStorage'[s]),
         \/ ctxs[g] = downloadingContext[s][g]
         \/ Holds({g}, toStorage[s]) /\ ~Holds({g}, toStorage'[s])
  PROVE  FlowTurn(g)'
<1>1. PICK msg : /\ toProxy'[s] = Append(toProxy[s], msg)
                 /\ \/ /\ ~PassesTurn({g}, msg)
                       /\ downloadingContext'[s][g] = S!NoDownload <=> ctxs[g] = S!NoDownload
                    \/ ctxs[g] # S!NoDownload /\ downloadingContext'[s][g] = S!NoDownload
  BY PieceSent
<1>2. toProxy[s] \in Seq(S!StorageMessage)
  BY DEF S!TypeOK
<1>3. /\ Once({g}, toStorage[s]) /\ Once({g}, toProxy[s]) /\ Once({g}, toStorage'[s])
      /\ \A x, y \in TurnPlaces(g) : Turn(g, x) /\ Turn(g, y) => x = y
  BY DEF FlowTurn, OneTurn, Fewer
<1>4. /\ <<"asked", s>> \in TurnPlaces(g) /\ <<"sending", s>> \in TurnPlaces(g)
      /\ <<"sent", s>> \in TurnPlaces(g)
  BY PlacesOfTurn
(* The server had begun, or begins. *)
<1>5. CASE ctxs[g] = downloadingContext[s][g]
  <2>1. CASE /\ ~PassesTurn({g}, msg)
             /\ downloadingContext'[s][g] = S!NoDownload <=> ctxs[g] = S!NoDownload
    <3>1. Fewer({g}, toProxy[s], toProxy'[s])
      BY <1>1, <1>2, <2>1, FewerAppend
    <3>2. LessAtServer(g, s)
      BY <1>5, <2>1, <3>1 DEF LessAtServer
    <3> QED
      BY <3>2, TurnKept
  <2>2. CASE ctxs[g] # S!NoDownload /\ downloadingContext'[s][g] = S!NoDownload
    <3>1. Turn(g, <<"sending", s>>) /\ ~Turn(g, <<"sending", s>>)'
      BY <1>5, <2>2, TurnAt, TurnAtPrime
    <3>2. ~Turn(g, <<"sent", s>>)
      BY <1>3, <1>4, <3>1
    <3>3. Once({g}, toProxy'[s])
      <4>1. ~Holds({g}, toProxy[s])
        BY <3>2, TurnAt
      <4> QED
        BY <1>1, <1>2, <4>1, FewerAppend
    <3>4. Turn(g, <<"asked", s>>)' => Turn(g, <<"asked", s>>)
      BY TurnAt, TurnAtPrime DEF Fewer
    <3> QED
      BY <1>3, <3>1, <3>3, <3>4, ServerPassesTurn
  <2> QED
    BY <1>1, <2>1, <2>2
<1>6. CASE Holds({g}, toStorage[s]) /\ ~Holds({g}, toStorage'[s])
  <2>1. Turn(g, <<"asked", s>>) /\ ~Turn(g, <<"asked", s>>)'
    BY <1>6, TurnAt, TurnAtPrime
  <2>2. ~Turn(g, <<"sent", s>>) /\ ~Turn(g, <<"sending", s>>)
    BY <1>3, <1>4, <2>1
  <2>3. ~Holds({g}, toProxy[s])
    BY <2>2, TurnAt
  <2>4. Once({g}, toProxy'[s])
    BY <1>1, <1>2, <2>3, FewerAppend
  <2>5. CASE /\ ~PassesTurn({g}, msg)
             /\ downloadingContext'[s][g] = S!NoDownload <=> ctxs[g] = S!NoDownload
    <3>1. Fewer({g}, toProxy[s], toProxy'[s])
      BY <1>1, <1>2, <2>5, FewerAppend
    <3>2. Turn(g, <<"sent", s>>)' => Turn(g, <<"sent", s>>)
      BY <3>1, TurnAt, TurnAtPrime DEF Fewer
    <3> QED
      BY <1>3, <2>1, <2>4, <3>2, ServerPassesTurn
  <2>6. CASE ctxs[g] # S!NoDownload /\ downloadingContext'[s][g] = S!NoDownload
    <3>1. ~Turn(g, <<"sending", s>>)'
      BY <2>6, TurnAtPrime
    <3> QED
      BY <1>3, <2>1, <2>4, <3>1, ServerPassesTurn
  <2> QED
    BY <1>1, <2>5, <2>6
<1> QED
  BY <1>5, <1>6

(* Whatever else a server does passes no turn. *)
LEMMA ExitTurn ==
  ASSUME S!TypeOK, NEW s \in Servers, S!Exit(s, toProxy[s]), NEW g \in Flows,
         Fewer({g}, toStorage[s], toStorage'[s])
  PROVE  LessAtServer(g, s)
<1>1. /\ toProxy[s] \in Seq(S!StorageMessage)
      /\ \E n \in 0 .. Len(toProxy[s]) : toProxy'[s] = SubSeq(toProxy[s], 1, n)
      /\ downloadingContext'[s][g] = S!NoDownload
  BY DEF S!Exit, S!TypeOK
<1>2. Fewer({g}, toProxy[s], toProxy'[s])
  BY <1>1, FewerPart
<1> QED
  BY <1>1, <1>2 DEF LessAtServer

LEMMA SaysNoTurn ==
  ASSUME S!TypeOK, NEW s \in Servers, NEW g \in Flows, NEW msg, S!Send(s, msg),
         msg.type # "transfer_block", msg.type \notin {"download_request", "transfer_block_ack"},
         msg.type # "download_block"
  PROVE  Fewer({g}, toProxy[s], toProxy'[s])
<1>1. /\ toProxy[s] \in Seq(S!StorageMessage) /\ toProxy'[s] = Append(toProxy[s], msg)
      /\ ~PassesTurn({g}, msg)
  BY DEF S!Send, S!TypeOK, PassesTurn
<1> QED
  BY <1>1, FewerAppend

LEMMA AnnouncesNoTurn ==
  ASSUME S!TypeOK, NEW s \in Servers, NEW g \in Flows, NEW left, S!SendSomeMd5sToProxy(s, left)
  PROVE  Fewer({g}, toProxy[s], toProxy'[s])
<1>1. PICK chunk : S!Send(s, S!TransferBlockSet(chunk, chunk = left))
  BY DEF S!SendSomeMd5sToProxy
<1>2. S!TransferBlockSet(chunk, chunk = left).type = "transfer_block_set"
  BY DEF S!TransferBlockSet
<1> QED
  BY <1>1, <1>2, SaysNoTurn

LEMMA QuietServerTurn ==
  ASSUME P!TypeOK, S!TypeOK, NEW s \in Servers, NEW g \in Flows,
         ServerConnects(s) \/ StorageLosesProxy(s) \/ StorageDies(s)
  PROVE  LessAtServer(g, s)
<1>1. CASE ServerConnects(s)
  <2>1. toStorage'[s] = <<>> /\ UNCHANGED downloadingContext
        /\ S!SendSomeMd5sToProxy(s, md5_path[s])
    BY <1>1 DEF ServerConnects, P!StorageOnConnection, S!OnConnection, P!TypeOK
  <2> QED
    BY <2>1, FewerNone, AnnouncesNoTurn DEF LessAtServer
<1>2. CASE StorageLosesProxy(s)
  <2>1. toProxy'[s] = <<>> /\ toStorage'[s] = toStorage[s]
    BY <1>2 DEF StorageLosesProxy
  <2>2. \E sent : S!Exit(s, sent)
    BY <1>2 DEF StorageLosesProxy, S!OnClose
  <2>3. downloadingContext'[s][g] = S!NoDownload
    BY <2>2 DEF S!Exit, S!TypeOK
  <2> QED
    BY <2>1, <2>3, FewerNone, FewerSame DEF LessAtServer
<1>3. CASE StorageDies(s)
  <2>1. S!Exit(s, toProxy[s]) /\ toStorage'[s] = toStorage[s]
    BY <1>3 DEF StorageDies, S!Crash, S!CrashWhileStoring
  <2> QED
    BY <2>1, FewerSame, ExitTurn
<1> QED
  BY <1>1, <1>2, <1>3

(* A server reads a message: the request for a block, or another. *)
LEMMA UploadReadTurn ==
  ASSUME S!TypeOK, NEW s \in Servers, NEW g \in Flows, NEW msg, S!OnUploadBlock(s, msg),
         Fewer({g}, toStorage[s], toStorage'[s])
  PROVE  LessAtServer(g, s)
<1>1. UNCHANGED downloadingContext
  BY DEF S!OnUploadBlock, S!ReceivePiece, S!RejectBlock, S!StoreBlock
<1>2. Fewer({g}, toProxy[s], toProxy'[s])
  <2>1. CASE UNCHANGED toProxy
    BY <2>1, FewerSame
  <2>2. ASSUME NEW m, S!Send(s, S!UploadBlockAck(m)) \/ S!Send(s, S!UploadBlockFail(m))
        PROVE  Fewer({g}, toProxy[s], toProxy'[s])
    <3>1. /\ S!UploadBlockAck(m).type = "upload_block_ack"
          /\ S!UploadBlockFail(m).type = "upload_block_fail"
      BY DEF S!UploadBlockAck, S!UploadBlockFail
    <3> QED
      BY <2>2, <3>1, SaysNoTurn
  <2> QED
    BY <2>1, <2>2 DEF S!OnUploadBlock, S!ReceivePiece, S!RejectBlock, S!StoreBlock
<1> QED
  BY <1>1, <1>2 DEF LessAtServer

LEMMA CleanReadTurn ==
  ASSUME S!TypeOK, NEW s \in Servers, NEW g \in Flows, NEW msg, S!OnClientClean(s, msg),
         Fewer({g}, toStorage[s], toStorage'[s])
  PROVE  LessAtServer(g, s)
<1>1. downloadingContext'[s][g] # S!NoDownload => downloadingContext[s][g] # S!NoDownload
  BY DEF S!OnClientClean, S!Cleaned, S!TypeOK
<1>2. UNCHANGED toProxy
  BY DEF S!OnClientClean
<1> QED
  BY <1>1, <1>2, FewerSame DEF LessAtServer

LEMMA RequestReadTurn ==
  ASSUME P!TypeOK, S!TypeOK, NEW s \in Servers, toStorage[s] # <<>>,
         NEW msg, msg = Head(toStorage[s]), msg.type = "download_block",
         S!OnDownLoadBlock(s, msg), toStorage'[s] = Tail(toStorage[s]),
         NEW g \in Flows, FlowTurn(g), LessAtClient(g), NotYounger(g),
         \A t \in Servers \ {s} : LessAtServer(g, t)
  PROVE  FlowTurn(g)'
<1>1. toStorage[s] \in Seq(P!ToStorageMessage) /\ msg \in P!ToStorageMessage
  BY DEF P!TypeOK
<1>2. msg.md5 \in Md5s /\ msg.flow_id \in Flows
  BY <1>1 DEF P!ToStorageMessage, P!UploadBlockMessage, P!DownLoadBlockMessage,
              P!ClientCleanMessage
<1> DEFINE ctxs == [downloadingContext[s] EXCEPT ![msg.flow_id] = [md5 |-> msg.md5, index |-> 0]]
           refs == [downloadingMd5s[s] EXCEPT ![msg.md5] = @ + 1]
<1>3. S!SendSomeMd5PieceToProxy(s, ctxs, refs)
  BY DEF S!OnDownLoadBlock
<1>4. ctxs \in [Flows -> S!DownloadContext]
  <2>1. downloadingContext[s] \in [Flows -> S!DownloadContext]
    BY DEF S!TypeOK
  <2>2. [md5 |-> msg.md5, index |-> 0] \in S!DownloadContext
    BY <1>2 DEF S!DownloadContext
  <2> QED
    BY <1>2, <2>1, <2>2
<1>5. Fewer({g}, toStorage[s], toStorage'[s])
  BY <1>1, FewerTail
<1>6. \/ ctxs[g] = downloadingContext[s][g]
      \/ Holds({g}, toStorage[s]) /\ ~Holds({g}, toStorage'[s])
  <2>1. CASE msg.flow_id = g
    <3>1. PassesTurn({g}, msg) /\ Once({g}, toStorage[s])
      BY <2>1 DEF PassesTurn, FlowTurn, OneTurn
    <3> QED
      BY <1>1, <3>1, FewerTail
  <2>2. CASE msg.flow_id # g
    BY <2>2 DEF S!TypeOK
  <2> QED
    BY <2>1, <2>2
<1> HIDE DEF ctxs, refs
<1> QED
  BY <1>3, <1>4, <1>5, <1>6, PieceTurn

LEMMA ServerTurn ==
  ASSUME P!TypeOK, S!TypeOK, NEW s \in Servers, StorageMoves(s), ~ProxyStorageStep(s),
         NEW g \in Flows, FlowTurn(g)
  PROVE  FlowTurn(g)'
<1>1. \A t \in Servers \ {s} : LessAtServer(g, t)
  BY OtherServersTurn
<1>2. UNCHANGED <<fromClient, nextFlow>>
  BY StorageMovesOnly
<1>3. UNCHANGED toClient
  BY DEF StorageMoves, StorageStep, StorageDies, StorageReads, StorageWrote, StorageLosesProxy,
         ServerConnects, P!StorageOnConnection
<1>4. LessAtClient(g) /\ NotYounger(g)
  BY <1>2, <1>3, FewerSame DEF LessAtClient, NotYounger
<1>5. ASSUME LessAtServer(g, s) PROVE FlowTurn(g)'
  BY <1>1, <1>4, <1>5, TurnKept
<1>6. CASE ServerConnects(s) \/ StorageLosesProxy(s) \/ StorageDies(s)
  BY <1>5, <1>6, QuietServerTurn
<1>7. CASE StorageReads(s)
  <2> DEFINE msg == Head(toStorage[s])
  <2>1. toStorage[s] # <<>> /\ StorageHandles(s, msg) /\ toStorage'[s] = Tail(toStorage[s])
    BY <1>7 DEF StorageReads, P!TypeOK
  <2>2. toStorage[s] \in Seq(P!ToStorageMessage)
    BY DEF P!TypeOK
  <2>3. Fewer({g}, toStorage[s], toStorage'[s])
    BY <2>1, <2>2, FewerTail
  <2>4. CASE S!OnUploadBlock(s, msg) \/ S!OnClientClean(s, msg)
    BY <1>5, <2>3, <2>4, UploadReadTurn, CleanReadTurn
  <2>5. CASE S!ExitOnDownLoadBlock(s, msg)
    BY <1>5, <2>3, <2>5, ExitTurn DEF S!ExitOnDownLoadBlock
  <2>6. CASE msg.type = "download_block" /\ S!OnDownLoadBlock(s, msg)
    BY <1>1, <1>4, <2>1, <2>6, RequestReadTurn
  <2> QED
    BY <2>1, <2>4, <2>5, <2>6 DEF StorageHandles
<1>8. CASE StorageWrote(s)
  <2>1. toStorage'[s] = toStorage[s] /\ S!OnWriteComplete(s)
    BY <1>8 DEF StorageWrote
  <2>2. Fewer({g}, toStorage[s], toStorage'[s])
    BY <2>1, FewerSame
  <2>3. CASE S!SendSomeMd5sToProxy(s, transferingMd5s[s]) /\ UNCHANGED downloadingContext
    BY <1>5, <2>2, <2>3, AnnouncesNoTurn DEF LessAtServer
  <2>4. CASE S!SendSomeMd5PieceToProxy(s, downloadingContext[s], downloadingMd5s[s])
    <3>1. downloadingContext[s] \in [Flows -> S!DownloadContext]
      BY DEF S!TypeOK
    <3> QED
      BY <1>1, <1>4, <2>2, <2>4, <3>1, PieceTurn
  <2>5. CASE UNCHANGED <<S!memory, toProxy>>
    BY <1>5, <2>2, <2>5, FewerSame DEF LessAtServer, S!memory
  <2> QED
    BY <2>1, <2>3, <2>4, <2>5 DEF S!OnWriteComplete
<1> QED
  BY <1>6, <1>7, <1>8 DEF StorageMoves, StorageStep

----------------------------------------------------------------------------
(* The proxy and a server's message.                                       *)

LEMMA CallsBackNoTurn ==
  ASSUME P!TypeOK, NEW g \in Flows, NEW called, NEW succ, NEW md5, P!CallBack(called, succ, md5)
  PROVE  Fewer(Flows, toClient[g], toClient'[g])
<1>1. toClient[g] \in Seq(P!ClientMessage) /\ ~PassesTurn(Flows, P!Reply(succ, md5[g]))
  BY DEF P!TypeOK, PassesTurn, P!Reply, P!UploadBlockAck, P!UploadBlockFail
<1>2. \/ toClient'[g] = toClient[g]
      \/ toClient'[g] = Append(toClient[g], P!Reply(succ, md5[g]))
  BY DEF P!CallBack
<1> QED
  BY <1>1, <1>2, FewerSame, FewerAppend

(* The last piece goes on to its client, if it is there. *)
LEMMA ToldTurn ==
  ASSUME P!TypeOK, S!TypeOK, NEW s \in Servers, toProxy[s] # <<>>, toProxy'[s] = Tail(toProxy[s]),
         \A t \in Servers \ {s} : toProxy'[t] = toProxy[t],
         NEW g \in Flows, FlowTurn(g), PassesTurn({g}, Head(toProxy[s])),
         toClient'[g] = Append(toClient[g], Head(toProxy[s])),
         UNCHANGED <<fromClient, nextFlow, servers, toStorage>>
  PROVE  FlowTurn(g)'
<1>1. toProxy[s] \in Seq(S!StorageMessage) /\ toClient[g] \in Seq(P!ClientMessage)
  BY DEF S!TypeOK, P!TypeOK
<1> DEFINE x == <<"sent", s>>
           y == <<"told", g>>
<1>2. x \in TurnPlaces(g) /\ y \in TurnPlaces(g) /\ x # y
  BY PlacesOfTurn
<1>3. /\ Fewer({g}, toProxy[s], toProxy'[s])
      /\ Holds({g}, toProxy[s]) /\ ~Holds({g}, toProxy'[s])
  BY <1>1, FewerTail DEF FlowTurn, OneTurn
<1>4. Turn(g, x) /\ ~Turn(g, x)'
  BY <1>3, TurnAt, TurnAtPrime
<1>5. ~Holds(Flows, toClient[g])
  BY <1>2, <1>4, TurnElsewhere, TurnAt
<1>6. Once(Flows, toClient'[g])
  BY <1>1, <1>5, FewerAppend
<1>7. Onces(g)'
  <2>1. \A t \in Servers : Once({g}, toStorage'[t]) /\ Once({g}, toProxy'[t])
    BY <1>3 DEF FlowTurn, OneTurn, Fewer
  <2>2. Once(Flows, fromClient'[g]) /\ Once(Flows, toClient'[g])
    BY <1>6 DEF FlowTurn, OneTurn
  <2> QED
    BY <2>1, <2>2 DEF Onces, Once
<1>8. ASSUME NEW z \in TurnPlaces(g), z # y, Turn(g, z)' PROVE Turn(g, z)
  <2>1. CASE z = x
    BY <1>4, <2>1
  <2>2. CASE z = <<"asking", g>>
    BY <1>8, <2>2, TurnAt, TurnAtPrime
  <2>3. ASSUME NEW t \in Servers, z = <<"asked", t>> \/ z = <<"sending", t>> PROVE Turn(g, z)
    BY <1>8, <2>3, TurnAt, TurnAtPrime DEF servers
  <2>4. ASSUME NEW t \in Servers, t # s, z = <<"sent", t>> PROVE Turn(g, z)
    BY <1>8, <2>4, TurnAt, TurnAtPrime
  <2> QED
    BY <1>8, <2>1, <2>2, <2>3, <2>4, PlacesOfTurn
<1> HIDE DEF x, y
<1> QED
  BY <1>2, <1>4, <1>7, <1>8, TurnPassed DEF NotYounger

LEMMA HeardTurn ==
  ASSUME P!TypeOK, S!TypeOK, NEW s \in Servers, ProxyStorageStep(s), NEW g \in Flows, FlowTurn(g)
  PROVE  FlowTurn(g)'
<1>1. /\ UNCHANGED <<servers, fromClient, nextFlow>>
      /\ P!StorageOnClose(s) \/ UNCHANGED toStorage
  BY ProxyHears DEF ProxyStorageStep
<1>2. \A t \in Servers \ {s} : LessAtServer(g, t)
  BY OtherServersTurn DEF StorageMoves
<1>3. toProxy[s] \in Seq(S!StorageMessage) /\ toStorage[s] \in Seq(P!ToStorageMessage)
  BY DEF S!TypeOK, P!TypeOK
<1>4. LessAtServer(g, s)
  <2>1. Fewer({g}, toStorage[s], toStorage'[s])
    <3>1. CASE P!StorageOnClose(s)
      <4>1. \E n \in 0 .. Len(toStorage[s]) : toStorage'[s] = SubSeq(toStorage[s], 1, n)
        BY <3>1, StorageClosed DEF P!TypeOK
      <4> QED
        BY <1>3, <4>1, FewerPart
    <3> QED
      BY <1>1, <3>1, FewerSame
  <2>2. Fewer({g}, toProxy[s], toProxy'[s])
    <3>1. toProxy'[s] = toProxy[s] \/ (toProxy[s] # <<>> /\ toProxy'[s] = Tail(toProxy[s]))
      BY DEF ProxyStorageStep, ProxyReadsStorage, ProxyLosesStorage, S!TypeOK
    <3> QED
      BY <1>3, <3>1, FewerSame, FewerTail
  <2> QED
    BY <1>1, <2>1, <2>2 DEF LessAtServer, servers
<1>5. ASSUME Fewer(Flows, toClient[g], toClient'[g]) PROVE FlowTurn(g)'
  <2>1. LessAtClient(g) /\ NotYounger(g)
    BY <1>1, <1>5, FewerSame DEF LessAtClient, NotYounger
  <2> QED
    BY <1>2, <1>4, <2>1, TurnKept
<1>6. CASE P!StorageOnClose(s)
  BY <1>5, <1>6, CallsBackNoTurn DEF P!StorageOnClose, P!HandleRemainEvent
<1>7. CASE ProxyReadsStorage(s) /\ ~P!StorageOnClose(s)
  <2> DEFINE msg == Head(toProxy[s])
  <2>1. /\ toProxy[s] # <<>> /\ toProxy'[s] = Tail(toProxy[s])
        /\ P!StorageOnMessage(s, msg) /\ \A t \in Servers \ {s} : toProxy'[t] = toProxy[t]
    BY <1>7 DEF ProxyReadsStorage, S!TypeOK
  <2>2. CASE P!HandleTransferBlockSet(s, msg) \/ P!NamelessFail(s, msg)
    BY <1>5, <2>2, FewerSame DEF P!HandleTransferBlockSet, P!NamelessFail, P!Dies
  <2>3. CASE P!HandleUploadBlockAck(s, msg) \/ P!HandleUploadBlockFail(s, msg)
    BY <1>5, <2>3, CallsBackNoTurn DEF P!HandleUploadBlockAck, P!HandleUploadBlockFail
  <2>4. CASE P!HandleTransferBlock(s, msg)
    <3>1. /\ msg.type = "transfer_block" /\ toClient[g] \in Seq(P!ClientMessage)
          /\ \/ toClient'[g] = toClient[g]
             \/ msg.flow_id = g /\ toClient'[g] = Append(toClient[g], msg)
      BY <2>4 DEF P!HandleTransferBlock, P!TypeOK
    <3>2. CASE toClient'[g] = toClient[g]
      BY <1>5, <3>2, FewerSame
    <3>3. CASE msg.flow_id = g /\ toClient'[g] = Append(toClient[g], msg) /\ ~msg.eof
      <4>1. ~PassesTurn(Flows, msg)
        BY <3>1, <3>3 DEF PassesTurn
      <4> QED
        BY <1>5, <3>1, <3>3, <4>1, FewerAppend
    <3>4. CASE msg.flow_id = g /\ toClient'[g] = Append(toClient[g], msg) /\ msg.eof
      <4>1. PassesTurn({g}, msg)
        BY <3>1, <3>4 DEF PassesTurn
      <4>2. UNCHANGED toStorage
        BY <1>1, <1>7
      <4> QED
        BY <1>1, <2>1, <3>4, <4>1, <4>2, ToldTurn
    <3> QED
      BY <3>1, <3>2, <3>3, <3>4
  <2> QED
    BY <1>7, <2>1, <2>2, <2>3, <2>4 DEF P!StorageOnMessage, P!StorageMessageError
<1> QED
  BY <1>6, <1>7 DEF ProxyStorageStep, ProxyLosesStorage

----------------------------------------------------------------------------
(* Every step keeps the turns.                                             *)

LEMMA TurnNext == SystemInv /\ UploadInv /\ TurnInv /\ [Next]_vars => TurnInv'
<1> SUFFICES ASSUME SystemInv, UploadInv, TurnInv, [Next]_vars, NEW g \in Flows
             PROVE  FlowTurn(g)'
  BY DEF TurnInv
<1>1. /\ P!TypeOK /\ S!TypeOK /\ D!TypeOK /\ AgentInv /\ AgentPlaced /\ FlowTurn(g)
      /\ SelectedConnected /\ LateGone
  BY SystemTypes, SystemLate DEF SystemInv, UploadInv, TurnInv, TypeOK
<1>2. ASSUME NEW s \in Servers, StorageMoves(s) PROVE FlowTurn(g)'
  BY <1>1, <1>2, ServerTurn, HeardTurn
<1>3. ASSUME NEW f \in Flows, ClientSideStep(f) PROVE FlowTurn(g)'
  BY <1>1, <1>3, ClientSideTurn
<1>4. CASE UNCHANGED vars
  <2>1. UNCHANGED <<nextFlow, servers, toStorage, toProxy, fromClient, toClient>>
    BY <1>4 DEF vars, proxy
  <2> QED
    BY <1>1, <2>1, OtherClientTurn
<1> QED
  BY <1>2, <1>3, <1>4, StepKinds

LEMMA TurnInit == Init => TurnInv
<1> SUFFICES ASSUME Init, NEW f \in Flows PROVE FlowTurn(f)
  BY DEF TurnInv
<1>1. /\ fromClient[f] = <<>> /\ toClient[f] = <<>>
      /\ \A s \in Servers : /\ toStorage[s] = <<>> /\ toProxy[s] = <<>>
                            /\ downloadingContext[s][f] = S!NoDownload
  BY DEF Init, P!Init, S!Init, D!Init
<1>2. ASSUME NEW F PROVE ~Holds(F, <<>>) /\ Once(F, <<>>)
  BY DEF Holds, Once
<1>3. ASSUME NEW x \in TurnPlaces(f) PROVE ~Turn(f, x)
  <2>1. CASE x = <<"asking", f>> \/ x = <<"told", f>>
    BY <1>1, <1>2, <2>1, TurnAt
  <2>2. ASSUME NEW s \in Servers,
               x = <<"asked", s>> \/ x = <<"sending", s>> \/ x = <<"sent", s>>
        PROVE  ~Turn(f, x)
    BY <1>1, <1>2, <2>2, TurnAt
  <2> QED
    BY <2>1, <2>2, PlacesOfTurn
<1> QED
  BY <1>1, <1>2, <1>3 DEF FlowTurn, OneTurn

----------------------------------------------------------------------------
(* The proxy asks a server for what it stores.                             *)

LEMMA PathsGrow ==
  ASSUME P!TypeOK, S!TypeOK, [Next]_vars, NEW t \in Servers
  PROVE  md5_path[t] \subseteq md5_path'[t]
<1>1. CASE UNCHANGED md5_path
  BY <1>1
<1>2. ASSUME NEW s \in Servers, NEW msg, StoresBlock(s, msg)
      PROVE  md5_path[t] \subseteq md5_path'[t]
  <2>1. md5_path' = [md5_path EXCEPT ![s] = md5_path[s] \cup {msg.md5}]
    BY <1>2 DEF StoresBlock, S!StoreBlock, S!CrashWhileStoring
  <2> QED
    BY <2>1 DEF S!TypeOK
<1>3. ASSUME NEW s \in Servers, StorageMoves(s) PROVE md5_path[t] \subseteq md5_path'[t]
  BY <1>1, <1>2, <1>3, DiskSteps
<1>4. ASSUME NEW f \in Flows, ClientSideStep(f) PROVE UNCHANGED md5_path
  BY <1>4, ClientSideServers DEF servers
<1>5. CASE UNCHANGED vars
  BY <1>1, <1>5 DEF vars, servers
<1> QED
  BY <1>1, <1>3, <1>4, <1>5, StepKinds

(* What the server is sent more is something else, or a block it stores. *)
LEMMA AskedKept ==
  ASSUME P!TypeOK, NEW s \in Servers, AskedStored(s), md5_path[s] \subseteq md5_path'[s],
         \/ toStorage'[s] \in {toStorage[s], <<>>}
         \/ toStorage[s] # <<>> /\ toStorage'[s] = Tail(toStorage[s])
         \/ \E n \in 0 .. Len(toStorage[s]) : toStorage'[s] = SubSeq(toStorage[s], 1, n)
         \/ \E msg : /\ toStorage'[s] = Append(toStorage[s], msg)
                     /\ msg.type = "download_block" => msg.md5 \in md5_path[s]
  PROVE  AskedStored(s)'
<1> DEFINE q == toStorage[s]
           Stored(msg) == msg.type = "download_block" => msg.md5 \in md5_path[s]
<1>1. q \in Seq(P!ToStorageMessage) /\ \A i \in DOMAIN q : Stored(q[i])
  BY DEF P!TypeOK, AskedStored
<1> HIDE DEF Stored
<1>2. CASE toStorage'[s] \in {q, <<>>}
  BY <1>1, <1>2 DEF AskedStored, Stored
<1>3. CASE q # <<>> /\ toStorage'[s] = Tail(q)
  <2>1. \A i \in DOMAIN Tail(q) : Tail(q)[i] = q[i + 1] /\ i + 1 \in DOMAIN q
    BY <1>1, <1>3
  <2>2. \A i \in DOMAIN toStorage'[s] : Stored(toStorage'[s][i])
    BY <1>1, <1>3, <2>1
  <2> QED
    BY <2>2 DEF AskedStored, Stored
<1>4. CASE \E n \in 0 .. Len(q) : toStorage'[s] = SubSeq(q, 1, n)
  <2>1. \A i \in DOMAIN toStorage'[s] : i \in DOMAIN q /\ toStorage'[s][i] = q[i]
    BY <1>1, <1>4
  <2> QED
    BY <1>1, <2>1 DEF AskedStored, Stored
<1>5. CASE \E msg : toStorage'[s] = Append(q, msg) /\ Stored(msg)
  <2>1. PICK msg : toStorage'[s] = Append(q, msg) /\ Stored(msg)
    BY <1>5
  <2>2. \A i \in DOMAIN Append(q, msg) :
          Append(q, msg)[i] = msg \/ (i \in DOMAIN q /\ Append(q, msg)[i] = q[i])
    BY <1>1
  <2>3. \A i \in DOMAIN toStorage'[s] : Stored(toStorage'[s][i])
    BY <1>1, <2>1, <2>2
  <2> QED
    BY <2>3 DEF AskedStored, Stored
<1> QED
  BY <1>2, <1>3, <1>4, <1>5 DEF Stored

LEMMA AskedOfClient ==
  ASSUME P!TypeOK, AgentInv, AgentPlaced, D!TypeOK, ViewMatchesDisk, NEW f \in Flows,
         ClientSideStep(f), NEW s \in Servers
  PROVE  \/ toStorage'[s] = toStorage[s]
         \/ \E msg : /\ toStorage'[s] = Append(toStorage[s], msg)
                     /\ msg.type = "download_block" => msg.md5 \in md5_path[s]
<1>1. CASE Relays(f)
  BY <1>1 DEF Relays
<1>2. CASE AsksFor(f)
  <2>0. PICK t \in P!Connected : \E m :
          /\ m \in storageMd5s[t]
          /\ toStorage' = [toStorage EXCEPT ![t] = Append(@, P!DownLoadBlock(m, f))]
    BY <1>2 DEF AsksFor
  <2>1. PICK m :
          /\ m \in storageMd5s[t]
          /\ toStorage' = [toStorage EXCEPT ![t] = Append(@, P!DownLoadBlock(m, f))]
    BY <2>0
  <2>2. m \in md5_path[t]
    BY <2>1 DEF ViewMatchesDisk
  <2>3. P!DownLoadBlock(m, f).md5 = m
    BY DEF P!DownLoadBlock
  <2> QED
    BY <2>1, <2>2, <2>3 DEF P!TypeOK
<1>3. CASE ProxyServesClient(f)
  <2>1. A!TypeOK
    BY DEF AgentInv
  <2>2. \/ P!ClientOnClose(f)
        \/ \E msg \in P!FromClientMessage : P!ClientOnMessage(f, msg) \/ P!LateMessage(f, msg)
    BY <1>3, <2>1, ClientServed
  <2> QED
    BY <1>1, <1>2, <2>2, HandlersPassTurn, ClosePassesNoTurn
<1>4. CASE SessionDestroyed(f) \/ AgentMoves(f) \/ DownloaderMoves(f) \/ Connects(f)
  BY <1>4 DEF SessionDestroyed, P!Expire, AgentMoves, AgentReads, AgentWrote, AgentLosesProxy,
     AgentKilled, DownloaderMoves, DownloaderReads, DownloaderLosesProxy, DownloaderKilled,
     Connects, AgentConnects, DownloaderConnects, P!ClientOnConnection
<1> QED
  BY <1>3, <1>4 DEF ClientSideStep

LEMMA AskedOfServer ==
  ASSUME P!TypeOK, NEW s \in Servers, StorageMoves(s)
  PROVE  \/ toStorage'[s] \in {toStorage[s], <<>>}
         \/ toStorage[s] # <<>> /\ toStorage'[s] = Tail(toStorage[s])
         \/ \E n \in 0 .. Len(toStorage[s]) : toStorage'[s] = SubSeq(toStorage[s], 1, n)
<1>1. CASE ServerConnects(s)
  BY <1>1 DEF ServerConnects, P!StorageOnConnection, P!TypeOK
<1>2. CASE StorageStep(s) \/ StorageDies(s)
  BY <1>2 DEF StorageStep, StorageReads, StorageWrote, StorageLosesProxy, StorageDies, P!TypeOK
<1>3. CASE ProxyStorageStep(s)
  <2>1. P!StorageOnClose(s) \/ UNCHANGED toStorage
    BY <1>3, ProxyHears DEF ProxyStorageStep
  <2> QED
    BY <2>1, StorageClosed DEF P!TypeOK
<1> QED
  BY <1>1, <1>2, <1>3 DEF StorageMoves

LEMMA AskedNext ==
  SystemInv /\ UploadInv /\ ViewMatchesDisk /\ AskedInv /\ [Next]_vars => AskedInv'
<1> SUFFICES ASSUME SystemInv, UploadInv, ViewMatchesDisk, AskedInv, [Next]_vars,
                    NEW t \in Servers
             PROVE  AskedStored(t)'
  BY DEF AskedInv
<1>1. P!TypeOK /\ S!TypeOK /\ D!TypeOK /\ AgentInv /\ AgentPlaced /\ AskedStored(t)
  BY SystemTypes DEF SystemInv, UploadInv, AskedInv
<1>2. md5_path[t] \subseteq md5_path'[t]
  BY <1>1, PathsGrow
<1>3. ASSUME NEW s \in Servers, StorageMoves(s) PROVE AskedStored(t)'
  <2>1. CASE s = t
    BY <1>1, <1>2, <1>3, <2>1, AskedOfServer, AskedKept
  <2>2. CASE s # t
    <3>1. toStorage'[t] = toStorage[t]
      BY <1>1, <1>3, <2>2, StorageMovesOnly
    <3> QED
      BY <1>1, <1>2, <3>1, AskedKept
  <2> QED
    BY <2>1, <2>2
<1>4. ASSUME NEW f \in Flows, ClientSideStep(f) PROVE AskedStored(t)'
  <2>1. \/ toStorage'[t] = toStorage[t]
        \/ \E msg : /\ toStorage'[t] = Append(toStorage[t], msg)
                    /\ msg.type = "download_block" => msg.md5 \in md5_path[t]
    BY <1>1, <1>4, AskedOfClient
  <2> QED
    BY <1>1, <1>2, <2>1, AskedKept
<1>5. CASE UNCHANGED vars
  <2>1. toStorage'[t] = toStorage[t]
    BY <1>5 DEF vars
  <2> QED
    BY <1>1, <1>2, <2>1, AskedKept
<1> QED
  BY <1>3, <1>4, <1>5, StepKinds

----------------------------------------------------------------------------
(* What the proxy asks for.                                                *)

Disks == \A s \in Servers : DiskOf(s)
AskSystem ==
  SystemInv /\ UploadInv /\ ViewMatchesDisk /\ TurnInv /\ AskedInv /\ Disks

LEMMA AskSystemNext == AskSystem /\ [Next]_vars => AskSystem'
<1> SUFFICES ASSUME AskSystem, [Next]_vars PROVE AskSystem'
  OBVIOUS
<1>1. P!TypeOK /\ S!TypeOK /\ S!FileHasPath
  BY SystemTypes, ServerInstances DEF AskSystem, SystemInv, SS!ServerInv, SS!DiskInv
<1>2. SystemInv' /\ UploadInv' /\ ViewMatchesDisk' /\ TurnInv' /\ AskedInv'
  BY <1>1, SystemNext, UploadNext, ViewNext, TurnNext, AskedNext DEF AskSystem
<1>3. Disks'
  <2>1. ASSUME NEW s \in Servers, StorageMoves(s) PROVE Disks'
    BY <1>1, <2>1, DiskGrows DEF AskSystem, Disks
  <2>2. CASE UNCHANGED <<md5_path, file>>
    BY <2>2 DEF AskSystem, Disks, DiskOf
  <2>3. ASSUME NEW f \in Flows, ClientSideStep(f) PROVE UNCHANGED <<md5_path, file>>
    BY <2>3, ClientSideServers DEF servers
  <2>4. UNCHANGED vars => UNCHANGED <<md5_path, file>>
    BY DEF vars, servers
  <2> QED
    BY <2>1, <2>2, <2>3, <2>4, StepKinds
<1> QED
  BY <1>2, <1>3 DEF AskSystem

LEMMA AskSystemInit == Init => AskSystem
<1> SUFFICES ASSUME Init PROVE AskSystem
  OBVIOUS
<1>1. ViewMatchesDisk
  BY DEF Init, P!Init, P!Connected, ViewMatchesDisk
<1>2. AskedInv
  BY DEF Init, P!Init, AskedInv, AskedStored
<1>3. ASSUME NEW s \in Servers PROVE DiskOf(s)
  <2>1. \A m \in Md5s : file[s][m] = IF m \in md5_path[s] THEN Pieces[m] ELSE S!Missing
    BY DEF Init, S!Init
  <2>2. \A m \in Md5s : Pieces[m] \in Nat
    BY PiecesAssumption
  <2> QED
    BY <2>1, <2>2 DEF DiskOf, S!Missing
<1> QED
  BY <1>1, <1>2, <1>3, SystemInit, UploadInit, TurnInit DEF AskSystem, Disks

LEMMA AskSystemAlways == Spec => []AskSystem
BY AskSystemInit, AskSystemNext, PTL DEF Spec

(* The proxy asks a server (requestBlockFromStorageServer) only for a      *)
(* block whose path the server's redis holds, and for one block of a flow  *)
(* at a time: none of the flow is under way there, and none was asked for  *)
(* before.  What the proxy believes the server stores, it learned from the *)
(* server, and a client acknowledges a block only at its last piece.       *)
RequestsInTurn ==
  \A s \in Servers : \A i \in DOMAIN toStorage[s] :
    LET msg == toStorage[s][i] IN
    msg.type = "download_block" =>
      /\ msg.md5 \in md5_path[s]
      /\ downloadingContext[s][msg.flow_id] = S!NoDownload
      /\ \A j \in 1 .. i - 1 :
           toStorage[s][j].type = "download_block" => toStorage[s][j].flow_id # msg.flow_id

LEMMA AskedInTurn == AskSystem => RequestsInTurn
<1> SUFFICES ASSUME AskSystem, NEW s \in Servers, NEW i \in DOMAIN toStorage[s],
                    toStorage[s][i].type = "download_block"
             PROVE  /\ toStorage[s][i].md5 \in md5_path[s]
                    /\ downloadingContext[s][toStorage[s][i].flow_id] = S!NoDownload
                    /\ \A j \in 1 .. i - 1 :
                         toStorage[s][j].type = "download_block" =>
                           toStorage[s][j].flow_id # toStorage[s][i].flow_id
  BY DEF RequestsInTurn
<1> DEFINE q == toStorage[s]
           f == q[i].flow_id
<1>1. q \in Seq(P!ToStorageMessage)
  BY SystemTypes DEF AskSystem, P!TypeOK
<1>2. q[i] \in P!ToStorageMessage
  BY <1>1
<1>3. f \in Flows
  BY <1>2 DEF P!ToStorageMessage, P!UploadBlockMessage, P!DownLoadBlockMessage,
              P!ClientCleanMessage
<1> HIDE DEF f
<1>4. q[i].md5 \in md5_path[s]
  BY DEF AskSystem, AskedInv, AskedStored
<1>5. FlowTurn(f) /\ PassesTurn({f}, q[i])
  BY <1>3 DEF AskSystem, TurnInv, PassesTurn, f
<1>6. Turn(f, <<"asked", s>>)
  BY <1>3, <1>5, TurnAt DEF Holds
<1>7. downloadingContext[s][f] = S!NoDownload
  <2>1. ~Turn(f, <<"sending", s>>)
    BY <1>3, <1>5, <1>6, PlacesOfTurn, TurnElsewhere
  <2> QED
    BY <1>3, <2>1, TurnAt
<1>8. ASSUME NEW j \in 1 .. i - 1, q[j].type = "download_block" PROVE q[j].flow_id # f
  <2>1. j \in DOMAIN q /\ j # i
    BY <1>1
  <2>2. Once({f}, q)
    BY <1>5 DEF FlowTurn, OneTurn
  <2> QED
    BY <1>5, <1>8, <2>1, <2>2 DEF Once, PassesTurn
<1> QED
  BY <1>4, <1>7, <1>8 DEF f

THEOREM RequestsAreInTurn == Spec => []RequestsInTurn
BY AskSystemAlways, AskedInTurn, PTL

(* Such a request never ends the server, which exits when it has the flow  *)
(* already (onMessage) and when it cannot read the block                   *)
(* (getMd5ContentFromStorage): the block can be read as well, unless a     *)
(* server died between the steps of storing one and left a path without a  *)
(* file.                                                                   *)
THEOREM RequestsAreServable ==
  ASSUME MayTear = FALSE PROVE Spec => []RequestsServable
<1>1. AskSystem => RequestsServable
  <2> SUFFICES ASSUME AskSystem, NEW s \in Servers, NEW i \in DOMAIN toStorage[s],
                      toStorage[s][i].type = "download_block"
               PROVE  /\ S!Loadable(s, toStorage[s][i].md5)
                      /\ downloadingContext[s][toStorage[s][i].flow_id].md5 = NoMd5
                      /\ \A j \in 1 .. i - 1 :
                           toStorage[s][j].type = "download_block" =>
                             toStorage[s][j].flow_id # toStorage[s][i].flow_id
    BY DEF RequestsServable
  <2> DEFINE m == toStorage[s][i].md5
  <2>1. /\ m \in md5_path[s]
        /\ downloadingContext[s][toStorage[s][i].flow_id] = S!NoDownload
        /\ \A j \in 1 .. i - 1 :
             toStorage[s][j].type = "download_block" =>
               toStorage[s][j].flow_id # toStorage[s][i].flow_id
    BY AskedInTurn DEF RequestsInTurn
  <2>2. m \in Md5s /\ Pieces[m] \in Nat
    BY <2>1, SystemTypes, PiecesAssumption DEF AskSystem, S!TypeOK
  <2>3. file[s][m] = Pieces[m]
    BY <2>1, <2>2 DEF AskSystem, Disks, DiskOf
  <2>4. S!Loadable(s, m)
    BY <2>1, <2>2, <2>3 DEF S!Loadable, S!Missing
  <2>5. downloadingContext[s][toStorage[s][i].flow_id].md5 = NoMd5
    BY <2>1 DEF S!NoDownload
  <2> QED
    BY <2>1, <2>4, <2>5
<1> QED
  BY <1>1, AskSystemAlways, PTL
==============================================================================
