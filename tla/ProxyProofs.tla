------------------------------ MODULE ProxyProofs ------------------------------
(***************************************************************************)
(* Theorems about Proxy.tla, for all sets of servers, flows and digests,   *)
(* every block_backup_count and every bound on what the environment sends. *)
(***************************************************************************)
EXTENDS Proxy, SequenceTheorems, FiniteSetTheorems, TLAPS

(* The digests that the requests in a queue to a server ask for flow f.    *)
Asked(q, f) ==
  {q[i].md5 : i \in {j \in DOMAIN q : q[j].type = "download_block" /\ q[j].flow_id = f}}

(* The digests flow f may have asked for. *)
Wanted(f) == {transferingBlockMd5s[f][k] : k \in 1 .. transferIndex[f] + 1}

(* No flow is given out twice; one that has no context yet, or only a new  *)
(* one, is without servers, without a block in transfer and without        *)
(* requests: what its context was constructed with is still there.  It may *)
(* be closed by then, with one message still to be handled.                *)
Unused(f) == f >= nextFlow \/ clientState[f] = "init" \/ lateState[f] = "init"
Fresh ==
  \A f \in Flows :
    /\ f >= nextFlow => clientState[f] = "none"
    /\ Unused(f) => transferingServers[f] = {} /\ expired[f] = "no"
FreshDownload ==
  \A f \in Flows :
    Unused(f) => transferIndex[f] = 0 /\ \A s \in Servers : Asked(toStorage[s], f) = {}

(* RequestedInOrder, in terms of the above.                                *)
InOrder ==
  \A f \in Flows :
    clientState[f] = "waiting_transfer_block" =>
      /\ transferIndex[f] < Len(transferingBlockMd5s[f])
      /\ \A s \in Servers : Asked(toStorage[s], f) \subseteq Wanted(f)

(* Only clients that were connected and are no longer are late.            *)
LateOK ==
  /\ lateState \in [Flows -> ClientStates \cup {"handled"}]
  /\ \A f \in Flows : lateState[f] # "none" => ~(f >= nextFlow) /\ clientState[f] = "none"

IInv == TypeOK /\ LateOK /\ Fresh /\ FreshDownload /\ AnswerOwed /\ InOrder

(* What a step does to lateState, which the handlers leave to whoever      *)
(* calls them.                                                             *)
LateStep == LateOK' /\ \A f \in Flows : lateState'[f] = "init" => Unused(f)

----------------------------------------------------------------------------
(* The messages. *)

LEMMA RequestsTyped == Requests \subseteq Seq(Md5s)
BY SeqDef DEF Requests

LEMMA ClientInputTyped == ClientInput \subseteq FromClientMessage
<1> SUFFICES ASSUME NEW msg \in ClientInput PROVE msg \in FromClientMessage
  OBVIOUS
<1>1. AlteredContent \in PieceContent
  BY DEF AlteredContent, PieceContent
<1>2. ASSUME NEW md5s \in Requests, msg = UploadRequest(md5s) PROVE msg \in FromClientMessage
  BY <1>2, RequestsTyped DEF UploadRequest, FromClientMessage
<1>3. ASSUME NEW m \in Md5s, NEW i \in {0, 1}, NEW eof \in BOOLEAN,
             msg = UploadBlock(m, i, eof, AlteredContent)
      PROVE  msg \in FromClientMessage
  BY <1>1, <1>3 DEF UploadBlock, FromClientMessage
<1>4. ASSUME NEW id \in Requests \cup Recorded, NEW have \in Requests,
             msg = DownLoadRequest(id, have)
      PROVE  msg \in FromClientMessage
  <2> DEFINE held == IF have = <<>> THEN {} ELSE {have[Len(have)]}
  <2>1. id \in Seq(Md5s) /\ have \in Seq(Md5s)
    BY RequestsTyped, RecordedAssumption
  <2>2. held \in SUBSET Md5s
    BY <2>1
  <2> HIDE DEF held
  <2>3. msg = [type |-> "download_request", file_id |-> id, md5s |-> held]
    BY <1>4 DEF DownLoadRequest, held
  <2> QED
    BY <2>1, <2>2, <2>3 DEF FromClientMessage
<1>5. ASSUME NEW m \in Md5s, msg = TransferBlockAck(m) PROVE msg \in FromClientMessage
  BY <1>5 DEF TransferBlockAck, FromClientMessage
<1>6. CASE msg = UploadAllBlocks
  BY <1>6 DEF UploadAllBlocks, FromClientMessage
<1> QED
  BY <1>2, <1>3, <1>4, <1>5, <1>6 DEF ClientInput

(* Of each message, the fields its handler reads.                          *)
LEMMA FromClientFields ==
  ASSUME NEW msg \in FromClientMessage
  PROVE  /\ msg.type = "upload_request" => msg.md5s \in Seq(Md5s)
         /\ msg.type = "upload_block" =>
              msg.md5 \in Md5s /\ \A f \in Flows : SetFlowId(msg, f) \in UploadBlockMessage
         /\ msg.type = "download_request" => msg.file_id \in Seq(Md5s)
<1>1. CASE msg.type # "upload_block"
  BY <1>1 DEF FromClientMessage
<1>2. CASE msg.type = "upload_block"
  <2>1. msg \in [type : {"upload_block"}, md5 : Md5s, index : Nat, flow_id : {0},
                 eof : BOOLEAN, content : PieceContent]
    BY <1>2 DEF FromClientMessage
  <2>2. ASSUME NEW f \in Flows PROVE SetFlowId(msg, f) \in UploadBlockMessage
    BY <2>1 DEF SetFlowId, UploadBlockMessage
  <2> QED
    BY <1>2, <2>1, <2>2
<1> QED
  BY <1>1, <1>2

LEMMA StorageInputTyped == StorageInput \subseteq StorageMessage
<1> SUFFICES ASSUME NEW msg \in StorageInput PROVE msg \in StorageMessage
  OBVIOUS
<1>1. AlteredContent \in PieceContent
  BY DEF AlteredContent, PieceContent
<1>2. CASE msg \in {TransferBlockSet(md5s, eof) : md5s \in SUBSET Md5s, eof \in BOOLEAN}
  <2>1. PICK md5s \in SUBSET Md5s, eof \in BOOLEAN : msg = TransferBlockSet(md5s, eof)
    BY <1>2
  <2> QED
    BY <2>1 DEF StorageMessage, TransferBlockSet
<1>3. CASE msg \in {UploadBlockAck(m) : m \in Md5s}
  BY <1>3 DEF StorageMessage, UploadBlockAck
<1>4. CASE msg \in {UploadBlockFail(m) : m \in AnyMd5}
  BY <1>4 DEF StorageMessage, UploadBlockFail, AnyMd5
<1>5. ASSUME NEW m \in Md5s, NEW f \in Flows,
             msg = TransferBlock(m, 0, TRUE, f, AlteredContent)
      PROVE  msg \in StorageMessage
  BY <1>1, <1>5 DEF StorageMessage, TransferBlock
<1> QED
  BY <1>2, <1>3, <1>4, <1>5 DEF StorageInput, TransferBlock

LEMMA FromStorageFields ==
  ASSUME NEW msg \in StorageMessage
  PROVE  /\ msg.type = "transfer_block_set" => msg.md5s \in SUBSET Md5s /\ msg.eof \in BOOLEAN
         /\ msg.type = "upload_block_ack" => msg.md5 \in Md5s
         /\ msg.type = "upload_block_fail" => msg.md5 \in AnyMd5
         /\ msg.type = "transfer_block" => msg \in ClientMessage
BY DEF StorageMessage, ClientMessage, AnyMd5

LEMMA KeptTyped ==
  ASSUME NEW md5s \in Seq(Md5s), NEW S, NEW kept \in Kept(md5s, S)
  PROVE  kept \in Seq(Md5s)
<1> DEFINE I == {i \in DOMAIN md5s : md5s[i] \in S}
<1>1. DOMAIN md5s = 1 .. Len(md5s) /\ Len(md5s) \in Nat
  OBVIOUS
<1>2. IsFiniteSet(I) /\ Cardinality(I) \in Nat
  <2>1. IsFiniteSet(1 .. Len(md5s))
    BY <1>1, FS_Interval
  <2>2. I \subseteq 1 .. Len(md5s)
    BY <1>1
  <2> HIDE DEF I
  <2>3. IsFiniteSet(I)
    BY <2>1, <2>2, FS_Subset
  <2> QED
    BY <2>3, FS_CardinalityType
<1>3. PICK at \in Increasing(I) : kept = [k \in DOMAIN at |-> md5s[at[k]]]
  BY DEF Kept
<1>4. at \in [1 .. Cardinality(I) -> I]
  BY <1>3 DEF Increasing
<1>5. \A i \in I : md5s[i] \in Md5s
  BY <1>1
<1> HIDE DEF I
<1>6. kept \in [1 .. Cardinality(I) -> Md5s]
  BY <1>3, <1>4, <1>5
<1> QED
  BY <1>2, <1>6, SeqDef

----------------------------------------------------------------------------
(* The queues. *)

LEMMA AskedAppend ==
  ASSUME NEW q \in Seq(ToStorageMessage), NEW msg \in ToStorageMessage, NEW f
  PROVE  Asked(Append(q, msg), f) \subseteq
           Asked(q, f) \cup {m \in {msg.md5} : msg.type = "download_block" /\ msg.flow_id = f}
<1> DEFINE r == Append(q, msg)
<1>1. /\ Len(q) \in Nat
      /\ DOMAIN q = 1 .. Len(q) /\ DOMAIN r = 1 .. Len(q) + 1
      /\ \A i \in 1 .. Len(q) : r[i] = q[i]
      /\ r[Len(q) + 1] = msg
  OBVIOUS
<1>2. \A i \in DOMAIN r : (i \in DOMAIN q /\ r[i] = q[i]) \/ r[i] = msg
  BY <1>1
<1> HIDE DEF r
<1>3. Asked(r, f) \subseteq
        Asked(q, f) \cup {m \in {msg.md5} : msg.type = "download_block" /\ msg.flow_id = f}
  BY <1>2 DEF Asked
<1> QED
  BY <1>3 DEF r

(* A part of a queue asks for no more than the queue.                      *)
LEMMA AskedPart ==
  ASSUME NEW q, NEW r, NEW f,
         \A i \in DOMAIN r : \E j \in DOMAIN q : r[i] = q[j]
  PROVE  Asked(r, f) \subseteq Asked(q, f)
BY DEF Asked

LEMMA PrefixPart ==
  ASSUME NEW S, NEW q \in Seq(S), NEW n \in 0 .. Len(q)
  PROVE  /\ SubSeq(q, 1, n) \in Seq(S)
         /\ \A i \in DOMAIN SubSeq(q, 1, n) : \E j \in DOMAIN q : SubSeq(q, 1, n)[i] = q[j]
<1>1. /\ SubSeq(q, 1, n) \in Seq(S)
      /\ DOMAIN SubSeq(q, 1, n) = 1 .. n
      /\ \A i \in 1 .. n : SubSeq(q, 1, n)[i] = q[i] /\ i \in DOMAIN q
  OBVIOUS
<1> QED
  BY <1>1

LEMMA TailPart ==
  ASSUME NEW S, NEW q \in Seq(S), q # <<>>
  PROVE  /\ Tail(q) \in Seq(S)
         /\ \A i \in DOMAIN Tail(q) : \E j \in DOMAIN q : Tail(q)[i] = q[j]
<1>1. /\ Tail(q) \in Seq(S)
      /\ DOMAIN Tail(q) = 1 .. Len(q) - 1 /\ Len(q) \in Nat
      /\ \A i \in 1 .. Len(q) - 1 : Tail(q)[i] = q[i + 1]
      /\ \A i \in 1 .. Len(q) - 1 : i + 1 \in DOMAIN q
  OBVIOUS
<1> QED
  BY <1>1

(* No server is asked for more than it was.                                *)
AskedShrinks ==
  \A f \in Flows, s \in Servers : Asked(toStorage'[s], f) \subseteq Asked(toStorage[s], f)

LEMMA SendToStoragesKeeps ==
  ASSUME TypeOK, NEW S, NEW msg \in ToStorageMessage, msg.type # "download_block",
         SendToStorages(S, msg)
  PROVE  toStorage' \in [Servers -> Seq(ToStorageMessage)] /\ AskedShrinks
<1>1. toStorage \in [Servers -> Seq(ToStorageMessage)]
  BY DEF TypeOK
<1>2. \A s \in Servers : toStorage'[s] \in {toStorage[s], Append(toStorage[s], msg)}
  BY DEF SendToStorages
<1>3. toStorage' \in [Servers -> Seq(ToStorageMessage)]
  BY <1>1 DEF SendToStorages
<1>4. ASSUME NEW f \in Flows, NEW s \in Servers
      PROVE  Asked(toStorage'[s], f) \subseteq Asked(toStorage[s], f)
  <2>1. Asked(Append(toStorage[s], msg), f) \subseteq Asked(toStorage[s], f)
    BY <1>1, AskedAppend
  <2> QED
    BY <1>2, <2>1
<1> QED
  BY <1>3, <1>4 DEF AskedShrinks

LEMMA TruncatedTyped ==
  ASSUME NEW X, NEW S, NEW sent \in [X -> Seq(S)], NEW x \in X, NEW left \in Truncated(sent, x)
  PROVE  /\ left \in [X -> Seq(S)]
         /\ \A y \in X : \A i \in DOMAIN left[y] : \E j \in DOMAIN sent[y] : left[y][i] = sent[y][j]
<1>1. PICK n \in 0 .. Len(sent[x]) : left = [sent EXCEPT ![x] = SubSeq(sent[x], 1, n)]
  BY DEF Truncated
<1>2. /\ SubSeq(sent[x], 1, n) \in Seq(S)
      /\ \A i \in DOMAIN SubSeq(sent[x], 1, n) :
           \E j \in DOMAIN sent[x] : SubSeq(sent[x], 1, n)[i] = sent[x][j]
  BY PrefixPart
<1> QED
  BY <1>1, <1>2

LEMMA SendToClientTyped ==
  ASSUME TypeOK, NEW f \in Flows, NEW msg \in ClientMessage, SendToClient(f, msg)
  PROVE  toClient' \in [Flows -> Seq(ClientMessage)]
<1>1. toClient \in [Flows -> Seq(ClientMessage)]
  BY DEF TypeOK
<1>2. Append(toClient[f], msg) \in Seq(ClientMessage)
  BY <1>1
<1> QED
  BY <1>1, <1>2 DEF SendToClient

(* A request goes to a connected server that stores the block.             *)
LEMMA RequestBlockKeeps ==
  ASSUME TypeOK, NEW f \in Flows, NEW m \in Md5s, RequestBlock(f, m)
  PROVE  /\ toStorage' \in [Servers -> Seq(ToStorageMessage)]
         /\ \A g \in Flows \ {f}, s \in Servers :
              Asked(toStorage'[s], g) \subseteq Asked(toStorage[s], g)
         /\ \A s \in Servers : Asked(toStorage'[s], f) \subseteq Asked(toStorage[s], f) \cup {m}
<1> DEFINE msg == DownLoadBlock(m, f)
<1>1. toStorage \in [Servers -> Seq(ToStorageMessage)]
  BY DEF TypeOK
<1>2. msg \in ToStorageMessage /\ msg.flow_id = f /\ msg.md5 = m
  BY DEF DownLoadBlock, ToStorageMessage, DownLoadBlockMessage
<1>3. PICK t \in Servers : toStorage' = [toStorage EXCEPT ![t] = Append(@, msg)]
  BY DEF RequestBlock, StoragesOf, Connected
<1> HIDE DEF msg
<1>4. toStorage' \in [Servers -> Seq(ToStorageMessage)]
  BY <1>1, <1>2, <1>3
<1>5. \A s \in Servers : toStorage'[s] \in {toStorage[s], Append(toStorage[s], msg)}
  BY <1>1, <1>3
<1>6. \A g \in Flows, s \in Servers :
        Asked(Append(toStorage[s], msg), g) \subseteq
          Asked(toStorage[s], g) \cup {x \in {m} : f = g}
  BY <1>1, <1>2, AskedAppend
<1> QED
  BY <1>4, <1>5, <1>6

----------------------------------------------------------------------------
(* What a step leaves as it was. *)

(* No context is made, and none goes back to its first state.              *)
LEMMA FreshSame ==
  ASSUME TypeOK, LateStep, Fresh, FreshDownload, nextFlow' = nextFlow,
         \A f \in Flows : \/ clientState'[f] = clientState[f]
                          \/ clientState[f] # "none" /\ clientState'[f] # "init",
         \A f \in Flows : Unused(f) =>
           /\ transferingServers'[f] = {} /\ expired'[f] = "no" /\ transferIndex'[f] = 0
           /\ \A s \in Servers : Asked(toStorage'[s], f) \subseteq Asked(toStorage[s], f)
  PROVE  Fresh' /\ FreshDownload'
<1>1. ASSUME NEW f \in Flows, Unused(f)' PROVE Unused(f)
  BY <1>1 DEF Unused, LateStep
<1>2. ASSUME NEW f \in Flows, f >= nextFlow' PROVE clientState'[f] = "none"
  BY <1>2 DEF Fresh
<1>3. Fresh'
  BY <1>1, <1>2 DEF Fresh
<1>4. ASSUME NEW f \in Flows, Unused(f)', NEW s \in Servers
      PROVE  transferIndex'[f] = 0 /\ Asked(toStorage'[s], f) = {}
  BY <1>1, <1>4 DEF FreshDownload
<1>5. ASSUME NEW f \in Flows, Unused(f)' PROVE transferIndex'[f] = 0
  BY <1>1, <1>5
<1>6. FreshDownload'
  BY <1>4, <1>5 DEF FreshDownload
<1> QED
  BY <1>3, <1>6

(* The same, of a step that leaves the blocks of all flows alone.          *)
LEMMA FreshUnchanged ==
  ASSUME TypeOK, LateStep, Fresh, FreshDownload, nextFlow' = nextFlow,
         \A f \in Flows : \/ clientState'[f] = clientState[f]
                          \/ clientState[f] # "none" /\ clientState'[f] # "init",
         UNCHANGED <<transferingServers, expired, transferIndex>>, AskedShrinks
  PROVE  Fresh' /\ FreshDownload'
<1>1. \A f \in Flows : Unused(f) =>
        /\ transferingServers'[f] = {} /\ expired'[f] = "no" /\ transferIndex'[f] = 0
        /\ \A s \in Servers : Asked(toStorage'[s], f) \subseteq Asked(toStorage[s], f)
  BY DEF Fresh, FreshDownload, AskedShrinks
<1> QED
  BY <1>1, FreshSame

LEMMA InOrderSame ==
  ASSUME InOrder, UNCHANGED <<transferingBlockMd5s, transferIndex>>, AskedShrinks,
         \A f \in Flows : clientState'[f] = "waiting_transfer_block"
                            => clientState[f] = "waiting_transfer_block"
  PROVE  InOrder'
<1> SUFFICES ASSUME NEW f \in Flows, clientState'[f] = "waiting_transfer_block"
             PROVE  /\ transferIndex'[f] < Len(transferingBlockMd5s'[f])
                    /\ \A s \in Servers : Asked(toStorage'[s], f) \subseteq Wanted(f)'
  BY DEF InOrder
<1>1. /\ transferIndex[f] < Len(transferingBlockMd5s[f])
      /\ \A s \in Servers : Asked(toStorage[s], f) \subseteq Wanted(f)
  BY DEF InOrder
<1>2. Wanted(f)' = Wanted(f)
  BY DEF Wanted
<1> QED
  BY <1>1, <1>2 DEF AskedShrinks

LEMMA OwedSame ==
  ASSUME AnswerOwed,
         UNCHANGED <<transferingServers, expired, answered, storageState, blockAckCallbacks>>,
         \A f \in Flows : clientState'[f] = "waiting_upload_block"
                            => clientState[f] = "waiting_upload_block"
  PROVE  AnswerOwed'
BY DEF AnswerOwed, Connected, Remaining

LEMMA SameQueues == UNCHANGED toStorage => AskedShrinks
BY DEF AskedShrinks

----------------------------------------------------------------------------
(* Clients come and go. *)

LEMMA ClientOnConnectionKeeps ==
  ASSUME IInv, LateStep, NEW f \in Flows, ClientOnConnection(f) PROVE IInv'
<1>1. TypeOK /\ f \in Nat /\ f = nextFlow /\ nextFlow' = nextFlow + 1
  BY FlowsAssumption DEF IInv, ClientOnConnection
<1>2. clientState' = [clientState EXCEPT ![f] = "init"]
  BY DEF ClientOnConnection, SetClientState
<1>3. UNCHANGED <<upload, download, storages, toClient, toStorage>>
  BY DEF ClientOnConnection
<1>4. TypeOK'
  BY <1>1, <1>2, <1>3 DEF TypeOK, LateStep, LateOK, ClientOnConnection, ClientStates, upload,
     download, storages
<1>5. ASSUME NEW g \in Flows
      PROVE  /\ Unused(g)' => Unused(g)
             /\ g >= nextFlow' => g # f /\ g >= nextFlow
             /\ g # f => clientState'[g] = clientState[g]
             /\ clientState'[g] # clientState[g] => clientState'[g] = "init"
  BY <1>1, <1>2, FlowsAssumption DEF Unused, TypeOK, LateStep
<1>6. Fresh'
  BY <1>3, <1>5 DEF IInv, Fresh, upload
<1>7. FreshDownload'
  BY <1>3, <1>5 DEF IInv, FreshDownload, download
<1>8. AnswerOwed'
  BY <1>3, <1>5, OwedSame DEF IInv, upload, storages
<1>9. InOrder'
  BY <1>3, <1>5, InOrderSame, SameQueues DEF IInv, download
<1> QED
  BY <1>4, <1>6, <1>7, <1>8, <1>9 DEF IInv, LateStep

LEMMA ClientOnCloseKeeps ==
  ASSUME IInv, LateStep, NEW f \in Flows, ClientOnClose(f) PROVE IInv'
<1>1. TypeOK /\ clientState' = [clientState EXCEPT ![f] = "none"] /\ clientState[f] # "none"
  BY DEF IInv, ClientOnClose, SetClientState
<1>2. ClientClean(f) \in ToStorageMessage /\ ClientClean(f).type # "download_block"
  BY DEF ClientClean, ToStorageMessage, ClientCleanMessage
<1>3. toStorage' \in [Servers -> Seq(ToStorageMessage)] /\ AskedShrinks
  BY <1>1, <1>2, SendToStoragesKeeps DEF ClientOnClose
<1>4. toClient' \in [Flows -> Seq(ClientMessage)]
  <2>1. toClient \in [Flows -> Seq(ClientMessage)]
    BY <1>1 DEF TypeOK
  <2> QED
    BY <2>1, TruncatedTyped DEF ClientOnClose
<1>5. UNCHANGED <<process, idStorage, upload, download, storages>>
  BY DEF ClientOnClose
<1>6. TypeOK'
  BY <1>1, <1>3, <1>4, <1>5
  DEF TypeOK, LateStep, LateOK, ClientStates, process, upload, download, storages
<1>7. \A g \in Flows : \/ clientState'[g] = clientState[g]
                       \/ clientState[g] # "none" /\ clientState'[g] = "none"
  BY <1>1 DEF TypeOK
<1>8. Fresh' /\ FreshDownload'
  BY <1>1, <1>3, <1>5, <1>7, FreshUnchanged DEF IInv, process, upload, download
<1>9. AnswerOwed'
  BY <1>5, <1>7, OwedSame DEF IInv, upload, storages
<1>10. InOrder'
  BY <1>3, <1>5, <1>7, InOrderSame DEF IInv, download
<1> QED
  BY <1>6, <1>8, <1>9, <1>10 DEF IInv, LateStep

----------------------------------------------------------------------------
(* Upload. *)

LEMMA HandleUploadRequestKeeps ==
  ASSUME IInv, LateStep, NEW f \in Flows, NEW msg \in FromClientMessage,
         msg.type = "upload_request",
         clientState[f] = "init", HandleUploadRequest(f, msg)
  PROVE  IInv'
<1>1. /\ TypeOK /\ msg.md5s \in Seq(Md5s)
      /\ clientState[f] = "init"
      /\ clientState' = [clientState EXCEPT ![f] = "waiting_upload_block"]
      /\ UNCHANGED <<process, idStorage, transferingServers, expired, answered,
                     download, storages, toStorage>>
  BY FromClientFields DEF IInv, HandleUploadRequest, SetClientState
<1>2. PICK need \in NeedUpload(msg.md5s) : SendToClient(f, UploadResponse(need))
  BY DEF HandleUploadRequest
<1>3. need \in Seq(Md5s)
  BY <1>1, KeptTyped DEF NeedUpload
<1>4. UploadResponse(need) \in ClientMessage
  BY <1>3 DEF UploadResponse, ClientMessage
<1>5. toClient' \in [Flows -> Seq(ClientMessage)]
  BY <1>1, <1>2, <1>4, SendToClientTyped
<1>6. uploadingMd5s' \in [Flows -> Seq(Md5s)]
  BY <1>1 DEF HandleUploadRequest, TypeOK
<1>7. TypeOK'
  BY <1>1, <1>5, <1>6 DEF TypeOK, LateStep, LateOK, ClientStates, process, download, storages
<1>8. \A g \in Flows : g # f => clientState'[g] = clientState[g]
  BY <1>1 DEF TypeOK
<1>9. clientState'[f] = "waiting_upload_block"
  BY <1>1 DEF TypeOK
<1>10. Fresh' /\ FreshDownload'
  BY <1>1, <1>8, <1>9, FreshUnchanged, SameQueues DEF IInv, process, download
<1>11. transferingServers'[f] = {} /\ expired'[f] = "no"
  BY <1>1 DEF IInv, Fresh, Unused
<1>12. AnswerOwed'
  BY <1>1, <1>8, <1>11 DEF IInv, AnswerOwed, Connected, Remaining, storages
<1>13. InOrder'
  BY <1>1, <1>8, <1>9, InOrderSame, SameQueues DEF IInv, download
<1> QED
  BY <1>7, <1>10, <1>12, <1>13 DEF IInv, LateStep

(* The callback is there before the block can be answered.                 *)
LEMMA StartBlockKeeps ==
  ASSUME IInv, LateStep, NEW f \in Flows, NEW msg \in FromClientMessage, msg.type = "upload_block",
         ~Unused(f), StartBlock(f, msg)
  PROVE  IInv'
<1>1. /\ TypeOK /\ msg.md5 \in Md5s
      /\ SetFlowId(msg, f) \in UploadBlockMessage
      /\ answered' = [answered EXCEPT ![f] = FALSE]
      /\ expired' = [expired EXCEPT ![f] = "no"]
      /\ UNCHANGED <<process, idStorage, clientState, uploadingMd5s, download,
                     storageState, storageMd5s, toClient>>
  BY FromClientFields DEF IInv, StartBlock
<1>2. PICK selected \in kSubset(BackupCount, Connected) :
        /\ transferingServers' = [transferingServers EXCEPT ![f] = selected]
        /\ SendToStorages(selected, SetFlowId(msg, f))
        /\ SubBlockAckEvent(selected, msg.md5, f)
  BY DEF StartBlock
<1>3. selected \subseteq Connected /\ selected # {} /\ selected \subseteq Servers
  BY <1>2, BackupCountAssumption, FS_EmptySet DEF kSubset, Connected
<1>4. SetFlowId(msg, f) \in ToStorageMessage /\ SetFlowId(msg, f).type # "download_block"
  BY <1>1 DEF ToStorageMessage, UploadBlockMessage
<1>5. toStorage' \in [Servers -> Seq(ToStorageMessage)] /\ AskedShrinks
  BY <1>1, <1>2, <1>4, SendToStoragesKeeps
<1>6. msg.md5 \in AnyMd5 /\ blockAckCallbacks \in [Servers -> [AnyMd5 -> SUBSET Flows]]
  BY <1>1 DEF AnyMd5, TypeOK
<1>7. blockAckCallbacks' = [s \in Servers |->
        IF s \in selected
          THEN [blockAckCallbacks[s] EXCEPT ![msg.md5] = blockAckCallbacks[s][msg.md5] \cup {f}]
          ELSE blockAckCallbacks[s]]
  BY <1>2 DEF SubBlockAckEvent
<1>8. blockAckCallbacks' \in [Servers -> [AnyMd5 -> SUBSET Flows]]
  BY <1>6, <1>7
<1>9. \A s \in Servers, m \in AnyMd5 : blockAckCallbacks[s][m] \subseteq blockAckCallbacks'[s][m]
  BY <1>6, <1>7
<1>10. \A s \in selected : f \in blockAckCallbacks'[s][msg.md5]
  BY <1>3, <1>6, <1>7
<1>11. transferingServers' \in [Flows -> SUBSET Servers]
  BY <1>1, <1>2, <1>3 DEF TypeOK
<1>12. TypeOK'
  BY <1>1, <1>5, <1>8, <1>11 DEF TypeOK, LateStep, LateOK, process, download
<1>13. \A g \in Flows : g # f => /\ transferingServers'[g] = transferingServers[g]
                                /\ expired'[g] = expired[g]
                                /\ answered'[g] = answered[g]
  BY <1>1, <1>2 DEF TypeOK
<1>14. Fresh' /\ FreshDownload'
  <2>1. \A g \in Flows : Unused(g) =>
          /\ transferingServers'[g] = {} /\ expired'[g] = "no" /\ transferIndex'[g] = 0
          /\ \A s \in Servers : Asked(toStorage'[s], g) \subseteq Asked(toStorage[s], g)
    BY <1>1, <1>5, <1>13 DEF IInv, Fresh, FreshDownload, AskedShrinks, download
  <2> QED
    BY <1>1, <2>1, FreshSame DEF IInv, process
<1>15. AnswerOwed'
  <2>1. Connected' = Connected
    BY <1>1 DEF Connected
  <2>2. \A s \in Servers : Remaining(s) \subseteq Remaining(s)'
    BY <1>9 DEF Remaining
  <2>3. \E s \in Connected : f \in Remaining(s)'
    BY <1>3, <1>6, <1>10 DEF Remaining
  <2>4. ASSUME NEW g \in Flows, g # f, clientState'[g] = "waiting_upload_block",
               transferingServers'[g] # {} \/ expired'[g] # "no", ~answered'[g]
        PROVE  \E s \in Connected : g \in Remaining(s)'
    <3>1. \E s \in Connected : g \in Remaining(s)
      BY <1>1, <1>13, <2>4 DEF IInv, AnswerOwed
    <3> QED
      BY <2>2, <3>1 DEF Connected
  <2> QED
    BY <2>1, <2>3, <2>4 DEF AnswerOwed
<1>16. InOrder'
  BY <1>1, <1>5, InOrderSame DEF IInv, download
<1> QED
  BY <1>12, <1>14, <1>15, <1>16 DEF IInv, LateStep

(* A piece that follows, a process that ends: what is sent to servers may  *)
(* change, and the state of the process.                                   *)
LEMMA NoMoreAskedKeeps ==
  ASSUME IInv, LateStep, toStorage' \in [Servers -> Seq(ToStorageMessage)], AskedShrinks,
         proxyState' \in {"running", "exited", "crashed"},
         UNCHANGED <<nextFlow, idStorage, clientState, upload, download, storages, toClient>>
  PROVE  IInv'
<1>1. TypeOK
  BY DEF IInv
<1>2. TypeOK'
  BY <1>1 DEF TypeOK, LateStep, LateOK, upload, download, storages
<1>3. Fresh' /\ FreshDownload'
  BY <1>1, FreshUnchanged DEF IInv, upload, download
<1>4. AnswerOwed'
  BY OwedSame DEF IInv, upload, storages
<1>5. InOrder'
  BY InOrderSame DEF IInv, download
<1> QED
  BY <1>2, <1>3, <1>4, <1>5 DEF IInv, LateStep

LEMMA OnlySentKeeps ==
  ASSUME IInv, LateStep, NEW S, NEW msg \in ToStorageMessage, msg.type # "download_block",
         SendToStorages(S, msg),
         proxyState' \in {"running", "exited", "crashed"},
         UNCHANGED <<nextFlow, idStorage, clientState, upload, download, storages, toClient>>
  PROVE  IInv'
BY SendToStoragesKeeps, NoMoreAskedKeeps DEF IInv

LEMMA OnlyDiesKeeps ==
  ASSUME IInv, LateStep, Dies("exited") \/ Dies("crashed"), UNCHANGED toStorage
  PROVE  IInv'
<1>1. toStorage' \in [Servers -> Seq(ToStorageMessage)] /\ AskedShrinks
  BY SameQueues DEF IInv, TypeOK
<1> QED
  BY <1>1, NoMoreAskedKeeps DEF Dies

LEMMA HandleUploadBlockKeeps ==
  ASSUME IInv, LateStep, NEW f \in Flows, NEW msg \in FromClientMessage, msg.type = "upload_block",
         ~Unused(f), HandleUploadBlock(f, msg)
  PROVE  IInv'
<1> DEFINE piece == SetFlowId(msg, f)
<1>1. piece \in ToStorageMessage /\ piece.type # "download_block"
  BY FromClientFields DEF ToStorageMessage, UploadBlockMessage
<1> HIDE DEF piece
<1>2. CASE StartBlock(f, msg)
  BY <1>2, StartBlockKeeps
<1>3. CASE TooFewServers(f, msg)
  BY <1>3, OnlyDiesKeeps DEF TooFewServers
<1>4. CASE RelayPiece(f, msg)
  BY <1>1, <1>4, OnlySentKeeps DEF RelayPiece, process, piece
<1>5. CASE RelayToExpired(f, msg)
  BY <1>1, <1>5, OnlySentKeeps DEF RelayToExpired, Dies, piece
<1> QED
  BY <1>2, <1>3, <1>4, <1>5 DEF HandleUploadBlock

(* A step that answers a client, and may move it to a state in which it    *)
(* neither uploads nor downloads.                                          *)
LEMMA OnlyAnsweredKeeps ==
  ASSUME IInv, LateStep, NEW f \in Flows,
         toClient' \in [Flows -> Seq(ClientMessage)],
         idStorage' \subseteq Seq(Md5s),
         \/ UNCHANGED clientState
         \/ /\ clientState[f] # "none"
            /\ \E x \in {"have_uploaded_all_blocks", "have_transfered_all_blocks"} :
                 clientState' = [clientState EXCEPT ![f] = x],
         UNCHANGED <<process, upload, download, storages, toStorage>>
  PROVE  IInv'
<1>1. TypeOK
  BY DEF IInv
<1>2. clientState' \in [Flows -> ClientStates]
  BY <1>1 DEF TypeOK, ClientStates
<1>3. TypeOK'
  BY <1>1, <1>2 DEF TypeOK, LateStep, LateOK, process, upload, download, storages
<1>4. \A g \in Flows :
        \/ clientState'[g] = clientState[g]
        \/ clientState[g] # "none"
           /\ clientState'[g] \in {"have_uploaded_all_blocks", "have_transfered_all_blocks"}
  BY <1>1 DEF TypeOK
<1>5. Fresh' /\ FreshDownload'
  BY <1>1, <1>4, FreshUnchanged, SameQueues DEF IInv, process, upload, download
<1>6. AnswerOwed'
  BY <1>4, OwedSame DEF IInv, upload, storages
<1>7. InOrder'
  BY <1>4, InOrderSame, SameQueues DEF IInv, download
<1> QED
  BY <1>3, <1>5, <1>6, <1>7 DEF IInv, LateStep

LEMMA HandleUploadAllBlocksKeeps ==
  ASSUME IInv, LateStep, NEW f \in Flows,
         clientState[f] # "none", HandleUploadAllBlocks(f)
  PROVE  IInv'
<1>1. TypeOK
  BY DEF IInv
<1>2. FileStorageSucc \in ClientMessage
  BY DEF FileStorageSucc, ClientMessage
<1>3. toClient' \in [Flows -> Seq(ClientMessage)]
  BY <1>1, <1>2, SendToClientTyped DEF HandleUploadAllBlocks
<1>4. idStorage' \subseteq Seq(Md5s)
  BY <1>1 DEF TypeOK, HandleUploadAllBlocks
<1>5. /\ clientState[f] # "none"
      /\ clientState' = [clientState EXCEPT ![f] = "have_uploaded_all_blocks"]
      /\ UNCHANGED <<process, upload, download, storages, toStorage>>
  BY DEF HandleUploadAllBlocks, SetClientState
<1> QED
  BY <1>3, <1>4, <1>5, OnlyAnsweredKeeps

LEMMA ExpireKeeps ==
  ASSUME IInv, LateStep, NEW f \in Flows, Expire(f) PROVE IInv'
<1>1. /\ TypeOK /\ expired[f] = "closing" /\ expired' = [expired EXCEPT ![f] = "yes"]
      /\ UNCHANGED <<process, idStorage, clientState, uploadingMd5s, transferingServers,
                     answered, download, storages, toClient, toStorage>>
  BY DEF IInv, Expire
<1>2. TypeOK'
  BY <1>1 DEF TypeOK, LateStep, LateOK, process, download, storages
<1>3. \A g \in Flows : expired'[g] = expired[g] \/ (expired[g] # "no" /\ expired'[g] # "no")
  BY <1>1 DEF TypeOK
<1>4. Fresh' /\ FreshDownload'
  <2>1. \A g \in Flows : Unused(g) =>
          /\ transferingServers'[g] = {} /\ expired'[g] = "no" /\ transferIndex'[g] = 0
          /\ \A s \in Servers : Asked(toStorage'[s], g) \subseteq Asked(toStorage[s], g)
    BY <1>1, <1>3 DEF IInv, Fresh, FreshDownload, download
  <2> QED
    BY <1>1, <2>1, FreshSame DEF IInv, process
<1>5. AnswerOwed'
  BY <1>1, <1>3 DEF IInv, AnswerOwed, Connected, Remaining, storages
<1>6. InOrder'
  BY <1>1, InOrderSame, SameQueues DEF IInv, download
<1> QED
  BY <1>2, <1>4, <1>5, <1>6 DEF IInv, LateStep

----------------------------------------------------------------------------
(* Download. *)

LEMMA HandleFileNotExistKeeps ==
  ASSUME IInv, LateStep, NEW f \in Flows, NEW msg \in FromClientMessage,
         msg.type = "download_request",
         HandleFileNotExist(f, msg)
  PROVE  IInv'
<1>1. TypeOK
  BY DEF IInv
<1>2. FileNotExist(msg.file_id) \in ClientMessage
  BY FromClientFields DEF FileNotExist, ClientMessage
<1>3. toClient' \in [Flows -> Seq(ClientMessage)]
  BY <1>1, <1>2, SendToClientTyped DEF HandleFileNotExist
<1>4. idStorage' \subseteq Seq(Md5s)
  BY <1>1 DEF TypeOK, HandleFileNotExist
<1>5. UNCHANGED <<clientState, process, upload, download, storages, toStorage>>
  BY DEF HandleFileNotExist
<1> QED
  BY <1>3, <1>4, <1>5, OnlyAnsweredKeeps

(* The first block wanted is asked for, of a flow that has asked for none. *)
LEMMA StartDownloadKeeps ==
  ASSUME IInv, LateStep, NEW f \in Flows, NEW msg,
         NEW need \in Seq(Md5s),
         clientState[f] = "init", StartDownload(f, msg, need)
  PROVE  IInv'
<1>1. /\ TypeOK /\ need # <<>>
      /\ clientState[f] = "init"
      /\ clientState' = [clientState EXCEPT ![f] = "waiting_transfer_block"]
      /\ transferingBlockMd5s' = [transferingBlockMd5s EXCEPT ![f] = need]
      /\ UNCHANGED <<process, idStorage, upload, transferIndex, storages, toClient>>
  BY DEF IInv, StartDownload, SetClientState
<1>2. transferIndex[f] = 0 /\ \A s \in Servers : Asked(toStorage[s], f) = {}
  BY <1>1 DEF IInv, FreshDownload, Unused
<1>3. need[1] \in Md5s /\ 0 < Len(need) /\ transferIndex[f] + 1 = 1
  BY <1>1, <1>2
<1>4. RequestBlock(f, need[1])
  BY <1>3 DEF StartDownload
<1>5. /\ toStorage' \in [Servers -> Seq(ToStorageMessage)]
      /\ \A g \in Flows \ {f}, s \in Servers :
           Asked(toStorage'[s], g) \subseteq Asked(toStorage[s], g)
      /\ \A s \in Servers : Asked(toStorage'[s], f) \subseteq Asked(toStorage[s], f) \cup {need[1]}
  BY <1>1, <1>3, <1>4, RequestBlockKeeps
<1>6. TypeOK'
  BY <1>1, <1>5 DEF TypeOK, LateStep, LateOK, ClientStates, process, upload, storages
<1>7. \A g \in Flows : g # f => /\ clientState'[g] = clientState[g]
                               /\ transferingBlockMd5s'[g] = transferingBlockMd5s[g]
  BY <1>1 DEF TypeOK
<1>8. clientState'[f] = "waiting_transfer_block" /\ transferingBlockMd5s'[f] = need
  BY <1>1 DEF TypeOK
<1>9. Unused(f)' => FALSE
  <2>1. f < nextFlow
    BY <1>1, FlowsAssumption DEF IInv, Fresh, TypeOK
  <2> QED
    BY <1>1, <1>8, <2>1, FlowsAssumption DEF Unused, process, TypeOK, LateStep, LateOK
<1>10. \A g \in Flows : Unused(g)' => g # f /\ Unused(g)
  BY <1>1, <1>7, <1>9 DEF Unused, process, LateStep
<1>11. Fresh'
  <2>1. \A g \in Flows : g >= nextFlow' => g # f
    BY <1>9 DEF Unused
  <2> QED
    BY <1>1, <1>7, <1>10, <2>1 DEF IInv, Fresh, process, upload
<1>12. FreshDownload'
  <2> SUFFICES ASSUME NEW g \in Flows, Unused(g)'
               PROVE  transferIndex'[g] = 0
                      /\ \A s \in Servers : Asked(toStorage'[s], g) = {}
    BY DEF FreshDownload
  <2>1. g # f /\ transferIndex[g] = 0 /\ \A s \in Servers : Asked(toStorage[s], g) = {}
    BY <1>10 DEF IInv, FreshDownload
  <2> QED
    BY <1>1, <1>5, <2>1
<1>13. AnswerOwed'
  BY <1>1, <1>7, <1>8, OwedSame DEF IInv, upload, storages
<1>14. InOrder'
  <2> SUFFICES ASSUME NEW g \in Flows, clientState'[g] = "waiting_transfer_block"
               PROVE  /\ transferIndex'[g] < Len(transferingBlockMd5s'[g])
                      /\ \A s \in Servers : Asked(toStorage'[s], g) \subseteq Wanted(g)'
    BY DEF InOrder
  <2>1. CASE g = f
    <3>1. need[1] \in Wanted(f)'
      BY <1>1, <1>2, <1>8 DEF Wanted
    <3> QED
      BY <1>1, <1>2, <1>3, <1>5, <1>8, <2>1, <3>1
  <2>2. CASE g # f
    <3>1. Wanted(g)' = Wanted(g)
      BY <1>1, <1>7, <2>2 DEF Wanted
    <3>2. /\ transferIndex[g] < Len(transferingBlockMd5s[g])
          /\ \A s \in Servers : Asked(toStorage[s], g) \subseteq Wanted(g)
      BY <1>7, <2>2 DEF IInv, InOrder
    <3> QED
      BY <1>1, <1>5, <1>7, <2>2, <3>1, <3>2
  <2> QED
    BY <2>1, <2>2
<1> QED
  BY <1>6, <1>11, <1>12, <1>13, <1>14 DEF IInv, LateStep

LEMMA HandleDownloadRequestKeeps ==
  ASSUME IInv, LateStep, NEW f \in Flows, NEW msg \in FromClientMessage,
         msg.type = "download_request",
         clientState[f] = "init", HandleDownloadRequest(f, msg)
  PROVE  IInv'
<1>1. CASE HandleFileNotExist(f, msg)
  BY <1>1, HandleFileNotExistKeeps
<1>2. ASSUME NEW need \in ReallyNeed(msg),
             \/ StartDownload(f, msg, need)
             \/ DownloadRefused(f, msg, need)
             \/ NothingToTransfer(f, msg, need)
      PROVE  IInv'
  <2>1. need \in Seq(Md5s)
    BY FromClientFields, KeptTyped DEF ReallyNeed
  <2>2. CASE StartDownload(f, msg, need)
    BY <2>1, <2>2, StartDownloadKeeps
  <2>3. CASE DownloadRefused(f, msg, need)
    BY <2>3, ClientOnCloseKeeps DEF DownloadRefused
  <2>4. CASE NothingToTransfer(f, msg, need)
    BY <2>4, OnlyDiesKeeps DEF NothingToTransfer
  <2> QED
    BY <1>2, <2>2, <2>3, <2>4
<1> QED
  BY <1>1, <1>2 DEF HandleDownloadRequest

(* The next block is asked for when the index has moved to it.             *)
LEMMA TransferNextBlockKeeps ==
  ASSUME IInv, LateStep, NEW f \in Flows,
         clientState[f] = "waiting_transfer_block", TransferNextBlock(f)
  PROVE  IInv'
<1>1. /\ TypeOK
      /\ clientState[f] = "waiting_transfer_block"
      /\ transferIndex[f] + 1 < Len(transferingBlockMd5s[f])
      /\ transferIndex' = [transferIndex EXCEPT ![f] = transferIndex[f] + 1]
      /\ RequestBlock(f, NextBlock(f))
      /\ UNCHANGED <<process, idStorage, clientState, upload, transferingBlockMd5s,
                     storages, toClient>>
  BY DEF IInv, TransferNextBlock, ContinueToTransfer, MoveToNextTransferBlockIndex
<1>2. /\ transferIndex[f] \in Nat /\ transferingBlockMd5s[f] \in Seq(Md5s)
      /\ transferIndex'[f] = transferIndex[f] + 1
      /\ \A g \in Flows : g # f => transferIndex'[g] = transferIndex[g]
      /\ transferIndex' \in [Flows -> Nat]
  BY <1>1 DEF TypeOK
<1>3. NextBlock(f) \in Md5s
  BY <1>1, <1>2 DEF NextBlock
<1>4. /\ toStorage' \in [Servers -> Seq(ToStorageMessage)]
      /\ \A g \in Flows \ {f}, s \in Servers :
           Asked(toStorage'[s], g) \subseteq Asked(toStorage[s], g)
      /\ \A s \in Servers :
           Asked(toStorage'[s], f) \subseteq Asked(toStorage[s], f) \cup {NextBlock(f)}
  BY <1>1, <1>3, RequestBlockKeeps
<1>5. TypeOK'
  BY <1>1, <1>2, <1>4 DEF TypeOK, LateStep, LateOK, process, upload, storages
<1>6. \A g \in Flows : Unused(g) => g # f
  BY <1>1 DEF IInv, Fresh, Unused, LateOK
<1>7. Fresh' /\ FreshDownload'
  <2>1. \A g \in Flows : Unused(g) =>
          /\ transferingServers'[g] = {} /\ expired'[g] = "no" /\ transferIndex'[g] = 0
          /\ \A s \in Servers : Asked(toStorage'[s], g) \subseteq Asked(toStorage[s], g)
    BY <1>1, <1>2, <1>4, <1>6 DEF IInv, Fresh, FreshDownload, upload
  <2> QED
    BY <1>1, <2>1, FreshSame DEF IInv, process
<1>8. AnswerOwed'
  BY <1>1, OwedSame DEF IInv, upload, storages
<1>9. InOrder'
  <2> SUFFICES ASSUME NEW g \in Flows, clientState'[g] = "waiting_transfer_block"
               PROVE  /\ transferIndex'[g] < Len(transferingBlockMd5s'[g])
                      /\ \A s \in Servers : Asked(toStorage'[s], g) \subseteq Wanted(g)'
    BY DEF InOrder
  <2>1. /\ transferIndex[g] < Len(transferingBlockMd5s[g])
        /\ \A s \in Servers : Asked(toStorage[s], g) \subseteq Wanted(g)
    BY <1>1 DEF IInv, InOrder
  <2>2. CASE g = f
    <3>1. NextBlock(f) \in Wanted(f)'
      BY <1>1, <1>2 DEF NextBlock, Wanted
    <3>2. Wanted(f) \subseteq Wanted(f)'
      BY <1>1, <1>2 DEF Wanted
    <3> QED
      BY <1>1, <1>2, <1>4, <2>1, <2>2, <3>1, <3>2
  <2>3. CASE g # f
    <3>1. Wanted(g)' = Wanted(g)
      BY <1>1, <1>2, <2>3 DEF Wanted
    <3> QED
      BY <1>1, <1>2, <1>4, <2>1, <2>3, <3>1
  <2> QED
    BY <2>2, <2>3
<1> QED
  BY <1>5, <1>7, <1>8, <1>9 DEF IInv, LateStep

LEMMA HandleTransferBlockAckKeeps ==
  ASSUME IInv, LateStep, NEW f \in Flows,
         clientState[f] = "waiting_transfer_block", HandleTransferBlockAck(f)
  PROVE  IInv'
<1>1. CASE TransferNextBlock(f)
  BY <1>1, TransferNextBlockKeeps
<1>2. CASE TransferRefused(f)
  BY <1>2, ClientOnCloseKeeps DEF TransferRefused
<1>3. CASE TransferEnds(f)
  <2>1. TypeOK
    BY DEF IInv
  <2>2. TransferAllBlocks \in ClientMessage
    BY DEF TransferAllBlocks, ClientMessage
  <2>3. toClient' \in [Flows -> Seq(ClientMessage)]
    BY <1>3, <2>1, <2>2, SendToClientTyped DEF TransferEnds
  <2>4. idStorage' \subseteq Seq(Md5s)
    BY <1>3, <2>1 DEF TypeOK, TransferEnds
  <2>5. /\ clientState[f] # "none"
        /\ clientState' = [clientState EXCEPT ![f] = "have_transfered_all_blocks"]
        /\ UNCHANGED <<process, upload, download, storages, toStorage>>
    BY <1>3 DEF TransferEnds, SetClientState
  <2> QED
    BY <2>3, <2>4, <2>5, OnlyAnsweredKeeps
<1> QED
  BY <1>1, <1>2, <1>3 DEF HandleTransferBlockAck

LEMMA ClientHandlesKeeps ==
  ASSUME IInv, LateStep, NEW f \in Flows, NEW msg \in FromClientMessage, ClientHandles(f, msg)
  PROVE  IInv'
<1>1. CASE ClientMessageError(f, msg)
  BY <1>1, ClientOnCloseKeeps DEF ClientMessageError
<1>2. CASE /\ clientState[f] = "init"
           /\ \/ msg.type = "upload_request" /\ HandleUploadRequest(f, msg)
              \/ msg.type = "download_request" /\ HandleDownloadRequest(f, msg)
  BY <1>2, HandleUploadRequestKeeps, HandleDownloadRequestKeeps
<1>3. CASE /\ clientState[f] = "waiting_upload_block"
           /\ \/ msg.type = "upload_block" /\ HandleUploadBlock(f, msg)
              \/ msg.type = "upload_all_blocks" /\ HandleUploadAllBlocks(f)
  <2>1. ~Unused(f)
    BY <1>3 DEF IInv, Fresh, LateOK, Unused
  <2> QED
    BY <1>3, <2>1, HandleUploadBlockKeeps, HandleUploadAllBlocksKeeps
<1>4. CASE clientState[f] = "waiting_transfer_block" /\ HandleTransferBlockAck(f)
  BY <1>4, HandleTransferBlockAckKeeps
<1> QED
  BY <1>1, <1>2, <1>3, <1>4 DEF ClientHandles

----------------------------------------------------------------------------
(* The last message of a client that is gone. *)

LEMMA RequestIfStoredKeeps ==
  ASSUME TypeOK, NEW f \in Flows, NEW m \in Md5s, RequestIfStored(f, m)
  PROVE  /\ toStorage' \in [Servers -> Seq(ToStorageMessage)]
         /\ \A g \in Flows \ {f}, s \in Servers :
              Asked(toStorage'[s], g) \subseteq Asked(toStorage[s], g)
<1>1. CASE RequestBlock(f, m)
  BY <1>1, RequestBlockKeeps
<1>2. CASE UNCHANGED toStorage
  BY <1>2 DEF TypeOK
<1> QED
  BY <1>1, <1>2 DEF RequestIfStored

(* It may ask for one more block, for a flow that is not downloading.      *)
LEMMA LateAskKeeps ==
  ASSUME IInv, LateStep, NEW f \in Flows, NEW m \in Md5s, RequestIfStored(f, m),
         clientState[f] = "none", ~Unused(f)',
         transferingBlockMd5s' \in [Flows -> Seq(Md5s)], transferIndex' \in [Flows -> Nat],
         \A g \in Flows : g # f => /\ transferingBlockMd5s'[g] = transferingBlockMd5s[g]
                                   /\ transferIndex'[g] = transferIndex[g],
         UNCHANGED <<process, idStorage, clientState, upload, storages, toClient>>
  PROVE  IInv'
<1>1. TypeOK
  BY DEF IInv
<1>2. /\ toStorage' \in [Servers -> Seq(ToStorageMessage)]
      /\ \A g \in Flows \ {f}, s \in Servers :
           Asked(toStorage'[s], g) \subseteq Asked(toStorage[s], g)
  BY <1>1, RequestIfStoredKeeps
<1>3. TypeOK'
  BY <1>1, <1>2 DEF TypeOK, LateStep, LateOK, process, upload, storages
<1>4. \A g \in Flows : Unused(g)' => g # f /\ Unused(g)
  BY DEF Unused, process, LateStep
<1>5. Fresh'
  BY <1>4 DEF IInv, Fresh, process, upload
<1>6. FreshDownload'
  <2> SUFFICES ASSUME NEW g \in Flows, Unused(g)'
               PROVE  transferIndex'[g] = 0
                      /\ \A s \in Servers : Asked(toStorage'[s], g) = {}
    BY DEF FreshDownload
  <2>1. g # f /\ transferIndex[g] = 0 /\ \A s \in Servers : Asked(toStorage[s], g) = {}
    BY <1>4 DEF IInv, FreshDownload
  <2> QED
    BY <1>2, <2>1
<1>7. AnswerOwed'
  BY OwedSame DEF IInv, upload, storages
<1>8. InOrder'
  <2> SUFFICES ASSUME NEW g \in Flows, clientState'[g] = "waiting_transfer_block"
               PROVE  /\ transferIndex'[g] < Len(transferingBlockMd5s'[g])
                      /\ \A s \in Servers : Asked(toStorage'[s], g) \subseteq Wanted(g)'
    BY DEF InOrder
  <2>1. g # f /\ Wanted(g)' = Wanted(g)
    BY DEF Wanted
  <2>2. /\ transferIndex[g] < Len(transferingBlockMd5s[g])
        /\ \A s \in Servers : Asked(toStorage[s], g) \subseteq Wanted(g)
    BY DEF IInv, InOrder
  <2> QED
    BY <1>2, <2>1, <2>2
<1> QED
  BY <1>3, <1>5, <1>6, <1>7, <1>8 DEF IInv, LateStep

LEMMA LateRecordKeeps ==
  ASSUME IInv, LateStep, NEW f \in Flows, LateRecord(f) PROVE IInv'
<1>1. TypeOK
  BY DEF IInv
<1>2. toClient' \in [Flows -> Seq(ClientMessage)] /\ idStorage' \subseteq Seq(Md5s)
  BY <1>1 DEF TypeOK, LateRecord
<1> QED
  BY <1>2, OnlyAnsweredKeeps DEF LateRecord

LEMMA LateStartKeeps ==
  ASSUME IInv, LateStep, NEW f \in Flows, NEW need \in Seq(Md5s),
         lateState[f] = "init", ~Unused(f)', LateStart(f, need)
  PROVE  IInv'
<1>1. /\ TypeOK /\ need # <<>> /\ clientState[f] = "none"
      /\ transferingBlockMd5s' = [transferingBlockMd5s EXCEPT ![f] = need]
      /\ UNCHANGED <<process, idStorage, clientState, upload, transferIndex, storages, toClient>>
  BY DEF IInv, LateStart, LateOK
<1>2. transferIndex[f] = 0
  BY DEF IInv, FreshDownload, Unused
<1>3. need[1] \in Md5s /\ transferIndex[f] + 1 = 1
  BY <1>1, <1>2
<1>4. RequestIfStored(f, need[1])
  BY <1>3 DEF LateStart
<1>5. /\ transferingBlockMd5s' \in [Flows -> Seq(Md5s)] /\ transferIndex' \in [Flows -> Nat]
      /\ \A g \in Flows : g # f => /\ transferingBlockMd5s'[g] = transferingBlockMd5s[g]
                                   /\ transferIndex'[g] = transferIndex[g]
  BY <1>1 DEF TypeOK
<1> QED
  BY <1>1, <1>3, <1>4, <1>5, LateAskKeeps

LEMMA LateNextBlockKeeps ==
  ASSUME IInv, LateStep, NEW f \in Flows, clientState[f] = "none", ~Unused(f)', LateNextBlock(f)
  PROVE  IInv'
<1>1. /\ TypeOK
      /\ transferIndex[f] + 1 < Len(transferingBlockMd5s[f])
      /\ transferIndex' = [transferIndex EXCEPT ![f] = transferIndex[f] + 1]
      /\ RequestIfStored(f, NextBlock(f))
      /\ UNCHANGED <<process, idStorage, clientState, upload, transferingBlockMd5s,
                     storages, toClient>>
  BY DEF IInv, LateNextBlock, ContinueToTransfer, MoveToNextTransferBlockIndex
<1>2. /\ transferIndex[f] \in Nat /\ transferingBlockMd5s[f] \in Seq(Md5s)
      /\ transferIndex' \in [Flows -> Nat] /\ transferingBlockMd5s' \in [Flows -> Seq(Md5s)]
      /\ \A g \in Flows : g # f => /\ transferingBlockMd5s'[g] = transferingBlockMd5s[g]
                                   /\ transferIndex'[g] = transferIndex[g]
  BY <1>1 DEF TypeOK
<1>3. NextBlock(f) \in Md5s
  BY <1>1, <1>2 DEF NextBlock
<1> QED
  BY <1>1, <1>2, <1>3, LateAskKeeps

LEMMA LateMessageKeeps ==
  ASSUME IInv, LateStep, NEW f \in Flows, NEW msg \in FromClientMessage, LateMessage(f, msg)
  PROVE  IInv'
<1>1. /\ LateHandles(f, msg)
      /\ lateState[f] # "none" /\ lateState' = [lateState EXCEPT ![f] = "handled"]
  BY DEF LateMessage
<1>2. clientState[f] = "none" /\ ~(f >= nextFlow) /\ lateState'[f] = "handled"
  BY <1>1 DEF IInv, LateOK
<1>3. UNCHANGED <<nextFlow, clientState>> => ~Unused(f)'
  BY <1>2 DEF Unused
<1>4. CASE lateState[f] = "waiting_upload_block" /\ msg.type = "upload_block"
           /\ HandleUploadBlock(f, msg)
  <2>1. ~Unused(f)
    BY <1>2, <1>4 DEF Unused
  <2> QED
    BY <1>4, <2>1, HandleUploadBlockKeeps
<1>5. CASE LateRecord(f)
  BY <1>5, LateRecordKeeps
<1>6. ASSUME lateState[f] = "init", msg.type = "download_request",
             NEW need \in ReallyNeed(msg),
             LateStart(f, need) \/ NothingToTransfer(f, msg, need)
      PROVE  IInv'
  <2>1. need \in Seq(Md5s)
    BY <1>6, FromClientFields, KeptTyped DEF ReallyNeed
  <2>2. CASE LateStart(f, need)
    <3>1. ~Unused(f)'
      BY <1>3, <2>2 DEF LateStart, process
    <3> QED
      BY <1>6, <2>1, <2>2, <3>1, LateStartKeeps
  <2>3. CASE NothingToTransfer(f, msg, need)
    BY <2>3, OnlyDiesKeeps DEF NothingToTransfer
  <2> QED
    BY <1>6, <2>2, <2>3
<1>7. CASE LateNextBlock(f)
  <2>1. ~Unused(f)'
    BY <1>3, <1>7 DEF LateNextBlock, process
  <2> QED
    BY <1>2, <1>7, <2>1, LateNextBlockKeeps
<1>8. CASE LateIgnored(f, msg)
  <2>1. toClient' \in [Flows -> Seq(ClientMessage)] /\ idStorage' \subseteq Seq(Md5s)
    BY <1>8 DEF IInv, TypeOK, LateIgnored
  <2> QED
    BY <1>8, <2>1, OnlyAnsweredKeeps DEF LateIgnored
<1> QED
  BY <1>1, <1>4, <1>5, <1>6, <1>7, <1>8 DEF LateHandles

----------------------------------------------------------------------------
(* Storage servers come and go. *)

LEMMA CallBackKeeps ==
  ASSUME TypeOK, NEW called \in SUBSET Flows, NEW succ \in BOOLEAN, NEW md5,
         \A f \in called : md5[f] \in AnyMd5,
         CallBack(called, succ, md5)
  PROVE  /\ answered' \in [Flows -> BOOLEAN]
         /\ toClient' \in [Flows -> Seq(ClientMessage)]
         /\ \A f \in Flows : answered[f] => answered'[f]
         /\ \A f \in called : clientState[f] # "none" => answered'[f]
<1>1. \A m \in AnyMd5 : Reply(succ, m) \in ClientMessage
  BY DEF Reply, UploadBlockAck, UploadBlockFail, ClientMessage, AnyMd5
<1>2. toClient \in [Flows -> Seq(ClientMessage)] /\ answered \in [Flows -> BOOLEAN]
  BY DEF TypeOK
<1>3. \A f \in Flows : f \in Notified(called) => Append(toClient[f], Reply(succ,
md5[f])) \in Seq(ClientMessage)
  BY <1>1, <1>2 DEF Notified
<1>4. toClient' \in [Flows -> Seq(ClientMessage)]
  BY <1>2, <1>3 DEF CallBack
<1>5. answered' = [f \in Flows |-> answered[f] \/ f \in Notified(called)]
  BY DEF CallBack
<1>6. answered' \in [Flows -> BOOLEAN]
  BY <1>2, <1>5
<1>7. \A f \in Flows : answered[f] \/ f \in Notified(called) => answered'[f]
  BY <1>5
<1> QED
  BY <1>4, <1>6, <1>7 DEF Notified

LEMMA StorageOnConnectionKeeps ==
  ASSUME IInv, LateStep, NEW s \in Servers, StorageOnConnection(s) PROVE IInv'
<1>1. /\ TypeOK
      /\ storageState[s] = "none"
      /\ storageState' = [storageState EXCEPT ![s] = "waiting_block_set"]
      /\ storageMd5s' = [storageMd5s EXCEPT ![s] = {}]
      /\ blockAckCallbacks' = [blockAckCallbacks EXCEPT ![s] = NoCallbacks]
      /\ toStorage' = [toStorage EXCEPT ![s] = <<>>]
      /\ UNCHANGED <<process, idStorage, clientState, upload, download, toClient>>
  BY DEF IInv, StorageOnConnection
<1>2. NoCallbacks \in [AnyMd5 -> SUBSET Flows]
  BY DEF NoCallbacks
<1>3. TypeOK'
  BY <1>1, <1>2 DEF TypeOK, LateStep, LateOK, process, upload, download
<1>4. AskedShrinks
  <2>1. \A t \in Servers : toStorage'[t] = toStorage[t] \/ toStorage'[t] = <<>>
    BY <1>1 DEF TypeOK
  <2>2. \A f : Asked(<<>>, f) = {}
    BY DEF Asked
  <2> QED
    BY <2>1, <2>2 DEF AskedShrinks
<1>5. Fresh' /\ FreshDownload'
  BY <1>1, <1>4, FreshUnchanged DEF IInv, process, upload, download
<1>6. AnswerOwed'
  <2>1. \A t \in Connected : t # s /\ t \in Connected' /\ Remaining(t)' = Remaining(t)
    BY <1>1 DEF TypeOK, Connected, Remaining
  <2> QED
    BY <1>1, <2>1 DEF IInv, AnswerOwed, upload
<1>7. InOrder'
  BY <1>1, <1>4, InOrderSame DEF IInv, download
<1> QED
  BY <1>3, <1>5, <1>6, <1>7 DEF IInv, LateStep

(* Every flow with a callback on the server that goes is answered.         *)
LEMMA StorageOnCloseKeeps ==
  ASSUME IInv, LateStep, NEW s \in Servers, StorageOnClose(s) PROVE IInv'
<1>1. /\ TypeOK
      /\ HandleRemainEvent(s)
      /\ storageState' = [storageState EXCEPT ![s] = "none"]
      /\ storageMd5s' = [storageMd5s EXCEPT ![s] = {}]
      /\ blockAckCallbacks' = [blockAckCallbacks EXCEPT ![s] = NoCallbacks]
      /\ transferingServers' = [f \in Flows |-> transferingServers[f] \ {s}]
      /\ expired' = [f \in Flows |->
           IF s \in transferingServers[f] /\ expired[f] = "no" THEN "closing" ELSE expired[f]]
      /\ toStorage' \in Truncated(toStorage, s)
      /\ UNCHANGED <<process, idStorage, clientState, uploadingMd5s, download>>
  BY DEF IInv, StorageOnClose
<1>2. Remaining(s) \in SUBSET Flows
  BY <1>1 DEF Remaining, TypeOK
<1>3. \A f \in Remaining(s) : RemainingMd5(s, f) \in AnyMd5
  BY DEF Remaining, RemainingMd5
<1>4. /\ answered' \in [Flows -> BOOLEAN]
      /\ toClient' \in [Flows -> Seq(ClientMessage)]
      /\ \A f \in Flows : answered[f] => answered'[f]
      /\ \A f \in Remaining(s) : clientState[f] # "none" => answered'[f]
  <2> DEFINE md5 == [f \in Remaining(s) |-> RemainingMd5(s, f)]
  <2>1. \A f \in Remaining(s) : md5[f] \in AnyMd5
    BY <1>3
  <2>2. CallBack(Remaining(s), FALSE, md5)
    BY <1>1 DEF HandleRemainEvent
  <2> HIDE DEF md5
  <2> QED
    BY <1>1, <1>2, <2>1, <2>2, CallBackKeeps
<1>5. toStorage' \in [Servers -> Seq(ToStorageMessage)] /\ AskedShrinks
  <2>1. toStorage \in [Servers -> Seq(ToStorageMessage)]
    BY <1>1 DEF TypeOK
  <2>2. /\ toStorage' \in [Servers -> Seq(ToStorageMessage)]
        /\ \A t \in Servers : \A i \in DOMAIN toStorage'[t] :
             \E j \in DOMAIN toStorage[t] : toStorage'[t][i] = toStorage[t][j]
    <3>1. PICK left \in Truncated(toStorage, s) : toStorage' = left
      BY <1>1
    <3>2. /\ left \in [Servers -> Seq(ToStorageMessage)]
          /\ \A t \in Servers : \A i \in DOMAIN left[t] :
               \E j \in DOMAIN toStorage[t] : left[t][i] = toStorage[t][j]
      BY <2>1, TruncatedTyped
    <3> QED
      BY <3>1, <3>2
  <2> QED
    BY <2>2, AskedPart DEF AskedShrinks
<1>6. NoCallbacks \in [AnyMd5 -> SUBSET Flows]
  BY DEF NoCallbacks
<1>7. /\ transferingServers' \in [Flows -> SUBSET Servers]
      /\ expired' \in [Flows -> {"no", "closing", "yes"}]
      /\ \A f \in Flows : transferingServers[f] = {} /\ expired[f] = "no"
                            => transferingServers'[f] = {} /\ expired'[f] = "no"
  BY <1>1 DEF TypeOK
<1>8. TypeOK'
  BY <1>1, <1>4, <1>5, <1>6, <1>7 DEF TypeOK, LateStep, LateOK, process, download
<1>9. Fresh' /\ FreshDownload'
  <2>1. \A f \in Flows : Unused(f) =>
          /\ transferingServers'[f] = {} /\ expired'[f] = "no" /\ transferIndex'[f] = 0
          /\ \A t \in Servers : Asked(toStorage'[t], f) \subseteq Asked(toStorage[t], f)
    BY <1>1, <1>5, <1>7 DEF IInv, Fresh, FreshDownload, AskedShrinks, download
  <2> QED
    BY <1>1, <2>1, FreshSame DEF IInv, process
<1>10. AnswerOwed'
  <2> SUFFICES ASSUME NEW f \in Flows, clientState'[f] = "waiting_upload_block",
                      transferingServers'[f] # {} \/ expired'[f] # "no", ~answered'[f]
               PROVE  \E t \in Connected' : f \in Remaining(t)'
    BY DEF AnswerOwed
  <2>1. f \notin Remaining(s) /\ ~answered[f]
    BY <1>1, <1>4
  <2>2. transferingServers[f] # {} \/ expired[f] # "no"
    BY <1>7
  <2>3. PICK t \in Connected : f \in Remaining(t)
    BY <1>1, <2>1, <2>2 DEF IInv, AnswerOwed
  <2>4. t # s /\ t \in Connected'
    BY <1>1, <2>1, <2>3 DEF Connected, TypeOK
  <2>5. f \in Remaining(t)'
    BY <1>1, <2>3, <2>4 DEF Remaining, TypeOK, Connected
  <2> QED
    BY <2>4, <2>5
<1>11. InOrder'
  BY <1>1, <1>5, InOrderSame DEF IInv, download
<1> QED
  BY <1>8, <1>9, <1>10, <1>11 DEF IInv, LateStep

LEMMA HandleTransferBlockSetKeeps ==
  ASSUME IInv, LateStep, NEW s \in Servers, NEW msg \in StorageMessage, HandleTransferBlockSet(s,
         msg)
  PROVE  IInv'
<1>1. /\ TypeOK
      /\ msg.md5s \in SUBSET Md5s
      /\ storageState[s] = "waiting_block_set"
      /\ storageMd5s' = [storageMd5s EXCEPT ![s] = storageMd5s[s] \cup msg.md5s]
      /\ UNCHANGED <<process, idStorage, clientState, upload, download,
                     blockAckCallbacks, toClient, toStorage>>
  BY FromStorageFields DEF IInv, HandleTransferBlockSet, PushStorageMd5
<1>2. PICK x \in {"waiting_block_set", "working"} : storageState' = [storageState EXCEPT ![s] = x]
  BY DEF HandleTransferBlockSet, AfterBlockSet
<1>3. storageMd5s' \in [Servers -> SUBSET AnyMd5]
  BY <1>1 DEF TypeOK, AnyMd5
<1>4. TypeOK'
  BY <1>1, <1>2, <1>3 DEF TypeOK, LateStep, LateOK, process, upload, download
<1>5. Fresh' /\ FreshDownload'
  BY <1>1, FreshUnchanged, SameQueues DEF IInv, process, upload, download
<1>6. AnswerOwed'
  <2>1. Connected' = Connected
    BY <1>1, <1>2 DEF TypeOK, Connected
  <2> QED
    BY <1>1, <2>1 DEF IInv, AnswerOwed, Remaining, upload
<1>7. InOrder'
  BY <1>1, InOrderSame, SameQueues DEF IInv, download
<1> QED
  BY <1>4, <1>5, <1>6, <1>7 DEF IInv, LateStep

(* An acknowledgement or a failure: who was called back is answered, who   *)
(* was not keeps its callbacks.                                            *)
LEMMA BlockAnsweredKeeps ==
  ASSUME IInv, LateStep, NEW s \in Servers, NEW m \in AnyMd5, NEW succ \in BOOLEAN,
         CallBack(blockAckCallbacks[s][m], succ, [f \in Flows |-> m]),
         blockAckCallbacks' = Erased(s, m),
         storageMd5s' \in [Servers -> SUBSET AnyMd5],
         UNCHANGED <<process, idStorage, clientState, uploadingMd5s, transferingServers,
                     expired, download, storageState, toStorage>>
  PROVE  IInv'
<1> DEFINE called == blockAckCallbacks[s][m]
           md5 == [f \in Flows |-> m]
<1>1. TypeOK /\ blockAckCallbacks \in [Servers -> [AnyMd5 -> SUBSET Flows]]
  BY DEF IInv, TypeOK
<1>2. called \in SUBSET Flows
  BY <1>1
<1>3. \A f \in called : md5[f] \in AnyMd5
  BY <1>2
<1>4. CallBack(called, succ, md5)
  OBVIOUS
<1> HIDE DEF called, md5
<1>5. /\ answered' \in [Flows -> BOOLEAN]
      /\ toClient' \in [Flows -> Seq(ClientMessage)]
      /\ \A f \in Flows : answered[f] => answered'[f]
      /\ \A f \in called : clientState[f] # "none" => answered'[f]
  BY <1>1, <1>2, <1>3, <1>4, CallBackKeeps
<1>6. blockAckCallbacks' = [blockAckCallbacks EXCEPT
        ![s] = [blockAckCallbacks[s] EXCEPT ![m] = {}]]
  BY DEF Erased
<1>7. blockAckCallbacks' \in [Servers -> [AnyMd5 -> SUBSET Flows]]
  BY <1>1, <1>6
<1>8. \A t \in Servers, x \in AnyMd5 :
        blockAckCallbacks[t][x] \ called \subseteq blockAckCallbacks'[t][x]
  BY <1>1, <1>6 DEF called
<1>9. \A t \in Servers : Remaining(t) \ called \subseteq Remaining(t)'
  BY <1>8 DEF Remaining
<1>10. TypeOK'
  BY <1>1, <1>5, <1>7 DEF TypeOK, LateStep, LateOK, process, download
<1>11. Fresh' /\ FreshDownload'
  BY <1>1, FreshUnchanged, SameQueues DEF IInv, process, download
<1>12. AnswerOwed'
  <2> SUFFICES ASSUME NEW f \in Flows, clientState'[f] = "waiting_upload_block",
                      transferingServers'[f] # {} \/ expired'[f] # "no", ~answered'[f]
               PROVE  \E t \in Connected' : f \in Remaining(t)'
    BY DEF AnswerOwed
  <2>1. f \notin called /\ ~answered[f]
    BY <1>5
  <2>2. PICK t \in Connected : f \in Remaining(t)
    BY <2>1 DEF IInv, AnswerOwed
  <2>3. t \in Servers /\ Connected' = Connected
    BY DEF Connected
  <2> QED
    BY <1>9, <2>1, <2>2, <2>3
<1>13. InOrder'
  BY InOrderSame, SameQueues DEF IInv, download
<1> QED
  BY <1>10, <1>11, <1>12, <1>13 DEF IInv, LateStep

LEMMA HandleUploadBlockAckKeeps ==
  ASSUME IInv, LateStep, NEW s \in Servers, NEW msg \in StorageMessage, HandleUploadBlockAck(s, msg)
  PROVE  IInv'
<1>1. msg.md5 \in Md5s /\ msg.md5 \in AnyMd5
  BY FromStorageFields DEF HandleUploadBlockAck, AnyMd5
<1>2. storageMd5s' \in [Servers -> SUBSET AnyMd5]
  <2>1. storageMd5s \in [Servers -> SUBSET AnyMd5]
    BY DEF IInv, TypeOK
  <2>2. storageMd5s' = [storageMd5s EXCEPT ![s] = storageMd5s[s] \cup {msg.md5}]
    BY DEF HandleUploadBlockAck, PushStorageMd5
  <2> QED
    BY <1>1, <2>1, <2>2
<1> QED
  BY <1>1, <1>2, BlockAnsweredKeeps DEF HandleUploadBlockAck

LEMMA HandleUploadBlockFailKeeps ==
  ASSUME IInv, LateStep, NEW s \in Servers, NEW msg \in StorageMessage, HandleUploadBlockFail(s,
         msg)
  PROVE  IInv'
<1>1. msg.md5 \in AnyMd5
  BY FromStorageFields DEF HandleUploadBlockFail
<1>2. storageMd5s' \in [Servers -> SUBSET AnyMd5]
  BY DEF IInv, TypeOK, HandleUploadBlockFail
<1> QED
  BY <1>1, <1>2, BlockAnsweredKeeps DEF HandleUploadBlockFail

LEMMA NamelessFailKeeps ==
  ASSUME IInv, LateStep, NEW s \in Servers, NEW msg, NamelessFail(s, msg)
  PROVE  IInv'
BY OnlyDiesKeeps DEF NamelessFail

(* Steps that change what is on its way to clients only.                   *)
LEMMA OnlyToClientKeeps ==
  ASSUME IInv, LateStep, toClient' \in [Flows -> Seq(ClientMessage)],
         UNCHANGED <<process, idStorage, clientState, upload, download, storages, toStorage>>
  PROVE  IInv'
<1>1. TypeOK'
  BY DEF IInv, TypeOK, LateStep, LateOK, process, upload, download, storages
<1>2. Fresh' /\ FreshDownload'
  BY FreshUnchanged, SameQueues DEF IInv, process, upload, download
<1>3. AnswerOwed'
  BY OwedSame DEF IInv, upload, storages
<1>4. InOrder'
  BY InOrderSame, SameQueues DEF IInv, download
<1> QED
  BY <1>1, <1>2, <1>3, <1>4 DEF IInv, LateStep

LEMMA HandleTransferBlockKeeps ==
  ASSUME IInv, LateStep, NEW s \in Servers, NEW msg \in StorageMessage, HandleTransferBlock(s, msg)
  PROVE  IInv'
<1>1. msg \in ClientMessage
  BY FromStorageFields DEF HandleTransferBlock
<1>2. toClient \in [Flows -> Seq(ClientMessage)]
  BY DEF IInv, TypeOK
<1>3. \A f \in Flows : Append(toClient[f], msg) \in Seq(ClientMessage)
  BY <1>1, <1>2
<1>4. toClient' \in [Flows -> Seq(ClientMessage)]
  BY <1>2, <1>3 DEF HandleTransferBlock
<1> QED
  BY <1>4, OnlyToClientKeeps DEF HandleTransferBlock

LEMMA StorageOnMessageKeeps ==
  ASSUME IInv, LateStep, NEW s \in Servers, NEW msg \in StorageMessage, StorageOnMessage(s, msg)
  PROVE  IInv'
BY HandleTransferBlockSetKeeps, HandleUploadBlockAckKeeps, HandleUploadBlockFailKeeps,
   NamelessFailKeeps, HandleTransferBlockKeeps, StorageOnCloseKeeps
   DEF StorageOnMessage, StorageMessageError

----------------------------------------------------------------------------
(* The other ends receive. *)

LEMMA ClientReceivesKeeps ==
  ASSUME IInv, LateStep, NEW f \in Flows, ClientReceives(f) PROVE IInv'
<1>1. toClient \in [Flows -> Seq(ClientMessage)] /\ toClient[f] # <<>>
  BY DEF IInv, TypeOK, ClientReceives
<1>2. Tail(toClient[f]) \in Seq(ClientMessage)
  BY <1>1
<1>3. toClient' \in [Flows -> Seq(ClientMessage)]
  BY <1>1, <1>2 DEF ClientReceives
<1> QED
  BY <1>3, OnlyToClientKeeps DEF ClientReceives

LEMMA StorageReceivesKeeps ==
  ASSUME IInv, LateStep, NEW s \in Servers, StorageReceives(s) PROVE IInv'
<1>1. /\ TypeOK
      /\ toStorage[s] # <<>> /\ toStorage' = [toStorage EXCEPT ![s] = Tail(toStorage[s])]
      /\ UNCHANGED <<process, idStorage, clientState, upload, download, storages, toClient>>
  BY DEF IInv, StorageReceives
<1>2. toStorage \in [Servers -> Seq(ToStorageMessage)]
  BY <1>1 DEF TypeOK
<1>3. /\ Tail(toStorage[s]) \in Seq(ToStorageMessage)
      /\ \A i \in DOMAIN Tail(toStorage[s]) :
           \E j \in DOMAIN toStorage[s] : Tail(toStorage[s])[i] = toStorage[s][j]
  BY <1>1, <1>2, TailPart
<1>4. toStorage' \in [Servers -> Seq(ToStorageMessage)] /\ AskedShrinks
  <2>1. \A f \in Flows : Asked(Tail(toStorage[s]), f) \subseteq Asked(toStorage[s], f)
    BY <1>3, AskedPart
  <2>2. \A t \in Servers :
          toStorage'[t] = IF t = s THEN Tail(toStorage[s]) ELSE toStorage[t]
    BY <1>1, <1>2
  <2>3. AskedShrinks
    BY <2>1, <2>2 DEF AskedShrinks
  <2> QED
    BY <1>1, <1>2, <1>3, <2>3
<1>5. TypeOK'
  BY <1>1, <1>4 DEF TypeOK, LateStep, LateOK, process, upload, download, storages
<1>6. Fresh' /\ FreshDownload'
  BY <1>1, <1>4, FreshUnchanged DEF IInv, process, upload, download
<1>7. AnswerOwed'
  BY <1>1, OwedSame DEF IInv, upload, storages
<1>8. InOrder'
  BY <1>1, <1>4, InOrderSame DEF IInv, download
<1> QED
  BY <1>5, <1>6, <1>7, <1>8 DEF IInv, LateStep

----------------------------------------------------------------------------
(* The theorems. *)

LEMMA InitIInv == Init => IInv
<1> SUFFICES ASSUME Init PROVE IInv
  OBVIOUS
<1>1. TypeOK
  BY RecordedAssumption DEF Init, TypeOK, ClientStates, NoCallbacks
<1>2. Fresh /\ FreshDownload
  BY DEF Init, Fresh, FreshDownload, Asked
<1>3. AnswerOwed /\ InOrder
  BY DEF Init, AnswerOwed, InOrder
<1>4. LateOK
  BY DEF Init, LateOK, ClientStates
<1> QED
  BY <1>1, <1>2, <1>3, <1>4 DEF IInv

(* A step of the proxy with any partners that keep to the protocol.        *)
ClientStep(f) ==
  \/ ClientOnConnection(f) \/ Expire(f) \/ ClientReceives(f)
  \/ ClientOnClose(f) /\ UNCHANGED lateState
  \/ ClientWriteFails(f)
  \/ \E msg \in FromClientMessage : ClientOnMessage(f, msg) \/ LateMessage(f, msg)
StorageStep(s) ==
  \/ StorageOnConnection(s) \/ StorageOnClose(s) \/ StorageReceives(s)
  \/ \E msg \in StorageMessage : StorageOnMessage(s, msg)
ProxyStep ==
  (\E f \in Flows : ClientStep(f)) \/ (\E s \in Servers : StorageStep(s)) \/ UNCHANGED pVars

(* A handler is given a connected client's message, and disconnects no     *)
(* other client.                                                           *)
LEMMA ClientHandlesLeaves ==
  ASSUME TypeOK, NEW f \in Flows, NEW msg, ClientHandles(f, msg)
  PROVE  /\ nextFlow' = nextFlow
         /\ \A g \in Flows : clientState[g] = "none" => clientState'[g] = "none"
<1>1. ASSUME ClientOnClose(f)
      PROVE  /\ nextFlow' = nextFlow
             /\ \A g \in Flows : clientState[g] = "none" => clientState'[g] = "none"
  BY <1>1 DEF ClientOnClose, SetClientState, process, TypeOK
<1>2. CASE ClientMessageError(f, msg)
  BY <1>1, <1>2 DEF ClientMessageError
<1>3. CASE clientState[f] = "init" /\ HandleUploadRequest(f, msg)
  BY <1>3 DEF HandleUploadRequest, SetClientState, process, TypeOK
<1>4. CASE clientState[f] = "init" /\ HandleDownloadRequest(f, msg)
  <2>1. CASE HandleFileNotExist(f, msg)
    BY <2>1 DEF HandleFileNotExist, process
  <2>2. ASSUME NEW need, StartDownload(f, msg, need)
        PROVE  /\ nextFlow' = nextFlow
               /\ \A g \in Flows : clientState[g] = "none" => clientState'[g] = "none"
    BY <1>4, <2>2 DEF StartDownload, SetClientState, process, TypeOK
  <2>3. ASSUME NEW need, NothingToTransfer(f, msg, need)
        PROVE  UNCHANGED <<nextFlow, clientState>>
    BY <2>3 DEF NothingToTransfer, Dies
  <2> QED
    BY <1>1, <1>4, <2>1, <2>2, <2>3 DEF HandleDownloadRequest, DownloadRefused
<1>5. CASE clientState[f] = "waiting_upload_block" /\ HandleUploadBlock(f, msg)
  BY <1>5 DEF HandleUploadBlock, StartBlock, TooFewServers, RelayPiece, RelayToExpired, Dies,
     process
<1>6. CASE clientState[f] = "waiting_upload_block" /\ HandleUploadAllBlocks(f)
  BY <1>6 DEF HandleUploadAllBlocks, SetClientState, process, TypeOK
<1>7. CASE clientState[f] = "waiting_transfer_block" /\ HandleTransferBlockAck(f)
  <2>1. CASE TransferNextBlock(f)
    BY <2>1 DEF TransferNextBlock, process
  <2>2. CASE TransferEnds(f)
    BY <1>7, <2>2 DEF TransferEnds, SetClientState, process, TypeOK
  <2> QED
    BY <1>1, <1>7, <2>1, <2>2 DEF HandleTransferBlockAck, TransferRefused
<1> QED
  BY <1>2, <1>3, <1>4, <1>5, <1>6, <1>7 DEF ClientHandles

(* No handler reconnects a client that is late.                            *)
LEMMA LateHandlesLeaves ==
  ASSUME NEW f \in Flows, NEW msg, LateHandles(f, msg)
  PROVE  UNCHANGED <<nextFlow, clientState>>
<1>1. ASSUME NEW need, LateStart(f, need) \/ NothingToTransfer(f, msg, need)
      PROVE  UNCHANGED <<nextFlow, clientState>>
  BY <1>1 DEF LateStart, NothingToTransfer, Dies, process
<1>2. CASE HandleUploadBlock(f, msg)
  BY <1>2 DEF HandleUploadBlock, StartBlock, TooFewServers, RelayPiece, RelayToExpired, Dies,
     process
<1>3. CASE LateRecord(f) \/ LateNextBlock(f) \/ LateIgnored(f, msg)
  BY <1>3 DEF LateRecord, LateNextBlock, LateIgnored, process
<1> QED
  BY <1>1, <1>2, <1>3 DEF LateHandles

LEMMA LateUnchanged ==
  ASSUME IInv, UNCHANGED lateState, nextFlow' = nextFlow,
         \A g \in Flows : clientState[g] = "none" => clientState'[g] = "none"
  PROVE  LateStep
BY DEF IInv, LateOK, LateStep, Unused

LEMMA ClientStepLate ==
  ASSUME IInv, NEW f \in Flows, ClientStep(f) PROVE LateStep
<1>1. TypeOK /\ LateOK
  BY DEF IInv
<1>2. CASE ClientOnConnection(f)
  <2>1. /\ f = nextFlow /\ nextFlow' = nextFlow + 1 /\ UNCHANGED lateState
        /\ \A g \in Flows : g # f => clientState'[g] = clientState[g]
    BY <1>1, <1>2 DEF ClientOnConnection, SetClientState, TypeOK
  <2>2. \A g \in Flows : lateState[g] # "none" => g # f /\ ~(g >= nextFlow')
    BY <1>1, <2>1, FlowsAssumption DEF LateOK, TypeOK
  <2> QED
    BY <1>1, <2>1, <2>2 DEF LateStep, LateOK, Unused
<1>3. CASE Expire(f)
  BY <1>3, LateUnchanged DEF Expire, process
<1>4. CASE ClientReceives(f)
  BY <1>4, LateUnchanged DEF ClientReceives, process
<1>5. CASE ClientOnClose(f) /\ UNCHANGED lateState
  BY <1>1, <1>5, LateUnchanged DEF ClientOnClose, SetClientState, process, TypeOK
<1>6. CASE ClientWriteFails(f)
  <2>1. /\ clientState[f] # "none" /\ clientState' = [clientState EXCEPT ![f] = "none"]
        /\ lateState' = [lateState EXCEPT ![f] = clientState[f]]
        /\ nextFlow' = nextFlow
    BY <1>6 DEF ClientWriteFails, ClientOnClose, SetClientState, process
  <2>2. /\ clientState'[f] = "none" /\ lateState'[f] = clientState[f]
        /\ ~(f >= nextFlow) /\ clientState[f] \in ClientStates
        /\ \A g \in Flows : g # f => /\ clientState'[g] = clientState[g]
                                     /\ lateState'[g] = lateState[g]
    BY <1>1, <2>1 DEF IInv, Fresh, TypeOK, LateOK
  <2>3. lateState' \in [Flows -> ClientStates \cup {"handled"}]
    BY <1>1, <2>1, <2>2 DEF LateOK
  <2>4. \A g \in Flows : lateState'[g] # "none" => ~(g >= nextFlow') /\ clientState'[g] = "none"
    BY <1>1, <2>1, <2>2 DEF LateOK
  <2> QED
    BY <2>2, <2>3, <2>4 DEF LateStep, LateOK, Unused
<1>7. ASSUME NEW msg, ClientOnMessage(f, msg) PROVE LateStep
  BY <1>1, <1>7, ClientHandlesLeaves, LateUnchanged DEF ClientOnMessage
<1>8. ASSUME NEW msg, LateMessage(f, msg) PROVE LateStep
  <2>1. /\ UNCHANGED <<nextFlow, clientState>>
        /\ lateState[f] # "none" /\ lateState' = [lateState EXCEPT ![f] = "handled"]
    BY <1>8, LateHandlesLeaves DEF LateMessage
  <2>2. \A g \in Flows : lateState'[g] \in {lateState[g], "handled"}
    BY <1>1, <2>1 DEF LateOK
  <2>3. \A g \in Flows : lateState'[g] # "none" => lateState[g] # "none"
    BY <1>1, <2>1 DEF LateOK
  <2>4. lateState' \in [Flows -> ClientStates \cup {"handled"}]
    BY <1>1, <2>1 DEF LateOK
  <2> QED
    BY <1>1, <2>1, <2>2, <2>3, <2>4 DEF LateStep, LateOK, Unused
<1> QED
  BY <1>2, <1>3, <1>4, <1>5, <1>6, <1>7, <1>8 DEF ClientStep

LEMMA StorageStepLate ==
  ASSUME IInv, NEW s \in Servers, StorageStep(s) PROVE LateStep
<1>1. ASSUME StorageOnClose(s) PROVE UNCHANGED <<lateState, nextFlow, clientState>>
  BY <1>1 DEF StorageOnClose, process
<1>2. ASSUME NEW msg, StorageOnMessage(s, msg)
      PROVE  UNCHANGED <<lateState, nextFlow, clientState>>
  BY <1>1, <1>2
  DEF StorageOnMessage, HandleTransferBlockSet, HandleUploadBlockAck, HandleUploadBlockFail,
      NamelessFail, Dies, HandleTransferBlock, StorageMessageError, process
<1>3. UNCHANGED <<lateState, nextFlow, clientState>>
  BY <1>1, <1>2 DEF StorageStep, StorageOnConnection, StorageReceives, process
<1> QED
  BY <1>3, LateUnchanged

(* All that is proved of the proxy holds whatever it is sent, in or beyond *)
(* the bounds of ClientSends and StorageSends.                             *)
LEMMA ProxyStepKeeps == IInv /\ ProxyStep => IInv'
<1> SUFFICES ASSUME IInv, ProxyStep PROVE IInv'
  OBVIOUS
<1>1. ASSUME NEW f \in Flows, ClientStep(f) PROVE IInv'
  <2>1. LateStep
    BY <1>1, ClientStepLate
  <2>2. ASSUME NEW msg \in FromClientMessage, ClientOnMessage(f, msg) PROVE IInv'
    BY <2>1, <2>2, ClientHandlesKeeps DEF ClientOnMessage
  <2>3. ASSUME NEW msg \in FromClientMessage, LateMessage(f, msg) PROVE IInv'
    BY <2>1, <2>3, LateMessageKeeps
  <2> QED
    BY <1>1, <2>1, <2>2, <2>3, ClientOnConnectionKeeps, ExpireKeeps, ClientOnCloseKeeps,
       ClientReceivesKeeps DEF ClientStep, ClientWriteFails
<1>2. ASSUME NEW s \in Servers, StorageStep(s) PROVE IInv'
  <2>1. LateStep
    BY <1>2, StorageStepLate
  <2> QED
    BY <1>2, <2>1, StorageOnConnectionKeeps, StorageOnCloseKeeps, StorageReceivesKeeps,
       StorageOnMessageKeeps DEF StorageStep
<1>3. CASE UNCHANGED pVars
  <2>1. LateStep
    BY <1>3, LateUnchanged DEF pVars, process
  <2> QED
    BY <1>3, <2>1, OnlyToClientKeeps DEF pVars, IInv, TypeOK
<1> QED
  BY <1>1, <1>2, <1>3 DEF ProxyStep

LEMMA NextIInv == IInv /\ [Next]_pVars => IInv'
<1> SUFFICES ASSUME IInv, [Next]_pVars PROVE ProxyStep
  BY ProxyStepKeeps
<1>1. ASSUME NEW f \in Flows, ClientSends(f) PROVE ClientStep(f)
  BY <1>1, ClientInputTyped DEF ClientSends, ClientStep
<1>2. ASSUME NEW s \in Servers, StorageSends(s) PROVE StorageStep(s)
  BY <1>2, StorageInputTyped DEF StorageSends, StorageStep
<1> QED
  BY <1>1, <1>2 DEF Next, ClientStep, StorageStep, ProxyStep

(* Every variable of the proxy has its type, whatever clients and storage  *)
(* servers send at whatever time: it relays no request for a block without *)
(* a name, and answers in the protocol's messages only.                    *)
THEOREM ProxyTypeCorrect == Spec => []TypeOK
<1>1. IInv => TypeOK
  BY DEF IInv
<1> QED
  BY <1>1, InitIInv, NextIInv, PTL DEF Spec

(* A client that has begun a block and was not answered has a callback on  *)
(* a connected server (subBlockAckEvent, pubBlockAckEvent and              *)
(* handleRemainEvent): connections that end answer it too.                 *)
THEOREM AnswerAlwaysOwed == Spec => []AnswerOwed
<1>1. IInv => AnswerOwed
  BY DEF IInv
<1> QED
  BY <1>1, InitIInv, NextIInv, PTL DEF Spec

LEMMA InOrderRequested == IInv => RequestedInOrder
<1> SUFFICES ASSUME IInv, NEW f \in Flows, clientState[f] = "waiting_transfer_block"
             PROVE  /\ transferIndex[f] < Len(transferingBlockMd5s[f])
                    /\ \A s \in Servers : \A i \in DOMAIN toStorage[s] :
                         toStorage[s][i].type = "download_block" /\ toStorage[s][i].flow_id = f
                           => toStorage[s][i].md5 \in Wanted(f)
  BY DEF RequestedInOrder, Wanted
<1>1. /\ transferIndex[f] < Len(transferingBlockMd5s[f])
      /\ \A s \in Servers : Asked(toStorage[s], f) \subseteq Wanted(f)
  BY DEF IInv, InOrder
<1> QED
  BY <1>1 DEF Asked

(* The index of a download stays within the blocks it wants, and no block  *)
(* is asked of a server before its turn (handleTransferBlockAckMsg).       *)
THEOREM BlocksRequestedInOrder == Spec => []RequestedInOrder
BY InOrderRequested, InitIInv, NextIInv, PTL DEF Spec
=============================================================================
