----------------------------- MODULE FileStorage -----------------------------
(***************************************************************************)
(* The whole system: the clients that upload (agents) and download, the    *)
(* proxy and the storage servers, connected by their TCP connections.      *)
(*                                                                         *)
(* A connection is a pair of queues: fromClient[f] and toClient[f] between *)
(* the client of flow f and the proxy, toStorage[s] and toProxy[s] between *)
(* the proxy and the server s.  A step receives the head of a queue and    *)
(* runs the receiver's handler to its end.  An end that finds its peer     *)
(* gone, and the queue from it empty, has read the end of the stream and   *)
(* runs its onClose.  Connecting is one step of both ends; a server that   *)
(* was restarted connects again when the proxy has dropped its old         *)
(* connection.                                                             *)
(***************************************************************************)
EXTENDS Protocol, SequencesExt

CONSTANTS
  BackupCount, Recorded, RequestBound, ReplyBound,     \* of Proxy.tla
  SetLimit, SocketBuffer, QueueBound, ContentBound,    \* of StorageServer.tla
  Unstable,      \* of Agent.tla
  FilesOf,       \* per flow: the files it may upload, as sequences of digests
  Downloads,     \* per flow: what it may ask for, <<a file, the blocks it holds>>
  Mortal,        \* the flows whose client may be killed
  CrashBound,    \* bound: how often storage servers die
  MayTear        \* whether one may die between the steps of storing a block

ASSUME ProxyAssumption == BackupCount \in Nat \ {0} /\ Recorded \subseteq Seq(Md5s)
ASSUME StorageAssumption ==
  /\ SetLimit \in Nat \ {0}
  /\ SocketBuffer \in Nat /\ QueueBound \in Nat /\ ContentBound \in Nat
ASSUME ClientsAssumption ==
  \A f \in Flows :
    FilesOf[f] \subseteq Seq(Md5s) /\ Downloads[f] \subseteq Seq(Md5s) \X Seq(Md5s)
ASSUME CrashAssumption == CrashBound \in Nat

VARIABLES
  proxyState, nextFlow, idStorage, clientState, lateState, uploadingMd5s,
  transferingServers, expired, answered, transferingBlockMd5s, transferIndex,
  storageState, storageMd5s, blockAckCallbacks, toClient, toStorage,
  sState, transferingMd5s, uploadingContext, downloadingMd5s,
  downloadingContext, writing, toProxy, md5_path, file,
  agentState, fileMd5s, uploadMd5s, uploadingIndex, pieceIndex,
  agentWriting, fromClient,
  downloadState, wantedFile, heldMd5s, output,
  crashes        \* how often storage servers have died

P == INSTANCE Proxy
S == INSTANCE StorageServer
A == INSTANCE Agent
D == INSTANCE Downloader

(* Each process's own state, and the queues. *)
proxy == <<proxyState, nextFlow, idStorage, clientState, lateState, uploadingMd5s,
           transferingServers, expired, answered, transferingBlockMd5s, transferIndex,
           storageState, storageMd5s, blockAckCallbacks>>
servers == <<sState, transferingMd5s, uploadingContext, downloadingMd5s,
             downloadingContext, writing, md5_path, file>>
agents == <<agentState, fileMd5s, uploadMd5s, uploadingIndex, pieceIndex, agentWriting>>
downloaders == <<downloadState, wantedFile, heldMd5s, output>>
clients == <<agents, downloaders>>
vars == <<proxy, servers, clients, toClient, toStorage, toProxy, fromClient, crashes>>

(* The blocks of the files recorded are on the disks. *)
Init ==
  /\ P!Init /\ S!Init /\ A!Init /\ D!Init
  /\ \A id \in Recorded : \A i \in DOMAIN id : \E s \in Servers : id[i] \in md5_path[s]
  /\ crashes = 0

----------------------------------------------------------------------------
(* Connecting. *)

AgentConnects(f) ==
  /\ P!ClientOnConnection(f)
  /\ \E md5s \in FilesOf[f] : A!OnConnection(f, md5s)
  /\ UNCHANGED <<downloaders, servers, toProxy, crashes>>

DownloaderConnects(f) ==
  /\ P!ClientOnConnection(f)
  /\ \E wish \in Downloads[f] : D!OnConnection(f, wish[1], wish[2])
  /\ UNCHANGED <<agents, servers, toProxy, crashes>>

ServerConnects(s) ==
  /\ P!StorageOnConnection(s)
  /\ S!OnConnection(s)
  /\ UNCHANGED <<clients, fromClient, crashes>>

----------------------------------------------------------------------------
(* Messages and completed writes. *)

ProxyReadsClient(f) ==
  /\ fromClient[f] # <<>>
  /\ clientState[f] # "none"
  /\ P!ClientOnMessage(f, Head(fromClient[f]))
  /\ fromClient' = [fromClient EXCEPT ![f] = Tail(@)]
  /\ UNCHANGED <<servers, clients, toProxy, crashes>>

ProxyReadsStorage(s) ==
  /\ toProxy[s] # <<>>
  /\ P!StorageOnMessage(s, Head(toProxy[s]))
  /\ toProxy' = [toProxy EXCEPT ![s] = Tail(@)]
  /\ UNCHANGED <<servers, clients, fromClient, crashes>>

SessionDestroyed(f) ==
  /\ P!Expire(f)
  /\ UNCHANGED <<servers, clients, toProxy, fromClient, crashes>>

StorageHandles(s, msg) ==
  \/ msg.type = "upload_block" /\ S!OnUploadBlock(s, msg)
  \/ /\ msg.type = "download_block"
     /\ S!OnDownLoadBlock(s, msg) \/ S!ExitOnDownLoadBlock(s, msg)
  \/ msg.type = "client_clean" /\ S!OnClientClean(s, msg)

StorageReads(s) ==
  /\ toStorage[s] # <<>>
  /\ StorageHandles(s, Head(toStorage[s]))
  /\ toStorage' = [toStorage EXCEPT ![s] = Tail(@)]
  /\ UNCHANGED <<proxy, clients, toClient, fromClient, crashes>>

StorageWrote(s) ==
  /\ S!OnWriteComplete(s)
  /\ UNCHANGED <<proxy, clients, toClient, toStorage, fromClient, crashes>>

(* The proxy destroys a closed session before it reads what is sent to it  *)
(* after that; what an agent does meanwhile may as well be done then.      *)
Settled(f) == proxyState = "running" => expired[f] # "closing"

AgentReads(f) ==
  /\ toClient[f] # <<>>
  /\ Settled(f)
  /\ A!OnMessage(f, Head(toClient[f]))
  /\ toClient' = [toClient EXCEPT ![f] = Tail(@)]
  /\ UNCHANGED <<downloaders, proxy, servers, toStorage, toProxy, crashes>>

AgentWrote(f) ==
  /\ Settled(f)
  /\ A!OnWriteComplete(f)
  /\ UNCHANGED <<downloaders, proxy, servers, toClient, toStorage, toProxy, crashes>>

DownloaderReads(f) ==
  /\ toClient[f] # <<>>
  /\ D!OnMessage(f, Head(toClient[f]))
  /\ toClient' = [toClient EXCEPT ![f] = Tail(@)]
  /\ UNCHANGED <<proxy, servers, agents, toStorage, toProxy, crashes>>

----------------------------------------------------------------------------
(* Failures: a client is killed, a storage server dies. *)

AgentKilled(f) ==
  /\ f \in Mortal
  /\ A!Close(f)
  /\ UNCHANGED <<downloaders, proxy, servers, toClient, toStorage, toProxy, crashes>>

DownloaderKilled(f) ==
  /\ f \in Mortal
  /\ D!Close(f)
  /\ UNCHANGED <<proxy, servers, agents, toClient, toStorage, toProxy, crashes>>

StorageDies(s) ==
  /\ crashes < CrashBound
  /\ crashes' = crashes + 1
  /\ \/ S!Crash(s)
     \/ /\ MayTear
        /\ toStorage[s] # <<>>
        /\ Head(toStorage[s]).type = "upload_block"
        /\ S!CrashWhileStoring(s, Head(toStorage[s]))
  /\ UNCHANGED <<proxy, clients, toClient, toStorage, fromClient>>

----------------------------------------------------------------------------
(* The ends of streams. *)

(* A client that is gone reads nothing more; an agent with its result reads *)
(* until the proxy closes.                                                 *)
Gone(f) == agentState[f] = "closed" \/ downloadState[f] \in {"done", "failed"}

ProxyLosesClient(f) ==
  /\ ~A!Alive(f) /\ downloadState[f] # "reading"
  /\ fromClient[f] = <<>>
  /\ P!ClientOnClose(f)
  /\ Gone(f) => toClient'[f] = <<>>
  /\ UNCHANGED <<lateState, servers, clients, toProxy, fromClient, crashes>>

(* What was sent to a client that is gone fails to be written, though the  *)
(* client's next message is read already: its handler runs after onClose,  *)
(* and the rest is never read.                                             *)
ProxyWriteFails(f) ==
  /\ Gone(f)
  /\ fromClient[f] # <<>>
  /\ P!ClientWriteFails(f)
  /\ toClient'[f] = <<>>
  /\ UNCHANGED <<servers, clients, toProxy, fromClient, crashes>>

ProxyReadsLate(f) ==
  /\ fromClient[f] # <<>>
  /\ P!LateMessage(f, Head(fromClient[f]))
  /\ fromClient' = [fromClient EXCEPT ![f] = <<>>]
  /\ UNCHANGED <<servers, clients, toProxy, crashes>>

ProxyLosesStorage(s) ==
  /\ sState[s] = "down"
  /\ toProxy[s] = <<>>
  /\ P!StorageOnClose(s)
  /\ toStorage'[s] = <<>>
  /\ UNCHANGED <<servers, clients, toProxy, fromClient, crashes>>

(* The other end of a connection the proxy closed has read what was sent.  *)
(* Of what a proxy that ended had sent, some prefix arrives.               *)
AgentLosesProxy(f) ==
  /\ proxyState # "running" \/ (clientState[f] = "none" /\ toClient[f] = <<>>)
  /\ A!Close(f)
  /\ UNCHANGED <<downloaders, proxy, servers, toClient, toStorage, toProxy, crashes>>

DownloaderLosesProxy(f) ==
  /\ proxyState # "running" \/ (clientState[f] = "none" /\ toClient[f] = <<>>)
  /\ D!Close(f)
  /\ UNCHANGED <<proxy, servers, agents, toClient, toStorage, toProxy, crashes>>

(* Nobody reads what the server still says; the process ends. *)
StorageLosesProxy(s) ==
  /\ proxyState # "running" \/ (storageState[s] = "none" /\ toStorage[s] = <<>>)
  /\ S!OnClose(s)
  /\ toProxy'[s] = <<>>
  /\ UNCHANGED <<proxy, clients, toClient, toStorage, fromClient, crashes>>

----------------------------------------------------------------------------

(* What happens by itself ... *)
AgentStep(f) == AgentReads(f) \/ AgentWrote(f) \/ AgentLosesProxy(f)
DownloaderStep(f) == DownloaderReads(f) \/ DownloaderLosesProxy(f)
ProxyStep(f) ==
  \/ ProxyReadsClient(f) \/ SessionDestroyed(f) \/ ProxyLosesClient(f)
  \/ ProxyWriteFails(f) \/ ProxyReadsLate(f)
StorageStep(s) == StorageReads(s) \/ StorageWrote(s) \/ StorageLosesProxy(s)
ProxyStorageStep(s) == ProxyReadsStorage(s) \/ ProxyLosesStorage(s)

(* ... and what users, operators and failures do. *)
Next ==
  \/ \E f \in Flows :
       \/ AgentConnects(f)
       \/ DownloaderConnects(f)
       \/ AgentStep(f)
       \/ DownloaderStep(f)
       \/ ProxyStep(f)
       \/ AgentKilled(f)
       \/ DownloaderKilled(f)
  \/ \E s \in Servers :
       \/ ServerConnects(s)
       \/ StorageStep(s)
       \/ ProxyStorageStep(s)
       \/ StorageDies(s)

Spec == Init /\ [][Next]_vars

(* Every process's loop runs the handlers that are ready, whichever        *)
(* connection they belong to, and TCP delivers or ends.                    *)
Fairness ==
  /\ \A f \in Flows :
       WF_vars(AgentStep(f)) /\ WF_vars(DownloaderStep(f)) /\ WF_vars(ProxyStep(f))
  /\ \A s \in Servers : WF_vars(StorageStep(s)) /\ WF_vars(ProxyStorageStep(s))

FairSpec == Spec /\ Fairness

----------------------------------------------------------------------------
(* Properties. *)

TypeOK ==
  /\ P!TypeOK /\ S!TypeOK /\ A!TypeOK /\ D!TypeOK
  /\ crashes \in 0 .. CrashBound

Running(s) == sState[s] # "down"
Sent(queue, type) == {queue[i] : i \in {j \in DOMAIN queue : queue[j].type = type}}
PiecesFor(f, s) == {msg \in Sent(toStorage[s], "upload_block") : msg.flow_id = f}

(* The one piece of a message handled after its client's connection was    *)
(* closed: the storage server takes it for the start of a block.           *)
LatePiece(f, content) == lateState[f] = "handled" /\ Len(content) = 1

(* Pieces are not lost, repeated, reordered or mixed up between the blocks *)
(* and the clients that share a server, whoever dies or comes back: what a *)
(* server has of a flow's block is the start of that block, as the client  *)
(* read it; or it is the one piece of a client gone before, of a block     *)
(* without name.                                                           *)
PieceOf(m, i, f) == {<<m, i>>} \cup (IF f \in Unstable THEN {AlteredContent} ELSE {})
ContextIsPrefix ==
  \A s \in Servers, f \in Flows :
    LET ctx == uploadingContext[s][f] IN
    ctx.content # <<>> =>
      \/ /\ ctx.md5 \in Md5s
         /\ \A i \in DOMAIN ctx.content : ctx.content[i] \in PieceOf(ctx.md5, i - 1, f)
      \/ ctx.md5 = NoMd5 /\ LatePiece(f, ctx.content)

(* A server keeps what it has of a block only while something will end it: *)
(* the client is connected to the proxy, or the message that says it is    *)
(* not (or the last piece of the block) is on its way, or the proxy has    *)
(* dropped the server, whose process then ends.  What it keeps for ever is *)
(* at most one piece, of a client whose connection was closed by a failed  *)
(* write with a piece still to be handled.                                 *)
NoOrphanContexts ==
  \A s \in Servers, f \in Flows :
    uploadingContext[s][f].content # <<>> =>
      \/ proxyState # "running" \/ storageState[s] = "none"
      \/ clientState[f] # "none"
      \/ ClientClean(f) \in Sent(toStorage[s], "client_clean")
      \/ \E msg \in PiecesFor(f, s) : msg.eof
      \/ LatePiece(f, uploadingContext[s][f].content)

(* A client that disconnects midway has its contexts released: when the    *)
(* proxy has nothing more to say of it, no server has one.                 *)
CleanReleases ==
  \A s \in P!Connected, f \in Flows :
    /\ proxyState = "running"
    /\ lateState[f] = "handled"
    /\ \A i \in DOMAIN toStorage[s] : toStorage[s][i].flow_id # f
    => uploadingContext[s][f].content = <<>>

(* What the proxy believes a running server stores is what its redis holds *)
(* or, in the other direction, will be once the messages on their way have *)
(* arrived: no request skips a block nobody has, none uploads again a      *)
(* block the proxy could know of.                                          *)
Announced(s) ==
  (UNION {msg.md5s : msg \in Sent(toProxy[s], "transfer_block_set")})
    \cup {msg.md5 : msg \in Sent(toProxy[s], "upload_block_ack")}
ViewMatchesDisk ==
  \A s \in P!Connected :
    /\ storageMd5s[s] \cup Announced(s) \subseteq md5_path[s]
    /\ Running(s) => md5_path[s] = storageMd5s[s] \cup Announced(s) \cup transferingMd5s[s]

(* A file the proxy has recorded can be read back: each of its blocks is   *)
(* whole on the disk of some server, unless one died while storing it.     *)
Whole(m) == \E s \in Servers : m \in md5_path[s] /\ file[s][m] = Pieces[m]
Torn(m) == \E s \in Servers : m \in md5_path[s] /\ file[s][m] < Pieces[m]
RecordedFilesWhole ==
  \A id \in idStorage : \A i \in DOMAIN id : Whole(id[i]) \/ Torn(id[i])

(* The proxy drops no server that has announced all its blocks and still   *)
(* runs.  (One that answers a piece between two of its sets it does drop.) *)
AllAnnounced(s) == sState[s] = "working" /\ Sent(toProxy[s], "transfer_block_set") = {}
ServersAreKept ==
  [][\A s \in Servers :
       proxyState = "running" /\ storageState[s] # "none" /\ AllAnnounced(s)
         => storageState'[s] # "none"]_vars

(* When a client is answered, every server it is uploading to has called   *)
(* back, so that no vote is left that could count for its next block.      *)
CalledBackWhenAnswered ==
  \A f \in Flows :
    answered[f] /\ clientState[f] # "none" => \A s \in P!Connected : f \notin P!Remaining(s)

(* While an agent has pieces of a block to send, a write is under way: its *)
(* completion is the only thing that sends the next one.                   *)
UploadPumpAlive == \A f \in Flows : agentState[f] = "uploading_blocks" => agentWriting[f]

(* A server has the block of one client only under way; the pieces other   *)
(* clients send of it are dropped.                                         *)
OneUploaderPerBlock ==
  \A s \in Servers : \A f, g \in Flows :
    f # g /\ uploadingContext[s][f].md5 \in Md5s =>
      uploadingContext[s][f].md5 # uploadingContext[s][g].md5

(* A storage server that exits while a block is uploaded to it is reported *)
(* and does not end the proxy.                                             *)
ProxySurvivesStorage == proxyState # "crashed"

(* The files recorded and the clients told are those FileStore.tla allows. *)
Outcome(f) ==
  CASE agentState[f] = "init" -> "none"
    [] agentState[f] = "succ" -> "stored"
    [] agentState[f] \in {"fail", "closed"} -> "given up"
    [] OTHER -> "pending"
Store == INSTANCE FileStore WITH
  Clients <- Flows, Blocks <- Md5s,
  blocks <- UNION {md5_path[s] : s \in Servers}, files <- idStorage,
  wanted <- fileMd5s, outcome <- [f \in Flows |-> Outcome(f)]
StoreSpec == Store!Spec

(* Whoever uploads is told the result, or that there will be none.         *)
UploadEnds ==
  \A f \in Flows : agentState[f] # "init" ~> Outcome(f) \in {"stored", "given up"}

(* What a downloading client has written is, at any time, the start of the *)
(* blocks it asked for and did not hold, in the file's order, and all of   *)
(* it when it is told the end: it appends what it gets without a look at   *)
(* the block, the index or the flow the piece is of, whatever other        *)
(* clients and dead servers do meanwhile.                                  *)
Held(f) == Range(heldMd5s[f])
Content(md5s) == FlattenSeq([i \in DOMAIN md5s |-> BlockContent(md5s[i])])
ReadBack ==
  \A f \in Flows : \A need \in Kept(wantedFile[f], Md5s \ Held(f)) :
    /\ IsPrefix(output[f], Content(need))
    /\ downloadState[f] = "done" => output[f] = Content(need)

(* The proxy asks a server only for a block the server can read, and not   *)
(* while the flow has a block under way there: either ends the server.     *)
RequestsServable ==
  \A s \in Servers : \A i \in DOMAIN toStorage[s] :
    LET msg == toStorage[s][i] IN
    msg.type = "download_block" /\ Running(s) =>
      /\ S!Loadable(s, msg.md5)
      /\ downloadingContext[s][msg.flow_id].md5 = NoMd5
      /\ \A j \in 1 .. i - 1 :
           toStorage[s][j].type = "download_block" => toStorage[s][j].flow_id # msg.flow_id

(* Whoever downloads gets the file, or learns that there is none to get,   *)
(* unless a server died with the block it was asked for: nobody tells the  *)
(* client, and nothing of its transfer is left anywhere.                   *)
OnItsWay(f) ==
  \/ toClient[f] # <<>> \/ fromClient[f] # <<>>
  \/ \E s \in Servers :
       \/ downloadingContext[s][f] # S!NoDownload
       \/ \E i \in DOMAIN toStorage[s] :
            toStorage[s][i].type = "download_block" /\ toStorage[s][i].flow_id = f
       \/ \E i \in DOMAIN toProxy[s] :
            toProxy[s][i].type = "transfer_block" /\ toProxy[s][i].flow_id = f
Stranded(f) == clientState[f] = "waiting_transfer_block" /\ crashes > 0 /\ ~OnItsWay(f)
DownloadEnds ==
  \A f \in Flows :
    downloadState[f] = "reading" ~> downloadState[f] \in {"done", "failed"} \/ Stranded(f)

(* A client is not answered for a block it is still uploading: the proxy   *)
(* tells the clients that upload one block from each other.                *)
AnsweredForOwnBlock ==
  \A f \in Flows :
    agentState[f] = "uploading_blocks" => Sent(toClient[f], "upload_block_ack") = {}
=============================================================================
