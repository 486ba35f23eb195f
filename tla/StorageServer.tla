---------------------------- MODULE StorageServer ----------------------------
(***************************************************************************)
(* The storage server (src/src/sserver/storage_server.cpp).                *)
(*                                                                         *)
(* A server holds one connection to the proxy.  On connecting it reads the *)
(* digests it stores from redis (the hash md5_path) and sends them in sets *)
(* of SetLimit; then it stores the blocks it is sent, piece by piece, and  *)
(* sends back the blocks it is asked for.  Its process has one thread:     *)
(* each callback (onConnection, onMessage, onWriteComplete) runs to its    *)
(* end, so each is one action here.  What it sends goes to toProxy[s], the *)
(* bytes buffered by its session, the kernels and the network.  writing[s] *)
(* is the session's writing_: set by send, reset just before               *)
(* onWriteComplete, which the session calls once everything handed to it   *)
(* is in the kernel's buffer (SocketBuffer messages, here).                *)
(*                                                                         *)
(* A crash, an exit(-1) or a closed connection ends the process; what      *)
(* redis and the file system hold survives, and the server may be started  *)
(* again.  Storing a block is three steps on disk (record the path, create *)
(* the file, write it) between which the process may die.                  *)
(*                                                                         *)
(* This module is the server in an environment that may send it any        *)
(* message of the protocol at any time; FileStorage.tla connects its       *)
(* handlers to the proxy instead.                                          *)
(***************************************************************************)
EXTENDS Protocol

CONSTANTS
  SetLimit,       \* digests per transfer_block_set message, 128 in the code
  SocketBuffer,   \* messages the kernel takes before the sender must wait
  QueueBound,     \* bound: the environment sends no more beyond this backlog
  ContentBound    \* bound: pieces of one block the environment sends

ASSUME SetLimitAssumption == SetLimit \in Nat \ {0}
ASSUME StorageBoundsAssumption ==
  SocketBuffer \in Nat /\ QueueBound \in Nat /\ ContentBound \in Nat

VARIABLES
  sState,              \* StorageServerContext::state, "down" without process
  transferingMd5s,     \* the digests still to be sent to the proxy
  uploadingContext,    \* per flow: the digest and the content so far
  downloadingMd5s,     \* per digest: references to its content, 0 = no entry
  downloadingContext,  \* per flow: the block it downloads and the next piece
  writing,             \* Session::writing_
  toProxy,             \* sent, not yet received by the proxy
  md5_path,            \* the fields of the redis hash of that name
  file                 \* per digest: pieces in its block file, or Missing

memory == <<sState, transferingMd5s, uploadingContext, downloadingMd5s,
            downloadingContext>>
disk == <<md5_path, file>>
sVars == <<memory, writing, toProxy, disk>>

(* No block file.  A file of fewer than Pieces[m] pieces is torn: the      *)
(* process died while it was being written.                                *)
Missing == -1

NoUpload == [md5 |-> NoMd5, content |-> <<>>]
NoDownload == [md5 |-> NoMd5, index |-> 0]

UploadContext == [md5 : Md5s \cup {NoMd5}, content : Seq(PieceContent)]
DownloadContext == [md5 : Md5s, index : Nat] \cup {NoDownload}

TypeOK ==
  /\ sState \in [Servers -> {"down", "transfering_block_set", "working"}]
  /\ transferingMd5s \in [Servers -> SUBSET Md5s]
  /\ uploadingContext \in [Servers -> [Flows -> UploadContext]]
  /\ downloadingMd5s \in [Servers -> [Md5s -> Nat]]
  /\ downloadingContext \in [Servers -> [Flows -> DownloadContext]]
  /\ writing \in [Servers -> BOOLEAN]
  /\ toProxy \in [Servers -> Seq(StorageMessage)]
  /\ md5_path \in [Servers -> SUBSET Md5s]
  /\ file \in [Servers -> [Md5s -> Nat \cup {Missing}]]

(* No server runs; each disk holds whatever blocks earlier runs stored.    *)
Init ==
  /\ sState = [s \in Servers |-> "down"]
  /\ transferingMd5s = [s \in Servers |-> {}]
  /\ uploadingContext = [s \in Servers |-> [f \in Flows |-> NoUpload]]
  /\ downloadingMd5s = [s \in Servers |-> [m \in Md5s |-> 0]]
  /\ downloadingContext = [s \in Servers |-> [f \in Flows |-> NoDownload]]
  /\ writing = [s \in Servers |-> FALSE]
  /\ toProxy = [s \in Servers |-> <<>>]
  /\ md5_path \in [Servers -> SUBSET Md5s]
  /\ file = [s \in Servers |->
               [m \in Md5s |-> IF m \in md5_path[s] THEN Pieces[m] ELSE Missing]]

Send(s, msg) ==
  /\ toProxy' = [toProxy EXCEPT ![s] = Append(@, msg)]
  /\ writing' = [writing EXCEPT ![s] = TRUE]

----------------------------------------------------------------------------
(* Sending the block set. *)

(* sendSomeMd5sToProxy: the next set of at most SetLimit of the digests in *)
(* left; the set that exhausts them carries eof and starts the work.  The  *)
(* order in which redis lists its fields is arbitrary.                     *)
SendSomeMd5sToProxy(s, left) ==
  \E chunk \in SUBSET left :
    LET eof == chunk = left IN
    /\ Cardinality(chunk) <= SetLimit
    /\ ~eof => Cardinality(chunk) = SetLimit
    /\ transferingMd5s' = [transferingMd5s EXCEPT ![s] = left \ chunk]
    /\ sState' = [sState EXCEPT
                    ![s] = IF eof THEN "working" ELSE "transfering_block_set"]
    /\ Send(s, TransferBlockSet(chunk, eof))

OnConnection(s) ==
  /\ sState[s] = "down"
  /\ toProxy[s] = <<>>
  /\ SendSomeMd5sToProxy(s, md5_path[s])
  /\ UNCHANGED <<uploadingContext, downloadingMd5s, downloadingContext, disk>>

----------------------------------------------------------------------------
(* The download pump. *)

Downloading(ctxs) == {f \in Flows : ctxs[f] # NoDownload}

(* begin() of a map ordered by flow id; variant: its last entry. *)
LastFlow(ctxs, f) == f \in Downloading(ctxs) /\ \A g \in Downloading(ctxs) : f >= g
FirstFlow(ctxs, f) == f \in Downloading(ctxs) /\ \A g \in Downloading(ctxs) : f <= g

(* A context after its piece was sent; variant: moved on twice.            *)
AdvancedTwice(ctx, eof) ==
  IF eof THEN NoDownload ELSE [md5 |-> ctx.md5, index |-> ctx.index + 2]
Advanced(ctx, eof) ==
  IF eof THEN NoDownload ELSE [md5 |-> ctx.md5, index |-> ctx.index + 1]

(* sendSomeMd5PieceToProxy, given the contexts and the references as the   *)
(* caller left them: one piece for the lowest flow id; its last piece ends *)
(* the flow's context and drops the reference to the content.              *)
SendSomeMd5PieceToProxy(s, ctxs, refs) ==
  \E f \in Flows :
    LET m == ctxs[f].md5
        i == ctxs[f].index
        eof == i + 1 >= file[s][m]
        content == IF i < file[s][m] THEN <<m, i>> ELSE AlteredContent
    IN
    /\ FirstFlow(ctxs, f)
    /\ Send(s, TransferBlock(m, i, eof, f, content))
    /\ downloadingContext' = [downloadingContext EXCEPT
         ![s] = [ctxs EXCEPT ![f] = Advanced(ctxs[f], eof)]]
    /\ downloadingMd5s' = [downloadingMd5s EXCEPT
         ![s] = [refs EXCEPT ![m] = IF eof THEN refs[m] - 1 ELSE refs[m]]]

(* getMd5ContentFromStorage answers; where it does not, it exits. *)
Loadable(s, m) == m \in md5_path[s] /\ file[s][m] # Missing

(* A request the server serves: a new flow, and content that is loaded     *)
(* already or can be.                                                      *)
Servable(s, msg) ==
  /\ downloadingMd5s[s][msg.md5] > 0 \/ Loadable(s, msg.md5)
  /\ downloadingContext[s][msg.flow_id] = NoDownload

(* Variant: the request is registered and the pump not started. *)
OnDownLoadBlockNoPump(s, msg) ==
  /\ sState[s] # "down"
  /\ Servable(s, msg)
  /\ downloadingContext' = [downloadingContext EXCEPT
       ![s][msg.flow_id] = [md5 |-> msg.md5, index |-> 0]]
  /\ downloadingMd5s' = [downloadingMd5s EXCEPT ![s][msg.md5] = @ + 1]
  /\ UNCHANGED <<sState, transferingMd5s, uploadingContext, writing, toProxy, disk>>

OnDownLoadBlock(s, msg) ==
  /\ sState[s] # "down"
  /\ Servable(s, msg)
  /\ SendSomeMd5PieceToProxy(s,
       [downloadingContext[s] EXCEPT ![msg.flow_id] = [md5 |-> msg.md5, index |-> 0]],
       [downloadingMd5s[s] EXCEPT ![msg.md5] = @ + 1])
  /\ UNCHANGED <<sState, transferingMd5s, uploadingContext, disk>>

(* onWriteComplete: the next set of digests, the next piece, or nothing to *)
(* do.                                                                     *)
OnWriteComplete(s) ==
  /\ writing[s]
  /\ Len(toProxy[s]) <= SocketBuffer
  /\ \/ /\ sState[s] = "transfering_block_set"
        /\ SendSomeMd5sToProxy(s, transferingMd5s[s])
        /\ UNCHANGED <<uploadingContext, downloadingMd5s, downloadingContext, disk>>
     \/ /\ sState[s] = "working"
        /\ SendSomeMd5PieceToProxy(s, downloadingContext[s], downloadingMd5s[s])
        /\ UNCHANGED <<sState, transferingMd5s, uploadingContext, disk>>
     \/ /\ sState[s] = "working"
        /\ Downloading(downloadingContext[s]) = {}
        /\ writing' = [writing EXCEPT ![s] = FALSE]
        /\ UNCHANGED <<memory, toProxy, disk>>

----------------------------------------------------------------------------
(* Storing blocks. *)

(* The flow's upload context with the content of msg appended.  A context  *)
(* always holds at least one piece, so an empty content means no context;  *)
(* a piece that is not the first makes a context of the default digest.    *)
Extended(ctx, msg) ==
  [md5 |-> IF TheFirstBlockPiece(msg) /\ ctx.content = <<>>
             THEN msg.md5 ELSE ctx.md5,
   content |-> Append(ctx.content, msg.content)]

UploadOf(s, msg) == Extended(uploadingContext[s][msg.flow_id], msg)
DigestMatches(s, msg) == UploadOf(s, msg).content = BlockContent(msg.md5)

CleanUploadContext(s, f) ==
  uploadingContext' = [uploadingContext EXCEPT ![s][f] = NoUpload]

ReceivePiece(s, msg) ==
  /\ sState[s] # "down"
  /\ ~msg.eof
  /\ uploadingContext' =
       [uploadingContext EXCEPT ![s][msg.flow_id] = UploadOf(s, msg)]
  /\ UNCHANGED <<sState, transferingMd5s, downloadingMd5s, downloadingContext,
                 writing, toProxy, disk>>

RejectBlock(s, msg) ==
  /\ sState[s] # "down"
  /\ msg.eof /\ ~DigestMatches(s, msg)
  /\ Send(s, UploadBlockFail(msg.md5))
  /\ CleanUploadContext(s, msg.flow_id)
  /\ UNCHANGED <<sState, transferingMd5s, downloadingMd5s, downloadingContext, disk>>

(* createNewFile and writeBlock where there is no file yet; variant: where *)
(* the path was not recorded yet.                                          *)
StoredFileByPath(s, m) == IF m \in md5_path[s] THEN file[s][m] ELSE Pieces[m]
StoredFile(s, m) == IF file[s][m] = Missing THEN Pieces[m] ELSE file[s][m]

(* A block whose path is recorded and whose file exists is acknowledged    *)
(* without being written again.                                            *)
StoreBlock(s, msg) ==
  /\ sState[s] # "down"
  /\ msg.eof /\ DigestMatches(s, msg)
  /\ md5_path' = [md5_path EXCEPT ![s] = @ \cup {msg.md5}]
  /\ file' = [file EXCEPT ![s][msg.md5] = StoredFile(s, msg.md5)]
  /\ Send(s, UploadBlockAck(msg.md5))
  /\ CleanUploadContext(s, msg.flow_id)
  /\ UNCHANGED <<sState, transferingMd5s, downloadingMd5s, downloadingContext>>

OnUploadBlock(s, msg) ==
  ReceivePiece(s, msg) \/ RejectBlock(s, msg) \/ StoreBlock(s, msg)

----------------------------------------------------------------------------
(* A client is gone. *)

(* cleanDownloadContext: the references without those of flow f, and the   *)
(* contexts without its context; variants: what the code must not forget.  *)
ReleasedNot(s, f) == downloadingMd5s[s]
Released(s, f) ==
  LET ctx == downloadingContext[s][f] IN
  IF ctx = NoDownload THEN downloadingMd5s[s]
  ELSE [downloadingMd5s[s] EXCEPT ![ctx.md5] = downloadingMd5s[s][ctx.md5] - 1]
CleanedNot(s, f) == downloadingContext[s]
Cleaned(s, f) == [downloadingContext[s] EXCEPT ![f] = NoDownload]

OnClientClean(s, msg) ==
  /\ sState[s] # "down"
  /\ downloadingContext' = [downloadingContext EXCEPT ![s] = Cleaned(s, msg.flow_id)]
  /\ downloadingMd5s' = [downloadingMd5s EXCEPT ![s] = Released(s, msg.flow_id)]
  /\ CleanUploadContext(s, msg.flow_id)
  /\ UNCHANGED <<sState, transferingMd5s, writing, toProxy, disk>>

----------------------------------------------------------------------------
(* The end of the process. *)

(* The memory is gone; of what was sent, some prefix still arrives. *)
Exit(s, sent) ==
  /\ \E n \in 0 .. Len(sent) : toProxy' = [toProxy EXCEPT ![s] = SubSeq(sent, 1, n)]
  /\ sState' = [sState EXCEPT ![s] = "down"]
  /\ transferingMd5s' = [transferingMd5s EXCEPT ![s] = {}]
  /\ uploadingContext' = [uploadingContext EXCEPT ![s] = [f \in Flows |-> NoUpload]]
  /\ downloadingMd5s' = [downloadingMd5s EXCEPT ![s] = [m \in Md5s |-> 0]]
  /\ downloadingContext' = [downloadingContext EXCEPT ![s] = [f \in Flows |-> NoDownload]]
  /\ writing' = [writing EXCEPT ![s] = FALSE]

Crash(s) ==
  /\ sState[s] # "down"
  /\ Exit(s, toProxy[s])
  /\ UNCHANGED disk

(* Variant: the path is recorded after the file is written. *)
CrashWhileStoringFileFirst(s, msg) ==
  /\ sState[s] # "down"
  /\ msg.eof /\ DigestMatches(s, msg)
  /\ ~Loadable(s, msg.md5)
  /\ \E written \in {Missing} \cup 0 .. (Pieces[msg.md5] - 1) :
       file' = [file EXCEPT ![s][msg.md5] = IF @ = Missing THEN written ELSE @]
  /\ Exit(s, toProxy[s])
  /\ UNCHANGED md5_path

(* The last piece of a genuine block is in, and the process dies after it  *)
(* recorded the path and before it acknowledges: without creating the      *)
(* file, or with fewer than all pieces written.                            *)
CrashWhileStoring(s, msg) ==
  /\ sState[s] # "down"
  /\ msg.eof /\ DigestMatches(s, msg)
  /\ ~Loadable(s, msg.md5)
  /\ md5_path' = [md5_path EXCEPT ![s] = @ \cup {msg.md5}]
  /\ \E written \in {Missing} \cup 0 .. (Pieces[msg.md5] - 1) :
       file' = [file EXCEPT ![s][msg.md5] = IF @ = Missing THEN written ELSE @]
  /\ Exit(s, toProxy[s])

(* A block that cannot be read, or a second download of one flow: exit(-1). *)
ExitOnDownLoadBlock(s, msg) ==
  /\ sState[s] # "down"
  /\ ~Servable(s, msg)
  /\ Exit(s, toProxy[s])
  /\ UNCHANGED disk

(* onClose reports every upload under way as failed before the socket is   *)
(* closed, in the order of their flow ids.                                 *)
Uploading(s) == {f \in Flows : uploadingContext[s][f].content # <<>>}

OnClose(s) ==
  /\ sState[s] # "down"
  /\ \E flow \in [1 .. Cardinality(Uploading(s)) -> Uploading(s)] :
       /\ \A i, j \in DOMAIN flow : i < j => flow[i] < flow[j]
       /\ Exit(s, toProxy[s] \o
                  [i \in DOMAIN flow |-> UploadBlockFail(uploadingContext[s][flow[i]].md5)])
  /\ UNCHANGED disk

----------------------------------------------------------------------------
(* The server in an open environment. *)

(* Any piece of any block for any flow, its bytes intact or not.  A client *)
(* ends a block with its last piece.                                       *)
UploadInput ==
  {msg \in [type : {"upload_block"}, md5 : Md5s, index : 0 .. ContentBound,
            flow_id : Flows, eof : BOOLEAN,
            content : {AlteredContent} \cup (Md5s \X (0 .. ContentBound))] :
     /\ msg.index < Pieces[msg.md5]
     /\ msg.eof <=> msg.index + 1 = Pieces[msg.md5]
     /\ msg.content \in {AlteredContent, <<msg.md5, msg.index>>}}

OnMessage(s) ==
  /\ Len(toProxy[s]) < QueueBound
  /\ \/ \E msg \in UploadInput :
          /\ Len(uploadingContext[s][msg.flow_id].content) < ContentBound
          /\ OnUploadBlock(s, msg) \/ CrashWhileStoring(s, msg)
     \/ \E msg \in DownLoadBlockMessage :
          OnDownLoadBlock(s, msg) \/ ExitOnDownLoadBlock(s, msg)
     \/ \E msg \in ClientCleanMessage : OnClientClean(s, msg)

(* The proxy receives the oldest message. *)
Deliver(s) ==
  /\ toProxy[s] # <<>>
  /\ toProxy' = [toProxy EXCEPT ![s] = Tail(@)]
  /\ UNCHANGED <<memory, writing, disk>>

Next ==
  \E s \in Servers :
    \/ OnConnection(s)
    \/ OnMessage(s)
    \/ OnWriteComplete(s)
    \/ OnClose(s)
    \/ Crash(s)
    \/ Deliver(s)

(* The io_context runs every handler that is ready, and the proxy reads. *)
Fairness == \A s \in Servers : WF_sVars(OnWriteComplete(s)) /\ WF_sVars(Deliver(s))

Spec == Init /\ [][Next]_sVars
FairSpec == Spec /\ Fairness

----------------------------------------------------------------------------
(* Properties. *)

(* Every reference counted on a loaded block belongs to one flow that      *)
(* downloads it: the content is dropped with its last reader, and never    *)
(* under a reader (sendSomeMd5PieceToProxy exits if it is not there).      *)
RefCountExact ==
  \A s \in Servers, m \in Md5s :
    downloadingMd5s[s][m]
      = Cardinality({f \in Flows : downloadingContext[s][f].md5 = m})

(* While a server has digests to announce or a flow to serve, a write is   *)
(* under way: its completion is the only thing that sends the next set or  *)
(* the next piece, and no timer retries.                                   *)
PumpAlive ==
  \A s \in Servers :
    \/ sState[s] = "transfering_block_set"
    \/ Downloading(downloadingContext[s]) # {}
    => writing[s]

(* A block is acknowledged to the proxy only with its path recorded and    *)
(* its file on disk, however often the process died while storing it.      *)
AckedOnDisk ==
  \A s \in Servers : \A i \in DOMAIN toProxy[s] :
    toProxy[s][i].type = "upload_block_ack" => Loadable(s, toProxy[s][i].md5)

(* No block file without its path: what the file system holds is always    *)
(* found again through redis, also after a crash between the two.          *)
FileHasPath ==
  \A s \in Servers, m \in Md5s : file[s][m] # Missing => m \in md5_path[s]

(* The pieces of one flow leave in order, none is skipped, and those of    *)
(* two transfers are not mixed: what comes after a piece, on its way or    *)
(* still to be sent for the flow, is the next piece of the same block, if  *)
(* there is one, or begins another transfer.                               *)
PieceOf(msg, f) == msg.type = "transfer_block" /\ msg.flow_id = f
Follows(p, next) ==
  next.index = 0 \/ (~p.eof /\ next.md5 = p.md5 /\ next.index = p.index + 1)
Later(q, i, f) == {j \in DOMAIN q : j > i /\ PieceOf(q[j], f)}

OrderedOn(q, ctx, f) ==
  \A i \in DOMAIN q : PieceOf(q[i], f) =>
    \/ Later(q, i, f) = {} /\ Follows(q[i], ctx)
    \/ \E j \in Later(q, i, f) :
         (\A k \in Later(q, i, f) : j <= k) /\ Follows(q[i], q[j])

PiecesInOrder ==
  \A s \in Servers, f \in Flows : OrderedOn(toProxy[s], downloadingContext[s][f], f)

(* A flow that downloads is served to the end, unless flows of lower id    *)
(* download for ever (the pump takes the first entry of a map ordered by   *)
(* flow id), or the replies to other messages keep refilling the session's *)
(* buffer for ever (onWriteComplete waits until it is empty).              *)
ServedUnlessOvertaken ==
  \A s \in Servers, f \in Flows :
    \/ []<>(downloadingContext[s][f] = NoDownload)
    \/ []<>(\E g \in Flows : g < f /\ downloadingContext[s][g] # NoDownload)
    \/ []<>(Len(toProxy[s]) > SocketBuffer)
=============================================================================
