-------------------------------- MODULE Agent --------------------------------
(***************************************************************************)
(* The uploading client (src/src/client/agent.cpp), one for each flow.     *)
(*                                                                         *)
(* An agent hashes the blocks of its file, asks which of them to upload,   *)
(* and uploads those one at a time: a piece at the start of a block, each  *)
(* next piece when onWriteComplete says the one before is written, and the *)
(* next block when the last one is acknowledged.  It reads a piece from    *)
(* the file when it sends it, so that the bytes of a file which changes    *)
(* meanwhile (a flow in Unstable) need not be those it hashed.             *)
(*                                                                         *)
(* FileStorage.tla connects the agents to the proxy.                       *)
(***************************************************************************)
EXTENDS Protocol

CONSTANTS
  Unstable,       \* the flows whose file may change while it is uploaded
  SocketBuffer    \* messages the kernel takes before the sender must wait

VARIABLES
  agentState,      \* AgentContext::state_, "init" until it connects; "closed":
                   \* its connection ended before it knew the result
  fileMd5s,        \* file_md5s_info_
  uploadMd5s,      \* upload_md5s_info_: the blocks to upload
  uploadingIndex,  \* current_uploading_index_, from 1
  pieceIndex,      \* piece_index_, and with it current_block_offset_
  agentWriting,    \* Session::writing_
  fromClient       \* sent, not yet received by the proxy

aVars == <<agentState, fileMd5s, uploadMd5s, uploadingIndex, pieceIndex,
           agentWriting, fromClient>>

TypeOK ==
  /\ agentState \in [Flows -> {"init", "waiting_upload_response", "uploading_blocks",
                               "waiting_block_ack", "waiting_final_result",
                               "succ", "fail", "closed"}]
  /\ fileMd5s \in [Flows -> Seq(Md5s)]
  /\ uploadMd5s \in [Flows -> Seq(Md5s)]
  /\ uploadingIndex \in [Flows -> Nat \ {0}]
  /\ pieceIndex \in [Flows -> Nat]
  /\ agentWriting \in [Flows -> BOOLEAN]
  /\ fromClient \in [Flows -> Seq(FromClientMessage)]

Init ==
  /\ agentState = [f \in Flows |-> "init"]
  /\ fileMd5s = [f \in Flows |-> <<>>]
  /\ uploadMd5s = [f \in Flows |-> <<>>]
  /\ uploadingIndex = [f \in Flows |-> 1]
  /\ pieceIndex = [f \in Flows |-> 0]
  /\ agentWriting = [f \in Flows |-> FALSE]
  /\ fromClient = [f \in Flows |-> <<>>]

(* An agent that knows the result does nothing more. *)
Alive(f) == agentState[f] \notin {"init", "succ", "fail", "closed"}

SetState(f, state) == agentState' = [agentState EXCEPT ![f] = state]
Send(f, msg) ==
  /\ fromClient' = [fromClient EXCEPT ![f] = Append(@, msg)]
  /\ agentWriting' = [agentWriting EXCEPT ![f] = TRUE]

OnConnection(f, md5s) ==
  /\ agentState[f] = "init"
  /\ fileMd5s' = [fileMd5s EXCEPT ![f] = md5s]
  /\ Send(f, UploadRequest(md5s))
  /\ SetState(f, "waiting_upload_response")
  /\ UNCHANGED <<uploadMd5s, uploadingIndex, pieceIndex>>

(* sendBlockPieceFromCurrentPoint, given the blocks and the point.         *)
SendBlockPiece(f, md5s, at, i) ==
  LET m == md5s[at]
      eof == i + 1 = Pieces[m]
  IN
  /\ \E content \in {<<m, i>>} \cup (IF f \in Unstable THEN {AlteredContent} ELSE {}) :
       Send(f, UploadBlock(m, i, eof, content))
  /\ pieceIndex' = [pieceIndex EXCEPT ![f] = i + 1]
  /\ SetState(f, IF eof THEN "waiting_block_ack" ELSE "uploading_blocks")

(* The first piece; variant: left to onWriteComplete. *)
StartBlockNoPump(f, md5s, at) ==
  /\ pieceIndex' = [pieceIndex EXCEPT ![f] = 0]
  /\ SetState(f, "uploading_blocks")
  /\ UNCHANGED <<agentWriting, fromClient>>
StartBlock(f, md5s, at) == SendBlockPiece(f, md5s, at, 0)

SendUploadAllBlocks(f) ==
  /\ Send(f, UploadAllBlocks)
  /\ SetState(f, "waiting_final_result")

OnUploadResponse(f, msg) ==
  /\ agentState[f] = "waiting_upload_response"
  /\ msg.type = "upload_response"
  /\ uploadMd5s' = [uploadMd5s EXCEPT ![f] = msg.md5s]
  /\ uploadingIndex' = [uploadingIndex EXCEPT ![f] = 1]
  /\ \/ msg.md5s = <<>> /\ SendUploadAllBlocks(f)
                        /\ pieceIndex' = [pieceIndex EXCEPT ![f] = 0]
     \/ msg.md5s # <<>> /\ StartBlock(f, msg.md5s, 1)
  /\ UNCHANGED fileMd5s

(* The block acknowledged was the last; variant: the last but one.         *)
LastBlockEarly(f) == uploadingIndex[f] + 1 >= Len(uploadMd5s[f])
LastBlock(f) == uploadingIndex[f] = Len(uploadMd5s[f])

(* An acknowledgement is taken for that of the block just sent, whatever   *)
(* its digest.                                                             *)
OnUploadBlockAck(f, msg) ==
  /\ agentState[f] = "waiting_block_ack"
  /\ msg.type = "upload_block_ack"
  /\ uploadingIndex' = [uploadingIndex EXCEPT ![f] = @ + 1]
  /\ \/ /\ LastBlock(f)
        /\ pieceIndex' = [pieceIndex EXCEPT ![f] = 0]
        /\ SendUploadAllBlocks(f)
     \/ /\ ~LastBlock(f)
        /\ StartBlock(f, uploadMd5s[f], uploadingIndex[f] + 1)
  /\ UNCHANGED <<fileMd5s, uploadMd5s>>

(* shutdownw: the agent says no more, and waits for the proxy to close.    *)
OnFinalResult(f, msg) ==
  /\ agentState[f] = "waiting_final_result"
  /\ msg.type \in {"file_storage_succ", "file_storage_fail"}
  /\ SetState(f, IF msg.type = "file_storage_succ" THEN "succ" ELSE "fail")
  /\ UNCHANGED <<fileMd5s, uploadMd5s, uploadingIndex, pieceIndex, agentWriting, fromClient>>

(* No branch looks at what arrives while a block is being uploaded, or     *)
(* after the result.                                                       *)
Ignore(f) ==
  /\ agentState[f] \in {"uploading_blocks", "succ", "fail"}
  /\ UNCHANGED aVars

(* The connection ends before the result; of what was sent, a prefix arrives.*)
Close(f) ==
  /\ Alive(f)
  /\ SetState(f, "closed")
  /\ agentWriting' = [agentWriting EXCEPT ![f] = FALSE]
  /\ \E n \in 0 .. Len(fromClient[f]) :
       fromClient' = [fromClient EXCEPT ![f] = SubSeq(fromClient[f], 1, n)]
  /\ UNCHANGED <<fileMd5s, uploadMd5s, uploadingIndex, pieceIndex>>

Expected(state) ==
  CASE state = "waiting_upload_response" -> {"upload_response"}
    [] state = "waiting_block_ack" -> {"upload_block_ack"}
    [] state = "waiting_final_result" -> {"file_storage_succ", "file_storage_fail"}
    [] OTHER -> {}

(* Any other message is an error: force_close. *)
OnMessageError(f, msg) ==
  /\ agentState[f] \in {"waiting_upload_response", "waiting_block_ack",
                        "waiting_final_result"}
  /\ msg.type \notin Expected(agentState[f])
  /\ Close(f)

OnMessage(f, msg) ==
  \/ OnUploadResponse(f, msg)
  \/ OnUploadBlockAck(f, msg)
  \/ OnFinalResult(f, msg)
  \/ Ignore(f)
  \/ OnMessageError(f, msg)

OnWriteComplete(f) ==
  /\ Alive(f)
  /\ agentWriting[f]
  /\ Len(fromClient[f]) <= SocketBuffer
  /\ \/ /\ agentState[f] = "uploading_blocks"
        /\ SendBlockPiece(f, uploadMd5s[f], uploadingIndex[f], pieceIndex[f])
        /\ UNCHANGED <<fileMd5s, uploadMd5s, uploadingIndex>>
     \/ /\ agentState[f] # "uploading_blocks"
        /\ agentWriting' = [agentWriting EXCEPT ![f] = FALSE]
        /\ UNCHANGED <<agentState, fileMd5s, uploadMd5s, uploadingIndex, pieceIndex,
                       fromClient>>
=============================================================================
