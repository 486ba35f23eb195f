------------------------------ MODULE Downloader ------------------------------
(***************************************************************************)
(* The downloading client (src/examples/file_download.cpp), one for each   *)
(* flow.                                                                   *)
(*                                                                         *)
(* A downloader asks for a file, naming the blocks it holds already (the   *)
(* example holds none), then reads messages in a blocking loop: it appends *)
(* the content of every piece to its output, whatever block and index the  *)
(* piece says it is of, and acknowledges a block at its last piece.        *)
(*                                                                         *)
(* FileStorage.tla connects the downloaders to the proxy.                  *)
(***************************************************************************)
EXTENDS Protocol

VARIABLES
  downloadState,   \* "init", "reading", "done", or "failed": the program ended
                   \* without the file
  wantedFile,      \* the id of the file it asked for
  heldMd5s,        \* the blocks it said it holds
  output,          \* what it has written to the file "download"
  fromClient       \* sent, not yet received by the proxy

dVars == <<downloadState, wantedFile, heldMd5s, output, fromClient>>

TypeOK ==
  /\ downloadState \in [Flows -> {"init", "reading", "done", "failed"}]
  /\ wantedFile \in [Flows -> Seq(Md5s)]
  /\ heldMd5s \in [Flows -> Seq(Md5s)]
  /\ output \in [Flows -> Seq(PieceContent)]
  /\ fromClient \in [Flows -> Seq(FromClientMessage)]

Init ==
  /\ downloadState = [f \in Flows |-> "init"]
  /\ wantedFile = [f \in Flows |-> <<>>]
  /\ heldMd5s = [f \in Flows |-> <<>>]
  /\ output = [f \in Flows |-> <<>>]
  /\ fromClient = [f \in Flows |-> <<>>]

SetState(f, state) == downloadState' = [downloadState EXCEPT ![f] = state]
Send(f, msg) == fromClient' = [fromClient EXCEPT ![f] = Append(@, msg)]

OnConnection(f, id, have) ==
  /\ downloadState[f] = "init"
  /\ wantedFile' = [wantedFile EXCEPT ![f] = id]
  /\ heldMd5s' = [heldMd5s EXCEPT ![f] = have]
  /\ Send(f, DownLoadRequest(id, have))
  /\ SetState(f, "reading")
  /\ UNCHANGED output

(* Variant: every piece is acknowledged. *)
AcknowledgePiece(f, msg) == Send(f, TransferBlockAck(msg.md5))
Acknowledge(f, msg) ==
  IF msg.eof THEN Send(f, TransferBlockAck(msg.md5)) ELSE UNCHANGED fromClient

OnTransferBlock(f, msg) ==
  /\ downloadState[f] = "reading"
  /\ msg.type = "transfer_block"
  /\ output' = [output EXCEPT ![f] = Append(@, msg.content)]
  /\ Acknowledge(f, msg)
  /\ UNCHANGED <<downloadState, wantedFile, heldMd5s>>

(* The program ends, and its connection with it: of what it sent, a prefix *)
(* arrives.                                                                *)
End(f, state) ==
  /\ downloadState[f] = "reading"
  /\ SetState(f, state)
  /\ \E n \in 0 .. Len(fromClient[f]) :
       fromClient' = [fromClient EXCEPT ![f] = SubSeq(fromClient[f], 1, n)]
  /\ UNCHANGED <<wantedFile, heldMd5s, output>>

(* Any message but a piece and the end of the file is an error; so is the  *)
(* end of the connection, which read reports by an exception.              *)
OnTransferAllBlocks(f, msg) == msg.type = "transfer_all_blocks" /\ End(f, "done")
OnMessageError(f, msg) ==
  msg.type \notin {"transfer_block", "transfer_all_blocks"} /\ End(f, "failed")
Close(f) == End(f, "failed")

OnMessage(f, msg) ==
  OnTransferBlock(f, msg) \/ OnTransferAllBlocks(f, msg) \/ OnMessageError(f, msg)
=============================================================================
