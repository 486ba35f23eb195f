------------------------------ MODULE Protocol ------------------------------
(***************************************************************************)
(* The constants of the system and the messages its processes exchange     *)
(* (src/src/common/message.cpp).  A message is a record whose "type" field *)
(* is the string of the JSON document's "type".                            *)
(*                                                                         *)
(* A block is named by its MD5; a block of MD5 m is cut into Pieces[m]     *)
(* pieces of at most 4096 bytes, numbered from 0.  The content of a piece  *)
(* is abstracted to where its bytes come from: <<m, i>> are the bytes of   *)
(* piece i of the block whose digest is m, AlteredContent are any others.  *)
(***************************************************************************)
EXTENDS Integers, Sequences, FiniteSets

CONSTANTS
  Servers,   \* the storage servers
  Flows,     \* the flow ids the proxy gives out, one per client connection
  Md5s,      \* the digests that name blocks
  NoMd5,     \* the value of a default-constructed Md5Info
  Pieces     \* Pieces[m]: how many pieces the block of digest m is cut into

ASSUME ServersAssumption == IsFiniteSet(Servers)
ASSUME FlowsAssumption == Flows \subseteq Nat /\ IsFiniteSet(Flows)
ASSUME Md5sAssumption == NoMd5 \notin Md5s
ASSUME PiecesAssumption == Pieces \in [Md5s -> Nat \ {0}]

AlteredContent == <<NoMd5, 0>>
PieceContent == ((Md5s \cup {NoMd5}) \X Nat)

(* The concatenation of a block's pieces in order: MD5(content) = m for it *)
(* and, MD5 being taken as collision free, for nothing else.               *)
BlockContent(m) == [i \in 1 .. Pieces[m] |-> <<m, i - 1>>]

(* The elements of md5s that are in S, in their order: a set of the one     *)
(* sequence there is, so that what it holds needs no recursion to define.  *)
Increasing(I) ==
  {at \in [1 .. Cardinality(I) -> I] : \A j, k \in DOMAIN at : j < k => at[j] < at[k]}
Kept(md5s, S) ==
  {[k \in DOMAIN at |-> md5s[at[k]]] :
     at \in Increasing({i \in DOMAIN md5s : md5s[i] \in S})}

----------------------------------------------------------------------------
(* Client <-> proxy, upload. *)

UploadRequest(md5s) == [type |-> "upload_request", md5s |-> md5s]
UploadResponse(md5s) == [type |-> "upload_response", md5s |-> md5s]
(* The client leaves the flow id to the proxy; variant: which forgets it.  *)
UploadBlock(m, i, eof, content) ==
  [type |-> "upload_block", md5 |-> m, index |-> i, flow_id |-> 0,
   eof |-> eof, content |-> content]
SetFlowIdNot(msg, f) == msg
SetFlowId(msg, f) == [msg EXCEPT !.flow_id = f]
UploadBlockAck(m) == [type |-> "upload_block_ack", md5 |-> m]
UploadBlockFail(m) == [type |-> "upload_block_fail", md5 |-> m]
UploadAllBlocks == [type |-> "upload_all_blocks"]
FileStorageSucc == [type |-> "file_storage_succ"]

(* Client <-> proxy, download.  A file id is the MD5 of the sequence of    *)
(* the MD5s of the file's blocks, and is abstracted to that sequence.  The *)
(* constructor of a request keeps the last of the blocks the client has:   *)
(* the loop assigns j["md5s"] where it should append to it.                *)
DownLoadRequest(id, dont_need) ==
  [type |-> "download_request", file_id |-> id,
   md5s |-> IF dont_need = <<>> THEN {} ELSE {dont_need[Len(dont_need)]}]
FileNotExist(id) == [type |-> "file_not_exist", file_id |-> id]
TransferBlockAck(m) == [type |-> "transfer_block_ack", md5 |-> m]
TransferAllBlocks == [type |-> "transfer_all_blocks"]

(* The first piece of a block is the one numbered 0. *)
TheFirstBlockPiece(msg) == msg.index = 0

----------------------------------------------------------------------------
(* Storage server <-> proxy. *)

TransferBlockSet(md5s, eof) ==
  [type |-> "transfer_block_set", md5s |-> md5s, eof |-> eof]
DownLoadBlock(m, f) == [type |-> "download_block", md5 |-> m, flow_id |-> f]
TransferBlock(m, i, eof, f, content) ==
  [type |-> "transfer_block", md5 |-> m, index |-> i, eof |-> eof,
   flow_id |-> f, content |-> content]
ClientClean(f) == [type |-> "client_clean", flow_id |-> f]

(* What the proxy may send to a storage server ... *)
UploadBlockMessage ==
  [type : {"upload_block"}, md5 : Md5s, index : Nat, flow_id : Flows,
   eof : BOOLEAN, content : PieceContent]
DownLoadBlockMessage ==
  [type : {"download_block"}, md5 : Md5s, flow_id : Flows]
ClientCleanMessage == [type : {"client_clean"}, flow_id : Flows]

ToStorageMessage ==
  UploadBlockMessage \cup DownLoadBlockMessage \cup ClientCleanMessage

(* ... and what a storage server may send to the proxy. *)
StorageMessage ==
       [type : {"transfer_block_set"}, md5s : SUBSET Md5s, eof : BOOLEAN]
  \cup [type : {"upload_block_ack"}, md5 : Md5s]
  \cup [type : {"upload_block_fail"}, md5 : Md5s \cup {NoMd5}]
  \cup [type : {"transfer_block"}, md5 : Md5s, index : Nat, eof : BOOLEAN,
        flow_id : Flows, content : PieceContent]

(* What a client may send to the proxy ... *)
FromClientMessage ==
       [type : {"upload_request"}, md5s : Seq(Md5s)]
  \cup [type : {"upload_block"}, md5 : Md5s, index : Nat, flow_id : {0},
        eof : BOOLEAN, content : PieceContent]
  \cup [type : {"upload_all_blocks"}]
  \cup [type : {"download_request"}, file_id : Seq(Md5s), md5s : SUBSET Md5s]
  \cup [type : {"transfer_block_ack"}, md5 : Md5s]

(* ... and what the proxy may send to a client. *)
ClientMessage ==
       [type : {"upload_response"}, md5s : Seq(Md5s)]
  \cup [type : {"upload_block_ack", "upload_block_fail"},
        md5 : Md5s \cup {NoMd5}]
  \cup [type : {"file_storage_succ", "transfer_all_blocks"}]
  \cup [type : {"file_not_exist"}, file_id : Seq(Md5s)]
  \cup [type : {"transfer_block"}, md5 : Md5s, index : Nat, eof : BOOLEAN,
        flow_id : Flows, content : PieceContent]
=============================================================================
