--------------------------- MODULE MCStorageServer ---------------------------
(* Small instances of StorageServer.tla for TLC. *)
EXTENDS StorageServer

(* One block of a single piece, one of two. *)
MCPieces == [m \in Md5s |-> m]
=============================================================================
