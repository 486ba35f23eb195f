------------------------------- MODULE MCProxy -------------------------------
(* Small instances of Proxy.tla for TLC. *)
EXTENDS Proxy, TLC

(* Every block has two pieces. *)
MCPieces == [m \in Md5s |-> 2]

(* Recorded earlier: an empty file, one of one block, one of two. *)
MCRecorded == {<<>>, <<1>>, <<1, 2>>}

(* The servers are interchangeable. *)
ServerSymmetry == Permutations(Servers)
=============================================================================
