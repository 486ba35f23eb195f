---------------------------- MODULE MCFileStorage ----------------------------
(* Small instances of FileStorage.tla for TLC. *)
EXTENDS FileStorage

(* Blocks of two pieces. *)
MCPieces == [m \in Md5s |-> 2]

(* Blocks with a piece that is neither the first nor the last. *)
MCThreePieces == [m \in Md5s |-> 3]

NoFiles == {}
NoDownloads == [f \in Flows |-> {}]

(* One client, two blocks or twice the same. *)
MCFilesOfOne == [f \in Flows |-> {<<1, 2>>, <<1, 1>>}]

(* Every client its own block. *)
MCFilesApart == [f \in Flows |-> {<<f + 1>>}]

(* Every client the same block. *)
MCFilesShared == [f \in Flows |-> {<<1>>}]

(* A file of two blocks is recorded; the first client asks for it, or      *)
(* uploads another, and the second asks for that, for the first one        *)
(* without the block it may hold, or for an empty file.                    *)
MCRecorded == {<<1, 2>>, <<>>}
MCUploadOne == [f \in Flows |-> IF f = 0 THEN {<<3>>} ELSE {}]
MCDownloads ==
  [f \in Flows |-> IF f = 0 THEN {<<<<1, 2>>, <<>>>>}
                   ELSE {<<<<3>>, <<>>>>, <<<<1, 2>>, <<>>>>, <<<<1, 2>>, <<1>>>>,
                         <<<<>>, <<>>>>}]
=============================================================================
