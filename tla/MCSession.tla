------------------------------- MODULE MCSession -------------------------------
(* A small instance of Session.tla for TLC. *)
EXTENDS Session, TLC

CONSTANTS a, b

(* One end sends three messages, and the other answers with one. *)
MCSendBound == a :> 3 @@ b :> 1
=============================================================================
