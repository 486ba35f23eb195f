------------------------------ MODULE FileStore ------------------------------
(***************************************************************************)
(* What the system promises to those who store files, without the proxy,   *)
(* the servers and the messages.                                           *)
(*                                                                         *)
(* A file is the sequence of the digests of its blocks.  A client asks for *)
(* one file to be stored.  The store takes in blocks that clients want     *)
(* stored, and records a file when it has all of its blocks, not before; a *)
(* client is told that its file is stored only when it is recorded.        *)
(* Nothing that was taken in or recorded is ever dropped.  A client may    *)
(* give up at any time before it is told, and its file may be recorded all *)
(* the same.                                                               *)
(***************************************************************************)
EXTENDS Sequences

CONSTANTS Clients, Blocks

VARIABLES
  blocks,    \* the blocks the store has taken in
  files,     \* the files it has recorded
  wanted,    \* per client: the file it asked to store
  outcome    \* per client: "none", "pending", "stored" or "given up"

vars == <<blocks, files, wanted, outcome>>

BlocksOf(file) == {file[i] : i \in DOMAIN file}

Init ==
  /\ blocks \in SUBSET Blocks
  /\ files \subseteq Seq(blocks)
  /\ wanted = [c \in Clients |-> <<>>]
  /\ outcome = [c \in Clients |-> "none"]

Ask(c) ==
  /\ outcome[c] = "none"
  /\ outcome' = [outcome EXCEPT ![c] = "pending"]
  /\ wanted'[c] \in Seq(Blocks)
  /\ wanted' = [wanted EXCEPT ![c] = wanted'[c]]
  /\ UNCHANGED <<blocks, files>>

TakeIn(c) ==
  /\ outcome[c] \in {"pending", "given up"}
  /\ \E b \in BlocksOf(wanted[c]) : blocks' = blocks \cup {b}
  /\ UNCHANGED <<files, wanted, outcome>>

Record(c) ==
  /\ outcome[c] \in {"pending", "given up"}
  /\ BlocksOf(wanted[c]) \subseteq blocks
  /\ files' = files \cup {wanted[c]}
  /\ UNCHANGED <<blocks, wanted, outcome>>

Tell(c) ==
  /\ outcome[c] = "pending"
  /\ wanted[c] \in files
  /\ outcome' = [outcome EXCEPT ![c] = "stored"]
  /\ UNCHANGED <<blocks, files, wanted>>

GiveUp(c) ==
  /\ outcome[c] = "pending"
  /\ outcome' = [outcome EXCEPT ![c] = "given up"]
  /\ UNCHANGED <<blocks, files, wanted>>

Next == \E c \in Clients : Ask(c) \/ TakeIn(c) \/ Record(c) \/ Tell(c) \/ GiveUp(c)

Spec == Init /\ [][Next]_vars
=============================================================================
