-------------------------------- MODULE Stream --------------------------------
(***************************************************************************)
(* What a connection promises its two users, without sockets, buffers and  *)
(* completions: a queue of messages in each direction.                     *)
(*                                                                         *)
(* Messages arrive in the order in which they were sent, each once and     *)
(* whole.  None is lost before one end has closed; of what is under way    *)
(* then, some prefix arrives.  An end that has closed is given at most one *)
(* message more.                                                           *)
(*                                                                         *)
(* The queues between the processes in FileStorage.tla are such queues.    *)
(***************************************************************************)
EXTENDS Sequences, Naturals

CONSTANTS Ends, Messages

VARIABLES
  queue,      \* queue[e]: sent by e, not yet received
  received,   \* received[e]: what e has received
  closed      \* closed[e]: e has closed

vars == <<queue, received, closed>>

(* The end at the other side. *)
Peer(e) == CHOOSE o \in Ends : o # e

Prefixes(q) == {SubSeq(q, 1, n) : n \in 0 .. Len(q)}
PrefixesUpTo(q, max) == {p \in Prefixes(q) : Len(p) <= max}

Init ==
  /\ queue = [e \in Ends |-> <<>>]
  /\ received = [e \in Ends |-> <<>>]
  /\ closed = [e \in Ends |-> FALSE]

(* Nothing is sent to or by an end that has closed. *)
Send(e) ==
  /\ ~closed[e] /\ ~closed[Peer(e)]
  /\ \E k \in Messages : queue' = [queue EXCEPT ![e] = Append(@, k)]
  /\ UNCHANGED <<received, closed>>

(* What e has sent, and what is to come to it, when it closes. *)
Closing(e, incoming) ==
  /\ closed' = [closed EXCEPT ![e] = TRUE]
  /\ \E p \in Prefixes(queue[e]), q \in PrefixesUpTo(incoming, 1) :
       queue' = [x \in Ends |-> IF x = e THEN p ELSE q]

Close(e) ==
  /\ ~closed[e]
  /\ Closing(e, queue[Peer(e)])
  /\ UNCHANGED received

Receive(e) ==
  LET q == queue[Peer(e)] IN
  /\ q # <<>>
  /\ received' = [received EXCEPT ![e] = Append(@, Head(q))]
  /\ \/ queue' = [queue EXCEPT ![Peer(e)] = Tail(q)] /\ UNCHANGED closed
     \/ ~closed[e] /\ Closing(e, <<>>)

Next == \E e \in Ends : Send(e) \/ Close(e) \/ Receive(e)

Spec == Init /\ [][Next]_vars
=============================================================================
