-------------------------------- MODULE Session --------------------------------
(***************************************************************************)
(* A connection: two sessions (src/src/common/asio_wrapper/session.cpp and *)
(* tcp_connection.cpp), one at each end of a TCP connection.               *)
(*                                                                         *)
(* A message is two buffers, its length and its body.  A session has at    *)
(* most one async_read under way, for a length or for a body, and should   *)
(* have one async_write; what is sent meanwhile waits in write_bufs_.  An  *)
(* operation completes when the kernel has done it, or when it fails: its  *)
(* handler is then queued, and the io_context runs the queued handlers one *)
(* after another.  Between a completion and its handler, another handler   *)
(* may send, or close the socket.                                          *)
(*                                                                         *)
(* A user of a session (Proxy.tla, StorageServer.tla, Agent.tla) sends     *)
(* whenever it likes, and in onMessage asks for the next message or        *)
(* force_closes or does both, or ends its side of the stream by shutdownw. *)
(* That it sends within a callback is the same as just before or after it. *)
(***************************************************************************)
EXTENDS Integers, Sequences

CONSTANTS
  Ends,        \* the two ends
  TooLong,     \* the messages that do not fit into data_
  SendBound,   \* bound: how many messages an end sends
  WireBound    \* buffers the kernels and the network hold in each direction

ASSUME EndsAssumption == \E x, y \in Ends : x # y /\ Ends = {x, y}
ASSUME SessionBoundsAssumption ==
  WireBound \in Nat \ {0} /\ SendBound \in [Ends -> Nat]

VARIABLES
  state,        \* TcpConnection::state_
  have_closed,  \* have_closed_
  closeCalls,   \* how often on_close_ was called
  socket,       \* "open", "shut" (for writing) or "closed"
  reading,      \* the async_read under way, "none", or "new" before start
  taken,        \* what has been read of the current message: length_, data_
  ready,        \* the handlers queued, by their operation and its result
  sending,      \* writing_, write_bufs_ and the async_writes under way
  wire,         \* wire[e]: written by e, not yet read by the other end
  sent,         \* how many messages e was asked to send: 1, 2, ... in order
  received      \* the messages e was given

closing == <<have_closed, closeCalls, socket, wire>>
sessionVars == <<state, closing, reading, taken, ready, sending, sent, received>>

Peer(e) == CHOOSE o \in Ends : o # e

Buffer == {"length", "body"} \X Nat
Completion == {"read", "write"} \X {"ok", "eof", "error"}

(* One async_write at a time: two would mix their buffers on the wire. *)
AsyncWrites == {ops \in Seq(Seq(Buffer)) : Len(ops) <= 1}
Sending == [writing : BOOLEAN, bufs : Seq(Nat), ops : AsyncWrites]

TypeOK ==
  /\ state \in [Ends -> {"goOn", "readZero", "readError", "writeError",
                         "shutdownError", "forceClose", "lengthError"}]
  /\ have_closed \in [Ends -> BOOLEAN]
  /\ closeCalls \in [Ends -> Nat]
  /\ socket \in [Ends -> {"open", "shut", "closed"}]
  /\ reading \in [Ends -> {"new", "none", "length", "body"}]
  /\ taken \in [Ends -> Seq(Buffer)]
  /\ ready \in [Ends -> Seq(Completion)]
  /\ sending \in [Ends -> Sending]
  /\ wire \in [Ends -> Seq(Buffer)]
  /\ sent \in [Ends -> Nat]
  /\ received \in [Ends -> Seq(Nat)]

Init ==
  /\ state = [e \in Ends |-> "goOn"]
  /\ have_closed = [e \in Ends |-> FALSE]
  /\ closeCalls = [e \in Ends |-> 0]
  /\ socket = [e \in Ends |-> "open"]
  /\ reading = [e \in Ends |-> "new"]
  /\ taken = [e \in Ends |-> <<>>]
  /\ ready = [e \in Ends |-> <<>>]
  /\ sending = [e \in Ends |-> [writing |-> FALSE, bufs |-> <<>>, ops |-> <<>>]]
  /\ wire = [e \in Ends |-> <<>>]
  /\ sent = [e \in Ends |-> 0]
  /\ received = [e \in Ends |-> <<>>]

(* What messages are written as. *)
Buffers(msgs) ==
  [i \in 1 .. 2 * Len(msgs) |->
     <<IF i % 2 = 1 THEN "length" ELSE "body", msgs[(i + 1) \div 2]>>]

SetState(e, s) == state' = [state EXCEPT ![e] = s]
Enqueue(e, op, result) == ready' = [ready EXCEPT ![e] = Append(@, <<op, result>>)]
Queued(e, op) == \E i \in DOMAIN ready[e] : ready[e][i][1] = op

(* The handler at the head of the queue, which runs now. *)
Runs(e, op, result) ==
  /\ ready[e] # <<>>
  /\ Head(ready[e]) = <<op, result>>
  /\ ready' = [ready EXCEPT ![e] = Tail(@)]

----------------------------------------------------------------------------
(* Closing. *)

(* onClose, from whichever handler comes first.  What was written may be   *)
(* cut off; what the other end has written is thrown away.  Variants: it   *)
(* does not look at have_closed_; it leaves the socket open.               *)
CloseSocket(e) ==
  /\ socket' = [socket EXCEPT ![e] = "closed"]
  /\ \E n \in 0 .. Len(wire[e]) :
       wire' = [o \in Ends |-> IF o = e THEN SubSeq(wire[e], 1, n) ELSE <<>>]

OnCloseAgain(e) ==
  /\ have_closed' = [have_closed EXCEPT ![e] = TRUE]
  /\ closeCalls' = [closeCalls EXCEPT ![e] = @ + 1]
  /\ CloseSocket(e)
OnCloseSocketOpen(e) ==
  /\ have_closed' = [have_closed EXCEPT ![e] = TRUE]
  /\ closeCalls' = [closeCalls EXCEPT ![e] = IF have_closed[e] THEN @ ELSE @ + 1]
  /\ UNCHANGED <<socket, wire>>
OnClose(e) ==
  \/ have_closed[e] /\ UNCHANGED closing
  \/ /\ ~have_closed[e]
     /\ have_closed' = [have_closed EXCEPT ![e] = TRUE]
     /\ closeCalls' = [closeCalls EXCEPT ![e] = @ + 1]
     /\ CloseSocket(e)

----------------------------------------------------------------------------
(* Reading. *)

ReadNextMessage(e) == reading' = [reading EXCEPT ![e] = "length"]

(* onConnection; every user asks for the first message. *)
Start(e) ==
  /\ reading[e] = "new"
  /\ ReadNextMessage(e)
  /\ UNCHANGED <<state, closing, taken, ready, sending, sent, received>>

(* The kernel has what was asked for. *)
ReadCompletes(e) ==
  /\ reading[e] \in {"length", "body"} /\ ~Queued(e, "read")
  /\ socket[e] # "closed"
  /\ wire[Peer(e)] # <<>>
  /\ taken' = [taken EXCEPT ![e] = Append(@, Head(wire[Peer(e)]))]
  /\ wire' = [wire EXCEPT ![Peer(e)] = Tail(@)]
  /\ Enqueue(e, "read", "ok")
  /\ UNCHANGED <<state, have_closed, closeCalls, socket, reading, sending, sent, received>>

(* The stream has ended, or broken, or the socket was closed under it.     *)
ReadFails(e) ==
  /\ reading[e] \in {"length", "body"} /\ ~Queued(e, "read")
  /\ \/ /\ socket[e] # "closed"
        /\ socket[Peer(e)] # "open" /\ wire[Peer(e)] = <<>>
        /\ \/ Enqueue(e, "read", "eof")
           \/ socket[Peer(e)] = "closed" /\ Enqueue(e, "read", "error")
     \/ socket[e] = "closed" /\ Enqueue(e, "read", "error")
  /\ UNCHANGED <<state, closing, reading, taken, sending, sent, received>>

(* read_length: a message that does not fit ends the connection; variant:  *)
(* the body is taken for another length.                                   *)
AfterLengthAgain == "length"
AfterLength == "body"

OnLength(e) ==
  /\ reading[e] = "length"
  /\ Runs(e, "read", "ok")
  /\ \/ /\ taken[e][1][2] \in TooLong
        /\ SetState(e, "lengthError")
        /\ reading' = [reading EXCEPT ![e] = "none"]
        /\ taken' = [taken EXCEPT ![e] = <<>>]
        /\ OnClose(e)
     \/ /\ taken[e][1][2] \notin TooLong
        /\ reading' = [reading EXCEPT ![e] = AfterLength]
        /\ UNCHANGED <<state, closing, taken>>
  /\ UNCHANGED <<sending, sent, received>>

(* The message a length and a body make; 0 where they are not of the same. *)
Whole(bufs) == IF bufs = Buffers(<<bufs[1][2]>>) THEN bufs[1][2] ELSE 0

(* onMessage has returned: what the user did, and should_close().          *)
(* Variant: a branch that forgets to ask for the next message.             *)
AskForNextNot(e) ==
  /\ reading' = [reading EXCEPT ![e] = "none"]
  /\ UNCHANGED <<state, closing>>
AskForNext(e) ==
  /\ ReadNextMessage(e)
  /\ UNCHANGED <<state, closing>>
ForceClose(e) ==
  /\ SetState(e, "forceClose")
  /\ reading' \in {[reading EXCEPT ![e] = r] : r \in {"none", "length"}}
  /\ OnClose(e)
ShutDownWrites(e) ==
  /\ ReadNextMessage(e)
  /\ \/ /\ socket[e] # "closed"
        /\ socket' = [socket EXCEPT ![e] = "shut"]
        /\ UNCHANGED <<state, have_closed, closeCalls, wire>>
     \/ /\ "closed" \in {socket[e], socket[Peer(e)]}
        /\ SetState(e, "shutdownError")
        /\ OnClose(e)

OnMessage(e) ==
  /\ reading[e] = "body"
  /\ Runs(e, "read", "ok")
  /\ received' = [received EXCEPT ![e] = Append(@, Whole(taken[e]))]
  /\ taken' = [taken EXCEPT ![e] = <<>>]
  /\ AskForNext(e) \/ ForceClose(e) \/ ShutDownWrites(e)
  /\ UNCHANGED <<sending, sent>>

OnReadError(e) ==
  /\ \/ Runs(e, "read", "eof") /\ SetState(e, "readZero")
     \/ Runs(e, "read", "error") /\ SetState(e, "readError")
  /\ reading' = [reading EXCEPT ![e] = "none"]
  /\ taken' = [taken EXCEPT ![e] = <<>>]
  /\ OnClose(e)
  /\ UNCHANGED <<sending, sent, received>>

----------------------------------------------------------------------------
(* Writing. *)

(* async_write of all that waits. *)
WriteAll(s, msgs) ==
  [writing |-> TRUE, bufs |-> <<>>, ops |-> Append(s.ops, Buffers(msgs))]

(* do_write; variant: it does not look at writing_. *)
DoWriteAtOnce(s, k) == WriteAll(s, Append(s.bufs, k))
DoWrite(s, k) ==
  IF s.writing THEN [s EXCEPT !.bufs = Append(@, k)] ELSE WriteAll(s, Append(s.bufs, k))

(* Some callback, of this connection or another, sends. *)
Send(e) ==
  /\ reading[e] # "new"
  /\ sent[e] < SendBound[e]
  /\ sent' = [sent EXCEPT ![e] = @ + 1]
  /\ sending' = [sending EXCEPT ![e] = DoWrite(@, sent[e] + 1)]
  /\ UNCHANGED <<state, closing, reading, taken, ready, received>>

(* The kernel takes the next buffer of an async_write, and with its last   *)
(* buffer the write is complete.  What is written to an end that has       *)
(* closed goes nowhere.                                                    *)
Rest(ops, i) ==
  IF Len(ops[i]) = 1 THEN SubSeq(ops, 1, i - 1) \o SubSeq(ops, i + 1, Len(ops))
  ELSE [ops EXCEPT ![i] = Tail(@)]

WriteProceeds(e) ==
  \E i \in DOMAIN sending[e].ops :
    LET op == sending[e].ops[i] IN
    /\ ~Queued(e, "write")
    /\ socket[e] = "open"
    /\ \/ /\ socket[Peer(e)] # "closed"
          /\ Len(wire[e]) < WireBound
          /\ wire' = [wire EXCEPT ![e] = Append(@, Head(op))]
       \/ /\ socket[Peer(e)] = "closed"
          /\ UNCHANGED wire
    /\ sending' = [sending EXCEPT ![e].ops = Rest(@, i)]
    /\ IF Len(op) = 1 THEN Enqueue(e, "write", "ok") ELSE UNCHANGED ready
    /\ UNCHANGED <<state, have_closed, closeCalls, socket, reading, taken, sent, received>>

WriteFails(e) ==
  /\ sending[e].ops # <<>> /\ ~Queued(e, "write")
  /\ socket[e] # "open" \/ socket[Peer(e)] = "closed"
  /\ Enqueue(e, "write", "error")
  /\ UNCHANGED <<state, closing, reading, taken, sending, sent, received>>

(* continue_to_send; onWriteComplete, when nothing waits, only sends.      *)
(* Variants: what waits is left to the next send; or it is dropped.        *)
ContinueToSendNot(s) == [s EXCEPT !.writing = FALSE]
ContinueToSendDropping(s) == [s EXCEPT !.writing = FALSE, !.bufs = <<>>]
ContinueToSend(s) ==
  IF s.bufs = <<>> THEN [s EXCEPT !.writing = FALSE] ELSE WriteAll(s, s.bufs)

OnWritten(e) ==
  /\ Runs(e, "write", "ok")
  /\ sending' = [sending EXCEPT ![e] = ContinueToSend(@)]
  /\ UNCHANGED <<state, closing, reading, taken, sent, received>>

OnWriteError(e) ==
  /\ Runs(e, "write", "error")
  /\ SetState(e, "writeError")
  /\ sending' = [sending EXCEPT ![e].ops = <<>>]
  /\ OnClose(e)
  /\ UNCHANGED <<reading, taken, sent, received>>

----------------------------------------------------------------------------

Handler(e) ==
  OnLength(e) \/ OnMessage(e) \/ OnReadError(e) \/ OnWritten(e) \/ OnWriteError(e)
KernelReads(e) == ReadCompletes(e) \/ ReadFails(e)
KernelWrites(e) == WriteProceeds(e) \/ WriteFails(e)

Next ==
  \E e \in Ends : Start(e) \/ Send(e) \/ Handler(e) \/ KernelReads(e) \/ KernelWrites(e)

Spec == Init /\ [][Next]_sessionVars

(* The io_context runs what is queued; the kernels and the network go on.  *)
Fairness ==
  \A e \in Ends :
    /\ WF_sessionVars(Start(e)) /\ WF_sessionVars(Handler(e))
    /\ WF_sessionVars(KernelReads(e)) /\ WF_sessionVars(KernelWrites(e))

FairSpec == Spec /\ Fairness

----------------------------------------------------------------------------
(* Properties. *)

(* Nothing waits but behind a write that is under way or whose handler is  *)
(* queued, so that something will send it; only a session that has closed, *)
(* after a write that failed, may keep what it was given for ever.         *)
WriteUnderWay ==
  \A e \in Ends :
    /\ sending[e].bufs # <<>> => sending[e].writing
    /\ sending[e].writing /\ ~have_closed[e] =>
         sending[e].ops # <<>> \/ Queued(e, "write")

(* A failed read and a failed write, and a user that closes, meet in one   *)
(* call of on_close_ (the proxy's callbacks look up contexts that the first *)
(* call has erased); and nothing ends a connection without that call.      *)
ClosedOnce ==
  \A e \in Ends :
    /\ closeCalls[e] = IF have_closed[e] THEN 1 ELSE 0
    /\ state[e] # "goOn" => have_closed[e]

(* The connection is a stream of messages as Stream.tla has it: in order,  *)
(* each once and whole, however the buffers are written and read.  A       *)
(* message is two buffers; what it says is in the second.                  *)
Bodies(bufs) == [i \in 1 .. Len(bufs) \div 2 |-> bufs[2 * i][2]]
Unwritten(s) ==
  (IF s.ops = <<>> THEN <<>> ELSE s.ops[1])
    \o (IF Len(s.ops) < 2 THEN <<>> ELSE s.ops[2]) \o Buffers(s.bufs)
InTransit(e) ==
  IF have_closed[Peer(e)] THEN taken[Peer(e)]
  ELSE taken[Peer(e)] \o wire[e] \o (IF have_closed[e] THEN <<>> ELSE Unwritten(sending[e]))
Channel == INSTANCE Stream WITH
  Messages <- UNION {1 .. SendBound[e] : e \in Ends},
  queue <- [e \in Ends |-> Bodies(InTransit(e))], closed <- have_closed
StreamSpec == Channel!Spec

(* What is sent arrives, or one end closes. *)
SentArrives ==
  \A e \in Ends : \A k \in 1 .. SendBound[e] :
    sent[e] >= k ~> Len(received[Peer(e)]) >= k \/ have_closed[e] \/ have_closed[Peer(e)]

(* An end learns that the other has closed, or ended its side: it always   *)
(* has a read under way.                                                   *)
CloseIsLearnt ==
  \A e \in Ends : socket[e] # "open" ~> have_closed[Peer(e)]
=============================================================================
