----------------------------- MODULE SessionProofs -----------------------------
(***************************************************************************)
(* Theorems about Session.tla, for every set of too long messages and      *)
(* every value of the bounds.                                              *)
(*                                                                         *)
(* A queue of handlers is Seq(Completion); what matters of it is whether   *)
(* an operation's handler is in it, and that it is there once.  That the   *)
(* connection is a stream rests on a second invariant, StreamInv: where    *)
(* each buffer between two sessions stands.                                *)
(***************************************************************************)
EXTENDS Session, SequenceTheorems, TLAPS

Has(q, op) == \E i \in DOMAIN q : q[i][1] = op
HasResult(q, c) == \E i \in DOMAIN q : q[i] = c
OnceEach(q) == \A i, j \in DOMAIN q : q[i][1] = q[j][1] => i = j

(* What holds of a session's sending half, with the handlers queued and    *)
(* whether it has closed.                                                  *)
SendingInv(s, q, closed) ==
  /\ s.bufs # <<>> => s.writing
  /\ ~s.writing => s.ops = <<>> /\ ~Has(q, "write")
  /\ HasResult(q, <<"write", "ok">>) => s.ops = <<>>
  /\ s.writing /\ ~closed => s.ops # <<>> \/ Has(q, "write")
  /\ \A i \in DOMAIN s.ops : s.ops[i] # <<>>

(* The inductive invariant: the type invariant, a handler of each          *)
(* operation at most, and the above.                                       *)
EndInv(e) == OnceEach(ready[e]) /\ SendingInv(sending[e], ready[e], have_closed[e])

IInv == TypeOK /\ \A e \in Ends : EndInv(e)

----------------------------------------------------------------------------
(* Lemmas on the operators. *)

LEMMA PeerTyped == \A e \in Ends : Peer(e) \in Ends /\ Peer(e) # e
BY EndsAssumption DEF Peer

(* A handler runs: it leaves the queue, and the other operation's stays.   *)
LEMMA RunsQueue ==
  ASSUME NEW q \in Seq(Completion), q # <<>>, OnceEach(q)
  PROVE  /\ Tail(q) \in Seq(Completion)
         /\ OnceEach(Tail(q))
         /\ ~Has(Tail(q), Head(q)[1])
         /\ \A op : op # Head(q)[1] => (Has(Tail(q), op) <=> Has(q, op))
         /\ \A c : HasResult(Tail(q), c) => HasResult(q, c)
         /\ \A c \in Completion : HasResult(Tail(q), c) => c[1] # Head(q)[1]
<1>1. /\ Len(q) \in Nat \ {0}
      /\ Tail(q) \in Seq(Completion) /\ Len(Tail(q)) = Len(q) - 1
      /\ \A i \in 1 .. Len(q) - 1 : Tail(q)[i] = q[i + 1]
      /\ Head(q) = q[1]
  OBVIOUS
<1>2. DOMAIN q = 1 .. Len(q) /\ DOMAIN Tail(q) = 1 .. Len(q) - 1
  BY <1>1
<1>3. \A i \in DOMAIN Tail(q) : i + 1 \in DOMAIN q /\ Tail(q)[i] = q[i + 1] /\ i + 1 # 1
  BY <1>1, <1>2
<1>4. OnceEach(Tail(q))
  <2> SUFFICES ASSUME NEW i \in DOMAIN Tail(q), NEW j \in DOMAIN Tail(q),
                      Tail(q)[i][1] = Tail(q)[j][1]
               PROVE  i = j
    BY DEF OnceEach
  <2>1. i + 1 = j + 1
    BY <1>3 DEF OnceEach
  <2> QED
    BY <2>1, <1>1, <1>2
<1>5. ~Has(Tail(q), Head(q)[1])
  <2> SUFFICES ASSUME NEW i \in DOMAIN Tail(q), Tail(q)[i][1] = Head(q)[1]
               PROVE  FALSE
    BY DEF Has
  <2>1. 1 \in DOMAIN q
    BY <1>1, <1>2
  <2> QED
    BY <2>1, <1>1, <1>3 DEF OnceEach
<1>6. ASSUME NEW op, op # Head(q)[1] PROVE Has(Tail(q), op) <=> Has(q, op)
  <2>1. ASSUME NEW i \in DOMAIN q, q[i][1] = op PROVE Has(Tail(q), op)
    <3>1. i # 1
      BY <1>1, <1>6, <2>1
    <3>2. i - 1 \in DOMAIN Tail(q) /\ Tail(q)[i - 1] = q[i]
      BY <3>1, <1>1, <1>2
    <3> QED
      BY <3>2, <2>1 DEF Has
  <2> QED
    BY <2>1, <1>3 DEF Has
<1>7. \A c : HasResult(Tail(q), c) => HasResult(q, c)
  BY <1>3 DEF HasResult
<1>8. \A c \in Completion : HasResult(Tail(q), c) => c[1] # Head(q)[1]
  BY <1>5 DEF HasResult, Has
<1> QED
  BY <1>1, <1>4, <1>5, <1>6, <1>7, <1>8

(* A handler is queued that was not. *)
LEMMA EnqueueQueue ==
  ASSUME NEW q \in Seq(Completion), OnceEach(q), NEW c \in Completion, ~Has(q, c[1])
  PROVE  /\ Append(q, c) \in Seq(Completion)
         /\ OnceEach(Append(q, c))
         /\ \A op : Has(Append(q, c), op) <=> Has(q, op) \/ op = c[1]
         /\ \A d : HasResult(Append(q, c), d) <=> HasResult(q, d) \/ d = c
<1> DEFINE r == Append(q, c)
<1>1. /\ r \in Seq(Completion)
      /\ Len(q) \in Nat
      /\ DOMAIN q = 1 .. Len(q) /\ DOMAIN r = 1 .. Len(q) + 1
      /\ \A i \in 1 .. Len(q) : r[i] = q[i]
      /\ r[Len(q) + 1] = c
  OBVIOUS
<1>2. \A i \in DOMAIN r :
        (i \in DOMAIN q /\ r[i] = q[i]) \/ (i = Len(q) + 1 /\ r[i] = c)
  BY <1>1
<1>3. DOMAIN q \subseteq DOMAIN r /\ Len(q) + 1 \in DOMAIN r
  BY <1>1
<1>4. OnceEach(r)
  BY <1>2 DEF OnceEach, Has
<1>5. \A op : Has(r, op) <=> Has(q, op) \/ op = c[1]
  BY <1>1, <1>2, <1>3 DEF Has
<1>6. \A d : HasResult(r, d) <=> HasResult(q, d) \/ d = c
  BY <1>1, <1>2, <1>3 DEF HasResult
<1> QED
  BY <1>1, <1>4, <1>5, <1>6

(* What messages are written as: as many buffers twice, none of them empty. *)
LEMMA BuffersTyped ==
  ASSUME NEW msgs \in Seq(Nat)
  PROVE  /\ Buffers(msgs) \in Seq(Buffer)
         /\ msgs # <<>> => Buffers(msgs) # <<>>
<1>1. Len(msgs) \in Nat /\ DOMAIN msgs = 1 .. Len(msgs)
  OBVIOUS
<1>2. ASSUME NEW i \in 1 .. 2 * Len(msgs)
      PROVE  (i + 1) \div 2 \in 1 .. Len(msgs)
  BY <1>1
<1>3. \A i \in 1 .. 2 * Len(msgs) : msgs[(i + 1) \div 2] \in Nat
  BY <1>1, <1>2
<1>4. \A i \in 1 .. 2 * Len(msgs) :
        <<IF i % 2 = 1 THEN "length" ELSE "body", msgs[(i + 1) \div 2]>> \in Buffer
  BY <1>3 DEF Buffer
<1>5. Buffers(msgs) \in [1 .. 2 * Len(msgs) -> Buffer] /\ 2 * Len(msgs) \in Nat
  BY <1>1, <1>4 DEF Buffers
<1>6. Buffers(msgs) \in Seq(Buffer) /\ Len(Buffers(msgs)) = 2 * Len(msgs)
  BY <1>5
<1>7. msgs # <<>> => Len(msgs) > 0
  BY <1>1
<1> QED
  BY <1>6, <1>7, <1>1

(* What waits is written at once by a session that writes nothing, and     *)
(* stays behind the write that is under way in any other.                  *)
LEMMA WriteAllKeeps ==
  ASSUME NEW s \in Sending, s.ops = <<>>, NEW msgs \in Seq(Nat), msgs # <<>>,
         NEW q, ~HasResult(q, <<"write", "ok">>), NEW closed \in BOOLEAN
  PROVE  WriteAll(s, msgs) \in Sending /\ SendingInv(WriteAll(s, msgs), q, closed)
<1> DEFINE w == WriteAll(s, msgs)
           op == Buffers(msgs)
<1>1. op \in Seq(Buffer) /\ op # <<>>
  BY BuffersTyped
<1>2. w = [writing |-> TRUE, bufs |-> <<>>, ops |-> <<op>>]
  BY DEF WriteAll
<1>3. <<op>> \in AsyncWrites
  BY <1>1 DEF AsyncWrites
<1>4. w \in Sending
  BY <1>2, <1>3 DEF Sending
<1>5. w.ops # <<>> /\ \A i \in DOMAIN w.ops : w.ops[i] # <<>>
  BY <1>1, <1>2
<1> QED
  BY <1>2, <1>4, <1>5 DEF SendingInv

LEMMA DoWriteKeeps ==
  ASSUME NEW s \in Sending, NEW k \in Nat, NEW q, NEW closed \in BOOLEAN,
         SendingInv(s, q, closed)
  PROVE  DoWrite(s, k) \in Sending /\ SendingInv(DoWrite(s, k), q, closed)
<1>1. s.bufs \in Seq(Nat) /\ s.ops \in AsyncWrites /\ s.writing \in BOOLEAN
  BY DEF Sending
<1>2. Append(s.bufs, k) \in Seq(Nat) /\ Append(s.bufs, k) # <<>>
  BY <1>1
<1>3. CASE s.writing
  <2>1. DoWrite(s, k) = [s EXCEPT !.bufs = Append(s.bufs, k)]
    BY <1>3 DEF DoWrite
  <2> QED
    BY <2>1, <1>1, <1>2, <1>3 DEF Sending, SendingInv
<1>4. CASE ~s.writing
  <2>1. s.ops = <<>> /\ ~Has(q, "write")
    BY <1>4 DEF SendingInv
  <2>2. ~HasResult(q, <<"write", "ok">>)
    BY <2>1 DEF Has, HasResult
  <2>3. DoWrite(s, k) = WriteAll(s, Append(s.bufs, k))
    BY <1>4 DEF DoWrite
  <2> QED
    BY <2>1, <2>2, <2>3, <1>2, WriteAllKeeps
<1> QED
  BY <1>3, <1>4, <1>1

LEMMA ContinueToSendKeeps ==
  ASSUME NEW s \in Sending, s.ops = <<>>, NEW q, ~Has(q, "write"), NEW closed \in BOOLEAN
  PROVE  /\ ContinueToSend(s) \in Sending
         /\ SendingInv(ContinueToSend(s), q, closed)
<1>1. s.bufs \in Seq(Nat) /\ s.ops \in AsyncWrites
  BY DEF Sending
<1>2. ~HasResult(q, <<"write", "ok">>)
  BY DEF Has, HasResult
<1>3. CASE s.bufs = <<>>
  <2> DEFINE w == ContinueToSend(s)
  <2>1. w = [writing |-> FALSE, bufs |-> <<>>, ops |-> <<>>]
    BY <1>3 DEF ContinueToSend, Sending
  <2>2. w \in Sending
    BY <2>1, <1>1, <1>3 DEF Sending
  <2>3. w.bufs = <<>> /\ w.ops = <<>> /\ w.writing = FALSE
    BY <2>1
  <2> HIDE DEF w
  <2> QED
    BY <2>2, <2>3, <1>2 DEF SendingInv, w
<1>4. CASE s.bufs # <<>>
  <2>1. ContinueToSend(s) = WriteAll(s, s.bufs)
    BY <1>4 DEF ContinueToSend
  <2> QED
    BY <2>1, <1>1, <1>2, <1>4, WriteAllKeeps
<1> QED
  BY <1>3, <1>4

(* A handler of another operation, or closing, leaves the sending half as  *)
(* it was.                                                                 *)
LEMMA SendingFrame ==
  ASSUME NEW s, NEW q, NEW closed \in BOOLEAN, SendingInv(s, q, closed),
         NEW r, Has(r, "write") <=> Has(q, "write"),
         HasResult(r, <<"write", "ok">>) => HasResult(q, <<"write", "ok">>),
         NEW now \in BOOLEAN, closed => now
  PROVE  SendingInv(s, r, now)
BY DEF SendingInv

(* The kernel takes a buffer of the one write there is.                    *)
LEMMA RestTyped ==
  ASSUME NEW ops \in AsyncWrites, NEW i \in DOMAIN ops,
         \A j \in DOMAIN ops : ops[j] # <<>>
  PROVE  /\ Rest(ops, i) \in AsyncWrites
         /\ Head(ops[i]) \in Buffer
         /\ Len(ops[i]) = 1 => Rest(ops, i) = <<>>
         /\ Len(ops[i]) # 1 => Rest(ops, i) # <<>>
         /\ \A j \in DOMAIN Rest(ops, i) : Rest(ops, i)[j] # <<>>
<1>1. i = 1 /\ Len(ops) = 1 /\ DOMAIN ops = {1} /\ ops \in Seq(Seq(Buffer))
  <2>1. ops \in Seq(Seq(Buffer)) /\ Len(ops) <= 1
    BY DEF AsyncWrites
  <2>2. DOMAIN ops = 1 .. Len(ops) /\ Len(ops) \in Nat
    BY <2>1
  <2>3. Len(ops) = 1 /\ i = 1
    BY <2>1, <2>2
  <2>4. DOMAIN ops = {1}
    BY <2>2, <2>3
  <2> QED
    BY <2>1, <2>3, <2>4
<1>2. ops[1] \in Seq(Buffer) /\ ops[1] # <<>> /\ Len(ops[1]) \in Nat \ {0}
  BY <1>1
<1>3. Head(ops[1]) \in Buffer
  BY <1>2
<1>4. CASE Len(ops[1]) = 1
  <2>1. Rest(ops, i) = SubSeq(ops, 1, 0) \o SubSeq(ops, 2, 1)
    BY <1>1, <1>4 DEF Rest
  <2>2. Rest(ops, i) = <<>>
    BY <2>1, <1>1
  <2>3. <<>> \in AsyncWrites
    BY DEF AsyncWrites
  <2> QED
    BY <1>1, <1>3, <1>4, <2>2, <2>3
<1>5. CASE Len(ops[1]) # 1
  <2>1. Tail(ops[1]) \in Seq(Buffer) /\ Tail(ops[1]) # <<>>
    <3>1. Tail(ops[1]) \in Seq(Buffer) /\ Len(Tail(ops[1])) = Len(ops[1]) - 1
      BY <1>2
    <3>2. Len(Tail(ops[1])) # 0
      BY <3>1, <1>2, <1>5
    <3> QED
      BY <3>1, <3>2, EmptySeq
  <2>2. Rest(ops, i) = [ops EXCEPT ![1] = Tail(ops[1])]
    BY <1>1, <1>5 DEF Rest
  <2>3. Rest(ops, i) \in Seq(Seq(Buffer)) /\ Len(Rest(ops, i)) = 1
    BY <2>1, <2>2, <1>1
  <2>4. DOMAIN Rest(ops, i) = {1} /\ Rest(ops, i)[1] = Tail(ops[1])
    BY <2>2, <1>1
  <2>5. Rest(ops, i)[1] # <<>>
    BY <2>1, <2>4
  <2> QED
    BY <1>1, <1>3, <1>5, <2>3, <2>4, <2>5 DEF AsyncWrites
<1> QED
  BY <1>4, <1>5

LEMMA WholeTyped ==
  ASSUME NEW bufs \in Seq(Buffer)
  PROVE  Whole(bufs) \in Nat
<1>1. CASE bufs = <<>>
  <2>1. DOMAIN Buffers(<<bufs[1][2]>>) = 1 .. 2
    BY DEF Buffers
  <2>2. bufs # Buffers(<<bufs[1][2]>>)
    BY <2>1, <1>1
  <2> QED
    BY <2>2 DEF Whole
<1>2. CASE bufs # <<>>
  <2>1. bufs[1] \in Buffer
    BY <1>2
  <2>2. bufs[1][2] \in Nat
    BY <2>1 DEF Buffer
  <2> QED
    BY <2>2 DEF Whole
<1> QED
  BY <1>1, <1>2

----------------------------------------------------------------------------
(* The actions, each of one end. *)

(* An action leaves the other end's queue and sending half as they were.   *)
LEMMA OneEnd ==
  ASSUME IInv, TypeOK', NEW e \in Ends, EndInv(e)',
         \A o \in Ends \ {e} : /\ ready'[o] = ready[o]
                               /\ sending'[o] = sending[o]
                               /\ have_closed'[o] = have_closed[o]
  PROVE  IInv'
<1>1. ASSUME NEW o \in Ends, o # e PROVE EndInv(o)'
  BY <1>1 DEF IInv, EndInv
<1> QED
  BY <1>1 DEF IInv

LEMMA OnCloseTyped ==
  ASSUME TypeOK, NEW e \in Ends, OnClose(e)
  PROVE  /\ have_closed' \in [Ends -> BOOLEAN]
         /\ closeCalls' \in [Ends -> Nat]
         /\ socket' \in [Ends -> {"open", "shut", "closed"}]
         /\ wire' \in [Ends -> Seq(Buffer)]
         /\ have_closed'[e]
         /\ \A o \in Ends \ {e} : have_closed'[o] = have_closed[o]
<1>1. CASE have_closed[e] /\ UNCHANGED closing
  BY <1>1 DEF TypeOK, closing
<1>2. CASE /\ ~have_closed[e]
           /\ have_closed' = [have_closed EXCEPT ![e] = TRUE]
           /\ closeCalls' = [closeCalls EXCEPT ![e] = @ + 1]
           /\ CloseSocket(e)
  <2>1. PICK n \in 0 .. Len(wire[e]) :
          wire' = [o \in Ends |-> IF o = e THEN SubSeq(wire[e], 1, n) ELSE <<>>]
    BY <1>2 DEF CloseSocket
  <2>2. wire[e] \in Seq(Buffer)
    BY DEF TypeOK
  <2>3. SubSeq(wire[e], 1, n) \in Seq(Buffer) /\ <<>> \in Seq(Buffer)
    BY <2>2
  <2>4. wire' \in [Ends -> Seq(Buffer)]
    BY <2>1, <2>3
  <2>5. socket' \in [Ends -> {"open", "shut", "closed"}]
    BY <1>2 DEF CloseSocket, TypeOK
  <2>6. closeCalls' \in [Ends -> Nat]
    BY <1>2 DEF TypeOK
  <2>7. have_closed \in [Ends -> BOOLEAN] /\ have_closed' = [have_closed EXCEPT ![e] = TRUE]
    BY <1>2 DEF TypeOK
  <2>8. /\ have_closed' \in [Ends -> BOOLEAN]
        /\ have_closed'[e]
        /\ \A o \in Ends \ {e} : have_closed'[o] = have_closed[o]
    BY <2>7
  <2> QED
    BY <2>4, <2>5, <2>6, <2>8
<1> QED
  BY <1>1, <1>2 DEF OnClose

(* A handler at the head of the queue leaves it.                           *)
LEMMA RunsKeeps ==
  ASSUME IInv, NEW e \in Ends, NEW op, NEW result, Runs(e, op, result)
  PROVE  /\ ready' \in [Ends -> Seq(Completion)]
         /\ \A o \in Ends \ {e} : ready'[o] = ready[o]
         /\ OnceEach(ready'[e])
         /\ HasResult(ready[e], <<op, result>>)
         /\ ~Has(ready'[e], op)
         /\ op # "write" => /\ Has(ready'[e], "write") <=> Has(ready[e], "write")
                            /\ HasResult(ready'[e], <<"write", "ok">>)
                                 => HasResult(ready[e], <<"write", "ok">>)
<1> DEFINE q == ready[e]
<1>1. ready \in [Ends -> Seq(Completion)] /\ OnceEach(q)
  BY DEF IInv, TypeOK, EndInv
<1>2. q \in Seq(Completion) /\ q # <<>> /\ Head(q) = <<op, result>>
  BY <1>1 DEF Runs
<1>3. ready' = [ready EXCEPT ![e] = Tail(q)]
  BY DEF Runs
<1>4. ready'[e] = Tail(q) /\ \A o \in Ends \ {e} : ready'[o] = ready[o]
  BY <1>1, <1>3
<1>5. 1 \in DOMAIN q /\ q[1] = <<op, result>>
  BY <1>2
<1>6. HasResult(q, <<op, result>>)
  BY <1>5 DEF HasResult
<1> HIDE DEF q
<1>7. Tail(q) \in Seq(Completion) /\ OnceEach(Tail(q)) /\ ~Has(Tail(q), op)
  BY <1>1, <1>2, RunsQueue
<1>8. /\ op # "write" => (Has(Tail(q), "write") <=> Has(q, "write"))
      /\ HasResult(Tail(q), <<"write", "ok">>) => HasResult(q, <<"write", "ok">>)
  BY <1>1, <1>2, RunsQueue
<1>9. ready' \in [Ends -> Seq(Completion)]
  BY <1>1, <1>3, <1>7
<1> QED
  BY <1>4, <1>6, <1>7, <1>8, <1>9 DEF q

(* The handler of an operation that completes is queued.                   *)
LEMMA EnqueueKeeps ==
  ASSUME IInv, NEW e \in Ends, NEW op, NEW result, <<op, result>> \in Completion,
         ~Queued(e, op), Enqueue(e, op, result)
  PROVE  /\ ready' \in [Ends -> Seq(Completion)]
         /\ \A o \in Ends \ {e} : ready'[o] = ready[o]
         /\ OnceEach(ready'[e])
         /\ \A x : Has(ready'[e], x) <=> Has(ready[e], x) \/ x = op
         /\ \A d : HasResult(ready'[e], d) <=> HasResult(ready[e], d) \/ d = <<op, result>>
<1> DEFINE q == ready[e]
           c == <<op, result>>
<1>1. ready \in [Ends -> Seq(Completion)] /\ OnceEach(q)
  BY DEF IInv, TypeOK, EndInv
<1>2. q \in Seq(Completion) /\ ~Has(q, c[1])
  BY <1>1 DEF Queued, Has
<1>3. ready' = [ready EXCEPT ![e] = Append(q, c)]
  BY DEF Enqueue
<1>4. ready'[e] = Append(q, c) /\ \A o \in Ends \ {e} : ready'[o] = ready[o]
  BY <1>1, <1>3
<1>5. c[1] = op
  OBVIOUS
<1> HIDE DEF q, c
<1>6. c \in Completion
  BY DEF c
<1>7. /\ Append(q, c) \in Seq(Completion)
      /\ OnceEach(Append(q, c))
      /\ \A x : Has(Append(q, c), x) <=> Has(q, x) \/ x = c[1]
      /\ \A d : HasResult(Append(q, c), d) <=> HasResult(q, d) \/ d = c
  BY <1>1, <1>2, <1>6, EnqueueQueue
<1>8. ready' \in [Ends -> Seq(Completion)]
  BY <1>1, <1>3, <1>7
<1> QED
  BY <1>4, <1>5, <1>7, <1>8 DEF q, c

(* The queue and the sending half that every step starts from.             *)
LEMMA EndTyped ==
  ASSUME IInv, NEW e \in Ends
  PROVE  /\ ready[e] \in Seq(Completion) /\ OnceEach(ready[e])
         /\ sending[e] \in Sending /\ taken[e] \in Seq(Buffer)
         /\ have_closed[e] \in BOOLEAN
         /\ SendingInv(sending[e], ready[e], have_closed[e])
BY DEF IInv, TypeOK, EndInv

(* A handler of a read: it may close, and leaves the sending half alone.   *)
LEMMA ReadHandlerKeeps ==
  ASSUME IInv, TypeOK', NEW e \in Ends, NEW result, Runs(e, "read", result),
         sending' = sending,
         have_closed'[e] \in BOOLEAN, have_closed[e] => have_closed'[e],
         \A o \in Ends \ {e} : have_closed'[o] = have_closed[o]
  PROVE  IInv'
<1>1. /\ \A o \in Ends \ {e} : ready'[o] = ready[o]
      /\ OnceEach(ready'[e])
      /\ Has(ready'[e], "write") <=> Has(ready[e], "write")
      /\ HasResult(ready'[e], <<"write", "ok">>) => HasResult(ready[e], <<"write", "ok">>)
  <2>1. "read" # "write"
    OBVIOUS
  <2> QED
    BY <2>1, RunsKeeps, Zenon
<1>2. SendingInv(sending[e], ready'[e], have_closed'[e])
  BY <1>1, EndTyped, SendingFrame
<1>3. EndInv(e)'
  BY <1>1, <1>2 DEF EndInv
<1> QED
  BY <1>1, <1>3, OneEnd

LEMMA OnLengthKeeps ==
  ASSUME IInv, NEW e \in Ends, OnLength(e) PROVE IInv'
<1>1. Runs(e, "read", "ok") /\ sending' = sending
  BY DEF OnLength
<1>2. ready' \in [Ends -> Seq(Completion)]
  BY <1>1, RunsKeeps
<1>3. TypeOK
  BY DEF IInv
<1>4. CASE SetState(e, "lengthError") /\ OnClose(e)
           /\ reading' = [reading EXCEPT ![e] = "none"] /\ taken' = [taken EXCEPT ![e] = <<>>]
  <2>1. /\ have_closed' \in [Ends -> BOOLEAN] /\ have_closed'[e]
        /\ closeCalls' \in [Ends -> Nat]
        /\ socket' \in [Ends -> {"open", "shut", "closed"}]
        /\ wire' \in [Ends -> Seq(Buffer)]
        /\ \A o \in Ends \ {e} : have_closed'[o] = have_closed[o]
    BY <1>3, <1>4, OnCloseTyped
  <2>2. TypeOK'
    <3>1. /\ state' \in [Ends -> {"goOn", "readZero", "readError", "writeError",
                                  "shutdownError", "forceClose", "lengthError"}]
          /\ reading' \in [Ends -> {"new", "none", "length", "body"}]
          /\ taken' \in [Ends -> Seq(Buffer)]
      BY <1>3, <1>4 DEF TypeOK, SetState
    <3>2. UNCHANGED <<sending, sent, received>>
      BY DEF OnLength
    <3> QED
      BY <1>2, <1>3, <2>1, <3>1, <3>2 DEF TypeOK
  <2> QED
    BY <1>1, <2>1, <2>2, ReadHandlerKeeps
<1>5. CASE reading' = [reading EXCEPT ![e] = AfterLength] /\ UNCHANGED <<state, closing, taken>>
  <2>1. TypeOK'
    BY <1>2, <1>3, <1>5 DEF TypeOK, closing, AfterLength, OnLength
  <2>2. have_closed' = have_closed
    BY <1>5 DEF closing
  <2>3. have_closed[e] \in BOOLEAN
    BY EndTyped
  <2> QED
    BY <1>1, <2>1, <2>2, <2>3, ReadHandlerKeeps
<1> QED
  BY <1>4, <1>5 DEF OnLength

LEMMA OnMessageKeeps ==
  ASSUME IInv, NEW e \in Ends, OnMessage(e) PROVE IInv'
<1>1. Runs(e, "read", "ok") /\ sending' = sending
  BY DEF OnMessage
<1>2. ready' \in [Ends -> Seq(Completion)]
  BY <1>1, RunsKeeps
<1>3. TypeOK
  BY DEF IInv
<1>4. Whole(taken[e]) \in Nat
  BY EndTyped, WholeTyped
<1>5. received' \in [Ends -> Seq(Nat)] /\ taken' \in [Ends -> Seq(Buffer)]
  BY <1>3, <1>4 DEF OnMessage, TypeOK
<1>6. reading' \in [Ends -> {"new", "none", "length", "body"}]
  BY <1>3 DEF OnMessage, TypeOK, AskForNext, ForceClose, ShutDownWrites, ReadNextMessage
<1>7. /\ have_closed' \in [Ends -> BOOLEAN] /\ (have_closed[e] => have_closed'[e])
      /\ closeCalls' \in [Ends -> Nat]
      /\ socket' \in [Ends -> {"open", "shut", "closed"}]
      /\ wire' \in [Ends -> Seq(Buffer)]
      /\ \A o \in Ends \ {e} : have_closed'[o] = have_closed[o]
  <2>1. CASE OnClose(e)
    BY <1>3, <2>1, OnCloseTyped
  <2>2. CASE UNCHANGED <<have_closed, closeCalls, wire>>
             /\ socket' \in {socket, [socket EXCEPT ![e] = "shut"]}
    BY <1>3, <2>2 DEF TypeOK
  <2> QED
    BY <2>1, <2>2 DEF OnMessage, AskForNext, ForceClose, ShutDownWrites, closing
<1>8. state' \in [Ends -> {"goOn", "readZero", "readError", "writeError",
                           "shutdownError", "forceClose", "lengthError"}]
  BY <1>3 DEF TypeOK, OnMessage, AskForNext, ForceClose, ShutDownWrites, SetState
<1>9. TypeOK'
  BY <1>2, <1>3, <1>5, <1>6, <1>7, <1>8 DEF TypeOK, OnMessage
<1> QED
  BY <1>1, <1>7, <1>9, ReadHandlerKeeps

LEMMA OnReadErrorKeeps ==
  ASSUME IInv, NEW e \in Ends, OnReadError(e) PROVE IInv'
<1>1. TypeOK /\ sending' = sending
  BY DEF IInv, OnReadError
<1>2. /\ have_closed' \in [Ends -> BOOLEAN] /\ have_closed'[e]
      /\ closeCalls' \in [Ends -> Nat]
      /\ socket' \in [Ends -> {"open", "shut", "closed"}]
      /\ wire' \in [Ends -> Seq(Buffer)]
      /\ \A o \in Ends \ {e} : have_closed'[o] = have_closed[o]
  BY <1>1, OnCloseTyped DEF OnReadError
<1>3. ASSUME NEW result, Runs(e, "read", result) PROVE IInv'
  <2>1. ready' \in [Ends -> Seq(Completion)]
    BY <1>3, RunsKeeps
  <2>2. /\ state' \in [Ends -> {"goOn", "readZero", "readError", "writeError",
                                "shutdownError", "forceClose", "lengthError"}]
        /\ reading' \in [Ends -> {"new", "none", "length", "body"}]
        /\ taken' \in [Ends -> Seq(Buffer)]
    <3>1. \E x \in {"readZero", "readError"} : state' = [state EXCEPT ![e] = x]
      BY Zenon DEF OnReadError, SetState
    <3>2. /\ reading' = [reading EXCEPT ![e] = "none"]
          /\ taken' = [taken EXCEPT ![e] = <<>>]
      BY DEF OnReadError
    <3> QED
      BY <1>1, <3>1, <3>2 DEF TypeOK
  <2>3. UNCHANGED <<sending, sent, received>>
    BY DEF OnReadError
  <2>4. TypeOK'
    BY <1>1, <1>2, <2>1, <2>2, <2>3 DEF TypeOK
  <2> QED
    BY <1>1, <1>2, <1>3, <2>4, ReadHandlerKeeps
<1> QED
  BY <1>3 DEF OnReadError

LEMMA OnWrittenKeeps ==
  ASSUME IInv, NEW e \in Ends, OnWritten(e) PROVE IInv'
<1> DEFINE s == sending[e]
<1>1. /\ ready' \in [Ends -> Seq(Completion)]
      /\ \A o \in Ends \ {e} : ready'[o] = ready[o]
      /\ OnceEach(ready'[e])
      /\ HasResult(ready[e], <<"write", "ok">>)
      /\ ~Has(ready'[e], "write")
  BY RunsKeeps DEF OnWritten
<1>2. s \in Sending /\ s.ops = <<>> /\ have_closed[e] \in BOOLEAN
  BY <1>1, EndTyped DEF SendingInv
<1> HIDE DEF s
<1>3. /\ ContinueToSend(s) \in Sending
      /\ SendingInv(ContinueToSend(s), ready'[e], have_closed[e])
  BY <1>1, <1>2, ContinueToSendKeeps
<1>4. TypeOK
  BY DEF IInv
<1>5. sending' = [sending EXCEPT ![e] = ContinueToSend(s)] /\ have_closed' = have_closed
  BY DEF OnWritten, closing, s
<1>6. sending' \in [Ends -> Sending]
  BY <1>3, <1>4, <1>5 DEF TypeOK
<1>7. sending'[e] = ContinueToSend(s) /\ \A o \in Ends \ {e} : sending'[o] = sending[o]
  BY <1>4, <1>5 DEF TypeOK
<1>8. TypeOK'
  BY <1>1, <1>4, <1>6 DEF TypeOK, OnWritten, closing
<1>9. EndInv(e)'
  BY <1>1, <1>3, <1>5, <1>7 DEF EndInv
<1> QED
  BY <1>1, <1>5, <1>7, <1>8, <1>9, OneEnd

LEMMA OnWriteErrorKeeps ==
  ASSUME IInv, NEW e \in Ends, OnWriteError(e) PROVE IInv'
<1> DEFINE s == sending[e]
           w == [s EXCEPT !.ops = <<>>]
<1>1. /\ ready' \in [Ends -> Seq(Completion)]
      /\ \A o \in Ends \ {e} : ready'[o] = ready[o]
      /\ OnceEach(ready'[e])
      /\ ~Has(ready'[e], "write")
  BY RunsKeeps DEF OnWriteError
<1>2. TypeOK
  BY DEF IInv
<1>3. /\ have_closed' \in [Ends -> BOOLEAN] /\ have_closed'[e]
      /\ closeCalls' \in [Ends -> Nat]
      /\ socket' \in [Ends -> {"open", "shut", "closed"}]
      /\ wire' \in [Ends -> Seq(Buffer)]
      /\ \A o \in Ends \ {e} : have_closed'[o] = have_closed[o]
  BY <1>2, OnCloseTyped DEF OnWriteError
<1>4. s \in Sending /\ (s.bufs # <<>> => s.writing)
  BY EndTyped DEF SendingInv
<1>5. <<>> \in AsyncWrites
  BY DEF AsyncWrites
<1>6. w \in Sending /\ w.ops = <<>> /\ w.bufs = s.bufs /\ w.writing = s.writing
  BY <1>4, <1>5 DEF Sending
<1>7. sending' = [sending EXCEPT ![e] = w]
  BY DEF OnWriteError
<1> HIDE DEF s, w
<1>8. ~HasResult(ready'[e], <<"write", "ok">>)
  BY <1>1 DEF Has, HasResult
<1>9. SendingInv(w, ready'[e], have_closed'[e])
  BY <1>1, <1>3, <1>4, <1>6, <1>8 DEF SendingInv
<1>10. sending' \in [Ends -> Sending]
  BY <1>2, <1>6, <1>7 DEF TypeOK
<1>11. sending'[e] = w /\ \A o \in Ends \ {e} : sending'[o] = sending[o]
  BY <1>2, <1>7 DEF TypeOK
<1>12. TypeOK'
  BY <1>1, <1>2, <1>3, <1>10 DEF TypeOK, OnWriteError, SetState
<1>13. EndInv(e)'
  BY <1>1, <1>9, <1>11 DEF EndInv
<1> QED
  BY <1>1, <1>3, <1>11, <1>12, <1>13, OneEnd

LEMMA StartKeeps ==
  ASSUME IInv, NEW e \in Ends, Start(e) PROVE IInv'
<1>1. UNCHANGED <<ready, sending, have_closed>>
  BY DEF Start, closing
<1>2. TypeOK'
  BY DEF IInv, TypeOK, Start, closing, ReadNextMessage
<1>3. EndInv(e)'
  BY <1>1 DEF IInv, EndInv
<1> QED
  BY <1>1, <1>2, <1>3, OneEnd

LEMMA SendKeeps ==
  ASSUME IInv, NEW e \in Ends, Send(e) PROVE IInv'
<1> DEFINE s == sending[e]
           k == sent[e] + 1
<1>1. TypeOK /\ k \in Nat
  BY DEF IInv, TypeOK
<1>2. s \in Sending /\ have_closed[e] \in BOOLEAN /\ SendingInv(s, ready[e], have_closed[e])
  BY EndTyped
<1>3. sending' = [sending EXCEPT ![e] = DoWrite(s, k)]
  BY DEF Send
<1> HIDE DEF s, k
<1>4. DoWrite(s, k) \in Sending /\ SendingInv(DoWrite(s, k), ready[e], have_closed[e])
  BY <1>1, <1>2, DoWriteKeeps
<1>5. UNCHANGED <<ready, have_closed>>
  BY DEF Send, closing
<1>6. sending' \in [Ends -> Sending] /\ sending'[e] = DoWrite(s, k)
      /\ \A o \in Ends \ {e} : sending'[o] = sending[o]
  BY <1>1, <1>3, <1>4 DEF TypeOK
<1>7. sent' \in [Ends -> Nat]
  BY <1>1 DEF TypeOK, Send
<1>8. TypeOK'
  BY <1>1, <1>6, <1>7 DEF TypeOK, Send, closing
<1>9. EndInv(e)'
  BY <1>4, <1>5, <1>6, EndTyped DEF EndInv
<1> QED
  BY <1>5, <1>6, <1>8, <1>9, OneEnd

LEMMA ReadCompletesKeeps ==
  ASSUME IInv, NEW e \in Ends, ReadCompletes(e) PROVE IInv'
<1>1. TypeOK /\ Peer(e) \in Ends /\ wire[Peer(e)] \in Seq(Buffer) /\ wire[Peer(e)] # <<>>
  BY PeerTyped DEF IInv, TypeOK, ReadCompletes
<1>2. Head(wire[Peer(e)]) \in Buffer /\ Tail(wire[Peer(e)]) \in Seq(Buffer)
  BY <1>1
<1>3. Append(taken[e], Head(wire[Peer(e)])) \in Seq(Buffer)
  BY <1>2, EndTyped
<1>4. taken' \in [Ends -> Seq(Buffer)] /\ wire' \in [Ends -> Seq(Buffer)]
  BY <1>1, <1>2, <1>3 DEF TypeOK, ReadCompletes
<1>5. <<"read", "ok">> \in Completion
  BY DEF Completion
<1>6. UNCHANGED <<sending, have_closed>>
  BY DEF ReadCompletes
<1>7. /\ ready' \in [Ends -> Seq(Completion)]
      /\ \A o \in Ends \ {e} : ready'[o] = ready[o]
      /\ OnceEach(ready'[e])
      /\ \A x : Has(ready'[e], x) <=> Has(ready[e], x) \/ x = "read"
      /\ \A d : HasResult(ready'[e], d) <=> HasResult(ready[e], d) \/ d = <<"read", "ok">>
  BY <1>5, EnqueueKeeps DEF ReadCompletes
<1>8. SendingInv(sending[e], ready'[e], have_closed[e])
  BY <1>7, EndTyped, SendingFrame
<1>9. TypeOK'
  BY <1>1, <1>4, <1>7 DEF TypeOK, ReadCompletes
<1>10. EndInv(e)'
  BY <1>6, <1>7, <1>8 DEF EndInv
<1> QED
  BY <1>6, <1>7, <1>9, <1>10, OneEnd

LEMMA ReadFailsKeeps ==
  ASSUME IInv, NEW e \in Ends, ReadFails(e) PROVE IInv'
<1>1. PICK result \in {"eof", "error"} : Enqueue(e, "read", result)
  BY DEF ReadFails
<1>2. <<"read", result>> \in Completion
  BY DEF Completion
<1>3. UNCHANGED <<sending, have_closed>>
  BY DEF ReadFails, closing
<1>4. /\ ready' \in [Ends -> Seq(Completion)]
      /\ \A o \in Ends \ {e} : ready'[o] = ready[o]
      /\ OnceEach(ready'[e])
      /\ \A x : Has(ready'[e], x) <=> Has(ready[e], x) \/ x = "read"
      /\ \A d : HasResult(ready'[e], d) <=> HasResult(ready[e], d) \/ d = <<"read", result>>
  BY <1>1, <1>2, EnqueueKeeps DEF ReadFails
<1>5. SendingInv(sending[e], ready'[e], have_closed[e])
  BY <1>4, EndTyped, SendingFrame
<1>6. TypeOK'
  BY <1>4 DEF IInv, TypeOK, ReadFails, closing
<1>7. EndInv(e)'
  BY <1>3, <1>4, <1>5 DEF EndInv
<1> QED
  BY <1>3, <1>4, <1>6, <1>7, OneEnd

LEMMA WriteProceedsKeeps ==
  ASSUME IInv, NEW e \in Ends, WriteProceeds(e) PROVE IInv'
<1> DEFINE s == sending[e]
           w(i) == [s EXCEPT !.ops = Rest(s.ops, i)]
<1>1. PICK i \in DOMAIN s.ops :
        /\ ~Queued(e, "write")
        /\ \/ Len(wire[e]) < WireBound /\ wire' = [wire EXCEPT ![e] = Append(@, Head(s.ops[i]))]
           \/ UNCHANGED wire
        /\ sending' = [sending EXCEPT ![e].ops = Rest(@, i)]
        /\ IF Len(s.ops[i]) = 1 THEN Enqueue(e, "write", "ok") ELSE UNCHANGED ready
        /\ UNCHANGED <<state, have_closed, closeCalls, socket, reading, taken, sent, received>>
  BY DEF WriteProceeds
<1>2. TypeOK /\ s \in Sending /\ OnceEach(ready[e])
      /\ SendingInv(s, ready[e], have_closed[e])
  BY EndTyped DEF IInv
<1>3. s.ops \in AsyncWrites /\ \A j \in DOMAIN s.ops : s.ops[j] # <<>>
  BY <1>2 DEF Sending, SendingInv
<1>4. /\ Rest(s.ops, i) \in AsyncWrites
      /\ Head(s.ops[i]) \in Buffer
      /\ Len(s.ops[i]) = 1 => Rest(s.ops, i) = <<>>
      /\ Len(s.ops[i]) # 1 => Rest(s.ops, i) # <<>>
      /\ \A j \in DOMAIN Rest(s.ops, i) : Rest(s.ops, i)[j] # <<>>
  BY <1>3, RestTyped
<1>5. s.writing /\ (s.bufs # <<>> => s.writing)
  BY <1>2 DEF SendingInv
<1>6. /\ w(i) \in Sending /\ w(i).ops = Rest(s.ops, i)
      /\ w(i).bufs = s.bufs /\ w(i).writing = s.writing
  BY <1>2, <1>4 DEF Sending
<1>7. sending' = [sending EXCEPT ![e] = w(i)]
  BY <1>1
<1>8. ~Has(ready[e], "write") /\ ~HasResult(ready[e], <<"write", "ok">>)
  BY <1>1 DEF Queued, Has, HasResult
<1>9. wire' \in [Ends -> Seq(Buffer)]
  <2>1. wire \in [Ends -> Seq(Buffer)]
    BY <1>2 DEF TypeOK
  <2> HIDE DEF s
  <2>2. Append(wire[e], Head(s.ops[i])) \in Seq(Buffer)
    BY <1>4, <2>1
  <2> QED
    BY <1>1, <2>1, <2>2
<1> HIDE DEF s, w
<1>10. sending' \in [Ends -> Sending] /\ sending'[e] = w(i)
       /\ \A o \in Ends \ {e} : sending'[o] = sending[o]
  BY <1>2, <1>6, <1>7 DEF TypeOK
<1>11. /\ ready' \in [Ends -> Seq(Completion)]
       /\ \A o \in Ends \ {e} : ready'[o] = ready[o]
       /\ OnceEach(ready'[e])
       /\ SendingInv(w(i), ready'[e], have_closed[e])
  <2>1. CASE Len(s.ops[i]) = 1
    <3>1. <<"write", "ok">> \in Completion
      BY DEF Completion
    <3>2. /\ ready' \in [Ends -> Seq(Completion)]
          /\ \A o \in Ends \ {e} : ready'[o] = ready[o]
          /\ OnceEach(ready'[e])
          /\ Has(ready'[e], "write")
      BY <1>1, <2>1, <3>1, EnqueueKeeps
    <3> QED
      BY <1>4, <1>5, <1>6, <2>1, <3>2 DEF SendingInv
  <2>2. CASE Len(s.ops[i]) # 1
    <3>1. ready' = ready
      BY <1>1, <2>2
    <3> QED
      BY <1>2, <1>4, <1>5, <1>6, <1>8, <2>2, <3>1 DEF SendingInv, TypeOK
  <2> QED
    BY <2>1, <2>2
<1>12. TypeOK'
  BY <1>1, <1>2, <1>9, <1>10, <1>11 DEF TypeOK
<1>13. EndInv(e)'
  BY <1>1, <1>10, <1>11 DEF EndInv
<1> QED
  BY <1>1, <1>10, <1>11, <1>12, <1>13, OneEnd

LEMMA WriteFailsKeeps ==
  ASSUME IInv, NEW e \in Ends, WriteFails(e) PROVE IInv'
<1> DEFINE s == sending[e]
<1>1. <<"write", "error">> \in Completion
  BY DEF Completion
<1>2. /\ ready' \in [Ends -> Seq(Completion)]
      /\ \A o \in Ends \ {e} : ready'[o] = ready[o]
      /\ OnceEach(ready'[e])
      /\ \A x : Has(ready'[e], x) <=> Has(ready[e], x) \/ x = "write"
      /\ \A d : HasResult(ready'[e], d) <=> HasResult(ready[e], d) \/ d = <<"write", "error">>
  BY <1>1, EnqueueKeeps DEF WriteFails
<1>3. UNCHANGED <<sending, have_closed>> /\ s.ops # <<>>
  BY DEF WriteFails, closing
<1>4. SendingInv(s, ready[e], have_closed[e])
  BY EndTyped
<1>5. Has(ready'[e], "write") /\ ~HasResult(ready'[e], <<"write", "ok">>)
  <2>1. ~HasResult(ready[e], <<"write", "ok">>)
    BY <1>3, <1>4 DEF SendingInv
  <2>2. <<"write", "ok">> # <<"write", "error">>
    OBVIOUS
  <2> QED
    BY <1>2, <2>1, <2>2
<1> HIDE DEF s
<1>6. SendingInv(s, ready'[e], have_closed[e])
  BY <1>3, <1>4, <1>5 DEF SendingInv
<1>7. TypeOK'
  BY <1>2 DEF IInv, TypeOK, WriteFails, closing
<1>8. EndInv(e)'
  BY <1>2, <1>3, <1>6 DEF EndInv, s
<1> QED
  BY <1>2, <1>3, <1>7, <1>8, OneEnd

----------------------------------------------------------------------------
(* The theorems. *)

LEMMA InitIInv == Init => IInv
<1> SUFFICES ASSUME Init PROVE IInv
  OBVIOUS
<1>1. <<>> \in AsyncWrites
  BY DEF AsyncWrites
<1>2. [writing |-> FALSE, bufs |-> <<>>, ops |-> <<>>] \in Sending
  BY <1>1 DEF Sending
<1>3. TypeOK
  BY <1>2 DEF TypeOK, Init
<1>4. ASSUME NEW e \in Ends PROVE EndInv(e)
  BY DEF EndInv, Init, OnceEach, SendingInv, Has, HasResult
<1> QED
  BY <1>3, <1>4 DEF IInv

LEMMA NextIInv == IInv /\ [Next]_sessionVars => IInv'
<1> SUFFICES ASSUME IInv, [Next]_sessionVars PROVE IInv'
  OBVIOUS
<1>1. ASSUME NEW e \in Ends, Start(e) PROVE IInv'
  BY <1>1, StartKeeps
<1>2. ASSUME NEW e \in Ends, Send(e) PROVE IInv'
  BY <1>2, SendKeeps
<1>3. ASSUME NEW e \in Ends, Handler(e) PROVE IInv'
  BY <1>3, OnLengthKeeps, OnMessageKeeps, OnReadErrorKeeps, OnWrittenKeeps,
     OnWriteErrorKeeps DEF Handler
<1>4. ASSUME NEW e \in Ends, KernelReads(e) PROVE IInv'
  BY <1>4, ReadCompletesKeeps, ReadFailsKeeps DEF KernelReads
<1>5. ASSUME NEW e \in Ends, KernelWrites(e) PROVE IInv'
  BY <1>5, WriteProceedsKeeps, WriteFailsKeeps DEF KernelWrites
<1>6. CASE UNCHANGED sessionVars
  <2>1. TypeOK'
    BY <1>6 DEF IInv, TypeOK, sessionVars, closing
  <2>2. UNCHANGED <<ready, sending, have_closed>>
    BY <1>6 DEF sessionVars, closing
  <2> QED
    BY <2>1, <2>2 DEF IInv, EndInv
<1> QED
  BY <1>1, <1>2, <1>3, <1>4, <1>5, <1>6 DEF Next

(* Every variable has its type; above all, writing_ keeps it that at most  *)
(* one async_write is under way on a connection, so that two messages are  *)
(* never mixed on the wire, whatever is sent while others are written.     *)
THEOREM SessionTypeCorrect == Spec => []TypeOK
<1>1. IInv => TypeOK
  BY DEF IInv
<1> QED
  BY <1>1, InitIInv, NextIInv, PTL DEF Spec

(* Nothing is left in write_bufs_ of a connection that is open but behind  *)
(* a write, under way or complete with its handler queued (do_write and    *)
(* continue_to_send).                                                      *)
THEOREM NothingWaitsUnwritten == Spec => []WriteUnderWay
<1>1. IInv => WriteUnderWay
  BY DEF IInv, EndInv, SendingInv, WriteUnderWay, Has, Queued
<1> QED
  BY <1>1, InitIInv, NextIInv, PTL DEF Spec

(* on_close_ is called once for a connection, and for each that ends, by   *)
(* whichever of its handlers (onClose and have_closed_).                   *)
THEOREM ClosedExactlyOnce == Spec => []ClosedOnce
<1>1. Init => ClosedOnce
  BY ZenonT(60) DEF Init, ClosedOnce
<1>2. TypeOK /\ ClosedOnce /\ [Next]_sessionVars => ClosedOnce'
  <2> SUFFICES ASSUME TypeOK, ClosedOnce, [Next]_sessionVars PROVE ClosedOnce'
    OBVIOUS
  <2>1. ASSUME UNCHANGED <<state, have_closed, closeCalls>> PROVE ClosedOnce'
    BY <2>1 DEF ClosedOnce
  <2>2. ASSUME NEW e \in Ends, OnClose(e),
               state' = state \/ \E x : SetState(e, x)
        PROVE  ClosedOnce'
    <3>1. ASSUME NEW o \in Ends, o # e
          PROVE  /\ have_closed'[o] = have_closed[o]
                 /\ closeCalls'[o] = closeCalls[o]
                 /\ state'[o] = state[o]
      BY <2>2, <3>1 DEF TypeOK, OnClose, closing, SetState
    <3>2. have_closed'[e] /\ closeCalls'[e] = 1
      <4>1. CASE have_closed[e] /\ UNCHANGED closing
        BY <4>1 DEF ClosedOnce, closing
      <4>2. CASE /\ ~have_closed[e]
                 /\ have_closed' = [have_closed EXCEPT ![e] = TRUE]
                 /\ closeCalls' = [closeCalls EXCEPT ![e] = @ + 1]
        <5>1. closeCalls[e] = 0
          BY <4>2 DEF ClosedOnce
        <5>2. closeCalls'[e] = 1
          BY <4>2, <5>1 DEF TypeOK
        <5>3. have_closed'[e]
          BY <4>2 DEF TypeOK
        <5> QED
          BY <5>2, <5>3
      <4> QED
        BY <2>2, <4>1, <4>2 DEF OnClose
    <3> QED
      BY <3>1, <3>2 DEF ClosedOnce
  <2>3. ASSUME NEW e \in Ends, Start(e) \/ Send(e) PROVE ClosedOnce'
    BY <2>1, <2>3 DEF Start, Send, closing
  <2>4. ASSUME NEW e \in Ends, OnLength(e) PROVE ClosedOnce'
    BY <2>1, <2>2, <2>4 DEF OnLength, closing
  <2>5. ASSUME NEW e \in Ends, OnMessage(e) PROVE ClosedOnce'
    BY <2>1, <2>2, <2>5 DEF OnMessage, AskForNext, ForceClose, ShutDownWrites, closing
  <2>6. ASSUME NEW e \in Ends, OnReadError(e) \/ OnWriteError(e) PROVE ClosedOnce'
    BY <2>2, <2>6 DEF OnReadError, OnWriteError
  <2>7. ASSUME NEW e \in Ends, OnWritten(e) PROVE ClosedOnce'
    BY <2>1, <2>7 DEF OnWritten, closing
  <2>8. ASSUME NEW e \in Ends, KernelReads(e) PROVE ClosedOnce'
    BY <2>1, <2>8 DEF KernelReads, ReadCompletes, ReadFails, closing
  <2>9. ASSUME NEW e \in Ends, KernelWrites(e) PROVE ClosedOnce'
    BY <2>1, <2>9 DEF KernelWrites, WriteProceeds, WriteFails, closing
  <2>10. CASE UNCHANGED sessionVars
    BY <2>1, <2>10 DEF sessionVars, closing
  <2> QED
    BY <2>3, <2>4, <2>5, <2>6, <2>7, <2>8, <2>9, <2>10 DEF Next, Handler
<1> QED
  BY <1>1, <1>2, SessionTypeCorrect, PTL DEF Spec

----------------------------------------------------------------------------
(* The connection is a stream.  In the direction from e to its peer the    *)
(* buffers are numbered, each length and its body in turn; what has been   *)
(* read, what is on the wire and what is being written continue each other *)
(* from the last message received, and what waits goes on from there to    *)
(* the last message sent.                                                  *)

(* The nth buffer of a stream, and buffers that follow its first n. *)
Nth(n) == <<IF n % 2 = 1 THEN "length" ELSE "body", (n + 1) \div 2>>
Follows(q, n) == \A i \in DOMAIN q : q[i] = Nth(n + i)

(* What is left of the async_write. *)
Writing(s) == IF s.ops = <<>> THEN <<>> ELSE s.ops[1]

(* One direction: n messages have been received, tk is what has been read  *)
(* since, w the wire, s the sending half and k the messages sent; whether  *)
(* the receiver and the sender have closed.                                *)
InOrder(n, tk, w, s, k, hp, he) ==
  /\ Follows(tk, 2 * n)
  /\ ~hp => Follows(w, 2 * n + Len(tk))
  /\ ~hp /\ ~he =>
       /\ Follows(Writing(s), 2 * n + Len(tk) + Len(w))
       /\ 2 * n + Len(tk) + Len(w) + Len(Writing(s)) + 2 * Len(s.bufs) = 2 * k
       /\ \A i \in DOMAIN s.bufs : s.bufs[i] = k - Len(s.bufs) + i

(* How much of the current message has been read. *)
ReadInv(r, q, tk) ==
  /\ Len(tk) = (IF r = "body" THEN 1 ELSE 0)
                 + (IF HasResult(q, <<"read", "ok">>) THEN 1 ELSE 0)
  /\ Has(q, "read") => r \in {"length", "body"}

(* The directions of the connection. *)
Direction(e) ==
  InOrder(Len(received[Peer(e)]), taken[Peer(e)], wire[e], sending[e], sent[e],
          have_closed[Peer(e)], have_closed[e])

StreamInv ==
  \A e \in Ends : /\ Direction(e)
                  /\ ReadInv(reading[e], ready[e], taken[e])
                  /\ have_closed[e] <=> socket[e] = "closed"

AllStreamInv == IInv /\ StreamInv

(* Sequences that follow the first n buffers of a stream. *)
LEMMA FollowsTail ==
  ASSUME NEW q \in Seq(Buffer), NEW n \in Nat, q # <<>>, Follows(q, n)
  PROVE  /\ Head(q) = Nth(n + 1)
         /\ Tail(q) \in Seq(Buffer) /\ Len(Tail(q)) = Len(q) - 1
         /\ Follows(Tail(q), n + 1)
<1>1. /\ Len(q) \in Nat \ {0} /\ DOMAIN q = 1 .. Len(q) /\ Head(q) = q[1]
      /\ Tail(q) \in Seq(Buffer) /\ Len(Tail(q)) = Len(q) - 1
      /\ DOMAIN Tail(q) = 1 .. Len(q) - 1
      /\ \A i \in 1 .. Len(q) - 1 : Tail(q)[i] = q[i + 1]
  OBVIOUS
<1>2. Head(q) = Nth(n + 1)
  BY <1>1 DEF Follows
<1>3. ASSUME NEW i \in DOMAIN Tail(q) PROVE Tail(q)[i] = Nth((n + 1) + i)
  <2>1. i \in Nat /\ i + 1 \in DOMAIN q /\ Tail(q)[i] = q[i + 1]
    BY <1>1
  <2>2. n + (i + 1) = (n + 1) + i
    BY <2>1
  <2> QED
    BY <2>1, <2>2 DEF Follows
<1> QED
  BY <1>1, <1>2, <1>3 DEF Follows

LEMMA FollowsAppend ==
  ASSUME NEW q \in Seq(Buffer), NEW n \in Nat, Follows(q, n),
         NEW b, b = Nth(n + Len(q) + 1)
  PROVE  Follows(Append(q, b), n)
<1>1. /\ Len(q) \in Nat /\ DOMAIN q = 1 .. Len(q)
      /\ DOMAIN Append(q, b) = 1 .. Len(q) + 1
      /\ \A i \in 1 .. Len(q) : Append(q, b)[i] = q[i]
      /\ Append(q, b)[Len(q) + 1] = b
  OBVIOUS
<1>2. ASSUME NEW i \in DOMAIN Append(q, b) PROVE Append(q, b)[i] = Nth(n + i)
  <2>1. CASE i \in DOMAIN q
    BY <1>1, <2>1 DEF Follows
  <2>2. CASE i = Len(q) + 1
    <3>1. n + i = n + Len(q) + 1
      BY <1>1, <2>2
    <3> QED
      BY <1>1, <2>2, <3>1
  <2> QED
    BY <1>1, <2>1, <2>2
<1> QED
  BY <1>2 DEF Follows

LEMMA FollowsPrefix ==
  ASSUME NEW q \in Seq(Buffer), NEW n \in Nat, Follows(q, n), NEW m \in 0 .. Len(q)
  PROVE  /\ SubSeq(q, 1, m) \in Seq(Buffer) /\ Len(SubSeq(q, 1, m)) = m
         /\ Follows(SubSeq(q, 1, m), n)
<1>1. /\ Len(q) \in Nat /\ DOMAIN q = 1 .. Len(q)
      /\ SubSeq(q, 1, m) \in Seq(Buffer) /\ Len(SubSeq(q, 1, m)) = m
      /\ DOMAIN SubSeq(q, 1, m) = 1 .. m
      /\ \A i \in 1 .. m : i \in DOMAIN q /\ SubSeq(q, 1, m)[i] = q[i]
  OBVIOUS
<1> QED
  BY <1>1 DEF Follows

LEMMA FollowsEmpty == \A n : Follows(<<>>, n)
BY DEF Follows

LEMMA FollowsConcat ==
  ASSUME NEW q \in Seq(Buffer), NEW r \in Seq(Buffer), NEW n \in Nat,
         Follows(q, n), Follows(r, n + Len(q))
  PROVE  /\ q \o r \in Seq(Buffer) /\ Len(q \o r) = Len(q) + Len(r)
         /\ Follows(q \o r, n)
<1>1. /\ Len(q) \in Nat /\ DOMAIN q = 1 .. Len(q)
      /\ Len(r) \in Nat /\ DOMAIN r = 1 .. Len(r)
      /\ q \o r \in Seq(Buffer) /\ Len(q \o r) = Len(q) + Len(r)
      /\ DOMAIN (q \o r) = 1 .. Len(q) + Len(r)
      /\ \A i \in 1 .. Len(q) + Len(r) :
           (q \o r)[i] = IF i <= Len(q) THEN q[i] ELSE r[i - Len(q)]
  OBVIOUS
<1>2. ASSUME NEW i \in DOMAIN (q \o r) PROVE (q \o r)[i] = Nth(n + i)
  <2>1. CASE i <= Len(q)
    <3>1. i \in DOMAIN q /\ (q \o r)[i] = q[i]
      BY <1>1, <2>1
    <3> QED
      BY <3>1 DEF Follows
  <2>2. CASE ~(i <= Len(q))
    <3>1. i - Len(q) \in DOMAIN r /\ (q \o r)[i] = r[i - Len(q)]
      BY <1>1, <2>2
    <3>2. (n + Len(q)) + (i - Len(q)) = n + i
      BY <1>1
    <3> QED
      BY <3>1, <3>2 DEF Follows
  <2> QED
    BY <2>1, <2>2
<1> QED
  BY <1>1, <1>2 DEF Follows

(* The messages after the first n are written as the buffers after 2 * n. *)
LEMMA BuffersFollow ==
  ASSUME NEW msgs \in Seq(Nat), NEW n \in Nat, \A i \in DOMAIN msgs : msgs[i] = n + i
  PROVE  /\ Buffers(msgs) \in Seq(Buffer) /\ Len(Buffers(msgs)) = 2 * Len(msgs)
         /\ Follows(Buffers(msgs), 2 * n)
<1>1. Len(msgs) \in Nat /\ DOMAIN msgs = 1 .. Len(msgs) /\ Buffers(msgs) \in Seq(Buffer)
  BY BuffersTyped
<1>2. DOMAIN Buffers(msgs) = 1 .. 2 * Len(msgs)
  BY DEF Buffers
<1>3. Len(Buffers(msgs)) = 2 * Len(msgs)
  <2>1. Len(Buffers(msgs)) \in Nat /\ DOMAIN Buffers(msgs) = 1 .. Len(Buffers(msgs))
    BY <1>1
  <2> QED
    BY <1>1, <1>2, <2>1
<1>4. ASSUME NEW i \in 1 .. 2 * Len(msgs) PROVE Buffers(msgs)[i] = Nth(2 * n + i)
  <2>1. (i + 1) \div 2 \in 1 .. Len(msgs)
    BY <1>1
  <2>2. msgs[(i + 1) \div 2] = n + (i + 1) \div 2
    BY <1>1, <2>1
  <2>3. n + (i + 1) \div 2 = (2 * n + i + 1) \div 2 /\ i % 2 = (2 * n + i) % 2
    BY <1>1
  <2> QED
    BY <2>2, <2>3 DEF Buffers, Nth
<1> QED
  BY <1>1, <1>2, <1>3, <1>4 DEF Follows

(* Messages n + 1, ..., n + m, and how many buffers are under way.  *)
Run(n, m) == [i \in 1 .. m |-> n + i]
Under(tk, w, s, hp, he) ==
  IF hp THEN Len(tk)
  ELSE Len(tk) + Len(w) + (IF he THEN 0 ELSE Len(Writing(s)) + 2 * Len(s.bufs))

LEMMA BodiesFollow ==
  ASSUME NEW q \in Seq(Buffer), NEW n \in Nat, Follows(q, 2 * n)
  PROVE  Bodies(q) = Run(n, Len(q) \div 2)
<1>1. Len(q) \in Nat /\ DOMAIN q = 1 .. Len(q)
  OBVIOUS
<1>2. ASSUME NEW i \in 1 .. Len(q) \div 2 PROVE q[2 * i][2] = n + i
  <2>1. 2 * i \in DOMAIN q
    BY <1>1
  <2>2. q[2 * i] = Nth(2 * n + 2 * i)
    BY <2>1 DEF Follows
  <2>3. (2 * n + 2 * i + 1) \div 2 = n + i
    OBVIOUS
  <2> QED
    BY <2>2, <2>3 DEF Nth
<1> QED
  BY <1>2 DEF Bodies, Run

LEMMA WritingTyped ==
  ASSUME NEW s \in Sending
  PROVE  /\ Writing(s) \in Seq(Buffer) /\ Len(Writing(s)) \in Nat
         /\ s.bufs \in Seq(Nat) /\ Len(s.bufs) \in Nat
         /\ DOMAIN s.bufs = 1 .. Len(s.bufs)
         /\ Unwritten(s) = Writing(s) \o Buffers(s.bufs)
<1>1. s.bufs \in Seq(Nat) /\ s.ops \in Seq(Seq(Buffer)) /\ Len(s.ops) <= 1
  BY DEF Sending, AsyncWrites
<1>2. Len(s.ops) \in Nat /\ DOMAIN s.ops = 1 .. Len(s.ops) /\ (s.ops # <<>> => 1 \in DOMAIN s.ops)
  BY <1>1
<1>3. Writing(s) \in Seq(Buffer)
  BY <1>1, <1>2 DEF Writing
<1>4. Unwritten(s) = Writing(s) \o <<>> \o Buffers(s.bufs)
  <2>1. Len(s.ops) < 2
    BY <1>1, <1>2
  <2>2. Unwritten(s) = (IF s.ops = <<>> THEN <<>> ELSE s.ops[1]) \o <<>> \o Buffers(s.bufs)
    BY <2>1, Zenon DEF Unwritten
  <2> QED
    BY <2>2, Zenon DEF Writing
<1>5. Writing(s) \o <<>> = Writing(s)
  BY <1>3
<1>6. Len(Writing(s)) \in Nat /\ Len(s.bufs) \in Nat /\ DOMAIN s.bufs = 1 .. Len(s.bufs)
  BY <1>1, <1>3
<1> QED
  BY <1>1, <1>3, <1>4, <1>5, <1>6

(* What waits follows what is written. *)
LEMMA UnwrittenFollows ==
  ASSUME NEW s \in Sending, NEW m \in Nat, NEW k \in Nat, Follows(Writing(s), m),
         m + Len(Writing(s)) + 2 * Len(s.bufs) = 2 * k,
         \A i \in DOMAIN s.bufs : s.bufs[i] = k - Len(s.bufs) + i
  PROVE  /\ Unwritten(s) \in Seq(Buffer)
         /\ Len(Unwritten(s)) = Len(Writing(s)) + 2 * Len(s.bufs)
         /\ Follows(Unwritten(s), m)
<1> DEFINE n == k - Len(s.bufs)
           bs == s.bufs
<1>1. /\ Writing(s) \in Seq(Buffer) /\ Len(Writing(s)) \in Nat
      /\ bs \in Seq(Nat) /\ Len(bs) \in Nat
      /\ Unwritten(s) = Writing(s) \o Buffers(bs)
  BY WritingTyped
<1>2. n \in Nat /\ 2 * n = m + Len(Writing(s))
  <2> DEFINE d == Len(Writing(s))
             g == Len(s.bufs)
  <2>1. d \in Nat /\ g \in Nat /\ m + d + 2 * g = 2 * k
    BY <1>1
  <2> HIDE DEF d, g
  <2>2. k - g \in Nat /\ 2 * (k - g) = m + d
    BY <2>1
  <2> QED
    BY <2>2 DEF d, g
<1>3. \A i \in DOMAIN bs : bs[i] = n + i
  BY <1>1
<1> HIDE DEF n, bs
<1>4. /\ Buffers(bs) \in Seq(Buffer) /\ Len(Buffers(bs)) = 2 * Len(bs)
      /\ Follows(Buffers(bs), m + Len(Writing(s)))
  BY <1>1, <1>2, <1>3, BuffersFollow
<1> QED
  BY <1>1, <1>4, FollowsConcat DEF bs

(* The queue of Stream.tla, as the invariant gives it. *)
Transit(tk, w, s, hp, he) ==
  IF hp THEN tk ELSE tk \o w \o (IF he THEN <<>> ELSE Unwritten(s))

LEMMA QueueIsRun ==
  ASSUME NEW n \in Nat, NEW tk \in Seq(Buffer), NEW w \in Seq(Buffer), NEW s \in Sending,
         NEW k \in Nat, NEW hp \in BOOLEAN, NEW he \in BOOLEAN,
         InOrder(n, tk, w, s, k, hp, he)
  PROVE  /\ Under(tk, w, s, hp, he) \in Nat
         /\ Bodies(Transit(tk, w, s, hp, he)) = Run(n, Under(tk, w, s, hp, he) \div 2)
<1> DEFINE q == Transit(tk, w, s, hp, he)
           m == Under(tk, w, s, hp, he)
<1> SUFFICES q \in Seq(Buffer) /\ Follows(q, 2 * n) /\ Len(q) = m /\ Len(q) \in Nat
  <2> HIDE DEF q, m
  <2> QED
    BY BodiesFollow DEF q, m
<1>1. Len(tk) \in Nat /\ Len(w) \in Nat /\ Follows(tk, 2 * n) /\ 2 * n \in Nat
  BY DEF InOrder
<1>2. CASE hp
  BY <1>1, <1>2 DEF Transit, Under
<1>3. CASE ~hp
  <2>1. /\ tk \o w \in Seq(Buffer) /\ Len(tk \o w) = Len(tk) + Len(w)
        /\ Follows(tk \o w, 2 * n)
    BY <1>1, <1>3, FollowsConcat DEF InOrder
  <2>2. CASE he
    <3>1. q = (tk \o w) \o <<>> /\ m = Len(tk) + Len(w)
      BY <1>3, <2>2, <1>1 DEF Transit, Under
    <3>2. (tk \o w) \o <<>> = tk \o w
      BY <2>1
    <3> QED
      BY <1>1, <2>1, <3>1, <3>2
  <2>3. CASE ~he
    <3> DEFINE t == tk \o w
               u == Unwritten(s)
               c == 2 * n + Len(tk) + Len(w)
    <3>1. c \in Nat /\ c = 2 * n + Len(t)
      BY <1>1, <2>1
    <3>2. /\ Follows(Writing(s), c)
          /\ c + Len(Writing(s)) + 2 * Len(s.bufs) = 2 * k
          /\ \A i \in DOMAIN s.bufs : s.bufs[i] = k - Len(s.bufs) + i
      BY <1>3, <2>3 DEF InOrder
    <3>3. q = t \o u /\ m = Len(tk) + Len(w) + (Len(Writing(s)) + 2 * Len(s.bufs))
      BY <1>3, <2>3 DEF Transit, Under
    <3>4. Len(Writing(s)) \in Nat /\ Len(s.bufs) \in Nat
      BY WritingTyped
    <3> HIDE DEF c
    <3>5. /\ u \in Seq(Buffer) /\ Follows(u, c)
          /\ Len(u) = Len(Writing(s)) + 2 * Len(s.bufs)
      BY <3>1, <3>2, UnwrittenFollows
    <3>6. t \in Seq(Buffer) /\ Follows(t, 2 * n) /\ Len(t) = Len(tk) + Len(w)
      BY <2>1
    <3> HIDE DEF t, u, q, m
    <3>7. t \o u \in Seq(Buffer) /\ Len(t \o u) = Len(t) + Len(u) /\ Follows(t \o u, 2 * n)
      BY <1>1, <3>1, <3>5, <3>6, FollowsConcat
    <3>8. Len(q) = m /\ Len(q) \in Nat
      <4>1. Len(q) = Len(t) + Len(u)
        BY <3>3, <3>7
      <4>2. Len(q) = m /\ m \in Nat
        <5> DEFINE a == Len(tk)
                   b == Len(w)
                   d == Len(Writing(s))
                   g == Len(s.bufs)
        <5>1. a \in Nat /\ b \in Nat /\ d \in Nat /\ g \in Nat
          BY <1>1, <3>4
        <5>2. Len(q) = (a + b) + (d + 2 * g) /\ m = a + b + (d + 2 * g)
          BY <4>1, <3>3, <3>5, <3>6
        <5> HIDE DEF a, b, d, g
        <5> QED
          BY <5>1, <5>2
      <4> QED
        BY <4>1, <4>2
    <3> QED
      BY <3>3, <3>7, <3>8
  <2> QED
    BY <2>2, <2>3
<1> QED
  BY <1>2, <1>3

(* What the actions do to a direction of the stream. *)
LEMMA ReadMoves ==
  ASSUME NEW n \in Nat, NEW tk \in Seq(Buffer), NEW w \in Seq(Buffer), NEW s \in Sending,
         NEW k \in Nat, NEW hp \in BOOLEAN, NEW he \in BOOLEAN,
         InOrder(n, tk, w, s, k, hp, he), ~hp, w # <<>>
  PROVE  /\ InOrder(n, Append(tk, Head(w)), Tail(w), s, k, hp, he)
         /\ Under(Append(tk, Head(w)), Tail(w), s, hp, he) = Under(tk, w, s, hp, he)
<1> DEFINE tk2 == Append(tk, Head(w))
           w2 == Tail(w)
<1>1. /\ Len(tk) \in Nat /\ Len(w) \in Nat /\ 2 * n \in Nat /\ 2 * n + Len(tk) \in Nat
      /\ Len(tk2) = Len(tk) + 1
      /\ Len(Writing(s)) \in Nat /\ Len(s.bufs) \in Nat
  BY WritingTyped
<1>2. Follows(tk, 2 * n) /\ Follows(w, 2 * n + Len(tk))
  BY DEF InOrder
<1>3. /\ Head(w) = Nth(2 * n + Len(tk) + 1) /\ Len(w2) = Len(w) - 1
      /\ Follows(w2, 2 * n + Len(tk) + 1)
  BY <1>1, <1>2, FollowsTail
<1>4. Follows(tk2, 2 * n)
  BY <1>1, <1>2, <1>3, FollowsAppend
<1>5. 2 * n + Len(tk2) = 2 * n + Len(tk) + 1
  BY <1>1
<1>6. Len(tk2) + Len(w2) = Len(tk) + Len(w)
  BY <1>1, <1>3
<1>7. 2 * n + Len(tk2) + Len(w2) = 2 * n + Len(tk) + Len(w)
  BY <1>1, <1>3
<1> HIDE DEF tk2, w2
<1>8. InOrder(n, tk2, w2, s, k, hp, he)
  BY <1>3, <1>4, <1>5, <1>7 DEF InOrder
<1>9. Under(tk2, w2, s, hp, he) = Under(tk, w, s, hp, he)
  BY <1>6 DEF Under
<1> QED
  BY <1>8, <1>9 DEF tk2, w2

LEMMA WriteMoves ==
  ASSUME NEW n \in Nat, NEW tk \in Seq(Buffer), NEW w \in Seq(Buffer), NEW s \in Sending,
         NEW k \in Nat, NEW hp \in BOOLEAN, NEW he \in BOOLEAN, ~hp, ~he,
         InOrder(n, tk, w, s, k, hp, he), Writing(s) # <<>>,
         NEW r \in Sending, Writing(r) = Tail(Writing(s)), r.bufs = s.bufs
  PROVE  /\ InOrder(n, tk, Append(w, Head(Writing(s))), r, k, hp, he)
         /\ Under(tk, Append(w, Head(Writing(s))), r, hp, he)
              = Under(tk, w, s, hp, he)
<1> DEFINE o == Writing(s)
           w2 == Append(w, Head(o))
           c == 2 * n + Len(tk)
<1>1. /\ Len(tk) \in Nat /\ Len(w) \in Nat /\ c \in Nat /\ c + Len(w) \in Nat
      /\ Len(w2) = Len(w) + 1
      /\ o \in Seq(Buffer) /\ Len(o) \in Nat /\ Len(s.bufs) \in Nat
  BY WritingTyped
<1>2. Follows(tk, 2 * n) /\ Follows(w, c) /\ Follows(o, c + Len(w))
  BY DEF InOrder
<1> HIDE DEF o
<1>3. /\ Head(o) = Nth(c + Len(w) + 1) /\ Len(Tail(o)) = Len(o) - 1
      /\ Follows(Tail(o), c + Len(w) + 1)
  BY <1>1, <1>2, FollowsTail DEF o
<1>4. Follows(w2, c)
  BY <1>1, <1>2, <1>3, FollowsAppend
<1>5. c + Len(w2) = c + Len(w) + 1
  BY <1>1
<1>6. /\ c + Len(w2) + Len(Tail(o)) = c + Len(w) + Len(o)
      /\ Len(tk) + Len(w2) + (Len(Tail(o)) + 2 * Len(s.bufs))
           = Len(tk) + Len(w) + (Len(o) + 2 * Len(s.bufs))
  <2> DEFINE a == Len(tk)
             b == Len(w)
             d == Len(o)
             g == 2 * Len(s.bufs)
             x == Len(w2)
             y == Len(Tail(o))
  <2>1. /\ a \in Nat /\ b \in Nat /\ d \in Nat /\ g \in Nat
        /\ x = b + 1 /\ y = d - 1 /\ c \in Nat
    BY <1>1, <1>3
  <2> HIDE DEF a, b, c, d, g, x, y
  <2>2. c + x + y = c + b + d /\ a + x + (y + g) = a + b + (d + g)
    BY <2>1
  <2> QED
    BY <2>2 DEF a, b, c, d, g, x, y
<1> HIDE DEF w2
<1>7. /\ c + Len(w) + Len(o) + 2 * Len(s.bufs) = 2 * k
      /\ \A i \in DOMAIN s.bufs : s.bufs[i] = k - Len(s.bufs) + i
  BY DEF InOrder, o
<1>8. InOrder(n, tk, w2, r, k, hp, he)
  BY <1>2, <1>3, <1>4, <1>5, <1>6, <1>7 DEF InOrder, o
<1>9. Under(tk, w2, r, hp, he) = Under(tk, w, s, hp, he)
  BY <1>6 DEF Under, o
<1> QED
  BY <1>8, <1>9 DEF w2, o

LEMMA Halved ==
  ASSUME NEW c \in Nat, NEW g \in Nat, NEW k \in Nat, c + 2 * g = 2 * k
  PROVE  k - g \in Nat /\ 2 * (k - g) = c
OBVIOUS

(* All that waits is written.  *)
LEMMA WriteAllFollows ==
  ASSUME NEW s \in Sending, NEW k \in Nat, NEW m \in Nat, NEW msgs \in Seq(Nat),
         \A i \in DOMAIN msgs : msgs[i] = k - Len(msgs) + i, m + 2 * Len(msgs) = 2 * k,
         s.ops = <<>>
  PROVE  /\ Follows(Writing(WriteAll(s, msgs)), m)
         /\ Len(Writing(WriteAll(s, msgs))) = 2 * Len(msgs)
         /\ WriteAll(s, msgs).bufs = <<>>
<1> DEFINE g == Len(msgs)
           n == k - g
<1>1. g \in Nat
  OBVIOUS
<1>2. n \in Nat /\ 2 * n = m
  <2> HIDE DEF g
  <2>1. m + 2 * g = 2 * k
    BY DEF g
  <2> QED
    BY <1>1, <2>1, Halved
<1>3. \A i \in DOMAIN msgs : msgs[i] = n + i
  OBVIOUS
<1> HIDE DEF g, n
<1>4. Follows(Buffers(msgs), m) /\ Len(Buffers(msgs)) = 2 * Len(msgs)
  BY <1>2, <1>3, BuffersFollow
<1>5. WriteAll(s, msgs).ops = <<Buffers(msgs)>> /\ WriteAll(s, msgs).bufs = <<>>
  BY DEF WriteAll
<1> QED
  BY <1>4, <1>5 DEF Writing

LEMMA ContinueMoves ==
  ASSUME NEW n \in Nat, NEW tk \in Seq(Buffer), NEW w \in Seq(Buffer), NEW s \in Sending,
         NEW k \in Nat, NEW hp \in BOOLEAN, NEW he \in BOOLEAN,
         InOrder(n, tk, w, s, k, hp, he), s.ops = <<>>
  PROVE  /\ InOrder(n, tk, w, ContinueToSend(s), k, hp, he)
         /\ Under(tk, w, ContinueToSend(s), hp, he) = Under(tk, w, s, hp, he)
<1> DEFINE r == ContinueToSend(s)
           c == 2 * n + Len(tk) + Len(w)
<1>1. /\ Len(tk) \in Nat /\ Len(w) \in Nat /\ c \in Nat
      /\ s.bufs \in Seq(Nat) /\ Len(s.bufs) \in Nat /\ Len(<<>>) = 0
  BY WritingTyped
<1>2. Writing(s) = <<>>
  BY DEF Writing
<1>3. CASE s.bufs = <<>>
  <2>1. r.ops = <<>> /\ r.bufs = <<>> /\ Writing(r) = <<>>
    BY <1>3 DEF ContinueToSend, Sending, Writing
  <2> HIDE DEF r
  <2> QED
    BY <1>2, <1>3, <2>1 DEF InOrder, Under, r
<1>4. CASE s.bufs # <<>> /\ ~hp /\ ~he
  <2>1. /\ c + Len(Writing(s)) + 2 * Len(s.bufs) = 2 * k
        /\ \A i \in DOMAIN s.bufs : s.bufs[i] = k - Len(s.bufs) + i
        /\ Follows(tk, 2 * n) /\ Follows(w, 2 * n + Len(tk))
    BY <1>4 DEF InOrder
  <2>2. c + 2 * Len(s.bufs) = 2 * k
    <3>1. Len(Writing(s)) = 0 /\ c \in Nat
      BY <1>1, <1>2
    <3>2. c + Len(Writing(s)) = c
      <4> HIDE DEF c
      <4> QED
        BY <3>1
    <3> QED
      BY <2>1, <3>2
  <2>3. r = WriteAll(s, s.bufs)
    BY <1>4 DEF ContinueToSend
  <2> HIDE DEF r, c
  <2>4. Follows(Writing(r), c) /\ Len(Writing(r)) = 2 * Len(s.bufs) /\ r.bufs = <<>>
    BY ZenonT(60), <1>1, <2>1, <2>2, <2>3, WriteAllFollows
  <2>5. /\ c + Len(Writing(r)) + 2 * Len(r.bufs) = 2 * k
        /\ Len(Writing(r)) + 2 * Len(r.bufs) = Len(Writing(s)) + 2 * Len(s.bufs)
    BY <1>1, <1>2, <2>2, <2>4
  <2>6. \A i \in DOMAIN r.bufs : r.bufs[i] = k - Len(r.bufs) + i
    BY <2>4
  <2>7. InOrder(n, tk, w, r, k, hp, he)
    BY <2>1, <2>4, <2>5, <2>6 DEF InOrder, c
  <2>8. Under(tk, w, r, hp, he) = Under(tk, w, s, hp, he)
    BY <2>5 DEF Under
  <2> QED
    BY <2>7, <2>8 DEF r
<1>5. CASE hp \/ he
  BY <1>5 DEF InOrder, Under
<1> QED
  BY <1>3, <1>4, <1>5

LEMMA SendAdds ==
  ASSUME NEW n \in Nat, NEW tk \in Seq(Buffer), NEW w \in Seq(Buffer), NEW s \in Sending,
         NEW k \in Nat, NEW hp \in BOOLEAN, NEW he \in BOOLEAN,
         InOrder(n, tk, w, s, k, hp, he), NEW q, SendingInv(s, q, he)
  PROVE  /\ InOrder(n, tk, w, DoWrite(s, k + 1), k + 1, hp, he)
         /\ hp \/ he => Under(tk, w, DoWrite(s, k + 1), hp, he) = Under(tk, w, s, hp, he)
         /\ ~hp /\ ~he =>
              /\ 2 * n + Under(tk, w, s, hp, he) = 2 * k
              /\ Under(tk, w, DoWrite(s, k + 1), hp, he) = Under(tk, w, s, hp, he) + 2
<1> DEFINE r == DoWrite(s, k + 1)
           c == 2 * n + Len(tk) + Len(w)
           d == Len(Writing(s))
           g == Len(s.bufs)
           l == k + 1
<1>1. /\ Len(tk) \in Nat /\ Len(w) \in Nat /\ c \in Nat /\ s.writing \in BOOLEAN
      /\ s.bufs \in Seq(Nat) /\ g \in Nat /\ d \in Nat /\ Len(<<>>) = 0 /\ 2 * n \in Nat
  BY WritingTyped DEF Sending
<1>2. CASE hp \/ he
  BY <1>2 DEF InOrder, Under
<1>3. CASE ~hp /\ ~he
  <2>1. /\ c + d + 2 * g = 2 * k /\ Follows(Writing(s), c)
        /\ \A i \in DOMAIN s.bufs : s.bufs[i] = k - g + i
        /\ Follows(tk, 2 * n) /\ Follows(w, 2 * n + Len(tk))
    BY <1>3 DEF InOrder
  <2>2. /\ Follows(Writing(r), c) /\ \A i \in DOMAIN r.bufs : r.bufs[i] = l - Len(r.bufs) + i
        /\ Len(Writing(r)) \in Nat /\ Len(r.bufs) \in Nat
        /\ Len(Writing(r)) + 2 * Len(r.bufs) = d + 2 * g + 2
    <3>1. CASE s.writing
      <4> DEFINE b == Append(s.bufs, k + 1)
      <4>1. r = [s EXCEPT !.bufs = b]
        BY <3>1 DEF DoWrite
      <4>2. r.bufs = b /\ r.ops = s.ops
        BY <4>1 DEF Sending
      <4>3. Writing(r) = Writing(s)
        BY <4>2 DEF Writing
      <4>4. Len(b) = g + 1 /\ DOMAIN b = 1 .. g + 1
        BY <1>1
      <4>5. ASSUME NEW i \in DOMAIN b PROVE b[i] = k + 1 - (g + 1) + i
        <5>1. CASE i \in DOMAIN s.bufs
          <6>1. b[i] = s.bufs[i] /\ i \in Nat
            BY <1>1, <5>1
          <6>2. b[i] = k - g + i
            BY <2>1, <5>1, <6>1
          <6> HIDE DEF b, g
          <6> QED
            BY <1>1, <6>1, <6>2
        <5>2. CASE i = g + 1
          <6>1. b[i] = k + 1
            BY <1>1, <5>2
          <6> HIDE DEF b, g
          <6> QED
            BY <1>1, <5>2, <6>1
        <5> QED
          BY <1>1, <4>4, <5>1, <5>2
      <4> HIDE DEF b, d, g, r
      <4>6. Len(r.bufs) = g + 1 /\ Len(Writing(r)) = d
        BY <4>2, <4>3, <4>4 DEF d
      <4>7. /\ Len(Writing(r)) \in Nat /\ Len(r.bufs) \in Nat
            /\ Len(Writing(r)) + 2 * Len(r.bufs) = d + 2 * g + 2
        BY <1>1, <4>6
      <4> QED
        BY <2>1, <4>2, <4>3, <4>4, <4>5, <4>7
    <3>2. CASE ~s.writing
      <4> DEFINE msgs == Append(s.bufs, l)
      <4>1. s.ops = <<>> /\ s.bufs = <<>>
        BY <3>2 DEF SendingInv
      <4>2. g = 0 /\ d = 0
        BY <4>1 DEF Writing
      <4>3. r = WriteAll(s, msgs)
        BY <3>2 DEF DoWrite
      <4>4. msgs \in Seq(Nat) /\ Len(msgs) = 1 /\ DOMAIN msgs = {1} /\ msgs[1] = l
        BY <4>1
      <4> HIDE DEF c, d, g, r, msgs
      <4>5. c + 2 * Len(msgs) = 2 * l /\ l \in Nat
        BY <1>1, <2>1, <4>2, <4>4
      <4>6. \A i \in DOMAIN msgs : msgs[i] = l - Len(msgs) + i
        BY <4>4
      <4> HIDE DEF l
      <4>7. Follows(Writing(r), c) /\ Len(Writing(r)) = 2 * Len(msgs) /\ r.bufs = <<>>
        <5>1. c \in Nat /\ l \in Nat /\ msgs \in Seq(Nat) /\ c + 2 * Len(msgs) = 2 * l
          BY <1>1, <4>4, <4>5
        <5> HIDE DEF SendingInv, InOrder
        <5>2. /\ Follows(Writing(WriteAll(s, msgs)), c)
              /\ Len(Writing(WriteAll(s, msgs))) = 2 * Len(msgs)
              /\ WriteAll(s, msgs).bufs = <<>>
          BY <4>1, <4>6, <5>1, WriteAllFollows
        <5> QED
          BY <4>3, <5>2
      <4>8. Len(Writing(r)) = 2 /\ Len(r.bufs) = 0
        BY <1>1, <4>4, <4>7
      <4>9. /\ Len(Writing(r)) \in Nat /\ Len(r.bufs) \in Nat
            /\ Len(Writing(r)) + 2 * Len(r.bufs) = d + 2 * g + 2
        BY <4>2, <4>8
      <4>10. \A i \in DOMAIN r.bufs : r.bufs[i] = l - Len(r.bufs) + i
        BY <4>7
      <4> QED
        BY <4>7, <4>9, <4>10
    <3> QED
      BY <1>1, <3>1, <3>2
  <2> DEFINE rd == Len(Writing(r))
             rg == Len(r.bufs)
             a == Len(tk) + Len(w)
  <2>3. /\ Under(tk, w, s, hp, he) = a + (d + 2 * g)
        /\ Under(tk, w, r, hp, he) = a + (rd + 2 * rg)
    BY <1>3 DEF Under
  <2>4. a \in Nat /\ c = 2 * n + a
    BY <1>1
  <2> DEFINE nn == 2 * n
  <2>5. /\ rd \in Nat /\ rg \in Nat /\ rd + 2 * rg = d + 2 * g + 2
        /\ c + d + 2 * g = 2 * k /\ c = nn + a /\ nn \in Nat /\ l = k + 1
    BY <1>1, <2>1, <2>2, <2>4
  <2> HIDE DEF rd, rg, a, c, d, g, nn, l, r
  <2>6. /\ nn + (a + (d + 2 * g)) = 2 * k
        /\ a + (rd + 2 * rg) = a + (d + 2 * g) + 2
        /\ c + rd + 2 * rg = 2 * l
    BY <1>1, <2>4, <2>5
  <2>7. \A i \in DOMAIN r.bufs : r.bufs[i] = l - rg + i
    BY <2>2, Zenon DEF rg
  <2>8. /\ InOrder(n, tk, w, r, l, hp, he)
           <=> /\ Follows(tk, 2 * n) /\ Follows(w, 2 * n + Len(tk))
               /\ Follows(Writing(r), c) /\ c + rd + 2 * rg = 2 * l
               /\ \A i \in DOMAIN r.bufs : r.bufs[i] = l - rg + i
    BY <1>3, Zenon DEF InOrder, c, rd, rg
  <2>9. InOrder(n, tk, w, r, l, hp, he)
    BY <2>1, <2>2, <2>6, <2>7, <2>8
  <2> QED
    BY <1>3, <2>3, <2>6, <2>9 DEF l, nn, r
<1> QED
  BY <1>2, <1>3

(* A message that has been read: its length and its body. *)
LEMMA Receives ==
  ASSUME NEW n \in Nat, NEW tk \in Seq(Buffer), NEW w \in Seq(Buffer), NEW s \in Sending,
         NEW k \in Nat, NEW hp \in BOOLEAN, NEW he \in BOOLEAN,
         InOrder(n, tk, w, s, k, hp, he), Len(tk) = 2
  PROVE  /\ Whole(tk) = n + 1
         /\ InOrder(n + 1, <<>>, w, s, k, hp, he)
         /\ Under(tk, w, s, hp, he) = Under(<<>>, w, s, hp, he) + 2
         /\ Under(<<>>, w, s, hp, he) \in Nat
<1> DEFINE m == n + 1
           t == <<m>>
<1>1. DOMAIN tk = 1 .. 2 /\ m \in Nat /\ 2 * n \in Nat
  OBVIOUS
<1>2. t \in Seq(Nat) /\ Len(t) = 1 /\ \A i \in DOMAIN t : t[i] = n + i
  BY <1>1
<1> HIDE DEF t
<1>3. /\ Buffers(t) \in Seq(Buffer) /\ Len(Buffers(t)) = 2
      /\ Follows(Buffers(t), 2 * n)
  <2>1. /\ Buffers(t) \in Seq(Buffer) /\ Len(Buffers(t)) = 2 * Len(t)
        /\ Follows(Buffers(t), 2 * n)
    BY <1>2, BuffersFollow
  <2> QED
    BY <1>2, <2>1
<1>4. tk = Buffers(t)
  <2>1. DOMAIN Buffers(t) = 1 .. 2
    BY <1>3
  <2>2. \A i \in 1 .. 2 : tk[i] = Buffers(t)[i]
    BY <1>1, <1>3, <2>1 DEF InOrder, Follows
  <2> QED
    BY <1>3, <2>2, SeqEqual
<1>5. tk[1][2] = m
  <2>1. tk[1] = Nth(2 * n + 1)
    BY <1>1 DEF InOrder, Follows
  <2>2. (2 * n + 1 + 1) \div 2 = n + 1
    OBVIOUS
  <2> QED
    BY <2>1, <2>2 DEF Nth
<1>6. Whole(tk) = n + 1
  BY <1>4, <1>5 DEF Whole, t
<1>7. /\ Len(w) \in Nat /\ Len(Writing(s)) \in Nat /\ Len(s.bufs) \in Nat /\ Len(<<>>) = 0
      /\ 2 * n + Len(tk) = 2 * m + Len(<<>>)
  BY WritingTyped
<1>8. Under(tk, w, s, hp, he) = Under(<<>>, w, s, hp, he) + 2 /\ Under(<<>>, w, s, hp, he) \in Nat
  <2> DEFINE a == Len(w)
             b == IF he THEN 0 ELSE Len(Writing(s)) + 2 * Len(s.bufs)
  <2>1. /\ Under(tk, w, s, hp, he) = IF hp THEN Len(tk) ELSE Len(tk) + a + b
        /\ Under(<<>>, w, s, hp, he) = IF hp THEN Len(<<>>) ELSE Len(<<>>) + a + b
    BY Zenon DEF Under
  <2>2. a \in Nat /\ b \in Nat
    BY <1>7
  <2> HIDE DEF a, b
  <2> QED
    BY <1>7, <2>1, <2>2
<1>9. InOrder(n + 1, <<>>, w, s, k, hp, he)
  <2>1. Follows(<<>>, 2 * m)
    BY FollowsEmpty
  <2> HIDE DEF m
  <2>2. InOrder(m, <<>>, w, s, k, hp, he)
    BY <1>7, <2>1 DEF InOrder
  <2> QED
    BY <2>2 DEF m
<1> QED
  BY <1>6, <1>8, <1>9

(* The sender closes, and what was written may be cut off. *)
LEMMA SenderCloses ==
  ASSUME NEW n \in Nat, NEW tk \in Seq(Buffer), NEW w \in Seq(Buffer), NEW s \in Sending,
         NEW k \in Nat, NEW hp \in BOOLEAN, InOrder(n, tk, w, s, k, hp, FALSE),
         NEW m \in 0 .. Len(w), NEW r
  PROVE  /\ InOrder(n, tk, SubSeq(w, 1, m), r, k, hp, TRUE)
         /\ Under(tk, SubSeq(w, 1, m), r, hp, TRUE) \in 0 .. Under(tk, w, s, hp, FALSE)
<1>1. /\ Len(tk) \in Nat /\ Len(w) \in Nat /\ 2 * n + Len(tk) \in Nat
      /\ Len(Writing(s)) \in Nat /\ Len(s.bufs) \in Nat
  BY WritingTyped
<1>2. ~hp => Follows(w, 2 * n + Len(tk))
  BY DEF InOrder
<1>3. Len(SubSeq(w, 1, m)) = m /\ (~hp => Follows(SubSeq(w, 1, m), 2 * n + Len(tk)))
  BY <1>1, <1>2, FollowsPrefix
<1>4. InOrder(n, tk, SubSeq(w, 1, m), r, k, hp, TRUE)
  BY <1>3 DEF InOrder
<1>5. Under(tk, SubSeq(w, 1, m), r, hp, TRUE) = IF hp THEN Len(tk) ELSE Len(tk) + m
  BY <1>1, <1>3 DEF Under
<1>6. Under(tk, w, s, hp, FALSE) =
        IF hp THEN Len(tk) ELSE Len(tk) + Len(w) + (Len(Writing(s)) + 2 * Len(s.bufs))
  BY DEF Under
<1> DEFINE a == Len(tk)
           b == Len(w)
           d == Len(Writing(s))
           g == Len(s.bufs)
<1>7. m \in 0 .. b /\ a \in Nat /\ b \in Nat /\ d \in Nat /\ g \in Nat
  BY <1>1
<1> HIDE DEF a, b, d, g
<1>8. a + m \in 0 .. (a + b + (d + 2 * g)) /\ a \in 0 .. a
  BY <1>7
<1> QED
  BY <1>4, <1>5, <1>6, <1>8 DEF a, b, d, g

(* Which read handler is queued, when one runs. *)
LEMMA RunsRead ==
  ASSUME IInv, NEW e \in Ends, NEW op, NEW result, Runs(e, op, result)
  PROVE  /\ op = "read" =>
              /\ Has(ready[e], "read")
              /\ HasResult(ready[e], <<"read", "ok">>) <=> result = "ok"
              /\ ~HasResult(ready'[e], <<"read", "ok">>) /\ ~Has(ready'[e], "read")
         /\ op # "read" =>
              /\ HasResult(ready'[e], <<"read", "ok">>)
                   <=> HasResult(ready[e], <<"read", "ok">>)
              /\ Has(ready'[e], "read") <=> Has(ready[e], "read")
<1> DEFINE q == ready[e]
           c == <<"read", "ok">>
<1>1. q \in Seq(Completion) /\ OnceEach(q) /\ q # <<>> /\ Head(q) = <<op, result>>
  BY EndTyped DEF Runs
<1>2. ready'[e] = Tail(q)
  BY DEF Runs, IInv, TypeOK
<1>3. /\ Len(q) \in Nat \ {0} /\ DOMAIN q = 1 .. Len(q) /\ q[1] = <<op, result>>
      /\ DOMAIN Tail(q) = 1 .. Len(q) - 1
      /\ \A i \in 1 .. Len(q) - 1 : Tail(q)[i] = q[i + 1]
  BY <1>1
<1> HIDE DEF q
<1>4. /\ ~Has(Tail(q), op)
      /\ \A x : x # op => (Has(Tail(q), x) <=> Has(q, x))
      /\ \A d : HasResult(Tail(q), d) => HasResult(q, d)
  BY <1>1, RunsQueue
<1>5. CASE op = "read"
  <2>1. 1 \in DOMAIN q /\ q[1][1] = "read" /\ q[1][2] = result
    BY <1>3, <1>5
  <2>2. ASSUME NEW i \in DOMAIN q, q[i] = c PROVE result = "ok"
    <3>1. i = 1
      BY <1>1, <2>1, <2>2 DEF OnceEach
    <3> QED
      BY <2>1, <2>2, <3>1
  <2>3. HasResult(q, c) <=> result = "ok"
    BY <1>3, <1>5, <2>1, <2>2 DEF HasResult
  <2>4. ~HasResult(Tail(q), c)
    BY <1>4, <1>5 DEF HasResult, Has
  <2> QED
    BY <1>2, <1>4, <1>5, <2>1, <2>3, <2>4 DEF Has, q
<1>6. CASE op # "read"
  <2>1. ASSUME NEW i \in DOMAIN q, q[i] = c PROVE HasResult(Tail(q), c)
    <3>1. i # 1
      BY <1>3, <1>6, <2>1
    <3>2. i - 1 \in DOMAIN Tail(q) /\ Tail(q)[i - 1] = q[i]
      BY <1>3, <3>1
    <3> QED
      BY <2>1, <3>2 DEF HasResult
  <2>2. HasResult(q, c) => HasResult(Tail(q), c)
    BY <2>1 DEF HasResult
  <2> QED
    BY <1>2, <1>4, <1>6, <2>2 DEF q
<1> QED
  BY <1>5, <1>6

(* The two directions, with the buffers under way in each. *)
Size(e) ==
  Under(taken[Peer(e)], wire[e], sending[e], have_closed[Peer(e)], have_closed[e])

LEMMA PeerPeer ==
  \A e \in Ends : /\ Peer(e) \in Ends /\ Peer(e) # e /\ Peer(Peer(e)) = e
                  /\ Ends = {e, Peer(e)}
<1> TAKE e \in Ends
<1>1. PICK x \in Ends, y \in Ends : x # y /\ Ends = {x, y}
  BY EndsAssumption
<1>2. /\ Peer(e) \in Ends /\ Peer(e) # e
      /\ Peer(Peer(e)) \in Ends /\ Peer(Peer(e)) # Peer(e)
  BY PeerTyped
<1> HIDE DEF Peer
<1> QED
  BY <1>1, <1>2

LEMMA DirectionTyped ==
  ASSUME TypeOK, NEW e \in Ends
  PROVE  /\ received[e] \in Seq(Nat) /\ Len(received[e]) \in Nat
         /\ taken[e] \in Seq(Buffer) /\ Len(taken[e]) \in Nat
         /\ wire[e] \in Seq(Buffer) /\ Len(wire[e]) \in Nat
         /\ sending[e] \in Sending /\ sent[e] \in Nat /\ have_closed[e] \in BOOLEAN
<1>1. /\ received[e] \in Seq(Nat) /\ taken[e] \in Seq(Buffer) /\ wire[e] \in Seq(Buffer)
      /\ sending[e] \in Sending /\ sent[e] \in Nat /\ have_closed[e] \in BOOLEAN
  BY DEF TypeOK
<1> QED
  BY <1>1

LEMMA UnderTyped ==
  ASSUME NEW tk \in Seq(Buffer), NEW w \in Seq(Buffer), NEW s \in Sending,
         NEW hp \in BOOLEAN, NEW he \in BOOLEAN
  PROVE  Under(tk, w, s, hp, he) \in Nat /\ Len(tk) <= Under(tk, w, s, hp, he)
<1> DEFINE a == Len(tk)
           b == Len(w)
           x == Len(Writing(s))
           y == Len(s.bufs)
           d == x + 2 * y
<1>1. a \in Nat /\ b \in Nat /\ x \in Nat /\ y \in Nat
  BY WritingTyped
<1>2. Under(tk, w, s, hp, he) = IF hp THEN a ELSE a + b + (IF he THEN 0 ELSE d)
  BY Zenon DEF Under
<1> HIDE DEF a, b, x, y
<1>3. d \in Nat
  BY <1>1
<1> HIDE DEF d
<1>4. Under(tk, w, s, hp, he) \in Nat /\ a <= Under(tk, w, s, hp, he)
  BY <1>1, <1>2, <1>3
<1> QED
  BY <1>4 DEF a

LEMMA SizeTyped ==
  ASSUME TypeOK, NEW e \in Ends
  PROVE  Size(e) \in Nat /\ Len(taken[Peer(e)]) <= Size(e)
<1>1. /\ taken[Peer(e)] \in Seq(Buffer) /\ wire[e] \in Seq(Buffer) /\ sending[e] \in Sending
      /\ have_closed[e] \in BOOLEAN /\ have_closed[Peer(e)] \in BOOLEAN
  BY DirectionTyped, PeerPeer
<1> QED
  BY <1>1, UnderTyped DEF Size

LEMMA SizeTypedNext ==
  ASSUME TypeOK', NEW e \in Ends
  PROVE  Size(e)' \in Nat
<1>1. Peer(e) \in Ends
  BY PeerPeer
<1>2. /\ taken'[Peer(e)] \in Seq(Buffer) /\ wire'[e] \in Seq(Buffer) /\ sending'[e] \in Sending
      /\ have_closed'[e] \in BOOLEAN /\ have_closed'[Peer(e)] \in BOOLEAN
  BY <1>1 DEF TypeOK
<1> QED
  BY <1>2, UnderTyped DEF Size

Reads(e) == ReadInv(reading[e], ready[e], taken[e])
Shut(e) == have_closed[e] <=> socket[e] = "closed"

(* It is enough to look at the two directions, and at the end that acts. *)
LEMMA BothDirections ==
  ASSUME StreamInv, NEW e \in Ends, Direction(e)', Direction(Peer(e))', Reads(e)', Shut(e)',
         LET p == Peer(e) IN
           /\ reading'[p] = reading[p] /\ ready'[p] = ready[p] /\ taken'[p] = taken[p]
           /\ have_closed'[p] = have_closed[p] /\ socket'[p] = socket[p]
  PROVE  StreamInv'
<1>1. ASSUME NEW o \in Ends PROVE Direction(o)' /\ Reads(o)' /\ Shut(o)'
  <2>1. CASE o = e
    BY <2>1
  <2>2. CASE o = Peer(e)
    BY <2>2 DEF StreamInv, Reads, Shut
  <2> QED
    BY <2>1, <2>2, PeerPeer
<1> QED
  BY <1>1 DEF StreamInv, Reads, Shut

(* onClose, in both directions. *)
LEMMA OnCloseDone ==
  ASSUME TypeOK, NEW e \in Ends, OnClose(e)
  PROVE  \/ have_closed[e] /\ UNCHANGED closing
         \/ /\ ~have_closed[e] /\ have_closed' = [have_closed EXCEPT ![e] = TRUE]
            /\ have_closed'[e] = TRUE /\ have_closed'[Peer(e)] = have_closed[Peer(e)]
            /\ socket'[e] = "closed" /\ socket'[Peer(e)] = socket[Peer(e)]
            /\ wire'[Peer(e)] = <<>>
            /\ \E n \in 0 .. Len(wire[e]) : wire'[e] = SubSeq(wire[e], 1, n)
<1>1. CASE have_closed[e] /\ UNCHANGED closing
  BY <1>1
<1>2. CASE /\ ~have_closed[e]
           /\ have_closed' = [have_closed EXCEPT ![e] = TRUE]
           /\ CloseSocket(e)
  <2>1. Peer(e) \in Ends /\ Peer(e) # e
    BY PeerPeer
  <2>2. PICK n \in 0 .. Len(wire[e]) :
          wire' = [o \in Ends |-> IF o = e THEN SubSeq(wire[e], 1, n) ELSE <<>>]
    BY <1>2 DEF CloseSocket
  <2>3. wire'[e] = SubSeq(wire[e], 1, n) /\ wire'[Peer(e)] = <<>>
    BY <2>1, <2>2
  <2>4. socket'[e] = "closed" /\ socket'[Peer(e)] = socket[Peer(e)]
    BY <1>2, <2>1 DEF CloseSocket, TypeOK
  <2>5. have_closed'[e] = TRUE /\ have_closed'[Peer(e)] = have_closed[Peer(e)]
    BY <1>2, <2>1 DEF TypeOK
  <2> QED
    BY <1>2, <2>3, <2>4, <2>5
<1> QED
  BY <1>1, <1>2 DEF OnClose

(* What a step is to the users: nothing; a message sent; an end that       *)
(* closes; a message received, after which the end may close at once.      *)
Quiet ==
  /\ UNCHANGED <<received, have_closed>>
  /\ \A o \in Ends : Size(o)' \div 2 = Size(o) \div 2
Sends(e) ==
  /\ ~have_closed[e] /\ ~have_closed[Peer(e)] /\ UNCHANGED <<received, have_closed>>
  /\ sent[e] < SendBound[e] /\ 2 * Len(received[Peer(e)]) + Size(e) = 2 * sent[e]
  /\ Size(e)' = Size(e) + 2 /\ Size(Peer(e))' = Size(Peer(e))
Closes(e) ==
  /\ ~have_closed[e] /\ have_closed' = [have_closed EXCEPT ![e] = TRUE]
  /\ UNCHANGED received
  /\ Size(e)' <= Size(e) /\ Size(Peer(e))' <= Size(Peer(e)) /\ Size(Peer(e))' <= 2
Gets(e) ==
  /\ received' = [received EXCEPT ![e] = Append(@, Len(received[e]) + 1)]
  /\ Size(Peer(e)) = Size(Peer(e))' + 2
  /\ UNCHANGED have_closed /\ Size(e)' = Size(e)
GetsAndCloses(e) ==
  /\ received' = [received EXCEPT ![e] = Append(@, Len(received[e]) + 1)]
  /\ ~have_closed[e] /\ have_closed' = [have_closed EXCEPT ![e] = TRUE]
  /\ Size(Peer(e)) >= 2 /\ Size(Peer(e))' = 0 /\ Size(e)' <= Size(e)
StreamStep ==
  Quiet \/ \E e \in Ends : Sends(e) \/ Closes(e) \/ Gets(e) \/ GetsAndCloses(e)

LEMMA SameSizesAreQuiet ==
  ASSUME NEW e \in Ends, Size(e)' = Size(e), Size(Peer(e))' = Size(Peer(e)),
         UNCHANGED <<received, have_closed>>
  PROVE  Quiet
BY PeerPeer DEF Quiet

(* A direction that an action leaves alone. *)
LEMMA SameDirection ==
  ASSUME NEW e \in Ends, Direction(e), received'[Peer(e)] = received[Peer(e)],
         taken'[Peer(e)] = taken[Peer(e)], wire'[e] = wire[e], sending'[e] = sending[e],
         sent'[e] = sent[e], have_closed'[Peer(e)] = have_closed[Peer(e)],
         have_closed'[e] = have_closed[e]
  PROVE  Direction(e)' /\ Size(e)' = Size(e)
BY DEF Direction, Size

LEMMA StartStreams ==
  ASSUME AllStreamInv, NEW e \in Ends, Start(e) PROVE StreamInv' /\ Quiet
<1>1. Direction(e) /\ Direction(Peer(e)) /\ Reads(e) /\ Shut(e) /\ TypeOK
  BY PeerPeer DEF AllStreamInv, StreamInv, Reads, Shut, IInv
<1>2. /\ UNCHANGED <<have_closed, socket, wire, taken, ready, sending, sent, received>>
      /\ reading'[e] = "length" /\ reading[e] = "new"
      /\ reading'[Peer(e)] = reading[Peer(e)]
  BY <1>1, PeerPeer DEF Start, closing, ReadNextMessage, TypeOK
<1>3. /\ Direction(e)' /\ Size(e)' = Size(e)
      /\ Direction(Peer(e))' /\ Size(Peer(e))' = Size(Peer(e))
  BY <1>1, <1>2, PeerPeer, SameDirection
<1>4. Reads(e)' /\ Shut(e)'
  BY <1>1, <1>2 DEF Reads, Shut, ReadInv
<1>5. StreamInv
  BY DEF AllStreamInv
<1> QED
  BY <1>2, <1>3, <1>4, <1>5, BothDirections, SameSizesAreQuiet

LEMMA SendStreams ==
  ASSUME AllStreamInv, NEW e \in Ends, Send(e)
  PROVE  StreamInv' /\ (Quiet \/ Sends(e))
<1>1. /\ Direction(e) /\ Direction(Peer(e)) /\ Reads(e) /\ Shut(e) /\ TypeOK
      /\ SendingInv(sending[e], ready[e], have_closed[e])
  BY PeerPeer DEF AllStreamInv, StreamInv, Reads, Shut, IInv, EndInv
<1> DEFINE p == Peer(e)
           n == Len(received[p])
           tk == taken[p]
           w == wire[e]
           s == sending[e]
           k == sent[e]
           r == DoWrite(s, k + 1)
           hp == have_closed[p]
           he == have_closed[e]
<1>2. p \in Ends /\ p # e /\ Peer(p) = e
  BY PeerPeer
<1>3. /\ UNCHANGED <<have_closed, socket, wire, taken, ready, reading, received>>
      /\ sending'[e] = r /\ sending'[p] = sending[p]
      /\ sent'[e] = k + 1 /\ sent'[p] = sent[p] /\ k < SendBound[e]
  BY <1>1, <1>2 DEF Send, closing, TypeOK
<1>4. /\ n \in Nat /\ tk \in Seq(Buffer) /\ w \in Seq(Buffer) /\ s \in Sending /\ k \in Nat
      /\ hp \in BOOLEAN /\ he \in BOOLEAN /\ InOrder(n, tk, w, s, k, hp, he)
  BY <1>1, <1>2, DirectionTyped DEF Direction
<1>5. /\ Size(e) = Under(tk, w, s, hp, he) /\ Size(e)' = Under(tk, w, r, hp, he)
      /\ Direction(e)' = InOrder(n, tk, w, r, k + 1, hp, he)
  BY <1>3 DEF Size, Direction
<1>6. Direction(p)' /\ Size(p)' = Size(p)
  BY <1>1, <1>2, <1>3, SameDirection
<1>7. Reads(e)' /\ Shut(e)'
  BY <1>1, <1>3 DEF Reads, Shut
<1> HIDE DEF n, tk, w, s, k, r, hp, he
<1>8. /\ InOrder(n, tk, w, r, k + 1, hp, he)
      /\ hp \/ he => Under(tk, w, r, hp, he) = Under(tk, w, s, hp, he)
      /\ ~hp /\ ~he => /\ 2 * n + Under(tk, w, s, hp, he) = 2 * k
                       /\ Under(tk, w, r, hp, he) = Under(tk, w, s, hp, he) + 2
  BY <1>1, <1>4, SendAdds DEF r, s, he
<1>9. StreamInv'
  BY <1>2, <1>3, <1>5, <1>6, <1>7, <1>8, BothDirections DEF AllStreamInv
<1>10. CASE hp \/ he
  BY <1>2, <1>3, <1>5, <1>6, <1>8, <1>9, <1>10, SameSizesAreQuiet
<1>11. CASE ~hp /\ ~he
  BY <1>3, <1>5, <1>6, <1>8, <1>9, <1>11 DEF Sends, hp, he, n, k
<1> QED
  BY <1>4, <1>10, <1>11

LEMMA ReadCompletesStreams ==
  ASSUME AllStreamInv, NEW e \in Ends, ReadCompletes(e) PROVE StreamInv' /\ Quiet
<1>1. /\ Direction(e) /\ Direction(Peer(e)) /\ Reads(e) /\ Shut(e) /\ TypeOK /\ IInv
      /\ StreamInv
  BY PeerPeer DEF AllStreamInv, StreamInv, Reads, Shut, IInv, EndInv
<1> DEFINE p == Peer(e)
           n == Len(received[e])
           tk == taken[e]
           w == wire[p]
           s == sending[p]
           k == sent[p]
           hp == have_closed[p]
           he == have_closed[e]
<1>2. p \in Ends /\ p # e /\ Peer(p) = e
  BY PeerPeer
<1>3. /\ n \in Nat /\ tk \in Seq(Buffer) /\ w \in Seq(Buffer) /\ s \in Sending /\ k \in Nat
      /\ hp \in BOOLEAN /\ he \in BOOLEAN /\ ~he
  BY <1>1, <1>2, DirectionTyped DEF Shut, ReadCompletes
<1>4. /\ UNCHANGED <<have_closed, socket, sent, sending, reading, received>>
      /\ w # <<>> /\ ~Queued(e, "read") /\ reading[e] \in {"length", "body"}
      /\ taken'[e] = Append(tk, Head(w)) /\ taken'[p] = taken[p]
      /\ wire'[p] = Tail(w) /\ wire'[e] = wire[e]
  BY <1>1, <1>2 DEF ReadCompletes, TypeOK
<1>5. /\ ready'[p] = ready[p]
      /\ Has(ready'[e], "read") /\ HasResult(ready'[e], <<"read", "ok">>)
  <2>1. <<"read", "ok">> \in Completion
    BY DEF Completion
  <2>2. ~Queued(e, "read") /\ Enqueue(e, "read", "ok")
    BY DEF ReadCompletes
  <2>3. /\ \A o \in Ends \ {e} : ready'[o] = ready[o]
        /\ \A x : Has(ready'[e], x) <=> Has(ready[e], x) \/ x = "read"
        /\ \A d : HasResult(ready'[e], d) <=> HasResult(ready[e], d) \/ d = <<"read", "ok">>
    BY SMTT(60), <1>1, <2>1, <2>2, EnqueueKeeps
  <2> QED
    BY <1>2, <2>3
<1>6. ~HasResult(ready[e], <<"read", "ok">>)
  BY <1>4 DEF Queued, HasResult
<1>7. Reads(e)'
  <2>1. Len(tk) = IF reading[e] = "body" THEN 1 ELSE 0
    BY <1>1, <1>6 DEF Reads, ReadInv
  <2>2. Len(taken'[e]) = Len(tk) + 1
    BY <1>3, <1>4
  <2> HIDE DEF tk
  <2> QED
    BY <1>4, <1>5, <2>1, <2>2 DEF Reads, ReadInv
<1>8. Shut(e)'
  BY <1>1, <1>4 DEF Shut
<1>9. Direction(e)' /\ Size(e)' = Size(e)
  BY <1>1, <1>2, <1>4, SameDirection
<1>10. /\ InOrder(n, tk, w, s, k, he, hp)
       /\ Size(p) = Under(tk, w, s, he, hp)
       /\ Size(p)' = Under(Append(tk, Head(w)), Tail(w), s, he, hp)
       /\ Direction(p)' = InOrder(n, Append(tk, Head(w)), Tail(w), s, k, he, hp)
  BY <1>1, <1>2, <1>3, <1>4 DEF Size, Direction
<1> HIDE DEF n, tk, w, s, k, hp, he
<1>11. Direction(p)' /\ Size(p)' = Size(p)
  <2>1. /\ InOrder(n, Append(tk, Head(w)), Tail(w), s, k, he, hp)
        /\ Under(Append(tk, Head(w)), Tail(w), s, he, hp) = Under(tk, w, s, he, hp)
    BY <1>3, <1>4, <1>10, ReadMoves
  <2> QED
    BY <1>10, <2>1, Zenon
<1>12. StreamInv'
  BY <1>1, <1>2, <1>4, <1>5, <1>7, <1>8, <1>9, <1>11, BothDirections
<1> QED
  BY <1>4, <1>9, <1>11, <1>12, SameSizesAreQuiet

LEMMA ReadFailsStreams ==
  ASSUME AllStreamInv, NEW e \in Ends, ReadFails(e) PROVE StreamInv' /\ Quiet
<1>1. /\ Direction(e) /\ Direction(Peer(e)) /\ Reads(e) /\ Shut(e) /\ TypeOK /\ IInv
      /\ StreamInv
  BY PeerPeer DEF AllStreamInv, StreamInv, Reads, Shut, IInv, EndInv
<1>2. /\ UNCHANGED <<have_closed, socket, wire, taken, sending, sent, reading, received>>
      /\ ~Queued(e, "read") /\ reading[e] \in {"length", "body"}
  BY DEF ReadFails, closing
<1>3. PICK result \in {"eof", "error"} : Enqueue(e, "read", result)
  BY DEF ReadFails
<1>4. /\ ready'[Peer(e)] = ready[Peer(e)]
      /\ HasResult(ready'[e], <<"read", "ok">>) <=> HasResult(ready[e], <<"read", "ok">>)
  <2>1. <<"read", result>> \in Completion /\ <<"read", result>> # <<"read", "ok">>
    BY DEF Completion
  <2> QED
    BY <1>1, <1>2, <1>3, <2>1, PeerPeer, EnqueueKeeps
<1>5. Reads(e)' /\ Shut(e)'
  BY <1>1, <1>2, <1>4 DEF Reads, ReadInv, Shut
<1>6. /\ Direction(e)' /\ Size(e)' = Size(e)
      /\ Direction(Peer(e))' /\ Size(Peer(e))' = Size(Peer(e))
  BY <1>1, <1>2, PeerPeer, SameDirection
<1> QED
  BY <1>1, <1>2, <1>4, <1>5, <1>6, BothDirections, SameSizesAreQuiet

LEMMA WriteProceedsStreams ==
  ASSUME AllStreamInv, NEW e \in Ends, WriteProceeds(e) PROVE StreamInv' /\ Quiet
<1>1. /\ Direction(e) /\ Direction(Peer(e)) /\ Reads(e) /\ Shut(e) /\ TypeOK /\ IInv
      /\ StreamInv /\ SendingInv(sending[e], ready[e], have_closed[e])
      /\ Shut(Peer(e))
  BY PeerPeer DEF AllStreamInv, StreamInv, Reads, Shut, IInv, EndInv
<1> DEFINE p == Peer(e)
           n == Len(received[p])
           tk == taken[p]
           w == wire[e]
           s == sending[e]
           k == sent[e]
           hp == have_closed[p]
           he == have_closed[e]
<1>2. p \in Ends /\ p # e /\ Peer(p) = e
  BY PeerPeer
<1>3. PICK i \in DOMAIN s.ops :
        /\ ~Queued(e, "write") /\ socket[e] = "open"
        /\ \/ socket[p] # "closed" /\ wire' = [wire EXCEPT ![e] = Append(@, Head(s.ops[i]))]
           \/ socket[p] = "closed" /\ UNCHANGED wire
        /\ sending' = [sending EXCEPT ![e].ops = Rest(@, i)]
        /\ IF Len(s.ops[i]) = 1 THEN Enqueue(e, "write", "ok") ELSE UNCHANGED ready
        /\ UNCHANGED <<state, have_closed, closeCalls, socket, reading, taken, sent, received>>
  BY DEF WriteProceeds
<1> DEFINE r == [s EXCEPT !.ops = Rest(s.ops, i)]
<1>4. /\ n \in Nat /\ tk \in Seq(Buffer) /\ w \in Seq(Buffer) /\ s \in Sending /\ k \in Nat
      /\ hp \in BOOLEAN /\ he \in BOOLEAN /\ ~he /\ InOrder(n, tk, w, s, k, hp, he)
  BY <1>1, <1>2, <1>3, DirectionTyped DEF Direction, Shut
<1>5. sending'[e] = r /\ sending'[p] = sending[p] /\ wire'[p] = wire[p]
  BY <1>1, <1>2, <1>3 DEF TypeOK
<1>6. /\ i = 1 /\ Writing(s) = s.ops[1] /\ s.ops[1] # <<>> /\ s.ops[1] \in Seq(Buffer)
      /\ Len(s.ops) = 1 /\ s.ops \in Seq(Seq(Buffer))
  <2>1. s.ops \in Seq(Seq(Buffer)) /\ Len(s.ops) <= 1 /\ \A j \in DOMAIN s.ops : s.ops[j] # <<>>
    BY <1>1, <1>4 DEF Sending, AsyncWrites, SendingInv
  <2> DEFINE ops == s.ops
  <2>2. i \in DOMAIN ops
    OBVIOUS
  <2> HIDE DEF ops
  <2>3. DOMAIN ops = 1 .. Len(ops) /\ Len(ops) \in Nat /\ ops \in Seq(Seq(Buffer))
        /\ Len(ops) <= 1 /\ \A j \in DOMAIN ops : ops[j] # <<>>
    BY <2>1 DEF ops
  <2>4. i = 1 /\ Len(ops) = 1
    BY <2>2, <2>3
  <2>5. ops # <<>> /\ ops[1] \in Seq(Buffer) /\ ops[1] # <<>>
    BY <2>3, <2>4
  <2> QED
    BY <2>3, <2>4, <2>5 DEF Writing, ops
<1>7. r \in Sending /\ r.bufs = s.bufs /\ r.ops = Rest(s.ops, 1)
  <2>1. Rest(s.ops, i) \in AsyncWrites
    BY <1>1, <1>4, RestTyped DEF Sending, SendingInv
  <2> QED
    BY <1>4, <1>6, <2>1 DEF Sending
<1>8. Writing(r) = Tail(Writing(s))
  <2> DEFINE ops == s.ops
             o == ops[1]
  <2>1. o \in Seq(Buffer) /\ o # <<>> /\ Len(ops) = 1 /\ ops \in Seq(Seq(Buffer))
    BY <1>6
  <2> HIDE DEF o, ops
  <2>2. CASE Len(o) = 1
    <3>1. Rest(ops, 1) = SubSeq(ops, 1, 0) \o SubSeq(ops, 2, 1)
      BY <2>1, <2>2 DEF Rest, o
    <3>2. Rest(ops, 1) = <<>>
      BY <2>1, <3>1
    <3>3. Tail(o) \in Seq(Buffer) /\ Len(Tail(o)) = 0
      BY <2>1, <2>2
    <3>4. Tail(o) = <<>>
      BY <3>3, EmptySeq
    <3> QED
      BY <1>6, <1>7, <3>2, <3>4 DEF Writing, o, ops
  <2>3. CASE Len(o) # 1
    <3>1. Rest(ops, 1) = [ops EXCEPT ![1] = Tail(o)]
      BY <2>3 DEF Rest, o
    <3>2. Rest(ops, 1)[1] = Tail(o) /\ Rest(ops, 1) # <<>>
      <4>1. DOMAIN ops = {1} /\ DOMAIN Rest(ops, 1) = DOMAIN ops
        BY <2>1, <3>1
      <4>2. 1 \notin DOMAIN <<>>
        OBVIOUS
      <4> QED
        BY <3>1, <4>1, <4>2, Zenon
    <3> QED
      BY <1>6, <1>7, <3>2 DEF Writing, o, ops
  <2> QED
    BY <2>2, <2>3
<1>9. /\ ready'[p] = ready[p]
      /\ HasResult(ready'[e], <<"read", "ok">>) <=> HasResult(ready[e], <<"read", "ok">>)
      /\ Has(ready'[e], "read") <=> Has(ready[e], "read")
  <2>1. CASE Enqueue(e, "write", "ok")
    <3>1. <<"write", "ok">> \in Completion /\ <<"write", "ok">> # <<"read", "ok">>
      BY DEF Completion
    <3>2. /\ \A o \in Ends \ {e} : ready'[o] = ready[o]
          /\ \A x : Has(ready'[e], x) <=> Has(ready[e], x) \/ x = "write"
          /\ \A d : HasResult(ready'[e], d) <=> HasResult(ready[e], d) \/ d = <<"write", "ok">>
      BY <1>1, <1>3, <2>1, <3>1, EnqueueKeeps
    <3> QED
      BY <1>2, <3>1, <3>2
  <2>2. CASE UNCHANGED ready
    BY <2>2
  <2> QED
    BY <1>3, <2>1, <2>2
<1>10. Reads(e)' /\ Shut(e)'
  BY <1>1, <1>3, <1>9 DEF Reads, ReadInv, Shut
<1>11. Direction(p)' /\ Size(p)' = Size(p)
  BY <1>1, <1>2, <1>3, <1>5, SameDirection
<1>12. /\ Size(e) = Under(tk, w, s, hp, he)
       /\ Size(e)' = Under(tk, wire'[e], r, hp, he)
       /\ Direction(e)' <=> InOrder(n, tk, wire'[e], r, k, hp, he)
  BY <1>3, <1>5 DEF Size, Direction
<1>13. InOrder(n, tk, wire'[e], r, k, hp, he)
       /\ Under(tk, wire'[e], r, hp, he) = Under(tk, w, s, hp, he)
  <2>1. CASE socket[p] # "closed"
    <3>1. wire'[e] = Append(w, Head(Writing(s)))
      BY <1>1, <1>3, <1>6, <2>1 DEF TypeOK
    <3>2. ~hp
      BY <1>1, <2>1 DEF Shut
    <3>3. Writing(s) # <<>>
      BY <1>6
    <3> HIDE DEF n, tk, w, s, k, hp, he, r
    <3> QED
      <4>1. r \in Sending /\ r.bufs = s.bufs
        BY <1>7
      <4> DEFINE w2 == Append(w, Head(Writing(s)))
      <4>2. InOrder(n, tk, w2, r, k, hp, he) /\ Under(tk, w2, r, hp, he) = Under(tk, w, s, hp, he)
        BY SMTT(60), <1>4, <1>8, <3>2, <3>3, <4>1, WriteMoves
      <4> QED
        BY <3>1, <4>2, Zenon
  <2>2. CASE socket[p] = "closed"
    <3>1. hp /\ wire'[e] = w
      BY <1>1, <1>3, <2>2 DEF Shut
    <3> HIDE DEF n, tk, w, s, k, hp, he, r
    <3> QED
      BY <1>4, <3>1 DEF InOrder, Under
  <2> QED
    BY <2>1, <2>2
<1> HIDE DEF n, tk, w, s, k, hp, he, r
<1>14. Direction(e)' /\ Size(e)' = Size(e)
  BY <1>12, <1>13
<1>15. StreamInv'
  BY <1>1, <1>2, <1>3, <1>9, <1>10, <1>11, <1>14, BothDirections
<1> QED
  BY <1>2, <1>3, <1>11, <1>14, <1>15, SameSizesAreQuiet

LEMMA WriteFailsStreams ==
  ASSUME AllStreamInv, NEW e \in Ends, WriteFails(e) PROVE StreamInv' /\ Quiet
<1>1. /\ Direction(e) /\ Direction(Peer(e)) /\ Reads(e) /\ Shut(e) /\ IInv /\ StreamInv
  BY PeerPeer DEF AllStreamInv, StreamInv, Reads, Shut
<1>2. /\ UNCHANGED <<have_closed, socket, wire, taken, sending, sent, reading, received>>
      /\ ~Queued(e, "write") /\ Enqueue(e, "write", "error")
  BY DEF WriteFails, closing
<1>3. /\ ready'[Peer(e)] = ready[Peer(e)]
      /\ HasResult(ready'[e], <<"read", "ok">>) <=> HasResult(ready[e], <<"read", "ok">>)
      /\ Has(ready'[e], "read") <=> Has(ready[e], "read")
  <2>1. <<"write", "error">> \in Completion /\ <<"write", "error">> # <<"read", "ok">>
    BY DEF Completion
  <2>2. /\ \A o \in Ends \ {e} : ready'[o] = ready[o]
        /\ \A x : Has(ready'[e], x) <=> Has(ready[e], x) \/ x = "write"
        /\ \A d : HasResult(ready'[e], d) <=> HasResult(ready[e], d) \/ d = <<"write", "error">>
    BY <1>1, <1>2, <2>1, EnqueueKeeps
  <2> QED
    BY <2>1, <2>2, PeerPeer
<1>4. Reads(e)' /\ Shut(e)'
  BY <1>1, <1>2, <1>3 DEF Reads, ReadInv, Shut
<1>5. /\ Direction(e)' /\ Size(e)' = Size(e)
      /\ Direction(Peer(e))' /\ Size(Peer(e))' = Size(Peer(e))
  BY <1>1, <1>2, PeerPeer, SameDirection
<1> QED
  BY <1>1, <1>2, <1>3, <1>4, <1>5, BothDirections, SameSizesAreQuiet

(* A write handler leaves what is read as it is. *)
LEMMA WriteHandlerReads ==
  ASSUME AllStreamInv, NEW e \in Ends, NEW result, Runs(e, "write", result),
         reading'[e] = reading[e], taken'[e] = taken[e]
  PROVE  Reads(e)' /\ ready'[Peer(e)] = ready[Peer(e)]
<1>1. Reads(e) /\ IInv
  BY DEF AllStreamInv, StreamInv, Reads
<1>2. /\ HasResult(ready'[e], <<"read", "ok">>) <=> HasResult(ready[e], <<"read", "ok">>)
      /\ Has(ready'[e], "read") <=> Has(ready[e], "read")
  BY <1>1, RunsRead
<1>3. ready'[Peer(e)] = ready[Peer(e)]
  BY <1>1, RunsKeeps, PeerPeer
<1> QED
  BY <1>1, <1>2, <1>3 DEF Reads, ReadInv

LEMMA OnWrittenStreams ==
  ASSUME AllStreamInv, NEW e \in Ends, OnWritten(e) PROVE StreamInv' /\ Quiet
<1>1. /\ Direction(e) /\ Direction(Peer(e)) /\ Reads(e) /\ Shut(e) /\ TypeOK /\ IInv
      /\ StreamInv /\ SendingInv(sending[e], ready[e], have_closed[e])
  BY PeerPeer DEF AllStreamInv, StreamInv, Reads, Shut, IInv, EndInv
<1> DEFINE p == Peer(e)
           n == Len(received[p])
           tk == taken[p]
           w == wire[e]
           s == sending[e]
           k == sent[e]
           hp == have_closed[p]
           he == have_closed[e]
           r == ContinueToSend(s)
<1>2. p \in Ends /\ p # e /\ Peer(p) = e
  BY PeerPeer
<1>3. /\ n \in Nat /\ tk \in Seq(Buffer) /\ w \in Seq(Buffer) /\ s \in Sending /\ k \in Nat
      /\ hp \in BOOLEAN /\ he \in BOOLEAN /\ InOrder(n, tk, w, s, k, hp, he)
  BY <1>1, <1>2, DirectionTyped DEF Direction
<1>4. /\ UNCHANGED <<have_closed, socket, wire, taken, sent, reading, received>>
      /\ Runs(e, "write", "ok") /\ sending'[e] = r /\ sending'[p] = sending[p]
  BY <1>1, <1>2 DEF OnWritten, closing, TypeOK
<1>5. s.ops = <<>>
  BY <1>1, <1>4, RunsKeeps DEF SendingInv
<1>6. Reads(e)' /\ ready'[p] = ready[p]
  BY <1>4, WriteHandlerReads
<1>7. Shut(e)'
  BY <1>1, <1>4 DEF Shut
<1>8. Direction(p)' /\ Size(p)' = Size(p)
  BY <1>1, <1>2, <1>4, SameDirection
<1>9. /\ Size(e) = Under(tk, w, s, hp, he) /\ Size(e)' = Under(tk, w, r, hp, he)
      /\ Direction(e)' <=> InOrder(n, tk, w, r, k, hp, he)
  BY <1>4 DEF Size, Direction
<1> HIDE DEF n, tk, w, s, k, hp, he
<1>10. Direction(e)' /\ Size(e)' = Size(e)
  <2>1. /\ InOrder(n, tk, w, r, k, hp, he)
        /\ Under(tk, w, r, hp, he) = Under(tk, w, s, hp, he)
    BY <1>3, <1>5, ContinueMoves
  <2> QED
    BY <1>9, <2>1
<1>11. StreamInv'
  BY <1>1, <1>2, <1>4, <1>6, <1>7, <1>8, <1>10, BothDirections
<1> QED
  BY <1>2, <1>4, <1>8, <1>10, <1>11, SameSizesAreQuiet

(* onClose at an end that has not closed: what it has sent, and what was   *)
(* to come to it.                                                          *)
LEMMA ClosingOutgoing ==
  ASSUME AllStreamInv, NEW e \in Ends, OnClose(e), ~have_closed[e],
         received'[Peer(e)] = received[Peer(e)], taken'[Peer(e)] = taken[Peer(e)],
         sent'[e] = sent[e]
  PROVE  Direction(e)' /\ Size(e)' <= Size(e)
<1> DEFINE p == Peer(e)
           n == Len(received[p])
           tk == taken[p]
           w == wire[e]
           s == sending[e]
           k == sent[e]
           hp == have_closed[p]
           he == have_closed[e]
<1>1. Direction(e) /\ TypeOK /\ p \in Ends /\ p # e
  BY PeerPeer DEF AllStreamInv, StreamInv, IInv
<1>2. /\ n \in Nat /\ tk \in Seq(Buffer) /\ w \in Seq(Buffer) /\ s \in Sending /\ k \in Nat
      /\ hp \in BOOLEAN /\ he = FALSE /\ InOrder(n, tk, w, s, k, hp, he)
  BY <1>1, DirectionTyped DEF Direction
<1>3. PICK m \in 0 .. Len(w) : wire'[e] = SubSeq(w, 1, m)
  BY <1>1, OnCloseDone
<1>4. have_closed'[e] = TRUE /\ have_closed'[p] = hp
  BY <1>1, OnCloseDone
<1> DEFINE w2 == SubSeq(w, 1, m)
           r == sending'[e]
<1>5. /\ Size(e) = Under(tk, w, s, hp, FALSE) /\ Size(e)' = Under(tk, w2, sending'[e], hp, TRUE)
      /\ Direction(e)' <=> InOrder(n, tk, w2, sending'[e], k, hp, TRUE)
  BY <1>2, <1>3, <1>4 DEF Size, Direction
<1>6. InOrder(n, tk, w, s, k, hp, FALSE)
  BY <1>2
<1>7. Size(e) \in Nat
  BY <1>1, SizeTyped
<1> HIDE DEF n, tk, w, s, k, hp, he
<1>8. /\ InOrder(n, tk, w2, sending'[e], k, hp, TRUE)
      /\ Under(tk, w2, sending'[e], hp, TRUE) \in 0 .. Under(tk, w, s, hp, FALSE)
  BY <1>2, <1>6, SenderCloses, Zenon
<1>9. Direction(e)' /\ Size(e)' \in 0 .. Size(e)
  BY <1>5, <1>8, Zenon
<1> QED
  BY <1>7, <1>9

LEMMA ClosingIncoming ==
  ASSUME NEW e \in Ends, Follows(taken'[e], 2 * Len(received'[e])), have_closed'[e]
  PROVE  Direction(Peer(e))' /\ Size(Peer(e))' = Len(taken'[e])
<1>1. Peer(Peer(e)) = e
  BY PeerPeer
<1> QED
  BY <1>1 DEF Direction, Size, InOrder, Under

(* Any handler that closes and receives nothing; it may drop a half read   *)
(* message.                                                                *)
LEMMA CloseStreams ==
  ASSUME AllStreamInv, TypeOK', NEW e \in Ends, OnClose(e), UNCHANGED <<received, sent>>,
         taken'[Peer(e)] = taken[Peer(e)], sending'[Peer(e)] = sending[Peer(e)],
         taken'[e] = taken[e] \/ (taken'[e] = <<>> /\ Len(taken[e]) <= 1)
  PROVE  /\ Direction(e)' /\ Direction(Peer(e))' /\ Shut(e)' /\ (Quiet \/ Closes(e))
         /\ have_closed'[Peer(e)] = have_closed[Peer(e)] /\ socket'[Peer(e)] = socket[Peer(e)]
<1> DEFINE p == Peer(e)
<1>1. /\ Direction(e) /\ Direction(p) /\ Reads(e) /\ Shut(e) /\ TypeOK
      /\ p \in Ends /\ p # e /\ Peer(p) = e
  BY PeerPeer DEF AllStreamInv, StreamInv, Reads, Shut, IInv
<1>2. /\ Size(e) \in Nat /\ Size(p) \in Nat /\ Size(e)' \in Nat /\ Size(p)' \in Nat
      /\ Len(taken[e]) \in Nat /\ Len(taken[e]) <= 2
  <2>1. Len(taken[e]) <= 2
    BY <1>1 DEF Reads, ReadInv
  <2> QED
    BY <1>1, <2>1, SizeTyped, SizeTypedNext, DirectionTyped
<1>3. Follows(taken'[e], 2 * Len(received'[e]))
  BY <1>1, FollowsEmpty DEF Direction, InOrder
<1>4. Len(taken'[e]) <= Len(taken[e]) /\ Len(taken'[e]) \in Nat
  BY <1>2
<1>5. CASE ~have_closed[e]
  <2>1. /\ have_closed' = [have_closed EXCEPT ![e] = TRUE] /\ have_closed'[e]
        /\ have_closed'[p] = have_closed[p]
        /\ socket'[e] = "closed" /\ socket'[p] = socket[p]
    BY <1>1, <1>5, OnCloseDone
  <2>2. Direction(e)' /\ Size(e)' <= Size(e)
    BY <1>5, ClosingOutgoing
  <2>3. Direction(p)' /\ Size(p)' = Len(taken'[e])
    BY <1>3, <2>1, ClosingIncoming
  <2>4. Len(taken[e]) <= Size(p)
    BY <1>1, SizeTyped
  <2>5. Size(p)' <= Size(p) /\ Size(p)' <= 2
    BY <1>2, <1>4, <2>3, <2>4
  <2> QED
    BY <1>5, <2>1, <2>2, <2>3, <2>5 DEF Closes, Shut
<1>6. CASE have_closed[e]
  <2>1. UNCHANGED <<have_closed, socket, wire>>
    BY <1>1, <1>6, OnCloseDone DEF closing
  <2>2. Direction(p)' /\ Size(p)' = Len(taken'[e])
    BY <1>3, <1>6, <2>1, ClosingIncoming
  <2>3. Size(p) = Len(taken[e])
    BY <1>1, <1>6 DEF Size, Under
  <2>4. Size(p)' \div 2 = Size(p) \div 2
    <3> DEFINE a == Len(taken[e])
    <3>1. a \in Nat /\ (Size(p)' = a \/ (Size(p)' = 0 /\ a <= 1)) /\ Size(p) = a
      BY <1>2, <2>2, <2>3
    <3> HIDE DEF a
    <3>2. a <= 1 => a \div 2 = 0
      BY <3>1
    <3> QED
      BY <3>1, <3>2
  <2>5. Direction(e)' /\ Size(e)' = Size(e)
    BY <1>1, <1>6, <2>1 DEF Direction, Size, InOrder, Under
  <2>6. Quiet
    BY <1>1, <2>1, <2>4, <2>5, PeerPeer DEF Quiet
  <2> QED
    BY <1>1, <2>1, <2>2, <2>5, <2>6 DEF Shut
<1> QED
  BY <1>5, <1>6

LEMMA OnLengthStreams ==
  ASSUME AllStreamInv, TypeOK', NEW e \in Ends, OnLength(e)
  PROVE  StreamInv' /\ (Quiet \/ Closes(e))
<1>1. /\ Direction(e) /\ Direction(Peer(e)) /\ Reads(e) /\ Shut(e) /\ TypeOK /\ IInv
      /\ StreamInv
  BY PeerPeer DEF AllStreamInv, StreamInv, Reads, Shut, IInv
<1>2. /\ Runs(e, "read", "ok") /\ reading[e] = "length"
      /\ UNCHANGED <<sending, sent, received>>
  BY DEF OnLength
<1>3. /\ HasResult(ready[e], <<"read", "ok">>)
      /\ ~HasResult(ready'[e], <<"read", "ok">>) /\ ~Has(ready'[e], "read")
      /\ ready'[Peer(e)] = ready[Peer(e)]
  BY <1>1, <1>2, RunsRead, RunsKeeps, PeerPeer
<1>4. Len(taken[e]) = 1
  BY <1>1, <1>2, <1>3 DEF Reads, ReadInv
<1>5. CASE /\ reading' = [reading EXCEPT ![e] = "none"]
           /\ taken' = [taken EXCEPT ![e] = <<>>] /\ OnClose(e)
  <2>1. /\ reading'[e] = "none" /\ taken'[e] = <<>>
        /\ reading'[Peer(e)] = reading[Peer(e)] /\ taken'[Peer(e)] = taken[Peer(e)]
    BY ZenonT(60), <1>1, <1>5, PeerPeer DEF TypeOK
  <2>2. Reads(e)'
    BY <1>3, <2>1 DEF Reads, ReadInv
  <2>3. /\ Direction(e)' /\ Direction(Peer(e))' /\ Shut(e)' /\ (Quiet \/ Closes(e))
        /\ have_closed'[Peer(e)] = have_closed[Peer(e)]
        /\ socket'[Peer(e)] = socket[Peer(e)]
    BY SMTT(60), <1>2, <1>4, <1>5, <2>1, CloseStreams
  <2> QED
    BY <1>1, <1>3, <2>1, <2>2, <2>3, BothDirections
<1>6. CASE reading' = [reading EXCEPT ![e] = "body"] /\ UNCHANGED <<state, closing, taken>>
  <2>1. /\ reading'[e] = "body" /\ reading'[Peer(e)] = reading[Peer(e)]
        /\ UNCHANGED <<have_closed, socket, wire>>
    BY <1>1, <1>6, PeerPeer DEF TypeOK, closing
  <2>2. Reads(e)' /\ Shut(e)'
    BY <1>1, <1>3, <1>4, <1>6, <2>1 DEF Reads, ReadInv, Shut
  <2>3. /\ Direction(e)' /\ Size(e)' = Size(e)
        /\ Direction(Peer(e))' /\ Size(Peer(e))' = Size(Peer(e))
    BY <1>1, <1>2, <1>6, <2>1, PeerPeer, SameDirection
  <2> QED
    BY <1>1, <1>2, <1>3, <1>6, <2>1, <2>2, <2>3, BothDirections, SameSizesAreQuiet
<1> QED
  BY <1>5, <1>6 DEF OnLength, AfterLength

LEMMA OnReadErrorStreams ==
  ASSUME AllStreamInv, TypeOK', NEW e \in Ends, OnReadError(e)
  PROVE  StreamInv' /\ (Quiet \/ Closes(e))
<1>1. /\ Direction(e) /\ Direction(Peer(e)) /\ Reads(e) /\ Shut(e) /\ TypeOK /\ IInv
      /\ StreamInv
  BY PeerPeer DEF AllStreamInv, StreamInv, Reads, Shut, IInv
<1>2. PICK result \in {"eof", "error"} : Runs(e, "read", result)
  BY DEF OnReadError
<1>3. /\ UNCHANGED <<sending, sent, received>> /\ OnClose(e)
      /\ reading'[e] = "none" /\ taken'[e] = <<>>
      /\ reading'[Peer(e)] = reading[Peer(e)] /\ taken'[Peer(e)] = taken[Peer(e)]
  BY SMTT(60), <1>1, PeerPeer DEF OnReadError, TypeOK
<1>4. /\ ~HasResult(ready[e], <<"read", "ok">>)
      /\ ~HasResult(ready'[e], <<"read", "ok">>) /\ ~Has(ready'[e], "read")
      /\ ready'[Peer(e)] = ready[Peer(e)]
  BY <1>1, <1>2, RunsRead, RunsKeeps, PeerPeer
<1>5. Len(taken[e]) <= 1
  BY <1>1, <1>4 DEF Reads, ReadInv
<1>6. Reads(e)'
  BY <1>3, <1>4 DEF Reads, ReadInv
<1>7. /\ Direction(e)' /\ Direction(Peer(e))' /\ Shut(e)' /\ (Quiet \/ Closes(e))
      /\ have_closed'[Peer(e)] = have_closed[Peer(e)]
      /\ socket'[Peer(e)] = socket[Peer(e)]
  BY <1>3, <1>5, CloseStreams
<1> QED
  BY <1>1, <1>3, <1>4, <1>6, <1>7, BothDirections

LEMMA OnWriteErrorStreams ==
  ASSUME AllStreamInv, TypeOK', NEW e \in Ends, OnWriteError(e)
  PROVE  StreamInv' /\ (Quiet \/ Closes(e))
<1>1. StreamInv /\ TypeOK
  BY DEF AllStreamInv, IInv
<1>2. /\ Runs(e, "write", "error") /\ OnClose(e)
      /\ UNCHANGED <<reading, taken, sent, received>>
      /\ sending'[Peer(e)] = sending[Peer(e)]
  BY <1>1, PeerPeer DEF OnWriteError, TypeOK
<1>3. Reads(e)' /\ ready'[Peer(e)] = ready[Peer(e)]
  BY <1>2, WriteHandlerReads
<1>4. /\ Direction(e)' /\ Direction(Peer(e))' /\ Shut(e)' /\ (Quiet \/ Closes(e))
      /\ have_closed'[Peer(e)] = have_closed[Peer(e)]
      /\ socket'[Peer(e)] = socket[Peer(e)]
  BY <1>2, CloseStreams
<1> QED
  BY <1>1, <1>2, <1>3, <1>4, BothDirections

(* onMessage: the message is the next one, whatever the user then does. *)
LEMMA OnMessageStreams ==
  ASSUME AllStreamInv, TypeOK', NEW e \in Ends, OnMessage(e)
  PROVE  StreamInv' /\ (Gets(e) \/ GetsAndCloses(e))
<1> DEFINE p == Peer(e)
           n == Len(received[e])
           tk == taken[e]
           w == wire[p]
           s == sending[p]
           k == sent[p]
           he == have_closed[e]
           hp == have_closed[p]
<1>1. /\ Direction(e) /\ Direction(p) /\ Reads(e) /\ Shut(e) /\ TypeOK /\ IInv
      /\ StreamInv /\ p \in Ends /\ p # e /\ Peer(p) = e
  BY PeerPeer DEF AllStreamInv, StreamInv, Reads, Shut, IInv
<1>2. /\ Runs(e, "read", "ok") /\ reading[e] = "body" /\ UNCHANGED <<sending, sent>>
      /\ received' = [received EXCEPT ![e] = Append(@, Whole(taken[e]))]
  BY <1>1 DEF OnMessage, TypeOK
<1>3. /\ taken'[e] = <<>> /\ taken'[p] = taken[p]
      /\ received'[e] = Append(received[e], Whole(tk)) /\ received'[p] = received[p]
  BY <1>1 DEF OnMessage, TypeOK
<1>4. /\ HasResult(ready[e], <<"read", "ok">>)
      /\ ~HasResult(ready'[e], <<"read", "ok">>) /\ ~Has(ready'[e], "read")
      /\ ready'[p] = ready[p]
  BY <1>1, <1>2, RunsRead, RunsKeeps
<1>5. Len(tk) = 2
  BY <1>1, <1>2, <1>4 DEF Reads, ReadInv
<1>6. /\ n \in Nat /\ tk \in Seq(Buffer) /\ w \in Seq(Buffer) /\ s \in Sending /\ k \in Nat
      /\ he \in BOOLEAN /\ hp \in BOOLEAN /\ InOrder(n, tk, w, s, k, he, hp)
      /\ received[e] \in Seq(Nat)
  BY <1>1, DirectionTyped DEF Direction
<1>7. Size(p) = Under(tk, w, s, he, hp)
  BY <1>1 DEF Size
<1>8. /\ Whole(tk) = n + 1
      /\ InOrder(n + 1, <<>>, w, s, k, he, hp)
      /\ Under(tk, w, s, he, hp) = Under(<<>>, w, s, he, hp) + 2
      /\ Under(<<>>, w, s, he, hp) \in Nat
  <2> HIDE DEF n, tk, w, s, k, he, hp
  <2> QED
    BY <1>5, <1>6, Receives
<1>9. /\ received' = [received EXCEPT ![e] = Append(@, Len(received[e]) + 1)]
      /\ received'[e] = Append(received[e], n + 1) /\ Len(received'[e]) = n + 1
  BY <1>1, <1>2, <1>3, <1>6, <1>8
<1>10. reading'[e] \in {"none", "length"} /\ reading'[p] = reading[p]
  BY ZenonT(60), <1>1 DEF OnMessage, AskForNext, ForceClose, ShutDownWrites, ReadNextMessage, TypeOK
<1>11. Reads(e)'
  BY <1>3, <1>4, <1>10 DEF Reads, ReadInv
<1>12. CASE /\ UNCHANGED <<have_closed, wire>> /\ socket'[p] = socket[p]
            /\ socket'[e] = "closed" <=> socket[e] = "closed"
  <2>1. Shut(e)'
    BY <1>1, <1>12 DEF Shut
  <2>2. Direction(e)' /\ Size(e)' = Size(e)
    BY <1>1, <1>2, <1>3, <1>12, SameDirection
  <2>3. /\ Direction(p)' <=> InOrder(n + 1, <<>>, w, s, k, he, hp)
        /\ Size(p)' = Under(<<>>, w, s, he, hp)
    BY <1>1, <1>2, <1>3, <1>9, <1>12 DEF Direction, Size
  <2>4. StreamInv'
    BY <1>1, <1>3, <1>4, <1>8, <1>10, <1>11, <1>12, <2>1, <2>2, <2>3, BothDirections
  <2>5. Size(p) = Size(p)' + 2
    BY <1>7, <1>8, <2>3
  <2> QED
    BY <1>9, <1>12, <2>2, <2>4, <2>5 DEF Gets
<1>13. CASE OnClose(e) /\ ~have_closed[e]
  <2>1. /\ have_closed' = [have_closed EXCEPT ![e] = TRUE] /\ have_closed'[e]
        /\ have_closed'[p] = have_closed[p]
        /\ socket'[e] = "closed" /\ socket'[p] = socket[p]
    BY <1>1, <1>13, OnCloseDone
  <2>2. Direction(e)' /\ Size(e)' <= Size(e)
    BY <1>2, <1>3, <1>13, ClosingOutgoing
  <2>3. Direction(p)' /\ Size(p)' = 0
    <3>1. Follows(taken'[e], 2 * Len(received'[e])) /\ Len(taken'[e]) = 0
      BY <1>3, FollowsEmpty
    <3> QED
      BY <2>1, <3>1, ClosingIncoming
  <2>4. StreamInv'
    BY <1>1, <1>3, <1>4, <1>10, <1>11, <2>1, <2>2, <2>3, BothDirections DEF Shut
  <2>5. Size(p) >= 2
    BY <1>7, <1>8
  <2> QED
    BY <1>9, <1>13, <2>1, <2>2, <2>3, <2>4, <2>5 DEF GetsAndCloses
<1>14. CASE OnClose(e) /\ have_closed[e]
  <2>1. UNCHANGED <<have_closed, wire, socket>>
    BY <1>1, <1>14, OnCloseDone DEF closing
  <2> QED
    BY <1>12, <2>1
<1>15. CASE AskForNext(e)
  BY <1>12, <1>15 DEF AskForNext, closing
<1>16. CASE socket[e] # "closed" /\ socket' = [socket EXCEPT ![e] = "shut"]
            /\ UNCHANGED <<have_closed, wire>>
  <2>1. socket'[p] = socket[p] /\ socket'[e] = "shut"
    BY <1>1, <1>16 DEF TypeOK
  <2> QED
    BY <1>12, <1>16, <2>1
<1> QED
  BY <1>13, <1>14, <1>15, <1>16 DEF OnMessage, ForceClose, ShutDownWrites

LEMMA InitStreams == Init => AllStreamInv
<1> SUFFICES ASSUME Init PROVE AllStreamInv
  OBVIOUS
<1>1. ASSUME NEW e \in Ends PROVE Direction(e) /\ Reads(e) /\ Shut(e)
  BY PeerPeer, FollowsEmpty
     DEF Init, Direction, InOrder, Reads, ReadInv, Shut, Writing, Has, HasResult
<1> QED
  BY <1>1, InitIInv DEF AllStreamInv, StreamInv, Reads, Shut

LEMMA NextStreams ==
  AllStreamInv /\ [Next]_sessionVars => AllStreamInv' /\ StreamStep
<1> SUFFICES ASSUME AllStreamInv, [Next]_sessionVars PROVE AllStreamInv' /\ StreamStep
  OBVIOUS
<1>1. IInv' /\ TypeOK'
  BY NextIInv DEF AllStreamInv, IInv
<1> SUFFICES StreamInv' /\ StreamStep
  BY <1>1 DEF AllStreamInv
<1>2. ASSUME NEW e \in Ends, Start(e) PROVE StreamInv' /\ StreamStep
  BY <1>2, StartStreams DEF StreamStep
<1>3. ASSUME NEW e \in Ends, Send(e) PROVE StreamInv' /\ StreamStep
  BY <1>3, SendStreams DEF StreamStep
<1>4. ASSUME NEW e \in Ends, OnLength(e) PROVE StreamInv' /\ StreamStep
  BY <1>1, <1>4, OnLengthStreams DEF StreamStep
<1>5. ASSUME NEW e \in Ends, OnMessage(e) PROVE StreamInv' /\ StreamStep
  BY <1>1, <1>5, OnMessageStreams DEF StreamStep
<1>6. ASSUME NEW e \in Ends, OnReadError(e) PROVE StreamInv' /\ StreamStep
  BY <1>1, <1>6, OnReadErrorStreams DEF StreamStep
<1>7. ASSUME NEW e \in Ends, OnWritten(e) PROVE StreamInv' /\ StreamStep
  BY <1>7, OnWrittenStreams DEF StreamStep
<1>8. ASSUME NEW e \in Ends, OnWriteError(e) PROVE StreamInv' /\ StreamStep
  BY <1>1, <1>8, OnWriteErrorStreams DEF StreamStep
<1>9. ASSUME NEW e \in Ends, KernelReads(e) PROVE StreamInv' /\ StreamStep
  BY <1>9, ReadCompletesStreams, ReadFailsStreams DEF KernelReads, StreamStep
<1>10. ASSUME NEW e \in Ends, KernelWrites(e) PROVE StreamInv' /\ StreamStep
  BY <1>10, WriteProceedsStreams, WriteFailsStreams DEF KernelWrites, StreamStep
<1>11. CASE UNCHANGED sessionVars
  <2>1. UNCHANGED <<have_closed, socket, wire, taken, ready, reading, sending, sent, received>>
    BY <1>11 DEF sessionVars, closing
  <2>2. StreamInv'
    BY <2>1 DEF AllStreamInv, StreamInv, Direction
  <2>3. Quiet
    BY <2>1 DEF Quiet, Size
  <2> QED
    BY <2>2, <2>3 DEF StreamStep
<1> QED
  BY <1>2, <1>3, <1>4, <1>5, <1>6, <1>7, <1>8, <1>9, <1>10, <1>11 DEF Next, Handler

(* The queues of Stream.tla. *)
Queues == [e \in Ends |-> Bodies(InTransit(e))]

LEMMA QueuesAreRuns ==
  ASSUME AllStreamInv, NEW e \in Ends
  PROVE  /\ Queues[e] = Run(Len(received[Peer(e)]), Size(e) \div 2)
         /\ Size(e) \in Nat /\ Len(received[Peer(e)]) \in Nat
<1>1. Direction(e) /\ TypeOK /\ Peer(e) \in Ends
  BY PeerPeer DEF AllStreamInv, StreamInv, IInv
<1>2. /\ Len(received[Peer(e)]) \in Nat /\ taken[Peer(e)] \in Seq(Buffer)
      /\ wire[e] \in Seq(Buffer) /\ sending[e] \in Sending /\ sent[e] \in Nat
      /\ have_closed[e] \in BOOLEAN /\ have_closed[Peer(e)] \in BOOLEAN
  BY <1>1, DirectionTyped
<1>3. InTransit(e) = Transit(taken[Peer(e)], wire[e], sending[e], have_closed[Peer(e)],
                             have_closed[e])
  BY DEF InTransit, Transit
<1>4. Bodies(InTransit(e)) = Run(Len(received[Peer(e)]), Size(e) \div 2)
  BY <1>1, <1>2, <1>3, QueueIsRun DEF Direction, Size
<1> QED
  BY <1>1, <1>2, <1>4, SizeTyped DEF Queues

LEMMA QueuesAreRunsNext ==
  ASSUME AllStreamInv', NEW e \in Ends
  PROVE  /\ Queues'[e] = Run(Len(received'[Peer(e)]), Size(e)' \div 2)
         /\ Size(e)' \in Nat /\ Len(received'[Peer(e)]) \in Nat
<1>1. Direction(e)' /\ TypeOK' /\ Peer(e) \in Ends
  BY PeerPeer DEF AllStreamInv, StreamInv, IInv
<1>2. /\ received'[Peer(e)] \in Seq(Nat) /\ taken'[Peer(e)] \in Seq(Buffer)
      /\ wire'[e] \in Seq(Buffer) /\ sending'[e] \in Sending /\ sent'[e] \in Nat
      /\ have_closed'[e] \in BOOLEAN /\ have_closed'[Peer(e)] \in BOOLEAN
  BY <1>1 DEF TypeOK
<1>3. Len(received'[Peer(e)]) \in Nat
  BY <1>2
<1>4. InTransit(e)' = Transit(taken'[Peer(e)], wire'[e], sending'[e], have_closed'[Peer(e)],
                              have_closed'[e])
  BY DEF InTransit, Transit
<1>5. Bodies(InTransit(e)') = Run(Len(received'[Peer(e)]), Size(e)' \div 2)
  BY <1>1, <1>2, <1>3, <1>4, QueueIsRun DEF Direction, Size
<1>6. Queues'[e] = Bodies(InTransit(e)')
  BY DEF Queues, Bodies
<1> QED
  BY <1>1, <1>3, <1>5, <1>6, SizeTypedNext

(* Runs of messages. *)
LEMMA RunIsSeq ==
  ASSUME NEW n \in Nat, NEW m \in Nat
  PROVE  Run(n, m) \in Seq(Nat) /\ Len(Run(n, m)) = m /\ DOMAIN Run(n, m) = 1 .. m
<1>1. Run(n, m) \in [1 .. m -> Nat]
  BY DEF Run
<1> QED
  BY <1>1

LEMMA RunPrefix ==
  ASSUME NEW n \in Nat, NEW m \in Nat, NEW k \in 0 .. m
  PROVE  Run(n, k) \in Channel!Prefixes(Run(n, m)) /\ Len(Run(n, k)) = k
<1>1. Run(n, m) \in Seq(Nat) /\ Len(Run(n, m)) = m /\ DOMAIN Run(n, m) = 1 .. m
  BY RunIsSeq
<1>2. Run(n, k) \in Seq(Nat) /\ Len(Run(n, k)) = k /\ DOMAIN Run(n, k) = 1 .. k
  BY RunIsSeq
<1>3. /\ SubSeq(Run(n, m), 1, k) \in Seq(Nat) /\ Len(SubSeq(Run(n, m), 1, k)) = k
      /\ \A i \in 1 .. k : SubSeq(Run(n, m), 1, k)[i] = Run(n, m)[i]
  BY <1>1
<1>4. \A i \in 1 .. k : Run(n, k)[i] = Run(n, m)[i]
  BY DEF Run
<1>5. Run(n, k) = SubSeq(Run(n, m), 1, k)
  BY <1>2, <1>3, <1>4, SeqEqual
<1> QED
  BY <1>1, <1>2, <1>5 DEF Channel!Prefixes

LEMMA RunAppend ==
  ASSUME NEW n \in Nat, NEW m \in Nat
  PROVE  Run(n, m + 1) = Append(Run(n, m), n + m + 1)
<1> DEFINE q == Append(Run(n, m), n + m + 1)
<1>1. Run(n, m) \in Seq(Nat) /\ Len(Run(n, m)) = m /\ DOMAIN Run(n, m) = 1 .. m
  BY RunIsSeq
<1>2. Run(n, m + 1) \in Seq(Nat) /\ Len(Run(n, m + 1)) = m + 1
  BY RunIsSeq
<1>3. /\ q \in Seq(Nat) /\ Len(q) = m + 1 /\ q[m + 1] = n + m + 1
      /\ \A i \in 1 .. m : q[i] = Run(n, m)[i]
  BY <1>1
<1> HIDE DEF q
<1>4. \A i \in 1 .. m + 1 : Run(n, m + 1)[i] = q[i]
  BY <1>3 DEF Run
<1> QED
  BY <1>2, <1>3, <1>4, SeqEqual DEF q

LEMMA RunTail ==
  ASSUME NEW n \in Nat, NEW m \in Nat
  PROVE  /\ Run(n, m + 1) # <<>> /\ Head(Run(n, m + 1)) = n + 1
         /\ Tail(Run(n, m + 1)) = Run(n + 1, m)
<1> DEFINE q == Run(n, m + 1)
           r == Run(n + 1, m)
<1>1. q \in Seq(Nat) /\ Len(q) = m + 1 /\ r \in Seq(Nat) /\ Len(r) = m
  BY SMTT(60), RunIsSeq
<1>2. \A i \in 1 .. m + 1 : q[i] = n + i
  BY DEF Run
<1>3. \A i \in 1 .. m : r[i] = n + 1 + i
  BY DEF Run
<1> HIDE DEF q, r
<1>4. q # <<>> /\ Head(q) = n + 1
  BY <1>1, <1>2
<1>5. /\ Tail(q) \in Seq(Nat) /\ Len(Tail(q)) = m
      /\ \A i \in 1 .. m : Tail(q)[i] = q[i + 1]
  BY <1>1, <1>4
<1>6. \A i \in 1 .. m : Tail(q)[i] = r[i]
  BY <1>2, <1>3, <1>5
<1>7. Tail(q) = r
  BY <1>1, <1>5, <1>6, SeqEqual
<1> QED
  BY <1>4, <1>7 DEF q, r

LEMMA RunNone == \A n : Run(n, 0) = <<>>
BY DEF Run

LEMMA SamePeer == \A e : Channel!Peer(e) = Peer(e)
BY DEF Channel!Peer, Peer

(* Two buffers make a message. *)
LEMMA HalfOfMore ==
  ASSUME NEW x \in Nat, NEW n \in Nat, NEW k \in Nat, 2 * n + x = 2 * k
  PROVE  x \div 2 \in Nat /\ (x + 2) \div 2 = x \div 2 + 1 /\ n + x \div 2 = k
OBVIOUS

LEMMA HalfOfSome ==
  ASSUME NEW x \in Nat, x >= 2
  PROVE  \E m \in Nat : x \div 2 = m + 1
<1>1. x \div 2 \in Nat /\ x \div 2 >= 1
  OBVIOUS
<1> DEFINE h == x \div 2
<1>2. h \in Nat /\ h >= 1
  BY <1>1
<1> HIDE DEF h
<1>3. h - 1 \in Nat /\ h = (h - 1) + 1
  BY <1>2
<1>4. \E m \in Nat : h = m + 1
  BY <1>3
<1> QED
  BY <1>4 DEF h

(* The steps of Stream.tla. *)
LEMMA SendsIsSend ==
  ASSUME AllStreamInv, AllStreamInv', NEW e \in Ends, Sends(e)
  PROVE  Channel!Send(e)
<1> DEFINE p == Peer(e)
           n == Len(received[p])
           m == Size(e) \div 2
<1>1. p \in Ends /\ p # e /\ Peer(p) = e /\ Ends = {e, p} /\ sent[e] \in Nat
  BY PeerPeer DEF AllStreamInv, IInv, TypeOK
<1>2. /\ UNCHANGED <<received, have_closed>> /\ ~have_closed[e] /\ ~have_closed[p]
      /\ sent[e] < SendBound[e] /\ 2 * n + Size(e) = 2 * sent[e]
      /\ Size(e)' = Size(e) + 2 /\ Size(p)' = Size(p)
  BY DEF Sends
<1>3. /\ Queues[e] = Run(n, m) /\ Size(e) \in Nat /\ n \in Nat
      /\ Queues[p] = Run(Len(received[e]), Size(p) \div 2)
      /\ Queues'[e] = Run(n, Size(e)' \div 2)
      /\ Queues'[p] = Run(Len(received[e]), Size(p) \div 2)
  BY <1>1, <1>2, QueuesAreRuns, QueuesAreRunsNext
<1> HIDE DEF n
<1>4. m \in Nat /\ Size(e)' \div 2 = m + 1 /\ n + m = sent[e]
  <2> DEFINE x == Size(e)
             k == sent[e]
  <2>1. /\ x \in Nat /\ n \in Nat /\ k \in Nat /\ 2 * n + x = 2 * k
        /\ Size(e)' = x + 2
    BY <1>1, <1>2, <1>3
  <2> HIDE DEF x, k
  <2>2. x \div 2 \in Nat /\ (x + 2) \div 2 = x \div 2 + 1 /\ n + x \div 2 = k
    BY <2>1, HalfOfMore
  <2> QED
    BY <2>1, <2>2 DEF x, k
<1> HIDE DEF m
<1>5. Queues'[e] = Append(Queues[e], sent[e] + 1)
  <2>1. Run(n, m + 1) = Append(Run(n, m), n + m + 1)
    BY <1>3, <1>4, RunAppend
  <2> QED
    BY <1>3, <1>4, <2>1
<1>6. Queues' = [Queues EXCEPT ![e] = Append(@, sent[e] + 1)]
  <2>1. \A o \in Ends : Queues'[o] = [Queues EXCEPT ![e] = Append(@, sent[e] + 1)][o]
    BY <1>1, <1>3, <1>5 DEF Queues
  <2> QED
    BY <2>1 DEF Queues
<1>7. sent[e] + 1 \in UNION {1 .. SendBound[o] : o \in Ends}
  <2>1. SendBound[e] \in Nat
    BY SessionBoundsAssumption
  <2>2. sent[e] + 1 \in 1 .. SendBound[e]
    BY <1>1, <1>2, <2>1
  <2> QED
    BY <2>2
<1> QED
  BY <1>2, <1>6, <1>7, SamePeer DEF Channel!Send, Queues

LEMMA ClosesIsClose ==
  ASSUME AllStreamInv, AllStreamInv', NEW e \in Ends, Closes(e)
  PROVE  Channel!Close(e)
<1> DEFINE p == Peer(e)
           n == Len(received[p])
           l == Len(received[e])
           a == Size(e) \div 2
           b == Size(p) \div 2
           c == Size(e)' \div 2
           d == Size(p)' \div 2
<1>1. p \in Ends /\ p # e /\ Peer(p) = e /\ Ends = {e, p}
  BY PeerPeer
<1>2. /\ UNCHANGED received /\ ~have_closed[e]
      /\ have_closed' = [have_closed EXCEPT ![e] = TRUE]
      /\ Size(e)' <= Size(e) /\ Size(p)' <= Size(p) /\ Size(p)' <= 2
  BY DEF Closes
<1>3. /\ Queues[e] = Run(n, a) /\ Queues[p] = Run(l, b) /\ n \in Nat /\ l \in Nat
      /\ Queues'[e] = Run(n, c) /\ Queues'[p] = Run(l, d)
      /\ Size(e) \in Nat /\ Size(p) \in Nat /\ Size(e)' \in Nat /\ Size(p)' \in Nat
  BY <1>1, <1>2, QueuesAreRuns, QueuesAreRunsNext
<1>4. a \in Nat /\ b \in Nat /\ c \in 0 .. a /\ d \in 0 .. b /\ d <= 1
  BY SMTT(60), <1>2, <1>3
<1> HIDE DEF n, l, a, b, c, d
<1>5. /\ Queues'[e] \in Channel!Prefixes(Queues[e])
      /\ Queues'[p] \in Channel!PrefixesUpTo(Queues[p], 1)
  BY <1>3, <1>4, RunPrefix DEF Channel!PrefixesUpTo
<1>6. Queues' = [x \in Ends |-> IF x = e THEN Queues'[e] ELSE Queues'[p]]
  BY <1>1 DEF Queues
<1>7. Channel!Closing(e, Queues[p])
  BY <1>2, <1>5, <1>6 DEF Channel!Closing, Queues
<1> QED
  BY <1>1, <1>2, <1>7, SamePeer DEF Channel!Close, Queues

LEMMA GetsIsReceive ==
  ASSUME AllStreamInv, AllStreamInv', NEW e \in Ends, Gets(e) \/ GetsAndCloses(e)
  PROVE  Channel!Receive(e)
<1> DEFINE p == Peer(e)
           n == Len(received[e])
           l == Len(received[p])
           b == Size(p)' \div 2
<1>1. /\ p \in Ends /\ p # e /\ Peer(p) = e /\ Ends = {e, p}
      /\ received \in [Ends -> Seq(Nat)]
  BY PeerPeer DEF AllStreamInv, IInv, TypeOK
<1>2. /\ received' = [received EXCEPT ![e] = Append(@, n + 1)]
      /\ Size(p) >= 2
  <2>1. Size(p)' \in Nat /\ Size(p) \in Nat
    BY <1>1, QueuesAreRuns, QueuesAreRunsNext
  <2> QED
    BY <2>1 DEF Gets, GetsAndCloses
<1>3. n \in Nat /\ Len(received'[e]) = n + 1 /\ received'[p] = received[p]
  BY <1>1, <1>2
<1>4. /\ Queues[p] = Run(n, Size(p) \div 2) /\ Queues[e] = Run(l, Size(e) \div 2)
      /\ Queues'[p] = Run(n + 1, b) /\ Queues'[e] = Run(l, Size(e)' \div 2)
      /\ Size(e) \in Nat /\ Size(p) \in Nat /\ Size(e)' \in Nat /\ Size(p)' \in Nat
      /\ l \in Nat
  BY <1>1, <1>3, QueuesAreRuns, QueuesAreRunsNext
<1>5. PICK m \in Nat : Size(p) \div 2 = m + 1
  BY <1>2, <1>4, HalfOfSome
<1>6. Queues[p] # <<>> /\ Head(Queues[p]) = n + 1 /\ Tail(Queues[p]) = Run(n + 1, m)
  <2>1. Queues[p] = Run(n, m + 1)
    BY <1>4, <1>5
  <2>2. /\ Run(n, m + 1) # <<>> /\ Head(Run(n, m + 1)) = n + 1
        /\ Tail(Run(n, m + 1)) = Run(n + 1, m)
    BY <1>3, RunTail
  <2> QED
    BY <2>1, <2>2, Zenon
<1>7. received' = [received EXCEPT ![e] = Append(@, Head(Queues[p]))]
  BY <1>2, <1>6
<1>8. CASE Gets(e)
  <2>1. Size(p) = Size(p)' + 2 /\ Size(e)' = Size(e) /\ UNCHANGED have_closed
    BY <1>8 DEF Gets
  <2>2. b = m
    BY <1>4, <1>5, <2>1
  <2>3. Queues'[p] = Tail(Queues[p]) /\ Queues'[e] = Queues[e]
    BY <1>4, <1>6, <2>1, <2>2
  <2>4. Queues' = [Queues EXCEPT ![p] = Tail(Queues[p])]
    <3>1. \A o \in Ends : Queues'[o] = [Queues EXCEPT ![p] = Tail(Queues[p])][o]
      BY <1>1, <2>3 DEF Queues
    <3> QED
      BY <3>1 DEF Queues
  <2> QED
    BY <1>6, <1>7, <2>1, <2>4, SamePeer DEF Channel!Receive, Queues
<1>9. CASE GetsAndCloses(e)
  <2>1. /\ ~have_closed[e] /\ have_closed' = [have_closed EXCEPT ![e] = TRUE]
        /\ Size(p)' = 0 /\ Size(e)' <= Size(e)
    BY <1>9 DEF GetsAndCloses
  <2>2. Queues'[p] = <<>>
    BY <1>4, <2>1, RunNone
  <2>3. Size(e) \div 2 \in Nat /\ Size(e)' \div 2 \in 0 .. Size(e) \div 2
    BY <1>4, <2>1
  <2>4. Queues'[e] \in Channel!Prefixes(Queues[e])
    <3> DEFINE x == Size(e) \div 2
               y == Size(e)' \div 2
    <3>1. x \in Nat /\ y \in 0 .. x /\ Queues'[e] = Run(l, y) /\ Queues[e] = Run(l, x)
      BY <1>4, <2>3
    <3> HIDE DEF x, y
    <3> QED
      BY SMTT(60), <1>4, <3>1, RunPrefix
  <2>5. <<>> \in Channel!PrefixesUpTo(<<>>, 1)
    <3>1. Run(0, 0) = <<>>
      BY RunNone
    <3>2. Run(0, 0) \in Channel!Prefixes(Run(0, 0)) /\ Len(Run(0, 0)) = 0
      BY RunPrefix
    <3> QED
      BY <3>1, <3>2 DEF Channel!PrefixesUpTo
  <2>6. Queues' = [x \in Ends |-> IF x = e THEN Queues'[e] ELSE <<>>]
    BY <1>1, <2>2 DEF Queues
  <2>7. Channel!Closing(e, <<>>)
    BY <2>1, <2>4, <2>5, <2>6 DEF Channel!Closing, Queues
  <2> QED
    BY <1>6, <1>7, <2>1, <2>7, SamePeer DEF Channel!Receive, Queues
<1> QED
  BY <1>8, <1>9

LEMMA QuietIsStutter ==
  ASSUME AllStreamInv, AllStreamInv', Quiet
  PROVE  UNCHANGED Channel!vars
<1>1. \A o \in Ends : Queues'[o] = Queues[o]
  BY QueuesAreRuns, QueuesAreRunsNext DEF Quiet
<1>2. Queues' = Queues
  BY <1>1 DEF Queues
<1> QED
  BY <1>2 DEF Quiet, Channel!vars, Queues

(* The two sessions are the stream of messages that Stream.tla promises:   *)
(* whatever the buffers' interleaving on the wire, a message arrives whole *)
(* and once, in the order in which it was sent, and only a suffix is lost, *)
(* and only when an end closes (read_length, read_body, do_write,          *)
(* continue_to_send and onClose of session.cpp).                           *)
THEOREM SessionIsAStream == Spec => StreamSpec
<1>1. Init => Channel!Init
  <2> SUFFICES ASSUME Init PROVE Channel!Init
    OBVIOUS
  <2>1. AllStreamInv
    BY InitStreams
  <2>2. ASSUME NEW e \in Ends PROVE Queues[e] = <<>>
    <3>1. Len(received[Peer(e)]) = 0 /\ Size(e) = 0
      <4>1. Peer(e) \in Ends
        BY PeerPeer
      <4>2. /\ received[Peer(e)] = <<>> /\ taken[Peer(e)] = <<>> /\ wire[e] = <<>>
            /\ ~have_closed[Peer(e)] /\ ~have_closed[e]
            /\ sending[e].bufs = <<>> /\ sending[e].ops = <<>>
        BY <4>1 DEF Init
      <4> QED
        BY <4>2 DEF Size, Under, Writing
    <3>2. Queues[e] = Run(0, 0 \div 2)
      BY <2>1, <3>1, QueuesAreRuns
    <3> QED
      BY <3>2, RunNone
  <2>3. Queues = [e \in Ends |-> <<>>]
    BY <2>2 DEF Queues
  <2> QED
    BY <2>3 DEF Init, Channel!Init, Queues
<1>2. AllStreamInv /\ [Next]_sessionVars /\ AllStreamInv' => [Channel!Next]_(Channel!vars)
  <2> SUFFICES ASSUME AllStreamInv, [Next]_sessionVars, AllStreamInv'
               PROVE  Channel!Next \/ UNCHANGED Channel!vars
    OBVIOUS
  <2>1. StreamStep
    BY NextStreams
  <2>2. CASE Quiet
    BY <2>2, QuietIsStutter
  <2>3. CASE \E e \in Ends : Sends(e) \/ Closes(e) \/ Gets(e) \/ GetsAndCloses(e)
    BY <2>3, SendsIsSend, ClosesIsClose, GetsIsReceive DEF Channel!Next
  <2> QED
    BY <2>1, <2>2, <2>3 DEF StreamStep
<1>3. AllStreamInv /\ [Next]_sessionVars => AllStreamInv'
  BY NextStreams
<1> QED
  BY <1>1, <1>2, <1>3, InitStreams, PTL DEF Spec, StreamSpec, Channel!Spec
=============================================================================
