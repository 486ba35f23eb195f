----------------------------- MODULE UploadProofs -----------------------------
(***************************************************************************)
(* Theorems about the pieces of the blocks that are uploaded               *)
(* (FileStorage.tla): what a server has of a block is its start, and is    *)
(* not left there for ever.  They hold for every number of clients,        *)
(* servers, blocks, pieces and copies of a block.                          *)
(*                                                                         *)
(* The invariant follows a block from the agent to the server.  A place    *)
(* (Position) is a block and the number of its next piece, or Idle between *)
(* blocks; a message of a queue takes the upload of a flow from one place  *)
(* to the next (Moves).  For each flow there is one place, that of the     *)
(* proxy, such that the queue from the client leads from it to where the   *)
(* agent stands (ClientPath), and the queue to a server leads to it from   *)
(* what the server has collected (ServerPath).  A piece that is sent, read *)
(* or lost moves an end of such a path.                                    *)
(***************************************************************************)
EXTENDS FileStorageProofs, WellFoundedInduction

(* How far a block has come: Idle between blocks, else the block and the   *)
(* number of the piece that is next.  Lost: of a block that nobody began,  *)
(* there is one piece.                                                     *)
Idle == [md5 |-> NoMd5, index |-> 0]
Lost == [md5 |-> NoMd5, index |-> 1]
Position ==
  {Idle, Lost} \cup UNION {[md5 : {m}, index : 1 .. Pieces[m] - 1] : m \in Md5s}

(* A piece as the client of flow f sends it, the place in the upload it is *)
(* for and the place after it.                                             *)
Piece(f, msg) ==
  /\ msg.md5 \in Md5s
  /\ msg.index \in 0 .. Pieces[msg.md5] - 1
  /\ msg.eof <=> msg.index + 1 = Pieces[msg.md5]
  /\ msg.content \in PieceOf(msg.md5, msg.index, f)
Before(msg) == IF msg.index = 0 THEN Idle ELSE [md5 |-> msg.md5, index |-> msg.index]
After(msg) == IF msg.eof THEN Idle ELSE [md5 |-> msg.md5, index |-> msg.index + 1]

(* What a message of a queue does to the place of the upload of flow f,    *)
(* which the queue's messages name id (the proxy sets the flow id).  Late: *)
(* the last piece may be one that follows nothing.                         *)
About(msg, id, type) == msg.type = type /\ msg.flow_id = id
Moves(late, f, id, at, msg, next) ==
  \/ About(msg, id, "upload_block") /\ Piece(f, msg) /\ at = Before(msg) /\ next = After(msg)
  \/ /\ late /\ About(msg, id, "upload_block") /\ Piece(f, msg) /\ msg.index # 0
     /\ at = Idle /\ next = IF msg.eof THEN Idle ELSE Lost
  \/ About(msg, id, "client_clean") /\ next = Idle
  \/ /\ ~About(msg, id, "upload_block") /\ ~About(msg, id, "client_clean")
     /\ msg.type = "upload_all_blocks" => at = Idle
     /\ next = at

(* The messages of q take the upload from one place to the other. *)
Path(late, f, id, from, q, to) ==
  \E at \in [0 .. Len(q) -> Position] :
    /\ at[0] = from /\ at[Len(q)] = to
    /\ \A i \in 1 .. Len(q) : Moves(late, f, id, at[i - 1], q[i], at[i])

(* Where the agent is, and where a server's context is. *)
AgentAt(f) ==
  IF agentState[f] = "uploading_blocks"
    THEN [md5 |-> uploadMd5s[f][uploadingIndex[f]], index |-> pieceIndex[f]] ELSE Idle
ContextAt(s, f) ==
  LET ctx == uploadingContext[s][f] IN
  IF ctx.content = <<>> THEN Idle ELSE [md5 |-> ctx.md5, index |-> Len(ctx.content)]

LateDone(f) == lateState[f] = "handled"

ClientPath(f, at) ==
  clientState[f] # "none" =>
    \E to \in Position :
      Path(FALSE, f, 0, at, fromClient[f], to) /\ (A!Alive(f) => to = AgentAt(f))

(* Where the queue to s leads: to where the proxy is.  The piece of a late *)
(* client is the last of its pieces, and whatever was before it is over.   *)
PathEnd(f, s, at, to) ==
  proxyState = "running" /\ s \in P!Connected =>
    IF LateDone(f) THEN to.index <= 1
    ELSE to = IF s \in transferingServers[f] THEN at ELSE Idle
ServerPath(f, s, at) ==
  Running(s) =>
    \E to \in Position :
      Path(LateDone(f), f, f, ContextAt(s, f), toStorage[s], to) /\ PathEnd(f, s, at, to)

FlowPath(f, at) ==
  /\ clientState[f] # "waiting_upload_block" => at = Idle
  /\ ClientPath(f, at)
  /\ \A s \in Servers : ServerPath(f, s, at)

UploadPaths == \A f \in Flows : \E at \in Position : FlowPath(f, at)

Unborn ==
  \A f \in Flows : f >= nextFlow =>
    /\ agentState[f] = "init" /\ downloadState[f] = "init"
    /\ fromClient[f] = <<>> /\ clientState[f] = "none"
SelectedConnected == \A f \in Flows : transferingServers[f] \subseteq P!Connected
OneRole == \A f \in Flows : agentState[f] = "init" \/ downloadState[f] = "init"
DownForgets ==
  \A s \in Servers, f \in Flows : ~Running(s) => uploadingContext[s][f] = S!NoUpload
AgentPlaced == \A f \in Flows : AgentAt(f) \in Position

(* What a server has of a block, and what a client may have said last.     *)
GenuineContext(s, f) ==
  LET ctx == uploadingContext[s][f] IN
  IF ctx.content = <<>> THEN ctx = S!NoUpload
  ELSE \/ /\ ctx.md5 \in Md5s
          /\ \A i \in DOMAIN ctx.content : ctx.content[i] \in PieceOf(ctx.md5, i - 1, f)
       \/ ctx.md5 = NoMd5 /\ LatePiece(f, ctx.content)
GenuineContexts == \A s \in Servers, f \in Flows : GenuineContext(s, f)

SaysPieces(f) ==
  \A i \in DOMAIN fromClient[f] :
    fromClient[f][i].type = "upload_block" => Piece(f, fromClient[f][i])
ClientsSayPieces == \A f \in Flows : SaysPieces(f)

UploadInv ==
  /\ UploadPaths /\ Unborn /\ OneRole /\ SelectedConnected /\ DownForgets /\ AgentPlaced
  /\ GenuineContexts /\ ClientsSayPieces

(* Only clients that were connected and are no longer are late: of the     *)
(* proxy's invariant.                                                      *)
LateGone ==
  \A f \in Flows : lateState[f] # "none" => ~(f >= nextFlow) /\ clientState[f] = "none"

LEMMA SystemLate == SystemInv => LateGone
BY DEF SystemInv, PP!IInv, PP!LateOK, LateGone

----------------------------------------------------------------------------
(* Paths: of no message, of one more, without the first, of a part.        *)

LEMMA PathEmpty ==
  ASSUME NEW late, NEW f, NEW id, NEW at \in Position
  PROVE  Path(late, f, id, at, <<>>, at)
<1> DEFINE stay == [i \in 0 .. 0 |-> at]
<1>1. stay \in [0 .. Len(<<>>) -> Position] /\ stay[0] = at /\ stay[Len(<<>>)] = at
  OBVIOUS
<1>2. \A i \in 1 .. Len(<<>>) : Moves(late, f, id, stay[i - 1], <<>>[i], stay[i])
  OBVIOUS
<1> QED
  BY <1>1, <1>2 DEF Path

LEMMA PathStart ==
  ASSUME NEW late, NEW f, NEW id, NEW M, NEW q \in Seq(M), NEW from, NEW to,
         Path(late, f, id, from, q, to)
  PROVE  from \in Position
<1>1. 0 \in 0 .. Len(q)
  OBVIOUS
<1> QED
  BY <1>1 DEF Path

LEMMA PathAppend ==
  ASSUME NEW late, NEW f, NEW id, NEW M, NEW q \in Seq(M), NEW msg,
         NEW from \in Position, NEW at \in Position, NEW to \in Position,
         Path(late, f, id, from, q, at),
         Moves(late, f, id, at, msg, to)
  PROVE  Path(late, f, id, from, Append(q, msg), to)
<1> DEFINE n == Len(q)
<1>1. PICK p \in [0 .. n -> Position] :
        /\ p[0] = from /\ p[n] = at
        /\ \A i \in 1 .. n : Moves(late, f, id, p[i - 1], q[i], p[i])
  BY DEF Path
<1> DEFINE r == Append(q, msg)
           longer == [i \in 0 .. n + 1 |-> IF i <= n THEN p[i] ELSE to]
<1>2. n \in Nat /\ Len(r) = n + 1 /\ r[n + 1] = msg /\ \A i \in 1 .. n : r[i] = q[i]
  OBVIOUS
<1>3. /\ longer \in [0 .. n + 1 -> Position]
      /\ longer[0] = from /\ longer[n] = at /\ longer[n + 1] = to
  BY <1>1, <1>2
<1>4. ASSUME NEW i \in 1 .. n + 1 PROVE Moves(late, f, id, longer[i - 1], r[i], longer[i])
  <2>1. CASE i = n + 1
    BY <1>2, <1>3, <2>1
  <2>2. CASE i # n + 1
    <3>1. i \in 1 .. n /\ longer[i - 1] = p[i - 1] /\ longer[i] = p[i] /\ r[i] = q[i]
      BY <1>2, <2>2
    <3> QED
      BY <1>1, <3>1
  <2> QED
    BY <2>1, <2>2
<1> HIDE DEF longer, n, r
<1> QED
  BY <1>2, <1>3, <1>4 DEF Path, r

LEMMA PathTail ==
  ASSUME NEW late, NEW f, NEW id, NEW M, NEW q \in Seq(M), q # <<>>,
         NEW from \in Position, NEW to \in Position, Path(late, f, id, from, q, to)
  PROVE  \E at \in Position :
           Moves(late, f, id, from, Head(q), at) /\ Path(late, f, id, at, Tail(q), to)
<1> DEFINE n == Len(q)
<1>1. PICK p \in [0 .. n -> Position] :
        /\ p[0] = from /\ p[n] = to
        /\ \A i \in 1 .. n : Moves(late, f, id, p[i - 1], q[i], p[i])
  BY DEF Path
<1> DEFINE r == Tail(q)
           rest == [i \in 0 .. n - 1 |-> p[i + 1]]
<1>2. n \in Nat \ {0} /\ Len(r) = n - 1 /\ \A i \in 1 .. n - 1 : r[i] = q[i + 1]
  OBVIOUS
<1>3. rest \in [0 .. n - 1 -> Position] /\ rest[0] = p[1] /\ rest[n - 1] = to
  BY <1>1, <1>2
<1>4. ASSUME NEW i \in 1 .. n - 1 PROVE Moves(late, f, id, rest[i - 1], r[i], rest[i])
  <2>1. i + 1 \in 1 .. n /\ rest[i - 1] = p[i] /\ rest[i] = p[i + 1] /\ r[i] = q[i + 1]
    BY <1>2
  <2>2. Moves(late, f, id, p[(i + 1) - 1], q[i + 1], p[i + 1])
    BY <1>1, <2>1
  <2>3. (i + 1) - 1 = i
    OBVIOUS
  <2> QED
    BY <2>1, <2>2, <2>3
<1>5. Moves(late, f, id, from, Head(q), p[1]) /\ p[1] \in Position
  <2>1. 1 \in 1 .. n /\ Head(q) = q[1] /\ 1 - 1 = 0
    BY <1>2
  <2> QED
    BY <1>1, <2>1
<1> HIDE DEF rest, n, r
<1>6. Path(late, f, id, p[1], r, to)
  BY <1>2, <1>3, <1>4 DEF Path
<1> QED
  BY <1>5, <1>6 DEF r

LEMMA PathPart ==
  ASSUME NEW late, NEW f, NEW id, NEW M, NEW q \in Seq(M), NEW n \in 0 .. Len(q),
         NEW from \in Position, NEW to \in Position, Path(late, f, id, from, q, to)
  PROVE  \E at \in Position : Path(late, f, id, from, SubSeq(q, 1, n), at)
<1>1. PICK p \in [0 .. Len(q) -> Position] :
        /\ p[0] = from /\ p[Len(q)] = to
        /\ \A i \in 1 .. Len(q) : Moves(late, f, id, p[i - 1], q[i], p[i])
  BY DEF Path
<1> DEFINE r == SubSeq(q, 1, n)
           part == [i \in 0 .. n |-> p[i]]
<1>2. n \in Nat /\ Len(q) \in Nat /\ n <= Len(q) /\ Len(r) = n /\ \A i \in 1 .. n : r[i] = q[i]
  OBVIOUS
<1>3. part \in [0 .. n -> Position] /\ part[0] = from /\ part[n] = p[n] /\ p[n] \in Position
  BY <1>1, <1>2
<1>4. ASSUME NEW i \in 1 .. n PROVE Moves(late, f, id, part[i - 1], r[i], part[i])
  <2>1. i \in 1 .. Len(q) /\ part[i - 1] = p[i - 1] /\ part[i] = p[i] /\ r[i] = q[i]
    BY <1>2
  <2> QED
    BY <1>1, <2>1
<1> HIDE DEF part, r
<1>5. Path(late, f, id, from, r, p[n])
  BY <1>2, <1>3, <1>4 DEF Path
<1> QED
  BY <1>3, <1>5 DEF r

(* What a client may do, a late one may. *)
LEMMA PathLate ==
  ASSUME NEW late, NEW later, late => later,
         NEW f, NEW id, NEW from, NEW q, NEW to, Path(late, f, id, from, q, to)
  PROVE  Path(later, f, id, from, q, to)
<1>1. \A at, msg, next : Moves(late, f, id, at, msg, next) => Moves(later, f, id, at, msg, next)
  BY DEF Moves
<1> QED
  BY <1>1 DEF Path

----------------------------------------------------------------------------
(* Places, and the pieces between them. *)

LEMMA Places ==
  /\ Idle \in Position /\ Lost \in Position /\ Idle # Lost
  /\ \A m \in Md5s : \A i \in 1 .. Pieces[m] - 1 : [md5 |-> m, index |-> i] \in Position
  /\ \A at \in Position :
       /\ at.md5 \in Md5s => at.index \in 1 .. Pieces[at.md5] - 1
       /\ at.md5 \notin Md5s => at \in {Idle, Lost}
BY Md5sAssumption DEF Position, Idle, Lost

LEMMA PieceLeads ==
  ASSUME NEW f, NEW msg, Piece(f, msg) PROVE Before(msg) \in Position /\ After(msg) \in Position
<1>1. msg.md5 \in Md5s /\ Pieces[msg.md5] \in Nat \ {0} /\ msg.index \in 0 .. Pieces[msg.md5] - 1
  BY PiecesAssumption DEF Piece
<1>2. Before(msg) \in Position
  BY <1>1, Places DEF Before
<1>3. After(msg) \in Position
  <2>1. CASE msg.eof
    BY <2>1, Places DEF After
  <2>2. CASE ~msg.eof
    <3>1. msg.index + 1 \in 1 .. Pieces[msg.md5] - 1
      BY <1>1, <2>2 DEF Piece
    <3> QED
      BY <1>1, <2>2, <3>1, Places DEF After
  <2> QED
    BY <2>1, <2>2
<1> QED
  BY <1>2, <1>3

(* A message of no concern to the flow. *)
LEMMA Passes ==
  ASSUME NEW late, NEW f, NEW id, NEW msg, NEW at,
         ~About(msg, id, "upload_block"), ~About(msg, id, "client_clean"),
         msg.type = "upload_all_blocks" => at = Idle
  PROVE  Moves(late, f, id, at, msg, at)
BY DEF Moves

----------------------------------------------------------------------------
(* What a server has of a block.                                           *)

LEMMA ContextByFlow == GenuineContexts => ContextIsPrefix
BY DEF ContextIsPrefix, GenuineContexts, GenuineContext

LEMMA ContextPlaced ==
  ASSUME S!TypeOK, NEW s \in Servers, NEW f \in Flows
  PROVE  LET ctx == uploadingContext[s][f] IN
         /\ ctx.content \in Seq(S!PieceContent)
         /\ ctx.content = <<>> => ContextAt(s, f) = Idle
         /\ ctx.content # <<>> =>
              /\ ContextAt(s, f) = [md5 |-> ctx.md5, index |-> Len(ctx.content)]
              /\ Len(ctx.content) # 0 /\ ContextAt(s, f) # Idle
<1> DEFINE ctx == uploadingContext[s][f]
<1>1. ctx.content \in Seq(S!PieceContent)
  BY DEF S!TypeOK, S!UploadContext
<1>2. ctx.content # <<>> => Len(ctx.content) # 0
  BY <1>1
<1> QED
  BY <1>1, <1>2 DEF ContextAt, Idle

(* A piece comes in. *)
LEMMA ReceivedPiece ==
  ASSUME S!TypeOK, NEW s \in Servers, NEW f \in Flows, NEW msg, msg.flow_id = f,
         Piece(f, msg), GenuineContext(s, f), UNCHANGED lateState, S!OnUploadBlock(s, msg),
         NEW next,
         \/ ContextAt(s, f) = Before(msg) /\ next = After(msg)
         \/ /\ LateDone(f) /\ msg.index # 0 /\ ContextAt(s, f) = Idle
            /\ next = IF msg.eof THEN Idle ELSE Lost
  PROVE  ContextAt(s, f)' = next /\ GenuineContext(s, f)'
<1> DEFINE ctx == uploadingContext[s][f]
           ctx2 == uploadingContext'[s][f]
<1>1. /\ ctx.content \in Seq(S!PieceContent)
      /\ uploadingContext \in [Servers -> [Flows -> S!UploadContext]]
      /\ ctx.content = <<>> <=> ContextAt(s, f) = Idle
  BY ContextPlaced DEF S!TypeOK
<1>2. CASE S!ReceivePiece(s, msg)
  <2>1. ctx2 = S!Extended(ctx, msg) /\ ~msg.eof
    BY <1>1, <1>2 DEF S!ReceivePiece, S!UploadOf
  <2>2. /\ ctx2.content = Append(ctx.content, msg.content)
        /\ ctx2.content # <<>> /\ Len(ctx2.content) = Len(ctx.content) + 1
        /\ ctx2.md5 = IF msg.index = 0 /\ ctx.content = <<>> THEN msg.md5 ELSE ctx.md5
    BY <1>1, <2>1 DEF S!Extended, S!TheFirstBlockPiece
  <2>3. ContextAt(s, f)' = [md5 |-> ctx2.md5, index |-> Len(ctx.content) + 1]
    BY <2>2 DEF ContextAt
  <2>4. CASE ContextAt(s, f) = Before(msg) /\ next = After(msg)
    <3>1. Len(ctx.content) = msg.index /\ ctx2.md5 = msg.md5
      <4>1. CASE msg.index = 0
        BY <1>1, <2>2, <2>4, <4>1 DEF Before
      <4>2. CASE msg.index # 0
        <5>1. ContextAt(s, f) # Idle /\ ContextAt(s, f) = [md5 |-> msg.md5, index |-> msg.index]
          BY <2>4, <4>2 DEF Before, Idle
        <5>2. ctx.md5 = msg.md5 /\ Len(ctx.content) = msg.index
          BY <1>1, <5>1 DEF ContextAt
        <5> QED
          BY <2>2, <4>2, <5>2
      <4> QED
        BY <4>1, <4>2
    <3>2. ContextAt(s, f)' = After(msg)
      BY <2>1, <2>3, <3>1 DEF After
    <3>3. ASSUME NEW i \in DOMAIN ctx2.content
          PROVE  ctx2.content[i] \in PieceOf(ctx2.md5, i - 1, f)
      <4>1. CASE i = Len(ctx.content) + 1
        BY <1>1, <2>2, <3>1, <4>1 DEF Piece
      <4>2. CASE i # Len(ctx.content) + 1
        <5>1. i \in DOMAIN ctx.content /\ ctx2.content[i] = ctx.content[i] /\ ctx.content # <<>>
          BY <1>1, <2>2, <4>2
        <5>2. ctx.md5 = ctx2.md5 /\ ctx.md5 \in Md5s
          BY <2>2, <3>1, <5>1 DEF Piece
        <5>3. ctx.content[i] \in PieceOf(ctx.md5, i - 1, f)
          BY <5>1, <5>2, Md5sAssumption DEF GenuineContext
        <5> QED
          BY <5>1, <5>2, <5>3
      <4> QED
        BY <4>1, <4>2
    <3>4. ctx2.md5 \in Md5s
      BY <3>1 DEF Piece
    <3>5. GenuineContext(s, f)'
      BY <2>2, <3>3, <3>4 DEF GenuineContext, PieceOf, AlteredContent
    <3> QED
      BY <2>4, <3>2, <3>5
  <2>5. CASE /\ LateDone(f) /\ msg.index # 0 /\ ContextAt(s, f) = Idle
             /\ next = IF msg.eof THEN Idle ELSE Lost
    <3>1. ctx.content = <<>> /\ ctx.md5 = NoMd5
      BY <1>1, <2>5 DEF GenuineContext, S!NoUpload
    <3>2. ctx2.md5 = NoMd5 /\ Len(ctx2.content) = 1
      BY <2>2, <2>5, <3>1
    <3>3. ContextAt(s, f)' = next
      BY <2>1, <2>3, <2>5, <3>1, <3>2 DEF Lost
    <3>4. GenuineContext(s, f)'
      BY <2>2, <2>5, <3>2 DEF GenuineContext, LatePiece, LateDone
    <3> QED
      BY <3>3, <3>4
  <2> QED
    BY <2>4, <2>5
<1>3. CASE S!RejectBlock(s, msg) \/ S!StoreBlock(s, msg)
  <2>1. ctx2 = S!NoUpload /\ msg.eof
    BY <1>1, <1>3 DEF S!RejectBlock, S!StoreBlock, S!CleanUploadContext
  <2>2. next = Idle
    BY <2>1 DEF After
  <2> QED
    BY <2>1, <2>2 DEF S!NoUpload, ContextAt, GenuineContext
<1> QED
  BY <1>2, <1>3 DEF S!OnUploadBlock

(* The process ends. *)
LEMMA ExitForgets ==
  ASSUME S!TypeOK, NEW s \in Servers, NEW sent, S!Exit(s, sent), NEW f \in Flows
  PROVE  ~Running(s)' /\ uploadingContext'[s][f] = S!NoUpload
BY DEF S!Exit, S!TypeOK, Running

LEMMA NothingIsGenuine ==
  ASSUME NEW s, NEW f, uploadingContext'[s][f] = S!NoUpload
  PROVE  ContextAt(s, f)' = Idle /\ GenuineContext(s, f)'
BY DEF S!NoUpload, ContextAt, GenuineContext

LEMMA ContextSame ==
  ASSUME NEW s, NEW f, GenuineContext(s, f), LateDone(f) => LateDone(f)',
         uploadingContext'[s][f] = uploadingContext[s][f]
  PROVE  GenuineContext(s, f)'
BY DEF GenuineContext, S!NoUpload, PieceOf, AlteredContent, LatePiece, LateDone

(* What a server does with the message that is first in its queue. *)
LEMMA HandledMessage ==
  ASSUME P!TypeOK, S!TypeOK, NEW s \in Servers, NEW f \in Flows, StorageReads(s),
         GenuineContext(s, f), NEW next,
         Moves(LateDone(f), f, f, ContextAt(s, f), Head(toStorage[s]), next), UNCHANGED lateState
  PROVE  \/ ~Running(s)' /\ uploadingContext'[s][f] = S!NoUpload
         \/ Running(s) /\ Running(s)' /\ ContextAt(s, f)' = next /\ GenuineContext(s, f)'
<1> DEFINE msg == Head(toStorage[s])
<1>1. /\ msg \in P!ToStorageMessage /\ msg.flow_id \in Flows
      /\ msg.type \in {"upload_block", "download_block", "client_clean"}
  <2>1. msg \in P!ToStorageMessage
    BY DEF StorageReads, P!TypeOK
  <2> QED
    BY <2>1 DEF P!ToStorageMessage, P!UploadBlockMessage, P!DownLoadBlockMessage,
                P!ClientCleanMessage
<1>2. uploadingContext \in [Servers -> [Flows -> S!UploadContext]]
  BY DEF S!TypeOK
<1>3. ASSUME uploadingContext'[s][f] = uploadingContext[s][f]
      PROVE  ContextAt(s, f)' = ContextAt(s, f) /\ GenuineContext(s, f)'
  BY <1>3, ContextSame DEF ContextAt, LateDone
<1> HIDE DEF msg
<1>4. CASE msg.type = "upload_block" /\ S!OnUploadBlock(s, msg)
  <2>1. sState'[s] = sState[s] /\ Running(s)
    BY <1>4 DEF S!OnUploadBlock, S!ReceivePiece, S!RejectBlock, S!StoreBlock, Running
  <2>2. CASE msg.flow_id = f
    <3>1. /\ Piece(f, msg)
          /\ \/ ContextAt(s, f) = Before(msg) /\ next = After(msg)
             \/ /\ LateDone(f) /\ msg.index # 0 /\ ContextAt(s, f) = Idle
                /\ next = IF msg.eof THEN Idle ELSE Lost
      BY <1>4, <2>2 DEF Moves, About, msg
    <3> QED
      BY <1>4, <2>1, <2>2, <3>1, ReceivedPiece DEF Running
  <2>3. CASE msg.flow_id # f
    <3>1. next = ContextAt(s, f)
      BY <1>4, <2>3 DEF Moves, About, msg
    <3>2. uploadingContext'[s][f] = uploadingContext[s][f]
      BY <1>1, <1>2, <1>4, <2>3 DEF S!OnUploadBlock, S!ReceivePiece, S!RejectBlock, S!StoreBlock,
           S!CleanUploadContext
    <3> QED
      BY <1>3, <2>1, <3>1, <3>2 DEF Running
  <2> QED
    BY <2>2, <2>3
<1>5. CASE msg.type = "download_block" /\ S!OnDownLoadBlock(s, msg)
  <2>1. next = ContextAt(s, f)
    BY <1>5 DEF Moves, About, msg
  <2>2. UNCHANGED <<sState, uploadingContext>> /\ Running(s)
    BY <1>5 DEF S!OnDownLoadBlock, Running
  <2> QED
    BY <1>3, <2>1, <2>2 DEF Running
<1>6. CASE S!ExitOnDownLoadBlock(s, msg)
  BY <1>6, ExitForgets DEF S!ExitOnDownLoadBlock
<1>7. CASE msg.type = "client_clean" /\ S!OnClientClean(s, msg)
  <2>1. UNCHANGED sState /\ Running(s)
    BY <1>7 DEF S!OnClientClean, Running
  <2>2. CASE msg.flow_id = f
    <3>1. next = Idle
      BY <1>7, <2>2 DEF Moves, About, msg
    <3>2. uploadingContext'[s][f] = S!NoUpload
      BY <1>2, <1>7, <2>2 DEF S!OnClientClean, S!CleanUploadContext
    <3> QED
      BY <2>1, <3>1, <3>2, NothingIsGenuine DEF Running
  <2>3. CASE msg.flow_id # f
    <3>1. next = ContextAt(s, f)
      BY <1>7, <2>3 DEF Moves, About, msg
    <3>2. uploadingContext'[s][f] = uploadingContext[s][f]
      BY <1>1, <1>2, <1>7, <2>3 DEF S!OnClientClean, S!CleanUploadContext
    <3> QED
      BY <1>3, <2>1, <3>1, <3>2 DEF Running
  <2> QED
    BY <2>2, <2>3
<1> QED
  BY <1>4, <1>5, <1>6, <1>7 DEF StorageReads, StorageHandles, msg

----------------------------------------------------------------------------
(* The path of a flow's block from a server's context through the queue to *)
(* the server.                                                             *)

LEMMA ServerPathSame ==
  ASSUME NEW f \in Flows, NEW s \in Servers, NEW at, ServerPath(f, s, at),
         sState[s] = "down" => sState'[s] = "down",
         uploadingContext'[s][f] = uploadingContext[s][f], toStorage'[s] = toStorage[s],
         proxyState' = "running" => proxyState = "running",
         s \in P!Connected' => s \in P!Connected,
         s \in transferingServers'[f] <=> s \in transferingServers[f],
         LateDone(f)' <=> LateDone(f)
  PROVE  ServerPath(f, s, at)'
<1> SUFFICES ASSUME Running(s)'
             PROVE  \E to \in Position :
                      /\ Path(LateDone(f)', f, f, ContextAt(s, f)', toStorage'[s], to)
                      /\ PathEnd(f, s, at, to)'
  BY DEF ServerPath
<1>1. Running(s) /\ ContextAt(s, f)' = ContextAt(s, f)
  BY DEF Running, ContextAt
<1>2. PICK to \in Position :
        Path(LateDone(f), f, f, ContextAt(s, f), toStorage[s], to) /\ PathEnd(f, s, at, to)
  BY <1>1 DEF ServerPath
<1>3. Path(LateDone(f)', f, f, ContextAt(s, f)', toStorage'[s], to)
  BY <1>1, <1>2, PathLate
<1>4. PathEnd(f, s, at, to)'
  BY <1>2 DEF PathEnd
<1> QED
  BY <1>3, <1>4


(* The proxy, with no message for a server, comes to another place. *)
LEMMA ServerPathTo ==
  ASSUME NEW f \in Flows, NEW s \in Servers, NEW at, NEW at2, ServerPath(f, s, at),
         UNCHANGED <<sState, uploadingContext>>, toStorage'[s] = toStorage[s],
         LateDone(f) => LateDone(f)',
         \A to \in Position : PathEnd(f, s, at, to) => PathEnd(f, s, at2, to)'
  PROVE  ServerPath(f, s, at2)'
<1> SUFFICES ASSUME Running(s)'
             PROVE  \E to \in Position :
                      /\ Path(LateDone(f)', f, f, ContextAt(s, f)', toStorage'[s], to)
                      /\ PathEnd(f, s, at2, to)'
  BY DEF ServerPath
<1>1. Running(s) /\ ContextAt(s, f)' = ContextAt(s, f)
  BY DEF Running, ContextAt
<1>2. PICK to \in Position :
        Path(LateDone(f), f, f, ContextAt(s, f), toStorage[s], to) /\ PathEnd(f, s, at, to)
  BY <1>1 DEF ServerPath
<1>3. Path(LateDone(f)', f, f, ContextAt(s, f)', toStorage'[s], to)
  BY <1>1, <1>2, PathLate
<1> QED
  BY <1>2, <1>3

(* A server reads. *)
LEMMA ServerPathRead ==
  ASSUME P!TypeOK, S!TypeOK, NEW f \in Flows, NEW s \in Servers, NEW at,
         StorageReads(s), ServerPath(f, s, at), GenuineContext(s, f)
  PROVE  /\ ServerPath(f, s, at)' /\ GenuineContext(s, f)'
         /\ ~Running(s)' => uploadingContext'[s][f] = S!NoUpload
<1>1. /\ toStorage[s] \in Seq(P!ToStorageMessage) /\ toStorage[s] # <<>>
      /\ toStorage'[s] = Tail(toStorage[s]) /\ Running(s)
      /\ UNCHANGED <<proxyState, storageState, transferingServers, lateState>>
  BY DEF StorageReads, StorageHandles, S!OnUploadBlock, S!ReceivePiece, S!RejectBlock,
         S!StoreBlock, S!OnDownLoadBlock, S!ExitOnDownLoadBlock, S!OnClientClean, Running,
         P!TypeOK, proxy
<1>2. PICK to \in Position :
        Path(LateDone(f), f, f, ContextAt(s, f), toStorage[s], to) /\ PathEnd(f, s, at, to)
  BY <1>1 DEF ServerPath, PathEnd
<1>3. ContextAt(s, f) \in Position
  BY <1>1, <1>2, PathStart
<1>4. PICK next \in Position :
        /\ Moves(LateDone(f), f, f, ContextAt(s, f), Head(toStorage[s]), next)
        /\ Path(LateDone(f), f, f, next, Tail(toStorage[s]), to)
  BY <1>1, <1>2, <1>3, PathTail
<1>5. \/ ~Running(s)' /\ uploadingContext'[s][f] = S!NoUpload
      \/ Running(s) /\ Running(s)' /\ ContextAt(s, f)' = next /\ GenuineContext(s, f)'
  BY <1>1, <1>4, HandledMessage
<1>6. PathEnd(f, s, at, to)'
  BY <1>1, <1>2 DEF PathEnd, P!Connected, LateDone
<1>7. CASE ~Running(s)' /\ uploadingContext'[s][f] = S!NoUpload
  BY <1>7, NothingIsGenuine DEF ServerPath
<1>8. CASE Running(s)' /\ ContextAt(s, f)' = next /\ GenuineContext(s, f)'
  <2>1. Path(LateDone(f), f, f, ContextAt(s, f)', toStorage'[s], to)
    BY <1>1, <1>4, <1>8
  <2>2. LateDone(f)' <=> LateDone(f)
    BY <1>1 DEF LateDone
  <2>3. Path(LateDone(f)', f, f, ContextAt(s, f)', toStorage'[s], to)
    BY <2>1, <2>2, PathLate
  <2> QED
    BY <1>6, <1>8, <2>3 DEF ServerPath
<1> QED
  BY <1>5, <1>7, <1>8

(* The proxy sends something to a server, or to none that reads it. *)
LEMMA ServerPathSent ==
  ASSUME P!TypeOK, NEW f \in Flows, NEW s \in Servers, NEW at, NEW at2, ServerPath(f, s, at),
         NEW msg, toStorage'[s] = Append(toStorage[s], msg),
         sState'[s] = sState[s], uploadingContext'[s][f] = uploadingContext[s][f],
         NEW late, late <=> LateDone(f)', LateDone(f) => late,
         \A to \in Position : PathEnd(f, s, at, to) =>
           \E to2 \in Position : Moves(late, f, f, to, msg, to2) /\ PathEnd(f, s, at2, to2)'
  PROVE  ServerPath(f, s, at2)'
<1> SUFFICES ASSUME Running(s)'
             PROVE  \E to \in Position :
                      /\ Path(LateDone(f)', f, f, ContextAt(s, f)', toStorage'[s], to)
                      /\ PathEnd(f, s, at2, to)'
  BY DEF ServerPath
<1>1. Running(s) /\ ContextAt(s, f)' = ContextAt(s, f)
  BY DEF Running, ContextAt
<1>2. PICK to \in Position :
        Path(late, f, f, ContextAt(s, f), toStorage[s], to) /\ PathEnd(f, s, at, to)
  BY <1>1, PathLate DEF ServerPath
<1>3. PICK to2 \in Position : Moves(late, f, f, to, msg, to2) /\ PathEnd(f, s, at2, to2)'
  BY <1>2
<1>4. toStorage[s] \in Seq(P!ToStorageMessage) /\ ContextAt(s, f) \in Position
  <2>1. toStorage[s] \in Seq(P!ToStorageMessage)
    BY DEF P!TypeOK
  <2> QED
    BY <1>2, <2>1, PathStart
<1>5. Path(late, f, f, ContextAt(s, f), Append(toStorage[s], msg), to2)
  BY <1>2, <1>3, <1>4, PathAppend
<1>6. Path(LateDone(f)', f, f, ContextAt(s, f)', toStorage'[s], to2)
  BY <1>1, <1>5, PathLate
<1> QED
  BY <1>3, <1>6

(* The proxy drops a server: of what it sent, a part arrives. *)
LEMMA ServerPathCut ==
  ASSUME P!TypeOK, NEW f \in Flows, NEW s \in Servers, NEW at, ServerPath(f, s, at),
         NEW n \in 0 .. Len(toStorage[s]), toStorage'[s] = SubSeq(toStorage[s], 1, n),
         sState'[s] = sState[s], uploadingContext'[s][f] = uploadingContext[s][f],
         s \notin P!Connected', lateState'[f] = lateState[f]
  PROVE  ServerPath(f, s, at)'
<1> SUFFICES ASSUME Running(s)'
             PROVE  \E to \in Position :
                      Path(LateDone(f)', f, f, ContextAt(s, f)', toStorage'[s], to)
  BY DEF ServerPath, PathEnd
<1>1. Running(s) /\ ContextAt(s, f)' = ContextAt(s, f)
  BY DEF Running, ContextAt
<1>2. PICK to \in Position : Path(LateDone(f), f, f, ContextAt(s, f), toStorage[s], to)
  BY <1>1 DEF ServerPath
<1>3. toStorage[s] \in Seq(P!ToStorageMessage) /\ ContextAt(s, f) \in Position
  <2>1. toStorage[s] \in Seq(P!ToStorageMessage)
    BY DEF P!TypeOK
  <2> QED
    BY <1>2, <2>1, PathStart
<1>4. PICK to2 \in Position :
        Path(LateDone(f), f, f, ContextAt(s, f), SubSeq(toStorage[s], 1, n), to2)
  BY <1>2, <1>3, PathPart
<1>5. LateDone(f)' <=> LateDone(f)
  BY DEF LateDone
<1>6. Path(LateDone(f)', f, f, ContextAt(s, f)', toStorage'[s], to2)
  BY <1>1, <1>4, <1>5, PathLate
<1> QED
  BY <1>6

(* A server connects, with nothing in its memory. *)
LEMMA ServerPathNew ==
  ASSUME P!TypeOK, NEW f \in Flows, NEW s \in Servers, NEW at, DownForgets,
         SelectedConnected, ServerConnects(s)
  PROVE  ServerPath(f, s, at)'
<1>1. /\ uploadingContext'[s][f] = S!NoUpload /\ toStorage'[s] = <<>>
      /\ s \notin transferingServers'[f]
  BY DEF ServerConnects, S!OnConnection, P!StorageOnConnection, DownForgets, Running,
         SelectedConnected, P!Connected, P!TypeOK, P!upload
<1>2. ContextAt(s, f)' = Idle
  BY <1>1, NothingIsGenuine
<1>3. Path(LateDone(f)', f, f, Idle, <<>>, Idle)
  BY PathEmpty, Places
<1>4. Path(LateDone(f)', f, f, ContextAt(s, f)', toStorage'[s], Idle)
  BY <1>1, <1>2, <1>3
<1>5. PathEnd(f, s, at, Idle)'
  BY <1>1 DEF PathEnd, Idle
<1> QED
  BY <1>4, <1>5, Places DEF ServerPath

----------------------------------------------------------------------------
(* What the proxy does for a client.                                       *)

FlowMessage(f, msg) ==
  msg.type \in {"upload_block", "download_block", "client_clean"} /\ msg.flow_id = f

(* The steps that serve flow f leave the other flows alone. *)
ServesOnly(f) ==
  /\ proxyState = "running" /\ UNCHANGED <<nextFlow, storageState>>
  /\ \A g \in Flows \ {f} :
       /\ transferingServers'[g] = transferingServers[g]
       /\ clientState'[g] = clientState[g] /\ lateState'[g] = lateState[g]
  /\ \A s \in Servers :
       \/ toStorage'[s] = toStorage[s]
       \/ \E msg : FlowMessage(f, msg) /\ toStorage'[s] = Append(toStorage[s], msg)
LeavesLate(f) == \A g \in Flows \ {f} : lateState'[g] = lateState[g]

LEMMA Relayed ==
  ASSUME NEW f \in Flows, NEW msg \in P!FromClientMessage, msg.type = "upload_block"
  PROVE  LET sent == P!SetFlowId(msg, f) IN
         /\ FlowMessage(f, sent) /\ sent.type = "upload_block" /\ msg.flow_id = 0
         /\ sent.md5 = msg.md5 /\ sent.index = msg.index
         /\ sent.eof = msg.eof /\ sent.content = msg.content
BY DEF P!FromClientMessage, P!SetFlowId, FlowMessage

LEMMA CloseServes ==
  ASSUME P!TypeOK, NEW f \in Flows, P!ClientOnClose(f), LeavesLate(f) PROVE ServesOnly(f)
<1>1. FlowMessage(f, P!ClientClean(f))
  BY DEF FlowMessage, P!ClientClean
<1> QED
  BY <1>1 DEF P!ClientOnClose, P!SendToStorages, P!SetClientState, P!process, P!storages,
              P!upload, P!TypeOK, ServesOnly, LeavesLate

LEMMA RequestServes ==
  ASSUME P!TypeOK, NEW f \in Flows, NEW m, P!RequestBlock(f, m), NEW s \in Servers
  PROVE  \/ toStorage'[s] = toStorage[s]
         \/ toStorage'[s] = Append(toStorage[s], P!DownLoadBlock(m, f))
BY DEF P!RequestBlock, P!StoragesOf, P!Connected, P!TypeOK

LEMMA RequestIsFlowMessage ==
  ASSUME NEW f, NEW m
  PROVE  FlowMessage(f, P!DownLoadBlock(m, f)) /\ P!DownLoadBlock(m, f).type = "download_block"
BY DEF FlowMessage, P!DownLoadBlock

LEMMA UploadBlockServes ==
  ASSUME P!TypeOK, NEW f \in Flows, NEW msg \in P!FromClientMessage, msg.type = "upload_block",
         P!HandleUploadBlock(f, msg), LeavesLate(f)
  PROVE  ServesOnly(f)
<1>1. FlowMessage(f, P!SetFlowId(msg, f))
  BY Relayed
<1>2. UNCHANGED toStorage \/ \E sent : P!SendToStorages(sent, P!SetFlowId(msg, f))
  BY DEF P!HandleUploadBlock, P!StartBlock, P!TooFewServers, P!RelayPiece, P!RelayToExpired
<1>3. \A s \in Servers :
        \/ toStorage'[s] = toStorage[s]
        \/ \E m : FlowMessage(f, m) /\ toStorage'[s] = Append(toStorage[s], m)
  BY <1>1, <1>2 DEF P!SendToStorages
<1>4. /\ proxyState = "running" /\ UNCHANGED <<nextFlow, storageState>>
      /\ \A g \in Flows \ {f} :
           transferingServers'[g] = transferingServers[g] /\ clientState'[g] = clientState[g]
  BY DEF P!HandleUploadBlock, P!StartBlock, P!TooFewServers, P!RelayPiece, P!RelayToExpired,
         P!Dies, P!process, P!storages, P!upload, P!TypeOK
<1> QED
  BY <1>3, <1>4 DEF ServesOnly, LeavesLate

LEMMA HandlersServe ==
  ASSUME P!TypeOK, NEW f \in Flows, NEW msg \in P!FromClientMessage, P!ClientHandles(f, msg),
         LeavesLate(f)
  PROVE  ServesOnly(f)
<1>1. CASE msg.type = "upload_block" /\ P!HandleUploadBlock(f, msg)
  BY <1>1, UploadBlockServes
<1>2. CASE \/ P!HandleUploadRequest(f, msg) \/ P!HandleUploadAllBlocks(f)
           \/ P!HandleFileNotExist(f, msg)
           \/ P!TransferEnds(f) \/ \E need : P!NothingToTransfer(f, msg, need)
  BY <1>2 DEF P!HandleUploadRequest, P!HandleUploadAllBlocks, P!HandleFileNotExist,
       P!TransferEnds, P!NothingToTransfer, P!Dies, P!SetClientState, P!process, P!storages,
       P!upload, P!TypeOK, ServesOnly, LeavesLate
<1>3. CASE P!TransferNextBlock(f) \/ \E need : P!StartDownload(f, msg, need)
  <2>1. \E m : P!RequestBlock(f, m)
    BY <1>3 DEF P!TransferNextBlock, P!StartDownload
  <2>2. \A s \in Servers :
          \/ toStorage'[s] = toStorage[s]
          \/ \E m : FlowMessage(f, m) /\ toStorage'[s] = Append(toStorage[s], m)
    BY <2>1, RequestServes, RequestIsFlowMessage
  <2> QED
    BY <1>3, <2>2 DEF P!TransferNextBlock, P!StartDownload, P!SetClientState, P!process,
         P!storages, P!upload, P!TypeOK, ServesOnly, LeavesLate
<1>4. CASE P!ClientOnClose(f)
  BY <1>4, CloseServes
<1> QED
  BY <1>1, <1>2, <1>3, <1>4
     DEF P!ClientHandles, P!HandleDownloadRequest, P!HandleTransferBlockAck,
         P!DownloadRefused, P!TransferRefused, P!ClientMessageError

(* What a late message makes the proxy send, if anything. *)
LateSends(f, msg) ==
  \A s \in Servers :
    \/ toStorage'[s] = toStorage[s]
    \/ /\ s \in P!Connected
       /\ \/ /\ msg.type = "upload_block"
             /\ toStorage'[s] = Append(toStorage[s], P!SetFlowId(msg, f))
          \/ \E m : toStorage'[s] = Append(toStorage[s], P!DownLoadBlock(m, f))

LEMMA LateServes ==
  ASSUME P!TypeOK, SelectedConnected, NEW f \in Flows, NEW msg \in P!FromClientMessage,
         P!LateMessage(f, msg)
  PROVE  /\ ServesOnly(f) /\ LateSends(f, msg) /\ UNCHANGED clientState
         /\ LateDone(f)' /\ ~LateDone(f) /\ lateState[f] # "none"
<1>1. /\ LateDone(f)' /\ ~LateDone(f) /\ lateState[f] # "none" /\ P!LateHandles(f, msg)
      /\ LeavesLate(f)
  BY DEF P!LateMessage, P!TypeOK, LateDone, LeavesLate
<1>2. CASE msg.type = "upload_block" /\ P!HandleUploadBlock(f, msg)
  <2>1. UNCHANGED clientState
    BY <1>2 DEF P!HandleUploadBlock, P!StartBlock, P!TooFewServers, P!RelayPiece,
                P!RelayToExpired, P!Dies
  <2>2. \/ UNCHANGED toStorage
        \/ \E sent \in SUBSET P!Connected : P!SendToStorages(sent, P!SetFlowId(msg, f))
    <3>1. CASE P!StartBlock(f, msg)
      BY <3>1 DEF P!StartBlock, P!kSubset
    <3>2. CASE P!RelayPiece(f, msg) \/ P!RelayToExpired(f, msg)
      BY <3>2 DEF P!RelayPiece, P!RelayToExpired, SelectedConnected
    <3>3. CASE P!TooFewServers(f, msg)
      BY <3>3 DEF P!TooFewServers
    <3> QED
      BY <1>2, <3>1, <3>2, <3>3 DEF P!HandleUploadBlock
  <2>3. LateSends(f, msg)
    BY <1>2, <2>2 DEF LateSends, P!SendToStorages
  <2> QED
    BY <1>1, <1>2, <2>1, <2>3, UploadBlockServes
<1>3. CASE P!LateNextBlock(f) \/ \E need : P!LateStart(f, need)
  <2>1. (\E m : P!RequestBlock(f, m)) \/ UNCHANGED toStorage
    BY <1>3 DEF P!LateNextBlock, P!LateStart, P!RequestIfStored
  <2>2. \A s \in Servers :
          \/ toStorage'[s] = toStorage[s]
          \/ /\ s \in P!Connected
             /\ \E m : toStorage'[s] = Append(toStorage[s], P!DownLoadBlock(m, f))
    <3>1. ASSUME NEW m, P!RequestBlock(f, m), NEW s \in Servers, toStorage'[s] # toStorage[s]
          PROVE  s \in P!Connected /\ toStorage'[s] = Append(toStorage[s], P!DownLoadBlock(m, f))
      <4>1. PICK t \in P!StoragesOf(m) :
              toStorage' = [toStorage EXCEPT ![t] = Append(toStorage[t], P!DownLoadBlock(m, f))]
        BY <3>1 DEF P!RequestBlock
      <4>2. t = s /\ t \in P!Connected
        BY <3>1, <4>1 DEF P!StoragesOf, P!TypeOK
      <4> QED
        BY <4>1, <4>2 DEF P!TypeOK
    <3> QED
      BY <2>1, <3>1
  <2>3. \A s \in Servers :
          \/ toStorage'[s] = toStorage[s]
          \/ \E m : FlowMessage(f, m) /\ toStorage'[s] = Append(toStorage[s], m)
    BY <2>2, RequestIsFlowMessage
  <2>4. /\ proxyState = "running"
        /\ UNCHANGED <<nextFlow, storageState, transferingServers, clientState>>
    BY <1>3 DEF P!LateNextBlock, P!LateStart, P!process, P!storages, P!upload
  <2> QED
    BY <1>1, <2>2, <2>3, <2>4 DEF ServesOnly, LateSends, LeavesLate
<1>4. CASE P!LateRecord(f) \/ P!LateIgnored(f, msg) \/ \E need : P!NothingToTransfer(f, msg, need)
  <2>1. /\ proxyState = "running"
        /\ UNCHANGED <<nextFlow, storageState, transferingServers, clientState, toStorage>>
    BY <1>4 DEF P!LateRecord, P!LateIgnored, P!NothingToTransfer, P!Dies, P!process, P!storages,
                P!upload
  <2> QED
    BY <1>1, <2>1 DEF ServesOnly, LateSends, LeavesLate
<1> QED
  BY <1>1, <1>2, <1>3, <1>4 DEF P!LateHandles

(* The other flows' paths are as they were. *)
LEMMA OtherFlowPath ==
  ASSUME P!TypeOK, NEW f \in Flows, ServesOnly(f), NEW g \in Flows \ {f}, NEW at \in Position,
         FlowPath(g, at), UNCHANGED <<sState, uploadingContext, agents>>,
         fromClient'[g] = fromClient[g]
  PROVE  FlowPath(g, at)'
<1>1. ASSUME NEW s \in Servers PROVE ServerPath(g, s, at)'
  <2>1. ServerPath(g, s, at)
    BY DEF FlowPath
  <2>2. CASE toStorage'[s] = toStorage[s]
    BY <2>1, <2>2, ServerPathSame DEF ServesOnly, P!Connected, LateDone
  <2>3. CASE \E msg : FlowMessage(f, msg) /\ toStorage'[s] = Append(toStorage[s], msg)
    <3>1. PICK msg : FlowMessage(f, msg) /\ toStorage'[s] = Append(toStorage[s], msg)
      BY <2>3
    <3>2. ASSUME NEW to \in Position, PathEnd(g, s, at, to)
          PROVE  Moves(LateDone(g)', g, g, to, msg, to) /\ PathEnd(g, s, at, to)'
      <4>1. Moves(LateDone(g)', g, g, to, msg, to)
        BY <3>1, Passes DEF FlowMessage, About
      <4>2. PathEnd(g, s, at, to)'
        BY <3>2 DEF PathEnd, ServesOnly, P!Connected, LateDone
      <4> QED
        BY <4>1, <4>2
    <3>3. LateDone(g) => LateDone(g)'
      BY DEF LateDone, ServesOnly
    <3> QED
      BY <2>1, <3>1, <3>2, <3>3, ServerPathSent
  <2> QED
    BY <2>2, <2>3 DEF ServesOnly
<1>2. ClientPath(g, at)'
  BY DEF FlowPath, ClientPath, ServesOnly, agents, A!Alive, AgentAt, Path
<1> QED
  BY <1>1, <1>2 DEF FlowPath, ServesOnly

(* A client is gone: whatever it was uploading is cleaned, or was over. *)
LEMMA ClosedFlowPath ==
  ASSUME P!TypeOK, NEW f \in Flows, P!ClientOnClose(f), NEW at \in Position, FlowPath(f, at),
         UNCHANGED <<sState, uploadingContext>>, ~LateDone(f), ~LateDone(f)'
  PROVE  FlowPath(f, Idle)'
<1>1. /\ clientState'[f] = "none" /\ UNCHANGED <<storageState, transferingServers, proxyState>>
      /\ toStorage' = [s \in Servers |->
           IF s \in IF P!Finished(f) THEN {} ELSE P!Connected
             THEN Append(toStorage[s], P!ClientClean(f)) ELSE toStorage[s]]
  BY DEF P!ClientOnClose, P!SetClientState, P!SendToStorages, P!storages, P!upload, P!process,
         P!TypeOK
<1>2. ASSUME NEW s \in Servers PROVE ServerPath(f, s, Idle)'
  <2>1. ServerPath(f, s, at)
    BY DEF FlowPath
  <2>2. CASE s \in P!Connected /\ ~P!Finished(f)
    <3>1. toStorage'[s] = Append(toStorage[s], P!ClientClean(f))
      BY <1>1, <2>2
    <3>2. ASSUME NEW to \in Position
          PROVE  Moves(FALSE, f, f, to, P!ClientClean(f), Idle) /\ PathEnd(f, s, Idle, Idle)'
      BY DEF Moves, About, P!ClientClean, PathEnd
    <3> QED
      BY <1>1, <2>1, <3>1, <3>2, Places, ServerPathSent
  <2>3. CASE s \notin P!Connected \/ P!Finished(f)
    <3>1. toStorage'[s] = toStorage[s]
      BY <1>1, <2>3
    <3>2. P!Finished(f) => at = Idle
      BY DEF FlowPath, P!Finished
    <3>3. CASE s \notin P!Connected
      <4>1. ServerPath(f, s, Idle)
        BY <2>1, <3>3 DEF ServerPath, PathEnd
      <4> QED
        BY <1>1, <3>1, <4>1, ServerPathSame DEF P!Connected
    <3>4. CASE P!Finished(f)
      BY <1>1, <2>1, <3>1, <3>2, <3>4, ServerPathSame DEF P!Connected
    <3> QED
      BY <2>3, <3>3, <3>4
  <2> QED
    BY <2>2, <2>3
<1> QED
  BY <1>1, <1>2 DEF FlowPath, ClientPath

(* The proxy reads a piece: the servers selected for the block get it.     *)
LEMMA RelayedFlowPath ==
  ASSUME P!TypeOK, SelectedConnected, NEW f \in Flows, NEW msg \in P!FromClientMessage,
         msg.type = "upload_block", P!HandleUploadBlock(f, msg),
         NEW at \in Position, NEW next \in Position, Moves(FALSE, f, 0, at, msg, next),
         NEW s \in Servers, ServerPath(f, s, at), UNCHANGED <<sState, uploadingContext>>,
         ~LateDone(f), ~LateDone(f)'
  PROVE  ServerPath(f, s, next)'
<1> DEFINE sent == P!SetFlowId(msg, f)
<1>1. /\ FlowMessage(f, sent) /\ sent.type = "upload_block" /\ msg.flow_id = 0
      /\ sent.md5 = msg.md5 /\ sent.index = msg.index
      /\ sent.eof = msg.eof /\ sent.content = msg.content
  BY Relayed
<1> HIDE DEF sent
<1>2. Piece(f, msg) /\ at = Before(msg) /\ next = After(msg)
  BY <1>1 DEF Moves, About
<1>3. Moves(FALSE, f, f, at, sent, next)
  <2>1. Piece(f, sent) /\ at = Before(sent) /\ next = After(sent)
    BY <1>1, <1>2 DEF Piece, Before, After
  <2> QED
    BY <1>1, <2>1 DEF Moves, About, FlowMessage
<1>4. UNCHANGED storageState /\ proxyState = "running"
  BY DEF P!HandleUploadBlock, P!StartBlock, P!TooFewServers, P!RelayPiece, P!RelayToExpired,
         P!Dies, P!storages
<1>5. s \in transferingServers[f] => s \in P!Connected
  BY DEF SelectedConnected
<1>6. CASE P!StartBlock(f, msg)
  <2>1. PICK selected \in SUBSET P!Connected :
          /\ transferingServers' = [transferingServers EXCEPT ![f] = selected]
          /\ P!SendToStorages(selected, sent)
    BY <1>6 DEF P!StartBlock, P!kSubset, P!Connected, sent
  <2>2. (s \in transferingServers'[f] <=> s \in selected) /\ UNCHANGED proxyState
    BY <1>6, <2>1 DEF P!TypeOK, P!StartBlock, P!process
  <2>3. at = Idle
    BY <1>2, <1>6 DEF Before, P!StartBlock, P!TheFirstBlockPiece
  <2>4. CASE s \in selected
    <3>1. toStorage'[s] = Append(toStorage[s], sent)
      BY <2>1, <2>4 DEF P!SendToStorages
    <3>2. ASSUME NEW to \in Position, PathEnd(f, s, at, to)
          PROVE  \E to2 \in Position :
                   Moves(FALSE, f, f, to, sent, to2) /\ PathEnd(f, s, next, to2)'
      <4>1. s \in P!Connected => to = Idle
        BY <1>4, <2>3, <3>2 DEF PathEnd
      <4>2. CASE s \in P!Connected
        BY <1>3, <2>2, <2>3, <2>4, <4>1, <4>2 DEF PathEnd
      <4>3. CASE s \notin P!Connected
        BY <2>4, <4>3
      <4> QED
        BY <4>2, <4>3
    <3> QED
      BY <3>1, <3>2, ServerPathSent
  <2>5. CASE s \notin selected
    <3>1. toStorage'[s] = toStorage[s]
      BY <2>1, <2>5 DEF P!SendToStorages
    <3>2. \A to : PathEnd(f, s, at, to) => PathEnd(f, s, next, to)'
      BY <1>4, <2>2, <2>3, <2>5 DEF PathEnd, P!Connected
    <3> QED
      BY <3>1, <3>2, ServerPathTo
  <2> QED
    BY <2>4, <2>5
<1>7. CASE P!RelayPiece(f, msg) \/ P!RelayToExpired(f, msg)
  <2>1. PICK to_ \in SUBSET transferingServers[f] :
          /\ P!SendToStorages(to_, sent)
          /\ proxyState' = "running" => to_ = transferingServers[f]
          /\ UNCHANGED transferingServers
    BY <1>7 DEF P!RelayPiece, P!RelayToExpired, P!Dies, P!upload, sent
  <2>2. CASE s \in to_
    <3>1. toStorage'[s] = Append(toStorage[s], sent)
      BY <2>1, <2>2 DEF P!SendToStorages
    <3>2. ASSUME NEW to \in Position, PathEnd(f, s, at, to)
          PROVE  Moves(FALSE, f, f, to, sent, next) /\ PathEnd(f, s, next, next)'
      BY <1>3, <1>4, <1>5, <2>1, <2>2, <3>2 DEF PathEnd, P!Connected
    <3> QED
      BY <3>1, <3>2, ServerPathSent
  <2>3. CASE s \notin to_
    <3>1. toStorage'[s] = toStorage[s]
      BY <2>1, <2>3 DEF P!SendToStorages
    <3>2. \A to : PathEnd(f, s, at, to) => PathEnd(f, s, next, to)'
      BY <1>4, <2>1, <2>3 DEF PathEnd, P!Connected
    <3> QED
      BY <3>1, <3>2, ServerPathTo
  <2> QED
    BY <2>2, <2>3
<1>8. CASE P!TooFewServers(f, msg)
  <2>1. toStorage'[s] = toStorage[s] /\ proxyState' # "running"
    BY <1>8 DEF P!TooFewServers, P!Dies
  <2>2. \A to : PathEnd(f, s, next, to)'
    BY <2>1 DEF PathEnd
  <2> QED
    BY <2>1, <2>2, ServerPathTo
<1> QED
  BY <1>6, <1>7, <1>8 DEF P!HandleUploadBlock

(* The proxy reads anything else that does not end the connection. *)
OtherHandled(f, msg) ==
  \/ /\ clientState[f] = "init"
     /\ \/ msg.type = "upload_request" /\ P!HandleUploadRequest(f, msg)
        \/ /\ msg.type = "download_request"
           /\ \/ P!HandleFileNotExist(f, msg)
              \/ \E need : P!StartDownload(f, msg, need) \/ P!NothingToTransfer(f, msg, need)
  \/ /\ clientState[f] = "waiting_upload_block"
     /\ msg.type = "upload_all_blocks" /\ P!HandleUploadAllBlocks(f)
  \/ /\ clientState[f] = "waiting_transfer_block"
     /\ msg.type = "transfer_block_ack" /\ (P!TransferNextBlock(f) \/ P!TransferEnds(f))

LEMMA OtherHandledFlowPath ==
  ASSUME P!TypeOK, NEW f \in Flows, NEW msg, OtherHandled(f, msg),
         NEW at \in Position, NEW next \in Position, Moves(FALSE, f, 0, at, msg, next),
         FlowPath(f, at), UNCHANGED <<sState, uploadingContext>>, LateDone(f)' <=> LateDone(f)
  PROVE  /\ next = at
         /\ clientState'[f] # "waiting_upload_block" => at = Idle
         /\ \A s \in Servers : ServerPath(f, s, at)'
<1>1. next = at /\ (msg.type = "upload_all_blocks" => at = Idle)
  BY DEF OtherHandled, Moves, About
<1>2. clientState'[f] # "waiting_upload_block" => at = Idle
  BY <1>1 DEF OtherHandled, FlowPath, P!HandleUploadRequest, P!HandleUploadAllBlocks,
       P!HandleFileNotExist, P!StartDownload, P!NothingToTransfer, P!TransferNextBlock,
       P!TransferEnds, P!SetClientState, P!Dies, P!TypeOK
<1>3. /\ UNCHANGED <<storageState, transferingServers>>
      /\ proxyState = "running"
      /\ UNCHANGED toStorage \/ \E m : P!RequestBlock(f, m)
  BY DEF OtherHandled, P!HandleUploadRequest, P!HandleUploadAllBlocks,
       P!HandleFileNotExist, P!StartDownload, P!NothingToTransfer, P!TransferNextBlock,
       P!TransferEnds, P!Dies, P!storages, P!upload
<1>4. ASSUME NEW s \in Servers PROVE ServerPath(f, s, at)'
  <2>1. ServerPath(f, s, at)
    BY DEF FlowPath
  <2>2. CASE toStorage'[s] = toStorage[s]
    BY <1>3, <2>1, <2>2, ServerPathSame DEF P!Connected
  <2>3. CASE \E m : toStorage'[s] = Append(toStorage[s], P!DownLoadBlock(m, f))
    <3>1. PICK m : toStorage'[s] = Append(toStorage[s], P!DownLoadBlock(m, f))
      BY <2>3
    <3>2. ASSUME NEW to \in Position, PathEnd(f, s, at, to)
          PROVE  Moves(LateDone(f), f, f, to, P!DownLoadBlock(m, f), to) /\ PathEnd(f, s, at, to)'
      <4>1. Moves(LateDone(f), f, f, to, P!DownLoadBlock(m, f), to)
        BY Passes, RequestIsFlowMessage DEF About
      <4> QED
        BY <1>3, <3>2, <4>1 DEF PathEnd, P!Connected
    <3> QED
      BY <2>1, <3>1, <3>2, ServerPathSent
  <2> QED
    BY <1>3, <2>2, <2>3, RequestServes
<1> QED
  BY <1>1, <1>2, <1>3, <1>4

LEMMA ReadFlowPath ==
  ASSUME P!TypeOK, A!TypeOK, SelectedConnected, LateGone, NEW f \in Flows, ProxyReadsClient(f),
         NEW at \in Position, FlowPath(f, at)
  PROVE  \E next \in Position : FlowPath(f, next)'
<1> DEFINE msg == Head(fromClient[f])
<1>1. /\ fromClient[f] \in Seq(P!FromClientMessage) /\ fromClient[f] # <<>>
      /\ fromClient'[f] = Tail(fromClient[f]) /\ clientState[f] # "none"
      /\ P!ClientHandles(f, msg) /\ UNCHANGED <<sState, uploadingContext, agents, lateState>>
  BY DEF ProxyReadsClient, P!ClientOnMessage, A!TypeOK, A!FromClientMessage,
         P!FromClientMessage, A!PieceContent,
         P!PieceContent, servers, clients
<1>2. msg \in P!FromClientMessage
  BY <1>1
<1>3. PICK to \in Position :
        Path(FALSE, f, 0, at, fromClient[f], to) /\ (A!Alive(f) => to = AgentAt(f))
  BY <1>1 DEF FlowPath, ClientPath
<1>4. PICK next \in Position :
        Moves(FALSE, f, 0, at, msg, next) /\ Path(FALSE, f, 0, next, fromClient'[f], to)
  BY <1>1, <1>3, PathTail
<1> HIDE DEF msg
<1>5. ClientPath(f, next)'
  <2>1. A!Alive(f)' => to = AgentAt(f)'
    BY <1>1, <1>3 DEF A!Alive, AgentAt, agents
  <2>2. Path(FALSE, f, 0, next, fromClient[f], to)'
    BY <1>4 DEF Path
  <2> QED
    BY <2>1, <2>2 DEF ClientPath
<1>6. ~LateDone(f) /\ ~LateDone(f)'
  BY <1>1 DEF LateGone, LateDone
<1>7. CASE P!ClientOnClose(f)
  BY <1>1, <1>7, <1>6, ClosedFlowPath, Places
<1>8. CASE /\ clientState[f] = "waiting_upload_block"
           /\ msg.type = "upload_block" /\ P!HandleUploadBlock(f, msg)
  <2>1. \A s \in Servers : ServerPath(f, s, next)'
    BY <1>1, <1>2, <1>4, <1>8, <1>6, RelayedFlowPath DEF FlowPath
  <2>2. clientState'[f] = "waiting_upload_block"
    BY <1>8 DEF P!HandleUploadBlock, P!StartBlock, P!TooFewServers, P!RelayPiece,
                P!RelayToExpired, P!Dies
  <2> QED
    BY <1>5, <2>1, <2>2 DEF FlowPath
<1>9. CASE OtherHandled(f, msg)
  <2>1. LateDone(f)' <=> LateDone(f)
    BY <1>6
  <2>2. /\ next = at /\ \A s \in Servers : ServerPath(f, s, at)'
        /\ clientState'[f] # "waiting_upload_block" => at = Idle
    BY <1>1, <1>4, <1>9, <2>1, OtherHandledFlowPath
  <2> QED
    BY <1>5, <2>2 DEF FlowPath
<1> QED
  BY <1>1, <1>7, <1>8, <1>9
     DEF P!ClientHandles, P!HandleDownloadRequest, P!HandleTransferBlockAck,
         P!DownloadRefused, P!TransferRefused, P!ClientMessageError, OtherHandled

(* A message that is handled after the connection was closed. *)
LEMMA LateFlowPath ==
  ASSUME P!TypeOK, A!TypeOK, SelectedConnected, LateGone, ClientsSayPieces, NEW f \in Flows,
         ProxyReadsLate(f), NEW at \in Position, FlowPath(f, at)
  PROVE  FlowPath(f, at)'
<1> DEFINE msg == Head(fromClient[f])
<1>1. /\ fromClient[f] \in Seq(P!FromClientMessage) /\ fromClient[f] # <<>>
      /\ P!LateMessage(f, msg) /\ UNCHANGED <<sState, uploadingContext, agents>>
  BY DEF ProxyReadsLate, A!TypeOK, A!FromClientMessage, P!FromClientMessage, A!PieceContent,
         P!PieceContent, servers, clients
<1>2. msg \in P!FromClientMessage /\ (msg.type = "upload_block" => Piece(f, msg))
  <2>1. 1 \in DOMAIN fromClient[f] /\ msg = fromClient[f][1]
    BY <1>1
  <2> QED
    BY <1>1, <2>1 DEF ClientsSayPieces, SaysPieces
<1> HIDE DEF msg
<1>3. /\ ServesOnly(f) /\ LateSends(f, msg) /\ UNCHANGED clientState
      /\ LateDone(f)' /\ ~LateDone(f) /\ lateState[f] # "none"
  BY <1>1, <1>2, LateServes
<1>4. clientState[f] = "none" /\ at = Idle
  BY <1>3 DEF LateGone, FlowPath
<1>5. ASSUME NEW s \in Servers PROVE ServerPath(f, s, at)'
  <2>1. ServerPath(f, s, at)
    BY DEF FlowPath
  <2>2. \A to : s \in P!Connected /\ PathEnd(f, s, at, to) => to = Idle
    BY <1>3, <1>4 DEF PathEnd, ServesOnly
  <2>3. \A to : to.index <= 1 => PathEnd(f, s, at, to)'
    BY <1>3 DEF PathEnd
  <2>4. Idle.index <= 1 /\ Lost.index <= 1
    BY DEF Idle, Lost
  <2>5. CASE toStorage'[s] = toStorage[s]
    <3>1. \A to : PathEnd(f, s, at, to) => PathEnd(f, s, at, to)'
      BY <1>3, <2>2, <2>3, <2>4 DEF PathEnd, ServesOnly, P!Connected
    <3> QED
      BY <1>1, <1>3, <2>1, <2>5, <3>1, ServerPathTo
  <2>6. CASE /\ s \in P!Connected /\ msg.type = "upload_block"
             /\ toStorage'[s] = Append(toStorage[s], P!SetFlowId(msg, f))
    <3>1. PICK sent : sent = P!SetFlowId(msg, f)
      OBVIOUS
    <3>2. /\ FlowMessage(f, sent) /\ sent.type = "upload_block"
          /\ sent.md5 = msg.md5 /\ sent.index = msg.index
          /\ sent.eof = msg.eof /\ sent.content = msg.content
      BY <1>2, <2>6, <3>1, Relayed
    <3>3. Piece(f, sent) /\ About(sent, f, "upload_block")
      BY <1>2, <2>6, <3>2 DEF Piece, About, FlowMessage
    <3>4. \E next \in Position : Moves(TRUE, f, f, Idle, sent, next) /\ next.index <= 1
      <4>1. CASE sent.index = 0
        <5>1. Before(sent) = Idle /\ After(sent).index <= 1
          BY <2>4, <4>1 DEF Before, After
        <5>2. Moves(TRUE, f, f, Idle, sent, After(sent))
          BY <3>3, <5>1 DEF Moves
        <5> QED
          BY <3>3, <5>1, <5>2, PieceLeads
      <4>2. CASE sent.index # 0
        BY <3>3, <4>2, <2>4, Places DEF Moves
      <4> QED
        BY <4>1, <4>2
    <3>5. ASSUME NEW to \in Position, PathEnd(f, s, at, to)
          PROVE  \E to2 \in Position :
                   Moves(TRUE, f, f, to, sent, to2) /\ PathEnd(f, s, at, to2)'
      BY <2>2, <2>3, <2>6, <3>4, <3>5
    <3> QED
      BY <1>1, <1>3, <2>1, <2>6, <3>1, <3>5, ServerPathSent
  <2>7. CASE /\ s \in P!Connected
             /\ \E m : toStorage'[s] = Append(toStorage[s], P!DownLoadBlock(m, f))
    <3>1. PICK m : toStorage'[s] = Append(toStorage[s], P!DownLoadBlock(m, f))
      BY <2>7
    <3>2. ASSUME NEW to \in Position, PathEnd(f, s, at, to)
          PROVE  Moves(TRUE, f, f, to, P!DownLoadBlock(m, f), to) /\ PathEnd(f, s, at, to)'
      <4>1. Moves(TRUE, f, f, to, P!DownLoadBlock(m, f), to)
        BY Passes, RequestIsFlowMessage DEF About
      <4> QED
        BY <2>2, <2>3, <2>4, <2>7, <3>2, <4>1
    <3> QED
      BY <1>1, <1>3, <2>1, <3>1, <3>2, ServerPathSent
  <2> QED
    BY <1>3, <2>5, <2>6, <2>7 DEF LateSends
<1>6. ClientPath(f, at)'
  BY <1>3, <1>4 DEF ClientPath
<1> QED
  BY <1>3, <1>4, <1>5, <1>6 DEF FlowPath

----------------------------------------------------------------------------
(* What an agent says.                                                     *)

AgentSays(f) ==
  \/ A!Alive(f) /\ \E msg \in A!FromClientMessage :
       /\ Moves(FALSE, f, 0, AgentAt(f), msg, AgentAt(f)')
       /\ fromClient'[f] = Append(fromClient[f], msg)
  \/ /\ fromClient'[f] = fromClient[f] /\ AgentAt(f)' = AgentAt(f)
     /\ A!Alive(f)' => A!Alive(f)
  \/ ~A!Alive(f)' /\ \E n \in 0 .. Len(fromClient[f]) :
       fromClient'[f] = SubSeq(fromClient[f], 1, n)

LEMMA SendPiecePath ==
  ASSUME A!TypeOK, NEW f \in Flows, NEW md5s \in Seq(Md5s), NEW k \in DOMAIN md5s,
         NEW i \in 0 .. Pieces[md5s[k]] - 1, A!SendBlockPiece(f, md5s, k, i),
         uploadMd5s'[f] = md5s, uploadingIndex'[f] = k
  PROVE  /\ \E msg \in A!FromClientMessage :
              /\ About(msg, 0, "upload_block") /\ Piece(f, msg)
              /\ Before(msg) = IF i = 0 THEN Idle ELSE [md5 |-> md5s[k], index |-> i]
              /\ After(msg) = AgentAt(f)'
              /\ fromClient'[f] = Append(fromClient[f], msg)
         /\ AgentAt(f)' \in Position
<1> DEFINE m == md5s[k]
           eof == i + 1 = Pieces[m]
<1>1. m \in Md5s /\ Pieces[m] \in Nat \ {0} /\ eof \in BOOLEAN /\ i \in Nat
  BY PiecesAssumption
<1>2. PICK content \in PieceOf(m, i, f) : A!Send(f, A!UploadBlock(m, i, eof, content))
  BY DEF A!SendBlockPiece, PieceOf, A!AlteredContent, AlteredContent
<1>3. /\ pieceIndex'[f] = i + 1
      /\ agentState'[f] = IF eof THEN "waiting_block_ack" ELSE "uploading_blocks"
  BY DEF A!SendBlockPiece, A!SetState, A!TypeOK
<1> HIDE DEF m, eof
<1> DEFINE msg == A!UploadBlock(m, i, eof, content)
<1>4. /\ msg.type = "upload_block" /\ msg.md5 = m /\ msg.index = i /\ msg.flow_id = 0
      /\ msg.eof = eof /\ msg.content = content
  BY DEF A!UploadBlock
<1>5. msg \in A!FromClientMessage
  BY <1>1, <1>2 DEF A!UploadBlock, A!FromClientMessage, PieceOf, A!PieceContent, AlteredContent
<1>6. fromClient'[f] = Append(fromClient[f], msg)
  BY <1>2 DEF A!Send, A!TypeOK
<1> HIDE DEF msg
<1>7. Piece(f, msg) /\ About(msg, 0, "upload_block")
  BY <1>1, <1>2, <1>4 DEF Piece, About, m, eof
<1>8. Before(msg) = IF i = 0 THEN Idle ELSE [md5 |-> md5s[k], index |-> i]
  BY <1>4 DEF Before, m
<1>9. After(msg) = AgentAt(f)'
  BY <1>3, <1>4 DEF After, AgentAt, m
<1>10. AgentAt(f)' \in Position
  BY <1>7, <1>9, PieceLeads
<1> QED
  BY <1>5, <1>6, <1>7, <1>8, <1>9, <1>10

LEMMA SendAllPath ==
  ASSUME A!TypeOK, NEW f \in Flows, AgentAt(f) = Idle, A!SendUploadAllBlocks(f)
  PROVE  /\ \E msg \in A!FromClientMessage :
              /\ Moves(FALSE, f, 0, AgentAt(f), msg, AgentAt(f)')
              /\ fromClient'[f] = Append(fromClient[f], msg)
         /\ AgentAt(f)' \in Position
<1>1. /\ A!UploadAllBlocks \in A!FromClientMessage
      /\ fromClient'[f] = Append(fromClient[f], A!UploadAllBlocks)
      /\ agentState'[f] = "waiting_final_result"
  BY DEF A!UploadAllBlocks, A!FromClientMessage, A!SendUploadAllBlocks, A!Send, A!SetState,
         A!TypeOK
<1>2. AgentAt(f)' = Idle
  BY <1>1 DEF AgentAt
<1>3. Moves(FALSE, f, 0, Idle, A!UploadAllBlocks, Idle)
  BY DEF Moves, About, A!UploadAllBlocks
<1> QED
  BY <1>1, <1>2, <1>3, Places

LEMMA AgentSpeaks ==
  ASSUME AgentInv, NEW f \in Flows, AgentAt(f) \in Position,
         \/ \E msg \in P!ClientMessage : A!OnMessage(f, msg)
         \/ A!OnWriteComplete(f)
         \/ A!Close(f)
  PROVE  AgentSays(f) /\ AgentAt(f)' \in Position
<1>1. A!TypeOK
  BY DEF AgentInv
<1>2. ASSUME A!Close(f) PROVE AgentSays(f) /\ AgentAt(f)' \in Position
  <2>1. agentState'[f] = "closed"
    BY <1>1, <1>2 DEF A!Close, A!SetState, A!TypeOK
  <2>2. ~A!Alive(f)' /\ AgentAt(f)' = Idle
    BY <2>1 DEF A!Alive, AgentAt
  <2> QED
    BY <1>1, <1>2, <2>2, Places DEF AgentSays, A!Close, A!TypeOK
<1>3. ASSUME NEW msg \in P!ClientMessage, A!OnUploadResponse(f, msg)
      PROVE  AgentSays(f) /\ AgentAt(f)' \in Position
  <2>1. /\ msg.md5s \in Seq(Md5s) /\ uploadMd5s'[f] = msg.md5s /\ uploadingIndex'[f] = 1
        /\ A!Alive(f) /\ AgentAt(f) = Idle
    BY <1>1, <1>3 DEF A!OnUploadResponse, P!ClientMessage, A!TypeOK, A!Alive, AgentAt
  <2>2. CASE A!SendUploadAllBlocks(f)
    BY <1>1, <2>1, <2>2, SendAllPath DEF AgentSays
  <2>3. CASE msg.md5s # <<>> /\ A!StartBlock(f, msg.md5s, 1)
    <3>1. 1 \in DOMAIN msg.md5s
      BY <2>1, <2>3
    <3>2. 0 \in 0 .. Pieces[msg.md5s[1]] - 1
      BY <2>1, <3>1, PiecesAssumption
    <3>3. A!SendBlockPiece(f, msg.md5s, 1, 0)
      BY <2>3 DEF A!StartBlock
    <3> QED
      BY <1>1, <2>1, <3>1, <3>2, <3>3, SendPiecePath DEF AgentSays, Moves
  <2> QED
    BY <1>3, <2>2, <2>3 DEF A!OnUploadResponse
<1>4. ASSUME NEW msg \in P!ClientMessage, A!OnUploadBlockAck(f, msg)
      PROVE  AgentSays(f) /\ AgentAt(f)' \in Position
  <2>1. /\ uploadMd5s[f] \in Seq(Md5s) /\ uploadMd5s'[f] = uploadMd5s[f]
        /\ uploadingIndex[f] \in DOMAIN uploadMd5s[f]
        /\ uploadingIndex'[f] = uploadingIndex[f] + 1
        /\ A!Alive(f) /\ AgentAt(f) = Idle
    BY <1>4 DEF A!OnUploadBlockAck, AgentInv, A!TypeOK, AtABlock, A!Alive, AgentAt
  <2>2. CASE A!SendUploadAllBlocks(f)
    BY <1>1, <2>1, <2>2, SendAllPath DEF AgentSays
  <2>3. CASE ~A!LastBlock(f) /\ A!StartBlock(f, uploadMd5s[f], uploadingIndex[f] + 1)
    <3> DEFINE k == uploadingIndex[f] + 1
    <3>1. k \in DOMAIN uploadMd5s[f]
      BY <2>1, <2>3 DEF A!LastBlock
    <3>2. 0 \in 0 .. Pieces[uploadMd5s[f][k]] - 1
      BY <2>1, <3>1, PiecesAssumption
    <3>3. A!SendBlockPiece(f, uploadMd5s[f], k, 0)
      BY <2>3 DEF A!StartBlock
    <3> HIDE DEF k
    <3>4. uploadingIndex'[f] = k
      BY <2>1 DEF k
    <3> QED
      BY <1>1, <2>1, <3>1, <3>2, <3>3, <3>4, SendPiecePath DEF AgentSays, Moves
  <2> QED
    BY <1>4, <2>2, <2>3 DEF A!OnUploadBlockAck
<1>5. ASSUME NEW msg, A!OnFinalResult(f, msg) \/ A!Ignore(f)
      PROVE  AgentSays(f) /\ AgentAt(f)' \in Position
  <2>1. AgentAt(f)' = AgentAt(f) /\ (A!Alive(f)' => A!Alive(f)) /\ UNCHANGED fromClient
    BY <1>1, <1>5 DEF A!OnFinalResult, A!SetState, A!Ignore, A!aVars, A!TypeOK, A!Alive, AgentAt
  <2> QED
    BY <2>1 DEF AgentSays
<1>6. ASSUME A!OnWriteComplete(f) PROVE AgentSays(f) /\ AgentAt(f)' \in Position
  <2>1. CASE /\ agentState[f] = "uploading_blocks"
             /\ A!SendBlockPiece(f, uploadMd5s[f], uploadingIndex[f], pieceIndex[f])
             /\ UNCHANGED <<fileMd5s, uploadMd5s, uploadingIndex>>
    <3> DEFINE m == uploadMd5s[f][uploadingIndex[f]]
    <3>1. /\ uploadMd5s[f] \in Seq(Md5s) /\ uploadingIndex[f] \in DOMAIN uploadMd5s[f]
          /\ A!Alive(f) /\ AgentAt(f) = [md5 |-> m, index |-> pieceIndex[f]]
      BY <2>1 DEF AgentInv, A!TypeOK, AtABlock, A!Alive, AgentAt
    <3>2. m \in Md5s
      BY <3>1
    <3>3. pieceIndex[f] \in 1 .. Pieces[m] - 1
      BY <3>1, <3>2, Places
    <3>4. pieceIndex[f] \in 0 .. Pieces[m] - 1 /\ pieceIndex[f] # 0
      BY <3>2, <3>3, PiecesAssumption
    <3> HIDE DEF m
    <3> QED
      BY <1>1, <2>1, <3>1, <3>4, SendPiecePath DEF AgentSays, Moves, m
  <2>2. CASE UNCHANGED <<agentState, fileMd5s, uploadMd5s, uploadingIndex, pieceIndex,
                         fromClient>>
    BY <2>2 DEF AgentSays, AgentAt, A!Alive
  <2> QED
    BY <1>6, <2>1, <2>2 DEF A!OnWriteComplete
<1> QED
  BY <1>2, <1>3, <1>4, <1>5, <1>6 DEF A!OnMessage, A!OnMessageError

(* The path from the proxy to the agent follows what the agent says.       *)
LEMMA ClientPathSaid ==
  ASSUME A!TypeOK, NEW f \in Flows, NEW at \in Position, ClientPath(f, at), AgentSays(f),
         AgentAt(f)' \in Position, clientState'[f] = clientState[f]
  PROVE  ClientPath(f, at)'
<1> SUFFICES ASSUME clientState[f] # "none"
             PROVE  \E to \in Position :
                      Path(FALSE, f, 0, at, fromClient[f], to)' /\ (A!Alive(f)' => to = AgentAt(f)')
  BY DEF ClientPath
<1>1. PICK to \in Position :
        Path(FALSE, f, 0, at, fromClient[f], to) /\ (A!Alive(f) => to = AgentAt(f))
  BY DEF ClientPath
<1>2. fromClient[f] \in Seq(A!FromClientMessage)
  BY DEF A!TypeOK
<1>3. ASSUME NEW q, fromClient'[f] = q, NEW end, Path(FALSE, f, 0, at, q, end)
      PROVE  Path(FALSE, f, 0, at, fromClient[f], end)'
  BY <1>3 DEF Path
<1>4. CASE A!Alive(f) /\ \E msg \in A!FromClientMessage :
             /\ Moves(FALSE, f, 0, AgentAt(f), msg, AgentAt(f)')
             /\ fromClient'[f] = Append(fromClient[f], msg)
  <2>1. PICK end \in Position : end = AgentAt(f)'
    OBVIOUS
  <2>2. PICK msg \in A!FromClientMessage :
          Moves(FALSE, f, 0, to, msg, end) /\ fromClient'[f] = Append(fromClient[f], msg)
    BY <1>1, <1>4, <2>1
  <2>3. Path(FALSE, f, 0, at, Append(fromClient[f], msg), end)
    BY <1>1, <1>2, <2>2, <2>1, PathAppend
  <2>4. Path(FALSE, f, 0, at, fromClient[f], end)'
    BY <1>3, <2>2, <2>3
  <2> QED
    BY <2>1, <2>4
<1>5. CASE /\ fromClient'[f] = fromClient[f] /\ AgentAt(f)' = AgentAt(f)
           /\ A!Alive(f)' => A!Alive(f)
  BY <1>1, <1>3, <1>5
<1>6. CASE ~A!Alive(f)' /\ \E n \in 0 .. Len(fromClient[f]) :
             fromClient'[f] = SubSeq(fromClient[f], 1, n)
  <2>1. PICK n \in 0 .. Len(fromClient[f]) : fromClient'[f] = SubSeq(fromClient[f], 1, n)
    BY <1>6
  <2>2. PICK end \in Position : Path(FALSE, f, 0, at, SubSeq(fromClient[f], 1, n), end)
    BY <1>1, <1>2, <2>1, PathPart
  <2> QED
    BY <1>3, <1>6, <2>1, <2>2
<1> QED
  BY <1>4, <1>5, <1>6 DEF AgentSays

(* Its pieces are pieces. *)
LEMMA AgentSaysPieces ==
  ASSUME A!TypeOK, NEW f \in Flows, SaysPieces(f), AgentSays(f)
  PROVE  SaysPieces(f)'
<1>1. fromClient[f] \in Seq(A!FromClientMessage)
  BY DEF A!TypeOK
<1>2. ASSUME NEW q, fromClient'[f] = q,
             \A i \in DOMAIN q : q[i].type = "upload_block" => Piece(f, q[i])
      PROVE  SaysPieces(f)'
  BY <1>2 DEF SaysPieces, Piece, PieceOf, AlteredContent
<1>3. ASSUME NEW msg \in A!FromClientMessage, Moves(FALSE, f, 0, AgentAt(f), msg, AgentAt(f)'),
             fromClient'[f] = Append(fromClient[f], msg)
      PROVE  SaysPieces(f)'
  <2>1. msg.type = "upload_block" => Piece(f, msg)
    BY <1>3 DEF Moves, About, A!FromClientMessage
  <2>2. \A i \in DOMAIN Append(fromClient[f], msg) :
          \/ Append(fromClient[f], msg)[i] = msg
          \/ i \in DOMAIN fromClient[f] /\ Append(fromClient[f], msg)[i] = fromClient[f][i]
    BY <1>1
  <2> QED
    BY <1>2, <1>3, <2>1, <2>2 DEF SaysPieces
<1>4. ASSUME NEW n \in 0 .. Len(fromClient[f]), fromClient'[f] = SubSeq(fromClient[f], 1, n)
      PROVE  SaysPieces(f)'
  <2>1. \A i \in DOMAIN SubSeq(fromClient[f], 1, n) :
          i \in DOMAIN fromClient[f] /\ SubSeq(fromClient[f], 1, n)[i] = fromClient[f][i]
    BY <1>1
  <2> QED
    BY <1>2, <1>4, <2>1 DEF SaysPieces
<1>5. ASSUME fromClient'[f] = fromClient[f] PROVE SaysPieces(f)'
  BY <1>2, <1>5 DEF SaysPieces
<1> QED
  BY <1>3, <1>4, <1>5 DEF AgentSays

----------------------------------------------------------------------------
(* The steps of the clients.                                               *)

(* The client of flow f is where it was. *)
SameClient(f) ==
  /\ agentState'[f] = agentState[f] /\ uploadMd5s'[f] = uploadMd5s[f]
  /\ uploadingIndex'[f] = uploadingIndex[f] /\ pieceIndex'[f] = pieceIndex[f]
  /\ fromClient'[f] = fromClient[f] /\ downloadState'[f] = downloadState[f]
ClientMoves(f) ==
  /\ UNCHANGED <<proxy, servers, toStorage>>
  /\ \A g \in Flows \ {f} : SameClient(g)

AgentMoves(f) == AgentReads(f) \/ AgentWrote(f) \/ AgentLosesProxy(f) \/ AgentKilled(f)
DownloaderMoves(f) == DownloaderReads(f) \/ DownloaderLosesProxy(f) \/ DownloaderKilled(f)

LEMMA ClientPathSame ==
  ASSUME NEW f \in Flows, NEW at, ClientPath(f, at), SameClient(f),
         clientState'[f] = clientState[f]
  PROVE  ClientPath(f, at)'
BY DEF ClientPath, SameClient, A!Alive, AgentAt, Path

LEMMA ServersSamePath ==
  ASSUME NEW f \in Flows, NEW at, NEW s \in Servers, ServerPath(f, s, at),
         UNCHANGED <<servers, toStorage, proxyState, storageState, transferingServers, lateState>>
  PROVE  ServerPath(f, s, at)'
BY ServerPathSame DEF servers, P!Connected, LateDone

AgentActs(f) ==
  /\ \A g \in Flows \ {f} :
       /\ agentState'[g] = agentState[g] /\ uploadMd5s'[g] = uploadMd5s[g]
       /\ uploadingIndex'[g] = uploadingIndex[g] /\ pieceIndex'[g] = pieceIndex[g]
       /\ fromClient'[g] = fromClient[g]
  /\ agentState[f] # "init"

LEMMA SendPieceActs ==
  ASSUME A!TypeOK, NEW f \in Flows, NEW md5s, NEW at, NEW i, agentState[f] # "init",
         A!SendBlockPiece(f, md5s, at, i),
         \A g \in Flows \ {f} : /\ uploadMd5s'[g] = uploadMd5s[g]
                                /\ uploadingIndex'[g] = uploadingIndex[g]
  PROVE  AgentActs(f)
<1>1. PICK msg : A!Send(f, msg)
  BY DEF A!SendBlockPiece
<1>2. \A g \in Flows \ {f} : fromClient'[g] = fromClient[g]
  BY <1>1 DEF A!Send, A!TypeOK
<1>3. \A g \in Flows \ {f} : agentState'[g] = agentState[g] /\ pieceIndex'[g] = pieceIndex[g]
  BY DEF A!SendBlockPiece, A!SetState, A!TypeOK
<1> QED
  BY <1>2, <1>3 DEF AgentActs

LEMMA CloseActs ==
  ASSUME A!TypeOK, NEW f \in Flows, A!Close(f)
  PROVE  AgentActs(f)
BY DEF A!Close, A!Alive, A!SetState, A!TypeOK, AgentActs

LEMMA OnMessageActs ==
  ASSUME A!TypeOK, NEW f \in Flows, NEW msg, A!OnMessage(f, msg)
  PROVE  AgentActs(f)
<1>1. CASE A!OnUploadResponse(f, msg)
  <2>1. /\ agentState[f] # "init"
        /\ \A g \in Flows \ {f} : /\ uploadMd5s'[g] = uploadMd5s[g]
                                  /\ uploadingIndex'[g] = uploadingIndex[g]
    BY <1>1 DEF A!OnUploadResponse, A!TypeOK
  <2>2. CASE A!SendUploadAllBlocks(f) /\ pieceIndex' = [pieceIndex EXCEPT ![f] = 0]
    BY <2>1, <2>2 DEF A!SendUploadAllBlocks, A!Send, A!SetState, A!TypeOK, AgentActs
  <2>3. CASE A!StartBlock(f, msg.md5s, 1)
    BY <2>1, <2>3, SendPieceActs DEF A!StartBlock
  <2> QED
    BY <1>1, <2>2, <2>3 DEF A!OnUploadResponse
<1>2. CASE A!OnUploadBlockAck(f, msg)
  <2>1. /\ agentState[f] # "init"
        /\ \A g \in Flows \ {f} : /\ uploadMd5s'[g] = uploadMd5s[g]
                                  /\ uploadingIndex'[g] = uploadingIndex[g]
    BY <1>2 DEF A!OnUploadBlockAck, A!TypeOK
  <2>2. CASE A!SendUploadAllBlocks(f) /\ pieceIndex' = [pieceIndex EXCEPT ![f] = 0]
    BY <2>1, <2>2 DEF A!SendUploadAllBlocks, A!Send, A!SetState, A!TypeOK, AgentActs
  <2>3. CASE A!StartBlock(f, uploadMd5s[f], uploadingIndex[f] + 1)
    BY <2>1, <2>3, SendPieceActs DEF A!StartBlock
  <2> QED
    BY <1>2, <2>2, <2>3 DEF A!OnUploadBlockAck
<1>3. CASE A!OnFinalResult(f, msg) \/ A!Ignore(f)
  BY <1>3 DEF A!OnFinalResult, A!Ignore, A!SetState, A!TypeOK, A!aVars, AgentActs
<1>4. CASE A!OnMessageError(f, msg)
  BY <1>4, CloseActs DEF A!OnMessageError
<1> QED
  BY <1>1, <1>2, <1>3, <1>4 DEF A!OnMessage

LEMMA OnWriteCompleteActs ==
  ASSUME A!TypeOK, NEW f \in Flows, A!OnWriteComplete(f)
  PROVE  AgentActs(f)
<1>1. agentState[f] # "init"
  BY DEF A!OnWriteComplete, A!Alive
<1>2. CASE /\ A!SendBlockPiece(f, uploadMd5s[f], uploadingIndex[f], pieceIndex[f])
           /\ UNCHANGED <<uploadMd5s, uploadingIndex>>
  BY <1>1, <1>2, SendPieceActs
<1>3. CASE UNCHANGED <<agentState, uploadMd5s, uploadingIndex, pieceIndex, fromClient>>
  BY <1>1, <1>3 DEF AgentActs
<1> QED
  BY <1>2, <1>3 DEF A!OnWriteComplete

LEMMA AgentMovesOnly ==
  ASSUME P!TypeOK, AgentInv, NEW f \in Flows, AgentMoves(f), AgentAt(f) \in Position
  PROVE  /\ AgentSays(f) /\ AgentAt(f)' \in Position
         /\ ClientMoves(f) /\ agentState[f] # "init" /\ UNCHANGED downloadState
<1>1. A!TypeOK
  BY DEF AgentInv
<1>2. UNCHANGED <<proxy, servers, toStorage, downloadState>>
  BY DEF AgentMoves, AgentReads, AgentWrote, AgentLosesProxy, AgentKilled, downloaders
<1>3. CASE AgentReads(f)
  <2>1. toClient[f] \in Seq(P!ClientMessage) /\ toClient[f] # <<>>
    BY <1>3 DEF AgentReads, P!TypeOK
  <2>2. Head(toClient[f]) \in P!ClientMessage
    BY <2>1
  <2>3. A!OnMessage(f, Head(toClient[f]))
    BY <1>3 DEF AgentReads
  <2> QED
    BY <1>1, <1>2, <2>2, <2>3, AgentSpeaks, OnMessageActs DEF AgentActs, ClientMoves, SameClient
<1>4. CASE AgentWrote(f)
  <2>1. A!OnWriteComplete(f)
    BY <1>4 DEF AgentWrote
  <2> QED
    BY <1>1, <1>2, <2>1, AgentSpeaks, OnWriteCompleteActs DEF AgentActs, ClientMoves, SameClient
<1>5. CASE AgentLosesProxy(f) \/ AgentKilled(f)
  <2>1. A!Close(f)
    BY <1>5 DEF AgentLosesProxy, AgentKilled
  <2> QED
    BY <1>1, <1>2, <2>1, AgentSpeaks, CloseActs DEF AgentActs, ClientMoves, SameClient
<1> QED
  BY <1>3, <1>4, <1>5 DEF AgentMoves

LEMMA DownloaderMovesOnly ==
  ASSUME A!TypeOK, D!TypeOK, NEW f \in Flows, DownloaderMoves(f)
  PROVE  /\ ClientMoves(f) /\ downloadState[f] # "init" /\ UNCHANGED agents
         /\ \/ fromClient'[f] = fromClient[f]
            \/ \E m : fromClient'[f] = Append(fromClient[f], D!TransferBlockAck(m))
            \/ \E n \in 0 .. Len(fromClient[f]) : fromClient'[f] = SubSeq(fromClient[f], 1, n)
<1>1. ASSUME NEW state, D!End(f, state)
      PROVE  /\ \A g \in Flows \ {f} : fromClient'[g] = fromClient[g]
                                       /\ downloadState'[g] = downloadState[g]
             /\ downloadState[f] # "init"
             /\ \E n \in 0 .. Len(fromClient[f]) : fromClient'[f] = SubSeq(fromClient[f], 1, n)
  BY <1>1 DEF D!End, D!SetState, D!TypeOK
<1>2. ASSUME NEW msg, D!OnTransferBlock(f, msg)
      PROVE  /\ \A g \in Flows \ {f} : fromClient'[g] = fromClient[g]
                                       /\ downloadState'[g] = downloadState[g]
             /\ downloadState[f] # "init"
             /\ \/ fromClient'[f] = fromClient[f]
                \/ fromClient'[f] = Append(fromClient[f], D!TransferBlockAck(msg.md5))
  BY <1>2 DEF D!OnTransferBlock, D!Acknowledge, D!Send, D!TypeOK
<1>3. UNCHANGED <<proxy, servers, toStorage, agents>>
  BY DEF DownloaderMoves, DownloaderReads, DownloaderLosesProxy, DownloaderKilled
<1>4. \/ \E state : D!End(f, state)
      \/ \E msg : D!OnTransferBlock(f, msg)
  BY DEF DownloaderMoves, DownloaderReads, DownloaderLosesProxy, DownloaderKilled,
         D!OnMessage, D!OnTransferAllBlocks, D!OnMessageError, D!Close
<1> QED
  BY <1>1, <1>2, <1>3, <1>4 DEF ClientMoves, SameClient, agents

LEMMA AgentFlowPath ==
  ASSUME P!TypeOK, AgentInv, NEW f \in Flows, AgentMoves(f), AgentAt(f) \in Position,
         NEW at \in Position, FlowPath(f, at)
  PROVE  FlowPath(f, at)'
<1>1. AgentSays(f) /\ AgentAt(f)' \in Position /\ ClientMoves(f)
  BY AgentMovesOnly
<1>2. UNCHANGED <<servers, toStorage, proxyState, storageState, transferingServers, clientState,
                 lateState>>
  BY <1>1 DEF ClientMoves, proxy
<1>3. ClientPath(f, at)'
  BY <1>1, <1>2, ClientPathSaid DEF FlowPath, AgentInv
<1>4. \A s \in Servers : ServerPath(f, s, at)'
  BY <1>2, ServersSamePath DEF FlowPath
<1> QED
  BY <1>2, <1>3, <1>4 DEF FlowPath

LEMMA DownloaderFlowPath ==
  ASSUME P!TypeOK, A!TypeOK, D!TypeOK, OneRole, NEW f \in Flows, DownloaderMoves(f),
         NEW at \in Position, FlowPath(f, at)
  PROVE  FlowPath(f, at)'
<1>1. /\ ClientMoves(f) /\ downloadState[f] # "init" /\ UNCHANGED agents
      /\ \/ fromClient'[f] = fromClient[f]
         \/ \E m : fromClient'[f] = Append(fromClient[f], D!TransferBlockAck(m))
         \/ \E n \in 0 .. Len(fromClient[f]) : fromClient'[f] = SubSeq(fromClient[f], 1, n)
  BY DownloaderMovesOnly
<1>2. UNCHANGED <<servers, toStorage, proxyState, storageState, transferingServers, clientState,
                 lateState>>
  BY <1>1 DEF ClientMoves, proxy
<1>3. ~A!Alive(f)'
  BY <1>1 DEF OneRole, agents, A!Alive
<1>4. ClientPath(f, at)'
  <2> SUFFICES ASSUME clientState[f] # "none"
               PROVE  \E to \in Position : Path(FALSE, f, 0, at, fromClient[f], to)'
    BY <1>2, <1>3 DEF ClientPath
  <2>1. PICK to \in Position : Path(FALSE, f, 0, at, fromClient[f], to)
    BY DEF FlowPath, ClientPath
  <2>2. fromClient[f] \in Seq(A!FromClientMessage)
    BY DEF A!TypeOK
  <2>3. ASSUME NEW q, fromClient'[f] = q, NEW end, Path(FALSE, f, 0, at, q, end)
        PROVE  Path(FALSE, f, 0, at, fromClient[f], end)'
    BY <2>3 DEF Path
  <2>4. ASSUME NEW m, fromClient'[f] = Append(fromClient[f], D!TransferBlockAck(m))
        PROVE  Path(FALSE, f, 0, at, fromClient[f], to)'
    <3>1. Moves(FALSE, f, 0, to, D!TransferBlockAck(m), to)
      BY DEF Moves, About, D!TransferBlockAck
    <3>2. Path(FALSE, f, 0, at, Append(fromClient[f], D!TransferBlockAck(m)), to)
      BY <2>1, <2>2, <3>1, PathAppend
    <3> QED
      BY <2>3, <2>4, <3>2
  <2>5. ASSUME NEW n \in 0 .. Len(fromClient[f]), fromClient'[f] = SubSeq(fromClient[f], 1, n)
        PROVE  \E end \in Position : Path(FALSE, f, 0, at, fromClient[f], end)'
    <3>1. PICK end \in Position : Path(FALSE, f, 0, at, SubSeq(fromClient[f], 1, n), end)
      BY <2>1, <2>2, PathPart
    <3> QED
      BY <2>3, <2>5, <3>1
  <2> QED
    BY <1>1, <2>1, <2>3, <2>4, <2>5
<1>5. \A s \in Servers : ServerPath(f, s, at)'
  BY <1>2, ServersSamePath DEF FlowPath
<1> QED
  BY <1>2, <1>4, <1>5 DEF FlowPath

LEMMA MovingFlowPath ==
  ASSUME NEW f, ClientMoves(f), NEW g \in Flows \ {f}, NEW at, FlowPath(g, at)
  PROVE  FlowPath(g, at)'
<1>1. UNCHANGED <<servers, toStorage, proxyState, storageState, transferingServers, clientState,
                 lateState>>
  BY DEF ClientMoves, proxy
<1>2. ClientPath(g, at)'
  BY <1>1, ClientPathSame DEF FlowPath, ClientMoves
<1> QED
  BY <1>1, <1>2, ServersSamePath DEF FlowPath

(* A client connects. *)
Connects(f) == AgentConnects(f) \/ DownloaderConnects(f)

LEMMA ConnectsOnly ==
  ASSUME P!TypeOK, A!TypeOK, D!TypeOK, Unborn, NEW f \in Flows, Connects(f)
  PROVE  /\ f = nextFlow /\ nextFlow' = nextFlow + 1
         /\ clientState[f] = "none" /\ clientState'[f] = "init" /\ fromClient[f] = <<>>
         /\ UNCHANGED <<servers, toStorage, proxyState, storageState, transferingServers,
                         lateState>>
         /\ \A g \in Flows \ {f} : SameClient(g) /\ clientState'[g] = clientState[g]
         /\ \E msg : /\ fromClient'[f] = <<msg>>
                     /\ msg.type \in {"upload_request", "download_request"}
         /\ \/ agentState'[f] = "waiting_upload_response" /\ downloadState'[f] = "init"
            \/ agentState'[f] = "init"
<1>1. /\ f = nextFlow /\ nextFlow' = nextFlow + 1
      /\ clientState' = [clientState EXCEPT ![f] = "init"]
      /\ UNCHANGED <<proxyState, storageState, transferingServers, toStorage, lateState>>
  BY DEF Connects, AgentConnects, DownloaderConnects, P!ClientOnConnection, P!SetClientState,
         P!upload, P!storages
<1>2. /\ clientState[f] = "none" /\ fromClient[f] = <<>>
      /\ agentState[f] = "init" /\ downloadState[f] = "init"
  BY <1>1 DEF Unborn, P!TypeOK
<1>3. \A msg : Append(<<>>, msg) = <<msg>>
  OBVIOUS
<1>4. CASE AgentConnects(f)
  <2>1. PICK md5s : A!OnConnection(f, md5s)
    BY <1>4 DEF AgentConnects
  <2>2. /\ fromClient' = [fromClient EXCEPT ![f] = Append(@, A!UploadRequest(md5s))]
        /\ A!UploadRequest(md5s).type = "upload_request"
        /\ agentState' = [agentState EXCEPT ![f] = "waiting_upload_response"]
        /\ UNCHANGED <<uploadMd5s, uploadingIndex, pieceIndex, downloadState, servers>>
    BY <1>4, <2>1 DEF AgentConnects, A!OnConnection, A!Send, A!SetState, A!UploadRequest,
                      downloaders
  <2> QED
    BY <1>1, <1>2, <1>3, <2>2 DEF SameClient, P!TypeOK, A!TypeOK
<1>5. CASE DownloaderConnects(f)
  <2>1. PICK id, have : D!OnConnection(f, id, have)
    BY <1>5 DEF DownloaderConnects
  <2>2. /\ fromClient' = [fromClient EXCEPT ![f] = Append(@, D!DownLoadRequest(id, have))]
        /\ D!DownLoadRequest(id, have).type = "download_request"
        /\ downloadState' = [downloadState EXCEPT ![f] = "reading"]
        /\ UNCHANGED <<agents, servers>>
    BY <1>5, <2>1 DEF DownloaderConnects, D!OnConnection, D!Send, D!SetState, D!DownLoadRequest
  <2> QED
    BY <1>1, <1>2, <1>3, <2>2 DEF agents, SameClient, P!TypeOK, A!TypeOK, D!TypeOK
<1> QED
  BY <1>4, <1>5 DEF Connects

LEMMA ConnectsFlowPath ==
  ASSUME P!TypeOK, A!TypeOK, D!TypeOK, Unborn, NEW f \in Flows, Connects(f),
         NEW g \in Flows, NEW at \in Position, FlowPath(g, at)
  PROVE  FlowPath(g, at)'
<1>1. \A s \in Servers : ServerPath(g, s, at)'
  BY ConnectsOnly, ServersSamePath DEF FlowPath
<1>2. CASE g # f
  BY <1>1, <1>2, ConnectsOnly, ClientPathSame DEF FlowPath
<1>3. CASE g = f
  <2>1. at = Idle
    BY <1>3, ConnectsOnly DEF FlowPath
  <2>2. PICK msg : /\ fromClient'[f] = <<msg>>
                   /\ msg.type \in {"upload_request", "download_request"}
    BY ConnectsOnly
  <2>3. Moves(FALSE, f, 0, Idle, msg, Idle)
    BY <2>2, Passes DEF About
  <2>4. Path(FALSE, f, 0, Idle, <<msg>>, Idle)
    <3>1. <<>> \in Seq({msg}) /\ Append(<<>>, msg) = <<msg>>
      OBVIOUS
    <3>2. Idle \in Position /\ Path(FALSE, f, 0, Idle, <<>>, Idle)
      BY PathEmpty, Places
    <3>3. Path(FALSE, f, 0, Idle, Append(<<>>, msg), Idle)
      BY <2>3, <3>1, <3>2, PathAppend
    <3> QED
      BY <3>1, <3>3
  <2>5. Path(FALSE, f, 0, Idle, fromClient[f], Idle)'
    BY <2>2, <2>4 DEF Path
  <2>6. A!Alive(f)' => AgentAt(f)' = Idle
    BY ConnectsOnly DEF A!Alive, AgentAt
  <2> QED
    BY <1>1, <1>3, <2>1, <2>5, <2>6, Places DEF FlowPath, ClientPath
<1> QED
  BY <1>2, <1>3

----------------------------------------------------------------------------
(* The steps of the servers and their connections.                         *)

LEMMA StorageClosed ==
  ASSUME P!TypeOK, NEW s \in Servers, P!StorageOnClose(s)
  PROVE  /\ storageState' = [storageState EXCEPT ![s] = "none"]
         /\ transferingServers' = [f \in Flows |-> transferingServers[f] \ {s}]
         /\ \E n \in 0 .. Len(toStorage[s]) :
              toStorage' = [toStorage EXCEPT ![s] = SubSeq(toStorage[s], 1, n)]
         /\ UNCHANGED <<proxyState, nextFlow, clientState, lateState>>
BY DEF P!StorageOnClose, P!Truncated, P!process

LEMMA ProxyHears ==
  ASSUME P!TypeOK, NEW s \in Servers, ProxyReadsStorage(s) \/ ProxyLosesStorage(s)
  PROVE  /\ UNCHANGED <<servers, agents, downloaders, fromClient>>
         /\ UNCHANGED <<nextFlow, clientState, lateState>>
         /\ proxyState' = "running" => proxyState = "running"
         /\ \/ P!StorageOnClose(s)
            \/ /\ UNCHANGED <<toStorage, transferingServers>>
               /\ \A t \in Servers : t \in P!Connected' <=> t \in P!Connected
<1>1. UNCHANGED <<servers, agents, downloaders, fromClient>>
  BY DEF ProxyReadsStorage, ProxyLosesStorage, clients
<1>2. ASSUME NEW msg, P!StorageOnMessage(s, msg), ~P!StorageOnClose(s)
      PROVE  /\ UNCHANGED <<nextFlow, clientState, lateState, toStorage, transferingServers>>
             /\ proxyState' = "running" => proxyState = "running"
             /\ \A t \in Servers : t \in P!Connected' <=> t \in P!Connected
  <2>1. CASE P!HandleTransferBlockSet(s, msg)
    BY <2>1 DEF P!HandleTransferBlockSet, P!AfterBlockSet, P!process, P!upload, P!Connected,
                P!TypeOK
  <2>2. CASE P!HandleUploadBlockAck(s, msg) \/ P!HandleUploadBlockFail(s, msg)
             \/ P!HandleTransferBlock(s, msg) \/ P!NamelessFail(s, msg)
    BY <2>2 DEF P!HandleUploadBlockAck, P!HandleUploadBlockFail, P!HandleTransferBlock,
         P!NamelessFail, P!Dies, P!process, P!upload, P!storages, P!Connected
  <2> QED
    BY <1>2, <2>1, <2>2 DEF P!StorageOnMessage, P!StorageMessageError
<1> QED
  BY <1>1, <1>2, StorageClosed DEF ProxyReadsStorage, ProxyLosesStorage

(* What the steps of one server leave alone. *)
LEMMA StorageMovesOnly ==
  ASSUME P!TypeOK, S!TypeOK, NEW s \in Servers, StorageMoves(s)
  PROVE  /\ UNCHANGED <<agents, downloaders, fromClient, nextFlow, clientState, lateState>>
         /\ proxyState' = "running" => proxyState = "running"
         /\ \A t \in Servers \ {s} :
              /\ sState'[t] = sState[t] /\ uploadingContext'[t] = uploadingContext[t]
              /\ toStorage'[t] = toStorage[t] /\ storageState'[t] = storageState[t]
              /\ \A f \in Flows : t \in transferingServers'[f] <=> t \in transferingServers[f]
<1>1. \A t \in Servers \ {s} : sState'[t] = sState[t] /\ storageState'[t] = storageState[t]
  BY OtherServers DEF SameServer
<1>2. CASE ServerConnects(s)
  <2>1. UNCHANGED <<agents, downloaders, fromClient, proxyState, nextFlow, clientState,
                    lateState, transferingServers, uploadingContext>>
    BY <1>2 DEF ServerConnects, clients, P!StorageOnConnection, P!process, P!upload,
                S!OnConnection
  <2>2. toStorage' = [toStorage EXCEPT ![s] = <<>>]
    BY <1>2 DEF ServerConnects, P!StorageOnConnection
  <2> QED
    BY <1>1, <2>1, <2>2 DEF P!TypeOK
<1>3. CASE StorageStep(s) \/ StorageDies(s)
  <2>1. /\ UNCHANGED <<agents, downloaders, fromClient, proxyState, nextFlow, clientState,
                       lateState, transferingServers>>
        /\ \A t \in Servers \ {s} : toStorage'[t] = toStorage[t]
    BY <1>3 DEF StorageStep, StorageReads, StorageWrote, StorageLosesProxy, StorageDies, clients,
                proxy, P!TypeOK
  <2>2. \A t \in Servers \ {s} : uploadingContext'[t] = uploadingContext[t]
    <3>1. ASSUME NEW sent, S!Exit(s, sent)
          PROVE  \A t \in Servers \ {s} : uploadingContext'[t] = uploadingContext[t]
      BY <3>1 DEF S!Exit, S!TypeOK
    <3>2. CASE StorageReads(s)
      BY <3>1, <3>2 DEF StorageReads, StorageHandles, S!OnUploadBlock, S!ReceivePiece,
           S!RejectBlock, S!StoreBlock, S!CleanUploadContext, S!OnDownLoadBlock,
           S!ExitOnDownLoadBlock, S!OnClientClean, S!TypeOK
    <3>3. CASE StorageWrote(s)
      BY <3>3 DEF StorageWrote, S!OnWriteComplete, S!memory
    <3>4. CASE StorageLosesProxy(s) \/ StorageDies(s)
      BY <3>1, <3>4 DEF StorageLosesProxy, S!OnClose, StorageDies, S!Crash, S!CrashWhileStoring
    <3> QED
      BY <1>3, <3>2, <3>3, <3>4 DEF StorageStep
  <2> QED
    BY <1>1, <2>1, <2>2
<1>4. CASE ProxyStorageStep(s)
  <2>1. /\ UNCHANGED <<servers, agents, downloaders, fromClient>>
        /\ UNCHANGED <<nextFlow, clientState, lateState>>
        /\ proxyState' = "running" => proxyState = "running"
        /\ P!StorageOnClose(s) \/ UNCHANGED <<toStorage, transferingServers>>
    BY <1>4, ProxyHears DEF ProxyStorageStep
  <2> QED
    BY <1>1, <2>1, StorageClosed DEF servers, P!TypeOK
<1> QED
  BY <1>2, <1>3, <1>4 DEF StorageMoves

(* The process of a server ends. *)
LEMMA ProcessEnds ==
  ASSUME S!TypeOK, NEW s \in Servers, NEW f \in Flows, StorageLosesProxy(s) \/ StorageDies(s)
  PROVE  ~Running(s)' /\ uploadingContext'[s][f] = S!NoUpload
<1>1. \E sent : S!Exit(s, sent)
  BY DEF StorageLosesProxy, S!OnClose, StorageDies, S!Crash, S!CrashWhileStoring
<1> QED
  BY <1>1, ExitForgets

LEMMA MovingServerPath ==
  ASSUME P!TypeOK, S!TypeOK, DownForgets, SelectedConnected, NEW s \in Servers, StorageMoves(s),
         NEW f \in Flows, GenuineContext(s, f), NEW at, ServerPath(f, s, at)
  PROVE  /\ ServerPath(f, s, at)' /\ GenuineContext(s, f)'
         /\ ~Running(s)' => uploadingContext'[s][f] = S!NoUpload
<1>1. CASE ServerConnects(s)
  <2>1. uploadingContext'[s][f] = S!NoUpload
    BY <1>1 DEF ServerConnects, S!OnConnection, DownForgets, Running
  <2> QED
    BY <1>1, <2>1, ServerPathNew, NothingIsGenuine
<1>2. CASE StorageReads(s)
  BY <1>2, ServerPathRead
<1>3. CASE StorageWrote(s)
  <2>1. /\ UNCHANGED <<uploadingContext, toStorage, proxyState, storageState,
                       transferingServers, lateState>>
        /\ sState[s] = "down" <=> sState'[s] = "down"
    BY <1>3 DEF StorageWrote, S!OnWriteComplete, S!SendSomeMd5sToProxy, S!memory, proxy, S!TypeOK
  <2>2. ServerPath(f, s, at)'
    BY <2>1, ServerPathSame DEF P!Connected, LateDone
  <2> QED
    BY <2>1, <2>2, ContextSame DEF DownForgets, Running, LateDone
<1>4. CASE StorageLosesProxy(s) \/ StorageDies(s)
  BY <1>4, ProcessEnds, NothingIsGenuine DEF ServerPath
<1>5. CASE ProxyStorageStep(s)
  <2>1. /\ UNCHANGED servers /\ UNCHANGED lateState
        /\ proxyState' = "running" => proxyState = "running"
        /\ \/ P!StorageOnClose(s)
           \/ /\ UNCHANGED <<toStorage, transferingServers>>
              /\ s \in P!Connected' <=> s \in P!Connected
    BY <1>5, ProxyHears DEF ProxyStorageStep
  <2>2. GenuineContext(s, f)' /\ (~Running(s)' => uploadingContext'[s][f] = S!NoUpload)
    BY <2>1, ContextSame DEF servers, DownForgets, Running, LateDone
  <2>3. CASE P!StorageOnClose(s)
    <3>1. PICK n \in 0 .. Len(toStorage[s]) :
            toStorage' = [toStorage EXCEPT ![s] = SubSeq(toStorage[s], 1, n)]
      BY <2>3, StorageClosed
    <3>2. toStorage'[s] = SubSeq(toStorage[s], 1, n) /\ s \notin P!Connected'
      BY <2>3, <3>1, StorageClosed DEF P!TypeOK, P!Connected
    <3> QED
      BY <2>1, <2>2, <3>2, ServerPathCut DEF servers
  <2>4. CASE /\ UNCHANGED <<toStorage, transferingServers>>
             /\ s \in P!Connected' <=> s \in P!Connected
    BY <2>1, <2>2, <2>4, ServerPathSame DEF servers, LateDone
  <2> QED
    BY <2>1, <2>3, <2>4
<1> QED
  BY <1>1, <1>2, <1>3, <1>4, <1>5 DEF StorageMoves, StorageStep

LEMMA StorageFlowPath ==
  ASSUME P!TypeOK, S!TypeOK, DownForgets, SelectedConnected, GenuineContexts,
         NEW s \in Servers, StorageMoves(s), NEW f \in Flows, NEW at \in Position, FlowPath(f, at)
  PROVE  /\ FlowPath(f, at)'
         /\ \A t \in Servers : GenuineContext(t, f)'
                               /\ (~Running(t)' => uploadingContext'[t][f] = S!NoUpload)
<1>1. GenuineContext(s, f)
  BY DEF GenuineContexts
<1>2. ServerPath(f, s, at)
  BY DEF FlowPath
<1>3. /\ ServerPath(f, s, at)' /\ GenuineContext(s, f)'
      /\ ~Running(s)' => uploadingContext'[s][f] = S!NoUpload
  BY <1>1, <1>2, MovingServerPath
<1>4. ASSUME NEW t \in Servers \ {s}
      PROVE  /\ ServerPath(f, t, at)' /\ GenuineContext(t, f)'
             /\ ~Running(t)' => uploadingContext'[t][f] = S!NoUpload
  <2>1. /\ sState'[t] = sState[t] /\ uploadingContext'[t] = uploadingContext[t]
        /\ toStorage'[t] = toStorage[t] /\ storageState'[t] = storageState[t]
        /\ t \in transferingServers'[f] <=> t \in transferingServers[f]
        /\ UNCHANGED lateState /\ (proxyState' = "running" => proxyState = "running")
    BY StorageMovesOnly
  <2>2. ServerPath(f, t, at)'
    BY <2>1, ServerPathSame DEF FlowPath, P!Connected, LateDone
  <2>3. GenuineContext(t, f)
    BY DEF GenuineContexts
  <2> QED
    BY <2>1, <2>2, <2>3, ContextSame DEF DownForgets, Running, LateDone
<1>5. ClientPath(f, at)' /\ clientState'[f] = clientState[f]
  BY StorageMovesOnly, ClientPathSame DEF FlowPath, SameClient, agents, downloaders
<1> QED
  BY <1>3, <1>4, <1>5 DEF FlowPath

----------------------------------------------------------------------------
(* Every step keeps all of it.                                             *)

ProxyServesClient(f) ==
  ProxyReadsClient(f) \/ ProxyLosesClient(f) \/ ProxyWriteFails(f) \/ ProxyReadsLate(f)
ClientSideStep(f) ==
  \/ AgentMoves(f) \/ DownloaderMoves(f) \/ Connects(f)
  \/ ProxyServesClient(f) \/ SessionDestroyed(f)

LEMMA StepKinds ==
  [Next]_vars => \/ \E f \in Flows : ClientSideStep(f)
                 \/ \E s \in Servers : StorageMoves(s)
                 \/ UNCHANGED vars
BY DEF Next, ClientSideStep, ProxyServesClient, AgentMoves, AgentStep, DownloaderMoves,
       DownloaderStep, Connects, ProxyStep, StorageMoves

LEMMA ProxyServes ==
  ASSUME P!TypeOK, A!TypeOK, SelectedConnected, LateGone, NEW f \in Flows, ProxyServesClient(f)
  PROVE  /\ ServesOnly(f) /\ SelectedConnected'
         /\ clientState[f] # "none" \/ lateState[f] # "none"
         /\ clientState[f] = "none" => clientState'[f] = "none"
         /\ UNCHANGED <<servers, agents, downloaders>>
         /\ \A g \in Flows \ {f} : fromClient'[g] = fromClient[g]
         /\ \/ UNCHANGED fromClient
            \/ fromClient[f] # <<>> /\ fromClient'[f] = Tail(fromClient[f])
            \/ fromClient'[f] = <<>>
<1>1. UNCHANGED <<servers, agents, downloaders>>
  BY DEF ProxyServesClient, ProxyReadsClient, ProxyLosesClient, ProxyWriteFails, ProxyReadsLate,
         clients
<1>2. CASE ProxyLosesClient(f) \/ ProxyWriteFails(f)
  <2>1. P!ClientOnClose(f) /\ UNCHANGED fromClient /\ LeavesLate(f)
    BY <1>2 DEF ProxyLosesClient, ProxyWriteFails, P!ClientWriteFails, LeavesLate, P!TypeOK
  <2>2. clientState[f] # "none" /\ UNCHANGED <<storageState, transferingServers>>
    BY <2>1 DEF P!ClientOnClose, P!upload, P!storages
  <2> QED
    BY <1>1, <2>1, <2>2, CloseServes DEF SelectedConnected, P!Connected
<1>3. fromClient[f] \in Seq(P!FromClientMessage)
  BY DEF A!TypeOK, A!FromClientMessage, P!FromClientMessage, A!PieceContent, P!PieceContent
<1>4. ASSUME ServesOnly(f),
             \/ transferingServers'[f] = transferingServers[f]
             \/ transferingServers'[f] \subseteq P!Connected
      PROVE  SelectedConnected'
  BY <1>4 DEF SelectedConnected, ServesOnly, P!Connected
<1>5. ASSUME NEW msg, P!StartBlock(f, msg) PROVE transferingServers'[f] \subseteq P!Connected
  BY <1>5 DEF P!StartBlock, P!kSubset, P!TypeOK
<1>6. CASE ProxyReadsClient(f)
  <2>1. /\ fromClient[f] # <<>>
        /\ fromClient' = [fromClient EXCEPT ![f] = Tail(@)] /\ clientState[f] # "none"
        /\ P!ClientHandles(f, Head(fromClient[f])) /\ UNCHANGED lateState
    BY <1>6 DEF ProxyReadsClient, P!ClientOnMessage
  <2>2. Head(fromClient[f]) \in P!FromClientMessage
    BY <1>3, <2>1
  <2>3. ServesOnly(f)
    BY <2>1, <2>2, HandlersServe DEF LeavesLate
  <2>4. \/ transferingServers'[f] = transferingServers[f]
        \/ transferingServers'[f] \subseteq P!Connected
    BY <2>1, <1>5
       DEF P!ClientHandles, P!ClientMessageError, P!ClientOnClose, P!HandleUploadRequest,
           P!HandleUploadBlock, P!TooFewServers, P!RelayPiece, P!RelayToExpired, P!Dies,
           P!HandleUploadAllBlocks, P!HandleDownloadRequest, P!HandleFileNotExist,
           P!StartDownload, P!DownloadRefused, P!NothingToTransfer,
           P!HandleTransferBlockAck, P!TransferNextBlock, P!TransferRefused,
           P!TransferEnds, P!upload
  <2> QED
    BY <1>1, <1>4, <2>1, <2>3, <2>4 DEF A!TypeOK
<1>7. CASE ProxyReadsLate(f)
  <2>1. /\ fromClient[f] # <<>>
        /\ fromClient' = [fromClient EXCEPT ![f] = <<>>]
        /\ P!LateMessage(f, Head(fromClient[f]))
    BY <1>7 DEF ProxyReadsLate
  <2>2. Head(fromClient[f]) \in P!FromClientMessage
    BY <1>3, <2>1
  <2>3. ServesOnly(f) /\ UNCHANGED clientState /\ lateState[f] # "none"
    BY <2>1, <2>2, LateServes
  <2>4. P!LateHandles(f, Head(fromClient[f]))
    BY <2>1 DEF P!LateMessage
  <2>5. \/ transferingServers'[f] = transferingServers[f]
        \/ transferingServers'[f] \subseteq P!Connected
    BY <2>4, <1>5
       DEF P!LateHandles, P!HandleUploadBlock, P!TooFewServers, P!RelayPiece, P!RelayToExpired,
           P!Dies, P!LateRecord, P!LateStart, P!NothingToTransfer, P!LateNextBlock,
           P!LateIgnored, P!upload
  <2> QED
    BY <1>1, <1>4, <2>1, <2>3, <2>5 DEF A!TypeOK
<1> QED
  BY <1>2, <1>6, <1>7 DEF ProxyServesClient

LEMMA PathsNext ==
  ASSUME P!TypeOK, S!TypeOK, AgentInv, D!TypeOK, LateGone, UploadInv, [Next]_vars
  PROVE  UploadPaths'
<1> SUFFICES ASSUME NEW g \in Flows PROVE \E at \in Position : FlowPath(g, at)'
  BY DEF UploadPaths, Position, Idle
<1>1. PICK at \in Position : FlowPath(g, at)
  BY DEF UploadInv, UploadPaths
<1>2. A!TypeOK /\ \A f \in Flows : AgentAt(f) \in Position
  BY DEF AgentInv, UploadInv, AgentPlaced
<1>3. ASSUME NEW f \in Flows, AgentMoves(f) PROVE FlowPath(g, at)'
  BY <1>1, <1>2, <1>3, AgentFlowPath, AgentMovesOnly, MovingFlowPath
<1>4. ASSUME NEW f \in Flows, DownloaderMoves(f) PROVE FlowPath(g, at)'
  BY <1>1, <1>2, <1>4, DownloaderFlowPath, DownloaderMovesOnly, MovingFlowPath DEF UploadInv
<1>5. ASSUME NEW f \in Flows, Connects(f) PROVE FlowPath(g, at)'
  BY <1>1, <1>2, <1>5, ConnectsFlowPath DEF UploadInv
<1>6. ASSUME NEW f \in Flows, ProxyServesClient(f)
      PROVE  \E next \in Position : FlowPath(g, next)'
  <2>1. /\ ServesOnly(f) /\ UNCHANGED <<servers, agents, downloaders>>
        /\ \A h \in Flows \ {f} : fromClient'[h] = fromClient[h]
    BY <1>2, <1>6, ProxyServes DEF UploadInv
  <2>2. UNCHANGED <<sState, uploadingContext>>
    BY <2>1 DEF servers
  <2>3. CASE g # f
    BY <1>1, <2>1, <2>2, <2>3, OtherFlowPath
  <2>4. CASE g = f /\ ProxyReadsClient(f)
    BY <1>1, <1>2, <2>4, ReadFlowPath DEF UploadInv
  <2>5. CASE g = f /\ (ProxyLosesClient(f) \/ ProxyWriteFails(f))
    <3>1. P!ClientOnClose(f) /\ clientState[f] \in P!ClientStates \ {"none"}
      BY <2>5 DEF ProxyLosesClient, ProxyWriteFails, P!ClientWriteFails, P!ClientOnClose, P!TypeOK
    <3>2. ~LateDone(f)
      BY <3>1 DEF LateGone, LateDone
    <3>3. lateState'[f] \in {lateState[f], clientState[f]}
      BY <2>5 DEF ProxyLosesClient, ProxyWriteFails, P!ClientWriteFails, P!TypeOK
    <3>4. ~LateDone(f)'
      BY <3>1, <3>2, <3>3 DEF LateDone, P!ClientStates
    <3> QED
      BY <1>1, <2>2, <2>5, <3>1, <3>2, <3>4, ClosedFlowPath, Places
  <2>6. CASE g = f /\ ProxyReadsLate(f)
    BY <1>1, <1>2, <2>6, LateFlowPath DEF UploadInv
  <2> QED
    BY <1>6, <2>3, <2>4, <2>5, <2>6 DEF ProxyServesClient
<1>7. ASSUME NEW s \in Servers, StorageMoves(s) PROVE FlowPath(g, at)'
  BY <1>1, <1>7, StorageFlowPath DEF UploadInv
<1>8. ASSUME (\E f \in Flows : SessionDestroyed(f)) \/ UNCHANGED vars PROVE FlowPath(g, at)'
  <2>1. /\ UNCHANGED <<servers, toStorage, proxyState, storageState, transferingServers>>
        /\ UNCHANGED <<clientState, lateState>> /\ SameClient(g)
    BY <1>8 DEF SessionDestroyed, P!Expire, P!process, P!storages, clients, agents, downloaders,
                vars, proxy,
                servers, SameClient
  <2> QED
    BY <1>1, <2>1, ServersSamePath, ClientPathSame DEF FlowPath
<1> QED
  BY <1>3, <1>4, <1>5, <1>6, <1>7, <1>8, StepKinds DEF ClientSideStep

(* The servers' memories. *)
LEMMA ContextsNext ==
  ASSUME P!TypeOK, S!TypeOK, AgentInv, D!TypeOK, LateGone, UploadInv, [Next]_vars
  PROVE  GenuineContexts' /\ DownForgets'
<1>1. \A s \in Servers, f \in Flows : GenuineContext(s, f)
  BY DEF UploadInv, GenuineContexts
<1>2. ASSUME NEW s \in Servers, StorageMoves(s)
      PROVE  \A t \in Servers, f \in Flows :
               GenuineContext(t, f)' /\ (~Running(t)' => uploadingContext'[t][f] = S!NoUpload)
  BY <1>2, StorageFlowPath DEF UploadInv, UploadPaths
<1>3. CASE \E s \in Servers : StorageMoves(s)
  <2>1. GenuineContexts'
    BY <1>2, <1>3 DEF GenuineContexts
  <2> QED
    BY <1>2, <1>3, <2>1 DEF DownForgets, S!NoUpload
<1>4. CASE ~\E s \in Servers : StorageMoves(s)
  <2>1. A!TypeOK /\ Unborn /\ SelectedConnected
    BY DEF AgentInv, UploadInv
  <2>2. \A f \in Flows : AgentAt(f) \in Position
    BY DEF UploadInv, AgentPlaced
  <2>3. UNCHANGED servers
    BY <1>4, <2>1, <2>2, StepKinds, AgentMovesOnly, DownloaderMovesOnly, ConnectsOnly, ProxyServes
       DEF ClientSideStep, ClientMoves, SessionDestroyed, vars
  <2>4. \A f \in Flows : LateDone(f) => LateDone(f)'
    <3>1. ASSUME NEW g \in Flows, ProxyServesClient(g), NEW f \in Flows, LateDone(f)
          PROVE  LateDone(f)'
      <4>1. CASE f # g
        BY <2>1, <3>1, <4>1, ProxyServes DEF ServesOnly, LateDone
      <4>2. CASE f = g
        BY <3>1, <4>2 DEF LateDone, LateGone, ProxyServesClient, ProxyReadsClient,
             ProxyLosesClient, ProxyWriteFails, ProxyReadsLate, P!ClientWriteFails,
             P!ClientOnMessage, P!LateMessage, P!ClientOnClose
      <4> QED
        BY <4>1, <4>2
    <3>2. CASE \E g \in Flows : ProxyServesClient(g)
      BY <3>1, <3>2
    <3>3. CASE ~\E g \in Flows : ProxyServesClient(g)
      <4>1. UNCHANGED lateState
        BY <1>4, <2>1, <2>2, <3>3, StepKinds, AgentMovesOnly, DownloaderMovesOnly, ConnectsOnly
           DEF ClientSideStep, ClientMoves, SessionDestroyed, P!Expire, vars, proxy
      <4> QED
        BY <4>1 DEF LateDone
    <3> QED
      BY <3>2, <3>3
  <2>5. GenuineContexts'
    BY <1>1, <2>3, <2>4, ContextSame DEF GenuineContexts, servers
  <2> QED
    BY <2>3, <2>5 DEF servers, UploadInv, DownForgets, Running, S!NoUpload
<1> QED
  BY <1>3, <1>4

(* Who is connected, and as what. *)
LEMMA ClientsNext ==
  ASSUME P!TypeOK, S!TypeOK, AgentInv, D!TypeOK, LateGone, UploadInv, [Next]_vars
  PROVE  Unborn' /\ OneRole' /\ AgentPlaced'
<1>1. /\ A!TypeOK /\ Unborn /\ OneRole /\ AgentPlaced /\ nextFlow \in Nat
      /\ \A f \in Flows : f \in Nat /\ AgentAt(f) \in Position
  BY FlowsAssumption DEF AgentInv, UploadInv, AgentPlaced, P!TypeOK
<1>2. ASSUME NEW f \in Flows, SameClient(f)
      PROVE  AgentAt(f)' = AgentAt(f)
  BY <1>2 DEF SameClient, AgentAt
<1>3. ASSUME NEW f \in Flows, AgentMoves(f) \/ DownloaderMoves(f)
      PROVE  Unborn' /\ OneRole' /\ AgentPlaced'
  <2>1. /\ ClientMoves(f) /\ AgentAt(f)' \in Position
        /\ \/ agentState[f] # "init" /\ UNCHANGED downloadState
           \/ downloadState[f] # "init" /\ UNCHANGED agentState
    <3>1. CASE AgentMoves(f)
      BY <1>1, <3>1, AgentMovesOnly
    <3>2. CASE DownloaderMoves(f)
      <4>1. ClientMoves(f) /\ downloadState[f] # "init" /\ UNCHANGED agents
        BY <1>1, <3>2, DownloaderMovesOnly
      <4> QED
        BY <1>1, <4>1 DEF agents, AgentAt
    <3> QED
      BY <1>3, <3>1, <3>2
  <2>2. UNCHANGED <<nextFlow, clientState>> /\ \A g \in Flows \ {f} : SameClient(g)
    BY <2>1 DEF ClientMoves, proxy
  <2>3. f < nextFlow
    BY <1>1, <2>1 DEF Unborn
  <2>4. Unborn'
    BY <1>1, <2>2, <2>3 DEF Unborn, SameClient
  <2>5. OneRole'
    BY <1>1, <2>1, <2>2 DEF OneRole, SameClient
  <2>6. AgentPlaced'
    BY <1>1, <1>2, <2>1, <2>2 DEF AgentPlaced, Position
  <2> QED
    BY <2>4, <2>5, <2>6
<1>4. ASSUME NEW f \in Flows, Connects(f) PROVE Unborn' /\ OneRole' /\ AgentPlaced'
  <2>1. /\ f = nextFlow /\ nextFlow' = nextFlow + 1
        /\ \A g \in Flows \ {f} : SameClient(g) /\ clientState'[g] = clientState[g]
        /\ \/ agentState'[f] = "waiting_upload_response" /\ downloadState'[f] = "init"
           \/ agentState'[f] = "init"
    BY <1>1, <1>4, ConnectsOnly
  <2>2. AgentAt(f)' \in Position
    BY <2>1, Places DEF AgentAt
  <2>3. Unborn'
    BY <1>1, <2>1 DEF Unborn, SameClient
  <2>4. OneRole'
    BY <1>1, <2>1 DEF OneRole, SameClient
  <2>5. AgentPlaced'
    BY <1>1, <1>2, <2>1, <2>2 DEF AgentPlaced, Position
  <2> QED
    BY <2>3, <2>4, <2>5
<1>5. ASSUME UNCHANGED <<agents, downloaders>>,
             \/ UNCHANGED <<nextFlow, clientState, fromClient>>
             \/ \E f \in Flows :
                  /\ clientState[f] # "none" \/ lateState[f] # "none"
                  /\ clientState[f] = "none" => clientState'[f] = "none"
                  /\ UNCHANGED nextFlow
                  /\ \A g \in Flows \ {f} :
                       clientState'[g] = clientState[g] /\ fromClient'[g] = fromClient[g]
      PROVE  Unborn' /\ OneRole' /\ AgentPlaced'
  <2>1. Unborn'
    BY <1>1, <1>5 DEF Unborn, LateGone, agents, downloaders
  <2>2. OneRole' /\ AgentPlaced'
    BY <1>1, <1>5 DEF OneRole, AgentPlaced, AgentAt, Position, Idle, agents, downloaders
  <2> QED
    BY <2>1, <2>2
<1>6. ASSUME NEW f \in Flows, ProxyServesClient(f)
      PROVE  Unborn' /\ OneRole' /\ AgentPlaced'
  BY <1>1, <1>5, <1>6, ProxyServes DEF ServesOnly, UploadInv
<1>7. ASSUME NEW s \in Servers, StorageMoves(s) PROVE Unborn' /\ OneRole' /\ AgentPlaced'
  BY <1>5, <1>7, StorageMovesOnly
<1>8. ASSUME (\E f \in Flows : SessionDestroyed(f)) \/ UNCHANGED vars
      PROVE  Unborn' /\ OneRole' /\ AgentPlaced'
  BY <1>5, <1>8 DEF SessionDestroyed, P!Expire, P!process, clients, vars, proxy
<1> QED
  BY <1>3, <1>4, <1>6, <1>7, <1>8, StepKinds DEF ClientSideStep

LEMMA SelectedNext ==
  ASSUME P!TypeOK, S!TypeOK, AgentInv, D!TypeOK, LateGone, UploadInv, [Next]_vars
  PROVE  SelectedConnected'
<1>1. A!TypeOK /\ Unborn /\ SelectedConnected /\ \A f \in Flows : AgentAt(f) \in Position
  BY DEF AgentInv, UploadInv, AgentPlaced
<1>2. ASSUME UNCHANGED <<storageState, transferingServers>> PROVE SelectedConnected'
  BY <1>1, <1>2 DEF SelectedConnected, P!Connected
<1>3. ASSUME NEW f \in Flows, ClientSideStep(f) PROVE SelectedConnected'
  <2>1. CASE ProxyServesClient(f)
    BY <1>1, <2>1, ProxyServes
  <2>2. CASE AgentMoves(f) \/ DownloaderMoves(f)
    BY <1>1, <1>2, <2>2, AgentMovesOnly, DownloaderMovesOnly DEF ClientMoves, proxy
  <2>3. CASE Connects(f)
    BY <1>1, <1>2, <2>3, ConnectsOnly
  <2>4. CASE SessionDestroyed(f)
    BY <1>2, <2>4 DEF SessionDestroyed, P!Expire, P!storages
  <2> QED
    BY <1>3, <2>1, <2>2, <2>3, <2>4 DEF ClientSideStep
<1>4. ASSUME NEW s \in Servers, StorageMoves(s) PROVE SelectedConnected'
  <2>1. CASE ServerConnects(s)
    BY <1>1, <2>1 DEF ServerConnects, P!StorageOnConnection, P!upload, SelectedConnected,
                      P!Connected, P!TypeOK
  <2>2. CASE StorageStep(s) \/ StorageDies(s)
    BY <1>2, <2>2 DEF StorageStep, StorageReads, StorageWrote, StorageLosesProxy, StorageDies,
                      proxy
  <2>3. CASE ProxyStorageStep(s)
    <3>1. CASE P!StorageOnClose(s)
      BY <1>1, <3>1, StorageClosed DEF SelectedConnected, P!Connected, P!TypeOK
    <3>2. CASE ~P!StorageOnClose(s)
      BY <1>1, <2>3, <3>2, ProxyHears DEF ProxyStorageStep, SelectedConnected, P!Connected
    <3> QED
      BY <3>1, <3>2
  <2> QED
    BY <1>4, <2>1, <2>2, <2>3 DEF StorageMoves
<1> QED
  BY <1>2, <1>3, <1>4, StepKinds DEF vars, proxy

(* What the clients have said. *)
LEMMA PiecesNext ==
  ASSUME P!TypeOK, S!TypeOK, AgentInv, D!TypeOK, LateGone, UploadInv, [Next]_vars
  PROVE  ClientsSayPieces'
<1> SUFFICES ASSUME NEW g \in Flows PROVE SaysPieces(g)'
  BY DEF ClientsSayPieces
<1>1. /\ A!TypeOK /\ Unborn /\ SelectedConnected /\ SaysPieces(g)
      /\ \A f \in Flows : AgentAt(f) \in Position
  BY DEF AgentInv, UploadInv, AgentPlaced, ClientsSayPieces
<1>2. fromClient[g] \in Seq(A!FromClientMessage)
  BY <1>1 DEF A!TypeOK
<1>3. ASSUME NEW q, fromClient'[g] = q,
             \A i \in DOMAIN q : q[i].type = "upload_block" =>
               \E j \in DOMAIN fromClient[g] : q[i] = fromClient[g][j]
      PROVE  SaysPieces(g)'
  BY <1>1, <1>3 DEF SaysPieces, Piece, PieceOf, AlteredContent
<1>4. ASSUME fromClient'[g] = fromClient[g] PROVE SaysPieces(g)'
  BY <1>3, <1>4
<1>5. ASSUME NEW f \in Flows, AgentMoves(f) PROVE SaysPieces(g)'
  BY <1>1, <1>4, <1>5, AgentMovesOnly, AgentSaysPieces DEF ClientMoves, SameClient
<1>6. ASSUME NEW f \in Flows, DownloaderMoves(f) PROVE SaysPieces(g)'
  <2>1. CASE f # g
    BY <1>1, <1>4, <1>6, <2>1, DownloaderMovesOnly DEF ClientMoves, SameClient
  <2>2. CASE f = g
    <3>1. \/ fromClient'[g] = fromClient[g]
          \/ \E m : fromClient'[g] = Append(fromClient[g], D!TransferBlockAck(m))
          \/ \E n \in 0 .. Len(fromClient[g]) : fromClient'[g] = SubSeq(fromClient[g], 1, n)
      BY <1>1, <1>6, <2>2, DownloaderMovesOnly
    <3>2. ASSUME NEW m, fromClient'[g] = Append(fromClient[g], D!TransferBlockAck(m))
          PROVE  SaysPieces(g)'
      <4>1. \A i \in DOMAIN Append(fromClient[g], D!TransferBlockAck(m)) :
              \/ Append(fromClient[g], D!TransferBlockAck(m))[i] = D!TransferBlockAck(m)
              \/ /\ i \in DOMAIN fromClient[g]
                 /\ Append(fromClient[g], D!TransferBlockAck(m))[i] = fromClient[g][i]
        BY <1>2
      <4>2. D!TransferBlockAck(m).type # "upload_block"
        BY DEF D!TransferBlockAck
      <4> QED
        BY <1>3, <3>2, <4>1, <4>2
    <3>3. ASSUME NEW n \in 0 .. Len(fromClient[g]), fromClient'[g] = SubSeq(fromClient[g], 1, n)
          PROVE  SaysPieces(g)'
      <4>1. \A i \in DOMAIN SubSeq(fromClient[g], 1, n) :
              i \in DOMAIN fromClient[g] /\ SubSeq(fromClient[g], 1, n)[i] = fromClient[g][i]
        BY <1>2
      <4> QED
        BY <1>3, <3>3, <4>1
    <3> QED
      BY <1>4, <3>1, <3>2, <3>3
  <2> QED
    BY <2>1, <2>2
<1>7. ASSUME NEW f \in Flows, Connects(f) PROVE SaysPieces(g)'
  <2>1. CASE f # g
    BY <1>1, <1>4, <1>7, <2>1, ConnectsOnly DEF SameClient
  <2>2. CASE f = g
    <3>1. PICK msg : /\ fromClient'[g] = <<msg>>
                     /\ msg.type \in {"upload_request", "download_request"}
      BY <1>1, <1>7, <2>2, ConnectsOnly
    <3> QED
      BY <1>3, <3>1
  <2> QED
    BY <2>1, <2>2
<1>8. ASSUME NEW f \in Flows, ProxyServesClient(f) PROVE SaysPieces(g)'
  <2>1. CASE f # g
    BY <1>1, <1>4, <1>8, <2>1, ProxyServes
  <2>2. CASE f = g
    <3>1. \/ UNCHANGED fromClient
          \/ fromClient[g] # <<>> /\ fromClient'[g] = Tail(fromClient[g])
          \/ fromClient'[g] = <<>>
      BY <1>1, <1>8, <2>2, ProxyServes
    <3>2. CASE fromClient[g] # <<>> /\ fromClient'[g] = Tail(fromClient[g])
      <4>1. \A i \in DOMAIN Tail(fromClient[g]) :
              i + 1 \in DOMAIN fromClient[g] /\ Tail(fromClient[g])[i] = fromClient[g][i + 1]
        BY <1>2, <3>2
      <4> QED
        BY <1>3, <3>2, <4>1
    <3>3. CASE fromClient'[g] = <<>>
      BY <1>3, <3>3
    <3> QED
      BY <1>4, <3>1, <3>2, <3>3
  <2> QED
    BY <2>1, <2>2
<1>9. ASSUME (\E s \in Servers : StorageMoves(s)) \/ (\E f \in Flows : SessionDestroyed(f))
             \/ UNCHANGED vars
      PROVE  SaysPieces(g)'
  BY <1>4, <1>9, StorageMovesOnly DEF SessionDestroyed, vars
<1> QED
  BY <1>5, <1>6, <1>7, <1>8, <1>9, StepKinds DEF ClientSideStep

LEMMA UploadNext == SystemInv /\ UploadInv /\ [Next]_vars => UploadInv'
<1> SUFFICES ASSUME SystemInv, UploadInv, [Next]_vars PROVE UploadInv'
  OBVIOUS
<1>1. P!TypeOK /\ S!TypeOK /\ AgentInv /\ D!TypeOK /\ LateGone
  BY SystemTypes, SystemLate DEF SystemInv
<1> QED
  BY <1>1, PathsNext, ContextsNext, ClientsNext, SelectedNext, PiecesNext DEF UploadInv

LEMMA UploadInit == Init => UploadInv
<1> SUFFICES ASSUME Init PROVE UploadInv
  OBVIOUS
<1>1. /\ \A f \in Flows :
           /\ agentState[f] = "init" /\ downloadState[f] = "init" /\ fromClient[f] = <<>>
           /\ clientState[f] = "none" /\ transferingServers[f] = {}
      /\ \A s \in Servers : /\ sState[s] = "down" /\ storageState[s] = "none"
                            /\ \A f \in Flows : uploadingContext[s][f] = S!NoUpload
  BY DEF Init, P!Init, S!Init, A!Init, D!Init
<1>2. Unborn /\ SelectedConnected /\ OneRole /\ DownForgets
  BY <1>1 DEF Unborn, SelectedConnected, OneRole, DownForgets
<1>3. AgentPlaced
  BY <1>1, Places DEF AgentPlaced, AgentAt
<1>4. GenuineContexts /\ ClientsSayPieces
  BY <1>1 DEF GenuineContexts, GenuineContext, ClientsSayPieces, SaysPieces, S!NoUpload
<1>5. UploadPaths
  <2>1. \A f \in Flows : FlowPath(f, Idle)
    BY <1>1 DEF FlowPath, ClientPath, ServerPath, Running
  <2> QED
    BY <2>1, Places DEF UploadPaths
<1> QED
  BY <1>2, <1>3, <1>4, <1>5 DEF UploadInv

(* Whoever dies, comes back or is killed: what a server has of a flow's    *)
(* block is the start of that block, in order and without a gap, and of    *)
(* no other block or client (the relay of handleUploadBlock, the contexts  *)
(* of handleUploadBlock in storage_server.cpp and their cleaning); but for *)
(* the one piece, under no block's name, that may be left of a client      *)
(* whose last message was handled after its connection was closed          *)
(* (session.cpp runs its onMessage after the onClose of a failed write).   *)
THEOREM ContextsArePrefixes == Spec => []ContextIsPrefix
<1>1. UploadInv => ContextIsPrefix
  BY ContextByFlow DEF UploadInv
<1> QED
  BY <1>1, SystemInit, SystemNext, UploadInit, UploadNext, PTL DEF Spec

----------------------------------------------------------------------------
(* Every upload begun is ended.                                            *)

(* A set of numbers has a least one: the library's theorem on well-founded *)
(* relations, of <.                                                        *)
LEMMA LeastOf ==
  ASSUME NEW T \in SUBSET Nat, T # {} PROVE \E least \in T : \A i \in T : least <= i
<1> DEFINE less == {pair \in Nat \X Nat : pair[1] < pair[2]}
<1>1. IsWellFoundedOn(less, Nat)
  BY NatLessThanWellFounded DEF OpToRel
<1>2. \A i, j \in Nat : i < j => <<i, j>> \in less
  OBVIOUS
<1> HIDE DEF less
<1>3. PICK least \in T : \A i \in T : ~(<<i, least>> \in less)
  BY <1>1, WFMin
<1>4. \A i \in T : least <= i
  <2> TAKE i \in T
  <2>1. i \in Nat /\ least \in Nat /\ ~(i < least)
    BY <1>2, <1>3
  <2> QED
    BY <2>1
<1> QED
  BY <1>4

(* A path that leads back within a block, or out of it, ends the block. *)
LEMMA PathEnds ==
  ASSUME NEW late, NEW f, NEW id, NEW M, NEW q \in Seq(M), NEW from \in Position, from # Idle,
         NEW to, Path(late, f, id, from, q, to), to.index < from.index
  PROVE  \E i \in DOMAIN q :
           \/ About(q[i], id, "client_clean")
           \/ About(q[i], id, "upload_block") /\ q[i].eof
<1> DEFINE n == Len(q)
<1>1. PICK p \in [0 .. n -> Position] :
        /\ p[0] = from /\ p[n] = to
        /\ \A i \in 1 .. n : Moves(late, f, id, p[i - 1], q[i], p[i])
  BY DEF Path
<1>2. \A at \in Position : at.index \in Nat /\ (at.index = 0 <=> at = Idle)
  BY PiecesAssumption DEF Position, Idle, Lost
<1> DEFINE over == {i \in 0 .. n : p[i].index < from.index}
<1>3. over \in SUBSET Nat /\ over # {}
  BY <1>1
<1>4. PICK i \in over : \A j \in over : i <= j
  BY <1>3, LeastOf
<1>5. i \in 1 .. n /\ p[i] \in Position /\ p[i - 1] \in Position /\ p[i].index < p[i - 1].index
  <2>1. from.index \in Nat
    BY <1>2
  <2>2. i \in 0 .. n /\ i # 0
    BY <1>1, <1>4, <2>1
  <2>3. i - 1 \in 0 .. n /\ i - 1 < i
    BY <2>2
  <2>4. i - 1 \notin over
    BY <1>4, <2>2, <2>3
  <2>5. p[i] \in Position /\ p[i - 1] \in Position
    BY <2>2, <2>3
  <2>6. p[i].index < from.index /\ ~(p[i - 1].index < from.index)
    BY <1>4, <2>3, <2>4
  <2> QED
    BY <1>2, <2>1, <2>2, <2>5, <2>6
<1> HIDE DEF over
<1>6. Moves(late, f, id, p[i - 1], q[i], p[i])
  BY <1>1, <1>5
<1>7. p[i - 1].index \in Nat /\ p[i].index \in Nat /\ Idle.index = 0
  BY <1>2, <1>5 DEF Idle
<1>8. ASSUME Piece(f, q[i]), p[i - 1] = Before(q[i]), p[i] = After(q[i]) PROVE q[i].eof
  <2>1. q[i].index \in Nat
    BY <1>8, PiecesAssumption DEF Piece
  <2>2. p[i - 1].index = q[i].index
    BY <1>8 DEF Before, Idle
  <2>3. ~q[i].eof => p[i].index = q[i].index + 1
    BY <1>8 DEF After
  <2> QED
    BY <1>5, <2>1, <2>2, <2>3
<1>9. i \in DOMAIN q
  BY <1>5
<1>10. p[i] # p[i - 1] /\ p[i - 1] # Idle
  BY <1>5, <1>7
<1> QED
  BY <1>6, <1>8, <1>9, <1>10 DEF Moves

(* A server keeps what it has of a block only while something will end it: *)
(* the client is connected, or the last piece or the message that the      *)
(* client is gone is on its way (the clientOnClose of proxy.cpp tells      *)
(* every server, handleClientClean of storage_server.cpp forgets), or the  *)
(* proxy has dropped the server, whose process then ends.  Nothing ends    *)
(* what is left, at most one piece, of a client whose last message was     *)
(* handled after its connection was closed.                                *)
THEOREM NoContextIsOrphaned == Spec => []NoOrphanContexts
<1>1. SystemInv /\ UploadInv => NoOrphanContexts
  <2> SUFFICES ASSUME SystemInv, UploadInv, NEW s \in Servers, NEW f \in Flows,
                      uploadingContext[s][f].content # <<>>,
                      proxyState = "running", s \in P!Connected, clientState[f] = "none",
                      ~LatePiece(f, uploadingContext[s][f].content)
               PROVE  \/ ClientClean(f) \in Sent(toStorage[s], "client_clean")
                      \/ \E msg \in PiecesFor(f, s) : msg.eof
    BY DEF NoOrphanContexts, P!Connected
  <2>1. S!TypeOK /\ toStorage[s] \in Seq(P!ToStorageMessage)
    BY SystemTypes DEF P!TypeOK
  <2>2. Running(s)
    BY DEF UploadInv, DownForgets, S!NoUpload
  <2>3. PICK at \in Position : FlowPath(f, at)
    BY DEF UploadInv, UploadPaths
  <2>4. at = Idle
    BY <2>3 DEF FlowPath
  <2>5. PICK to \in Position :
          Path(LateDone(f), f, f, ContextAt(s, f), toStorage[s], to) /\ PathEnd(f, s, at, to)
    BY <2>2, <2>3 DEF FlowPath, ServerPath
  <2>6. ContextAt(s, f) # Idle /\ ContextAt(s, f) \in Position
    BY <2>1, <2>5, ContextPlaced, PathStart
  <2>7. to.index < ContextAt(s, f).index
    <3>1. /\ ContextAt(s, f).index = Len(uploadingContext[s][f].content)
          /\ Len(uploadingContext[s][f].content) \in Nat \ {0}
      BY <2>1, ContextPlaced
    <3>2. CASE LateDone(f)
      <4>1. Len(uploadingContext[s][f].content) # 1 /\ to.index <= 1
        BY <2>5, <3>2 DEF LateDone, LatePiece, PathEnd
      <4>2. to.index \in Nat
        BY PiecesAssumption DEF Position, Idle, Lost
      <4>3. PICK n \in Nat \ {0} :
              n = Len(uploadingContext[s][f].content) /\ ContextAt(s, f).index = n
        BY <3>1
      <4>4. n # 1
        BY <4>1, <4>3
      <4>5. PICK k \in Nat : k = to.index /\ k <= 1
        BY <4>1, <4>2
      <4>6. k < n
        BY <4>4, <4>5
      <4> QED
        BY <4>3, <4>5, <4>6
    <3>3. CASE ~LateDone(f)
      <4>1. to.index = 0
        BY <2>4, <2>5, <3>3 DEF PathEnd, Idle
      <4> QED
        BY <3>1, <4>1
    <3> QED
      BY <3>2, <3>3
  <2>8. PICK i \in DOMAIN toStorage[s] :
          \/ About(toStorage[s][i], f, "client_clean")
          \/ About(toStorage[s][i], f, "upload_block") /\ toStorage[s][i].eof
    BY <2>1, <2>5, <2>6, <2>7, PathEnds
  <2>9. toStorage[s][i] \in P!ToStorageMessage
    BY <2>1
  <2>10. CASE About(toStorage[s][i], f, "client_clean")
    <3>1. toStorage[s][i] = ClientClean(f)
      BY <2>9, <2>10 DEF About, ClientClean, P!ToStorageMessage, P!UploadBlockMessage,
                         P!DownLoadBlockMessage, P!ClientCleanMessage
    <3> QED
      BY <2>10, <3>1 DEF Sent, About
  <2>11. CASE About(toStorage[s][i], f, "upload_block") /\ toStorage[s][i].eof
    BY <2>11 DEF PiecesFor, Sent, About
  <2> QED
    BY <2>8, <2>10, <2>11
<1> QED
  BY <1>1, SystemInit, SystemNext, UploadInit, UploadNext, PTL DEF Spec
==============================================================================
