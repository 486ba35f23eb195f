------------------------------ MODULE StoreProofs ------------------------------
(***************************************************************************)
(* Theorems about what the system promises to those who store files: the   *)
(* files recorded are on the disks, no server's answer is left over, and   *)
(* FileStorage.tla implements FileStore.tla.                               *)
(*                                                                         *)
(* They are for a block that goes to one server, the value of              *)
(* "block_backup_count" in the configuration of the proxy; with two copies *)
(* CalledBackWhenAnswered is false, as the first answer is taken for that  *)
(* of both.                                                                *)
(*                                                                         *)
(* Two invariants carry the argument.  TokenInv: the first piece of a      *)
(* block asks for one answer, so of the piece on its way to the proxy, the *)
(* callback at the server and the answer on its way back there is one at   *)
(* most, and it is about the block the agent has in hand.  StoreInv: what  *)
(* the messages of a flow say of the store is true, and stays true as the  *)
(* disks only grow: an agent that was acknowledged block after block knows *)
(* at the end that none is missing, on which the proxy relies.             *)
(***************************************************************************)
EXTENDS UploadProofs

(* The tokens of a queue: what asks for an answer about a block, or is one.*)
IsToken(msg) ==
  \/ msg.type = "upload_block" /\ TheFirstBlockPiece(msg)
  \/ msg.type \in {"upload_block_ack", "upload_block_fail"}
Quiet(q) == \A i \in DOMAIN q : ~IsToken(q[i])
Single(q) == \A i, j \in DOMAIN q : IsToken(q[i]) /\ IsToken(q[j]) => i = j
TokensIn(q, blocks) == \A i \in DOMAIN q : IsToken(q[i]) => q[i].md5 \in blocks

(* The servers that owe flow f an answer, each with the block it is about, *)
(* and the block the agent has in hand.                                    *)
Votes(f) == {vote \in Servers \X P!AnyMd5 : f \in blockAckCallbacks[vote[1]][vote[2]]}
InBlock(f) == agentState[f] \in {"uploading_blocks", "waiting_block_ack"}
Current(f) == IF InBlock(f) THEN {uploadMd5s[f][uploadingIndex[f]]} ELSE {}

OneToken(f) ==
  /\ Single(fromClient[f]) /\ Single(toClient[f])
  /\ \A vote, other \in Votes(f) : vote = other
  /\ Quiet(fromClient[f]) \/ (Votes(f) = {} /\ Quiet(toClient[f]))
  /\ Votes(f) = {} \/ (Quiet(toClient[f]) /\ ~answered[f])
TokensCurrent(f) ==
  /\ TokensIn(fromClient[f], Current(f)) /\ TokensIn(toClient[f], Current(f))
  /\ \A vote \in Votes(f) : vote[2] \in Current(f)

FlowToken(f) ==
  /\ OneToken(f) /\ (A!Alive(f) => TokensCurrent(f))
  /\ f >= nextFlow => Votes(f) = {} /\ toClient[f] = <<>>
TokenInv == \A f \in Flows : FlowToken(f)

(* The blocks the store has, those of a client's file that it does not,    *)
(* and those its agent is still to upload.                                 *)
Blocks == UNION {md5_path[s] : s \in Servers}
Needed(f) == Range(fileMd5s[f]) \ Blocks
Left(f) == {uploadMd5s[f][k] : k \in uploadingIndex[f] .. Len(uploadMd5s[f])}

(* What the messages between an agent and the proxy say of the store.      *)
FromAgent(f, msg) ==
  /\ msg.type \in {"upload_request", "upload_block", "upload_all_blocks"} =>
       agentState[f] # "init"
  /\ msg.type = "upload_request" => msg.md5s = fileMd5s[f]
  /\ msg.type = "upload_block" => msg.md5 \in Range(fileMd5s[f])
  /\ msg.type = "upload_all_blocks" => Needed(f) = {}
ToAgent(f, msg) ==
  /\ msg.type = "upload_response" =>
       Needed(f) \subseteq Range(msg.md5s) /\ Range(msg.md5s) \subseteq Range(fileMd5s[f])
  /\ msg.type = "upload_block_ack" => msg.md5 \in Blocks
  /\ msg.type = "file_storage_succ" => fileMd5s[f] \in idStorage
ToServer(f, msg) ==
  msg.type = "upload_block" /\ msg.flow_id = f =>
    agentState[f] # "init" /\ msg.md5 \in Range(fileMd5s[f])

Said(f) == \A msg \in Range(fromClient[f]) : FromAgent(f, msg)
Told(f) == agentState[f] # "init" => \A msg \in Range(toClient[f]) : ToAgent(f, msg)
Asked(f) ==
  "waiting_upload_block" \in {clientState[f], lateState[f]} =>
    agentState[f] # "init" /\ uploadingMd5s[f] = fileMd5s[f]
Passed(f) == \A s \in Servers : \A msg \in Range(toStorage[s]) : ToServer(f, msg)
Done(f) ==
  /\ InBlock(f) => Needed(f) \subseteq Left(f) /\ Left(f) \subseteq Range(fileMd5s[f])
  /\ agentState[f] = "waiting_final_result" => Needed(f) = {}
  /\ agentState[f] = "succ" => fileMd5s[f] \in idStorage
FlowStore(f) == Said(f) /\ Told(f) /\ Asked(f) /\ Passed(f) /\ Done(f)

DiskOf(s) ==
  \A m \in Md5s : /\ file[s][m] <= Pieces[m]
                  /\ MayTear = FALSE /\ m \in md5_path[s] => file[s][m] = Pieces[m]
StoreInv ==
  /\ \A f \in Flows : FlowStore(f)
  /\ \A id \in idStorage : Range(id) \subseteq Blocks
  /\ \A s \in Servers : DiskOf(s)
BothInv == TokenInv /\ StoreInv

----------------------------------------------------------------------------
(* Tokens: in a queue one message longer, shorter, or cut.                 *)

(* r has no token that is not one of q. *)
NoMore(q, r) ==
  /\ Quiet(q) => Quiet(r)
  /\ Single(q) => Single(r)
  /\ \A blocks : TokensIn(q, blocks) => TokensIn(r, blocks)

LEMMA ShiftTokens ==
  ASSUME NEW M, NEW q \in Seq(M), NEW r \in Seq(M), NEW shift \in Nat,
         Len(r) + shift <= Len(q), \A i \in DOMAIN r : r[i] = q[i + shift]
  PROVE  NoMore(q, r)
<1>1. \A i \in DOMAIN r : i + shift \in DOMAIN q /\ r[i] = q[i + shift] /\ i \in Nat
  OBVIOUS
<1>2. \A i, j \in DOMAIN r : i + shift = j + shift => i = j
  BY <1>1
<1>3. Quiet(q) => Quiet(r)
  BY <1>1 DEF Quiet
<1>4. Single(q) => Single(r)
  BY <1>1, <1>2 DEF Single
<1>5. \A blocks : TokensIn(q, blocks) => TokensIn(r, blocks)
  BY <1>1 DEF TokensIn
<1> QED
  BY <1>3, <1>4, <1>5 DEF NoMore

LEMMA TailTokens ==
  ASSUME NEW M, NEW q \in Seq(M), q # <<>>
  PROVE  /\ NoMore(q, Tail(q))
         /\ IsToken(Head(q)) /\ Single(q) => ~Quiet(q) /\ Quiet(Tail(q))
<1> DEFINE r == Tail(q)
<1>1. r \in Seq(M) /\ Len(r) + 1 = Len(q) /\ \A i \in DOMAIN r : r[i] = q[i + 1]
  OBVIOUS
<1>2. 1 \in DOMAIN q /\ Head(q) = q[1]
  OBVIOUS
<1>3. \A i \in DOMAIN r : i + 1 \in DOMAIN q /\ i + 1 # 1
  BY <1>1
<1> HIDE DEF r
<1>4. NoMore(q, r)
  BY SMTT(60), <1>1, ShiftTokens
<1>5. IsToken(Head(q)) /\ Single(q) => ~Quiet(q) /\ Quiet(r)
  BY <1>1, <1>2, <1>3 DEF Quiet, Single
<1> QED
  BY <1>4, <1>5 DEF r

LEMMA PartTokens ==
  ASSUME NEW M, NEW q \in Seq(M), NEW n \in 0 .. Len(q)
  PROVE  NoMore(q, SubSeq(q, 1, n))
<1> DEFINE r == SubSeq(q, 1, n)
<1>1. r \in Seq(M) /\ Len(r) + 0 <= Len(q) /\ \A i \in DOMAIN r : r[i] = q[i + 0]
  OBVIOUS
<1> HIDE DEF r
<1>2. NoMore(q, r)
  BY <1>1, ShiftTokens
<1> QED
  BY <1>2 DEF r

LEMMA AppendTokens ==
  ASSUME NEW M, NEW q \in Seq(M), NEW msg
  PROVE  /\ ~IsToken(msg) => NoMore(q, Append(q, msg))
         /\ Quiet(q) => Single(Append(q, msg))
         /\ \A blocks : TokensIn(q, blocks) /\ (IsToken(msg) => msg.md5 \in blocks)
              => TokensIn(Append(q, msg), blocks)
<1> DEFINE n == Len(q)
           r == Append(q, msg)
<1>1. /\ DOMAIN r = 1 .. n + 1 /\ DOMAIN q = 1 .. n /\ n \in Nat
      /\ r[n + 1] = msg /\ \A i \in 1 .. n : r[i] = q[i]
  OBVIOUS
<1>2. \A i \in DOMAIN r : (i \in DOMAIN q /\ r[i] = q[i]) \/ (i = n + 1 /\ r[i] = msg)
  BY <1>1
<1> HIDE DEF r, n
<1>3. ~IsToken(msg) => NoMore(q, r)
  BY <1>2 DEF NoMore, Quiet, Single, TokensIn
<1>4. Quiet(q) => Single(r)
  BY <1>2 DEF Quiet, Single
<1>5. \A blocks : TokensIn(q, blocks) /\ (IsToken(msg) => msg.md5 \in blocks) => TokensIn(r, blocks)
  BY <1>2 DEF TokensIn
<1> QED
  BY <1>3, <1>4, <1>5 DEF r

LEMMA NoMoreSame == ASSUME NEW q PROVE NoMore(q, q)
BY DEF NoMore

LEMMA NoneInNone ==
  ASSUME NEW q, TokensIn(q, {}) PROVE Quiet(q)
BY DEF TokensIn, Quiet

----------------------------------------------------------------------------
(* The steps of a client.                                                  *)

(* A step that gives flow f no token.                                      *)
NoNewToken(f) ==
  /\ NoMore(fromClient[f], fromClient'[f]) /\ NoMore(toClient[f], toClient'[f])
  /\ Votes(f)' \subseteq Votes(f)
  /\ answered'[f] = answered[f] \/ Votes(f)' = {}
  /\ A!Alive(f)' => A!Alive(f) /\ Current(f)' = Current(f)
  /\ f >= nextFlow' => f >= nextFlow /\ toClient'[f] = <<>>

LEMMA TokenKept ==
  ASSUME NEW f \in Flows, FlowToken(f), NoNewToken(f)
  PROVE  FlowToken(f)'
<1>1. OneToken(f)'
  <2>1. OneToken(f)
    BY DEF FlowToken, NoNewToken
  <2>2. /\ Quiet(fromClient[f]) => Quiet(fromClient'[f])
        /\ Single(fromClient[f]) => Single(fromClient'[f])
    BY DEF NoNewToken, NoMore
  <2>3. (Quiet(toClient[f]) => Quiet(toClient'[f])) /\ (Single(toClient[f]) => Single(toClient'[f]))
    BY DEF NoNewToken, NoMore
  <2> QED
    BY <2>1, <2>2, <2>3 DEF OneToken, NoNewToken, Quiet, Single
<1>2. ASSUME A!Alive(f)' PROVE TokensCurrent(f)'
  <2>1. TokensCurrent(f) /\ Current(f)' = Current(f)
    BY <1>2 DEF FlowToken, NoNewToken
  <2>2. TokensIn(fromClient'[f], Current(f)) /\ TokensIn(toClient'[f], Current(f))
    BY <2>1 DEF TokensCurrent, NoNewToken, NoMore
  <2>3. \A vote \in Votes(f)' : vote[2] \in Current(f)'
    BY <2>1 DEF TokensCurrent, NoNewToken
  <2> QED
    BY <2>1, <2>2, <2>3 DEF TokensCurrent, TokensIn
<1>3. f >= nextFlow' => Votes(f)' = {} /\ toClient'[f] = <<>>
  BY DEF FlowToken, NoNewToken
<1> QED
  BY <1>1, <1>2, <1>3 DEF FlowToken

(* A step that gives a flow without tokens one. *)
LEMMA TokenGiven ==
  ASSUME A!TypeOK, NEW f \in Flows, Quiet(fromClient[f]), Quiet(toClient'[f]), Votes(f)' = {},
         NEW msg, fromClient'[f] = Append(fromClient[f], msg),
         IsToken(msg) => msg.md5 \in Current(f)', f >= nextFlow' => toClient'[f] = <<>>
  PROVE  FlowToken(f)'
<1>1. fromClient[f] \in Seq(A!FromClientMessage)
  BY DEF A!TypeOK
<1>2. Single(fromClient'[f])
  BY <1>1, AppendTokens
<1>3. Single(toClient'[f]) /\ \A blocks : TokensIn(toClient'[f], blocks)
  BY DEF Quiet, Single, TokensIn
<1>4. OneToken(f)'
  BY <1>2, <1>3 DEF OneToken, Single, Quiet
<1>5. PICK blocks : blocks = Current(f)'
  OBVIOUS
<1>6. TokensIn(fromClient[f], blocks)
  BY DEF Quiet, TokensIn
<1>7. TokensIn(fromClient'[f], blocks)
  BY <1>1, <1>5, <1>6, AppendTokens
<1>8. TokensCurrent(f)'
  BY <1>3, <1>5, <1>7 DEF TokensCurrent, TokensIn
<1> QED
  BY <1>4, <1>8 DEF FlowToken

LEMMA SendBlockPieceTokens ==
  ASSUME A!TypeOK, NEW f \in Flows, NEW md5s, NEW k, NEW i \in Nat,
         A!SendBlockPiece(f, md5s, k, i), uploadMd5s'[f] = md5s, uploadingIndex'[f] = k
  PROVE  /\ InBlock(f)' /\ Current(f)' = {md5s[k]}
         /\ \E msg : /\ fromClient'[f] = Append(fromClient[f], msg)
                     /\ msg.type = "upload_block" /\ msg.md5 = md5s[k]
                     /\ IsToken(msg) => i = 0
<1> DEFINE m == md5s[k]
           eof == i + 1 = Pieces[m]
<1>1. PICK content : A!Send(f, A!UploadBlock(m, i, eof, content))
  BY DEF A!SendBlockPiece
<1>2. agentState'[f] \in {"waiting_block_ack", "uploading_blocks"}
  BY DEF A!SendBlockPiece, A!SetState, A!TypeOK
<1> HIDE DEF eof, m
<1> DEFINE msg == A!UploadBlock(m, i, eof, content)
<1>3. msg.type = "upload_block" /\ msg.md5 = m /\ msg.index = i
  BY DEF A!UploadBlock
<1>4. fromClient'[f] = Append(fromClient[f], msg)
  BY <1>1 DEF A!Send, A!TypeOK
<1> HIDE DEF msg
<1>5. IsToken(msg) => i = 0
  BY <1>3 DEF IsToken, TheFirstBlockPiece
<1>6. InBlock(f)' /\ Current(f)' = {m}
  BY <1>2 DEF Current, InBlock, m
<1> QED
  BY <1>3, <1>4, <1>5, <1>6 DEF m

(* An agent starts a block, or says that it has none left, when nothing is *)
(* on its way about the block before.                                      *)
LEMMA AgentStartsToken ==
  ASSUME AgentInv, NEW f \in Flows, NEW msg \in P!ClientMessage,
         A!OnUploadResponse(f, msg) \/ A!OnUploadBlockAck(f, msg)
  PROVE  /\ A!Alive(f)
         /\ Current(f) = {} \/ IsToken(msg)
         /\ \E sent : /\ fromClient'[f] = Append(fromClient[f], sent)
                      /\ IsToken(sent) => sent.md5 \in Current(f)'
<1>1. A!TypeOK
  BY DEF AgentInv
<1>2. ASSUME A!SendUploadAllBlocks(f)
      PROVE  \E sent : /\ fromClient'[f] = Append(fromClient[f], sent)
                       /\ IsToken(sent) => sent.md5 \in Current(f)'
  <2>1. fromClient'[f] = Append(fromClient[f], A!UploadAllBlocks)
    BY <1>1, <1>2 DEF A!SendUploadAllBlocks, A!Send, A!TypeOK
  <2>2. ~IsToken(A!UploadAllBlocks)
    BY DEF IsToken, A!UploadAllBlocks
  <2> QED
    BY <2>1, <2>2
<1>3. ASSUME NEW md5s, NEW k, A!StartBlock(f, md5s, k), uploadMd5s'[f] = md5s,
             uploadingIndex'[f] = k
      PROVE  \E sent : /\ fromClient'[f] = Append(fromClient[f], sent)
                       /\ IsToken(sent) => sent.md5 \in Current(f)'
  <2>1. A!SendBlockPiece(f, md5s, k, 0)
    BY <1>3 DEF A!StartBlock
  <2>2. Current(f)' = {md5s[k]}
    BY <1>1, <1>3, <2>1, SendBlockPieceTokens
  <2>3. PICK sent : fromClient'[f] = Append(fromClient[f], sent) /\ sent.md5 = md5s[k]
    BY <1>1, <1>3, <2>1, SendBlockPieceTokens
  <2> QED
    BY <2>2, <2>3
<1>4. CASE A!OnUploadResponse(f, msg)
  <2>1. /\ uploadMd5s'[f] = msg.md5s /\ uploadingIndex'[f] = 1
        /\ A!Alive(f) /\ Current(f) = {}
    BY <1>1, <1>4 DEF A!OnUploadResponse, A!TypeOK, A!Alive, Current, InBlock
  <2> QED
    BY <1>2, <1>3, <1>4, <2>1 DEF A!OnUploadResponse
<1>5. CASE A!OnUploadBlockAck(f, msg)
  <2>1. /\ uploadMd5s'[f] = uploadMd5s[f] /\ uploadingIndex'[f] = uploadingIndex[f] + 1
        /\ A!Alive(f) /\ IsToken(msg)
    BY <1>1, <1>5 DEF A!OnUploadBlockAck, A!TypeOK, A!Alive, IsToken
  <2> QED
    BY <1>2, <1>3, <1>5, <2>1 DEF A!OnUploadBlockAck
<1> QED
  BY <1>4, <1>5

(* All else an agent does gives no token. *)
LEMMA AgentGoesOn ==
  ASSUME AgentInv, NEW f \in Flows, AgentAt(f) \in Position,
         \/ \E msg : A!OnFinalResult(f, msg)
         \/ A!Ignore(f) \/ A!Close(f) \/ A!OnWriteComplete(f)
  PROVE  /\ NoMore(fromClient[f], fromClient'[f])
         /\ A!Alive(f)' => A!Alive(f) /\ Current(f)' = Current(f)
<1>1. A!TypeOK /\ fromClient[f] \in Seq(A!FromClientMessage)
  BY DEF AgentInv, A!TypeOK
<1>2. CASE (\E msg : A!OnFinalResult(f, msg)) \/ A!Ignore(f)
  BY <1>1, <1>2, NoMoreSame DEF A!OnFinalResult, A!Ignore, A!aVars, A!SetState, A!TypeOK, A!Alive,
                                Current, InBlock
<1>3. CASE A!Close(f)
  <2>1. PICK n \in 0 .. Len(fromClient[f]) : fromClient'[f] = SubSeq(fromClient[f], 1, n)
    BY <1>1, <1>3 DEF A!Close, A!TypeOK
  <2>2. agentState'[f] = "closed"
    BY <1>1, <1>3 DEF A!Close, A!SetState, A!TypeOK
  <2> QED
    BY <1>1, <2>1, <2>2, PartTokens DEF A!Alive
<1>4. CASE /\ agentState[f] = "uploading_blocks"
           /\ A!SendBlockPiece(f, uploadMd5s[f], uploadingIndex[f], pieceIndex[f])
           /\ UNCHANGED <<fileMd5s, uploadMd5s, uploadingIndex>>
  <2>1. pieceIndex[f] \in Nat /\ pieceIndex[f] # 0
    <3> DEFINE m == uploadMd5s[f][uploadingIndex[f]]
    <3>1. m \in Md5s /\ AgentAt(f) = [md5 |-> m, index |-> pieceIndex[f]]
      BY <1>4 DEF AgentInv, A!TypeOK, AtABlock, AgentAt
    <3>2. AgentAt(f) # Idle
      BY <3>1, Md5sAssumption DEF Idle
    <3>3. pieceIndex[f] \in 1 .. Pieces[m] - 1
      BY <3>1, <3>2, Places
    <3> QED
      BY <3>1, <3>3, PiecesAssumption
  <2>2. /\ A!Alive(f) /\ Current(f) = {uploadMd5s[f][uploadingIndex[f]]}
    BY <1>4 DEF A!Alive, Current, InBlock
  <2>3. PICK sent : fromClient'[f] = Append(fromClient[f], sent) /\ ~IsToken(sent)
    BY <1>1, <1>4, <2>1, SendBlockPieceTokens
  <2>4. Current(f)' = Current(f)
    BY <1>1, <1>4, <2>1, <2>2, SendBlockPieceTokens
  <2> QED
    BY <1>1, <2>2, <2>3, <2>4, AppendTokens
<1>5. CASE UNCHANGED <<agentState, fileMd5s, uploadMd5s, uploadingIndex, pieceIndex, fromClient>>
           /\ A!Alive(f)
  BY <1>5, NoMoreSame DEF Current, InBlock
<1> QED
  BY <1>2, <1>3, <1>4, <1>5 DEF A!OnWriteComplete

LEMMA AgentToken ==
  ASSUME P!TypeOK, AgentInv, Unborn, NEW f \in Flows, AgentAt(f) \in Position, AgentMoves(f),
         FlowToken(f)
  PROVE  FlowToken(f)'
<1>1. A!TypeOK /\ toClient[f] \in Seq(P!ClientMessage)
  BY DEF AgentInv, P!TypeOK
<1>2. /\ agentState[f] # "init" /\ UNCHANGED proxy
      /\ toClient'[f] = toClient[f] \/ (toClient[f] # <<>> /\ toClient'[f] = Tail(toClient[f]))
  BY <1>1, AgentMovesOnly DEF ClientMoves, AgentMoves, AgentReads, AgentWrote, AgentLosesProxy,
                              AgentKilled, P!TypeOK
<1>3. /\ UNCHANGED <<clientState, nextFlow, answered>> /\ Votes(f)' = Votes(f)
      /\ ~(f >= nextFlow)
  BY <1>2 DEF proxy, Votes, Unborn, P!AnyMd5
<1>4. NoMore(toClient[f], toClient'[f])
  BY <1>1, <1>2, TailTokens, NoMoreSame
<1>5. ASSUME NEW msg, msg = Head(toClient[f]), toClient[f] # <<>>, toClient'[f] = Tail(toClient[f]),
             A!OnUploadResponse(f, msg) \/ A!OnUploadBlockAck(f, msg)
      PROVE  FlowToken(f)'
  <2>1. msg \in P!ClientMessage
    BY <1>1, <1>5
  <2>2. PICK sent : /\ fromClient'[f] = Append(fromClient[f], sent)
                    /\ IsToken(sent) => sent.md5 \in Current(f)'
    BY <1>5, <2>1, AgentStartsToken
  <2>3. A!Alive(f) /\ (Current(f) = {} \/ IsToken(msg))
    BY <1>5, <2>1, AgentStartsToken
  <2>4. OneToken(f) /\ TokensCurrent(f)
    BY <1>5, <2>3 DEF FlowToken
  <2>5. CASE Current(f) = {}
    <3>1. Quiet(fromClient[f]) /\ Quiet(toClient[f]) /\ Votes(f) = {}
      BY <2>4, <2>5, NoneInNone DEF TokensCurrent
    <3>2. Quiet(toClient'[f])
      BY <1>4, <3>1 DEF NoMore
    <3> QED
      BY <1>1, <1>3, <2>2, <3>1, <3>2, TokenGiven
  <2>6. CASE IsToken(msg)
    <3>1. ~Quiet(toClient[f]) /\ Quiet(toClient'[f])
      BY <1>1, <1>5, <2>4, <2>6, TailTokens DEF OneToken
    <3>2. Quiet(fromClient[f]) /\ Votes(f) = {}
      BY <2>4, <3>1 DEF OneToken
    <3> QED
      BY <1>1, <1>3, <2>2, <3>1, <3>2, TokenGiven
  <2> QED
    BY <2>3, <2>5, <2>6
<1>7. ASSUME \/ \E msg : A!OnFinalResult(f, msg)
             \/ A!Ignore(f) \/ A!Close(f) \/ A!OnWriteComplete(f)
      PROVE  FlowToken(f)'
  <2>1. NoNewToken(f)
    BY <1>3, <1>4, <1>7, AgentGoesOn DEF NoNewToken
  <2> QED
    BY <2>1, TokenKept
<1>8. CASE AgentReads(f)
  <2>1. toClient[f] # <<>> /\ toClient'[f] = Tail(toClient[f])
    BY <1>8 DEF AgentReads, P!TypeOK
  <2> QED
    BY <1>5, <1>7, <1>8, <2>1 DEF AgentReads, A!OnMessage, A!OnMessageError
<1>9. CASE AgentWrote(f) \/ AgentLosesProxy(f) \/ AgentKilled(f)
  BY <1>7, <1>9 DEF AgentWrote, AgentLosesProxy, AgentKilled
<1> QED
  BY <1>8, <1>9 DEF AgentMoves

LEMMA DownloaderToken ==
  ASSUME P!TypeOK, A!TypeOK, D!TypeOK, Unborn, OneRole, NEW f \in Flows, DownloaderMoves(f),
         FlowToken(f)
  PROVE  FlowToken(f)'
<1>1. /\ UNCHANGED <<proxy, agents>> /\ downloadState[f] # "init"
      /\ \/ fromClient'[f] = fromClient[f]
         \/ \E m : fromClient'[f] = Append(fromClient[f], D!TransferBlockAck(m))
         \/ \E n \in 0 .. Len(fromClient[f]) : fromClient'[f] = SubSeq(fromClient[f], 1, n)
  BY DownloaderMovesOnly DEF ClientMoves
<1>2. fromClient[f] \in Seq(A!FromClientMessage) /\ toClient[f] \in Seq(P!ClientMessage)
  BY DEF A!TypeOK, P!TypeOK
<1>3. NoMore(fromClient[f], fromClient'[f])
  <2>1. \A m : ~IsToken(D!TransferBlockAck(m))
    BY DEF IsToken, D!TransferBlockAck
  <2> QED
    BY <1>1, <1>2, <2>1, NoMoreSame, AppendTokens, PartTokens
<1>4. toClient'[f] = toClient[f] \/ (toClient[f] # <<>> /\ toClient'[f] = Tail(toClient[f]))
  BY DEF DownloaderMoves, DownloaderReads, DownloaderLosesProxy, DownloaderKilled, P!TypeOK
<1>5. NoMore(toClient[f], toClient'[f])
  BY <1>2, <1>4, TailTokens, NoMoreSame
<1>6. ~A!Alive(f)' /\ ~(f >= nextFlow)'
  BY <1>1 DEF OneRole, Unborn, agents, A!Alive, proxy
<1>7. NoNewToken(f)
  BY <1>1, <1>3, <1>5, <1>6 DEF NoNewToken, Votes, P!AnyMd5, proxy
<1> QED
  BY <1>7, TokenKept

----------------------------------------------------------------------------
(* The proxy and a client's message.                                       *)

LEMMA OneSelected ==
  ASSUME BackupCount = 1, NEW selected \in P!kSubset(BackupCount, P!Connected)
  PROVE  \E s \in Servers : selected = {s}
<1>1. selected \subseteq Servers /\ P!Cardinality(selected) = 1
  BY DEF P!kSubset, P!Connected
<1>2. IsFiniteSet(selected) /\ Cardinality(selected) = 1
  BY <1>1, ServersAssumption, FS_Subset DEF P!Cardinality, Cardinality
<1>3. \E s : selected = {s}
  BY <1>2, FS_Singleton
<1> QED
  BY <1>1, <1>3

LEMMA VoteGiven ==
  ASSUME P!TypeOK, NEW f \in Flows, NEW s \in Servers, NEW m, P!SubBlockAckEvent({s}, m, f)
  PROVE  /\ Votes(f)' \subseteq Votes(f) \cup {<<s, m>>}
         /\ \A g \in Flows \ {f} : Votes(g)' = Votes(g)
<1>1. \A t \in Servers, k \in P!AnyMd5 :
        /\ f \in blockAckCallbacks'[t][k] =>
             f \in blockAckCallbacks[t][k] \/ (t = s /\ k = m)
        /\ \A g \in Flows \ {f} : g \in blockAckCallbacks'[t][k] <=> g \in blockAckCallbacks[t][k]
  BY DEF P!SubBlockAckEvent, P!TypeOK
<1>2. Votes(f)' \subseteq Votes(f) \cup {<<s, m>>}
  BY <1>1 DEF Votes, P!AnyMd5
<1>3. \A g \in Flows \ {f} : Votes(g)' = Votes(g)
  BY <1>1 DEF Votes, P!AnyMd5
<1> QED
  BY <1>2, <1>3

(* A message asks for a vote, or leaves the votes as they are. *)
Subscribes(f, msg) ==
  /\ IsToken(msg) /\ UNCHANGED <<toClient, clientState>>
  /\ answered' = [answered EXCEPT ![f] = FALSE]
  /\ \E s \in Servers : Votes(f)' \subseteq Votes(f) \cup {<<s, msg.md5>>}
LeavesVotes(f) ==
  /\ UNCHANGED <<blockAckCallbacks, answered>>
  /\ NoMore(toClient[f], toClient'[f])

LEMMA CloseLeavesVotes ==
  ASSUME P!TypeOK, NEW f \in Flows, P!ClientOnClose(f)
  PROVE  LeavesVotes(f) /\ \A g \in Flows \ {f} : toClient'[g] = toClient[g]
<1>1. PICK n \in 0 .. Len(toClient[f]) :
        toClient' = [toClient EXCEPT ![f] = SubSeq(toClient[f], 1, n)]
  BY DEF P!ClientOnClose, P!Truncated
<1>2. NoMore(toClient[f], toClient'[f])
  BY <1>1, PartTokens DEF P!TypeOK
<1> QED
  BY <1>1, <1>2 DEF P!ClientOnClose, P!upload, P!storages, LeavesVotes, P!TypeOK

LEMMA HandlerVotes ==
  ASSUME BackupCount = 1, P!TypeOK, NEW f \in Flows, NEW msg \in P!FromClientMessage,
         P!ClientOnMessage(f, msg) \/ P!LateMessage(f, msg)
  PROVE  /\ Subscribes(f, msg) \/ LeavesVotes(f)
         /\ \A g \in Flows \ {f} : /\ toClient'[g] = toClient[g] /\ answered'[g] = answered[g]
                                   /\ Votes(g)' = Votes(g)
<1> DEFINE Others == \A g \in Flows \ {f} : toClient'[g] = toClient[g]
<1>1. CASE P!StartBlock(f, msg) /\ msg.type = "upload_block"
  <2>1. PICK selected \in P!kSubset(BackupCount, P!Connected) :
          P!SubBlockAckEvent(selected, msg.md5, f)
    BY <1>1 DEF P!StartBlock
  <2>2. PICK s \in Servers : selected = {s}
    BY <2>1, OneSelected
  <2>3. /\ Votes(f)' \subseteq Votes(f) \cup {<<s, msg.md5>>}
        /\ \A g \in Flows \ {f} : Votes(g)' = Votes(g)
    BY <2>1, <2>2, VoteGiven
  <2>4. IsToken(msg)
    BY <1>1 DEF P!StartBlock, IsToken, P!TheFirstBlockPiece, TheFirstBlockPiece
  <2>5. UNCHANGED <<toClient, clientState>> /\ answered' = [answered EXCEPT ![f] = FALSE]
    BY <1>1 DEF P!StartBlock
  <2> QED
    BY <2>3, <2>4, <2>5 DEF Subscribes, P!TypeOK
<1>2. ASSUME LeavesVotes(f), Others
      PROVE  /\ Subscribes(f, msg) \/ LeavesVotes(f)
             /\ \A g \in Flows \ {f} : /\ toClient'[g] = toClient[g] /\ answered'[g] = answered[g]
                                       /\ Votes(g)' = Votes(g)
  BY <1>2 DEF LeavesVotes, Votes, P!AnyMd5
<1>3. ASSUME UNCHANGED <<blockAckCallbacks, answered, toClient>>
      PROVE  LeavesVotes(f) /\ Others
  BY <1>3, NoMoreSame DEF LeavesVotes
<1>4. ASSUME NEW reply, ~IsToken(reply), P!SendToClient(f, reply),
             UNCHANGED <<blockAckCallbacks, answered>>
      PROVE  LeavesVotes(f) /\ Others
  <2>1. toClient'[f] = Append(toClient[f], reply) /\ Others
    BY <1>4 DEF P!SendToClient, P!TypeOK
  <2>2. NoMore(toClient[f], toClient'[f])
    BY <1>4, <2>1, AppendTokens DEF P!TypeOK
  <2> QED
    BY <1>4, <2>1, <2>2 DEF LeavesVotes
<1>5. CASE P!TooFewServers(f, msg) \/ P!RelayPiece(f, msg) \/ P!RelayToExpired(f, msg)
           \/ P!TransferNextBlock(f)
           \/ \E need : P!NothingToTransfer(f, msg, need)
  BY <1>2, <1>3, <1>5 DEF P!TooFewServers, P!RelayPiece, P!RelayToExpired, P!TransferNextBlock,
       P!NothingToTransfer, P!Dies, P!upload, P!storages
<1>6. CASE \/ \E need : P!StartDownload(f, msg, need) \/ P!LateStart(f, need)
           \/ P!LateRecord(f) \/ P!LateNextBlock(f) \/ P!LateIgnored(f, msg)
  <2>1. UNCHANGED <<blockAckCallbacks, answered, toClient>>
    BY <1>6 DEF P!StartDownload, P!LateStart, P!LateRecord, P!LateNextBlock, P!LateIgnored,
                P!upload, P!storages
  <2> QED
    BY <1>2, <1>3, <2>1
<1>7. CASE P!HandleUploadRequest(f, msg) \/ P!HandleUploadAllBlocks(f)
           \/ P!HandleFileNotExist(f, msg) \/ P!TransferEnds(f)
  <2>1. UNCHANGED <<blockAckCallbacks, answered>>
    BY <1>7 DEF P!HandleUploadRequest, P!HandleUploadAllBlocks, P!HandleFileNotExist,
                P!TransferEnds, P!upload, P!storages
  <2>2. \E reply : ~IsToken(reply) /\ P!SendToClient(f, reply)
    BY <1>7 DEF P!HandleUploadRequest, P!HandleUploadAllBlocks, P!HandleFileNotExist,
                P!TransferEnds, IsToken, P!UploadResponse, P!FileStorageSucc, P!FileNotExist,
                P!TransferAllBlocks
  <2> QED
    BY <1>2, <1>4, <2>1, <2>2
<1>8. CASE P!ClientOnClose(f)
  BY <1>2, <1>8, CloseLeavesVotes
<1>9. CASE P!ClientOnMessage(f, msg)
  BY <1>1, <1>5, <1>6, <1>7, <1>8, <1>9
     DEF P!ClientOnMessage, P!ClientHandles, P!HandleUploadBlock, P!HandleDownloadRequest,
         P!HandleTransferBlockAck, P!DownloadRefused, P!TransferRefused, P!ClientMessageError
<1>10. CASE P!LateMessage(f, msg)
  BY <1>1, <1>5, <1>6, <1>10 DEF P!LateMessage, P!LateHandles, P!HandleUploadBlock
<1> QED
  BY <1>9, <1>10

(* The proxy serves a client: it reads its message, on time or late, or    *)
(* loses it.                                                               *)
LEMMA ClientServed ==
  ASSUME P!TypeOK, A!TypeOK, NEW f \in Flows, ProxyServesClient(f)
  PROVE  /\ fromClient[f] \in Seq(P!FromClientMessage)
         /\ \/ P!ClientOnClose(f) /\ UNCHANGED fromClient
               /\ (UNCHANGED lateState \/ lateState' = [lateState EXCEPT ![f] = clientState[f]])
            \/ \E msg \in P!FromClientMessage :
                 /\ fromClient[f] # <<>> /\ msg = Head(fromClient[f])
                 /\ P!ClientOnMessage(f, msg) \/ P!LateMessage(f, msg)
                 /\ fromClient'[f] \in {Tail(fromClient[f]), <<>>}
<1>1. fromClient[f] \in Seq(P!FromClientMessage)
  BY DEF A!TypeOK, A!FromClientMessage, P!FromClientMessage, A!PieceContent, P!PieceContent
<1>2. CASE ProxyLosesClient(f) \/ ProxyWriteFails(f)
  BY <1>1, <1>2 DEF ProxyLosesClient, ProxyWriteFails, P!ClientWriteFails
<1>3. CASE ProxyReadsClient(f) \/ ProxyReadsLate(f)
  <2>1. /\ fromClient[f] # <<>>
        /\ \/ P!ClientOnMessage(f, Head(fromClient[f])) \/ P!LateMessage(f, Head(fromClient[f]))
        /\ fromClient'[f] \in {Tail(fromClient[f]), <<>>}
    BY <1>3 DEF ProxyReadsClient, ProxyReadsLate, A!TypeOK
  <2>2. Head(fromClient[f]) \in P!FromClientMessage
    BY <1>1, <2>1
  <2> QED
    BY <1>1, <2>1, <2>2
<1> QED
  BY <1>2, <1>3 DEF ProxyServesClient

LEMMA ServedToken ==
  ASSUME BackupCount = 1, P!TypeOK, A!TypeOK, SelectedConnected, LateGone, NEW f \in Flows,
         ProxyServesClient(f), ~(f >= nextFlow), FlowToken(f)
  PROVE  FlowToken(f)'
<1>1. UNCHANGED <<agents, nextFlow>> /\ fromClient[f] \in Seq(P!FromClientMessage)
  BY ProxyServes, ClientServed DEF ServesOnly
<1>2. Current(f)' = Current(f) /\ (A!Alive(f)' <=> A!Alive(f)) /\ ~(f >= nextFlow')
  BY <1>1 DEF agents, Current, InBlock, A!Alive
<1>3. ASSUME LeavesVotes(f), NoMore(fromClient[f], fromClient'[f]) PROVE FlowToken(f)'
  <2>1. NoNewToken(f)
    BY <1>2, <1>3 DEF NoNewToken, LeavesVotes, Votes, P!AnyMd5
  <2> QED
    BY <2>1, TokenKept
<1>4. CASE P!ClientOnClose(f) /\ UNCHANGED fromClient
  BY <1>3, <1>4, CloseLeavesVotes, NoMoreSame
<1>5. ASSUME NEW msg \in P!FromClientMessage, fromClient[f] # <<>>, msg = Head(fromClient[f]),
             P!ClientOnMessage(f, msg) \/ P!LateMessage(f, msg),
             fromClient'[f] \in {Tail(fromClient[f]), <<>>}
      PROVE  FlowToken(f)'
  <2>1. /\ NoMore(fromClient[f], fromClient'[f])
        /\ IsToken(msg) /\ Single(fromClient[f]) =>
             ~Quiet(fromClient[f]) /\ Quiet(fromClient'[f])
    <3>1. /\ NoMore(fromClient[f], Tail(fromClient[f]))
          /\ IsToken(msg) /\ Single(fromClient[f]) =>
               ~Quiet(fromClient[f]) /\ Quiet(Tail(fromClient[f]))
      BY <1>1, <1>5, TailTokens
    <3>2. Quiet(<<>>) /\ Single(<<>>) /\ \A blocks : TokensIn(<<>>, blocks)
      BY DEF Quiet, Single, TokensIn
    <3> QED
      BY <1>5, <3>1, <3>2 DEF NoMore
  <2>2. \E i \in DOMAIN fromClient[f] : fromClient[f][i] = msg
    BY <1>1, <1>5
  <2>3. ASSUME Subscribes(f, msg) PROVE FlowToken(f)'
    <3>1. OneToken(f) /\ (A!Alive(f) => TokensCurrent(f))
      BY <1>1 DEF FlowToken
    <3>2. ~Quiet(fromClient[f]) /\ Quiet(fromClient'[f])
      BY <2>1, <2>3, <3>1 DEF Subscribes, OneToken
    <3>3. Votes(f) = {} /\ Quiet(toClient[f]) /\ toClient'[f] = toClient[f] /\ ~answered'[f]
      BY <2>3, <3>1, <3>2 DEF OneToken, Subscribes, P!TypeOK
    <3>4. PICK s \in Servers : Votes(f)' \subseteq {<<s, msg.md5>>}
      BY <2>3, <3>3 DEF Subscribes
    <3>5. /\ Single(fromClient'[f]) /\ Single(toClient'[f]) /\ Quiet(toClient'[f])
          /\ \A vote, other \in Votes(f)' : vote = other
      BY <3>2, <3>3, <3>4 DEF Quiet, Single
    <3>6. OneToken(f)'
      BY <3>2, <3>3, <3>5 DEF OneToken, Quiet, Single
    <3>7. ASSUME A!Alive(f) PROVE TokensCurrent(f)'
      <4>1. TokensIn(fromClient[f], Current(f)) /\ TokensIn(toClient[f], Current(f))
        BY <3>1, <3>7 DEF TokensCurrent
      <4>2. msg.md5 \in Current(f)
        BY <2>2, <2>3, <4>1 DEF TokensIn, Subscribes
      <4>3. TokensIn(fromClient'[f], Current(f)) /\ TokensIn(toClient'[f], Current(f))
        BY <2>1, <3>3, <4>1 DEF NoMore
      <4> QED
        BY <1>2, <3>4, <4>2, <4>3 DEF TokensCurrent, TokensIn
    <3> QED
      BY <1>2, <3>6, <3>7 DEF FlowToken
  <2>4. Subscribes(f, msg) \/ LeavesVotes(f)
    BY <1>5, HandlerVotes
  <2> QED
    BY <1>3, <2>1, <2>3, <2>4
<1> QED
  BY <1>4, <1>5, ClientServed

(* A flow the step is not about. *)
LEMMA OtherToken ==
  ASSUME NEW g \in Flows, FlowToken(g), SameClient(g), toClient'[g] = toClient[g],
         Votes(g)' = Votes(g), answered'[g] = answered[g], clientState'[g] = clientState[g],
         g >= nextFlow' => g >= nextFlow
  PROVE  FlowToken(g)'
<1>1. Current(g)' = Current(g) /\ (A!Alive(g)' <=> A!Alive(g))
  BY DEF SameClient, Current, InBlock, A!Alive
<1>2. g >= nextFlow' => toClient'[g] = <<>>
  BY DEF FlowToken
<1>3. NoNewToken(g)
  BY <1>1, NoMoreSame DEF NoNewToken, SameClient, FlowToken
<1> QED
  BY <1>3, TokenKept

LEMMA ClientSideToken ==
  ASSUME BackupCount = 1, P!TypeOK, AgentInv, D!TypeOK, LateGone, UploadInv, TokenInv,
         NEW f \in Flows, ClientSideStep(f)
  PROVE  TokenInv'
<1> SUFFICES ASSUME NEW g \in Flows PROVE FlowToken(g)'
  BY DEF TokenInv
<1>1. /\ A!TypeOK /\ Unborn /\ OneRole /\ FlowToken(f) /\ FlowToken(g)
      /\ AgentAt(f) \in Position /\ nextFlow \in Nat /\ f \in Nat /\ g \in Nat
  BY FlowsAssumption DEF AgentInv, UploadInv, AgentPlaced, TokenInv, P!TypeOK
<1>2. ASSUME UNCHANGED <<answered, blockAckCallbacks>>,
             \A h \in Flows \ {f} :
               /\ SameClient(h) /\ toClient'[h] = toClient[h] /\ clientState'[h] = clientState[h],
             nextFlow' \in {nextFlow, nextFlow + 1}, g # f
      PROVE  FlowToken(g)'
  BY <1>1, <1>2, OtherToken DEF Votes, P!AnyMd5
<1>3. CASE AgentMoves(f)
  <2>1. ClientMoves(f) /\ \A h \in Flows \ {f} : toClient'[h] = toClient[h]
    BY <1>1, <1>3, AgentMovesOnly
       DEF AgentMoves, AgentReads, AgentWrote, AgentLosesProxy, AgentKilled, P!TypeOK
  <2> QED
    BY <1>1, <1>2, <1>3, <2>1, AgentToken DEF ClientMoves, proxy
<1>4. CASE DownloaderMoves(f)
  <2>1. ClientMoves(f) /\ \A h \in Flows \ {f} : toClient'[h] = toClient[h]
    BY <1>1, <1>4, DownloaderMovesOnly
       DEF DownloaderMoves, DownloaderReads, DownloaderLosesProxy, DownloaderKilled, P!TypeOK
  <2> QED
    BY <1>1, <1>2, <1>4, <2>1, DownloaderToken DEF ClientMoves, proxy
<1>5. CASE Connects(f)
  <2>1. UNCHANGED <<answered, blockAckCallbacks, toClient>>
    BY <1>5 DEF Connects, AgentConnects, DownloaderConnects, P!ClientOnConnection, P!upload,
                P!storages
  <2>2. /\ f = nextFlow /\ nextFlow' = nextFlow + 1
        /\ \A h \in Flows \ {f} : SameClient(h) /\ clientState'[h] = clientState[h]
    BY <1>1, <1>5, ConnectsOnly
  <2>3. CASE g = f
    <3>1. Votes(f)' = {} /\ toClient'[f] = <<>>
      BY <1>1, <2>1, <2>2 DEF FlowToken, Votes, P!AnyMd5
    <3>2. PICK msg : /\ fromClient'[f] = <<msg>>
                     /\ msg.type \in {"upload_request", "download_request"}
      BY <1>1, <1>5, ConnectsOnly
    <3>3. Quiet(fromClient'[f]) /\ Quiet(toClient'[f])
      BY <3>1, <3>2 DEF Quiet, IsToken
    <3>4. FlowToken(f)'
      BY <3>1, <3>3 DEF FlowToken, OneToken, TokensCurrent, Quiet, Single, TokensIn
    <3> QED
      BY <2>3, <3>4
  <2> QED
    BY <1>2, <2>1, <2>2, <2>3
<1>6. CASE ProxyServesClient(f)
  <2>1. /\ ServesOnly(f) /\ UNCHANGED <<agents, downloaders>>
        /\ clientState[f] # "none" \/ lateState[f] # "none"
        /\ \A h \in Flows \ {f} : fromClient'[h] = fromClient[h]
    BY <1>1, <1>6, ProxyServes DEF UploadInv
  <2>2. ~(f >= nextFlow)
    BY <1>1, <2>1 DEF Unborn, LateGone
  <2>3. CASE g # f
    <3>1. /\ toClient'[g] = toClient[g] /\ answered'[g] = answered[g] /\ Votes(g)' = Votes(g)
      <4>1. CASE P!ClientOnClose(f)
        BY <2>3, <4>1, CloseLeavesVotes DEF LeavesVotes, Votes, P!AnyMd5
      <4>2. ASSUME NEW msg \in P!FromClientMessage,
                   P!ClientOnMessage(f, msg) \/ P!LateMessage(f, msg)
            PROVE  /\ toClient'[g] = toClient[g] /\ answered'[g] = answered[g]
                   /\ Votes(g)' = Votes(g)
        BY <2>3, <4>2, HandlerVotes
      <4> QED
        BY <1>1, <1>6, <4>1, <4>2, ClientServed
    <3> QED
      BY <1>1, <2>1, <2>3, <3>1, OtherToken DEF ServesOnly, SameClient, agents, downloaders
  <2> QED
    BY <1>1, <1>6, <2>2, <2>3, ServedToken DEF UploadInv
<1>7. CASE SessionDestroyed(f)
  <2>1. UNCHANGED <<answered, blockAckCallbacks, toClient, clientState, nextFlow>>
        /\ SameClient(g)
    BY <1>7 DEF SessionDestroyed, P!Expire, P!process, P!storages, clients, agents, downloaders,
                SameClient
  <2> QED
    BY <1>1, <2>1, OtherToken DEF Votes, P!AnyMd5
<1> QED
  BY <1>3, <1>4, <1>5, <1>6, <1>7 DEF ClientSideStep

----------------------------------------------------------------------------
(* The servers' answers.                                                   *)

LEMMA CalledToken ==
  ASSUME P!TypeOK, Unborn, NEW f \in Flows, FlowToken(f), NEW called, NEW succ, NEW md5,
         P!CallBack(called, succ, md5), Votes(f)' \subseteq Votes(f),
         f \in called => \E vote \in Votes(f) \ Votes(f)' : vote[2] = md5[f],
         UNCHANGED <<agents, fromClient, nextFlow, clientState>>
  PROVE  FlowToken(f)'
<1>1. /\ toClient[f] \in Seq(P!ClientMessage) /\ answered[f] \in BOOLEAN
      /\ Current(f)' = Current(f) /\ (A!Alive(f)' <=> A!Alive(f))
  BY DEF P!TypeOK, agents, Current, InBlock, A!Alive
<1>2. CASE f \in P!Notified(called) /\ ~answered[f]
  <2>1. /\ clientState[f] # "none" /\ ~(f >= nextFlow) /\ f \in called
        /\ answered'[f] /\ toClient'[f] = Append(toClient[f], P!Reply(succ, md5[f]))
    BY <1>2 DEF P!CallBack, P!Notified, Unborn
  <2>2. OneToken(f) /\ (A!Alive(f) => TokensCurrent(f))
    BY <2>1 DEF FlowToken
  <2>3. PICK vote \in Votes(f) \ Votes(f)' : vote[2] = md5[f]
    BY <2>1
  <2>4. Votes(f)' = {} /\ Quiet(fromClient[f]) /\ Quiet(toClient[f])
    BY <2>2, <2>3 DEF OneToken
  <2>5. P!Reply(succ, md5[f]).md5 = md5[f]
    BY DEF P!Reply, P!UploadBlockAck, P!UploadBlockFail
  <2>6. OneToken(f)'
    <3>1. Single(toClient'[f])
      BY <1>1, <2>1, <2>4, AppendTokens
    <3> QED
      BY <2>2, <2>4, <3>1 DEF OneToken, Quiet, Single
  <2>7. ASSUME A!Alive(f) PROVE TokensCurrent(f)'
    <3>1. TokensIn(fromClient[f], Current(f)) /\ TokensIn(toClient[f], Current(f))
          /\ md5[f] \in Current(f)
      BY <2>2, <2>3, <2>7 DEF TokensCurrent
    <3>2. TokensIn(toClient'[f], Current(f))
      BY <1>1, <2>1, <2>5, <3>1, AppendTokens
    <3> QED
      BY <1>1, <2>4, <3>1, <3>2 DEF TokensCurrent, TokensIn
  <2> QED
    BY <1>1, <2>1, <2>6, <2>7 DEF FlowToken
<1>3. CASE ~(f \in P!Notified(called) /\ ~answered[f])
  <2>1. toClient'[f] = toClient[f] /\ answered'[f] = answered[f]
    BY <1>1, <1>3 DEF P!CallBack
  <2>2. NoNewToken(f)
    BY <1>1, <2>1, NoMoreSame DEF NoNewToken, FlowToken
  <2> QED
    BY <2>2, TokenKept
<1> QED
  BY <1>2, <1>3

LEMMA AnsweredToken ==
  ASSUME P!TypeOK, Unborn, NEW s \in Servers, NEW msg \in P!StorageMessage,
         P!HandleUploadBlockAck(s, msg) \/ P!HandleUploadBlockFail(s, msg),
         UNCHANGED <<agents, fromClient>>, NEW f \in Flows, FlowToken(f)
  PROVE  FlowToken(f)'
<1> DEFINE m == msg.md5
           called == blockAckCallbacks[s][m]
           md5 == [g \in Flows |-> m]
<1>1. /\ \E succ : P!CallBack(called, succ, md5)
      /\ blockAckCallbacks' = P!Erased(s, m)
      /\ UNCHANGED <<nextFlow, clientState>>
  BY DEF P!HandleUploadBlockAck, P!HandleUploadBlockFail, P!process
<1>2. m \in P!AnyMd5
  BY DEF P!HandleUploadBlockAck, P!HandleUploadBlockFail, P!StorageMessage, P!AnyMd5
<1>3. \A t \in Servers, k \in P!AnyMd5 :
        blockAckCallbacks'[t][k] = IF t = s /\ k = m THEN {} ELSE blockAckCallbacks[t][k]
  BY <1>1, <1>2 DEF P!Erased, P!TypeOK
<1>4. Votes(f)' \subseteq Votes(f)
  BY <1>3 DEF Votes, P!AnyMd5
<1>5. f \in called => <<s, m>> \in Votes(f) /\ <<s, m>> \notin Votes(f)'
  BY <1>2, <1>3 DEF Votes
<1>6. f \in called => \E vote \in Votes(f) \ Votes(f)' : vote[2] = md5[f]
  BY <1>5
<1> HIDE DEF m, called, md5
<1> QED
  BY <1>1, <1>4, <1>6, CalledToken

LEMMA DroppedToken ==
  ASSUME P!TypeOK, Unborn, NEW s \in Servers, P!StorageOnClose(s),
         UNCHANGED <<agents, fromClient>>, NEW f \in Flows, FlowToken(f)
  PROVE  FlowToken(f)'
<1> DEFINE called == P!Remaining(s)
           md5 == [g \in called |-> P!RemainingMd5(s, g)]
<1>1. /\ P!CallBack(called, FALSE, md5)
      /\ blockAckCallbacks' = [blockAckCallbacks EXCEPT ![s] = P!NoCallbacks]
      /\ UNCHANGED <<nextFlow, clientState>>
  BY DEF P!StorageOnClose, P!HandleRemainEvent, P!process
<1>2. \A t \in Servers, k \in P!AnyMd5 :
        blockAckCallbacks'[t][k] = IF t = s THEN {} ELSE blockAckCallbacks[t][k]
  BY <1>1 DEF P!NoCallbacks, P!TypeOK
<1>3. Votes(f)' \subseteq Votes(f)
  BY <1>2 DEF Votes, P!AnyMd5
<1>4. ASSUME f \in called PROVE \E vote \in Votes(f) \ Votes(f)' : vote[2] = md5[f]
  <2>1. \E k \in P!AnyMd5 : f \in blockAckCallbacks[s][k]
    BY <1>4 DEF P!Remaining
  <2> DEFINE m == P!RemainingMd5(s, f)
  <2>2. m \in P!AnyMd5 /\ f \in blockAckCallbacks[s][m]
    BY <2>1 DEF P!RemainingMd5
  <2>3. md5[f] = m
    BY <1>4
  <2> HIDE DEF m, md5
  <2>4. <<s, m>> \in Votes(f) /\ <<s, m>> \notin Votes(f)'
    BY <1>2, <2>2 DEF Votes
  <2> QED
    BY <2>3, <2>4
<1> HIDE DEF called, md5
<1> QED
  BY <1>1, <1>3, <1>4, CalledToken

LEMMA StorageToken ==
  ASSUME P!TypeOK, S!TypeOK, Unborn, NEW s \in Servers, StorageMoves(s), NEW f \in Flows,
         FlowToken(f)
  PROVE  FlowToken(f)'
<1>1. UNCHANGED <<agents, fromClient, nextFlow, clientState>>
  BY StorageMovesOnly
<1>2. Current(f)' = Current(f) /\ (A!Alive(f)' <=> A!Alive(f))
  BY <1>1 DEF agents, Current, InBlock, A!Alive
<1>3. ASSUME toClient'[f] = toClient[f], answered'[f] = answered[f], Votes(f)' \subseteq Votes(f)
      PROVE  FlowToken(f)'
  <2>1. NoNewToken(f)
    BY <1>1, <1>2, <1>3, NoMoreSame DEF NoNewToken, FlowToken
  <2> QED
    BY <2>1, TokenKept
<1>4. CASE ServerConnects(s)
  <2>1. /\ UNCHANGED <<toClient, answered>>
        /\ blockAckCallbacks' = [blockAckCallbacks EXCEPT ![s] = P!NoCallbacks]
    BY <1>4 DEF ServerConnects, P!StorageOnConnection, P!upload
  <2>2. Votes(f)' \subseteq Votes(f)
    BY <2>1 DEF Votes, P!NoCallbacks, P!AnyMd5, P!TypeOK
  <2> QED
    BY <1>3, <2>1, <2>2
<1>5. CASE StorageStep(s) \/ StorageDies(s)
  <2>1. UNCHANGED <<proxy, toClient>>
    BY <1>5 DEF StorageStep, StorageReads, StorageWrote, StorageLosesProxy, StorageDies
  <2> QED
    BY <1>3, <2>1 DEF proxy, Votes, P!AnyMd5
<1>6. CASE P!StorageOnClose(s)
  BY <1>1, <1>6, DroppedToken
<1>7. CASE ProxyReadsStorage(s) /\ ~P!StorageOnClose(s)
  <2> DEFINE msg == Head(toProxy[s])
  <2>1. msg \in P!StorageMessage /\ P!StorageOnMessage(s, msg)
    BY <1>7 DEF ProxyReadsStorage, S!TypeOK, S!StorageMessage, P!StorageMessage,
                S!PieceContent, P!PieceContent
  <2> HIDE DEF msg
  <2>2. CASE P!HandleTransferBlockSet(s, msg) \/ P!NamelessFail(s, msg)
    BY <1>3, <2>2 DEF P!HandleTransferBlockSet, P!NamelessFail, P!Dies, P!upload, P!storages,
                      Votes, P!AnyMd5
  <2>3. CASE P!HandleUploadBlockAck(s, msg) \/ P!HandleUploadBlockFail(s, msg)
    BY <1>1, <2>1, <2>3, AnsweredToken
  <2>4. CASE P!HandleTransferBlock(s, msg)
    <3>1. /\ UNCHANGED <<answered, blockAckCallbacks>> /\ ~IsToken(msg)
          /\ \/ toClient'[f] = toClient[f]
             \/ toClient'[f] = Append(toClient[f], msg) /\ clientState[f] # "none"
      BY <2>4 DEF P!HandleTransferBlock, P!upload, P!storages, IsToken
    <3>2. toClient[f] \in Seq(P!ClientMessage) /\ Votes(f)' = Votes(f)
      BY <3>1 DEF P!TypeOK, Votes, P!AnyMd5
    <3>3. NoMore(toClient[f], toClient'[f])
      BY <3>1, <3>2, NoMoreSame, AppendTokens
    <3>4. f >= nextFlow' => f >= nextFlow /\ toClient'[f] = <<>>
      BY <1>1, <3>1 DEF Unborn, FlowToken
    <3>5. NoNewToken(f)
      BY <1>1, <1>2, <3>1, <3>2, <3>3, <3>4, NoMoreSame DEF NoNewToken
    <3> QED
      BY <3>5, TokenKept
  <2> QED
    BY <1>7, <2>1, <2>2, <2>3, <2>4 DEF P!StorageOnMessage, P!StorageMessageError
<1> QED
  BY <1>4, <1>5, <1>6, <1>7 DEF StorageMoves, ProxyStorageStep, ProxyLosesStorage

LEMMA TokenNext ==
  ASSUME BackupCount = 1, SystemInv, UploadInv, TokenInv, [Next]_vars PROVE TokenInv'
<1>1. P!TypeOK /\ S!TypeOK /\ AgentInv /\ D!TypeOK /\ Unborn /\ LateGone
  BY SystemTypes, SystemLate DEF SystemInv, UploadInv
<1>2. CASE \E f \in Flows : ClientSideStep(f)
  BY <1>1, <1>2, ClientSideToken
<1>3. CASE \E s \in Servers : StorageMoves(s)
  BY <1>1, <1>3, StorageToken DEF TokenInv
<1>4. CASE UNCHANGED vars
  <2>1. ASSUME NEW f \in Flows PROVE FlowToken(f)'
    BY <1>4, <2>1, OtherToken
       DEF TokenInv, vars, proxy, clients, agents, downloaders, SameClient, Votes, P!AnyMd5
  <2> QED
    BY <2>1 DEF TokenInv
<1> QED
  BY <1>2, <1>3, <1>4, StepKinds

LEMMA TokenInit == Init => TokenInv
<1> SUFFICES ASSUME Init, NEW f \in Flows PROVE FlowToken(f)
  BY DEF TokenInv
<1>1. Votes(f) = {} /\ toClient[f] = <<>> /\ fromClient[f] = <<>>
  BY DEF Init, P!Init, A!Init, P!NoCallbacks, Votes
<1> QED
  BY <1>1 DEF FlowToken, OneToken, TokensCurrent, Quiet, Single, TokensIn

(* Where a block goes to one server, a client is answered about a block by *)
(* the server that has it, once, and no vote (block_ack_callbacks_) is     *)
(* left then that could count for its next block: whoever dies, is killed  *)
(* or comes back meanwhile.                                                *)
THEOREM NoVoteOutlivesTheAnswer ==
  ASSUME BackupCount = 1 PROVE Spec => []CalledBackWhenAnswered
<1>1. TokenInv => CalledBackWhenAnswered
  <2> SUFFICES ASSUME TokenInv, NEW f \in Flows, answered[f], clientState[f] # "none",
                      NEW s \in P!Connected, f \in P!Remaining(s)
               PROVE  FALSE
    BY DEF CalledBackWhenAnswered
  <2>1. PICK m \in P!AnyMd5 : f \in blockAckCallbacks[s][m]
    BY DEF P!Remaining
  <2>2. <<s, m>> \in Votes(f)
    BY <2>1 DEF Votes, P!Connected
  <2> QED
    BY <2>2 DEF TokenInv, FlowToken, OneToken
<1>2. UploadInv /\ SystemInv /\ TokenInv /\ [Next]_vars => TokenInv'
  BY TokenNext
<1> QED
  BY <1>1, <1>2, TokenInit, SystemInit, SystemNext, UploadInit, UploadNext, PTL DEF Spec

----------------------------------------------------------------------------
(* What the messages say stays true: blocks and files are only added.      *)

Grows == Blocks \subseteq Blocks' /\ idStorage \subseteq idStorage'

LEMMA RangeOf ==
  ASSUME NEW M, NEW q \in Seq(M)
  PROVE  /\ \A msg : Range(Append(q, msg)) = Range(q) \cup {msg}
         /\ q # <<>> => Head(q) \in Range(q) /\ Range(Tail(q)) \subseteq Range(q)
         /\ \A n \in 0 .. Len(q) : Range(SubSeq(q, 1, n)) \subseteq Range(q)
<1>1. ASSUME NEW msg PROVE Range(Append(q, msg)) = Range(q) \cup {msg}
  <2> DEFINE r == Append(q, msg)
  <2>1. /\ DOMAIN r = 1 .. Len(q) + 1 /\ DOMAIN q = 1 .. Len(q) /\ Len(q) \in Nat
        /\ r[Len(q) + 1] = msg /\ \A i \in 1 .. Len(q) : r[i] = q[i]
    OBVIOUS
  <2>2. \A i \in DOMAIN r : (i \in DOMAIN q /\ r[i] = q[i]) \/ r[i] = msg
    BY <2>1
  <2>3. \A i \in DOMAIN q : i \in DOMAIN r /\ r[i] = q[i]
    BY <2>1
  <2>4. Len(q) + 1 \in DOMAIN r
    BY <2>1
  <2> HIDE DEF r
  <2>5. Range(r) = Range(q) \cup {msg}
    BY <2>1, <2>2, <2>3, <2>4 DEF Range
  <2> QED
    BY <2>5 DEF r
<1>2. ASSUME q # <<>> PROVE Head(q) \in Range(q) /\ Range(Tail(q)) \subseteq Range(q)
  <2> DEFINE r == Tail(q)
  <2>1. \A i \in DOMAIN r : i + 1 \in DOMAIN q /\ r[i] = q[i + 1]
    BY <1>2
  <2>2. 1 \in DOMAIN q /\ Head(q) = q[1]
    BY <1>2
  <2> HIDE DEF r
  <2>3. Head(q) \in Range(q) /\ Range(r) \subseteq Range(q)
    BY <2>1, <2>2 DEF Range
  <2> QED
    BY <2>3 DEF r
<1>3. ASSUME NEW n \in 0 .. Len(q) PROVE Range(SubSeq(q, 1, n)) \subseteq Range(q)
  <2> DEFINE r == SubSeq(q, 1, n)
  <2>1. \A i \in DOMAIN r : i \in DOMAIN q /\ r[i] = q[i]
    OBVIOUS
  <2> HIDE DEF r
  <2>2. Range(r) \subseteq Range(q)
    BY <2>1 DEF Range
  <2> QED
    BY <2>2 DEF r
<1> QED
  BY <1>1, <1>2, <1>3

(* The file of a flow, and what it has begun, stay. *)
SameFile(f) ==
  fileMd5s'[f] = fileMd5s[f] /\ (agentState[f] # "init" => agentState'[f] # "init")

LEMMA MessagesHold ==
  ASSUME NEW f, Grows, SameFile(f), NEW msg
  PROVE  /\ FromAgent(f, msg) => FromAgent(f, msg)'
         /\ ToAgent(f, msg) => ToAgent(f, msg)'
         /\ ToServer(f, msg) => ToServer(f, msg)'
<1>1. Needed(f)' \subseteq Needed(f) /\ Range(fileMd5s[f])' = Range(fileMd5s[f])
  BY DEF Needed, Grows, SameFile, Range
<1> QED
  BY <1>1 DEF FromAgent, ToAgent, ToServer, Grows, SameFile

LEMMA SaidKept ==
  ASSUME NEW f, Grows, SameFile(f), Said(f),
         \A msg \in Range(fromClient'[f]) : msg \in Range(fromClient[f]) \/ FromAgent(f, msg)'
  PROVE  Said(f)'
<1> SUFFICES ASSUME NEW msg \in Range(fromClient[f])' PROVE FromAgent(f, msg)'
  BY DEF Said
<1>1. msg \in Range(fromClient'[f])
  BY DEF Range
<1> QED
  BY <1>1, MessagesHold DEF Said

LEMMA ToldKept ==
  ASSUME NEW f, Grows, SameFile(f), Told(f), agentState[f] # "init",
         \A msg \in Range(toClient'[f]) : msg \in Range(toClient[f]) \/ ToAgent(f, msg)'
  PROVE  Told(f)'
<1> SUFFICES ASSUME NEW msg \in Range(toClient[f])' PROVE ToAgent(f, msg)'
  BY DEF Told
<1>1. msg \in Range(toClient'[f])
  BY DEF Range
<1> QED
  BY <1>1, MessagesHold DEF Told

LEMMA PassedKept ==
  ASSUME NEW f, Grows, SameFile(f), Passed(f),
         \A s \in Servers : \A msg \in Range(toStorage'[s]) :
           msg \in Range(toStorage[s]) \/ ToServer(f, msg)'
  PROVE  Passed(f)'
<1> SUFFICES ASSUME NEW s \in Servers, NEW msg \in Range(toStorage[s])' PROVE ToServer(f, msg)'
  BY DEF Passed
<1>1. msg \in Range(toStorage'[s])
  BY DEF Range
<1> QED
  BY <1>1, MessagesHold DEF Passed

LEMMA DoneKept ==
  ASSUME NEW f, Grows, SameFile(f), Done(f), agentState'[f] = agentState[f],
         uploadMd5s'[f] = uploadMd5s[f], uploadingIndex'[f] = uploadingIndex[f]
  PROVE  Done(f)'
<1>1. Needed(f)' \subseteq Needed(f) /\ Range(fileMd5s[f])' = Range(fileMd5s[f])
  BY DEF Needed, Grows, SameFile, Range
<1>2. Left(f)' = Left(f)
  BY DEF Left
<1> QED
  BY <1>1, <1>2 DEF Done, Grows, SameFile, InBlock

(* The elements a sequence of Kept has are those of the sequence in the    *)
(* set, all of them.                                                       *)
LEMMA KeptRange ==
  ASSUME NEW md5s \in Seq(Md5s), NEW T, NEW kept \in P!Kept(md5s, T)
  PROVE  /\ Range(kept) \subseteq Range(md5s)
         /\ \A m \in Range(md5s) : m \in T => m \in Range(kept)
<1> DEFINE places == {i \in DOMAIN md5s : md5s[i] \in T}
           n == Cardinality(places)
<1>1. places \subseteq 1 .. Len(md5s) /\ IsFiniteSet(1 .. Len(md5s))
  BY FS_Interval
<1>2. IsFiniteSet(places) /\ n \in Nat
  BY <1>1, FS_Subset, FS_CardinalityType
<1>3. PICK at \in [1 .. n -> places] :
        /\ \A j, k \in 1 .. n : j < k => at[j] < at[k]
        /\ kept = [k \in 1 .. n |-> md5s[at[k]]]
  BY DEF P!Kept, P!Increasing, P!Cardinality, Cardinality
<1>4. \A i \in places : i \in Nat /\ i \in DOMAIN md5s /\ md5s[i] \in T
  OBVIOUS
<1>5. \A j \in DOMAIN md5s : md5s[j] \in T => j \in places
  OBVIOUS
<1> HIDE DEF places, n
<1>6. at \in Injection(1 .. n, places)
  <2>1. ASSUME NEW j \in 1 .. n, NEW k \in 1 .. n, at[j] = at[k] PROVE j = k
    <3>1. at[j] \in Nat /\ ~(at[j] < at[k]) /\ ~(at[k] < at[j])
      BY <1>3, <1>4, <2>1
    <3>2. ~(j < k) /\ ~(k < j)
      BY <1>3, <2>1, <3>1
    <3> QED
      BY <1>2, <3>2
  <2> QED
    BY <1>3, <2>1 DEF Injection, IsInjective
<1>7. Cardinality(1 .. n) = n
  BY <1>2, FS_Interval
<1>8. at \in Surjection(1 .. n, places)
  BY <1>2, <1>6, <1>7, FS_Injection DEF n
<1>9. Range(kept) \subseteq Range(md5s)
  BY <1>3, <1>4 DEF Range
<1>10. ASSUME NEW m \in Range(md5s), m \in T PROVE m \in Range(kept)
  <2>1. PICK i \in DOMAIN md5s : md5s[i] = m
    BY <1>10 DEF Range
  <2>2. PICK k \in 1 .. n : at[k] = i
    BY <1>5, <1>8, <1>10, <2>1 DEF Surjection
  <2> QED
    BY <1>3, <2>1, <2>2 DEF Range
<1> QED
  BY <1>9, <1>10

----------------------------------------------------------------------------
(* What an agent says and knows of the store.                              *)

(* What a step of agent f leaves as it is. *)
AgentSettled(f) ==
  /\ UNCHANGED <<md5_path, idStorage>> /\ fileMd5s'[f] = fileMd5s[f] /\ agentState[f] # "init"

LEMMA SettledSame ==
  ASSUME NEW f, AgentSettled(f)
  PROVE  Blocks' = Blocks /\ Needed(f)' = Needed(f) /\ Range(fileMd5s[f])' = Range(fileMd5s[f])
BY DEF AgentSettled, Blocks, Needed, Range

LEMMA SendBlockPieceStore ==
  ASSUME A!TypeOK, NEW f \in Flows, AgentSettled(f), NEW md5s, NEW k \in 1 .. Len(md5s),
         NEW i \in Nat, Len(md5s) \in Nat, A!SendBlockPiece(f, md5s, k, i),
         uploadMd5s'[f] = md5s, uploadingIndex'[f] = k,
         \A m \in Needed(f) : \E j \in k .. Len(md5s) : m = md5s[j],
         \A j \in k .. Len(md5s) : md5s[j] \in Range(fileMd5s[f])
  PROVE  /\ Done(f)'
         /\ \A msg \in Range(fromClient'[f]) : msg \in Range(fromClient[f]) \/ FromAgent(f, msg)'
<1>1. fromClient[f] \in Seq(A!FromClientMessage)
  BY DEF A!TypeOK
<1>2. InBlock(f)'
  BY SendBlockPieceTokens
<1>3. PICK sent : /\ fromClient'[f] = Append(fromClient[f], sent)
                  /\ sent.type = "upload_block" /\ sent.md5 = md5s[k]
  BY SendBlockPieceTokens
<1>4. Left(f)' = {md5s[j] : j \in k .. Len(md5s)}
  BY DEF Left
<1>5. Done(f)'
  <2>1. Needed(f)' \subseteq Left(f)' /\ Left(f)' \subseteq Range(fileMd5s[f])'
    BY <1>4, SettledSame
  <2>2. agentState'[f] \notin {"waiting_final_result", "succ"}
    BY <1>2 DEF InBlock
  <2> QED
    BY <2>1, <2>2 DEF Done
<1>6. FromAgent(f, sent)'
  <2>1. k \in k .. Len(md5s)
    OBVIOUS
  <2>2. sent.md5 \in Range(fileMd5s[f])' /\ agentState'[f] # "init"
    BY <1>2, <1>3, <2>1, SettledSame DEF InBlock
  <2> QED
    BY <1>3, <2>2 DEF FromAgent
<1>7. Range(fromClient'[f]) = Range(fromClient[f]) \cup {sent}
  BY <1>1, <1>3, RangeOf
<1> QED
  BY <1>5, <1>6, <1>7

LEMMA SendAllStore ==
  ASSUME A!TypeOK, NEW f \in Flows, AgentSettled(f), A!SendUploadAllBlocks(f), Needed(f) = {}
  PROVE  /\ Done(f)'
         /\ \A msg \in Range(fromClient'[f]) : msg \in Range(fromClient[f]) \/ FromAgent(f, msg)'
<1>1. /\ fromClient[f] \in Seq(A!FromClientMessage) /\ A!UploadAllBlocks.type = "upload_all_blocks"
      /\ fromClient'[f] = Append(fromClient[f], A!UploadAllBlocks)
      /\ agentState'[f] = "waiting_final_result"
  BY DEF A!SendUploadAllBlocks, A!Send, A!SetState, A!UploadAllBlocks, A!TypeOK
<1>2. Needed(f)' = {}
  BY SettledSame
<1>3. Done(f)' /\ FromAgent(f, A!UploadAllBlocks)'
  BY <1>1, <1>2 DEF Done, InBlock, FromAgent
<1>4. Range(fromClient'[f]) = Range(fromClient[f]) \cup {A!UploadAllBlocks}
  BY <1>1, RangeOf
<1> QED
  BY <1>3, <1>4

(* What an agent needs to be told: the blocks to upload, each block's      *)
(* acknowledgement, the result.                                            *)
LEMMA AgentHearsStore ==
  ASSUME AgentInv, NEW f \in Flows, AgentSettled(f), NEW msg \in P!ClientMessage,
         Done(f), ToAgent(f, msg), InBlock(f) /\ IsToken(msg) => msg.md5 \in Current(f),
         A!OnUploadResponse(f, msg) \/ A!OnUploadBlockAck(f, msg) \/ A!OnFinalResult(f, msg)
  PROVE  /\ Done(f)'
         /\ \A sent \in Range(fromClient'[f]) : sent \in Range(fromClient[f]) \/ FromAgent(f, sent)'
<1>1. A!TypeOK
  BY DEF AgentInv
<1>2. CASE A!OnUploadResponse(f, msg)
  <2>1. /\ uploadMd5s'[f] = msg.md5s /\ uploadingIndex'[f] = 1 /\ msg.md5s \in Seq(Md5s)
        /\ Needed(f) \subseteq Range(msg.md5s) /\ Range(msg.md5s) \subseteq Range(fileMd5s[f])
    BY <1>1, <1>2 DEF A!OnUploadResponse, A!TypeOK, ToAgent, P!ClientMessage
  <2>2. CASE msg.md5s = <<>> /\ A!SendUploadAllBlocks(f)
    <3>1. Needed(f) = {}
      BY <2>1, <2>2 DEF Range
    <3> QED
      BY <1>1, <2>2, <3>1, SendAllStore
  <2>3. CASE msg.md5s # <<>> /\ A!StartBlock(f, msg.md5s, 1)
    <3>1. A!SendBlockPiece(f, msg.md5s, 1, 0) /\ 1 \in 1 .. Len(msg.md5s) /\ Len(msg.md5s) \in Nat
      BY <2>1, <2>3 DEF A!StartBlock
    <3>2. /\ \A m \in Needed(f) : \E j \in 1 .. Len(msg.md5s) : m = msg.md5s[j]
          /\ \A j \in 1 .. Len(msg.md5s) : msg.md5s[j] \in Range(fileMd5s[f])
      <4>1. DOMAIN msg.md5s = 1 .. Len(msg.md5s)
        BY <2>1
      <4>2. Range(msg.md5s) = {msg.md5s[j] : j \in 1 .. Len(msg.md5s)}
        BY <4>1 DEF Range
      <4> QED
        BY <2>1, <4>2
    <3> QED
      BY <1>1, <2>1, <3>1, <3>2, SendBlockPieceStore
  <2> QED
    BY <1>2, <2>2, <2>3 DEF A!OnUploadResponse
<1>3. CASE A!OnUploadBlockAck(f, msg)
  <2> DEFINE md5s == uploadMd5s[f]
             k == uploadingIndex[f]
             n == Len(md5s)
  <2>1. /\ md5s \in Seq(Md5s) /\ uploadMd5s'[f] = md5s /\ k \in DOMAIN md5s
        /\ uploadingIndex'[f] = k + 1 /\ InBlock(f) /\ IsToken(msg) /\ msg.md5 \in Blocks
    BY <1>1, <1>3 DEF A!OnUploadBlockAck, AgentInv, A!TypeOK, AtABlock, InBlock, IsToken, ToAgent
  <2>2. k \in 1 .. n /\ n \in Nat /\ k \in Nat
    BY <2>1
  <2>3. md5s[k] \in Blocks
    BY <2>1 DEF Current
  <2>4. Needed(f) \subseteq Left(f) /\ Left(f) \subseteq Range(fileMd5s[f])
    BY <2>1 DEF Done
  <2>5. Left(f) = {md5s[j] : j \in k .. n}
    BY DEF Left
  <2> HIDE DEF md5s, k, n
  <2>6. \A m \in Needed(f) : \E j \in k + 1 .. n : m = md5s[j]
    <3> TAKE m \in Needed(f)
    <3>1. PICK j \in k .. n : m = md5s[j]
      BY <2>4, <2>5
    <3>2. j # k
      BY <2>3, <3>1 DEF Needed
    <3>3. j \in k + 1 .. n
      BY <2>2, <3>2
    <3> QED
      BY <3>1, <3>3
  <2>7. \A j \in k + 1 .. n : md5s[j] \in Range(fileMd5s[f])
    <3>1. \A j \in k + 1 .. n : j \in k .. n
      BY <2>2
    <3> QED
      BY <2>4, <2>5, <3>1
  <2>8. CASE A!LastBlock(f) /\ A!SendUploadAllBlocks(f)
    <3>1. k + 1 .. n = {}
      BY <2>2, <2>8 DEF A!LastBlock, k, n, md5s
    <3>2. Needed(f) = {}
      BY <2>6, <3>1
    <3> QED
      BY <1>1, <2>8, <3>2, SendAllStore
  <2>9. CASE ~A!LastBlock(f) /\ A!StartBlock(f, md5s, k + 1)
    <3>1. A!SendBlockPiece(f, md5s, k + 1, 0)
      BY <2>9 DEF A!StartBlock
    <3>2. k + 1 \in 1 .. n
      BY <2>2, <2>9 DEF A!LastBlock, k, n, md5s
    <3>3. n = Len(md5s)
      BY DEF n
    <3> QED
      BY <1>1, <2>1, <2>2, <2>6, <2>7, <3>1, <3>2, <3>3, SendBlockPieceStore
  <2> QED
    BY <1>3, <2>8, <2>9 DEF A!OnUploadBlockAck, md5s, k
<1>4. CASE A!OnFinalResult(f, msg)
  <2>1. /\ UNCHANGED fromClient /\ agentState'[f] \in {"succ", "fail"}
        /\ agentState'[f] = "succ" => fileMd5s[f] \in idStorage
    BY <1>1, <1>4 DEF A!OnFinalResult, A!SetState, A!TypeOK, ToAgent
  <2>2. Done(f)'
    BY <2>1 DEF Done, InBlock, AgentSettled
  <2> QED
    BY <2>1, <2>2
<1> QED
  BY <1>2, <1>3, <1>4

(* Its other steps. *)
LEMMA AgentGoesOnStore ==
  ASSUME AgentInv, NEW f \in Flows, AgentSettled(f), Done(f),
         A!Ignore(f) \/ A!Close(f) \/ A!OnWriteComplete(f)
  PROVE  /\ Done(f)'
         /\ \A msg \in Range(fromClient'[f]) : msg \in Range(fromClient[f]) \/ FromAgent(f, msg)'
<1>1. A!TypeOK /\ fromClient[f] \in Seq(A!FromClientMessage)
  BY DEF AgentInv, A!TypeOK
<1>3. CASE A!Close(f)
  <2>1. PICK n \in 0 .. Len(fromClient[f]) : fromClient'[f] = SubSeq(fromClient[f], 1, n)
    BY <1>1, <1>3 DEF A!Close, A!TypeOK
  <2>2. agentState'[f] = "closed"
    BY <1>1, <1>3 DEF A!Close, A!SetState, A!TypeOK
  <2>3. Done(f)'
    BY <2>2 DEF Done, InBlock
  <2> QED
    BY <1>1, <2>1, <2>3, RangeOf
<1>4. CASE UNCHANGED <<agentState, uploadMd5s, uploadingIndex, fromClient>>
  <2>1. Grows /\ SameFile(f)
    BY <1>4, SettledSame DEF AgentSettled, Grows, SameFile
  <2> QED
    BY <1>4, <2>1, DoneKept
<1>5. CASE /\ agentState[f] = "uploading_blocks"
           /\ A!SendBlockPiece(f, uploadMd5s[f], uploadingIndex[f], pieceIndex[f])
           /\ UNCHANGED <<fileMd5s, uploadMd5s, uploadingIndex>>
  <2> DEFINE md5s == uploadMd5s[f]
             k == uploadingIndex[f]
  <2>1. /\ md5s \in Seq(Md5s) /\ k \in DOMAIN md5s /\ pieceIndex[f] \in Nat /\ InBlock(f)
    BY <1>1, <1>5 DEF AgentInv, A!TypeOK, AtABlock, InBlock
  <2>2. Left(f) = {md5s[j] : j \in k .. Len(md5s)}
    BY DEF Left
  <2>3. /\ \A m \in Needed(f) : \E j \in k .. Len(md5s) : m = md5s[j]
        /\ \A j \in k .. Len(md5s) : md5s[j] \in Range(fileMd5s[f])
    BY <2>1, <2>2 DEF Done
  <2>4. k \in 1 .. Len(md5s) /\ Len(md5s) \in Nat
    BY <2>1
  <2>5. uploadMd5s'[f] = md5s /\ uploadingIndex'[f] = k
    BY <1>5
  <2> QED
    BY <1>1, <1>5, <2>1, <2>3, <2>4, <2>5, SendBlockPieceStore
<1> QED
  BY <1>3, <1>4, <1>5 DEF A!Ignore, A!aVars, A!OnWriteComplete

LEMMA AgentStore ==
  ASSUME P!TypeOK, AgentInv, NEW f \in Flows, AgentMoves(f), AgentAt(f) \in Position,
         FlowToken(f), FlowStore(f)
  PROVE  FlowStore(f)'
<1>1. A!TypeOK /\ toClient[f] \in Seq(P!ClientMessage)
  BY DEF AgentInv, P!TypeOK
<1>2. /\ agentState[f] # "init" /\ UNCHANGED <<proxy, servers, toStorage>>
      /\ toClient'[f] = toClient[f] \/ (toClient[f] # <<>> /\ toClient'[f] = Tail(toClient[f]))
      /\ AgentSays(f)
  BY <1>1, AgentMovesOnly DEF ClientMoves, AgentMoves, AgentReads, AgentWrote, AgentLosesProxy,
                              AgentKilled, P!TypeOK
<1>3. fileMd5s' = fileMd5s /\ agentState'[f] # "init"
  BY <1>1, <1>2
     DEF AgentMoves, AgentReads, AgentWrote, AgentLosesProxy, AgentKilled, A!OnMessage,
         A!OnUploadResponse, A!OnUploadBlockAck, A!OnFinalResult, A!Ignore, A!OnMessageError,
         A!Close, A!OnWriteComplete, A!StartBlock, A!SendBlockPiece, A!SendUploadAllBlocks,
         A!SetState, A!aVars, A!TypeOK
<1>4. AgentSettled(f) /\ SameFile(f)
  BY <1>2, <1>3 DEF AgentSettled, SameFile, proxy, servers
<1>5. Grows
  BY <1>4, SettledSame DEF Grows, AgentSettled
<1>6. ASSUME toClient[f] # <<>>, NEW msg, msg = Head(toClient[f]),
             A!OnUploadResponse(f, msg) \/ A!OnUploadBlockAck(f, msg) \/ A!OnFinalResult(f, msg)
      PROVE  /\ Done(f)'
             /\ \A sent \in Range(fromClient'[f]) :
                  sent \in Range(fromClient[f]) \/ FromAgent(f, sent)'
  <2>1. msg \in P!ClientMessage /\ msg \in Range(toClient[f])
    BY <1>1, <1>6, RangeOf
  <2>2. ToAgent(f, msg)
    BY <1>2, <2>1 DEF FlowStore, Told
  <2>3. InBlock(f) /\ IsToken(msg) => msg.md5 \in Current(f)
    BY <2>1 DEF FlowToken, TokensCurrent, TokensIn, InBlock, A!Alive, Range
  <2> QED
    BY <1>4, <1>6, <2>1, <2>2, <2>3, AgentHearsStore DEF FlowStore
<1>7. /\ Done(f)'
      /\ \A sent \in Range(fromClient'[f]) : sent \in Range(fromClient[f]) \/ FromAgent(f, sent)'
  BY <1>4, <1>6, AgentGoesOnStore
     DEF AgentMoves, AgentReads, AgentWrote, AgentLosesProxy, AgentKilled, A!OnMessage,
         A!OnMessageError, FlowStore
<1>8. Said(f)'
  BY <1>4, <1>5, <1>7, SaidKept DEF FlowStore
<1>9. Told(f)'
  <2>1. Range(toClient'[f]) \subseteq Range(toClient[f])
    BY <1>1, <1>2, RangeOf
  <2> QED
    BY <1>2, <1>4, <1>5, <2>1, ToldKept DEF FlowStore
<1>10. Passed(f)'
  BY <1>2, <1>4, <1>5, PassedKept DEF FlowStore
<1>11. Asked(f)'
  BY <1>2, <1>3 DEF FlowStore, Asked, proxy
<1> QED
  BY <1>7, <1>8, <1>9, <1>10, <1>11 DEF FlowStore

----------------------------------------------------------------------------
(* What the proxy says of the store.                                       *)

ProxySettled == UNCHANGED <<agents, md5_path>>

LEMMA ProxySettledSame ==
  ASSUME NEW f, ProxySettled
  PROVE  /\ Blocks' = Blocks /\ Needed(f)' = Needed(f)
         /\ Range(fileMd5s[f])' = Range(fileMd5s[f]) /\ agentState'[f] = agentState[f]
         /\ SameFile(f)
BY DEF ProxySettled, agents, Blocks, Needed, Range, SameFile

(* Blocks no server is known to store include all that none stores. *)
LEMMA ResponseStore ==
  ASSUME P!TypeOK, A!TypeOK, ViewMatchesDisk, NEW f \in Flows,
         NEW need \in P!NeedUpload(fileMd5s[f])
  PROVE  Needed(f) \subseteq Range(need) /\ Range(need) \subseteq Range(fileMd5s[f])
<1>1. fileMd5s[f] \in Seq(Md5s)
  BY DEF A!TypeOK
<1>2. ASSUME NEW m \in Needed(f) PROVE m \in {k \in Md5s : P!StoragesOf(k) = {}}
  <2>1. m \in Md5s
    BY <1>1, <1>2 DEF Needed, Range
  <2>2. \A s \in P!Connected : s \in Servers /\ storageMd5s[s] \subseteq md5_path[s]
    BY DEF ViewMatchesDisk, P!Connected
  <2>3. \A s \in Servers : m \notin md5_path[s]
    BY <1>2 DEF Needed, Blocks
  <2> QED
    BY <2>1, <2>2, <2>3 DEF P!StoragesOf
<1>3. /\ Range(need) \subseteq Range(fileMd5s[f])
      /\ \A m \in Range(fileMd5s[f]) :
           m \in {k \in Md5s : P!StoragesOf(k) = {}} => m \in Range(need)
  BY <1>1, KeptRange DEF P!NeedUpload
<1> QED
  BY <1>2, <1>3 DEF Needed

LEMMA ReplyStore ==
  ASSUME P!TypeOK, NEW f \in Flows, NEW reply, P!SendToClient(f, reply), ToAgent(f, reply)'
  PROVE  /\ \A m \in Range(toClient'[f]) : m \in Range(toClient[f]) \/ ToAgent(f, m)'
         /\ \A g \in Flows \ {f} : toClient'[g] = toClient[g]
<1>1. /\ toClient[f] \in Seq(P!ClientMessage) /\ toClient'[f] = Append(toClient[f], reply)
      /\ \A g \in Flows \ {f} : toClient'[g] = toClient[g]
  BY DEF P!SendToClient, P!TypeOK
<1>2. Range(toClient'[f]) = Range(toClient[f]) \cup {reply}
  BY <1>1, RangeOf
<1> QED
  BY <1>1, <1>2

LEMMA CloseStore ==
  ASSUME P!TypeOK, NEW f \in Flows, P!ClientOnClose(f)
  PROVE  /\ UNCHANGED <<idStorage, uploadingMd5s>> /\ clientState'[f] = "none"
         /\ Range(toClient'[f]) \subseteq Range(toClient[f])
<1>1. PICK n \in 0 .. Len(toClient[f]) :
        toClient' = [toClient EXCEPT ![f] = SubSeq(toClient[f], 1, n)]
  BY DEF P!ClientOnClose, P!Truncated
<1>2. toClient[f] \in Seq(P!ClientMessage) /\ toClient'[f] = SubSeq(toClient[f], 1, n)
  BY <1>1 DEF P!TypeOK
<1>3. Range(toClient'[f]) \subseteq Range(toClient[f])
  BY <1>2, RangeOf
<1> QED
  BY <1>3 DEF P!ClientOnClose, P!upload, P!SetClientState, P!TypeOK

(* What a handler says and records.                                        *)
RecordedOrNot(f) ==
  \/ UNCHANGED idStorage
  \/ /\ idStorage' = idStorage \cup {fileMd5s[f]}
     /\ Needed(f) = {} /\ agentState[f] # "init"

LEMMA HandlerStore ==
  ASSUME P!TypeOK, A!TypeOK, ViewMatchesDisk, ProxySettled, NEW f \in Flows,
         NEW msg \in P!FromClientMessage, P!ClientOnMessage(f, msg) \/ P!LateMessage(f, msg),
         FromAgent(f, msg), Asked(f)
  PROVE  /\ RecordedOrNot(f) /\ Asked(f)'
         /\ \A m \in Range(toClient'[f]) : m \in Range(toClient[f]) \/ ToAgent(f, m)'
         /\ \A g \in Flows \ {f} : uploadingMd5s'[g] = uploadingMd5s[g]
<1> DEFINE Goal == /\ RecordedOrNot(f) /\ Asked(f)'
                   /\ \A m \in Range(toClient'[f]) : m \in Range(toClient[f]) \/ ToAgent(f, m)'
                   /\ \A g \in Flows \ {f} : uploadingMd5s'[g] = uploadingMd5s[g]
<1>1. /\ UNCHANGED <<agentState, fileMd5s>>
      /\ lateState'[f] = "handled" \/ lateState'[f] = lateState[f]
  BY DEF ProxySettled, agents, P!ClientOnMessage, P!LateMessage, P!TypeOK
<1>2. CASE msg.type = "upload_request" /\ P!HandleUploadRequest(f, msg)
  <2>1. msg.md5s = fileMd5s[f] /\ agentState[f] # "init"
    BY <1>2 DEF FromAgent
  <2>2. PICK need \in P!NeedUpload(fileMd5s[f]) : P!SendToClient(f, P!UploadResponse(need))
    BY <1>2, <2>1 DEF P!HandleUploadRequest
  <2>3. Needed(f) \subseteq Range(need) /\ Range(need) \subseteq Range(fileMd5s[f])
    BY <2>2, ResponseStore
  <2>4. ToAgent(f, P!UploadResponse(need))'
    <3>1. Needed(f)' \subseteq Range(need) /\ Range(need) \subseteq Range(fileMd5s[f])'
      BY <2>3, ProxySettledSame
    <3>2. P!UploadResponse(need).type = "upload_response" /\ P!UploadResponse(need).md5s = need
      BY DEF P!UploadResponse
    <3> QED
      BY <3>1, <3>2 DEF ToAgent, Range
  <2>5. \A m \in Range(toClient'[f]) : m \in Range(toClient[f]) \/ ToAgent(f, m)'
    BY <2>2, <2>4, ReplyStore
  <2>6. /\ uploadingMd5s' = [uploadingMd5s EXCEPT ![f] = fileMd5s[f]] /\ UNCHANGED idStorage
    BY <1>2, <2>1 DEF P!HandleUploadRequest
  <2>7. Asked(f)'
    BY <1>1, <2>1, <2>6 DEF Asked, P!TypeOK
  <2> QED
    BY <2>5, <2>6, <2>7 DEF RecordedOrNot, P!TypeOK
<1>3. CASE /\ msg.type = "upload_all_blocks"
           /\ \/ clientState[f] = "waiting_upload_block" /\ P!HandleUploadAllBlocks(f)
              \/ lateState[f] = "waiting_upload_block" /\ P!LateRecord(f)
  <2>1. /\ uploadingMd5s[f] = fileMd5s[f] /\ agentState[f] # "init" /\ Needed(f) = {}
        /\ idStorage' = idStorage \cup {fileMd5s[f]} /\ UNCHANGED uploadingMd5s
    BY <1>3 DEF P!HandleUploadAllBlocks, P!LateRecord, FromAgent, Asked, P!upload
  <2>2. ToAgent(f, P!FileStorageSucc)'
    BY <1>1, <2>1 DEF ToAgent, P!FileStorageSucc
  <2>3. Asked(f)'
    BY <1>1, <2>1 DEF Asked
  <2>4. UNCHANGED toClient \/ P!SendToClient(f, P!FileStorageSucc)
    BY <1>3 DEF P!HandleUploadAllBlocks, P!LateRecord
  <2>5. \A m \in Range(toClient'[f]) : m \in Range(toClient[f]) \/ ToAgent(f, m)'
    BY <2>2, <2>4, ReplyStore
  <2> QED
    BY <2>1, <2>3, <2>5 DEF RecordedOrNot
<1>4. CASE \/ P!HandleUploadBlock(f, msg) \/ P!TransferNextBlock(f)
           \/ \E need : P!NothingToTransfer(f, msg, need) \/ P!StartDownload(f, msg, need)
                          \/ P!LateStart(f, need)
           \/ P!LateNextBlock(f) \/ P!LateIgnored(f, msg)
  <2>1. /\ UNCHANGED <<idStorage, uploadingMd5s, toClient>>
        /\ clientState'[f] = clientState[f] \/ clientState'[f] = "waiting_transfer_block"
    BY <1>4 DEF P!HandleUploadBlock, P!StartBlock, P!TooFewServers, P!RelayPiece,
         P!RelayToExpired, P!TransferNextBlock, P!NothingToTransfer, P!StartDownload,
         P!LateStart, P!LateNextBlock, P!LateIgnored, P!SetClientState, P!Dies, P!upload, P!TypeOK
  <2>2. Asked(f)'
    BY <1>1, <2>1 DEF Asked
  <2> QED
    BY <2>1, <2>2 DEF RecordedOrNot
<1>5. CASE P!HandleFileNotExist(f, msg) \/ P!TransferEnds(f)
  <2>1. /\ UNCHANGED <<idStorage, uploadingMd5s>>
        /\ clientState'[f] \in {clientState[f], "have_transfered_all_blocks"}
    BY <1>5 DEF P!HandleFileNotExist, P!TransferEnds, P!SetClientState, P!upload, P!TypeOK
  <2>2. PICK reply : /\ P!SendToClient(f, reply)
                     /\ reply.type \in {"file_not_exist", "transfer_all_blocks"}
    BY <1>5 DEF P!HandleFileNotExist, P!TransferEnds, P!FileNotExist, P!TransferAllBlocks
  <2>3. ToAgent(f, reply)'
    BY <2>2 DEF ToAgent
  <2>4. Asked(f)'
    BY <1>1, <2>1 DEF Asked
  <2> QED
    BY <2>1, <2>2, <2>3, <2>4, ReplyStore DEF RecordedOrNot
<1>6. CASE P!ClientOnClose(f)
  <2>1. Asked(f)'
    BY <1>1, <1>6, CloseStore DEF Asked
  <2> QED
    BY <1>6, <2>1, CloseStore DEF RecordedOrNot
<1>7. CASE P!ClientOnMessage(f, msg)
  BY <1>2, <1>3, <1>4, <1>5, <1>6, <1>7
     DEF P!ClientOnMessage, P!ClientHandles, P!HandleDownloadRequest,
         P!HandleTransferBlockAck, P!DownloadRefused, P!TransferRefused, P!ClientMessageError
<1>8. CASE P!LateMessage(f, msg)
  BY <1>3, <1>4, <1>8 DEF P!LateMessage, P!LateHandles
<1> QED
  BY <1>7, <1>8

(* What it passes on to the servers. *)
LEMMA HandlerPasses ==
  ASSUME P!TypeOK, A!TypeOK, ProxySettled, NEW f \in Flows, NEW msg \in P!FromClientMessage,
         P!ClientOnMessage(f, msg) \/ P!LateMessage(f, msg), FromAgent(f, msg),
         NEW s \in Servers, NEW m \in Range(toStorage'[s])
  PROVE  m \in Range(toStorage[s]) \/ ToServer(f, m)'
<1>1. toStorage[s] \in Seq(P!ToStorageMessage)
  BY DEF P!TypeOK
<1>2. ASSUME NEW sent, toStorage'[s] = Append(toStorage[s], sent), ToServer(f, sent)'
      PROVE  m \in Range(toStorage[s]) \/ ToServer(f, m)'
  BY <1>1, <1>2, RangeOf
<1>3. CASE msg.type = "upload_block" /\ P!HandleUploadBlock(f, msg)
  <2>1. UNCHANGED toStorage \/ \E to : P!SendToStorages(to, P!SetFlowId(msg, f))
    BY <1>3 DEF P!HandleUploadBlock, P!StartBlock, P!TooFewServers, P!RelayPiece,
                P!RelayToExpired
  <2>2. \/ toStorage'[s] = toStorage[s]
        \/ toStorage'[s] = Append(toStorage[s], P!SetFlowId(msg, f))
    BY <2>1 DEF P!SendToStorages
  <2>3. /\ P!SetFlowId(msg, f).md5 = msg.md5 /\ msg.md5 \in Range(fileMd5s[f])
        /\ agentState[f] # "init"
    BY <1>3, Relayed DEF FromAgent
  <2>4. ToServer(f, P!SetFlowId(msg, f))'
    BY <2>3, ProxySettledSame DEF ToServer
  <2> QED
    BY <1>2, <2>2, <2>4
<1>4. ASSUME NEW block, P!RequestBlock(f, block) PROVE m \in Range(toStorage[s]) \/ ToServer(f, m)'
  <2>1. ToServer(f, P!DownLoadBlock(block, f))'
    BY DEF ToServer, P!DownLoadBlock
  <2> QED
    BY <1>2, <1>4, <2>1, RequestServes
<1>5. CASE P!ClientOnClose(f)
  <2>1. \/ toStorage'[s] = toStorage[s]
        \/ toStorage'[s] = Append(toStorage[s], P!ClientClean(f))
    BY <1>5 DEF P!ClientOnClose, P!SendToStorages
  <2>2. ToServer(f, P!ClientClean(f))'
    BY DEF ToServer, P!ClientClean
  <2> QED
    BY <1>2, <2>1, <2>2
<1>6. CASE \/ P!TransferNextBlock(f) \/ P!LateNextBlock(f)
           \/ \E need : P!StartDownload(f, msg, need) \/ P!LateStart(f, need)
  <2>1. UNCHANGED toStorage \/ \E block : P!RequestBlock(f, block)
    BY <1>6 DEF P!TransferNextBlock, P!StartDownload, P!LateNextBlock, P!LateStart,
                P!RequestIfStored
  <2> QED
    BY <1>4, <2>1
<1>7. CASE P!HandleUploadRequest(f, msg) \/ P!HandleUploadAllBlocks(f)
           \/ P!HandleFileNotExist(f, msg) \/ P!TransferEnds(f)
           \/ (\E need : P!NothingToTransfer(f, msg, need))
           \/ P!LateRecord(f) \/ P!LateIgnored(f, msg)
  BY <1>7 DEF P!HandleUploadRequest, P!HandleUploadAllBlocks, P!HandleFileNotExist,
              P!TransferEnds, P!NothingToTransfer, P!LateRecord, P!LateIgnored
<1>8. CASE P!ClientOnMessage(f, msg)
  BY <1>3, <1>5, <1>6, <1>7, <1>8
     DEF P!ClientOnMessage, P!ClientHandles, P!HandleDownloadRequest,
         P!HandleTransferBlockAck, P!DownloadRefused, P!TransferRefused, P!ClientMessageError
<1>9. CASE P!LateMessage(f, msg)
  BY <1>3, <1>6, <1>7, <1>9 DEF P!LateMessage, P!LateHandles
<1> QED
  BY <1>8, <1>9

(* A flow whose agent does nothing: what is new in the queues must hold.   *)
SameAgent(g) ==
  /\ agentState'[g] = agentState[g] /\ fileMd5s'[g] = fileMd5s[g]
  /\ uploadMd5s'[g] = uploadMd5s[g] /\ uploadingIndex'[g] = uploadingIndex[g]

LEMMA FlowStoreKept ==
  ASSUME NEW g \in Flows, FlowStore(g), Grows, SameAgent(g), Asked(g)',
         \A msg \in Range(fromClient'[g]) : msg \in Range(fromClient[g]) \/ FromAgent(g, msg)',
         agentState[g] # "init" =>
           \A msg \in Range(toClient'[g]) : msg \in Range(toClient[g]) \/ ToAgent(g, msg)',
         \A s \in Servers : \A msg \in Range(toStorage'[s]) :
           msg \in Range(toStorage[s]) \/ ToServer(g, msg)'
  PROVE  FlowStore(g)'
<1>1. SameFile(g)
  BY DEF SameAgent, SameFile
<1>2. Said(g)'
  BY <1>1, SaidKept DEF FlowStore
<1>3. Told(g)'
  <2>1. CASE agentState[g] = "init"
    BY <2>1 DEF Told, SameAgent
  <2>2. CASE agentState[g] # "init"
    BY <1>1, <2>2, ToldKept DEF FlowStore
  <2> QED
    BY <2>1, <2>2
<1>4. Passed(g)'
  BY <1>1, PassedKept DEF FlowStore
<1>5. Done(g)'
  BY <1>1, DoneKept DEF FlowStore, SameAgent
<1> QED
  BY <1>2, <1>3, <1>4, <1>5 DEF FlowStore

(* The proxy serves a client. *)
LEMMA ServedStore ==
  ASSUME BackupCount = 1, P!TypeOK, A!TypeOK, SelectedConnected, LateGone, ViewMatchesDisk,
         StoreInv, NEW f \in Flows, ProxyServesClient(f)
  PROVE  StoreInv'
<1>1. /\ ServesOnly(f) /\ ProxySettled /\ UNCHANGED <<servers, agents>>
      /\ \A g \in Flows \ {f} : fromClient'[g] = fromClient[g]
  BY ProxyServes DEF ServesOnly, ProxySettled, servers
<1>2. \A g : SameAgent(g) /\ Blocks' = Blocks /\ Needed(g)' = Needed(g)
  BY <1>1, ProxySettledSame DEF SameAgent, agents
<1>3. fromClient[f] \in Seq(P!FromClientMessage) /\ FlowStore(f)
  BY ClientServed DEF StoreInv
<1>4. /\ RecordedOrNot(f) /\ Asked(f)'
      /\ \A m \in Range(fromClient'[f]) : m \in Range(fromClient[f]) \/ FromAgent(f, m)'
      /\ \A m \in Range(toClient'[f]) : m \in Range(toClient[f]) \/ ToAgent(f, m)'
      /\ \A s \in Servers : \A m \in Range(toStorage'[s]) :
           m \in Range(toStorage[s]) \/ ToServer(f, m)'
      /\ \A g \in Flows \ {f} : /\ uploadingMd5s'[g] = uploadingMd5s[g]
                                /\ toClient'[g] = toClient[g]
  <2>1. CASE /\ P!ClientOnClose(f) /\ UNCHANGED fromClient
             /\ UNCHANGED lateState \/ lateState' = [lateState EXCEPT ![f] = clientState[f]]
    <3>1. P!ClientOnClose(f) /\ UNCHANGED fromClient
      BY <2>1
    <3>2. /\ UNCHANGED <<idStorage, uploadingMd5s>>
          /\ Range(toClient'[f]) \subseteq Range(toClient[f])
          /\ \A g \in Flows \ {f} : toClient'[g] = toClient[g]
      BY <3>1, CloseStore, CloseLeavesVotes
    <3>4. Asked(f)'
      <4>1. clientState'[f] = "none" /\ lateState'[f] \in {lateState[f], clientState[f]}
        BY <2>1, CloseStore DEF P!TypeOK
      <4>2. Asked(f) /\ agentState'[f] = agentState[f] /\ fileMd5s'[f] = fileMd5s[f]
        BY <1>1, <1>3 DEF FlowStore, agents
      <4> QED
        BY <3>2, <4>1, <4>2 DEF Asked
    <3>3. ASSUME NEW s \in Servers, NEW m \in Range(toStorage'[s])
          PROVE  m \in Range(toStorage[s]) \/ ToServer(f, m)'
      <4>1. \/ toStorage'[s] = toStorage[s]
            \/ toStorage'[s] = Append(toStorage[s], P!ClientClean(f))
        BY <3>1 DEF P!ClientOnClose, P!SendToStorages
      <4>2. ToServer(f, P!ClientClean(f))'
        BY DEF ToServer, P!ClientClean
      <4>3. toStorage[s] \in Seq(P!ToStorageMessage)
        BY DEF P!TypeOK
      <4>4. Range(Append(toStorage[s], P!ClientClean(f))) =
              Range(toStorage[s]) \cup {P!ClientClean(f)}
        BY <4>3, RangeOf
      <4> QED
        BY <3>3, <4>1, <4>2, <4>4
    <3> QED
      BY <3>1, <3>2, <3>3, <3>4 DEF RecordedOrNot
  <2>2. CASE \E msg \in P!FromClientMessage :
               /\ fromClient[f] # <<>> /\ msg = Head(fromClient[f])
               /\ P!ClientOnMessage(f, msg) \/ P!LateMessage(f, msg)
               /\ fromClient'[f] \in {Tail(fromClient[f]), <<>>}
    <3>1. PICK msg \in P!FromClientMessage :
            /\ fromClient[f] # <<>> /\ msg = Head(fromClient[f])
            /\ P!ClientOnMessage(f, msg) \/ P!LateMessage(f, msg)
            /\ fromClient'[f] \in {Tail(fromClient[f]), <<>>}
      BY <2>2
    <3>2. msg \in Range(fromClient[f]) /\ Range(fromClient'[f]) \subseteq Range(fromClient[f])
      <4>1. Range(<<>>) = {}
        BY DEF Range
      <4> QED
        BY <1>3, <3>1, <4>1, RangeOf
    <3>3. FromAgent(f, msg) /\ Asked(f)
      BY <1>3, <3>2 DEF FlowStore, Said
    <3>4. \A g \in Flows \ {f} : toClient'[g] = toClient[g]
      BY <3>1, HandlerVotes
    <3> QED
      BY <1>1, <3>1, <3>2, <3>3, <3>4, HandlerStore, HandlerPasses
  <2> QED
    BY <2>1, <2>2, ClientServed
<1>5. Grows
  BY <1>2, <1>4 DEF Grows, RecordedOrNot
<1>6. FlowStore(f)'
  BY <1>2, <1>3, <1>4, <1>5, FlowStoreKept
<1>7. ASSUME NEW g \in Flows \ {f} PROVE FlowStore(g)'
  <2>1. FlowStore(g) /\ Asked(g)'
    BY <1>1, <1>2, <1>4 DEF StoreInv, FlowStore, Asked, ServesOnly, SameAgent
  <2>2. ASSUME NEW s \in Servers, NEW m \in Range(toStorage'[s])
        PROVE  m \in Range(toStorage[s]) \/ ToServer(g, m)'
    <3>1. toStorage[s] \in Seq(P!ToStorageMessage)
      BY DEF P!TypeOK
    <3>2. CASE toStorage'[s] = toStorage[s]
      BY <2>2, <3>2
    <3>3. ASSUME NEW sent, FlowMessage(f, sent), toStorage'[s] = Append(toStorage[s], sent)
          PROVE  m \in Range(toStorage[s]) \/ ToServer(g, m)'
      <4>1. ToServer(g, sent)'
        BY <3>3 DEF FlowMessage, ToServer
      <4> QED
        BY <2>2, <3>1, <3>3, <4>1, RangeOf
    <3> QED
      BY <1>1, <3>2, <3>3 DEF ServesOnly
  <2> QED
    BY <1>1, <1>2, <1>4, <1>5, <2>1, <2>2, FlowStoreKept
<1>8. \A id \in idStorage' : Range(id) \subseteq Blocks'
  BY <1>2, <1>4 DEF StoreInv, RecordedOrNot, Needed
<1>9. \A s \in Servers : DiskOf(s)'
  BY <1>1 DEF StoreInv, DiskOf, servers
<1> QED
  BY <1>6, <1>7, <1>8, <1>9 DEF StoreInv

(* A client connects: a new flow, of which nothing was said. *)
LEMMA NewAgentStore ==
  ASSUME A!TypeOK, NEW f \in Flows, agentState[f] = "init", fromClient[f] = <<>>,
         toClient'[f] = <<>>, UNCHANGED toStorage, Passed(f), clientState'[f] = "init",
         lateState'[f] = "none",
         NEW md5s, A!OnConnection(f, md5s)
  PROVE  FlowStore(f)'
<1>1. /\ fileMd5s'[f] = md5s /\ agentState'[f] = "waiting_upload_response"
      /\ fromClient'[f] = <<A!UploadRequest(md5s)>>
  BY DEF A!OnConnection, A!Send, A!SetState, A!TypeOK
<1>2. Said(f)'
  <2>1. Range(fromClient'[f]) = {A!UploadRequest(md5s)}
    BY <1>1 DEF Range
  <2>2. FromAgent(f, A!UploadRequest(md5s))'
    BY <1>1 DEF FromAgent, A!UploadRequest
  <2>3. Range(fromClient[f])' = Range(fromClient'[f])
    BY DEF Range
  <2> QED
    BY <2>1, <2>2, <2>3 DEF Said
<1>3. Told(f)'
  <2>1. Range(toClient[f])' = {}
    BY DEF Range
  <2> QED
    BY <2>1 DEF Told
<1>4. Passed(f)'
  <2> SUFFICES ASSUME NEW s \in Servers, NEW msg \in Range(toStorage[s])' PROVE ToServer(f, msg)'
    BY DEF Passed
  <2>1. msg \in Range(toStorage[s])
    BY DEF Range
  <2> QED
    BY <2>1 DEF Passed, ToServer
<1> QED
  BY <1>1, <1>2, <1>3, <1>4 DEF FlowStore, Asked, Done, InBlock

LEMMA SameDisk ==
  UNCHANGED servers => Blocks' = Blocks /\ \A s \in Servers : DiskOf(s) => DiskOf(s)'
BY DEF servers, Blocks, DiskOf

LEMMA ClientSideStore ==
  ASSUME BackupCount = 1, P!TypeOK, AgentInv, D!TypeOK, LateGone, UploadInv, TokenInv,
         ViewMatchesDisk, StoreInv, NEW f \in Flows, ClientSideStep(f)
  PROVE  StoreInv'
<1>1. /\ A!TypeOK /\ Unborn /\ OneRole /\ FlowToken(f) /\ FlowStore(f)
      /\ AgentAt(f) \in Position /\ nextFlow \in Nat /\ f \in Nat
  BY FlowsAssumption DEF AgentInv, UploadInv, AgentPlaced, TokenInv, StoreInv, P!TypeOK
<1>2. ASSUME UNCHANGED <<servers, idStorage>>, \A g \in Flows : FlowStore(g)'
      PROVE  StoreInv'
  BY <1>2, SameDisk DEF StoreInv
<1>3. ASSUME UNCHANGED <<servers, idStorage, toStorage, uploadingMd5s, lateState>>, NEW g \in Flows,
             SameAgent(g),
             clientState'[g] # "waiting_upload_block" \/ clientState'[g] = clientState[g],
             \A msg \in Range(fromClient'[g]) : msg \in Range(fromClient[g]) \/ FromAgent(g, msg)',
             agentState[g] # "init" => toClient'[g] = toClient[g]
      PROVE  FlowStore(g)'
  <2>1. Grows
    BY <1>3, SameDisk DEF Grows
  <2>2. FlowStore(g) /\ Asked(g)'
    BY <1>3 DEF StoreInv, FlowStore, Asked, SameAgent
  <2> QED
    BY <1>3, <2>1, <2>2, FlowStoreKept
<1>4. ASSUME UNCHANGED <<servers, idStorage, toStorage, uploadingMd5s, lateState, clientState>>,
             \A g \in Flows \ {f} : SameClient(g) /\ fileMd5s'[g] = fileMd5s[g]
                                    /\ toClient'[g] = toClient[g],
             FlowStore(f)'
      PROVE  StoreInv'
  BY <1>2, <1>3, <1>4 DEF SameClient, SameAgent
<1>5. CASE AgentMoves(f)
  <2>1. /\ ClientMoves(f) /\ UNCHANGED fileMd5s
        /\ \A g \in Flows \ {f} : toClient'[g] = toClient[g]
    BY <1>1, <1>5, AgentMovesOnly
       DEF AgentMoves, AgentReads, AgentWrote, AgentLosesProxy, AgentKilled, P!TypeOK, A!OnMessage,
           A!OnUploadResponse, A!OnUploadBlockAck, A!OnFinalResult, A!Ignore, A!OnMessageError,
           A!Close, A!OnWriteComplete, A!aVars
  <2>2. FlowStore(f)'
    BY <1>1, <1>5, AgentStore
  <2> QED
    BY SMTT(60), <1>4, <2>1, <2>2 DEF ClientMoves, proxy
<1>6. CASE DownloaderMoves(f)
  <2>1. /\ ClientMoves(f) /\ UNCHANGED agents /\ agentState[f] = "init"
        /\ \A g \in Flows \ {f} : toClient'[g] = toClient[g]
        /\ \/ fromClient'[f] = fromClient[f]
           \/ \E m : fromClient'[f] = Append(fromClient[f], D!TransferBlockAck(m))
           \/ \E n \in 0 .. Len(fromClient[f]) : fromClient'[f] = SubSeq(fromClient[f], 1, n)
    BY <1>1, <1>6, DownloaderMovesOnly
       DEF DownloaderMoves, DownloaderReads, DownloaderLosesProxy, DownloaderKilled, P!TypeOK,
           OneRole
  <2>2. ASSUME NEW msg \in Range(fromClient'[f])
        PROVE  msg \in Range(fromClient[f]) \/ FromAgent(f, msg)'
    <3>1. fromClient[f] \in Seq(A!FromClientMessage)
      BY <1>1 DEF A!TypeOK
    <3>2. ASSUME NEW m, fromClient'[f] = Append(fromClient[f], D!TransferBlockAck(m))
          PROVE  msg \in Range(fromClient[f]) \/ FromAgent(f, msg)'
      <4>1. Range(fromClient'[f]) = Range(fromClient[f]) \cup {D!TransferBlockAck(m)}
        BY <3>1, <3>2, RangeOf
      <4>2. FromAgent(f, D!TransferBlockAck(m))'
        BY DEF FromAgent, D!TransferBlockAck
      <4> QED
        BY <2>2, <4>1, <4>2
    <3> QED
      BY <2>1, <2>2, <3>1, <3>2, RangeOf
  <2>3. FlowStore(f)'
    BY <1>3, <2>1, <2>2 DEF ClientMoves, proxy, agents, SameAgent
  <2> QED
    BY <1>4, <2>1, <2>3 DEF ClientMoves, proxy, agents
<1>7. CASE Connects(f)
  <2>1. UNCHANGED <<servers, idStorage, toStorage, uploadingMd5s, lateState, toClient>>
    BY <1>1, <1>7, ConnectsOnly
       DEF Connects, AgentConnects, DownloaderConnects, P!ClientOnConnection, P!upload,
           P!storages
  <2>2. /\ f = nextFlow /\ clientState'[f] = "init" /\ fromClient[f] = <<>>
        /\ \A h \in Flows \ {f} : SameClient(h) /\ clientState'[h] = clientState[h]
    BY <1>1, <1>7, ConnectsOnly
  <2>3. agentState[f] = "init" /\ toClient'[f] = <<>> /\ lateState'[f] = "none"
    BY <1>1, <2>1, <2>2 DEF Unborn, FlowToken, LateGone
  <2>4. /\ \A h \in Flows \ {f} : fileMd5s'[h] = fileMd5s[h]
        /\ FlowStore(f)'
    <3>1. ASSUME NEW md5s, A!OnConnection(f, md5s)
          PROVE  (\A h \in Flows \ {f} : fileMd5s'[h] = fileMd5s[h]) /\ FlowStore(f)'
      <4>1. Passed(f)
        BY <1>1 DEF FlowStore
      <4>2. \A h \in Flows \ {f} : fileMd5s'[h] = fileMd5s[h]
        BY <1>1, <3>1 DEF A!OnConnection, A!TypeOK
      <4> QED
        BY <1>1, <2>1, <2>2, <2>3, <3>1, <4>1, <4>2, NewAgentStore
    <3>2. CASE AgentConnects(f)
      BY <3>1, <3>2 DEF AgentConnects
    <3>3. CASE DownloaderConnects(f)
      <4>1. PICK id, have :
              fromClient' = [fromClient EXCEPT ![f] = Append(@, D!DownLoadRequest(id, have))]
        BY <3>3 DEF DownloaderConnects, D!OnConnection, D!Send
      <4>2. UNCHANGED agents
        BY <3>3 DEF DownloaderConnects
      <4>3. fromClient'[f] = <<D!DownLoadRequest(id, have)>>
        <5>1. Append(<<>>, D!DownLoadRequest(id, have)) = <<D!DownLoadRequest(id, have)>>
          OBVIOUS
        <5> QED
          BY <1>1, <2>2, <4>1, <5>1 DEF A!TypeOK
      <4>4. Range(fromClient'[f]) = {D!DownLoadRequest(id, have)}
        BY <4>3 DEF Range
      <4>5. FromAgent(f, D!DownLoadRequest(id, have))'
        BY DEF FromAgent, D!DownLoadRequest
      <4>6. FlowStore(f)'
        BY <1>3, <2>1, <2>2, <2>3, <4>2, <4>4, <4>5 DEF SameAgent, agents
      <4> QED
        BY <4>2, <4>6 DEF agents
    <3> QED
      BY <1>7, <3>2, <3>3 DEF Connects
  <2>5. ASSUME NEW g \in Flows PROVE FlowStore(g)'
    BY <1>3, <2>1, <2>2, <2>4, <2>5 DEF SameClient, SameAgent
  <2> QED
    BY <1>2, <2>1, <2>5
<1>8. CASE ProxyServesClient(f)
  BY <1>1, <1>8, ServedStore DEF UploadInv
<1>9. CASE SessionDestroyed(f)
  <2>1. UNCHANGED <<servers, idStorage, toStorage, uploadingMd5s, lateState, clientState, agents,
                    fromClient, toClient>>
    BY <1>9 DEF SessionDestroyed, P!Expire, clients
  <2> QED
    BY <1>2, <1>3, <2>1 DEF agents, SameAgent
<1> QED
  BY <1>5, <1>6, <1>7, <1>8, <1>9 DEF ClientSideStep

----------------------------------------------------------------------------
(* What the servers store.                                                 *)

StoresBlock(s, msg) ==
  /\ msg = Head(toStorage[s]) /\ toStorage[s] # <<>> /\ msg.type = "upload_block"
  /\ S!StoreBlock(s, msg) \/ (MayTear /\ S!CrashWhileStoring(s, msg))

LEMMA DiskSteps ==
  ASSUME P!TypeOK, S!TypeOK, NEW s \in Servers, StorageMoves(s)
  PROVE  UNCHANGED <<md5_path, file>> \/ \E msg \in P!ToStorageMessage : StoresBlock(s, msg)
<1>1. ASSUME toStorage[s] # <<>> PROVE Head(toStorage[s]) \in P!ToStorageMessage
  BY <1>1 DEF P!TypeOK
<1>2. CASE ServerConnects(s)
  BY <1>2 DEF ServerConnects, S!OnConnection, S!disk
<1>3. CASE StorageReads(s)
  <2>1. toStorage[s] # <<>> /\ StorageHandles(s, Head(toStorage[s]))
    BY <1>3 DEF StorageReads
  <2> DEFINE msg == Head(toStorage[s])
  <2>2. CASE msg.type = "upload_block" /\ S!StoreBlock(s, msg)
    BY <1>1, <2>1, <2>2 DEF StoresBlock
  <2>3. CASE S!ReceivePiece(s, msg) \/ S!RejectBlock(s, msg) \/ S!OnDownLoadBlock(s, msg)
             \/ S!ExitOnDownLoadBlock(s, msg) \/ S!OnClientClean(s, msg)
    BY <2>3 DEF S!ReceivePiece, S!RejectBlock, S!OnDownLoadBlock, S!ExitOnDownLoadBlock,
                S!OnClientClean, S!disk
  <2> QED
    BY <2>1, <2>2, <2>3 DEF StorageHandles, S!OnUploadBlock
<1>4. CASE StorageWrote(s) \/ StorageLosesProxy(s)
  BY <1>4 DEF StorageWrote, StorageLosesProxy, S!OnWriteComplete, S!OnClose, S!disk
<1>5. CASE StorageDies(s)
  BY <1>1, <1>5 DEF StorageDies, S!Crash, S!disk, StoresBlock
<1>6. CASE ProxyReadsStorage(s) \/ ProxyLosesStorage(s)
  BY <1>6 DEF ProxyReadsStorage, ProxyLosesStorage, servers
<1> QED
  BY <1>2, <1>3, <1>4, <1>5, <1>6 DEF StorageMoves, StorageStep, ProxyStorageStep

(* A block stored is whole, or its server dies and may leave it torn. *)
LEMMA StoringDisk ==
  ASSUME S!TypeOK, S!FileHasPath, NEW s \in Servers, NEW msg, msg.md5 \in Md5s,
         StoresBlock(s, msg)
  PROVE  /\ md5_path' = [md5_path EXCEPT ![s] = md5_path[s] \cup {msg.md5}]
         /\ \A t \in Servers : DiskOf(t) => DiskOf(t)'
<1>1. md5_path' = [md5_path EXCEPT ![s] = md5_path[s] \cup {msg.md5}]
  BY DEF StoresBlock, S!StoreBlock, S!CrashWhileStoring
<1>2. ASSUME NEW t \in Servers, DiskOf(t) PROVE DiskOf(t)'
  <2> SUFFICES ASSUME NEW m \in Md5s
               PROVE  /\ file'[t][m] <= Pieces[m]
                      /\ MayTear = FALSE /\ m \in md5_path'[t] => file'[t][m] = Pieces[m]
    BY DEF DiskOf
  <2>1. /\ file[t][m] <= Pieces[m] /\ Pieces[m] \in Nat \ {0} /\ Pieces[msg.md5] \in Nat \ {0}
        /\ MayTear = FALSE /\ m \in md5_path[t] => file[t][m] = Pieces[m]
    BY <1>2, PiecesAssumption DEF DiskOf
  <2>2. m \in md5_path'[t] => m \in md5_path[t] \/ (t = s /\ m = msg.md5)
    BY <1>1 DEF S!TypeOK
  <2>3. CASE S!StoreBlock(s, msg)
    <3>1. file' = [file EXCEPT ![s][msg.md5] = S!StoredFile(s, msg.md5)]
      BY <2>3 DEF S!StoreBlock
    <3>2. file'[t][m] = IF t = s /\ m = msg.md5 THEN S!StoredFile(s, m) ELSE file[t][m]
      BY <3>1 DEF S!TypeOK
    <3>3. file[t][m] # S!Missing => m \in md5_path[t]
      BY DEF S!FileHasPath
    <3> QED
      BY <2>1, <2>2, <3>2, <3>3 DEF S!StoredFile, S!Missing
  <2>4. CASE MayTear /\ S!CrashWhileStoring(s, msg)
    <3>1. PICK written \in {S!Missing} \cup 0 .. (Pieces[msg.md5] - 1) :
            file' = [file EXCEPT ![s][msg.md5] = IF @ = S!Missing THEN written ELSE @]
      BY <2>4 DEF S!CrashWhileStoring
    <3>2. file'[t][m] = file[t][m] \/ (m = msg.md5 /\ file'[t][m] = written)
      BY <3>1 DEF S!TypeOK
    <3>3. MayTear # FALSE
      BY <2>4
    <3>4. written <= Pieces[msg.md5]
      BY <2>1 DEF S!Missing
    <3> QED
      BY <2>1, <3>2, <3>3, <3>4
  <2> QED
    BY <2>3, <2>4 DEF StoresBlock
<1> QED
  BY <1>1, <1>2

LEMMA DiskGrows ==
  ASSUME P!TypeOK, S!TypeOK, S!FileHasPath, NEW s \in Servers, StorageMoves(s)
  PROVE  Blocks \subseteq Blocks' /\ \A t \in Servers : DiskOf(t) => DiskOf(t)'
<1>1. CASE UNCHANGED <<md5_path, file>>
  BY <1>1 DEF Blocks, DiskOf
<1>2. ASSUME NEW msg \in P!ToStorageMessage, StoresBlock(s, msg)
      PROVE  Blocks \subseteq Blocks' /\ \A t \in Servers : DiskOf(t) => DiskOf(t)'
  <2>1. msg.md5 \in Md5s
    BY <1>2 DEF StoresBlock, P!ToStorageMessage, P!UploadBlockMessage, P!DownLoadBlockMessage,
                P!ClientCleanMessage
  <2>2. /\ md5_path' = [md5_path EXCEPT ![s] = md5_path[s] \cup {msg.md5}]
        /\ \A t \in Servers : DiskOf(t) => DiskOf(t)'
    BY <1>2, <2>1, StoringDisk
  <2> QED
    BY <2>2 DEF Blocks, S!TypeOK
<1> QED
  BY <1>1, <1>2, DiskSteps

----------------------------------------------------------------------------
(* What the servers say of the store.                                      *)

LEMMA CalledStore ==
  ASSUME P!TypeOK, NEW f \in Flows, NEW called, NEW succ \in BOOLEAN, NEW md5,
         P!CallBack(called, succ, md5), succ => md5[f] \in Blocks'
  PROVE  \A msg \in Range(toClient'[f]) : msg \in Range(toClient[f]) \/ ToAgent(f, msg)'
<1>1. \/ toClient'[f] = toClient[f]
      \/ toClient'[f] = Append(toClient[f], P!Reply(succ, md5[f]))
  BY DEF P!CallBack
<1>2. toClient[f] \in Seq(P!ClientMessage)
  BY DEF P!TypeOK
<1>3. Range(Append(toClient[f], P!Reply(succ, md5[f]))) =
        Range(toClient[f]) \cup {P!Reply(succ, md5[f])}
  BY <1>2, RangeOf
<1>4. ToAgent(f, P!Reply(succ, md5[f]))'
  BY DEF ToAgent, P!Reply, P!UploadBlockAck, P!UploadBlockFail
<1> QED
  BY <1>1, <1>3, <1>4

LEMMA HeardStore ==
  ASSUME P!TypeOK, S!TypeOK, ViewMatchesDisk, NEW s \in Servers, ProxyReadsStorage(s),
         ~P!StorageOnClose(s), NEW f \in Flows
  PROVE  \A m \in Range(toClient'[f]) : m \in Range(toClient[f]) \/ ToAgent(f, m)'
<1> PICK msg : msg = Head(toProxy[s])
  OBVIOUS
<1>1. /\ toProxy[s] \in Seq(S!StorageMessage) /\ toProxy[s] # <<>>
      /\ P!StorageOnMessage(s, msg) /\ UNCHANGED md5_path
  BY DEF ProxyReadsStorage, S!TypeOK, servers
<1>2. 1 \in DOMAIN toProxy[s] /\ msg = toProxy[s][1]
  BY <1>1
<1>3. CASE P!HandleTransferBlockSet(s, msg) \/ P!NamelessFail(s, msg)
  BY <1>1, <1>3 DEF P!HandleTransferBlockSet, P!NamelessFail, P!Dies
<1>4. CASE P!HandleUploadBlockAck(s, msg)
  <2>1. s \in P!Connected /\ msg \in Sent(toProxy[s], "upload_block_ack")
    BY <1>2, <1>4 DEF P!HandleUploadBlockAck, P!Connected, Sent
  <2>2. msg.md5 \in md5_path[s]
    BY <2>1 DEF ViewMatchesDisk, Announced
  <2>3. msg.md5 \in Blocks'
    BY <1>1, <2>2 DEF Blocks
  <2> DEFINE md5 == [g \in Flows |-> msg.md5]
  <2>4. P!CallBack(blockAckCallbacks[s][msg.md5], TRUE, md5) /\ md5[f] \in Blocks'
    BY <1>4, <2>3 DEF P!HandleUploadBlockAck
  <2> HIDE DEF md5
  <2> QED
    BY <1>1, <1>4, <2>4, CalledStore DEF P!HandleUploadBlockAck
<1>5. CASE P!HandleUploadBlockFail(s, msg)
  <2> DEFINE md5 == [g \in Flows |-> msg.md5]
  <2>4. P!CallBack(blockAckCallbacks[s][msg.md5], FALSE, md5)
    BY <1>5 DEF P!HandleUploadBlockFail
  <2> HIDE DEF md5
  <2> QED
    BY <1>1, <1>5, <2>4, CalledStore DEF P!HandleUploadBlockFail
<1>6. CASE P!HandleTransferBlock(s, msg)
  <2>1. /\ toClient'[f] = toClient[f] \/ toClient'[f] = Append(toClient[f], msg)
        /\ UNCHANGED <<idStorage, uploadingMd5s, toStorage>> /\ msg.type = "transfer_block"
    BY <1>6 DEF P!HandleTransferBlock, P!upload
  <2>2. Range(Append(toClient[f], msg)) = Range(toClient[f]) \cup {msg}
    <3>1. toClient[f] \in Seq(P!ClientMessage)
      BY DEF P!TypeOK
    <3> QED
      BY <3>1, RangeOf
  <2>3. ToAgent(f, msg)'
    BY <2>1 DEF ToAgent
  <2> QED
    BY <1>1, <2>1, <2>2, <2>3
<1> QED
  BY <1>1, <1>3, <1>4, <1>5, <1>6 DEF P!StorageOnMessage, P!StorageMessageError

LEMMA StorageStore ==
  ASSUME P!TypeOK, S!TypeOK, S!FileHasPath, ViewMatchesDisk, StoreInv,
         NEW s \in Servers, StorageMoves(s)
  PROVE  StoreInv'
<1>1. /\ UNCHANGED <<agents, fromClient, clientState, lateState>>
      /\ \A t \in Servers \ {s} : toStorage'[t] = toStorage[t]
  BY StorageMovesOnly
<1>2. Blocks \subseteq Blocks' /\ \A t \in Servers : DiskOf(t)'
  BY DiskGrows DEF StoreInv
<1>3. toStorage[s] \in Seq(P!ToStorageMessage)
  BY DEF P!TypeOK
<1>4. /\ UNCHANGED <<idStorage, uploadingMd5s>>
      /\ Range(toStorage'[s]) \subseteq Range(toStorage[s])
      /\ \A f \in Flows : \A msg \in Range(toClient'[f]) :
           msg \in Range(toClient[f]) \/ ToAgent(f, msg)'
  <2>1. CASE ServerConnects(s)
    <3>1. /\ UNCHANGED <<idStorage, uploadingMd5s, toClient>> /\ toStorage'[s] = <<>>
      BY <2>1 DEF ServerConnects, P!StorageOnConnection, P!upload, P!TypeOK
    <3> QED
      BY <3>1 DEF Range
  <2>2. CASE StorageReads(s)
    <3>1. /\ UNCHANGED <<proxy, toClient>> /\ toStorage'[s] = Tail(toStorage[s])
          /\ toStorage[s] # <<>>
      BY <2>2 DEF StorageReads, P!TypeOK
    <3> QED
      BY <1>3, <3>1, RangeOf DEF proxy
  <2>3. CASE StorageWrote(s) \/ StorageLosesProxy(s) \/ StorageDies(s)
    BY <2>3 DEF StorageWrote, StorageLosesProxy, StorageDies, proxy
  <2>4. CASE P!StorageOnClose(s)
    <3>1. \E n \in 0 .. Len(toStorage[s]) : toStorage'[s] = SubSeq(toStorage[s], 1, n)
      BY <2>4, StorageClosed DEF P!TypeOK
    <3>2. Range(toStorage'[s]) \subseteq Range(toStorage[s])
      BY <1>3, <3>1, RangeOf
    <3>3. UNCHANGED <<idStorage, uploadingMd5s>>
      BY <2>4 DEF P!StorageOnClose, P!process
    <3> DEFINE called == P!Remaining(s)
               md5 == [g \in called |-> P!RemainingMd5(s, g)]
    <3>4. P!CallBack(called, FALSE, md5)
      BY <2>4 DEF P!StorageOnClose, P!HandleRemainEvent
    <3> HIDE DEF called, md5
    <3>5. ASSUME NEW f \in Flows
          PROVE  \A msg \in Range(toClient'[f]) : msg \in Range(toClient[f]) \/ ToAgent(f, msg)'
      BY <3>4, CalledStore
    <3> QED
      BY <3>2, <3>3, <3>5
  <2>5. CASE ProxyReadsStorage(s) /\ ~P!StorageOnClose(s)
    <3>1. UNCHANGED <<idStorage, uploadingMd5s, toStorage>>
      BY <2>5 DEF ProxyReadsStorage, P!StorageOnMessage, P!StorageMessageError,
                  P!HandleTransferBlockSet, P!HandleUploadBlockAck, P!HandleUploadBlockFail,
                  P!NamelessFail, P!Dies, P!HandleTransferBlock, P!upload
    <3>2. ASSUME NEW f \in Flows
          PROVE  \A msg \in Range(toClient'[f]) : msg \in Range(toClient[f]) \/ ToAgent(f, msg)'
      BY <2>5, HeardStore
    <3> QED
      BY <3>1, <3>2
  <2> QED
    BY <2>1, <2>2, <2>3, <2>4, <2>5
       DEF StorageMoves, StorageStep, ProxyStorageStep, ProxyLosesStorage
<1>5. Grows
  BY <1>2, <1>4 DEF Grows
<1>6. ASSUME NEW f \in Flows PROVE FlowStore(f)'
  <2>1. /\ FlowStore(f) /\ Asked(f)' /\ SameAgent(f)
        /\ \A t \in Servers : \A msg \in Range(toStorage'[t]) :
             msg \in Range(toStorage[t]) \/ ToServer(f, msg)'
    BY <1>1, <1>4 DEF StoreInv, FlowStore, Asked, SameAgent, agents
  <2> QED
    BY <1>1, <1>4, <1>5, <2>1, FlowStoreKept
<1> QED
  BY <1>2, <1>4, <1>6 DEF StoreInv

----------------------------------------------------------------------------
(* Every step keeps all of it.                                             *)

StoreSystem == SystemInv /\ UploadInv /\ ViewMatchesDisk /\ BothInv

LEMMA StoreNext ==
  ASSUME BackupCount = 1, StoreSystem, [Next]_vars PROVE StoreInv'
<1>1. P!TypeOK /\ S!TypeOK /\ AgentInv /\ D!TypeOK /\ S!FileHasPath /\ LateGone
  BY SystemTypes, SystemLate, ServerInstances DEF StoreSystem, SystemInv, SS!ServerInv, SS!DiskInv
<1>2. CASE \E f \in Flows : ClientSideStep(f)
  BY <1>1, <1>2, ClientSideStore DEF StoreSystem, BothInv
<1>3. CASE \E s \in Servers : StorageMoves(s)
  BY <1>1, <1>3, StorageStore DEF StoreSystem, BothInv
<1>4. CASE UNCHANGED vars
  <2>1. UNCHANGED <<servers, idStorage, agents, clientState, lateState, uploadingMd5s, toStorage,
                    toClient, fromClient>>
    BY <1>4 DEF vars, proxy, clients
  <2>2. Grows /\ \A s \in Servers : DiskOf(s) => DiskOf(s)'
    BY <2>1, SameDisk DEF Grows
  <2>3. ASSUME NEW f \in Flows PROVE FlowStore(f)'
    <3>1. FlowStore(f) /\ Asked(f)' /\ SameAgent(f)
      BY <2>1 DEF StoreSystem, BothInv, StoreInv, FlowStore, Asked, SameAgent, agents
    <3> QED
      BY <2>1, <2>2, <3>1, FlowStoreKept
  <2> QED
    BY <2>1, <2>2, <2>3 DEF StoreSystem, BothInv, StoreInv, Grows
<1> QED
  BY <1>2, <1>3, <1>4, StepKinds

LEMMA StoreInit == Init => StoreInv
<1> SUFFICES ASSUME Init PROVE StoreInv
  OBVIOUS
<1>1. /\ \A f \in Flows : /\ fromClient[f] = <<>> /\ toClient[f] = <<>>
                          /\ agentState[f] = "init" /\ clientState[f] = "none"
                          /\ lateState[f] = "none"
      /\ \A s \in Servers : toStorage[s] = <<>>
      /\ idStorage = Recorded
  BY DEF Init, P!Init, A!Init
<1>2. \A f \in Flows : FlowStore(f)
  BY <1>1 DEF FlowStore, Said, Told, Asked, Passed, Done, InBlock, Range
<1>3. \A id \in idStorage : Range(id) \subseteq Blocks
  BY <1>1 DEF Init, Blocks, Range
<1>4. ASSUME NEW s \in Servers PROVE DiskOf(s)
  <2>1. \A m \in Md5s : file[s][m] = IF m \in md5_path[s] THEN Pieces[m] ELSE S!Missing
    BY DEF Init, S!Init
  <2>2. \A m \in Md5s : Pieces[m] \in Nat
    BY PiecesAssumption
  <2> QED
    BY <2>1, <2>2 DEF DiskOf, S!Missing
<1> QED
  BY <1>2, <1>3, <1>4 DEF StoreInv

LEMMA StoreSystemInit == Init => StoreSystem
<1>1. Init => ViewMatchesDisk
  BY DEF Init, P!Init, P!Connected, ViewMatchesDisk
<1> QED
  BY <1>1, SystemInit, UploadInit, TokenInit, StoreInit DEF StoreSystem, BothInv

LEMMA StoreSystemNext ==
  ASSUME BackupCount = 1, StoreSystem, [Next]_vars PROVE StoreSystem'
<1>1. SystemInv' /\ UploadInv'
  BY SystemNext, UploadNext DEF StoreSystem
<1>2. ViewMatchesDisk'
  BY SystemTypes, ViewNext DEF StoreSystem
<1>3. TokenInv'
  BY TokenNext DEF StoreSystem, BothInv
<1>4. StoreInv'
  BY StoreNext
<1> QED
  BY <1>1, <1>2, <1>3, <1>4 DEF StoreSystem, BothInv

LEMMA StoreSystemAlways == ASSUME BackupCount = 1 PROVE Spec => []StoreSystem
<1>1. StoreSystem /\ [Next]_vars => StoreSystem'
  BY StoreSystemNext
<1> QED
  BY <1>1, StoreSystemInit, PTL DEF Spec

(* A file the proxy has recorded (id_storage_) can be read back: each of   *)
(* its blocks is on the disk of some server, all of it, or torn by a       *)
(* server that died while it wrote.  The proxy records a file on the word  *)
(* of its client alone, so this holds by what the client was told before.  *)
THEOREM RecordedFilesKept ==
  ASSUME BackupCount = 1 PROVE Spec => []RecordedFilesWhole
<1>1. StoreSystem => RecordedFilesWhole
  <2> SUFFICES ASSUME StoreSystem, NEW id \in idStorage, NEW i \in DOMAIN id
               PROVE  Whole(id[i]) \/ Torn(id[i])
    BY DEF RecordedFilesWhole
  <2>1. S!TypeOK /\ StoreInv
    BY SystemTypes DEF StoreSystem, BothInv
  <2>2. id[i] \in Blocks
    BY <2>1 DEF StoreInv, Range
  <2>3. PICK s \in Servers : id[i] \in md5_path[s]
    BY <2>2 DEF Blocks
  <2>4. id[i] \in Md5s /\ file[s][id[i]] \in Nat \cup {S!Missing} /\ Pieces[id[i]] \in Nat
    BY <2>1, <2>3, PiecesAssumption DEF S!TypeOK
  <2>5. file[s][id[i]] <= Pieces[id[i]]
    BY <2>1, <2>4 DEF StoreInv, DiskOf
  <2>6. file[s][id[i]] = Pieces[id[i]] \/ file[s][id[i]] < Pieces[id[i]]
    BY <2>4, <2>5 DEF S!Missing
  <2> QED
    BY <2>3, <2>6 DEF Whole, Torn
<1> QED
  BY <1>1, StoreSystemAlways, PTL

(* Nothing less than all of it, where no server dies between the steps of  *)
(* storing a block.                                                        *)
AllRecordedWhole == \A id \in idStorage : \A i \in DOMAIN id : Whole(id[i])

THEOREM RecordedFilesKeptWhole ==
  ASSUME BackupCount = 1, MayTear = FALSE PROVE Spec => []AllRecordedWhole
<1>1. StoreSystem => AllRecordedWhole
  <2> SUFFICES ASSUME StoreSystem, NEW id \in idStorage, NEW i \in DOMAIN id
               PROVE  Whole(id[i])
    BY DEF AllRecordedWhole
  <2>1. S!TypeOK /\ StoreInv
    BY SystemTypes DEF StoreSystem, BothInv
  <2>2. PICK s \in Servers : id[i] \in md5_path[s]
    BY <2>1 DEF StoreInv, Range, Blocks
  <2>3. id[i] \in Md5s
    BY <2>1, <2>2 DEF S!TypeOK
  <2> QED
    BY <2>1, <2>2, <2>3 DEF StoreInv, DiskOf, Whole
<1> QED
  BY <1>1, StoreSystemAlways, PTL

----------------------------------------------------------------------------
(* The system implements FileStore.                                        *)

Outcomes == [f \in Flows |-> Outcome(f)]

LEMMA Stutters ==
  ASSUME UNCHANGED <<md5_path, idStorage, fileMd5s, agentState>>
  PROVE  UNCHANGED Store!vars
BY DEF Store!vars, Outcome

(* The result of one client changes. *)
LEMMA OutcomeChanges ==
  ASSUME A!TypeOK, NEW f \in Flows, NEW state, agentState' = [agentState EXCEPT ![f] = state]
  PROVE  Outcomes' = [Outcomes EXCEPT ![f] = Outcome(f)']
<1>1. \A g \in Flows \ {f} : Outcome(g)' = Outcome(g)
  BY DEF Outcome, A!TypeOK
<1> QED
  BY <1>1 DEF Outcomes

LEMMA AskStep ==
  ASSUME A!TypeOK, NEW f \in Flows, AgentConnects(f)
  PROVE  Store!Ask(f)
<1>1. PICK md5s \in FilesOf[f] : A!OnConnection(f, md5s)
  BY DEF AgentConnects
<1>2. md5s \in Seq(Md5s)
  BY ClientsAssumption
<1>3. /\ agentState[f] = "init" /\ fileMd5s' = [fileMd5s EXCEPT ![f] = md5s]
      /\ agentState' = [agentState EXCEPT ![f] = "waiting_upload_response"]
  BY <1>1 DEF A!OnConnection, A!SetState
<1>4. UNCHANGED <<md5_path, idStorage>>
  BY DEF AgentConnects, P!ClientOnConnection, servers
<1>5. Outcome(f) = "none" /\ Outcome(f)' = "pending"
  BY <1>3 DEF Outcome, A!TypeOK
<1>6. Outcomes' = [Outcomes EXCEPT ![f] = "pending"]
  BY <1>3, <1>5, OutcomeChanges
<1>7. fileMd5s'[f] \in Seq(Md5s) /\ fileMd5s' = [fileMd5s EXCEPT ![f] = fileMd5s'[f]]
  BY <1>2, <1>3 DEF A!TypeOK
<1> QED
  BY <1>4, <1>5, <1>6, <1>7 DEF Store!Ask, Outcomes

LEMMA GiveUpStep ==
  ASSUME A!TypeOK, NEW f \in Flows, UNCHANGED <<md5_path, idStorage, fileMd5s>>, A!Alive(f),
         NEW state \in {"fail", "closed"}, agentState' = [agentState EXCEPT ![f] = state]
  PROVE  Store!GiveUp(f)
<1>1. Outcome(f) = "pending" /\ Outcome(f)' = "given up"
  BY DEF Outcome, A!Alive, A!TypeOK
<1>2. Outcomes' = [Outcomes EXCEPT ![f] = "given up"]
  BY <1>1, OutcomeChanges
<1> QED
  BY <1>1, <1>2 DEF Store!GiveUp, Outcomes

LEMMA GoOnStep ==
  ASSUME A!TypeOK, NEW f \in Flows, UNCHANGED <<md5_path, idStorage, fileMd5s>>, A!Alive(f),
         NEW state, agentState' = [agentState EXCEPT ![f] = state],
         state \notin {"init", "succ", "fail", "closed"}
  PROVE  UNCHANGED Store!vars
<1>1. Outcome(f) = "pending" /\ Outcome(f)' = "pending"
  BY DEF Outcome, A!Alive, A!TypeOK
<1>2. Outcomes' = [Outcomes EXCEPT ![f] = "pending"]
  BY <1>1, OutcomeChanges
<1>3. Outcomes' = Outcomes
  BY <1>1, <1>2 DEF Outcomes
<1> QED
  BY <1>3 DEF Store!vars, Outcomes

(* What an agent hears. *)
LEMMA AgentStepImplements ==
  ASSUME P!TypeOK, A!TypeOK, NEW f \in Flows, AgentMoves(f), FlowStore(f)
  PROVE  [Store!Next]_(Store!vars)
<1>1. UNCHANGED <<md5_path, idStorage, fileMd5s>>
  BY DEF AgentMoves, AgentReads, AgentWrote, AgentLosesProxy, AgentKilled, A!OnMessage, servers,
         proxy, A!OnUploadResponse, A!OnUploadBlockAck, A!OnFinalResult, A!Ignore,
         A!OnMessageError, A!Close, A!OnWriteComplete, A!aVars
<1>2. CASE A!Close(f)
  <2>1. A!Alive(f) /\ agentState' = [agentState EXCEPT ![f] = "closed"]
    BY <1>2 DEF A!Close, A!SetState
  <2>2. Store!GiveUp(f)
    BY <1>1, <2>1, GiveUpStep
  <2> QED
    BY <2>2 DEF Store!Next
<1>3. CASE UNCHANGED agentState
  BY <1>1, <1>3, Stutters
<1>4. ASSUME NEW md5s, NEW at, NEW i, A!SendBlockPiece(f, md5s, at, i), A!Alive(f)
      PROVE  UNCHANGED Store!vars
  <2>1. \E state \in {"waiting_block_ack", "uploading_blocks"} :
          agentState' = [agentState EXCEPT ![f] = state]
    BY <1>4 DEF A!SendBlockPiece, A!SetState
  <2> QED
    BY <1>1, <1>4, <2>1, GoOnStep
<1>5. CASE A!SendUploadAllBlocks(f) /\ A!Alive(f)
  <2>1. agentState' = [agentState EXCEPT ![f] = "waiting_final_result"]
    BY <1>5 DEF A!SendUploadAllBlocks, A!SetState
  <2> QED
    BY <1>1, <1>5, <2>1, GoOnStep
<1>6. CASE A!OnWriteComplete(f)
  BY <1>3, <1>4, <1>6 DEF A!OnWriteComplete
<1>7. CASE toClient[f] # <<>> /\ A!OnMessage(f, Head(toClient[f]))
  <2> DEFINE msg == Head(toClient[f])
  <2>1. msg \in Range(toClient[f])
    BY <1>7, RangeOf DEF P!TypeOK
  <2> HIDE DEF msg
  <2>2. CASE A!OnUploadResponse(f, msg) \/ A!OnUploadBlockAck(f, msg)
    <3>1. A!Alive(f)
      BY <2>2 DEF A!OnUploadResponse, A!OnUploadBlockAck, A!Alive
    <3> QED
      BY <1>4, <1>5, <2>2, <3>1 DEF A!OnUploadResponse, A!OnUploadBlockAck, A!StartBlock
  <2>3. CASE A!OnFinalResult(f, msg) /\ msg.type # "file_storage_succ"
    <3>1. A!Alive(f) /\ agentState' = [agentState EXCEPT ![f] = "fail"]
      BY <2>3 DEF A!OnFinalResult, A!SetState, A!Alive
    <3>2. Store!GiveUp(f)
      BY <1>1, <3>1, GiveUpStep
    <3> QED
      BY <3>2 DEF Store!Next
  <2>4. CASE A!OnFinalResult(f, msg) /\ msg.type = "file_storage_succ"
    <3>1. /\ agentState[f] = "waiting_final_result"
          /\ agentState' = [agentState EXCEPT ![f] = "succ"]
      BY <2>4 DEF A!OnFinalResult, A!SetState
    <3>2. Outcome(f) = "pending" /\ Outcome(f)' = "stored"
      BY <3>1 DEF Outcome, A!TypeOK
    <3>3. Outcomes' = [Outcomes EXCEPT ![f] = "stored"]
      BY <3>1, <3>2, OutcomeChanges
    <3>4. fileMd5s[f] \in idStorage
      BY <2>1, <2>4, <3>1 DEF FlowStore, Told, ToAgent
    <3>5. Store!Tell(f)
      BY <1>1, <3>2, <3>3, <3>4 DEF Store!Tell, Outcomes
    <3> QED
      BY <3>5 DEF Store!Next
  <2>5. CASE A!Ignore(f)
    BY <1>3, <2>5 DEF A!Ignore, A!aVars
  <2>6. CASE A!OnMessageError(f, msg)
    BY <1>2, <2>6 DEF A!OnMessageError
  <2> QED
    BY <1>7, <2>2, <2>3, <2>4, <2>5, <2>6 DEF A!OnMessage, msg
<1> QED
  BY <1>2, <1>6, <1>7 DEF AgentMoves, AgentReads, AgentWrote, AgentLosesProxy, AgentKilled

(* The outcome of whoever asked, and was told nothing. *)
LEMMA NotTold ==
  ASSUME A!TypeOK, NEW f \in Flows, agentState[f] # "init", agentState[f] # "succ"
  PROVE  Outcomes[f] \in {"pending", "given up"}
BY DEF Outcomes, Outcome

LEMMA RecordStep ==
  ASSUME P!TypeOK, A!TypeOK, SelectedConnected, LateGone, ViewMatchesDisk, StoreInv,
         NEW f \in Flows, ProxyServesClient(f)
  PROVE  [Store!Next]_(Store!vars)
<1>1. /\ ProxySettled /\ UNCHANGED <<md5_path, fileMd5s, agentState>>
      /\ fromClient[f] \in Seq(P!FromClientMessage) /\ FlowStore(f)
  BY ProxyServes, ClientServed DEF ProxySettled, servers, agents, StoreInv
<1>2. RecordedOrNot(f)
  <2>1. CASE P!ClientOnClose(f)
    BY <2>1, CloseStore DEF RecordedOrNot
  <2>2. ASSUME NEW msg \in P!FromClientMessage, fromClient[f] # <<>>, msg = Head(fromClient[f]),
               P!ClientOnMessage(f, msg) \/ P!LateMessage(f, msg)
        PROVE  RecordedOrNot(f)
    <3>1. msg \in Range(fromClient[f])
      BY <1>1, <2>2, RangeOf
    <3>2. FromAgent(f, msg) /\ Asked(f)
      BY <1>1, <3>1 DEF FlowStore, Said
    <3> QED
      BY <1>1, <2>2, <3>2, HandlerStore
  <2> QED
    BY <2>1, <2>2, ClientServed
<1>3. CASE UNCHANGED idStorage
  BY <1>1, <1>3, Stutters
<1>4. CASE idStorage' = idStorage \cup {fileMd5s[f]} /\ Needed(f) = {} /\ agentState[f] # "init"
  <2>1. CASE agentState[f] = "succ"
    <3>1. fileMd5s[f] \in idStorage
      BY <1>1, <2>1 DEF FlowStore, Done
    <3> QED
      BY <1>1, <1>4, <3>1, Stutters
  <2>2. CASE agentState[f] # "succ"
    <3>1. Outcomes[f] \in {"pending", "given up"}
      BY <1>4, <2>2, NotTold
    <3>2. Store!BlocksOf(fileMd5s[f]) \subseteq Blocks
      BY <1>4 DEF Store!BlocksOf, Needed, Range
    <3>3. UNCHANGED Outcomes
      BY <1>1 DEF Outcomes, Outcome
    <3>4. Store!Record(f)
      BY <1>1, <1>4, <3>1, <3>2, <3>3 DEF Store!Record, Outcomes, Blocks
    <3> QED
      BY <3>4 DEF Store!Next
  <2> QED
    BY <2>1, <2>2
<1> QED
  BY <1>2, <1>3, <1>4 DEF RecordedOrNot

LEMMA TakeInStep ==
  ASSUME P!TypeOK, S!TypeOK, A!TypeOK, S!FileHasPath, StoreInv, NEW s \in Servers,
         StorageMoves(s)
  PROVE  [Store!Next]_(Store!vars)
<1>1. UNCHANGED <<agentState, fileMd5s, idStorage>>
  <2>1. UNCHANGED <<agents>>
    BY StorageMovesOnly
  <2>2. UNCHANGED idStorage
    BY DEF StorageMoves, StorageStep, ProxyStorageStep, StorageDies, ServerConnects, StorageReads,
           StorageWrote, StorageLosesProxy, ProxyReadsStorage, ProxyLosesStorage, proxy,
           P!StorageOnConnection, P!StorageOnClose, P!StorageOnMessage, P!HandleTransferBlockSet,
           P!HandleUploadBlockAck, P!HandleUploadBlockFail, P!NamelessFail, P!Dies,
           P!HandleTransferBlock, P!StorageMessageError
  <2> QED
    BY <2>1, <2>2 DEF agents
<1>2. CASE UNCHANGED <<md5_path, file>>
  BY <1>1, <1>2, Stutters
<1>3. ASSUME NEW msg \in P!ToStorageMessage, StoresBlock(s, msg) PROVE [Store!Next]_(Store!vars)
  <2> PICK f : f = msg.flow_id
    OBVIOUS
  <2>1. msg.md5 \in Md5s /\ f \in Flows /\ msg.type = "upload_block"
    BY <1>3 DEF StoresBlock, P!ToStorageMessage, P!UploadBlockMessage, P!DownLoadBlockMessage,
                P!ClientCleanMessage
  <2>2. msg \in Range(toStorage[s])
    BY <1>3, RangeOf DEF StoresBlock, P!TypeOK
  <2>3. agentState[f] # "init" /\ msg.md5 \in Range(fileMd5s[f]) /\ Done(f)
    BY <2>1, <2>2 DEF StoreInv, FlowStore, Passed, ToServer
  <2>4. md5_path' = [md5_path EXCEPT ![s] = md5_path[s] \cup {msg.md5}]
    BY <1>3, <2>1, StoringDisk
  <2>5. Blocks' = Blocks \cup {msg.md5}
    BY <2>4 DEF Blocks, S!TypeOK
  <2>6. UNCHANGED Outcomes
    BY <1>1 DEF Outcomes, Outcome
  <2>7. CASE agentState[f] = "succ"
    <3>1. msg.md5 \in Blocks
      BY <2>3, <2>7 DEF Done, StoreInv
    <3>2. UNCHANGED Blocks
      BY <2>5, <3>1
    <3> QED
      BY <1>1, <2>6, <3>2 DEF Store!vars, Blocks, Outcomes
  <2>8. CASE agentState[f] # "succ"
    <3>1. Outcomes[f] \in {"pending", "given up"}
      BY <2>1, <2>3, <2>8, NotTold
    <3>2. msg.md5 \in Store!BlocksOf(fileMd5s[f])
      BY <2>3 DEF Store!BlocksOf, Range
    <3>3. Store!TakeIn(f)
      BY <1>1, <2>5, <2>6, <3>1, <3>2 DEF Store!TakeIn, Outcomes, Blocks
    <3> QED
      BY <2>1, <3>3 DEF Store!Next
  <2> QED
    BY <2>7, <2>8
<1> QED
  BY <1>2, <1>3, DiskSteps

LEMMA StoreStep ==
  ASSUME StoreSystem, [Next]_vars PROVE [Store!Next]_(Store!vars)
<1>1. /\ P!TypeOK /\ S!TypeOK /\ A!TypeOK /\ S!FileHasPath /\ StoreInv /\ ViewMatchesDisk
      /\ SelectedConnected /\ LateGone
  BY SystemTypes, SystemLate, ServerInstances
     DEF StoreSystem, BothInv, SystemInv, SS!ServerInv, SS!DiskInv, UploadInv
<1>2. ASSUME NEW f \in Flows, ClientSideStep(f) PROVE [Store!Next]_(Store!vars)
  <2>1. CASE AgentMoves(f)
    BY <1>1, <2>1, AgentStepImplements DEF StoreInv
  <2>2. CASE AgentConnects(f)
    BY <1>1, <2>2, AskStep DEF Store!Next
  <2>3. CASE DownloaderMoves(f) \/ DownloaderConnects(f) \/ SessionDestroyed(f)
    <3>1. UNCHANGED <<md5_path, idStorage, fileMd5s, agentState>>
      BY <2>3 DEF DownloaderMoves, DownloaderReads, DownloaderLosesProxy, DownloaderKilled,
                  DownloaderConnects, P!ClientOnConnection, SessionDestroyed, P!Expire,
                  clients, agents, servers, proxy
    <3> QED
      BY <3>1, Stutters
  <2>4. CASE ProxyServesClient(f)
    BY <1>1, <2>4, RecordStep
  <2> QED
    BY <1>2, <2>1, <2>2, <2>3, <2>4 DEF ClientSideStep, Connects
<1>3. CASE \E s \in Servers : StorageMoves(s)
  BY <1>1, <1>3, TakeInStep
<1>4. CASE UNCHANGED vars
  BY <1>4, Stutters DEF vars, servers, proxy, clients, agents
<1> QED
  BY <1>2, <1>3, <1>4, StepKinds

LEMMA StoreStarts == Init => Store!Init
<1> SUFFICES ASSUME Init PROVE Store!Init
  OBVIOUS
<1>1. /\ fileMd5s = [f \in Flows |-> <<>>] /\ agentState = [f \in Flows |-> "init"]
      /\ md5_path \in [Servers -> SUBSET Md5s] /\ idStorage = Recorded
  BY DEF Init, P!Init, S!Init, A!Init
<1>2. Blocks \in SUBSET Md5s
  BY <1>1 DEF Blocks
<1>3. ASSUME NEW id \in Recorded PROVE id \in Seq(Blocks)
  <2>1. id \in Seq(Md5s) /\ \A i \in DOMAIN id : id[i] \in Blocks
    BY ProxyAssumption DEF Init, Blocks
  <2> QED
    BY <2>1
<1>4. Outcomes = [f \in Flows |-> "none"]
  BY <1>1 DEF Outcomes, Outcome
<1> QED
  BY <1>1, <1>2, <1>3, <1>4 DEF Store!Init, Outcomes, Blocks

(* The proxy, the servers, the agents and the messages between them keep   *)
(* the promise of FileStore.tla: a file is recorded with all its blocks in *)
(* the store and not before, a client is told that its file is stored when *)
(* it is recorded, nothing taken in is dropped, and nothing is taken in    *)
(* that no client asked to store.                                          *)
THEOREM StoresFiles == ASSUME BackupCount = 1 PROVE Spec => StoreSpec
<1>1. StoreSystem /\ [Next]_vars => [Store!Next]_(Store!vars)
  BY StoreStep
<1> QED
  BY <1>1, StoreStarts, StoreSystemAlways, PTL DEF Spec, StoreSpec, Store!Spec
==============================================================================
