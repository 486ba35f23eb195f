------------------------- MODULE StorageServerProofs -------------------------
(***************************************************************************)
(* Theorems about StorageServer.tla, for every set of servers, flows and   *)
(* digests and every value of the bounds.                                  *)
(***************************************************************************)
EXTENDS StorageServer, FiniteSetTheorems, SequenceTheorems, TLAPS

(* The flows whose context is of digest m, and the counts that match them. *)
Readers(ctxs, m) == {f \in Flows : ctxs[f].md5 = m}
RefsMatch(ctxs, refs) == \A m \in Md5s : refs[m] = Cardinality(Readers(ctxs, m))

Contexts == [Flows -> DownloadContext]
References == [Md5s -> Nat]

----------------------------------------------------------------------------
(* Lemmas on contexts and references. *)

(* The readers of a digest are finitely many. *)
LEMMA ReadersFinite ==
  ASSUME NEW ctxs, NEW m
  PROVE  /\ IsFiniteSet(Readers(ctxs, m))
         /\ Cardinality(Readers(ctxs, m)) \in Nat
<1>1. Readers(ctxs, m) \subseteq Flows
  BY DEF Readers
<1>2. IsFiniteSet(Readers(ctxs, m))
  BY <1>1, FlowsAssumption, FS_Subset
<1> QED
  BY <1>2, FS_CardinalityType

(* A context that is not NoDownload is of a digest of Md5s. *)
LEMMA ContextDigest ==
  ASSUME NEW c \in DownloadContext
  PROVE  /\ c # NoDownload => c.md5 \in Md5s /\ c.index \in Nat
         /\ c = NoDownload <=> c.md5 = NoMd5
         /\ c = NoDownload => c.md5 \notin Md5s
BY Md5sAssumption DEF DownloadContext, NoDownload

(* Registering a download adds its flow to the readers of its digest. *)
LEMMA RegisterMatches ==
  ASSUME NEW ctxs \in Contexts, NEW refs \in References, RefsMatch(ctxs, refs),
         NEW f \in Flows, ctxs[f] = NoDownload, NEW m \in Md5s,
         NEW c2, c2 = [ctxs EXCEPT ![f] = [md5 |-> m, index |-> 0]],
         NEW r2, r2 = [refs EXCEPT ![m] = @ + 1]
  PROVE  c2 \in Contexts /\ r2 \in References /\ RefsMatch(c2, r2)
<1>1. c2 \in Contexts
  BY DEF Contexts, DownloadContext
<1>2. r2 \in References
  BY DEF References
<1>3. ASSUME NEW n \in Md5s PROVE r2[n] = Cardinality(Readers(c2, n))
  <2>1. CASE n = m
    <3>1. Readers(c2, m) = Readers(ctxs, m) \cup {f}
      BY DEF Readers, Contexts
    <3>2. f \notin Readers(ctxs, m)
      BY ContextDigest DEF Readers, Contexts
    <3>3. Cardinality(Readers(c2, m)) = Cardinality(Readers(ctxs, m)) + 1
      BY <3>1, <3>2, ReadersFinite, FS_AddElement
    <3> QED
      BY <2>1, <3>3 DEF RefsMatch, References
  <2>2. CASE n # m
    <3>1. Readers(c2, n) = Readers(ctxs, n)
      BY <2>2, ContextDigest DEF Readers, Contexts
    <3> QED
      BY <2>2, <3>1 DEF RefsMatch, References
  <2> QED
    BY <2>1, <2>2
<1> QED
  BY <1>1, <1>2, <1>3 DEF RefsMatch

(* Ending a download takes its flow from the readers of its digest, which  *)
(* were at least one.                                                      *)
LEMMA ReleaseMatches ==
  ASSUME NEW ctxs \in Contexts, NEW refs \in References, RefsMatch(ctxs, refs),
         NEW f \in Flows, ctxs[f] # NoDownload,
         NEW c2, c2 = [ctxs EXCEPT ![f] = NoDownload],
         NEW r2, r2 = [refs EXCEPT ![ctxs[f].md5] = refs[ctxs[f].md5] - 1]
  PROVE  /\ refs[ctxs[f].md5] > 0
         /\ c2 \in Contexts /\ r2 \in References /\ RefsMatch(c2, r2)
<1> DEFINE m == ctxs[f].md5
<1>1. m \in Md5s
  BY ContextDigest DEF Contexts
<1>2. f \in Readers(ctxs, m)
  BY DEF Readers
<1>3. refs[m] = Cardinality(Readers(ctxs, m))
  BY <1>1 DEF RefsMatch
<1>4. Readers(c2, m) = Readers(ctxs, m) \ {f}
  BY <1>1, ContextDigest DEF Readers, Contexts, NoDownload
<1>5. Cardinality(Readers(c2, m)) = Cardinality(Readers(ctxs, m)) - 1
  BY ZenonT(60), <1>2, <1>4, ReadersFinite, FS_RemoveElement
<1>6. refs[m] > 0
  BY <1>2, <1>3, <1>5, ReadersFinite
<1>7. c2 \in Contexts
  BY DEF Contexts, DownloadContext
<1>8. r2 \in References
  BY <1>1, <1>6 DEF References
<1>9. ASSUME NEW n \in Md5s PROVE r2[n] = Cardinality(Readers(c2, n))
  <2>1. CASE n = m
    BY <2>1, <1>1, <1>3, <1>5 DEF References
  <2>2. CASE n # m
    <3>1. \A g \in Flows : c2[g].md5 = n <=> ctxs[g].md5 = n
      BY <2>2, Md5sAssumption DEF Contexts, NoDownload
    <3>2. Readers(c2, n) = Readers(ctxs, n)
      BY <3>1 DEF Readers
    <3> QED
      BY <2>2, <3>2 DEF RefsMatch, References
  <2> QED
    BY <2>1, <2>2
<1> QED
  BY <1>6, <1>7, <1>8, <1>9 DEF RefsMatch

(* Stepping to the next piece changes no reader. *)
LEMMA AdvanceMatches ==
  ASSUME NEW ctxs \in Contexts, NEW refs \in References, RefsMatch(ctxs, refs),
         NEW f \in Flows, ctxs[f] # NoDownload,
         NEW c2, c2 = [ctxs EXCEPT ![f] = [md5 |-> ctxs[f].md5, index |-> ctxs[f].index + 1]]
  PROVE  c2 \in Contexts /\ RefsMatch(c2, refs)
<1>1. c2 \in Contexts
  BY ContextDigest DEF Contexts, DownloadContext, NoDownload
<1>2. \A g \in Flows : c2[g].md5 = ctxs[g].md5
  BY DEF Contexts, DownloadContext, NoDownload
<1>3. ASSUME NEW m PROVE Readers(c2, m) = Readers(ctxs, m)
  BY <1>2 DEF Readers
<1> QED
  BY <1>1, <1>3 DEF RefsMatch

----------------------------------------------------------------------------
(* Lemmas on the steps that several actions share. *)

(* What the environment sends is what a proxy may send. *)
LEMMA UploadInputTyped == UploadInput \subseteq UploadBlockMessage
BY DEF UploadInput, UploadBlockMessage, PieceContent, AlteredContent

(* Every message constructor of the server makes a message of its type. *)
LEMMA MessagesTyped ==
  /\ \A md5s \in SUBSET Md5s, eof \in BOOLEAN :
       TransferBlockSet(md5s, eof) \in StorageMessage
  /\ \A m \in Md5s : UploadBlockAck(m) \in StorageMessage
  /\ \A m \in Md5s \cup {NoMd5} : UploadBlockFail(m) \in StorageMessage
  /\ \A m \in Md5s, i \in Nat, eof \in BOOLEAN, f \in Flows, c \in PieceContent :
       TransferBlock(m, i, eof, f, c) \in StorageMessage
<1>1. \A md5s \in SUBSET Md5s, eof \in BOOLEAN :
        TransferBlockSet(md5s, eof) \in StorageMessage
  BY DEF StorageMessage, TransferBlockSet
<1>2. \A m \in Md5s : UploadBlockAck(m) \in StorageMessage
  BY DEF StorageMessage, UploadBlockAck
<1>3. \A m \in Md5s \cup {NoMd5} : UploadBlockFail(m) \in StorageMessage
  BY DEF StorageMessage, UploadBlockFail
<1>4. \A m \in Md5s, i \in Nat, eof \in BOOLEAN, f \in Flows, c \in PieceContent :
        TransferBlock(m, i, eof, f, c) \in StorageMessage
  BY DEF StorageMessage, TransferBlock
<1> QED
  BY <1>1, <1>2, <1>3, <1>4

(* Sending keeps the types and starts a write. *)
LEMMA SendTyped ==
  ASSUME TypeOK, NEW s \in Servers, NEW msg \in StorageMessage, Send(s, msg)
  PROVE  /\ toProxy' \in [Servers -> Seq(StorageMessage)]
         /\ writing' \in [Servers -> BOOLEAN]
         /\ writing'[s] = TRUE
         /\ \A r \in Servers : r # s => writing'[r] = writing[r]
         /\ \A r \in Servers : r # s => toProxy'[r] = toProxy[r]
         /\ toProxy'[s] = Append(toProxy[s], msg)
BY DEF TypeOK, Send

(* A set of the digests left is sent. *)
LEMMA SendSetTyped ==
  ASSUME TypeOK, NEW s \in Servers, NEW left \in SUBSET Md5s,
         SendSomeMd5sToProxy(s, left)
  PROVE  /\ transferingMd5s' \in [Servers -> SUBSET Md5s]
         /\ sState' \in [Servers -> {"down", "transfering_block_set", "working"}]
         /\ \A r \in Servers : r # s => sState'[r] = sState[r]
         /\ \E msg \in StorageMessage :
              msg.type = "transfer_block_set" /\ Send(s, msg)
<1>1. PICK chunk \in SUBSET left :
        /\ transferingMd5s' = [transferingMd5s EXCEPT ![s] = left \ chunk]
        /\ sState' = [sState EXCEPT
             ![s] = IF chunk = left THEN "working" ELSE "transfering_block_set"]
        /\ Send(s, TransferBlockSet(chunk, chunk = left))
  BY DEF SendSomeMd5sToProxy
<1>2. TransferBlockSet(chunk, chunk = left) \in StorageMessage
  BY MessagesTyped
<1>3. TransferBlockSet(chunk, chunk = left).type = "transfer_block_set"
  BY DEF TransferBlockSet
<1> QED
  BY <1>1, <1>2, <1>3 DEF TypeOK

(* A piece is sent: the contexts and the references still match. *)
LEMMA SendPieceTyped ==
  ASSUME TypeOK, NEW s \in Servers,
         NEW ctxs \in Contexts, NEW refs \in References, RefsMatch(ctxs, refs),
         SendSomeMd5PieceToProxy(s, ctxs, refs)
  PROVE  /\ downloadingContext' \in [Servers -> Contexts]
         /\ downloadingMd5s' \in [Servers -> References]
         /\ RefsMatch(downloadingContext'[s], downloadingMd5s'[s])
         /\ \A r \in Servers : r # s =>
              /\ downloadingContext'[r] = downloadingContext[r]
              /\ downloadingMd5s'[r] = downloadingMd5s[r]
         /\ \E msg \in StorageMessage :
              msg.type = "transfer_block" /\ Send(s, msg)
<1> DEFINE Eof(f) == ctxs[f].index + 1 >= file[s][ctxs[f].md5]
           Content(f) == IF ctxs[f].index < file[s][ctxs[f].md5]
                           THEN <<ctxs[f].md5, ctxs[f].index>> ELSE AlteredContent
           Refs(f) == [refs EXCEPT ![ctxs[f].md5] =
                         IF Eof(f) THEN refs[ctxs[f].md5] - 1 ELSE refs[ctxs[f].md5]]
           Ctxs(f) == [ctxs EXCEPT ![f] = Advanced(ctxs[f], Eof(f))]
           Msg(f) == TransferBlock(ctxs[f].md5, ctxs[f].index, Eof(f), f, Content(f))
<1>1. PICK f \in Flows :
        /\ FirstFlow(ctxs, f)
        /\ Send(s, Msg(f))
        /\ downloadingContext' = [downloadingContext EXCEPT ![s] = Ctxs(f)]
        /\ downloadingMd5s' = [downloadingMd5s EXCEPT ![s] = Refs(f)]
  BY DEF SendSomeMd5PieceToProxy
<1>2. ctxs[f] # NoDownload
  BY <1>1 DEF FirstFlow, Downloading
<1>3. ctxs[f].md5 \in Md5s /\ ctxs[f].index \in Nat
  BY <1>2, ContextDigest DEF Contexts
<1>4. Eof(f) \in BOOLEAN /\ Content(f) \in PieceContent
  BY <1>3 DEF PieceContent, AlteredContent
<1>5. Msg(f) \in StorageMessage
  BY <1>3, <1>4, MessagesTyped
<1>6. Msg(f).type = "transfer_block"
  BY DEF TransferBlock
<1>7. Ctxs(f) \in Contexts /\ Refs(f) \in References /\ RefsMatch(Ctxs(f), Refs(f))
  <2>1. CASE Eof(f)
    <3>1. Ctxs(f) = [ctxs EXCEPT ![f] = NoDownload]
      BY <2>1 DEF Advanced
    <3>2. Refs(f) = [refs EXCEPT ![ctxs[f].md5] = refs[ctxs[f].md5] - 1]
      BY <2>1
    <3> HIDE DEF Ctxs, Refs
    <3> QED
      BY <3>1, <3>2, <1>2, ReleaseMatches
  <2>2. CASE ~Eof(f)
    <3>1. Ctxs(f) = [ctxs EXCEPT ![f] =
                       [md5 |-> ctxs[f].md5, index |-> ctxs[f].index + 1]]
      BY <2>2 DEF Advanced
    <3>2. Refs(f) = refs
      BY <2>2 DEF References
    <3> HIDE DEF Ctxs, Refs
    <3> QED
      BY <3>1, <3>2, <1>2, AdvanceMatches
  <2> QED
    BY <2>1, <2>2
<1>8. downloadingContext \in [Servers -> Contexts]
      /\ downloadingMd5s \in [Servers -> References]
  BY DEF TypeOK, Contexts, References
<1> HIDE DEF Ctxs, Refs, Msg, Eof
<1> QED
  BY <1>1, <1>5, <1>6, <1>7, <1>8

(* The end of the process resets the memory of s and nothing else. *)
LEMMA ExitTyped ==
  ASSUME TypeOK, NEW s \in Servers, NEW sent \in Seq(StorageMessage), Exit(s, sent)
  PROVE  /\ toProxy' \in [Servers -> Seq(StorageMessage)]
         /\ sState' \in [Servers -> {"down", "transfering_block_set", "working"}]
         /\ transferingMd5s' \in [Servers -> SUBSET Md5s]
         /\ uploadingContext' \in [Servers -> [Flows -> UploadContext]]
         /\ downloadingMd5s' \in [Servers -> References]
         /\ downloadingContext' \in [Servers -> Contexts]
         /\ writing' \in [Servers -> BOOLEAN]
         /\ RefsMatch(downloadingContext'[s], downloadingMd5s'[s])
<1>1. PICK n \in 0 .. Len(sent) : toProxy' = [toProxy EXCEPT ![s] = SubSeq(sent, 1, n)]
  BY DEF Exit
<1>2. SubSeq(sent, 1, n) \in Seq(StorageMessage)
  BY SubSeqProperties
<1>3. toProxy' \in [Servers -> Seq(StorageMessage)]
  BY <1>1, <1>2 DEF TypeOK
<1>4. NoUpload \in UploadContext
  BY EmptySeq DEF NoUpload, UploadContext
<1>5. uploadingContext' \in [Servers -> [Flows -> UploadContext]]
  BY <1>4 DEF Exit, TypeOK
<1>6. downloadingContext' \in [Servers -> Contexts]
      /\ downloadingMd5s' \in [Servers -> References]
  BY DEF Exit, TypeOK, Contexts, References, DownloadContext
<1>7. RefsMatch(downloadingContext'[s], downloadingMd5s'[s])
  <2>1. downloadingContext'[s] = [f \in Flows |-> NoDownload]
        /\ downloadingMd5s'[s] = [m \in Md5s |-> 0]
    BY DEF Exit, TypeOK
  <2>2. ASSUME NEW m \in Md5s PROVE Readers([f \in Flows |-> NoDownload], m) = {}
    BY Md5sAssumption DEF Readers, NoDownload
  <2> QED
    BY <2>1, <2>2, FS_EmptySet DEF RefsMatch
<1> QED
  BY <1>3, <1>5, <1>6, <1>7 DEF Exit, TypeOK

----------------------------------------------------------------------------
(* The inductive invariant.  PumpAlive and the types need the exact counts: *)
(* a count that is too small would fall below 0, or drop the content of a   *)
(* block that a flow still downloads.                                       *)

IInv == TypeOK /\ RefCountExact /\ PumpAlive

(* RefCountExact is RefsMatch of every server. *)
LEMMA RefCountByServer ==
  RefCountExact <=>
    \A s \in Servers : RefsMatch(downloadingContext[s], downloadingMd5s[s])
BY DEF RefCountExact, RefsMatch, Readers

(* A server that is not running counts no reference and owes no write. *)
LEMMA InitInvariant == Init => IInv
<1> SUFFICES ASSUME Init PROVE IInv
  OBVIOUS
<1>1. TypeOK
  <2>1. NoUpload \in UploadContext
    BY EmptySeq DEF NoUpload, UploadContext
  <2>2. file \in [Servers -> [Md5s -> Nat \cup {Missing}]]
    BY PiecesAssumption DEF Init
  <2>3. toProxy \in [Servers -> Seq(StorageMessage)]
    BY EmptySeq DEF Init
  <2> QED
    BY <2>1, <2>2, <2>3 DEF Init, TypeOK, DownloadContext
<1>2. RefCountExact
  <2>1. \A m \in Md5s, s \in Servers : {f \in Flows : downloadingContext[s][f].md5 = m} = {}
    BY Md5sAssumption DEF Init, NoDownload
  <2> QED
    BY <2>1, FS_EmptySet DEF Init, RefCountExact
<1>3. PumpAlive
  BY DEF Init, PumpAlive, Downloading
<1> QED
  BY <1>1, <1>2, <1>3 DEF IInv

(* The end of the process, whatever it had sent and whatever disk it leaves. *)
LEMMA ExitInvariant ==
  ASSUME IInv, NEW s \in Servers, NEW sent \in Seq(StorageMessage), Exit(s, sent),
         md5_path' \in [Servers -> SUBSET Md5s],
         file' \in [Servers -> [Md5s -> Nat \cup {Missing}]]
  PROVE  IInv'
<1> USE DEF IInv
<1>1. TypeOK'
  BY ExitTyped DEF TypeOK, References, Contexts
<1>2. RefCountExact'
  <2>1. \A r \in Servers : RefsMatch(downloadingContext'[r], downloadingMd5s'[r])
    <3>1. RefsMatch(downloadingContext'[s], downloadingMd5s'[s])
      BY ExitTyped
    <3>2. ASSUME NEW r \in Servers, r # s
          PROVE  /\ downloadingContext'[r] = downloadingContext[r]
                 /\ downloadingMd5s'[r] = downloadingMd5s[r]
      BY <3>2 DEF Exit, TypeOK
    <3> QED
      BY <3>1, <3>2, RefCountByServer
  <2> QED
    BY <2>1 DEF RefCountExact, RefsMatch, Readers
<1>3. PumpAlive'
  <2>1. sState'[s] = "down" /\ Downloading(downloadingContext'[s]) = {}
    BY DEF Exit, TypeOK, Downloading
  <2>2. ASSUME NEW r \in Servers, r # s
        PROVE  /\ downloadingContext'[r] = downloadingContext[r]
               /\ sState'[r] = sState[r]
               /\ writing'[r] = writing[r]
    BY <2>2 DEF Exit, TypeOK
  <2> QED
    BY <2>1, <2>2 DEF PumpAlive, Downloading
<1> QED
  BY <1>1, <1>2, <1>3

(* A step that sends a message and leaves the downloads alone. *)
LEMMA SendInvariant ==
  ASSUME IInv, NEW s \in Servers, NEW msg \in StorageMessage, Send(s, msg),
         sState' \in [Servers -> {"down", "transfering_block_set", "working"}],
         \A r \in Servers : r # s => sState'[r] = sState[r],
         transferingMd5s' \in [Servers -> SUBSET Md5s],
         uploadingContext' \in [Servers -> [Flows -> UploadContext]],
         md5_path' \in [Servers -> SUBSET Md5s],
         file' \in [Servers -> [Md5s -> Nat \cup {Missing}]],
         UNCHANGED <<downloadingMd5s, downloadingContext>>
  PROVE  IInv'
<1> USE DEF IInv
<1>1. TypeOK'
  BY SendTyped DEF TypeOK
<1>2. RefCountExact'
  BY DEF RefCountExact
<1>3. PumpAlive'
  BY SendTyped DEF PumpAlive
<1> QED
  BY <1>1, <1>2, <1>3

(* A step that sends a piece. *)
LEMMA SendPieceInvariant ==
  ASSUME IInv, NEW s \in Servers,
         NEW ctxs \in Contexts, NEW refs \in References, RefsMatch(ctxs, refs),
         SendSomeMd5PieceToProxy(s, ctxs, refs),
         UNCHANGED <<sState, transferingMd5s, uploadingContext, disk>>
  PROVE  IInv'
<1> USE DEF IInv
<1>1. PICK msg \in StorageMessage : Send(s, msg)
  BY SendPieceTyped
<1>2. TypeOK'
  BY <1>1, SendTyped, SendPieceTyped DEF TypeOK, Contexts, References, disk
<1>3. RefCountExact'
  <2>1. \A r \in Servers : RefsMatch(downloadingContext'[r], downloadingMd5s'[r])
    BY SendPieceTyped, RefCountByServer
  <2> QED
    BY <2>1 DEF RefCountExact, RefsMatch, Readers
<1>4. PumpAlive'
  BY <1>1, SendTyped, SendPieceTyped DEF PumpAlive
<1> QED
  BY <1>2, <1>3, <1>4

(* Connecting sends the first set of digests. *)
LEMMA OnConnectionInvariant ==
  ASSUME IInv, NEW s \in Servers, OnConnection(s)
  PROVE  IInv'
<1> USE DEF IInv
<1>1. md5_path[s] \in SUBSET Md5s
  BY DEF TypeOK
<1>2. SendSomeMd5sToProxy(s, md5_path[s])
  BY DEF OnConnection
<1>3. PICK msg \in StorageMessage : Send(s, msg)
  BY <1>1, <1>2, SendSetTyped
<1> QED
  BY <1>1, <1>2, <1>3, SendSetTyped, SendInvariant DEF OnConnection, TypeOK, disk

(* A completed write sends the next set, the next piece, or finds no work. *)
LEMMA OnWriteCompleteInvariant ==
  ASSUME IInv, NEW s \in Servers, OnWriteComplete(s)
  PROVE  IInv'
<1> USE DEF IInv
<1>1. CASE /\ SendSomeMd5sToProxy(s, transferingMd5s[s])
           /\ UNCHANGED <<uploadingContext, downloadingMd5s, downloadingContext, disk>>
  <2>1. transferingMd5s[s] \in SUBSET Md5s
    BY DEF TypeOK
  <2>2. PICK msg \in StorageMessage : Send(s, msg)
    BY <1>1, <2>1, SendSetTyped
  <2> QED
    BY <1>1, <2>1, <2>2, SendSetTyped, SendInvariant DEF TypeOK, disk
<1>2. CASE /\ SendSomeMd5PieceToProxy(s, downloadingContext[s], downloadingMd5s[s])
           /\ UNCHANGED <<sState, transferingMd5s, uploadingContext, disk>>
  <2>1. /\ downloadingContext[s] \in Contexts
        /\ downloadingMd5s[s] \in References
        /\ RefsMatch(downloadingContext[s], downloadingMd5s[s])
    BY RefCountByServer DEF TypeOK, Contexts, References
  <2> QED
    BY <1>2, <2>1, SendPieceInvariant
<1>3. CASE /\ sState[s] = "working"
           /\ Downloading(downloadingContext[s]) = {}
           /\ writing' = [writing EXCEPT ![s] = FALSE]
           /\ UNCHANGED <<memory, toProxy, disk>>
  <2>1. TypeOK'
    BY <1>3 DEF TypeOK, memory, disk
  <2>2. RefCountExact'
    BY <1>3 DEF RefCountExact, memory
  <2>3. PumpAlive'
    BY <1>3 DEF PumpAlive, memory, TypeOK
  <2> QED
    BY <2>1, <2>2, <2>3
<1> QED
  BY <1>1, <1>2, <1>3 DEF OnWriteComplete

(* The upload context of a flow after a piece is a context again. *)
LEMMA UploadTyped ==
  ASSUME TypeOK, NEW s \in Servers, NEW msg \in UploadBlockMessage
  PROVE  UploadOf(s, msg) \in UploadContext
<1> DEFINE ctx == uploadingContext[s][msg.flow_id]
<1>1. msg.flow_id \in Flows /\ msg.md5 \in Md5s /\ msg.content \in PieceContent
  BY DEF UploadBlockMessage
<1>2. ctx \in UploadContext
  BY <1>1 DEF TypeOK
<1>3. ctx.md5 \in Md5s \cup {NoMd5} /\ ctx.content \in Seq(PieceContent)
  BY <1>2 DEF UploadContext
<1>4. Append(ctx.content, msg.content) \in Seq(PieceContent)
  BY <1>1, <1>3, AppendProperties
<1> QED
  BY <1>1, <1>3, <1>4 DEF UploadOf, Extended, UploadContext

(* Forgetting a flow's upload keeps the types. *)
LEMMA CleanUploadTyped ==
  ASSUME TypeOK, NEW s \in Servers, NEW f \in Flows, CleanUploadContext(s, f)
  PROVE  uploadingContext' \in [Servers -> [Flows -> UploadContext]]
<1>1. NoUpload \in UploadContext
  BY EmptySeq DEF NoUpload, UploadContext
<1> QED
  BY <1>1 DEF CleanUploadContext, TypeOK

(* A piece of a block touches no download. *)
LEMMA OnUploadBlockInvariant ==
  ASSUME IInv, NEW s \in Servers, NEW msg \in UploadBlockMessage,
         OnUploadBlock(s, msg)
  PROVE  IInv'
<1> USE DEF IInv
<1>1. msg.flow_id \in Flows /\ msg.md5 \in Md5s
  BY DEF UploadBlockMessage
<1>2. CASE ReceivePiece(s, msg)
  <2>1. uploadingContext' \in [Servers -> [Flows -> UploadContext]]
    BY <1>1, <1>2, UploadTyped DEF ReceivePiece, TypeOK
  <2>2. TypeOK'
    BY <1>2, <2>1 DEF ReceivePiece, TypeOK, disk
  <2>3. RefCountExact' /\ PumpAlive'
    BY <1>2 DEF ReceivePiece, RefCountExact, PumpAlive
  <2> QED
    BY <2>2, <2>3
<1>3. CASE RejectBlock(s, msg)
  <2>1. UploadBlockFail(msg.md5) \in StorageMessage
    BY <1>1, MessagesTyped
  <2> QED
    BY <1>1, <1>3, <2>1, CleanUploadTyped, SendInvariant
    DEF RejectBlock, TypeOK, disk
<1>4. CASE StoreBlock(s, msg)
  <2>1. UploadBlockAck(msg.md5) \in StorageMessage
    BY <1>1, MessagesTyped
  <2>2. md5_path' \in [Servers -> SUBSET Md5s]
    BY <1>1, <1>4 DEF StoreBlock, TypeOK
  <2>3. file' \in [Servers -> [Md5s -> Nat \cup {Missing}]]
    BY <1>1, <1>4, PiecesAssumption DEF StoreBlock, StoredFile, TypeOK
  <2> QED
    BY <1>1, <1>4, <2>1, <2>2, <2>3, CleanUploadTyped, SendInvariant
    DEF StoreBlock, TypeOK
<1> QED
  BY <1>2, <1>3, <1>4 DEF OnUploadBlock

(* A request registers its flow and starts the pump. *)
LEMMA OnDownLoadBlockInvariant ==
  ASSUME IInv, NEW s \in Servers, NEW msg \in DownLoadBlockMessage,
         OnDownLoadBlock(s, msg)
  PROVE  IInv'
<1> USE DEF IInv
<1> DEFINE ctxs == [downloadingContext[s] EXCEPT
                      ![msg.flow_id] = [md5 |-> msg.md5, index |-> 0]]
           refs == [downloadingMd5s[s] EXCEPT ![msg.md5] = @ + 1]
<1>1. msg.flow_id \in Flows /\ msg.md5 \in Md5s
  BY DEF DownLoadBlockMessage
<1>2. /\ downloadingContext[s] \in Contexts
      /\ downloadingMd5s[s] \in References
      /\ RefsMatch(downloadingContext[s], downloadingMd5s[s])
  BY RefCountByServer DEF TypeOK, Contexts, References
<1>3. downloadingContext[s][msg.flow_id] = NoDownload
  BY DEF OnDownLoadBlock, Servable
<1>4. ctxs \in Contexts /\ refs \in References /\ RefsMatch(ctxs, refs)
  BY <1>1, <1>2, <1>3, RegisterMatches
<1>5. SendSomeMd5PieceToProxy(s, ctxs, refs)
  BY DEF OnDownLoadBlock
<1> HIDE DEF ctxs, refs
<1> QED
  BY <1>4, <1>5, SendPieceInvariant DEF OnDownLoadBlock

(* Cleaning a flow takes its context and its reference together. *)
LEMMA OnClientCleanInvariant ==
  ASSUME IInv, NEW s \in Servers, NEW msg \in ClientCleanMessage,
         OnClientClean(s, msg)
  PROVE  IInv'
<1> USE DEF IInv
<1> DEFINE f == msg.flow_id
           ctxs == downloadingContext[s]
           refs == downloadingMd5s[s]
<1>1. f \in Flows
  BY DEF ClientCleanMessage
<1>2. ctxs \in Contexts /\ refs \in References /\ RefsMatch(ctxs, refs)
  BY RefCountByServer DEF TypeOK, Contexts, References
<1>3. /\ Cleaned(s, f) \in Contexts
      /\ Released(s, f) \in References
      /\ RefsMatch(Cleaned(s, f), Released(s, f))
  <2>1. CASE ctxs[f] = NoDownload
    <3>1. Cleaned(s, f) = ctxs /\ Released(s, f) = refs
      BY <1>1, <1>2, <2>1 DEF Cleaned, Released, Contexts
    <3> QED
      BY <1>2, <3>1
  <2>2. CASE ctxs[f] # NoDownload
    <3>1. /\ Cleaned(s, f) = [ctxs EXCEPT ![f] = NoDownload]
          /\ Released(s, f) = [refs EXCEPT ![ctxs[f].md5] = refs[ctxs[f].md5] - 1]
      BY <2>2 DEF Cleaned, Released
    <3> QED
      BY <1>1, <1>2, <2>2, <3>1, ReleaseMatches
  <2> QED
    BY <2>1, <2>2
<1>4. /\ downloadingContext' = [downloadingContext EXCEPT ![s] = Cleaned(s, f)]
      /\ downloadingMd5s' = [downloadingMd5s EXCEPT ![s] = Released(s, f)]
      /\ CleanUploadContext(s, f)
      /\ UNCHANGED <<sState, transferingMd5s, writing, toProxy, disk>>
  BY DEF OnClientClean
<1>5. TypeOK'
  <2>1. downloadingContext \in [Servers -> Contexts]
        /\ downloadingMd5s \in [Servers -> References]
    BY DEF TypeOK, Contexts, References
  <2>2. downloadingContext' \in [Servers -> Contexts]
        /\ downloadingMd5s' \in [Servers -> References]
    BY <1>3, <1>4, <2>1
  <2>3. uploadingContext' \in [Servers -> [Flows -> UploadContext]]
    BY <1>1, <1>4, CleanUploadTyped
  <2> QED
    BY <1>4, <2>2, <2>3 DEF TypeOK, Contexts, References, disk
<1>6. RefCountExact'
  <2>1. \A r \in Servers : RefsMatch(downloadingContext'[r], downloadingMd5s'[r])
    BY <1>3, <1>4, RefCountByServer DEF TypeOK
  <2> QED
    BY <2>1 DEF RefCountExact, RefsMatch, Readers
<1>7. PumpAlive'
  <2>1. \A r \in Servers :
          Downloading(downloadingContext'[r]) \subseteq Downloading(downloadingContext[r])
    BY <1>1, <1>4 DEF Downloading, Cleaned, TypeOK
  <2> QED
    BY <1>4, <2>1 DEF PumpAlive
<1> QED
  BY <1>5, <1>6, <1>7

(* A crash resets the server's memory. *)
LEMMA CrashInvariant ==
  ASSUME IInv, NEW s \in Servers, Crash(s)
  PROVE  IInv'
BY ExitInvariant DEF Crash, IInv, TypeOK, disk

(* So does one in the middle of storing a block, which changes the disk. *)
LEMMA CrashWhileStoringInvariant ==
  ASSUME IInv, NEW s \in Servers, NEW msg \in UploadBlockMessage,
         CrashWhileStoring(s, msg)
  PROVE  IInv'
<1>1. msg.md5 \in Md5s
  BY DEF UploadBlockMessage
<1>2. md5_path' \in [Servers -> SUBSET Md5s]
  BY <1>1 DEF CrashWhileStoring, IInv, TypeOK
<1>3. PICK written \in {Missing} \cup 0 .. (Pieces[msg.md5] - 1) :
        file' = [file EXCEPT ![s][msg.md5] = IF @ = Missing THEN written ELSE @]
  BY DEF CrashWhileStoring
<1>4. written \in Nat \cup {Missing}
  BY <1>1, PiecesAssumption
<1>5. file' \in [Servers -> [Md5s -> Nat \cup {Missing}]]
  BY <1>1, <1>3, <1>4 DEF IInv, TypeOK
<1> QED
  BY <1>2, <1>5, ExitInvariant DEF CrashWhileStoring, IInv, TypeOK

(* So does exit(-1) on a block that cannot be served. *)
LEMMA ExitOnDownLoadBlockInvariant ==
  ASSUME IInv, NEW s \in Servers, NEW msg, ExitOnDownLoadBlock(s, msg)
  PROVE  IInv'
BY ExitInvariant DEF ExitOnDownLoadBlock, IInv, TypeOK, disk

(* So does the end of the connection, which reports uploads as failed. *)
LEMMA OnCloseInvariant ==
  ASSUME IInv, NEW s \in Servers, OnClose(s)
  PROVE  IInv'
<1> USE DEF IInv
<1>1. PICK flow \in [1 .. Cardinality(Uploading(s)) -> Uploading(s)] :
        Exit(s, toProxy[s] \o
               [i \in DOMAIN flow |-> UploadBlockFail(uploadingContext[s][flow[i]].md5)])
  BY DEF OnClose
<1> DEFINE fails == [i \in DOMAIN flow |->
                       UploadBlockFail(uploadingContext[s][flow[i]].md5)]
<1>2. Cardinality(Uploading(s)) \in Nat
  BY FlowsAssumption, FS_Subset, FS_CardinalityType DEF Uploading
<1>3. ASSUME NEW i \in DOMAIN flow PROVE fails[i] \in StorageMessage
  <2>1. flow[i] \in Flows
    BY DEF Uploading
  <2>2. uploadingContext[s][flow[i]].md5 \in Md5s \cup {NoMd5}
    BY <2>1 DEF TypeOK, UploadContext
  <2> QED
    BY <2>2, MessagesTyped
<1>4. fails \in [1 .. Cardinality(Uploading(s)) -> StorageMessage]
  BY <1>3
<1>5. fails \in Seq(StorageMessage)
  BY <1>2, <1>4
<1>6. toProxy[s] \in Seq(StorageMessage)
  BY DEF TypeOK
<1> HIDE DEF fails
<1>7. toProxy[s] \o fails \in Seq(StorageMessage)
  BY <1>5, <1>6, ConcatProperties
<1> QED
  BY <1>1, <1>7, ExitInvariant DEF OnClose, TypeOK, disk, fails

(* Receiving a message changes nothing at the server. *)
LEMMA DeliverInvariant ==
  ASSUME IInv, NEW s \in Servers, Deliver(s)
  PROVE  IInv'
<1> USE DEF IInv
<1>1. Tail(toProxy[s]) \in Seq(StorageMessage)
  BY HeadTailProperties DEF Deliver, TypeOK
<1>2. TypeOK'
  BY <1>1 DEF Deliver, TypeOK, memory, disk
<1>3. RefCountExact' /\ PumpAlive'
  BY DEF Deliver, RefCountExact, PumpAlive, memory
<1> QED
  BY <1>2, <1>3

(* Every step keeps the invariant. *)
LEMMA NextInvariant == IInv /\ [Next]_sVars => IInv'
<1> SUFFICES ASSUME IInv, [Next]_sVars PROVE IInv'
  OBVIOUS
<1>1. ASSUME NEW s \in Servers, OnMessage(s) PROVE IInv'
  <2>1. ASSUME NEW msg \in UploadInput,
               OnUploadBlock(s, msg) \/ CrashWhileStoring(s, msg)
        PROVE  IInv'
    BY <2>1, UploadInputTyped, OnUploadBlockInvariant, CrashWhileStoringInvariant
  <2>2. ASSUME NEW msg \in DownLoadBlockMessage,
               OnDownLoadBlock(s, msg) \/ ExitOnDownLoadBlock(s, msg)
        PROVE  IInv'
    BY <2>2, OnDownLoadBlockInvariant, ExitOnDownLoadBlockInvariant
  <2>3. ASSUME NEW msg \in ClientCleanMessage, OnClientClean(s, msg)
        PROVE  IInv'
    BY <2>3, OnClientCleanInvariant
  <2> QED
    BY <1>1, <2>1, <2>2, <2>3 DEF OnMessage
<1>2. CASE UNCHANGED sVars
  BY <1>2 DEF IInv, TypeOK, RefCountExact, PumpAlive, sVars, memory, disk
<1> QED
  BY <1>1, <1>2, OnConnectionInvariant, OnWriteCompleteInvariant, OnCloseInvariant,
     CrashInvariant, DeliverInvariant DEF Next

(* Type correctness: every handler leaves values of the declared types; in *)
(* particular no reference count ever falls below zero (storage_server.cpp *)
(* asserts ref > 0 before each decrement).                                 *)
THEOREM TypeCorrect == Spec => []TypeOK
<1>1. IInv => TypeOK
  BY DEF IInv
<1> QED
  BY <1>1, InitInvariant, NextInvariant, PTL DEF Spec

(* References to a loaded block are exactly the flows that download it.    *)
THEOREM ReferencesCorrect == Spec => []RefCountExact
<1>1. IInv => RefCountExact
  BY DEF IInv
<1> QED
  BY <1>1, InitInvariant, NextInvariant, PTL DEF Spec

(* Whenever digests or pieces remain to be sent, a write is under way whose *)
(* completion sends the next: the pump never stops with work left.          *)
THEOREM PumpNeverStops == Spec => []PumpAlive
<1>1. IInv => PumpAlive
  BY DEF IInv
<1> QED
  BY <1>1, InitInvariant, NextInvariant, PTL DEF Spec

----------------------------------------------------------------------------
(* What is on disk, and what was acknowledged.  The disk only grows, so an  *)
(* acknowledgement stays true while it is under way.                        *)

DiskGrows ==
  \A s \in Servers, m \in Md5s :
    /\ m \in md5_path[s] => m \in md5_path'[s]
    /\ file[s][m] # Missing => file'[s][m] # Missing

(* Loadable after the step. *)
LoadableNext(s, m) == m \in md5_path'[s] /\ file'[s][m] # Missing

AckedIn(s, q) ==
  \A i \in DOMAIN q : q[i].type = "upload_block_ack" => Loadable(s, q[i].md5)

(* The digests of the acknowledgements of a queue are digests of blocks.    *)
LEMMA AckDigest ==
  ASSUME NEW msg \in StorageMessage, msg.type = "upload_block_ack"
  PROVE  msg.md5 \in Md5s
BY DEF StorageMessage

(* What holds of the acknowledgements of a queue stays true as disks grow.  *)
LEMMA AckedGrows ==
  ASSUME DiskGrows, NEW s \in Servers, NEW q \in Seq(StorageMessage), AckedIn(s, q)
  PROVE  \A i \in DOMAIN q : q[i].type = "upload_block_ack" => LoadableNext(s, q[i].md5)
<1> SUFFICES ASSUME NEW i \in DOMAIN q, q[i].type = "upload_block_ack"
             PROVE  LoadableNext(s, q[i].md5)
  OBVIOUS
<1>1. q[i] \in StorageMessage
  OBVIOUS
<1>2. q[i].md5 \in Md5s
  BY <1>1, AckDigest
<1>3. Loadable(s, q[i].md5)
  BY DEF AckedIn
<1> QED
  BY <1>2, <1>3 DEF DiskGrows, Loadable, LoadableNext

(* A step that appends a message which, if it is an acknowledgement, is of  *)
(* a block on disk.                                                         *)
LEMMA AckedSend ==
  ASSUME TypeOK, AckedOnDisk, DiskGrows, NEW s \in Servers, NEW msg \in StorageMessage,
         Send(s, msg), msg.type = "upload_block_ack" => LoadableNext(s, msg.md5)
  PROVE  AckedOnDisk'
<1> SUFFICES ASSUME NEW r \in Servers, NEW i \in DOMAIN toProxy'[r],
                    toProxy'[r][i].type = "upload_block_ack"
             PROVE  LoadableNext(r, toProxy'[r][i].md5)
  BY DEF AckedOnDisk, Loadable, LoadableNext
<1>1. toProxy[r] \in Seq(StorageMessage) /\ AckedIn(r, toProxy[r])
  BY DEF TypeOK, AckedOnDisk, AckedIn
<1>2. CASE r # s
  BY <1>1, <1>2, SendTyped, AckedGrows
<1>3. CASE r = s
  <2>1. toProxy'[s] = Append(toProxy[s], msg)
    BY SendTyped
  <2>2. CASE i \in 1 .. Len(toProxy[s])
    <3>1. toProxy'[s][i] = toProxy[s][i] /\ i \in DOMAIN toProxy[s]
      BY <1>1, <1>3, <2>1, <2>2
    <3> QED
      BY <1>1, <1>3, <3>1, AckedGrows
  <2>3. CASE i = Len(toProxy[s]) + 1
    <3>1. toProxy'[s][i] = msg
      BY <1>1, <1>3, <2>1, <2>3
    <3> QED
      BY <1>3, <3>1
  <2>4. i \in 1 .. Len(toProxy[s]) + 1
    BY <1>1, <1>3, <2>1
  <2> QED
    BY <2>2, <2>3, <2>4, <1>1, <1>3
<1> QED
  BY <1>2, <1>3

(* A step that leaves some prefix of messages acknowledged already.         *)
LEMMA AckedExit ==
  ASSUME TypeOK, AckedOnDisk, DiskGrows, NEW s \in Servers,
         NEW sent \in Seq(StorageMessage), AckedIn(s, sent), Exit(s, sent)
  PROVE  AckedOnDisk'
<1> SUFFICES ASSUME NEW r \in Servers, NEW i \in DOMAIN toProxy'[r],
                    toProxy'[r][i].type = "upload_block_ack"
             PROVE  LoadableNext(r, toProxy'[r][i].md5)
  BY DEF AckedOnDisk, Loadable, LoadableNext
<1>1. PICK n \in 0 .. Len(sent) : toProxy' = [toProxy EXCEPT ![s] = SubSeq(sent, 1, n)]
  BY DEF Exit
<1>2. CASE r # s
  <2>1. toProxy'[r] = toProxy[r]
    BY <1>1, <1>2 DEF TypeOK
  <2>2. toProxy[r] \in Seq(StorageMessage) /\ AckedIn(r, toProxy[r])
    BY DEF TypeOK, AckedOnDisk, AckedIn
  <2> QED
    BY <2>1, <2>2, AckedGrows
<1>3. CASE r = s
  <2>1. toProxy'[r] = SubSeq(sent, 1, n)
    BY <1>1, <1>3 DEF TypeOK
  <2>2. i \in DOMAIN sent /\ toProxy'[r][i] = sent[i]
    BY <2>1
  <2> QED
    BY <1>3, <2>2, AckedGrows
<1> QED
  BY <1>2, <1>3

(* A step that leaves the queues alone. *)
LEMMA AckedSame ==
  ASSUME TypeOK, AckedOnDisk, DiskGrows, UNCHANGED toProxy
  PROVE  AckedOnDisk'
<1> SUFFICES ASSUME NEW r \in Servers, NEW i \in DOMAIN toProxy'[r],
                    toProxy'[r][i].type = "upload_block_ack"
             PROVE  LoadableNext(r, toProxy'[r][i].md5)
  BY DEF AckedOnDisk, Loadable, LoadableNext
<1>1. toProxy[r] \in Seq(StorageMessage) /\ AckedIn(r, toProxy[r])
  BY DEF TypeOK, AckedOnDisk, AckedIn
<1> QED
  BY <1>1, AckedGrows

(* Recording a path before, or together with, its file keeps FileHasPath    *)
(* and lets the disk grow.                                                  *)
LEMMA DiskStored ==
  ASSUME TypeOK, FileHasPath, NEW s \in Servers, NEW m \in Md5s, NEW pieces,
         md5_path' = [md5_path EXCEPT ![s] = @ \cup {m}],
         file' = [file EXCEPT ![s][m] = IF file[s][m] = Missing THEN pieces ELSE file[s][m]]
  PROVE  DiskGrows /\ FileHasPath'
BY DEF TypeOK, FileHasPath, DiskGrows

(* A step that leaves the disk alone keeps FileHasPath. *)
LEMMA DiskSame ==
  ASSUME FileHasPath, UNCHANGED disk
  PROVE  DiskGrows /\ FileHasPath'
BY DEF FileHasPath, DiskGrows, disk

DiskInv == FileHasPath /\ AckedOnDisk

(* A block is acknowledged in the step that has it on disk. *)
LEMMA OnUploadBlockDisk ==
  ASSUME TypeOK, DiskInv, NEW s \in Servers, NEW msg \in UploadBlockMessage,
         OnUploadBlock(s, msg)
  PROVE  DiskInv'
<1> USE DEF DiskInv
<1>1. msg.flow_id \in Flows /\ msg.md5 \in Md5s
  BY DEF UploadBlockMessage
<1>2. CASE ReceivePiece(s, msg)
  <2>1. UNCHANGED disk /\ UNCHANGED toProxy
    BY <1>2 DEF ReceivePiece
  <2> QED
    BY <2>1, DiskSame, AckedSame
<1>3. CASE RejectBlock(s, msg)
  <2>1. /\ UNCHANGED disk
        /\ Send(s, UploadBlockFail(msg.md5))
        /\ UploadBlockFail(msg.md5) \in StorageMessage
        /\ UploadBlockFail(msg.md5).type # "upload_block_ack"
    BY <1>1, <1>3, MessagesTyped DEF RejectBlock, UploadBlockFail
  <2> QED
    BY <2>1, DiskSame, AckedSend
<1>4. CASE StoreBlock(s, msg)
  <2>1. /\ md5_path' = [md5_path EXCEPT ![s] = @ \cup {msg.md5}]
        /\ file' = [file EXCEPT ![s][msg.md5] =
                      IF file[s][msg.md5] = Missing THEN Pieces[msg.md5]
                                                    ELSE file[s][msg.md5]]
        /\ Send(s, UploadBlockAck(msg.md5))
    BY <1>4 DEF StoreBlock, StoredFile
  <2>2. DiskGrows /\ FileHasPath'
    BY <1>1, <2>1, DiskStored
  <2>3. LoadableNext(s, msg.md5)
    BY <1>1, <2>1, PiecesAssumption DEF LoadableNext, TypeOK, Missing
  <2>4. /\ UploadBlockAck(msg.md5) \in StorageMessage
        /\ UploadBlockAck(msg.md5).md5 = msg.md5
    BY <1>1, MessagesTyped DEF UploadBlockAck
  <2> QED
    BY <2>1, <2>2, <2>3, <2>4, AckedSend
<1> QED
  BY <1>2, <1>3, <1>4 DEF OnUploadBlock

(* The process ends without acknowledging anything more. *)
LEMMA ExitDisk ==
  ASSUME TypeOK, DiskInv, NEW s \in Servers, Exit(s, toProxy[s]),
         DiskGrows, FileHasPath'
  PROVE  DiskInv'
<1>1. toProxy[s] \in Seq(StorageMessage) /\ AckedIn(s, toProxy[s])
  BY DEF TypeOK, DiskInv, AckedOnDisk, AckedIn
<1> QED
  BY <1>1, AckedExit DEF DiskInv

(* A crash while storing has recorded the path first. *)
LEMMA CrashWhileStoringDisk ==
  ASSUME TypeOK, DiskInv, NEW s \in Servers, NEW msg \in UploadBlockMessage,
         CrashWhileStoring(s, msg)
  PROVE  DiskInv'
<1>1. msg.md5 \in Md5s
  BY DEF UploadBlockMessage
<1>2. PICK written :
        file' = [file EXCEPT ![s][msg.md5] =
                  IF file[s][msg.md5] = Missing THEN written ELSE file[s][msg.md5]]
  BY DEF CrashWhileStoring
<1>3. DiskGrows /\ FileHasPath'
  BY <1>1, <1>2, DiskStored DEF CrashWhileStoring, DiskInv
<1> QED
  BY <1>3, ExitDisk DEF CrashWhileStoring

(* The reports of failure of onClose acknowledge nothing. *)
LEMMA OnCloseDisk ==
  ASSUME TypeOK, DiskInv, NEW s \in Servers, OnClose(s)
  PROVE  DiskInv'
<1> DEFINE Fail(flow, i) == UploadBlockFail(uploadingContext[s][flow[i]].md5)
<1>1. PICK flow \in [1 .. Cardinality(Uploading(s)) -> Uploading(s)] :
        Exit(s, toProxy[s] \o [i \in DOMAIN flow |-> Fail(flow, i)])
  BY DEF OnClose
<1> DEFINE fails == [i \in DOMAIN flow |-> Fail(flow, i)]
<1>2. Cardinality(Uploading(s)) \in Nat
  BY FlowsAssumption, FS_Subset, FS_CardinalityType DEF Uploading
<1>3. ASSUME NEW i \in DOMAIN flow
      PROVE  fails[i] \in StorageMessage /\ fails[i].type # "upload_block_ack"
  <2>1. flow[i] \in Flows
    BY DEF Uploading
  <2>2. uploadingContext[s][flow[i]].md5 \in Md5s \cup {NoMd5}
    BY <2>1 DEF TypeOK, UploadContext
  <2> QED
    BY <2>2, MessagesTyped DEF UploadBlockFail
<1>4. fails \in [1 .. Cardinality(Uploading(s)) -> StorageMessage]
  BY <1>3
<1>5. /\ fails \in Seq(StorageMessage)
      /\ \A i \in DOMAIN fails : fails[i].type # "upload_block_ack"
  BY <1>2, <1>3, <1>4
<1>6. toProxy[s] \in Seq(StorageMessage) /\ AckedIn(s, toProxy[s])
  BY DEF TypeOK, DiskInv, AckedOnDisk, AckedIn
<1>7. Exit(s, toProxy[s] \o fails)
  BY <1>1
<1> HIDE DEF fails
<1>8. toProxy[s] \o fails \in Seq(StorageMessage)
  BY <1>5, <1>6, ConcatProperties
<1>9. AckedIn(s, toProxy[s] \o fails)
  <2> SUFFICES ASSUME NEW i \in DOMAIN (toProxy[s] \o fails),
                      (toProxy[s] \o fails)[i].type = "upload_block_ack"
               PROVE  Loadable(s, (toProxy[s] \o fails)[i].md5)
    BY DEF AckedIn
  <2>1. i \in 1 .. Len(toProxy[s]) + Len(fails)
    BY <1>5, <1>6, <1>8, ConcatProperties
  <2>2. (toProxy[s] \o fails)[i] =
          IF i <= Len(toProxy[s]) THEN toProxy[s][i] ELSE fails[i - Len(toProxy[s])]
    BY <2>1, <1>5, <1>6, ConcatProperties
  <2>3. CASE i <= Len(toProxy[s])
    BY <1>6, <2>1, <2>2, <2>3 DEF AckedIn
  <2>4. CASE i > Len(toProxy[s])
    <3>1. i - Len(toProxy[s]) \in DOMAIN fails
      BY <1>5, <1>6, <2>1, <2>4
    <3> QED
      BY <1>5, <1>6, <2>1, <2>2, <2>4, <3>1
  <2> QED
    BY <1>6, <2>1, <2>3, <2>4
<1>10. UNCHANGED disk
  BY DEF OnClose
<1> QED
  BY <1>7, <1>8, <1>9, <1>10, DiskSame, AckedExit DEF DiskInv

(* What remains of a queue was in it before. *)
LEMMA DeliverDisk ==
  ASSUME TypeOK, DiskInv, NEW s \in Servers, Deliver(s)
  PROVE  DiskInv'
<1>1. UNCHANGED disk /\ toProxy' = [toProxy EXCEPT ![s] = Tail(@)] /\ toProxy[s] # <<>>
  BY DEF Deliver
<1>2. DiskGrows /\ FileHasPath'
  BY <1>1, DiskSame DEF DiskInv
<1>3. ASSUME NEW r \in Servers, NEW i \in DOMAIN toProxy'[r],
             toProxy'[r][i].type = "upload_block_ack"
      PROVE  Loadable(r, toProxy'[r][i].md5)
  <2>1. toProxy[r] \in Seq(StorageMessage)
    BY DEF TypeOK
  <2>2. CASE r # s
    BY <1>1, <1>3, <2>2 DEF TypeOK, DiskInv, AckedOnDisk
  <2>3. CASE r = s
    <3>1. toProxy'[r] = Tail(toProxy[r])
      BY <1>1, <2>3 DEF TypeOK
    <3>2. /\ Tail(toProxy[r]) \in Seq(StorageMessage)
          /\ Len(Tail(toProxy[r])) = Len(toProxy[r]) - 1
          /\ \A k \in 1 .. Len(Tail(toProxy[r])) : Tail(toProxy[r])[k] = toProxy[r][k + 1]
      BY <1>1, <2>1, <2>3, HeadTailProperties
    <3>3. i \in 1 .. Len(Tail(toProxy[r]))
      BY <3>1, <3>2
    <3>4. i + 1 \in DOMAIN toProxy[r] /\ toProxy'[r][i] = toProxy[r][i + 1]
      BY <2>1, <3>1, <3>2, <3>3
    <3> QED
      BY <1>3, <3>4 DEF DiskInv, AckedOnDisk
  <2> QED
    BY <2>2, <2>3
<1> QED
  BY <1>1, <1>2, <1>3 DEF DiskInv, AckedOnDisk, Loadable, disk

(* The sends that are not acknowledgements. *)
LEMMA OtherSendDisk ==
  ASSUME TypeOK, DiskInv, NEW s \in Servers, UNCHANGED disk,
         \E msg \in StorageMessage : msg.type # "upload_block_ack" /\ Send(s, msg)
  PROVE  DiskInv'
BY DiskSame, AckedSend DEF DiskInv

(* A step that leaves queues and disk alone. *)
LEMMA SameDisk ==
  ASSUME TypeOK, DiskInv, UNCHANGED <<toProxy, disk>>
  PROVE  DiskInv'
BY DiskSame, AckedSame DEF DiskInv

(* Sets of digests and pieces are no acknowledgements. *)
LEMMA OnWriteCompleteDisk ==
  ASSUME IInv, DiskInv, NEW s \in Servers, OnWriteComplete(s)
  PROVE  DiskInv'
<1> USE DEF IInv
<1>1. CASE /\ SendSomeMd5sToProxy(s, transferingMd5s[s])
           /\ UNCHANGED disk
  <2>1. transferingMd5s[s] \in SUBSET Md5s
    BY DEF TypeOK
  <2> QED
    BY <1>1, <2>1, SendSetTyped, OtherSendDisk
<1>2. CASE /\ SendSomeMd5PieceToProxy(s, downloadingContext[s], downloadingMd5s[s])
           /\ UNCHANGED disk
  <2>1. /\ downloadingContext[s] \in Contexts
        /\ downloadingMd5s[s] \in References
        /\ RefsMatch(downloadingContext[s], downloadingMd5s[s])
    BY RefCountByServer DEF TypeOK, Contexts, References
  <2> QED
    BY <1>2, <2>1, SendPieceTyped, OtherSendDisk
<1>3. CASE UNCHANGED <<memory, toProxy, disk>>
  BY <1>3, SameDisk
<1> QED
  BY <1>1, <1>2, <1>3 DEF OnWriteComplete

(* Nor is the first piece of a download. *)
LEMMA OnDownLoadBlockDisk ==
  ASSUME IInv, DiskInv, NEW s \in Servers, NEW msg \in DownLoadBlockMessage,
         OnDownLoadBlock(s, msg)
  PROVE  DiskInv'
<1> USE DEF IInv
<1> DEFINE ctxs == [downloadingContext[s] EXCEPT
                      ![msg.flow_id] = [md5 |-> msg.md5, index |-> 0]]
           refs == [downloadingMd5s[s] EXCEPT ![msg.md5] = @ + 1]
<1>1. msg.flow_id \in Flows /\ msg.md5 \in Md5s
  BY DEF DownLoadBlockMessage
<1>2. /\ downloadingContext[s] \in Contexts
      /\ downloadingMd5s[s] \in References
      /\ RefsMatch(downloadingContext[s], downloadingMd5s[s])
      /\ downloadingContext[s][msg.flow_id] = NoDownload
  BY RefCountByServer DEF TypeOK, Contexts, References, OnDownLoadBlock, Servable
<1>3. ctxs \in Contexts /\ refs \in References /\ RefsMatch(ctxs, refs)
  BY <1>1, <1>2, RegisterMatches
<1>4. SendSomeMd5PieceToProxy(s, ctxs, refs) /\ UNCHANGED disk
  BY DEF OnDownLoadBlock
<1> HIDE DEF ctxs, refs
<1> QED
  BY <1>3, <1>4, SendPieceTyped, OtherSendDisk

(* Nor is the first set of digests. *)
LEMMA OnConnectionDisk ==
  ASSUME TypeOK, DiskInv, NEW s \in Servers, OnConnection(s)
  PROVE  DiskInv'
<1>1. md5_path[s] \in SUBSET Md5s
  BY DEF TypeOK
<1> QED
  BY <1>1, SendSetTyped, OtherSendDisk DEF OnConnection

(* Every step keeps what AcknowledgedIsStored and FilesAreRecorded claim. *)
LEMMA NextDisk == IInv /\ DiskInv /\ [Next]_sVars => DiskInv'
<1> SUFFICES ASSUME IInv, DiskInv, [Next]_sVars PROVE DiskInv'
  OBVIOUS
<1> USE DEF IInv
<1>1. ASSUME NEW s \in Servers, OnMessage(s) PROVE DiskInv'
  <2>1. ASSUME NEW msg \in UploadInput,
               OnUploadBlock(s, msg) \/ CrashWhileStoring(s, msg)
        PROVE  DiskInv'
    BY <2>1, UploadInputTyped, OnUploadBlockDisk, CrashWhileStoringDisk
  <2>2. ASSUME NEW msg \in DownLoadBlockMessage, OnDownLoadBlock(s, msg)
        PROVE  DiskInv'
    BY <2>2, OnDownLoadBlockDisk
  <2>3. ASSUME NEW msg \in DownLoadBlockMessage, ExitOnDownLoadBlock(s, msg)
        PROVE  DiskInv'
    BY <2>3, DiskSame, ExitDisk DEF ExitOnDownLoadBlock, DiskInv
  <2>4. ASSUME NEW msg \in ClientCleanMessage, OnClientClean(s, msg)
        PROVE  DiskInv'
    BY <2>4, SameDisk DEF OnClientClean
  <2> QED
    BY <1>1, <2>1, <2>2, <2>3, <2>4 DEF OnMessage
<1>2. ASSUME NEW s \in Servers, Crash(s) PROVE DiskInv'
  BY <1>2, DiskSame, ExitDisk DEF Crash, DiskInv
<1>3. CASE UNCHANGED sVars
  BY <1>3, SameDisk DEF sVars
<1> QED
  BY <1>1, <1>2, <1>3, OnConnectionDisk, OnWriteCompleteDisk, OnCloseDisk,
     DeliverDisk DEF Next

(* It holds of the disks earlier runs left. *)
LEMMA InitDisk == Init => DiskInv
BY DEF Init, DiskInv, FileHasPath, AckedOnDisk

(* What a server acknowledged, it can load: its path is recorded and its   *)
(* file exists, through every crash between the steps that store a block.  *)
THEOREM AcknowledgedIsStored == Spec => []AckedOnDisk
<1>1. DiskInv => AckedOnDisk
  BY DEF DiskInv
<1> QED
  BY <1>1, InitInvariant, NextInvariant, InitDisk, NextDisk, PTL DEF Spec

(* No crash leaves a block file that redis does not know of. *)
THEOREM FilesAreRecorded == Spec => []FileHasPath
<1>1. DiskInv => FileHasPath
  BY DEF DiskInv
<1> QED
  BY <1>1, InitInvariant, NextInvariant, InitDisk, NextDisk, PTL DEF Spec

----------------------------------------------------------------------------
(* The order in which a storage server's pieces leave: PiecesInOrder of    *)
(* StorageServer.tla, for every number of pieces a block has and however   *)
(* many messages are under way.                                            *)

(* A queue and the contexts of all flows. *)
Ordered(q, ctxs) == \A f \in Flows : OrderedOn(q, ctxs[f], f)

LEMMA OrderByServer ==
  PiecesInOrder <=> \A s \in Servers : Ordered(toProxy[s], downloadingContext[s])
BY DEF PiecesInOrder, Ordered

----------------------------------------------------------------------------
(* What is done to a queue and a context. *)

(* A flow without a context, or at the start of one, may follow any piece. *)
LEMMA StartOrdered ==
  ASSUME NEW q, NEW f, NEW ctx, OrderedOn(q, ctx, f), NEW start, start.index = 0
  PROVE  OrderedOn(q, start, f)
BY DEF OrderedOn, Follows

LEMMA AppendIndices ==
  ASSUME NEW q \in Seq(StorageMessage), NEW msg \in StorageMessage
  PROVE  /\ Len(q) \in Nat
         /\ DOMAIN q = 1 .. Len(q) /\ DOMAIN Append(q, msg) = 1 .. Len(q) + 1
         /\ \A i \in DOMAIN q : Append(q, msg)[i] = q[i]
         /\ Append(q, msg)[Len(q) + 1] = msg
OBVIOUS

(* A message that is not one of the flow's pieces. *)
LEMMA AppendOther ==
  ASSUME NEW q \in Seq(StorageMessage), NEW msg \in StorageMessage, NEW f, NEW ctx,
         OrderedOn(q, ctx, f), ~PieceOf(msg, f)
  PROVE  OrderedOn(Append(q, msg), ctx, f)
<1> DEFINE r == Append(q, msg)
<1>1. /\ Len(q) \in Nat
      /\ DOMAIN q = 1 .. Len(q) /\ DOMAIN r = 1 .. Len(q) + 1
      /\ \A i \in DOMAIN q : r[i] = q[i]
      /\ r[Len(q) + 1] = msg
  BY AppendIndices
<1> HIDE DEF r
<1>2. \A i \in DOMAIN r : PieceOf(r[i], f) => i \in DOMAIN q /\ r[i] = q[i]
  BY <1>1
<1>3. \A i \in DOMAIN q : i \in DOMAIN r /\ r[i] = q[i]
  BY <1>1
<1>4. \A i : Later(r, i, f) = Later(q, i, f)
  BY <1>2, <1>3 DEF Later
<1>5. OrderedOn(r, ctx, f)
  <2> SUFFICES ASSUME NEW i \in DOMAIN r, PieceOf(r[i], f)
               PROVE  \/ Later(r, i, f) = {} /\ Follows(r[i], ctx)
                      \/ \E j \in Later(r, i, f) :
                           (\A k \in Later(r, i, f) : j <= k) /\ Follows(r[i], r[j])
    BY DEF OrderedOn
  <2>1. i \in DOMAIN q /\ r[i] = q[i] /\ PieceOf(q[i], f)
    BY <1>2
  <2>2. \/ Later(q, i, f) = {} /\ Follows(q[i], ctx)
        \/ \E j \in Later(q, i, f) :
             (\A k \in Later(q, i, f) : j <= k) /\ Follows(q[i], q[j])
    BY <2>1 DEF OrderedOn
  <2>3. \A j \in Later(q, i, f) : r[j] = q[j]
    BY <1>3 DEF Later
  <2> QED
    BY <1>4, <2>1, <2>2, <2>3
<1> QED
  BY <1>5 DEF r

(* The piece the flow's context stands at leaves, and the context moves on. *)
LEMMA AppendPiece ==
  ASSUME NEW q \in Seq(StorageMessage), NEW msg \in StorageMessage, NEW f, NEW ctx,
         OrderedOn(q, ctx, f), PieceOf(msg, f),
         msg.md5 = ctx.md5, msg.index = ctx.index, NEW now, Follows(msg, now)
  PROVE  OrderedOn(Append(q, msg), now, f)
<1> DEFINE r == Append(q, msg)
           n == Len(q) + 1
<1>1. /\ Len(q) \in Nat
      /\ DOMAIN q = 1 .. Len(q) /\ DOMAIN r = 1 .. n
      /\ \A i \in DOMAIN q : r[i] = q[i]
      /\ r[n] = msg
  BY AppendIndices
<1>2. n \in Nat /\ n \in DOMAIN r /\ \A i \in DOMAIN r : i \in DOMAIN q \/ i = n
  BY <1>1
<1>3. \A i \in DOMAIN q : i < n /\ i \in DOMAIN r
  BY <1>1
<1> HIDE DEF r
<1>4. ASSUME NEW i \in DOMAIN q PROVE Later(r, i, f) = Later(q, i, f) \cup {n}
  <2>1. ASSUME NEW j \in Later(r, i, f) PROVE j \in Later(q, i, f) \cup {n}
    BY <1>1, <1>2, <2>1 DEF Later
  <2>2. Later(q, i, f) \subseteq Later(r, i, f)
    BY <1>1, <1>3 DEF Later
  <2>3. n \in Later(r, i, f)
    BY <1>1, <1>2, <1>3 DEF Later
  <2> QED
    BY <2>1, <2>2, <2>3
<1>5. Later(r, n, f) = {}
  BY <1>1 DEF Later
<1> HIDE DEF n
<1>6. OrderedOn(r, now, f)
  <2> SUFFICES ASSUME NEW i \in DOMAIN r, PieceOf(r[i], f)
               PROVE  \/ Later(r, i, f) = {} /\ Follows(r[i], now)
                      \/ \E j \in Later(r, i, f) :
                           (\A k \in Later(r, i, f) : j <= k) /\ Follows(r[i], r[j])
    BY DEF OrderedOn
  <2>1. CASE i = n
    BY <1>1, <1>5, <2>1
  <2>2. CASE i \in DOMAIN q /\ Later(q, i, f) = {}
    <3>1. Later(r, i, f) = {n} /\ r[i] = q[i] /\ PieceOf(q[i], f)
      BY <1>1, <1>4, <2>2
    <3>2. Follows(q[i], ctx)
      BY <2>2, <3>1 DEF OrderedOn
    <3>3. Follows(r[i], r[n])
      BY <1>1, <3>1, <3>2 DEF Follows
    <3>4. n \in Later(r, i, f) /\ \A k \in Later(r, i, f) : n <= k
      BY <1>2, <3>1
    <3> QED
      BY <3>3, <3>4
  <2>3. CASE i \in DOMAIN q /\ Later(q, i, f) # {}
    <3>1. r[i] = q[i] /\ PieceOf(q[i], f)
      BY <1>1, <2>3
    <3>2. PICK j \in Later(q, i, f) :
            (\A k \in Later(q, i, f) : j <= k) /\ Follows(q[i], q[j])
      BY <2>3, <3>1 DEF OrderedOn
    <3>3. j \in DOMAIN q /\ j \in Later(r, i, f) /\ j <= n
      BY <1>1, <1>3, <1>4, <2>3, <3>2 DEF Later
    <3>4. \A k \in Later(r, i, f) : j <= k
      BY <1>4, <2>3, <3>2, <3>3
    <3>5. Follows(r[i], r[j])
      BY <1>1, <3>1, <3>2, <3>3
    <3> QED
      BY <3>3, <3>4, <3>5
  <2> QED
    BY <1>2, <2>1, <2>2, <2>3
<1> QED
  BY <1>6 DEF r

(* The oldest message is delivered.                                        *)
LEMMA TailOrdered ==
  ASSUME NEW q \in Seq(StorageMessage), q # <<>>, NEW f, NEW ctx, OrderedOn(q, ctx, f)
  PROVE  OrderedOn(Tail(q), ctx, f)
<1> DEFINE r == Tail(q)
<1>1. /\ Len(q) \in Nat /\ DOMAIN q = 1 .. Len(q)
      /\ DOMAIN r = 1 .. Len(q) - 1
      /\ \A i \in DOMAIN r : r[i] = q[i + 1]
  OBVIOUS
<1> HIDE DEF r
<1>2. ASSUME NEW i \in DOMAIN r
      PROVE  i \in Nat /\ i + 1 \in DOMAIN q /\ \A j \in Later(q, i + 1, f) : j - 1 \in Later(r, i, f)
  <2>1. i \in Nat /\ i + 1 \in DOMAIN q
    BY <1>1
  <2>2. ASSUME NEW j \in Later(q, i + 1, f) PROVE j - 1 \in Later(r, i, f)
    <3>1. j \in DOMAIN q /\ j > i + 1 /\ PieceOf(q[j], f)
      BY DEF Later
    <3>2. j - 1 \in DOMAIN r /\ j - 1 > i /\ r[j - 1] = q[j]
      BY <1>1, <2>1, <3>1
    <3> QED
      BY <3>1, <3>2 DEF Later
  <2> QED
    BY <2>1, <2>2
<1>3. ASSUME NEW i \in DOMAIN r, NEW j \in Later(r, i, f)
      PROVE  j \in Nat /\ r[j] = q[j + 1] /\ j + 1 \in Later(q, i + 1, f)
  <2>1. j \in DOMAIN r /\ j > i /\ PieceOf(r[j], f)
    BY DEF Later
  <2>2. j \in Nat /\ j + 1 \in DOMAIN q /\ j + 1 > i + 1 /\ r[j] = q[j + 1]
    BY <1>1, <2>1
  <2> QED
    BY <2>1, <2>2 DEF Later
<1>4. OrderedOn(r, ctx, f)
  <2> SUFFICES ASSUME NEW i \in DOMAIN r, PieceOf(r[i], f)
               PROVE  \/ Later(r, i, f) = {} /\ Follows(r[i], ctx)
                      \/ \E j \in Later(r, i, f) :
                           (\A k \in Later(r, i, f) : j <= k) /\ Follows(r[i], r[j])
    BY DEF OrderedOn
  <2>1. r[i] = q[i + 1] /\ i + 1 \in DOMAIN q /\ PieceOf(q[i + 1], f)
    BY <1>1, <1>2
  <2>2. CASE Later(q, i + 1, f) = {} /\ Follows(q[i + 1], ctx)
    <3>1. Later(r, i, f) = {}
      BY <1>3, <2>2
    <3> QED
      BY <2>1, <2>2, <3>1
  <2>3. ASSUME NEW j \in Later(q, i + 1, f), \A k \in Later(q, i + 1, f) : j <= k,
               Follows(q[i + 1], q[j])
        PROVE  \E l \in Later(r, i, f) :
                 (\A k \in Later(r, i, f) : l <= k) /\ Follows(r[i], r[l])
    <3>1. j - 1 \in Later(r, i, f)
      BY <1>2
    <3>2. j \in Nat
      BY <1>1 DEF Later
    <3>3. r[j - 1] = q[j]
      BY <1>3, <3>1, <3>2
    <3>4. \A k \in Later(r, i, f) : j - 1 <= k
      BY <1>3, <2>3, <3>2
    <3> QED
      BY <2>1, <2>3, <3>1, <3>3, <3>4
  <2> QED
    BY <2>1, <2>2, <2>3 DEF OrderedOn
<1> QED
  BY <1>4 DEF r

(* A process ends: a prefix of what it had sent is left, and no context.   *)
LEMMA PrefixOrdered ==
  ASSUME NEW q, NEW r, NEW f, NEW ctx, OrderedOn(q, ctx, f),
         \A i \in DOMAIN r : PieceOf(r[i], f) => i \in DOMAIN q /\ r[i] = q[i],
         \A i \in DOMAIN r, j \in DOMAIN q : j <= i => j \in DOMAIN r /\ r[j] = q[j],
         NEW start, start.index = 0
  PROVE  OrderedOn(r, start, f)
<1> SUFFICES ASSUME NEW i \in DOMAIN r, PieceOf(r[i], f), Later(r, i, f) # {}
             PROVE  \E j \in Later(r, i, f) :
                      (\A k \in Later(r, i, f) : j <= k) /\ Follows(r[i], r[j])
  BY DEF OrderedOn, Follows
<1>1. i \in DOMAIN q /\ r[i] = q[i]
  OBVIOUS
<1>2. Later(r, i, f) \subseteq Later(q, i, f)
  BY DEF Later
<1>3. PICK j \in Later(q, i, f) :
        (\A k \in Later(q, i, f) : j <= k) /\ Follows(q[i], q[j])
  BY <1>1, <1>2 DEF OrderedOn
<1>4. PICK k \in Later(r, i, f) : TRUE
  OBVIOUS
<1>5. j <= k /\ k \in DOMAIN r /\ j \in DOMAIN q
  BY <1>2, <1>3, <1>4 DEF Later
<1>6. j \in DOMAIN r /\ r[j] = q[j]
  BY <1>5
<1>7. j \in Later(r, i, f)
  BY <1>6 DEF Later
<1> QED
  BY <1>1, <1>2, <1>3, <1>6, <1>7

----------------------------------------------------------------------------
(* The actions. *)

LEMMA OneServer ==
  ASSUME PiecesInOrder, NEW s \in Servers, Ordered(toProxy'[s], downloadingContext'[s]),
         \A r \in Servers : r # s => /\ toProxy'[r] = toProxy[r]
                                     /\ downloadingContext'[r] = downloadingContext[r]
  PROVE  PiecesInOrder'
BY DEF PiecesInOrder, Ordered

LEMMA ServerTyped ==
  ASSUME TypeOK, PiecesInOrder, NEW s \in Servers
  PROVE  /\ toProxy[s] \in Seq(StorageMessage)
         /\ downloadingContext[s] \in Contexts
         /\ Ordered(toProxy[s], downloadingContext[s])
BY OrderByServer DEF TypeOK, Contexts

(* A message that is no piece, of a step that leaves the contexts alone.   *)
LEMMA OtherSendOrder ==
  ASSUME TypeOK, PiecesInOrder, NEW s \in Servers, NEW msg \in StorageMessage,
         msg.type # "transfer_block", Send(s, msg), UNCHANGED downloadingContext
  PROVE  PiecesInOrder'
<1>1. /\ toProxy'[s] = Append(toProxy[s], msg)
      /\ \A r \in Servers : r # s => toProxy'[r] = toProxy[r]
  BY SendTyped
<1>2. toProxy[s] \in Seq(StorageMessage) /\ Ordered(toProxy[s], downloadingContext[s])
  BY ServerTyped
<1>3. \A f \in Flows : ~PieceOf(msg, f)
  BY DEF PieceOf
<1>4. Ordered(Append(toProxy[s], msg), downloadingContext[s])
  BY <1>2, <1>3, AppendOther DEF Ordered
<1> QED
  BY <1>1, <1>4, OneServer

(* The context moves on from its piece to the next of the same block.      *)
LEMMA FollowsNext ==
  ASSUME NEW f, NEW content, NEW ctx, NEW eof \in BOOLEAN,
         NEW p, p = TransferBlock(ctx.md5, ctx.index, eof, f, content),
         NEW now, now = Advanced(ctx, eof)
  PROVE  Follows(p, now)
<1>1. CASE eof
  BY <1>1 DEF Advanced, Follows, NoDownload
<1>2. CASE ~eof
  BY <1>2 DEF Advanced, Follows, TransferBlock
<1> QED
  BY <1>1, <1>2

(* The piece a context stands at.                                          *)
LEMMA SendPieceOrder ==
  ASSUME TypeOK, PiecesInOrder, NEW s \in Servers,
         NEW ctxs \in Contexts, Ordered(toProxy[s], ctxs), NEW refs,
         SendSomeMd5PieceToProxy(s, ctxs, refs)
  PROVE  PiecesInOrder'
<1> DEFINE Eof(f) == ctxs[f].index + 1 >= file[s][ctxs[f].md5]
           Content(f) == IF ctxs[f].index < file[s][ctxs[f].md5]
                           THEN <<ctxs[f].md5, ctxs[f].index>> ELSE AlteredContent
           Msg(f) == TransferBlock(ctxs[f].md5, ctxs[f].index, Eof(f), f, Content(f))
           Now(f) == Advanced(ctxs[f], Eof(f))
<1>1. PICK f \in Flows :
        /\ FirstFlow(ctxs, f)
        /\ Send(s, Msg(f))
        /\ downloadingContext' = [downloadingContext EXCEPT ![s] = [ctxs EXCEPT ![f] = Now(f)]]
  BY DEF SendSomeMd5PieceToProxy
<1>2. ctxs[f].md5 \in Md5s /\ ctxs[f].index \in Nat
  BY <1>1, ContextDigest DEF Contexts, FirstFlow, Downloading
<1>3. Eof(f) \in BOOLEAN /\ Content(f) \in PieceContent
  BY <1>2 DEF PieceContent, AlteredContent
<1>4. Msg(f) \in StorageMessage
  BY <1>2, <1>3, MessagesTyped
<1>5. /\ Msg(f).md5 = ctxs[f].md5 /\ Msg(f).index = ctxs[f].index
      /\ \A g \in Flows : PieceOf(Msg(f), g) <=> g = f
  BY DEF TransferBlock, PieceOf
<1>6. Follows(Msg(f), Now(f))
  <2>1. Msg(f) = TransferBlock(ctxs[f].md5, ctxs[f].index, Eof(f), f, Content(f))
    OBVIOUS
  <2>2. Now(f) = Advanced(ctxs[f], Eof(f))
    OBVIOUS
  <2> HIDE DEF Msg, Now, Eof, Content
  <2> QED
    BY ONLY <1>3, <2>1, <2>2, FollowsNext
<1> HIDE DEF Msg, Now, Eof, Content
<1>7. toProxy[s] \in Seq(StorageMessage)
  BY ServerTyped
<1>8. ASSUME NEW g \in Flows
      PROVE  OrderedOn(Append(toProxy[s], Msg(f)), [ctxs EXCEPT ![f] = Now(f)][g], g)
  <2>1. OrderedOn(toProxy[s], ctxs[g], g)
    BY DEF Ordered
  <2>2. CASE g = f
    <3>1. OrderedOn(Append(toProxy[s], Msg(f)), Now(f), f)
      BY <1>4, <1>5, <1>6, <1>7, <2>1, <2>2, AppendPiece
    <3> QED
      BY <2>2, <3>1 DEF Contexts
  <2>3. CASE g # f
    <3>1. OrderedOn(Append(toProxy[s], Msg(f)), ctxs[g], g)
      BY <1>4, <1>5, <1>7, <2>1, <2>3, AppendOther
    <3> QED
      BY <2>3, <3>1 DEF Contexts
  <2> QED
    BY <2>2, <2>3
<1>9. /\ toProxy'[s] = Append(toProxy[s], Msg(f))
      /\ \A r \in Servers : r # s => toProxy'[r] = toProxy[r]
  BY <1>1, <1>4, SendTyped
<1>10. /\ downloadingContext'[s] = [ctxs EXCEPT ![f] = Now(f)]
       /\ \A r \in Servers : r # s => downloadingContext'[r] = downloadingContext[r]
  BY <1>1 DEF TypeOK
<1>11. Ordered(toProxy'[s], downloadingContext'[s])
  BY <1>8, <1>9, <1>10 DEF Ordered
<1> QED
  BY <1>9, <1>10, <1>11, OneServer

(* What the process had sent, and the failures onClose adds to it.         *)
LEMMA ExitOrder ==
  ASSUME TypeOK, PiecesInOrder, NEW s \in Servers, NEW sent \in Seq(StorageMessage),
         Len(toProxy[s]) <= Len(sent),
         \A i \in DOMAIN toProxy[s] : sent[i] = toProxy[s][i],
         \A i \in DOMAIN sent : sent[i].type = "transfer_block" => i \in DOMAIN toProxy[s],
         Exit(s, sent)
  PROVE  PiecesInOrder'
<1>1. PICK n \in 0 .. Len(sent) : toProxy' = [toProxy EXCEPT ![s] = SubSeq(sent, 1, n)]
  BY DEF Exit
<1>2. /\ toProxy'[s] = SubSeq(sent, 1, n)
      /\ downloadingContext'[s] = [f \in Flows |-> NoDownload]
      /\ \A r \in Servers : r # s => /\ toProxy'[r] = toProxy[r]
                                     /\ downloadingContext'[r] = downloadingContext[r]
  BY <1>1 DEF Exit, TypeOK
<1> DEFINE q == toProxy[s]
           r == SubSeq(sent, 1, n)
<1>3. q \in Seq(StorageMessage) /\ Ordered(q, downloadingContext[s])
  BY ServerTyped
<1>4. DOMAIN q = 1 .. Len(q) /\ Len(q) \in Nat
  BY <1>3
<1>5. DOMAIN r = 1 .. n /\ (\A i \in 1 .. n : r[i] = sent[i]) /\ DOMAIN sent = 1 .. Len(sent)
  OBVIOUS
<1>6. \A i \in DOMAIN r : i \in DOMAIN sent /\ r[i] = sent[i]
  BY <1>5
<1>7. \A i \in DOMAIN q : sent[i] = q[i] /\ i \in DOMAIN sent
  BY <1>4, <1>5
<1>8. \A i \in DOMAIN sent : sent[i].type = "transfer_block" => i \in DOMAIN q
  OBVIOUS
<1> HIDE DEF q, r
<1>9. ASSUME NEW f \in Flows PROVE OrderedOn(r, NoDownload, f)
  <2>1. OrderedOn(q, downloadingContext[s][f], f)
    BY <1>3 DEF Ordered
  <2>2. \A i \in DOMAIN r : PieceOf(r[i], f) => i \in DOMAIN q /\ r[i] = q[i]
    BY <1>6, <1>7, <1>8 DEF PieceOf
  <2>3. \A i \in DOMAIN r, j \in DOMAIN q : j <= i => j \in DOMAIN r /\ r[j] = q[j]
    BY <1>4, <1>5, <1>6, <1>7
  <2>4. NoDownload.index = 0
    BY DEF NoDownload
  <2> QED
    BY <2>1, <2>2, <2>3, <2>4, PrefixOrdered
<1>10. Ordered(toProxy'[s], downloadingContext'[s])
  BY <1>2, <1>9 DEF Ordered, r
<1> QED
  BY <1>2, <1>10, OneServer

(* The next set of digests is no piece. *)
LEMMA SendSetOrder ==
  ASSUME TypeOK, PiecesInOrder, NEW s \in Servers, NEW left \in SUBSET Md5s,
         SendSomeMd5sToProxy(s, left), UNCHANGED downloadingContext
  PROVE  PiecesInOrder'
<1>1. PICK msg \in StorageMessage : msg.type = "transfer_block_set" /\ Send(s, msg)
  BY SendSetTyped
<1> QED
  BY <1>1, OtherSendOrder

LEMMA SameOrder ==
  ASSUME PiecesInOrder, UNCHANGED <<toProxy, downloadingContext>>
  PROVE  PiecesInOrder'
BY DEF PiecesInOrder

LEMMA OnWriteCompleteOrder ==
  ASSUME TypeOK, PiecesInOrder, NEW s \in Servers, OnWriteComplete(s)
  PROVE  PiecesInOrder'
<1>1. CASE SendSomeMd5sToProxy(s, transferingMd5s[s]) /\ UNCHANGED downloadingContext
  <2>1. transferingMd5s[s] \in SUBSET Md5s
    BY DEF TypeOK
  <2> QED
    BY <1>1, <2>1, SendSetOrder
<1>2. CASE SendSomeMd5PieceToProxy(s, downloadingContext[s], downloadingMd5s[s])
  BY <1>2, ServerTyped, SendPieceOrder
<1>3. CASE UNCHANGED <<memory, toProxy, disk>>
  BY <1>3, SameOrder DEF memory
<1> QED
  BY <1>1, <1>2, <1>3 DEF OnWriteComplete

LEMMA OnUploadBlockOrder ==
  ASSUME TypeOK, PiecesInOrder, NEW s \in Servers, NEW msg \in UploadBlockMessage,
         OnUploadBlock(s, msg)
  PROVE  PiecesInOrder'
<1>1. msg.md5 \in Md5s
  BY DEF UploadBlockMessage
<1>2. CASE ReceivePiece(s, msg)
  BY <1>2, SameOrder DEF ReceivePiece
<1>3. CASE RejectBlock(s, msg)
  <2>1. UploadBlockFail(msg.md5) \in StorageMessage
    BY <1>1, MessagesTyped
  <2> QED
    BY <1>3, <2>1, OtherSendOrder DEF RejectBlock, UploadBlockFail
<1>4. CASE StoreBlock(s, msg)
  <2>1. UploadBlockAck(msg.md5) \in StorageMessage
    BY <1>1, MessagesTyped
  <2> QED
    BY <1>4, <2>1, OtherSendOrder DEF StoreBlock, UploadBlockAck
<1> QED
  BY <1>2, <1>3, <1>4 DEF OnUploadBlock

(* A served request starts its context at piece 0. *)
LEMMA OnDownLoadBlockOrder ==
  ASSUME TypeOK, PiecesInOrder, NEW s \in Servers, NEW msg \in DownLoadBlockMessage,
         OnDownLoadBlock(s, msg)
  PROVE  PiecesInOrder'
<1> DEFINE start == [md5 |-> msg.md5, index |-> 0]
           ctxs == [downloadingContext[s] EXCEPT ![msg.flow_id] = start]
<1>1. msg.md5 \in Md5s /\ msg.flow_id \in Flows
  BY DEF DownLoadBlockMessage
<1>2. downloadingContext[s] \in Contexts /\ Ordered(toProxy[s], downloadingContext[s])
  BY ServerTyped
<1>3. start \in DownloadContext /\ start.index = 0
  BY <1>1 DEF DownloadContext
<1> HIDE DEF start
<1>4. ctxs \in Contexts
  BY <1>2, <1>3 DEF Contexts
<1>5. Ordered(toProxy[s], ctxs)
  <2> SUFFICES ASSUME NEW f \in Flows PROVE OrderedOn(toProxy[s], ctxs[f], f)
    BY DEF Ordered
  <2>1. OrderedOn(toProxy[s], downloadingContext[s][f], f)
    BY <1>2 DEF Ordered
  <2>2. CASE f = msg.flow_id
    <3>1. ctxs[f] = start
      BY <1>2, <2>2 DEF Contexts
    <3> QED
      BY <1>3, <2>1, <3>1, StartOrdered
  <2>3. CASE f # msg.flow_id
    <3>1. ctxs[f] = downloadingContext[s][f]
      BY <1>2, <2>3 DEF Contexts
    <3> QED
      BY <2>1, <3>1
  <2> QED
    BY <2>2, <2>3
<1>6. SendSomeMd5PieceToProxy(s, ctxs, [downloadingMd5s[s] EXCEPT ![msg.md5] = @ + 1])
  BY DEF OnDownLoadBlock, start
<1> HIDE DEF ctxs
<1> QED
  BY <1>4, <1>5, <1>6, SendPieceOrder

(* A forgotten flow leaves its sent pieces behind. *)
LEMMA OnClientCleanOrder ==
  ASSUME TypeOK, PiecesInOrder, NEW s \in Servers, NEW msg \in ClientCleanMessage,
         OnClientClean(s, msg)
  PROVE  PiecesInOrder'
<1>1. /\ downloadingContext'[s] = Cleaned(s, msg.flow_id)
      /\ toProxy' = toProxy
      /\ \A r \in Servers : r # s => downloadingContext'[r] = downloadingContext[r]
  BY DEF OnClientClean, TypeOK
<1>2. downloadingContext[s] \in Contexts /\ Ordered(toProxy[s], downloadingContext[s])
  BY ServerTyped
<1>3. ASSUME NEW f \in Flows PROVE OrderedOn(toProxy[s], downloadingContext'[s][f], f)
  <2>1. OrderedOn(toProxy[s], downloadingContext[s][f], f)
    BY <1>2 DEF Ordered
  <2>2. CASE f = msg.flow_id
    <3>1. downloadingContext'[s][f].index = 0
      BY <1>1, <1>2, <2>2 DEF Cleaned, Contexts, NoDownload
    <3> HIDE <1>1
    <3> QED
      BY <2>1, <3>1, StartOrdered
  <2>3. CASE f # msg.flow_id
    <3>1. downloadingContext'[s][f] = downloadingContext[s][f]
      BY <1>1, <1>2, <2>3 DEF Cleaned, Contexts
    <3> QED
      BY <2>1, <3>1
  <2> QED
    BY <2>2, <2>3
<1>4. Ordered(toProxy'[s], downloadingContext'[s])
  BY <1>1, <1>3 DEF Ordered
<1> QED
  BY <1>1, <1>4, OneServer

(* The process dies with nothing added. *)
LEMMA CrashOrder ==
  ASSUME TypeOK, PiecesInOrder, NEW s \in Servers, Exit(s, toProxy[s])
  PROVE  PiecesInOrder'
<1>1. toProxy[s] \in Seq(StorageMessage)
  BY ServerTyped
<1>2. Len(toProxy[s]) <= Len(toProxy[s])
  BY <1>1
<1> QED
  BY <1>1, <1>2, ExitOrder

(* onClose adds only failures. *)
LEMMA OnCloseOrder ==
  ASSUME TypeOK, PiecesInOrder, NEW s \in Servers, OnClose(s)
  PROVE  PiecesInOrder'
<1> DEFINE Fail(flow, i) == UploadBlockFail(uploadingContext[s][flow[i]].md5)
<1>1. PICK flow \in [1 .. Cardinality(Uploading(s)) -> Uploading(s)] :
        Exit(s, toProxy[s] \o [i \in DOMAIN flow |-> Fail(flow, i)])
  BY DEF OnClose
<1> DEFINE fails == [i \in DOMAIN flow |-> Fail(flow, i)]
<1>2. Cardinality(Uploading(s)) \in Nat
  BY FlowsAssumption, FS_Subset, FS_CardinalityType DEF Uploading
<1>3. ASSUME NEW i \in DOMAIN flow
      PROVE  fails[i] \in StorageMessage /\ fails[i].type # "transfer_block"
  <2>1. flow[i] \in Flows
    BY DEF Uploading
  <2>2. uploadingContext[s][flow[i]].md5 \in Md5s \cup {NoMd5}
    BY <2>1 DEF TypeOK, UploadContext
  <2> QED
    BY <2>2, MessagesTyped DEF UploadBlockFail
<1>4. fails \in [1 .. Cardinality(Uploading(s)) -> StorageMessage]
  BY <1>3
<1>5. /\ fails \in Seq(StorageMessage)
      /\ \A i \in DOMAIN fails : fails[i].type # "transfer_block"
  BY <1>2, <1>3, <1>4
<1>6. toProxy[s] \in Seq(StorageMessage)
  BY ServerTyped
<1>7. Exit(s, toProxy[s] \o fails)
  BY <1>1
<1> HIDE DEF fails
<1> DEFINE q == toProxy[s]
           sent == q \o fails
<1>8. /\ sent \in Seq(StorageMessage) /\ Len(sent) = Len(q) + Len(fails)
      /\ \A i \in 1 .. Len(sent) :
           sent[i] = IF i <= Len(q) THEN q[i] ELSE fails[i - Len(q)]
  BY <1>5, <1>6, ConcatProperties
<1> HIDE DEF q, sent
<1>9. /\ Len(q) \in Nat /\ DOMAIN q = 1 .. Len(q)
      /\ Len(fails) \in Nat /\ DOMAIN fails = 1 .. Len(fails)
      /\ DOMAIN sent = 1 .. Len(sent)
  BY <1>5, <1>6, <1>8 DEF q
<1>10. Len(q) <= Len(sent) /\ \A i \in DOMAIN q : sent[i] = q[i]
  BY <1>8, <1>9
<1>11. ASSUME NEW i \in DOMAIN sent, sent[i].type = "transfer_block"
       PROVE  i \in DOMAIN q
  <2> SUFFICES ASSUME i > Len(q) PROVE FALSE
    BY <1>8, <1>9
  <2>1. i - Len(q) \in DOMAIN fails /\ sent[i] = fails[i - Len(q)]
    BY <1>8, <1>9
  <2> QED
    BY <1>5, <1>11, <2>1
<1>12. Exit(s, sent)
  BY <1>7 DEF q, sent
<1> QED
  BY <1>8, <1>10, <1>11, <1>12, ExitOrder DEF q

LEMMA DeliverOrder ==
  ASSUME TypeOK, PiecesInOrder, NEW s \in Servers, Deliver(s)
  PROVE  PiecesInOrder'
<1>1. /\ toProxy[s] # <<>> /\ toProxy'[s] = Tail(toProxy[s])
      /\ downloadingContext' = downloadingContext
      /\ \A r \in Servers : r # s => toProxy'[r] = toProxy[r]
  BY DEF Deliver, TypeOK, memory
<1>2. toProxy[s] \in Seq(StorageMessage) /\ Ordered(toProxy[s], downloadingContext[s])
  BY ServerTyped
<1>3. Ordered(Tail(toProxy[s]), downloadingContext[s])
  BY <1>1, <1>2, TailOrdered DEF Ordered
<1>4. Ordered(toProxy'[s], downloadingContext'[s])
  BY <1>1, <1>3
<1> QED
  BY <1>1, <1>4, OneServer

LEMMA NextOrder == IInv /\ PiecesInOrder /\ [Next]_sVars => PiecesInOrder'
<1> SUFFICES ASSUME IInv, PiecesInOrder, [Next]_sVars PROVE PiecesInOrder'
  OBVIOUS
<1> USE DEF IInv
<1>1. ASSUME NEW s \in Servers, OnMessage(s) PROVE PiecesInOrder'
  <2>1. ASSUME NEW msg \in UploadInput,
               OnUploadBlock(s, msg) \/ CrashWhileStoring(s, msg)
        PROVE  PiecesInOrder'
    BY <2>1, UploadInputTyped, OnUploadBlockOrder, CrashOrder DEF CrashWhileStoring
  <2>2. ASSUME NEW msg \in DownLoadBlockMessage,
               OnDownLoadBlock(s, msg) \/ ExitOnDownLoadBlock(s, msg)
        PROVE  PiecesInOrder'
    BY <2>2, OnDownLoadBlockOrder, CrashOrder DEF ExitOnDownLoadBlock
  <2>3. ASSUME NEW msg \in ClientCleanMessage, OnClientClean(s, msg)
        PROVE  PiecesInOrder'
    BY <2>3, OnClientCleanOrder
  <2> QED
    BY <1>1, <2>1, <2>2, <2>3 DEF OnMessage
<1>2. ASSUME NEW s \in Servers, Crash(s) PROVE PiecesInOrder'
  BY <1>2, CrashOrder DEF Crash
<1>3. ASSUME NEW s \in Servers, OnConnection(s) PROVE PiecesInOrder'
  <2>1. md5_path[s] \in SUBSET Md5s
    BY DEF TypeOK
  <2> QED
    BY <1>3, <2>1, SendSetOrder DEF OnConnection
<1>4. CASE UNCHANGED sVars
  BY <1>4, SameOrder DEF sVars, memory
<1> QED
  BY <1>1, <1>2, <1>3, <1>4, OnWriteCompleteOrder, OnCloseOrder, DeliverOrder DEF Next

(* The pieces of one block leave a storage server in order and unmixed, up *)
(* to a client_clean, a failure or the server's end, however many flows    *)
(* are served in turn and however long their blocks are                    *)
(* (sendSomeMd5PieceToProxy, onWriteComplete, cleanDownloadContext).       *)
THEOREM PiecesLeaveInOrder == Spec => []PiecesInOrder
<1>1. Init => PiecesInOrder
  BY DEF Init, PiecesInOrder, OrderedOn
<1> QED
  BY <1>1, InitInvariant, NextInvariant, NextOrder, PTL DEF Spec

----------------------------------------------------------------------------
(* A server with any partner that keeps to the protocol. *)

ServerInv == IInv /\ DiskInv /\ PiecesInOrder

ServerStep(s) ==
  \/ OnConnection(s) \/ OnWriteComplete(s) \/ OnClose(s) \/ Crash(s) \/ Deliver(s)
  \/ \E msg \in UploadBlockMessage : OnUploadBlock(s, msg) \/ CrashWhileStoring(s, msg)
  \/ \E msg \in DownLoadBlockMessage :
       OnDownLoadBlock(s, msg) \/ ExitOnDownLoadBlock(s, msg)
  \/ \E msg \in ClientCleanMessage : OnClientClean(s, msg)

LEMMA ServerInit == Init => ServerInv
<1>1. Init => PiecesInOrder
  BY DEF Init, PiecesInOrder, OrderedOn
<1> QED
  BY <1>1, InitInvariant, InitDisk DEF ServerInv

(* All that is proved of a server holds whatever it is sent, in or beyond  *)
(* the bounds of OnMessage.                                                *)
LEMMA ServerStepKeeps ==
  ASSUME ServerInv, NEW s \in Servers, ServerStep(s) PROVE ServerInv'
<1>1. IInv /\ DiskInv /\ PiecesInOrder /\ TypeOK
  BY DEF ServerInv, IInv
<1>2. ASSUME OnConnection(s) \/ OnWriteComplete(s) \/ OnClose(s) \/ Crash(s) \/ Deliver(s)
      PROVE  ServerInv'
  BY <1>1, <1>2, NextInvariant, NextDisk, NextOrder DEF Next, ServerInv
<1>3. ASSUME NEW msg \in UploadBlockMessage, OnUploadBlock(s, msg)
      PROVE  ServerInv'
  BY <1>1, <1>3, OnUploadBlockInvariant, OnUploadBlockDisk, OnUploadBlockOrder DEF ServerInv
<1>4. ASSUME NEW msg \in UploadBlockMessage, CrashWhileStoring(s, msg)
      PROVE  ServerInv'
  <2>1. PiecesInOrder'
    BY <1>1, <1>4, CrashOrder DEF CrashWhileStoring
  <2> QED
    BY <1>1, <1>4, <2>1, CrashWhileStoringInvariant, CrashWhileStoringDisk DEF ServerInv
<1>5. ASSUME NEW msg \in DownLoadBlockMessage, OnDownLoadBlock(s, msg)
      PROVE  ServerInv'
  BY <1>1, <1>5, OnDownLoadBlockInvariant, OnDownLoadBlockDisk, OnDownLoadBlockOrder
     DEF ServerInv
<1>6. ASSUME NEW msg \in DownLoadBlockMessage, ExitOnDownLoadBlock(s, msg)
      PROVE  ServerInv'
  <2>1. DiskInv' /\ PiecesInOrder'
    BY <1>1, <1>6, DiskSame, ExitDisk, CrashOrder DEF ExitOnDownLoadBlock, DiskInv
  <2> QED
    BY <1>1, <1>6, <2>1, ExitOnDownLoadBlockInvariant DEF ServerInv
<1>7. ASSUME NEW msg \in ClientCleanMessage, OnClientClean(s, msg)
      PROVE  ServerInv'
  <2>1. DiskInv'
    BY <1>1, <1>7, SameDisk DEF OnClientClean
  <2> QED
    BY <1>1, <1>7, <2>1, OnClientCleanInvariant, OnClientCleanOrder DEF ServerInv
<1> QED
  BY <1>2, <1>3, <1>4, <1>5, <1>6, <1>7 DEF ServerStep

LEMMA ServerSame == ServerInv /\ UNCHANGED sVars => ServerInv'
BY NextInvariant, NextDisk, NextOrder DEF ServerInv
=============================================================================
