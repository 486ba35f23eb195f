---------------------------- MODULE ReadBackProofs ----------------------------
(***************************************************************************)
(* What a downloading client has written: ReadBack of FileStorage.tla, for *)
(* every number of clients, servers, blocks and pieces.                    *)
(*                                                                         *)
(* Four layers.  Content, the concatenation of a file's blocks, grows by   *)
(* one block's pieces at a time.  A line is the way from the request for   *)
(* one block of a flow, through a server's pump, to the proxy's end of its *)
(* connection: read from the proxy's end it holds the block's pieces from  *)
(* some number on, and then nothing of the flow (Line, Coming).  A client  *)
(* that reads is at one of three stages (Begun, Reading, Ended): what it   *)
(* has written, what is in its queue and what comes down the line are      *)
(* together a start of the file.  Every step of the system keeps this.     *)
(***************************************************************************)
EXTENDS DownloadProofs

----------------------------------------------------------------------------
(* What a file's blocks hold, one after the other.                         *)

(* The concatenation of the first sequences of bs, for each number of them. *)
Joins(bs, h) == \A i \in DOMAIN h : h[i] = IF i = 1 THEN bs[i] ELSE h[i - 1] \o bs[i]

LEMMA JoinsExist ==
  ASSUME NEW T, NEW bs \in Seq(Seq(T)), NEW n \in 0 .. Len(bs)
  PROVE  \E h \in [1 .. n -> Seq(T)] : Joins(bs, h)
<1> DEFINE none == {k \in 0 .. Len(bs) : ~\E h \in [1 .. k -> Seq(T)] : Joins(bs, h)}
<1> SUFFICES ASSUME none # {} PROVE FALSE
  OBVIOUS
<1>1. Len(bs) \in Nat /\ \A i \in 1 .. Len(bs) : bs[i] \in Seq(T)
  OBVIOUS
<1> DEFINE N == Len(bs)
<1> HIDE DEF N
<1>2. none \in SUBSET Nat
  BY <1>1 DEF N
<1> HIDE DEF none
<1>3. PICK k \in none : \A i \in none : k <= i
  BY <1>2, LeastOf
<1>4. k \in 0 .. N /\ ~\E h \in [1 .. k -> Seq(T)] : Joins(bs, h)
  BY DEF none, N
<1>5. k # 0
  <2>1. [i \in 1 .. 0 |-> <<>>] \in [1 .. 0 -> Seq(T)]
    OBVIOUS
  <2>2. Joins(bs, [i \in 1 .. 0 |-> <<>>])
    BY DEF Joins
  <2> QED
    BY <1>4, <2>1, <2>2
<1>6. k \in Nat /\ k - 1 \in 0 .. N /\ k \in 1 .. N /\ ~(k <= k - 1)
  BY <1>1, <1>4, <1>5 DEF N
<1>7. PICK g \in [1 .. k - 1 -> Seq(T)] : Joins(bs, g)
  BY <1>3, <1>6 DEF none, N
<1> DEFINE h == [i \in 1 .. k |-> IF i = k THEN (IF i = 1 THEN bs[i] ELSE g[i - 1] \o bs[i])
                                  ELSE g[i]]
<1>8. ASSUME NEW i \in 1 .. k
      PROVE  h[i] \in Seq(T) /\ h[i] = IF i = 1 THEN bs[i] ELSE h[i - 1] \o bs[i]
  <2>1. bs[i] \in Seq(T)
    BY <1>1, <1>6 DEF N
  <2>2. CASE i = k
    <3>1. i # 1 => i - 1 \in 1 .. k - 1 /\ i - 1 # k /\ i - 1 \in 1 .. k
      BY <1>6
    <3>2. i # 1 => g[i - 1] \in Seq(T) /\ h[i - 1] = g[i - 1]
      BY <3>1
    <3>3. h[i] = IF i = 1 THEN bs[i] ELSE g[i - 1] \o bs[i]
      BY <2>2
    <3> HIDE DEF h
    <3> QED
      BY <2>1, <3>2, <3>3
  <2>3. CASE i # k
    <3>1. i \in 1 .. k - 1 /\ (i # 1 => i - 1 \in 1 .. k - 1 /\ i - 1 # k /\ i - 1 \in 1 .. k)
      BY <1>6, <2>3
    <3>2. h[i] = g[i] /\ (i # 1 => h[i - 1] = g[i - 1])
      BY <2>3, <3>1
    <3>3. g[i] \in Seq(T) /\ g[i] = IF i = 1 THEN bs[i] ELSE g[i - 1] \o bs[i]
      BY <1>7, <3>1 DEF Joins
    <3> HIDE DEF h
    <3> QED
      BY <3>2, <3>3
  <2> QED
    BY <2>2, <2>3
<1>9. h \in [1 .. k -> Seq(T)]
  BY <1>8
<1>10. Joins(bs, h)
  BY <1>8 DEF Joins
<1> QED
  BY <1>4, <1>9, <1>10

LEMMA JoinsUnique ==
  ASSUME NEW T, NEW bs, NEW n \in Nat, NEW g \in [1 .. n -> Seq(T)], Joins(bs, g),
         NEW k \in Nat, NEW h, DOMAIN h = 1 .. k, Joins(bs, h)
  PROVE  \A i \in 1 .. n : i <= k => g[i] = h[i]
<1> DEFINE differ == {i \in 1 .. n : i <= k /\ g[i] # h[i]}
<1> SUFFICES ASSUME differ # {} PROVE FALSE
  OBVIOUS
<1>0. differ \in SUBSET Nat
  OBVIOUS
<1> HIDE DEF differ
<1>1. PICK i \in differ : \A j \in differ : i <= j
  BY <1>0, LeastOf
<1>2. i \in 1 .. n /\ i <= k /\ g[i] # h[i]
  BY DEF differ
<1>3. i # 1 => i - 1 \in 1 .. n /\ i - 1 <= k /\ ~(i <= i - 1)
  BY <1>2
<1>4. i # 1 => g[i - 1] = h[i - 1]
  BY <1>1, <1>3 DEF differ
<1>5. i \in DOMAIN h /\ i \in DOMAIN g
  BY <1>2
<1> QED
  BY <1>2, <1>4, <1>5 DEF Joins

LEMMA FlattenJoins ==
  ASSUME NEW T, NEW bs \in Seq(Seq(T)), bs # <<>>, NEW h \in [1 .. Len(bs) -> Seq(T)], Joins(bs, h)
  PROVE  FlattenSeq(bs) = h[Len(bs)]
<1> DEFINE ByOne(fl) == [i \in 1 .. Len(bs) |-> IF i = 1 THEN bs[i] ELSE fl[i - 1] \o bs[i]]
           flatten[i \in 1 .. Len(bs)] == IF i = 1 THEN bs[i] ELSE flatten[i - 1] \o bs[i]
<1>1. FlattenSeq(bs) = flatten[Len(bs)]
  BY DEF FlattenSeq
<1>2. h = ByOne(h)
  BY DEF Joins
<1>3. flatten = CHOOSE fl : fl = ByOne(fl)
  BY DEF flatten
<1>4. ASSUME NEW fl
      PROVE  /\ DOMAIN ByOne(fl) = 1 .. Len(bs)
             /\ \A i \in 1 .. Len(bs) : ByOne(fl)[i] = IF i = 1 THEN bs[i] ELSE fl[i - 1] \o bs[i]
  OBVIOUS
<1>5. Len(bs) \in Nat /\ Len(bs) \in 1 .. Len(bs) /\ Len(bs) <= Len(bs)
  OBVIOUS
<1> DEFINE n == Len(bs)
<1> HIDE DEF ByOne, flatten
<1>6. flatten = ByOne(flatten)
  BY <1>2, <1>3
<1>7. DOMAIN flatten = 1 .. n /\ \A i \in 1 .. n :
        flatten[i] = IF i = 1 THEN bs[i] ELSE flatten[i - 1] \o bs[i]
  BY <1>4, <1>6, Zenon
<1>8. Joins(bs, flatten)
  BY <1>7, Zenon DEF Joins
<1> HIDE DEF n
<1>9. h \in [1 .. n -> Seq(T)] /\ n \in Nat
  BY <1>5 DEF n
<1>10. \A i \in 1 .. n : i <= n => h[i] = flatten[i]
  BY <1>7, <1>8, <1>9, JoinsUnique
<1> QED
  BY <1>1, <1>5, <1>10 DEF n

Part(m, w) == [i \in 1 .. w |-> <<m, i - 1>>]
UpTo(md5s, n) == Content(SubSeq(md5s, 1, n))

LEMMA PartTyped ==
  ASSUME NEW m \in Md5s, NEW w \in Nat
  PROVE  /\ Part(m, w) \in Seq(PieceContent) /\ Len(Part(m, w)) = w
         /\ Part(m, 0) = <<>>
         /\ Part(m, w + 1) = Append(Part(m, w), <<m, w>>)
         /\ BlockContent(m) = Part(m, Pieces[m])
<1>1. \A i \in Nat \ {0} : <<m, i - 1>> \in PieceContent
  BY DEF PieceContent
<1>2. Part(m, w) \in Seq(PieceContent) /\ Len(Part(m, w)) = w
  BY <1>1 DEF Part
<1>3. Part(m, w + 1) \in Seq(PieceContent) /\ Len(Part(m, w + 1)) = w + 1
  BY <1>1 DEF Part
<1>4. Part(m, w + 1) = Append(Part(m, w), <<m, w>>)
  <2> DEFINE r == Append(Part(m, w), <<m, w>>)
  <2>1. \A i \in 1 .. w + 1 : Part(m, w + 1)[i] = <<m, i - 1>>
    BY DEF Part
  <2>2. \A i \in 1 .. w : Part(m, w)[i] = <<m, i - 1>>
    BY DEF Part
  <2>3. \A i \in 1 .. w + 1 : r[i] = <<m, i - 1>>
    BY <1>2, <2>2
  <2>4. DOMAIN r = 1 .. w + 1 /\ DOMAIN Part(m, w + 1) = 1 .. w + 1
        /\ r = [i \in DOMAIN r |-> r[i]]
    BY <1>2, <1>3
  <2>5. Part(m, w + 1) = [i \in 1 .. w + 1 |-> <<m, i - 1>>]
    BY DEF Part
  <2> HIDE DEF r
  <2>6. r = [i \in 1 .. w + 1 |-> <<m, i - 1>>]
    BY <2>3, <2>4
  <2> QED
    BY <2>5, <2>6 DEF r
<1>5. Part(m, 0) = <<>>
  BY DEF Part
<1>6. BlockContent(m) = Part(m, Pieces[m])
  BY DEF BlockContent, Part
<1> QED
  BY <1>2, <1>4, <1>5, <1>6

(* The blocks of a file up to one, and up to the next.                     *)
LEMMA ContentSteps ==
  ASSUME NEW md5s \in Seq(Md5s)
  PROVE  /\ \A n \in 0 .. Len(md5s) : UpTo(md5s, n) \in Seq(PieceContent)
         /\ UpTo(md5s, 0) = <<>>
         /\ \A n \in 0 .. Len(md5s) - 1 :
              UpTo(md5s, n + 1) = UpTo(md5s, n) \o Part(md5s[n + 1], Pieces[md5s[n + 1]])
         /\ UpTo(md5s, Len(md5s)) = Content(md5s)
<1> DEFINE N == Len(md5s)
           T == PieceContent
           bs == [i \in 1 .. N |-> BlockContent(md5s[i])]
<1>1. N \in Nat /\ \A i \in 1 .. N : md5s[i] \in Md5s /\ Pieces[md5s[i]] \in Nat
  BY PiecesAssumption
<1>2. \A i \in 1 .. N : BlockContent(md5s[i]) = Part(md5s[i], Pieces[md5s[i]])
                       /\ BlockContent(md5s[i]) \in Seq(T)
  BY <1>1, PartTyped
<1>3. bs \in Seq(Seq(T)) /\ Len(bs) = N
  BY <1>1, <1>2
<1>4. PICK J \in [1 .. N -> Seq(T)] : Joins(bs, J)
  <2>1. N \in 0 .. Len(bs)
    BY <1>1, <1>3
  <2> HIDE DEF N, T, bs
  <2> QED
    BY <1>3, <2>1, JoinsExist
<1>5. ASSUME NEW n \in 1 .. N PROVE UpTo(md5s, n) = J[n]
  <2> DEFINE q == SubSeq(md5s, 1, n)
             bn == [i \in DOMAIN q |-> BlockContent(q[i])]
             Jn == [i \in 1 .. n |-> J[i]]
  <2>1. q \in Seq(Md5s) /\ Len(q) = n /\ DOMAIN q = 1 .. n /\ \A i \in 1 .. n : q[i] = md5s[i]
    BY <1>1
  <2>2. n \in Nat /\ n # 0 /\ n \in 1 .. n /\ \A i \in 1 .. n : i \in 1 .. N
    BY <1>1
  <2> HIDE DEF q
  <2>3. DOMAIN bn = 1 .. n /\ \A i \in 1 .. n : bn[i] = bs[i] /\ bn[i] \in Seq(T)
    BY <1>2, <2>1, <2>2
  <2>4. bn \in [1 .. n -> Seq(T)]
    BY <2>3
  <2> HIDE DEF bn, T
  <2>5. bn \in Seq(Seq(T)) /\ Len(bn) = n /\ bn # <<>>
    BY <2>2, <2>4
  <2>6. Jn \in [1 .. n -> Seq(T)] /\ \A i \in 1 .. n : Jn[i] = J[i] /\ J[i] \in Seq(T)
    BY <2>2
  <2>7. \A i \in 1 .. n : J[i] = IF i = 1 THEN bs[i] ELSE J[i - 1] \o bs[i]
    BY <1>4, <2>2 DEF Joins
  <2>8. \A i \in 1 .. n : i # 1 => i - 1 \in 1 .. n
    BY <2>2
  <2> HIDE DEF bs, Jn
  <2>9. Joins(bn, Jn)
    <3> SUFFICES ASSUME NEW i \in 1 .. n
                 PROVE  Jn[i] = IF i = 1 THEN bn[i] ELSE Jn[i - 1] \o bn[i]
      BY <2>6 DEF Joins
    <3>1. Jn[i] = J[i] /\ bn[i] = bs[i] /\ (i # 1 => Jn[i - 1] = J[i - 1])
      BY <2>3, <2>6, <2>8
    <3> QED
      BY <2>7, <3>1
  <2>10. FlattenSeq(bn) = Jn[n]
    BY <2>5, <2>6, <2>9, FlattenJoins
  <2> QED
    BY <2>2, <2>6, <2>10 DEF UpTo, Content, q, bn
<1>6. UpTo(md5s, 0) = <<>>
  <2>1. SubSeq(md5s, 1, 0) = <<>>
    OBVIOUS
  <2>2. [i \in DOMAIN <<>> |-> BlockContent(<<>>[i])] = <<>>
    OBVIOUS
  <2>3. FlattenSeq(<<>>) = <<>>
    BY DEF FlattenSeq
  <2> QED
    BY <2>1, <2>2, <2>3 DEF UpTo, Content
<1>7. ASSUME NEW n \in 0 .. N PROVE UpTo(md5s, n) \in Seq(T)
  <2>1. n = 0 \/ n \in 1 .. N
    BY <1>1
  <2>2. <<>> \in Seq(T)
    OBVIOUS
  <2> HIDE DEF N, T, bs
  <2> QED
    BY <1>4, <1>5, <1>6, <2>1, <2>2
<1>8. ASSUME NEW n \in 0 .. N - 1
      PROVE  UpTo(md5s, n + 1) = UpTo(md5s, n) \o Part(md5s[n + 1], Pieces[md5s[n + 1]])
  <2>1. n + 1 \in 1 .. N /\ (n # 0 => n \in 1 .. N) /\ n + 1 - 1 = n /\ n \in 0 .. N
    BY <1>1
  <2>2. J[n + 1] = IF n = 0 THEN bs[n + 1] ELSE J[n] \o bs[n + 1]
    <3> DEFINE k == n + 1
    <3>1. k \in 1 .. N /\ k - 1 = n /\ (k = 1 <=> n = 0)
      BY <1>1, <2>1
    <3> HIDE DEF bs, N, T, k
    <3>2. \A i \in 1 .. N : J[i] = IF i = 1 THEN bs[i] ELSE J[i - 1] \o bs[i]
      BY <1>4 DEF Joins
    <3>3. J[k] = IF k = 1 THEN bs[k] ELSE J[k - 1] \o bs[k]
      BY <3>1, <3>2
    <3>4. J[k] = IF n = 0 THEN bs[k] ELSE J[n] \o bs[k]
      BY <3>1, <3>3
    <3> QED
      BY <3>4 DEF k
  <2>3. bs[n + 1] = Part(md5s[n + 1], Pieces[md5s[n + 1]]) /\ bs[n + 1] \in Seq(T)
    BY <1>2, <2>1
  <2>4. UpTo(md5s, n + 1) = J[n + 1] /\ (n # 0 => UpTo(md5s, n) = J[n])
    BY <1>5, <2>1
  <2> HIDE DEF bs, N, T
  <2>5. CASE n = 0
    <3>1. UpTo(md5s, n) = <<>> /\ UpTo(md5s, n + 1) = bs[n + 1]
      BY <1>6, <2>2, <2>4, <2>5
    <3>2. <<>> \o bs[n + 1] = bs[n + 1]
      BY <2>3
    <3> QED
      BY <2>3, <3>1, <3>2
  <2>6. CASE n # 0
    BY <2>1, <2>2, <2>3, <2>4, <2>6
  <2> QED
    BY <2>5, <2>6
<1>9. UpTo(md5s, N) = Content(md5s)
  <2>1. SubSeq(md5s, 1, N) = md5s
    OBVIOUS
  <2> QED
    BY <2>1 DEF UpTo
<1> QED
  BY <1>6, <1>7, <1>8, <1>9

(* A sequence begins with its beginnings.                                  *)
LEMMA PrefixOf ==
  ASSUME NEW T, NEW s \in Seq(T), NEW t \in Seq(T)
  PROVE  IsPrefix(s, t) <=> Len(s) <= Len(t) /\ \A i \in 1 .. Len(s) : s[i] = t[i]
<1>1. ASSUME Len(s) <= Len(t)
      PROVE  SubSeq(s, 1, Len(s)) = SubSeq(t, 1, Len(s)) <=> \A i \in 1 .. Len(s) : s[i] = t[i]
  <2>1. SubSeq(s, 1, Len(s)) = [i \in 1 .. Len(s) |-> s[i]]
    OBVIOUS
  <2>2. SubSeq(t, 1, Len(s)) = [i \in 1 .. Len(s) |-> t[i]]
    BY <1>1
  <2> QED
    BY <2>1, <2>2
<1> QED
  BY <1>1 DEF IsPrefix

LEMMA PrefixJoined ==
  ASSUME NEW T, NEW s \in Seq(T), NEW t \in Seq(T) PROVE IsPrefix(s, s \o t)
<1>1. s \o t \in Seq(T) /\ Len(s) <= Len(s \o t) /\ \A i \in 1 .. Len(s) : s[i] = (s \o t)[i]
  OBVIOUS
<1> QED
  BY <1>1, PrefixOf

LEMMA PrefixOfPrefix ==
  ASSUME NEW T, NEW r \in Seq(T), NEW s \in Seq(T), NEW t \in Seq(T),
         IsPrefix(r, s), IsPrefix(s, t)
  PROVE  IsPrefix(r, t)
<1>1. Len(r) <= Len(s) /\ \A i \in 1 .. Len(r) : r[i] = s[i]
  BY PrefixOf
<1>2. Len(s) <= Len(t) /\ \A i \in 1 .. Len(s) : s[i] = t[i]
  BY PrefixOf
<1>3. Len(r) \in Nat /\ Len(s) \in Nat /\ Len(t) \in Nat
  OBVIOUS
<1>4. Len(r) <= Len(t) /\ \A i \in 1 .. Len(r) : r[i] = t[i]
  BY <1>1, <1>2, <1>3
<1> QED
  BY <1>4, PrefixOf

LEMMA PrefixPart ==
  ASSUME NEW m \in Md5s, NEW w \in Nat, NEW v \in Nat, w <= v, NEW c \in Seq(PieceContent)
  PROVE  IsPrefix(c \o Part(m, w), c \o Part(m, v))
<1> DEFINE a == c \o Part(m, w)
           b == c \o Part(m, v)
<1>1. /\ Part(m, w) \in Seq(PieceContent) /\ Len(Part(m, w)) = w
      /\ Part(m, v) \in Seq(PieceContent) /\ Len(Part(m, v)) = v
  BY PartTyped
<1>2. \A i \in 1 .. w : Part(m, w)[i] = Part(m, v)[i]
  BY DEF Part
<1>3. a \in Seq(PieceContent) /\ Len(a) = Len(c) + w /\ b \in Seq(PieceContent)
      /\ Len(b) = Len(c) + v /\ Len(c) \in Nat
  BY <1>1
<1>4. ASSUME NEW i \in 1 .. Len(a) PROVE a[i] = b[i]
  <2>1. CASE i <= Len(c)
    BY <1>1, <1>3, <2>1
  <2>2. CASE i > Len(c)
    <3>1. i - Len(c) \in 1 .. w /\ i - Len(c) \in 1 .. v
      BY <1>3, <2>2
    <3>2. a[i] = Part(m, w)[i - Len(c)] /\ b[i] = Part(m, v)[i - Len(c)]
      BY <1>1, <1>3, <2>2
    <3> QED
      BY <1>2, <3>1, <3>2
  <2> QED
    BY <1>3, <2>1, <2>2
<1>5. Len(a) <= Len(b)
  BY <1>3
<1> HIDE DEF a, b
<1>6. IsPrefix(a, b)
  BY <1>3, <1>4, <1>5, PrefixOf
<1> QED
  BY <1>6 DEF a, b

LEMMA UpToBegins ==
  ASSUME NEW md5s \in Seq(Md5s), NEW n \in 0 .. Len(md5s)
  PROVE  IsPrefix(UpTo(md5s, n), Content(md5s))
<1> DEFINE N == Len(md5s)
           T == PieceContent
           wrong == {k \in 0 .. N : ~IsPrefix(UpTo(md5s, N - k), Content(md5s))}
<1>1. N \in Nat /\ n \in 0 .. N
  OBVIOUS
<1>2. /\ \A k \in 0 .. N : UpTo(md5s, k) \in Seq(T)
      /\ \A k \in 0 .. N - 1 :
           UpTo(md5s, k + 1) = UpTo(md5s, k) \o Part(md5s[k + 1], Pieces[md5s[k + 1]])
      /\ UpTo(md5s, N) = Content(md5s)
  BY ContentSteps
<1>3. ASSUME NEW k \in 0 .. N - 1 PROVE IsPrefix(UpTo(md5s, k), UpTo(md5s, k + 1))
  <2>1. k + 1 \in 1 .. N /\ k \in 0 .. N
    BY <1>1
  <2>2. md5s[k + 1] \in Md5s /\ Pieces[md5s[k + 1]] \in Nat
    BY <2>1, PiecesAssumption
  <2>3. Part(md5s[k + 1], Pieces[md5s[k + 1]]) \in Seq(T)
    BY <2>2, PartTyped
  <2> HIDE DEF N, T
  <2> QED
    BY <1>2, <2>1, <2>3, PrefixJoined
<1> HIDE DEF N, T
<1>4. wrong = {}
  <2> SUFFICES ASSUME wrong # {} PROVE FALSE
    OBVIOUS
  <2>1. wrong \in SUBSET Nat
    BY <1>1
  <2> HIDE DEF wrong
  <2>2. PICK k \in wrong : \A j \in wrong : k <= j
    BY <2>1, LeastOf
  <2>3. k \in 0 .. N /\ ~IsPrefix(UpTo(md5s, N - k), Content(md5s))
    BY DEF wrong
  <2>4. CASE k = 0
    <3>1. N - k = N /\ N \in 0 .. N
      BY <1>1, <2>4
    <3>2. UpTo(md5s, N - k) = Content(md5s) /\ UpTo(md5s, N) \in Seq(T)
      BY <1>2, <3>1
    <3>3. Content(md5s) \in Seq(T)
      BY <1>2, <3>1
    <3>4. Len(Content(md5s)) <= Len(Content(md5s))
      BY <3>3
    <3>5. IsPrefix(Content(md5s), Content(md5s))
      BY <3>3, <3>4, PrefixOf
    <3> QED
      BY <2>3, <3>2, <3>5
  <2>5. CASE k # 0
    <3>1. /\ N - k \in 0 .. N - 1 /\ N - k + 1 = N - (k - 1) /\ k - 1 \in 0 .. N /\ ~(k <= k - 1)
          /\ N - k \in 0 .. N /\ N - (k - 1) \in 0 .. N /\ N \in 0 .. N
      BY <1>1, <2>3, <2>5
    <3>2. IsPrefix(UpTo(md5s, N - (k - 1)), Content(md5s))
      BY <2>2, <3>1 DEF wrong
    <3>3. IsPrefix(UpTo(md5s, N - k), UpTo(md5s, N - (k - 1)))
      BY <1>3, <3>1
    <3>4. /\ UpTo(md5s, N - k) \in Seq(T) /\ UpTo(md5s, N - (k - 1)) \in Seq(T)
          /\ Content(md5s) \in Seq(T)
      BY <1>2, <3>1
    <3> QED
      BY <2>3, <3>2, <3>3, <3>4, PrefixOfPrefix
  <2> QED
    BY <2>4, <2>5
<1>5. N - n \in 0 .. N /\ N - (N - n) = n
  BY <1>1
<1>6. N - n \notin wrong
  BY <1>4
<1> QED
  BY <1>5, <1>6

(* The blocks before one and some of its pieces are the beginning of all.  *)
LEMMA WrittenBegins ==
  ASSUME NEW md5s \in Seq(Md5s), NEW n \in Nat, n < Len(md5s),
         NEW w \in 0 .. Pieces[md5s[n + 1]]
  PROVE  IsPrefix(UpTo(md5s, n) \o Part(md5s[n + 1], w), Content(md5s))
<1> DEFINE m == md5s[n + 1]
           T == PieceContent
<1>1. n \in 0 .. Len(md5s) - 1 /\ n \in 0 .. Len(md5s) /\ n + 1 \in 0 .. Len(md5s)
      /\ n + 1 \in 1 .. Len(md5s) /\ Len(md5s) \in 0 .. Len(md5s)
  OBVIOUS
<1>2. m \in Md5s /\ Pieces[m] \in Nat
  BY <1>1, PiecesAssumption
<1>3. w \in Nat /\ w <= Pieces[m]
  BY <1>2
<1>4. /\ UpTo(md5s, n) \in Seq(T) /\ UpTo(md5s, n + 1) \in Seq(T) /\ Content(md5s) \in Seq(T)
      /\ UpTo(md5s, n + 1) = UpTo(md5s, n) \o Part(m, Pieces[m])
  BY <1>1, ContentSteps
<1>5. Part(m, w) \in Seq(T)
  BY <1>2, <1>3, PartTyped
<1> HIDE DEF m, T
<1>6. UpTo(md5s, n) \o Part(m, w) \in Seq(T)
  BY <1>4, <1>5
<1>7. IsPrefix(UpTo(md5s, n) \o Part(m, w), UpTo(md5s, n + 1))
  BY <1>2, <1>3, <1>4, PrefixPart DEF T
<1>8. IsPrefix(UpTo(md5s, n + 1), Content(md5s))
  BY <1>1, UpToBegins
<1> QED
  BY <1>4, <1>6, <1>7, <1>8, PrefixOfPrefix DEF m

(* There is one sequence of the elements of md5s that are in S.            *)
LEMMA KeptOne ==
  ASSUME NEW md5s \in Seq(Md5s), NEW T, NEW x \in Kept(md5s, T), NEW y \in Kept(md5s, T)
  PROVE  x = y
<1> DEFINE places == {i \in DOMAIN md5s : md5s[i] \in T}
           n == Cardinality(places)
<1>1. places \subseteq 1 .. Len(md5s) /\ IsFiniteSet(1 .. Len(md5s))
  BY FS_Interval
<1>2. IsFiniteSet(places) /\ n \in Nat
  BY <1>1, FS_Subset, FS_CardinalityType
<1>3. PICK a \in [1 .. n -> places] :
        /\ \A j, k \in 1 .. n : j < k => a[j] < a[k]
        /\ x = [k \in 1 .. n |-> md5s[a[k]]]
  BY ZenonT(60) DEF Kept, Increasing
<1>4. PICK b \in [1 .. n -> places] :
        /\ \A j, k \in 1 .. n : j < k => b[j] < b[k]
        /\ y = [k \in 1 .. n |-> md5s[b[k]]]
  BY ZenonT(60) DEF Kept, Increasing
<1>5. \A i \in places : i \in Nat
  OBVIOUS
<1> HIDE DEF places, n
<1>6. ASSUME NEW g \in [1 .. n -> places], \A j, k \in 1 .. n : j < k => g[j] < g[k]
      PROVE  \A i \in places : \E k \in 1 .. n : g[k] = i
  <2>1. ASSUME NEW j \in 1 .. n, NEW k \in 1 .. n, g[j] = g[k] PROVE j = k
    <3>1. g[j] \in Nat /\ ~(g[j] < g[k]) /\ ~(g[k] < g[j])
      BY <1>5, <1>6, <2>1
    <3>2. ~(j < k) /\ ~(k < j)
      BY <1>6, <2>1, <3>1
    <3> QED
      BY <1>2, <3>2
  <2>2. g \in Injection(1 .. n, places)
    BY <1>6, <2>1 DEF Injection, IsInjective
  <2>3. Cardinality(1 .. n) = n
    BY <1>2, FS_Interval
  <2>4. g \in Surjection(1 .. n, places)
    BY <1>2, <2>2, <2>3, FS_Injection DEF n
  <2> QED
    BY <2>4 DEF Surjection
<1>7. a = b
  <2> DEFINE differ == {k \in 1 .. n : a[k] # b[k]}
  <2>0. differ = {} => a = b
    <3>1. differ = {} => \A k \in 1 .. n : a[k] = b[k]
      OBVIOUS
    <3>2. a = [k \in 1 .. n |-> a[k]] /\ b = [k \in 1 .. n |-> b[k]]
      OBVIOUS
    <3> HIDE DEF differ
    <3> QED
      BY <3>1, <3>2
  <2> SUFFICES ASSUME differ # {} PROVE FALSE
    BY <2>0
  <2>1. differ \in SUBSET Nat
    OBVIOUS
  <2> HIDE DEF differ
  <2>2. PICK k \in differ : \A j \in differ : k <= j
    BY <2>1, LeastOf
  <2>3. k \in 1 .. n /\ a[k] # b[k] /\ \A j \in 1 .. n : j < k => a[j] = b[j]
    <3>1. k \in 1 .. n /\ a[k] # b[k]
      BY DEF differ
    <3>2. \A j \in 1 .. n : j < k => j \notin differ
      BY <2>1, <2>2
    <3> QED
      BY <3>1, <3>2 DEF differ
  <2>4. ASSUME NEW g \in [1 .. n -> places], NEW h \in [1 .. n -> places],
               \A i, j \in 1 .. n : i < j => g[i] < g[j],
               \A i, j \in 1 .. n : i < j => h[i] < h[j],
               \A j \in 1 .. n : j < k => g[j] = h[j], g[k] < h[k]
        PROVE  FALSE
    <3>1. PICK j \in 1 .. n : h[j] = g[k]
      BY <1>6, <2>3, <2>4
    <3>2. g[k] \in Nat /\ h[k] \in Nat
      BY <1>5, <2>3
    <3>3. CASE j < k
      <4>1. g[j] = g[k] /\ g[j] < g[k]
        BY <2>3, <2>4, <3>1, <3>3
      <4> QED
        BY <3>2, <4>1
    <3>4. CASE j = k
      BY <2>4, <3>1, <3>2, <3>4
    <3>5. CASE k < j
      <4>1. h[k] < h[j] /\ h[j] = g[k]
        BY <2>3, <2>4, <3>1, <3>5
      <4> QED
        BY <2>4, <3>2, <4>1
    <3> QED
      BY <2>3, <3>3, <3>4, <3>5
  <2>5. a[k] < b[k] \/ b[k] < a[k]
    BY <1>5, <2>3
  <2>6. \A j \in 1 .. n : j < k => b[j] = a[j]
    BY <2>3
  <2> QED
    BY <1>3, <1>4, <2>3, <2>4, <2>5, <2>6
<1> QED
  BY <1>3, <1>4, <1>7

----------------------------------------------------------------------------
(* The pieces a server has on their way to the proxy for a flow.           *)

ThePiece(f, m, i) == TransferBlock(m, i, i + 1 = Pieces[m], f, <<m, i>>)

(* Where the transfer of block m to flow f gets by a message: a piece is   *)
(* the next one due, and another message is none of the transfer.          *)
Hop(f, m, v, msg, u) ==
  IF S!PieceOf(msg, f)
    THEN msg = ThePiece(f, m, v) /\ v < Pieces[m] /\ u = v + 1 ELSE u = v

(* The messages q lead from piece v to piece u.                            *)
Run(f, m, q, v, u) ==
  \E at \in [0 .. Len(q) -> Nat] :
    /\ at[0] = v /\ at[Len(q)] = u
    /\ \A i \in 1 .. Len(q) : Hop(f, m, at[i - 1], q[i], at[i])
    /\ \A i, j \in 0 .. Len(q) : i <= j => at[i] <= at[j]

HasPiece(q, f) == \E i \in DOMAIN q : S!PieceOf(q[i], f)

LEMMA ThePieceIs ==
  ASSUME NEW f, NEW m, NEW i
  PROVE  LET msg == ThePiece(f, m, i) IN
         /\ S!PieceOf(msg, f) /\ msg.type = "transfer_block" /\ msg.md5 = m /\ msg.index = i
         /\ (msg.eof <=> i + 1 = Pieces[m]) /\ msg.content = <<m, i>>
BY DEF ThePiece, TransferBlock, S!PieceOf

LEMMA RunRises ==
  ASSUME NEW f, NEW m \in Md5s, NEW M, NEW q \in Seq(M), NEW v, NEW u, Run(f, m, q, v, u)
  PROVE  v \in Nat /\ u \in Nat /\ v <= u /\ (v >= Pieces[m] => ~HasPiece(q, f))
<1>1. PICK at \in [0 .. Len(q) -> Nat] :
        /\ at[0] = v /\ at[Len(q)] = u
        /\ \A i \in 1 .. Len(q) : Hop(f, m, at[i - 1], q[i], at[i])
        /\ \A i, j \in 0 .. Len(q) : i <= j => at[i] <= at[j]
  BY DEF Run
<1>2. Len(q) \in Nat /\ 0 \in 0 .. Len(q) /\ Len(q) \in 0 .. Len(q) /\ Pieces[m] \in Nat
  BY PiecesAssumption
<1>3. v \in Nat /\ u \in Nat /\ v <= u
  BY <1>1, <1>2
<1>4. ASSUME NEW i \in DOMAIN q, S!PieceOf(q[i], f) PROVE v < Pieces[m]
  <2>1. i \in 1 .. Len(q) /\ i - 1 \in 0 .. Len(q) /\ 0 <= i - 1
    BY <1>2
  <2>2. at[i - 1] < Pieces[m] /\ v <= at[i - 1] /\ at[i - 1] \in Nat
    BY <1>1, <1>2, <1>4, <2>1 DEF Hop
  <2> QED
    BY <1>2, <1>3, <2>2
<1>5. v >= Pieces[m] => ~HasPiece(q, f)
  BY <1>2, <1>3, <1>4 DEF HasPiece
<1> QED
  BY <1>3, <1>5

LEMMA RunNone ==
  ASSUME NEW f, NEW m, NEW M, NEW q \in Seq(M), ~HasPiece(q, f), NEW v \in Nat
  PROVE  Run(f, m, q, v, v)
<1> DEFINE n == Len(q)
           stay == [i \in 0 .. n |-> v]
<1>1. n \in Nat /\ DOMAIN q = 1 .. n
  OBVIOUS
<1>2. stay \in [0 .. n -> Nat] /\ \A i \in 0 .. n : stay[i] = v
  OBVIOUS
<1>3. ASSUME NEW i \in 1 .. n PROVE Hop(f, m, stay[i - 1], q[i], stay[i])
  <2>1. stay[i - 1] = v /\ stay[i] = v /\ ~S!PieceOf(q[i], f)
    BY <1>1, <1>2 DEF HasPiece
  <2> QED
    BY <2>1 DEF Hop
<1>4. stay[0] = v /\ stay[n] = v /\ \A i, j \in 0 .. n : i <= j => stay[i] <= stay[j]
  BY <1>1, <1>2
<1> HIDE DEF stay
<1> QED
  BY <1>2, <1>3, <1>4 DEF Run

LEMMA RunAppend ==
  ASSUME NEW f, NEW m, NEW M, NEW q \in Seq(M), NEW msg, NEW v, NEW u, NEW w \in Nat,
         Run(f, m, q, v, u), Hop(f, m, u, msg, w)
  PROVE  Run(f, m, Append(q, msg), v, w)
<1> DEFINE n == Len(q)
<1>1. PICK p \in [0 .. n -> Nat] :
        /\ p[0] = v /\ p[n] = u
        /\ \A i \in 1 .. n : Hop(f, m, p[i - 1], q[i], p[i])
        /\ \A i, j \in 0 .. n : i <= j => p[i] <= p[j]
  BY DEF Run
<1> DEFINE r == Append(q, msg)
           longer == [i \in 0 .. n + 1 |-> IF i <= n THEN p[i] ELSE w]
<1>2. n \in Nat /\ Len(r) = n + 1 /\ r[n + 1] = msg /\ \A i \in 1 .. n : r[i] = q[i]
  OBVIOUS
<1>3. /\ longer \in [0 .. n + 1 -> Nat]
      /\ longer[0] = v /\ longer[n] = u /\ longer[n + 1] = w
      /\ \A i \in 0 .. n : longer[i] = p[i]
  BY <1>1, <1>2
<1>4. u <= w
  <2>1. u \in Nat
    BY <1>1, <1>2
  <2> QED
    BY <2>1 DEF Hop
<1> HIDE DEF n, longer, r
<1>5. ASSUME NEW i \in 1 .. n + 1 PROVE Hop(f, m, longer[i - 1], r[i], longer[i])
  <2>1. CASE i = n + 1
    <3>1. i - 1 = n
      BY <1>2, <2>1
    <3> QED
      BY <1>2, <1>3, <2>1, <3>1
  <2>2. CASE i # n + 1
    <3>1. i \in 1 .. n /\ i - 1 \in 0 .. n /\ i \in 0 .. n
      BY <1>2, <2>2
    <3>2. longer[i - 1] = p[i - 1] /\ longer[i] = p[i] /\ r[i] = q[i]
      BY <1>2, <1>3, <3>1
    <3> QED
      BY <1>1, <3>1, <3>2
  <2> QED
    BY <2>1, <2>2
<1>6. ASSUME NEW i \in 0 .. n + 1, NEW j \in 0 .. n + 1, i <= j PROVE longer[i] <= longer[j]
  <2>1. CASE j <= n
    <3>1. i \in 0 .. n /\ j \in 0 .. n
      BY <1>2, <1>6, <2>1
    <3> QED
      BY <1>1, <1>3, <1>6, <3>1
  <2>2. CASE j = n + 1 /\ i <= n
    <3>1. i \in 0 .. n /\ n \in 0 .. n /\ i <= n
      BY <1>2, <2>2
    <3>2. p[i] <= p[n] /\ p[i] \in Nat /\ p[n] \in Nat
      BY <1>1, <3>1
    <3>3. longer[i] = p[i] /\ u = p[n]
      BY <1>1, <1>3, <3>1
    <3>4. longer[i] <= u /\ longer[i] \in Nat /\ u \in Nat
      BY <3>2, <3>3
    <3> QED
      BY <1>3, <1>4, <2>2, <3>4
  <2>3. CASE i = n + 1 /\ j = n + 1
    BY <1>3, <2>3
  <2> QED
    BY <1>2, <1>6, <2>1, <2>2, <2>3
<1>7. Run(f, m, r, v, w)
  BY <1>2, <1>3, <1>5, <1>6 DEF Run
<1> QED
  BY <1>7 DEF r

LEMMA RunTail ==
  ASSUME NEW f, NEW m, NEW M, NEW q \in Seq(M), q # <<>>, NEW v, NEW u, Run(f, m, q, v, u)
  PROVE  \E w \in Nat : Hop(f, m, v, Head(q), w) /\ Run(f, m, Tail(q), w, u)
<1> DEFINE n == Len(q)
<1>1. PICK p \in [0 .. n -> Nat] :
        /\ p[0] = v /\ p[n] = u
        /\ \A i \in 1 .. n : Hop(f, m, p[i - 1], q[i], p[i])
        /\ \A i, j \in 0 .. n : i <= j => p[i] <= p[j]
  BY DEF Run
<1> DEFINE r == Tail(q)
           rest == [i \in 0 .. n - 1 |-> p[i + 1]]
<1>2. n \in Nat \ {0} /\ Len(r) = n - 1 /\ Head(q) = q[1] /\ \A i \in 1 .. n - 1 : r[i] = q[i + 1]
  OBVIOUS
<1>3. /\ rest \in [0 .. n - 1 -> Nat] /\ rest[0] = p[1] /\ rest[n - 1] = u
      /\ \A i \in 0 .. n - 1 : rest[i] = p[i + 1]
  BY <1>1, <1>2
<1> HIDE DEF rest, n, r
<1>4. ASSUME NEW i \in 1 .. n - 1 PROVE Hop(f, m, rest[i - 1], r[i], rest[i])
  <2>1. i + 1 \in 1 .. n /\ i \in 0 .. n - 1 /\ i - 1 \in 0 .. n - 1
        /\ (i + 1) - 1 = i /\ (i - 1) + 1 = i
    BY <1>2
  <2>2. rest[i - 1] = p[i] /\ rest[i] = p[i + 1] /\ r[i] = q[i + 1]
    BY <1>2, <1>3, <2>1
  <2>3. Hop(f, m, p[(i + 1) - 1], q[i + 1], p[i + 1])
    BY <1>1, <2>1
  <2> QED
    BY <2>1, <2>2, <2>3
<1>5. ASSUME NEW i \in 0 .. n - 1, NEW j \in 0 .. n - 1, i <= j PROVE rest[i] <= rest[j]
  <2>1. i + 1 \in 0 .. n /\ j + 1 \in 0 .. n /\ i + 1 <= j + 1
    BY <1>2, <1>5
  <2> QED
    BY <1>1, <1>3, <2>1
<1>6. Hop(f, m, v, Head(q), p[1]) /\ p[1] \in Nat
  <2>1. 1 \in 1 .. n /\ 1 - 1 = 0 /\ 1 \in 0 .. n
    BY <1>2
  <2>2. Hop(f, m, p[1 - 1], q[1], p[1])
    BY <1>1, <2>1
  <2> QED
    BY <1>1, <1>2, <2>1, <2>2
<1>7. Run(f, m, r, p[1], u)
  BY <1>2, <1>3, <1>4, <1>5 DEF Run
<1> QED
  BY <1>6, <1>7 DEF r

LEMMA RunPart ==
  ASSUME NEW f, NEW m, NEW M, NEW q \in Seq(M), NEW n \in 0 .. Len(q), NEW v, NEW u,
         Run(f, m, q, v, u)
  PROVE  \E w \in Nat : w <= u /\ Run(f, m, SubSeq(q, 1, n), v, w)
<1>1. PICK p \in [0 .. Len(q) -> Nat] :
        /\ p[0] = v /\ p[Len(q)] = u
        /\ \A i \in 1 .. Len(q) : Hop(f, m, p[i - 1], q[i], p[i])
        /\ \A i, j \in 0 .. Len(q) : i <= j => p[i] <= p[j]
  BY DEF Run
<1> DEFINE r == SubSeq(q, 1, n)
           part == [i \in 0 .. n |-> p[i]]
<1>2. /\ n \in Nat /\ Len(q) \in Nat /\ n <= Len(q) /\ Len(r) = n
      /\ \A i \in 1 .. n : r[i] = q[i]
  OBVIOUS
<1>3. (\A i \in 0 .. n : i \in 0 .. Len(q)) /\ 0 \in 0 .. n /\ n \in 0 .. n
  BY <1>2
<1>4. /\ part \in [0 .. n -> Nat] /\ part[0] = v /\ part[n] = p[n] /\ p[n] \in Nat
      /\ \A i \in 0 .. n : part[i] = p[i]
  <2>1. \A i \in 0 .. n : p[i] \in Nat
    BY <1>3
  <2>2. \A i \in 0 .. n : part[i] = p[i]
    OBVIOUS
  <2>3. part \in [0 .. n -> Nat]
    BY <2>1
  <2> HIDE DEF part, r
  <2> QED
    BY <1>1, <1>3, <2>1, <2>2, <2>3
<1> HIDE DEF part, r
<1>5. ASSUME NEW i \in 1 .. n PROVE Hop(f, m, part[i - 1], r[i], part[i])
  <2>1. i \in 1 .. Len(q) /\ i \in 0 .. n /\ i - 1 \in 0 .. n
    BY <1>2
  <2>2. part[i - 1] = p[i - 1] /\ part[i] = p[i] /\ r[i] = q[i]
    BY <1>2, <1>4, <2>1
  <2> QED
    BY <1>1, <2>1, <2>2
<1>6. \A i, j \in 0 .. n : i <= j => part[i] <= part[j]
  BY <1>1, <1>3, <1>4
<1>7. Run(f, m, r, v, p[n])
  BY <1>2, <1>4, <1>5, <1>6 DEF Run
<1>8. p[n] <= u
  <2>1. n \in 0 .. Len(q) /\ Len(q) \in 0 .. Len(q) /\ n <= Len(q)
    BY <1>2
  <2> QED
    BY <1>1, <2>1
<1> QED
  BY <1>4, <1>7, <1>8 DEF r

(* What a server has under way of block m for flow f, in its queue q to    *)
(* the proxy, its context and the queue r of its requests, is the pieces   *)
(* from v on.                                                              *)
Asks(msg, f) == msg.type = "download_block" /\ msg.flow_id = f
Asking(r, f) == \E i \in DOMAIN r : Asks(r[i], f)
LineOn(q, ctx, r, path, f, m, v) ==
  \E u \in Nat :
    /\ Run(f, m, q, v, u)
    /\ ctx # S!NoDownload => ctx = [md5 |-> m, index |-> u] /\ u < Pieces[m] /\ m \in path
    /\ \A i \in DOMAIN r : Asks(r[i], f) => r[i].md5 = m /\ u = 0
BusyOn(q, ctx, r, f) == HasPiece(q, f) \/ ctx # S!NoDownload \/ Asking(r, f)

(* Steps that add nothing to it. *)
NoNewPiece(f, q, ctx, q2, ctx2) ==
  \/ q2 = q /\ ctx2 \in {ctx, S!NoDownload}
  \/ ctx2 \in {ctx, S!NoDownload} /\ \E msg : ~S!PieceOf(msg, f) /\ q2 = Append(q, msg)
  \/ ctx2 = S!NoDownload /\ \E n \in 0 .. Len(q) : q2 = SubSeq(q, 1, n)
NoNewRequest(f, r, r2) ==
  \A i \in DOMAIN r2 : Asks(r2[i], f) => \E j \in DOMAIN r : r[j] = r2[i]

LEMMA PiecesIn ==
  ASSUME NEW f, NEW M, NEW q \in Seq(M)
  PROVE  /\ \A msg : HasPiece(Append(q, msg), f) => HasPiece(q, f) \/ S!PieceOf(msg, f)
         /\ \A n \in 0 .. Len(q) : HasPiece(SubSeq(q, 1, n), f) => HasPiece(q, f)
         /\ q # <<>> => (HasPiece(Tail(q), f) => HasPiece(q, f))
         /\ q # <<>> => (S!PieceOf(Head(q), f) => HasPiece(q, f))
<1>1. ASSUME NEW msg, HasPiece(Append(q, msg), f), ~S!PieceOf(msg, f) PROVE HasPiece(q, f)
  <2> DEFINE r == Append(q, msg)
  <2>1. /\ Len(q) \in Nat /\ DOMAIN r = 1 .. Len(q) + 1 /\ r[Len(q) + 1] = msg
        /\ \A i \in 1 .. Len(q) : r[i] = q[i] /\ i \in DOMAIN q
    OBVIOUS
  <2> HIDE DEF r
  <2>2. PICK i \in DOMAIN r : S!PieceOf(r[i], f)
    BY <1>1 DEF HasPiece, r
  <2>3. i \in 1 .. Len(q)
    BY <1>1, <2>1, <2>2
  <2> QED
    BY <2>1, <2>2, <2>3 DEF HasPiece
<1>2. ASSUME NEW n \in 0 .. Len(q), HasPiece(SubSeq(q, 1, n), f) PROVE HasPiece(q, f)
  <2> DEFINE r == SubSeq(q, 1, n)
  <2>1. \A i \in DOMAIN r : i \in DOMAIN q /\ r[i] = q[i]
    OBVIOUS
  <2> HIDE DEF r
  <2> QED
    BY <1>2, <2>1 DEF HasPiece, r
<1>3. ASSUME q # <<>> PROVE HasPiece(Tail(q), f) => HasPiece(q, f)
  <2> DEFINE r == Tail(q)
  <2>1. \A i \in DOMAIN r : i + 1 \in DOMAIN q /\ r[i] = q[i + 1]
    BY <1>3
  <2> HIDE DEF r
  <2> QED
    BY <2>1 DEF HasPiece, r
<1>4. ASSUME q # <<>> PROVE S!PieceOf(Head(q), f) => HasPiece(q, f)
  <2>1. 1 \in DOMAIN q /\ Head(q) = q[1]
    BY <1>4
  <2> QED
    BY <2>1 DEF HasPiece
<1> QED
  BY <1>1, <1>2, <1>3, <1>4

LEMMA RequestsIn ==
  ASSUME NEW f, NEW M, NEW r \in Seq(M)
  PROVE  /\ NoNewRequest(f, r, r) /\ NoNewRequest(f, r, <<>>)
         /\ \A msg : ~Asks(msg, f) => NoNewRequest(f, r, Append(r, msg))
         /\ \A n \in 0 .. Len(r) : NoNewRequest(f, r, SubSeq(r, 1, n))
         /\ r # <<>> => NoNewRequest(f, r, Tail(r))
<1>1. NoNewRequest(f, r, r) /\ NoNewRequest(f, r, <<>>)
  BY DEF NoNewRequest
<1>2. ASSUME NEW msg, ~Asks(msg, f) PROVE NoNewRequest(f, r, Append(r, msg))
  <2> DEFINE s == Append(r, msg)
  <2>1. \A i \in DOMAIN s : s[i] = msg \/ (i \in DOMAIN r /\ r[i] = s[i])
    OBVIOUS
  <2> HIDE DEF s
  <2>2. NoNewRequest(f, r, s)
    BY <1>2, <2>1 DEF NoNewRequest
  <2> QED
    BY <2>2 DEF s
<1>3. ASSUME NEW n \in 0 .. Len(r) PROVE NoNewRequest(f, r, SubSeq(r, 1, n))
  <2> DEFINE s == SubSeq(r, 1, n)
  <2>1. \A i \in DOMAIN s : i \in DOMAIN r /\ r[i] = s[i]
    OBVIOUS
  <2> HIDE DEF s
  <2>2. NoNewRequest(f, r, s)
    BY <2>1 DEF NoNewRequest
  <2> QED
    BY <2>2 DEF s
<1>4. ASSUME r # <<>> PROVE NoNewRequest(f, r, Tail(r))
  <2> DEFINE s == Tail(r)
  <2>1. \A i \in DOMAIN s : i + 1 \in DOMAIN r /\ r[i + 1] = s[i]
    BY <1>4
  <2> HIDE DEF s
  <2>2. NoNewRequest(f, r, s)
    BY <2>1 DEF NoNewRequest
  <2> QED
    BY <2>2 DEF s
<1> QED
  BY <1>1, <1>2, <1>3, <1>4

LEMMA LineLess ==
  ASSUME NEW f, NEW m \in Md5s, NEW M, NEW q \in Seq(M), NEW ctx, NEW r, NEW path, NEW v,
         LineOn(q, ctx, r, path, f, m, v),
         NEW q2, NEW ctx2, NoNewPiece(f, q, ctx, q2, ctx2),
         NEW r2, NoNewRequest(f, r, r2), NEW path2, path \subseteq path2
  PROVE  LineOn(q2, ctx2, r2, path2, f, m, v)
<1>1. PICK u \in Nat :
        /\ Run(f, m, q, v, u)
        /\ ctx # S!NoDownload => ctx = [md5 |-> m, index |-> u] /\ u < Pieces[m] /\ m \in path
        /\ \A i \in DOMAIN r : Asks(r[i], f) => r[i].md5 = m /\ u = 0
  BY DEF LineOn
<1>2. ASSUME NEW w \in Nat, w <= u, Run(f, m, q2, v, w), ctx2 # S!NoDownload => ctx2 = ctx /\ w = u
      PROVE  LineOn(q2, ctx2, r2, path2, f, m, v)
  <2>1. ctx2 # S!NoDownload => ctx2 = [md5 |-> m, index |-> w] /\ w < Pieces[m] /\ m \in path2
    BY <1>1, <1>2
  <2>2. u = 0 => w = 0
    BY <1>2
  <2>3. \A i \in DOMAIN r2 : Asks(r2[i], f) => r2[i].md5 = m /\ w = 0
    BY <1>1, <2>2, Zenon DEF NoNewRequest
  <2> QED
    BY <1>2, <2>1, <2>3 DEF LineOn
<1>3. CASE q2 = q /\ ctx2 \in {ctx, S!NoDownload}
  BY <1>1, <1>2, <1>3
<1>4. ASSUME ctx2 \in {ctx, S!NoDownload}, NEW msg, ~S!PieceOf(msg, f), q2 = Append(q, msg)
      PROVE  LineOn(q2, ctx2, r2, path2, f, m, v)
  <2>1. Hop(f, m, u, msg, u)
    BY <1>4 DEF Hop
  <2>2. Run(f, m, q2, v, u)
    BY <1>1, <1>4, <2>1, RunAppend
  <2> QED
    BY <1>2, <1>4, <2>2
<1>5. ASSUME ctx2 = S!NoDownload, NEW n \in 0 .. Len(q), q2 = SubSeq(q, 1, n)
      PROVE  LineOn(q2, ctx2, r2, path2, f, m, v)
  <2>1. PICK w \in Nat : w <= u /\ Run(f, m, q2, v, w)
    BY <1>1, <1>5, RunPart
  <2> QED
    BY <1>2, <1>5, <2>1
<1> QED
  BY <1>3, <1>4, <1>5 DEF NoNewPiece

LEMMA BusyLess ==
  ASSUME NEW f, NEW M, NEW q \in Seq(M), NEW ctx, NEW r,
         NEW q2, NEW ctx2, NoNewPiece(f, q, ctx, q2, ctx2), NEW r2, NoNewRequest(f, r, r2),
         BusyOn(q2, ctx2, r2, f)
  PROVE  BusyOn(q, ctx, r, f)
<1>1. Asking(r2, f) => Asking(r, f)
  BY DEF Asking, NoNewRequest
<1>2. HasPiece(q2, f) => HasPiece(q, f)
  BY PiecesIn DEF NoNewPiece
<1>3. ctx2 # S!NoDownload => ctx # S!NoDownload
  BY DEF NoNewPiece
<1> QED
  BY <1>1, <1>2, <1>3 DEF BusyOn

LEMMA LineFree ==
  ASSUME NEW f, NEW m \in Md5s, NEW M, NEW q \in Seq(M), NEW ctx, NEW r, NEW path,
         NEW v \in Nat, ~BusyOn(q, ctx, r, f)
  PROVE  LineOn(q, ctx, r, path, f, m, v)
<1>1. Run(f, m, q, v, v)
  BY RunNone DEF BusyOn
<1> QED
  BY <1>1 DEF LineOn, BusyOn, Asking

LEMMA LineOver ==
  ASSUME NEW f, NEW m \in Md5s, NEW M, NEW q \in Seq(M), NEW ctx, NEW r, NEW path,
         LineOn(q, ctx, r, path, f, m, Pieces[m])
  PROVE  ~BusyOn(q, ctx, r, f)
<1>1. PICK u \in Nat :
        /\ Run(f, m, q, Pieces[m], u)
        /\ ctx # S!NoDownload => u < Pieces[m]
        /\ \A i \in DOMAIN r : Asks(r[i], f) => u = 0
  BY DEF LineOn
<1>2. Pieces[m] \in Nat \ {0} /\ Pieces[m] >= Pieces[m]
  BY PiecesAssumption
<1>3. Pieces[m] <= u /\ ~HasPiece(q, f)
  BY <1>1, <1>2, RunRises
<1>4. ctx = S!NoDownload /\ u # 0
  BY <1>1, <1>2, <1>3
<1> QED
  BY <1>1, <1>3, <1>4 DEF BusyOn, Asking

LEMMA LineAsked ==
  ASSUME NEW f, NEW m \in Md5s, NEW M, NEW q \in Seq(M), NEW ctx, NEW N, NEW r \in Seq(N),
         NEW path, ~BusyOn(q, ctx, r, f)
  PROVE  LineOn(q, ctx, Append(r, DownLoadBlock(m, f)), path, f, m, 0)
<1> DEFINE msg == DownLoadBlock(m, f)
           r2 == Append(r, msg)
<1>1. \A i \in DOMAIN r2 : r2[i] = msg \/ (i \in DOMAIN r /\ r2[i] = r[i])
  OBVIOUS
<1>2. Run(f, m, q, 0, 0)
  BY RunNone DEF BusyOn
<1>3. msg.md5 = m
  BY DEF DownLoadBlock
<1> HIDE DEF r2, msg
<1>4. \A i \in DOMAIN r2 : Asks(r2[i], f) => r2[i].md5 = m
  BY <1>1, <1>3 DEF BusyOn, Asking
<1>5. LineOn(q, ctx, r2, path, f, m, 0)
  BY <1>2, <1>4 DEF LineOn, BusyOn
<1> QED
  BY <1>5 DEF r2, msg

LEMMA LineTail ==
  ASSUME NEW f, NEW m \in Md5s, NEW M, NEW q \in Seq(M), q # <<>>, NEW ctx, NEW r, NEW path,
         NEW v, LineOn(q, ctx, r, path, f, m, v)
  PROVE  /\ ~S!PieceOf(Head(q), f) => LineOn(Tail(q), ctx, r, path, f, m, v)
         /\ S!PieceOf(Head(q), f) =>
              /\ v \in Nat /\ Head(q) = ThePiece(f, m, v) /\ v < Pieces[m]
              /\ LineOn(Tail(q), ctx, r, path, f, m, v + 1)
<1>1. PICK u \in Nat :
        /\ Run(f, m, q, v, u)
        /\ ctx # S!NoDownload => ctx = [md5 |-> m, index |-> u] /\ u < Pieces[m] /\ m \in path
        /\ \A i \in DOMAIN r : Asks(r[i], f) => r[i].md5 = m /\ u = 0
  BY DEF LineOn
<1>2. PICK w \in Nat : Hop(f, m, v, Head(q), w) /\ Run(f, m, Tail(q), w, u)
  BY <1>1, RunTail
<1>3. v \in Nat
  BY <1>1, RunRises
<1>4. LineOn(Tail(q), ctx, r, path, f, m, w)
  BY <1>1, <1>2 DEF LineOn
<1> QED
  BY <1>2, <1>3, <1>4 DEF Hop

LEMMA LinePump ==
  ASSUME NEW f, NEW m \in Md5s, NEW M, NEW q \in Seq(M), NEW ctx, NEW r, NEW path, NEW v,
         LineOn(q, ctx, r, path, f, m, v), ctx # S!NoDownload, ~Asking(r, f)
  PROVE  /\ ctx.md5 = m /\ m \in path /\ ctx.index \in Nat /\ ctx.index < Pieces[m]
         /\ LineOn(Append(q, ThePiece(f, m, ctx.index)),
                   S!Advanced(ctx, ctx.index + 1 = Pieces[m]), r, path, f, m, v)
<1>1. PICK u \in Nat :
        /\ Run(f, m, q, v, u)
        /\ ctx = [md5 |-> m, index |-> u] /\ u < Pieces[m] /\ m \in path
  BY DEF LineOn
<1> DEFINE msg == ThePiece(f, m, u)
           ctx2 == S!Advanced(ctx, u + 1 = Pieces[m])
<1>2. ctx.md5 = m /\ ctx.index = u
  BY <1>1
<1>3. Hop(f, m, u, msg, u + 1) /\ u + 1 \in Nat
  <2>1. S!PieceOf(msg, f)
    BY ThePieceIs
  <2>2. u + 1 \in Nat
    OBVIOUS
  <2> HIDE DEF msg
  <2>3. msg = ThePiece(f, m, u)
    BY DEF msg
  <2> QED
    BY <1>1, <2>1, <2>2, <2>3 DEF Hop
<1>4. Run(f, m, Append(q, msg), v, u + 1)
  BY <1>1, <1>3, RunAppend
<1>5. Pieces[m] \in Nat
  BY PiecesAssumption
<1>6. ctx2 # S!NoDownload =>
        ctx2 = [md5 |-> m, index |-> u + 1] /\ u + 1 < Pieces[m] /\ m \in path
  BY <1>1, <1>2, <1>5 DEF S!Advanced
<1> HIDE DEF msg, ctx2
<1>7. LineOn(Append(q, msg), ctx2, r, path, f, m, v)
  BY <1>3, <1>4, <1>6 DEF LineOn, Asking
<1> QED
  BY <1>1, <1>2, <1>7 DEF msg, ctx2

(* A request that is served: it was the only one. *)
LEMMA LineServed ==
  ASSUME NEW f, NEW m \in Md5s, NEW M, NEW q \in Seq(M), NEW ctx, NEW r, NEW path, NEW v,
         LineOn(q, ctx, r, path, f, m, v), NEW i \in DOMAIN r, Asks(r[i], f),
         r[i].md5 \in path, NEW r2, ~Asking(r2, f)
  PROVE  LineOn(q, [md5 |-> r[i].md5, index |-> 0], r2, path, f, m, v)
<1>1. Run(f, m, q, v, 0) /\ r[i].md5 = m
  BY DEF LineOn
<1>2. 0 < Pieces[m]
  BY PiecesAssumption
<1> QED
  BY <1>1, <1>2 DEF LineOn, Asking

----------------------------------------------------------------------------
(* The servers' steps: what is under way is carried on.                    *)

Line(s, f, m, v) ==
  LineOn(toProxy[s], downloadingContext[s][f], toStorage[s], md5_path[s], f, m, v)
Busy(s, f) == BusyOn(toProxy[s], downloadingContext[s][f], toStorage[s], f)

LineKept(s, f) ==
  /\ Busy(s, f)' => Busy(s, f)
  /\ \A m \in Md5s, v \in Nat : Line(s, f, m, v) => Line(s, f, m, v)'
LinesKept(f) ==
  \A s \in Servers : s \in P!Connected' =>
    ~Busy(s, f)' \/ (s \in P!Connected /\ LineKept(s, f))

(* A process that is down has no transfer under way. *)
DownIdle ==
  \A s \in Servers, f \in Flows : ~Running(s) => downloadingContext[s][f] = S!NoDownload

LEMMA StayLess ==
  ASSUME S!TypeOK, NEW s \in Servers, NEW f \in Flows,
         NoNewPiece(f, toProxy[s], downloadingContext[s][f],
                    toProxy'[s], downloadingContext'[s][f]),
         NoNewRequest(f, toStorage[s], toStorage'[s]), md5_path[s] \subseteq md5_path'[s]
  PROVE  LineKept(s, f)
<1>1. toProxy[s] \in Seq(S!StorageMessage)
  BY DEF S!TypeOK
<1>2. Busy(s, f)' => Busy(s, f)
  BY <1>1, BusyLess DEF Busy
<1>3. ASSUME NEW m \in Md5s, NEW v \in Nat, Line(s, f, m, v) PROVE Line(s, f, m, v)'
  BY <1>1, <1>3, LineLess DEF Line
<1> QED
  BY <1>2, <1>3 DEF LineKept

(* A server that pumps: the contexts may be new, the files are whole. *)
LEMMA Pumped ==
  ASSUME S!TypeOK, NEW s \in Servers, NEW ctxs \in [Flows -> S!DownloadContext], NEW refs,
         S!SendSomeMd5PieceToProxy(s, ctxs, refs), NEW f \in Flows
  PROVE  \/ /\ downloadingContext'[s][f] = ctxs[f]
            /\ \E msg : ~S!PieceOf(msg, f) /\ toProxy'[s] = Append(toProxy[s], msg)
         \/ /\ ctxs[f] # S!NoDownload
            /\ (ctxs[f].index < file[s][ctxs[f].md5]
                /\ file[s][ctxs[f].md5] = Pieces[ctxs[f].md5]) =>
                 /\ toProxy'[s] = Append(toProxy[s], ThePiece(f, ctxs[f].md5, ctxs[f].index))
                 /\ downloadingContext'[s][f]
                      = S!Advanced(ctxs[f], ctxs[f].index + 1 = Pieces[ctxs[f].md5])
<1>1. PICK g \in Flows :
        LET m == ctxs[g].md5
            i == ctxs[g].index
            eof == i + 1 >= file[s][m]
            content == IF i < file[s][m] THEN <<m, i>> ELSE S!AlteredContent IN
        /\ S!FirstFlow(ctxs, g)
        /\ S!Send(s, S!TransferBlock(m, i, eof, g, content))
        /\ downloadingContext' = [downloadingContext EXCEPT
             ![s] = [ctxs EXCEPT ![g] = S!Advanced(ctxs[g], eof)]]
  BY DEF S!SendSomeMd5PieceToProxy
<1> DEFINE m == ctxs[g].md5
           i == ctxs[g].index
           eof == i + 1 >= file[s][m]
           content == IF i < file[s][m] THEN <<m, i>> ELSE S!AlteredContent
           msg == S!TransferBlock(m, i, eof, g, content)
<1>2. toProxy'[s] = Append(toProxy[s], msg)
  BY <1>1 DEF S!Send, S!TypeOK
<1>3. downloadingContext'[s][f] = IF f = g THEN S!Advanced(ctxs[g], eof) ELSE ctxs[f]
  BY <1>1 DEF S!TypeOK
<1>4. ctxs[g] # S!NoDownload
  BY <1>1 DEF S!FirstFlow, S!Downloading
<1>5. msg.flow_id = g
  BY DEF S!TransferBlock
<1>6. CASE f # g
  <2>1. ~S!PieceOf(msg, f)
    BY <1>5, <1>6 DEF S!PieceOf
  <2> HIDE DEF msg
  <2> QED
    BY <1>2, <1>3, <1>6, <2>1
<1>7. CASE f = g
  <2>1. ASSUME i < file[s][m], file[s][m] = Pieces[m]
        PROVE  /\ msg = ThePiece(f, m, i)
               /\ S!Advanced(ctxs[g], eof) = S!Advanced(ctxs[g], i + 1 = Pieces[m])
    <3>1. i \in Nat /\ m \in Md5s
      BY <1>4 DEF S!DownloadContext
    <3>2. Pieces[m] \in Nat
      BY <3>1, PiecesAssumption
    <3>3. eof = (i + 1 = Pieces[m]) /\ content = <<m, i>>
      BY <2>1, <3>1, <3>2
    <3> HIDE DEF eof, content, i, m
    <3> QED
      BY <1>7, <3>3 DEF ThePiece, TransferBlock, S!TransferBlock
  <2> HIDE DEF msg, eof, content
  <2> QED
    BY <1>2, <1>3, <1>4, <1>7, <2>1
<1> QED
  BY <1>6, <1>7, SMTT(60)

LEMMA PumpKeepsLine ==
  ASSUME S!TypeOK, NEW s \in Servers, NEW ctxs \in [Flows -> S!DownloadContext], NEW refs,
         S!SendSomeMd5PieceToProxy(s, ctxs, refs), NEW f \in Flows, NEW r, NEW path,
         ctxs[f] # S!NoDownload => ~Asking(r, f),
         \A m \in Md5s : m \in path => file[s][m] = Pieces[m]
  PROVE  /\ BusyOn(toProxy'[s], downloadingContext'[s][f], r, f)
               => BusyOn(toProxy[s], ctxs[f], r, f)
         /\ \A m \in Md5s, v \in Nat :
              LineOn(toProxy[s], ctxs[f], r, path, f, m, v)
                => LineOn(toProxy'[s], downloadingContext'[s][f], r, path, f, m, v)
<1> DEFINE q == toProxy[s]
           q2 == toProxy'[s]
           ctx == ctxs[f]
           ctx2 == downloadingContext'[s][f]
<1>1. q \in Seq(S!StorageMessage)
  BY DEF S!TypeOK
<1>2. NoNewRequest(f, r, r)
  BY DEF NoNewRequest
<1>3. CASE ctx2 = ctx /\ \E msg : ~S!PieceOf(msg, f) /\ q2 = Append(q, msg)
  <2>1. NoNewPiece(f, q, ctx, q2, ctx2)
    BY <1>3 DEF NoNewPiece
  <2> HIDE DEF q, q2, ctx, ctx2
  <2>2. BusyOn(q2, ctx2, r, f) => BusyOn(q, ctx, r, f)
    BY <1>1, <1>2, <2>1, BusyLess
  <2>3. \A m \in Md5s, v \in Nat : LineOn(q, ctx, r, path, f, m, v)
                                     => LineOn(q2, ctx2, r, path, f, m, v)
    BY <1>1, <1>2, <2>1, LineLess
  <2> QED
    BY <2>2, <2>3 DEF q, q2, ctx, ctx2
<1>4. CASE ctx # S!NoDownload
           /\ (ctx.index < file[s][ctx.md5] /\ file[s][ctx.md5] = Pieces[ctx.md5] =>
                 /\ q2 = Append(q, ThePiece(f, ctx.md5, ctx.index))
                 /\ ctx2 = S!Advanced(ctx, ctx.index + 1 = Pieces[ctx.md5]))
  <2>1. BusyOn(q, ctx, r, f)
    BY <1>4 DEF BusyOn
  <2>2. ASSUME NEW m \in Md5s, NEW v \in Nat, LineOn(q, ctx, r, path, f, m, v)
        PROVE  LineOn(q2, ctx2, r, path, f, m, v)
    <3> HIDE DEF q, q2, ctx, ctx2
    <3>1. ctx # S!NoDownload /\ ~Asking(r, f)
      BY <1>4 DEF ctx
    <3>2. /\ ctx.md5 = m /\ m \in path /\ ctx.index \in Nat /\ ctx.index < Pieces[m]
          /\ LineOn(Append(q, ThePiece(f, m, ctx.index)),
                    S!Advanced(ctx, ctx.index + 1 = Pieces[m]), r, path, f, m, v)
      BY <1>1, <2>2, <3>1, LinePump
    <3>3. ctx.index < file[s][ctx.md5] /\ file[s][ctx.md5] = Pieces[ctx.md5]
      BY <3>2
    <3>4. /\ q2 = Append(q, ThePiece(f, m, ctx.index))
          /\ ctx2 = S!Advanced(ctx, ctx.index + 1 = Pieces[m])
      BY <1>4, <3>2, <3>3
    <3> QED
      BY <3>2, <3>4
  <2> QED
    BY <2>1, <2>2
<1> QED
  BY <1>3, <1>4, Pumped

(* What a server says otherwise is no piece. *)
LEMMA SaysNoPiece ==
  ASSUME S!TypeOK, NEW s \in Servers, NEW f, NEW ctx,
         \/ UNCHANGED toProxy
         \/ \E m : S!Send(s, S!UploadBlockAck(m)) \/ S!Send(s, S!UploadBlockFail(m))
         \/ \E left : S!SendSomeMd5sToProxy(s, left)
  PROVE  NoNewPiece(f, toProxy[s], ctx, toProxy'[s], ctx)
<1>1. ASSUME NEW msg, S!Send(s, msg), msg.type # "transfer_block"
      PROVE  NoNewPiece(f, toProxy[s], ctx, toProxy'[s], ctx)
  <2>1. toProxy'[s] = Append(toProxy[s], msg)
    BY <1>1 DEF S!Send, S!TypeOK
  <2>2. ~S!PieceOf(msg, f)
    BY <1>1 DEF S!PieceOf
  <2> QED
    BY <2>1, <2>2 DEF NoNewPiece
<1>2. /\ \A m : S!UploadBlockAck(m).type = "upload_block_ack"
      /\ \A m : S!UploadBlockFail(m).type = "upload_block_fail"
      /\ \A md5s, eof : S!TransferBlockSet(md5s, eof).type = "transfer_block_set"
  BY DEF S!UploadBlockAck, S!UploadBlockFail, S!TransferBlockSet
<1>3. CASE UNCHANGED toProxy
  BY <1>3 DEF NoNewPiece
<1>4. ASSUME NEW m, S!Send(s, S!UploadBlockAck(m)) \/ S!Send(s, S!UploadBlockFail(m))
      PROVE  NoNewPiece(f, toProxy[s], ctx, toProxy'[s], ctx)
  BY <1>1, <1>2, <1>4
<1>5. ASSUME NEW left, S!SendSomeMd5sToProxy(s, left)
      PROVE  NoNewPiece(f, toProxy[s], ctx, toProxy'[s], ctx)
  <2>1. PICK chunk : S!Send(s, S!TransferBlockSet(chunk, chunk = left))
    BY <1>5 DEF S!SendSomeMd5sToProxy
  <2> QED
    BY <1>1, <1>2, <2>1
<1> QED
  BY <1>3, <1>4, <1>5

LEMMA ExitNoPiece ==
  ASSUME S!TypeOK, NEW s \in Servers, S!Exit(s, toProxy[s]), NEW f \in Flows
  PROVE  NoNewPiece(f, toProxy[s], downloadingContext[s][f],
                    toProxy'[s], downloadingContext'[s][f])
<1>1. downloadingContext'[s][f] = S!NoDownload
  BY DEF S!Exit, S!TypeOK
<1>2. \E n \in 0 .. Len(toProxy[s]) : toProxy'[s] = SubSeq(toProxy[s], 1, n)
  BY DEF S!Exit, S!TypeOK
<1> QED
  BY <1>1, <1>2 DEF NoNewPiece

(* A request served: the flow's context, then the pump.                    *)
LEMMA ServedLine ==
  ASSUME AskSystem, P!TypeOK, S!TypeOK, MayTear = FALSE, NEW s \in Servers,
         toStorage[s] # <<>>, NEW msg, msg = Head(toStorage[s]), msg.type = "download_block",
         S!OnDownLoadBlock(s, msg), toStorage'[s] = Tail(toStorage[s]), NEW f \in Flows
  PROVE  LineKept(s, f)
<1> DEFINE ctxs == [downloadingContext[s] EXCEPT ![msg.flow_id] = [md5 |-> msg.md5, index |-> 0]]
           refs == [downloadingMd5s[s] EXCEPT ![msg.md5] = @ + 1]
           r == toStorage[s]
           r2 == toStorage'[s]
           path == md5_path[s]
<1>1. r \in Seq(P!ToStorageMessage) /\ msg \in P!ToStorageMessage
  BY DEF P!TypeOK
<1>2. msg.md5 \in Md5s /\ msg.flow_id \in Flows
  BY <1>1 DEF P!ToStorageMessage, P!UploadBlockMessage, P!DownLoadBlockMessage,
              P!ClientCleanMessage
<1>3. S!SendSomeMd5PieceToProxy(s, ctxs, refs) /\ path = md5_path'[s]
  BY DEF S!OnDownLoadBlock, S!disk
<1>4. ctxs \in [Flows -> S!DownloadContext]
  <2>1. downloadingContext[s] \in [Flows -> S!DownloadContext]
    BY DEF S!TypeOK
  <2>2. [md5 |-> msg.md5, index |-> 0] \in S!DownloadContext
    BY <1>2 DEF S!DownloadContext
  <2> QED
    BY <1>2, <2>1, <2>2
<1>5. \A m \in Md5s : m \in path => file[s][m] = Pieces[m]
  BY DEF AskSystem, Disks, DiskOf
<1>6. /\ 1 \in DOMAIN r /\ r[1] = msg
      /\ \A i \in DOMAIN r2 : i + 1 \in DOMAIN r /\ r2[i] = r[i + 1] /\ 1 \in 1 .. (i + 1) - 1
  BY <1>1
<1>7. /\ msg.md5 \in path
      /\ \A i \in DOMAIN r : r[i].type = "download_block" =>
           /\ downloadingContext[s][r[i].flow_id] = S!NoDownload
           /\ \A j \in 1 .. i - 1 : r[j].type = "download_block" => r[j].flow_id # r[i].flow_id
  BY <1>6, AskedInTurn DEF RequestsInTurn
<1>8. ~Asking(r2, msg.flow_id)
  <2> SUFFICES ASSUME NEW i \in DOMAIN r2, Asks(r2[i], msg.flow_id) PROVE FALSE
    BY DEF Asking
  <2>1. Asks(r[i + 1], msg.flow_id) /\ i + 1 \in DOMAIN r /\ 1 \in 1 .. (i + 1) - 1
    BY <1>6
  <2> QED
    BY <1>6, <1>7, <2>1 DEF Asks
<1>9. NoNewRequest(f, r, r2)
  BY <1>1, RequestsIn
<1>10. toProxy[s] \in Seq(S!StorageMessage)
  BY DEF S!TypeOK
<1>11. ctxs[f] = IF f = msg.flow_id THEN [md5 |-> msg.md5, index |-> 0]
                 ELSE downloadingContext[s][f]
  BY DEF S!TypeOK
<1> DEFINE q == toProxy[s]
           ctx == downloadingContext[s][f]
<1> HIDE DEF ctxs, refs, r, r2, path, q, ctx
<1>12. Asks(r[1], msg.flow_id)
  BY <1>6 DEF Asks
<1>13. ctxs[f] # S!NoDownload => ~Asking(r2, f)
  <2>1. CASE f = msg.flow_id
    BY <1>8, <2>1
  <2>2. CASE f # msg.flow_id
    <3>1. ctxs[f] # S!NoDownload => ~Asking(r, f)
      BY <1>7, <1>11, <2>2 DEF Asking, Asks
    <3> QED
      BY <1>9, <3>1 DEF NoNewRequest, Asking
  <2> QED
    BY <2>1, <2>2
<1>14. /\ BusyOn(toProxy'[s], downloadingContext'[s][f], r2, f) => BusyOn(q, ctxs[f], r2, f)
       /\ \A m \in Md5s, v \in Nat :
            LineOn(q, ctxs[f], r2, path, f, m, v)
              => LineOn(toProxy'[s], downloadingContext'[s][f], r2, path, f, m, v)
  BY <1>3, <1>4, <1>5, <1>13, PumpKeepsLine DEF q
<1>15. /\ BusyOn(q, ctxs[f], r2, f) => BusyOn(q, ctx, r, f)
       /\ \A m \in Md5s, v \in Nat :
            LineOn(q, ctx, r, path, f, m, v) => LineOn(q, ctxs[f], r2, path, f, m, v)
  <2>1. CASE f = msg.flow_id
    <3>1. BusyOn(q, ctx, r, f)
      BY <1>6, <1>12, <2>1 DEF BusyOn, Asking
    <3>2. ASSUME NEW m \in Md5s, NEW v \in Nat, LineOn(q, ctx, r, path, f, m, v)
          PROVE  LineOn(q, ctxs[f], r2, path, f, m, v)
      <4>1. LineOn(q, [md5 |-> r[1].md5, index |-> 0], r2, path, f, m, v)
        BY <1>6, <1>7, <1>8, <1>10, <1>12, <2>1, <3>2, LineServed DEF q
      <4> QED
        BY <1>6, <1>11, <2>1, <4>1
    <3> QED
      BY <3>1, <3>2
  <2>2. CASE f # msg.flow_id
    <3>1. ctxs[f] = ctx
      BY <1>11, <2>2 DEF ctx
    <3>2. NoNewPiece(f, q, ctx, q, ctx)
      BY DEF NoNewPiece
    <3> QED
      BY <1>9, <1>10, <3>1, <3>2, LineLess, BusyLess DEF q
  <2> QED
    BY <2>1, <2>2
<1> QED
  BY <1>3, <1>14, <1>15 DEF LineKept, Line, Busy, q, ctx, r, r2, path

LEMMA ServerLine ==
  ASSUME AskSystem, DownIdle, MayTear = FALSE, [Next]_vars, NEW s \in Servers, StorageMoves(s),
         ~ProxyStorageStep(s), NEW f \in Flows, s \in P!Connected'
  PROVE  ~Busy(s, f)' \/ (s \in P!Connected /\ LineKept(s, f))
<1>1. P!TypeOK /\ S!TypeOK
  BY SystemTypes DEF AskSystem
<1>2. md5_path[s] \subseteq md5_path'[s]
  BY <1>1, PathsGrow
<1>3. toStorage[s] \in Seq(P!ToStorageMessage) /\ toProxy[s] \in Seq(S!StorageMessage)
  BY <1>1 DEF P!TypeOK, S!TypeOK
<1>4. CASE ServerConnects(s)
  <2>1. /\ toStorage'[s] = <<>> /\ UNCHANGED downloadingContext /\ ~Running(s)
        /\ toProxy[s] = <<>> /\ S!SendSomeMd5sToProxy(s, md5_path[s])
    BY <1>1, <1>4 DEF ServerConnects, P!StorageOnConnection, S!OnConnection, P!TypeOK, Running
  <2>2. NoNewPiece(f, toProxy[s], S!NoDownload, toProxy'[s], S!NoDownload)
    BY <1>1, <2>1, SaysNoPiece
  <2>3. NoNewRequest(f, <<>>, <<>>)
    BY DEF NoNewRequest
  <2>4. ~BusyOn(<<>>, S!NoDownload, <<>>, f)
    BY DEF BusyOn, HasPiece, Asking
  <2>5. ~BusyOn(toProxy'[s], S!NoDownload, <<>>, f)
    BY <1>3, <2>1, <2>2, <2>3, <2>4, BusyLess
  <2>6. downloadingContext'[s][f] = S!NoDownload
    BY <2>1 DEF DownIdle
  <2> QED
    BY <2>1, <2>5, <2>6 DEF Busy
<1>5. ASSUME ~ServerConnects(s) PROVE s \in P!Connected
  <2>1. UNCHANGED storageState
    BY <1>5 DEF StorageMoves, StorageStep, StorageReads, StorageWrote, StorageLosesProxy,
                StorageDies, proxy
  <2> QED
    BY <2>1 DEF P!Connected
<1>6. NoNewRequest(f, toStorage[s], toStorage[s]) /\
      (toStorage[s] # <<>> => NoNewRequest(f, toStorage[s], Tail(toStorage[s])))
  BY <1>3, RequestsIn
<1>7. ASSUME S!Exit(s, toProxy[s]), NoNewRequest(f, toStorage[s], toStorage'[s])
      PROVE  LineKept(s, f)
  BY <1>1, <1>2, <1>7, ExitNoPiece, StayLess
<1>8. CASE StorageDies(s)
  <2>1. S!Exit(s, toProxy[s]) /\ toStorage'[s] = toStorage[s]
    BY <1>8 DEF StorageDies, S!Crash, S!CrashWhileStoring
  <2>2. ~ServerConnects(s)
    BY <1>8 DEF StorageDies, ServerConnects, S!Crash, S!CrashWhileStoring, S!OnConnection
  <2> QED
    BY <1>5, <1>6, <1>7, <2>1, <2>2
<1>9. CASE StorageLosesProxy(s)
  <2>1. toProxy'[s] = <<>> /\ toStorage'[s] = toStorage[s] /\ ~ServerConnects(s)
    BY <1>9 DEF StorageLosesProxy, ServerConnects, S!OnClose, S!OnConnection
  <2>2. \E sent : S!Exit(s, sent)
    BY <1>9 DEF StorageLosesProxy, S!OnClose
  <2>3. downloadingContext'[s][f] = S!NoDownload
    BY <1>1, <2>2 DEF S!Exit, S!TypeOK
  <2>4. 0 \in 0 .. Len(toProxy[s]) /\ SubSeq(toProxy[s], 1, 0) = <<>>
    BY <1>3
  <2>5. NoNewPiece(f, toProxy[s], downloadingContext[s][f],
                   toProxy'[s], downloadingContext'[s][f])
    BY <2>1, <2>3, <2>4 DEF NoNewPiece
  <2> QED
    BY <1>1, <1>2, <1>5, <1>6, <2>1, <2>5, StayLess
<1>10. CASE StorageWrote(s)
  <2>1. toStorage'[s] = toStorage[s] /\ S!OnWriteComplete(s) /\ ~ServerConnects(s)
    BY <1>10 DEF StorageWrote, ServerConnects, S!OnConnection, S!OnWriteComplete
  <2>2. CASE UNCHANGED downloadingContext
             /\ (UNCHANGED toProxy \/ \E left : S!SendSomeMd5sToProxy(s, left))
    <3>1. NoNewPiece(f, toProxy[s], downloadingContext[s][f], toProxy'[s], downloadingContext[s][f])
      BY <1>1, <2>2, SaysNoPiece
    <3> QED
      BY <1>1, <1>2, <1>5, <1>6, <2>1, <2>2, <3>1, StayLess
  <2>3. CASE S!SendSomeMd5PieceToProxy(s, downloadingContext[s], downloadingMd5s[s])
             /\ UNCHANGED md5_path
    <3>1. downloadingContext[s] \in [Flows -> S!DownloadContext]
      BY <1>1 DEF S!TypeOK
    <3>2. \A m \in Md5s : m \in md5_path[s] => file[s][m] = Pieces[m]
      BY DEF AskSystem, Disks, DiskOf
    <3>3. downloadingContext[s][f] # S!NoDownload => ~Asking(toStorage[s], f)
      BY AskedInTurn DEF RequestsInTurn, Asking, Asks
    <3>4. LineKept(s, f)
      BY <1>1, <2>1, <2>3, <3>1, <3>2, <3>3, PumpKeepsLine DEF LineKept, Line, Busy
    <3> QED
      BY <1>5, <2>1, <3>4
  <2> QED
    BY <2>1, <2>2, <2>3 DEF S!OnWriteComplete, S!memory, S!disk
<1>11. CASE StorageReads(s)
  <2> DEFINE msg == Head(toStorage[s])
  <2>1. /\ toStorage[s] # <<>> /\ StorageHandles(s, msg) /\ toStorage'[s] = Tail(toStorage[s])
        /\ UNCHANGED storageState
    BY <1>1, <1>11 DEF StorageReads, P!TypeOK, proxy
  <2>2. s \in P!Connected
    BY <2>1 DEF P!Connected
  <2> HIDE DEF msg
  <2>3. CASE S!OnUploadBlock(s, msg)
    <3>1. UNCHANGED downloadingContext
      BY <2>3 DEF S!OnUploadBlock, S!ReceivePiece, S!RejectBlock, S!StoreBlock
    <3>2. \/ UNCHANGED toProxy
          \/ \E m : S!Send(s, S!UploadBlockAck(m)) \/ S!Send(s, S!UploadBlockFail(m))
      BY <2>3 DEF S!OnUploadBlock, S!ReceivePiece, S!RejectBlock, S!StoreBlock
    <3>3. NoNewPiece(f, toProxy[s], downloadingContext[s][f], toProxy'[s], downloadingContext[s][f])
      BY <1>1, <3>2, SaysNoPiece
    <3> QED
      BY <1>1, <1>2, <1>6, <2>1, <2>2, <3>1, <3>3, StayLess
  <2>4. CASE S!OnClientClean(s, msg)
    <3>1. downloadingContext'[s][f] \in {downloadingContext[s][f], S!NoDownload}
      BY <1>1, <2>4 DEF S!OnClientClean, S!Cleaned, S!TypeOK
    <3>2. UNCHANGED toProxy
      BY <2>4 DEF S!OnClientClean
    <3>3. NoNewPiece(f, toProxy[s], downloadingContext[s][f],
                     toProxy'[s], downloadingContext'[s][f])
      BY <3>1, <3>2 DEF NoNewPiece
    <3> QED
      BY <1>1, <1>2, <1>6, <2>1, <2>2, <3>3, StayLess
  <2>5. CASE S!ExitOnDownLoadBlock(s, msg)
    BY <1>6, <1>7, <2>1, <2>2, <2>5 DEF S!ExitOnDownLoadBlock
  <2>6. CASE msg.type = "download_block" /\ S!OnDownLoadBlock(s, msg)
    <3>1. LineKept(s, f)
      BY <1>1, <2>1, <2>6, ServedLine DEF msg
    <3> QED
      BY <2>2, <3>1
  <2> QED
    BY <2>1, <2>3, <2>4, <2>5, <2>6 DEF StorageHandles
<1> QED
  BY <1>4, <1>8, <1>9, <1>10, <1>11 DEF StorageMoves, StorageStep

LEMMA DownIdleMoves ==
  ASSUME P!TypeOK, S!TypeOK, DownIdle, NEW s \in Servers, StorageMoves(s), NEW f \in Flows,
         ~Running(s)'
  PROVE  downloadingContext'[s][f] = S!NoDownload
<1>1. ASSUME NEW sent, S!Exit(s, sent) PROVE downloadingContext'[s][f] = S!NoDownload
  BY <1>1 DEF S!Exit, S!TypeOK
<1>2. ASSUME Running(s), UNCHANGED sState PROVE FALSE
  BY <1>2 DEF Running
<1>3. ASSUME NEW left, S!SendSomeMd5sToProxy(s, left) PROVE FALSE
  <2>1. sState'[s] # "down"
    BY <1>3 DEF S!SendSomeMd5sToProxy, S!TypeOK
  <2> QED
    BY <2>1 DEF Running
<1>4. CASE ServerConnects(s)
  BY <1>3, <1>4 DEF ServerConnects, S!OnConnection
<1>5. CASE StorageReads(s)
  BY <1>1, <1>2, <1>5 DEF StorageReads, StorageHandles, S!OnUploadBlock, S!ReceivePiece,
     S!RejectBlock, S!StoreBlock, S!OnDownLoadBlock, S!ExitOnDownLoadBlock, S!OnClientClean,
     Running
<1>6. CASE StorageWrote(s)
  BY <1>2, <1>3, <1>6, SMTT(60) DEF StorageWrote, S!OnWriteComplete, S!memory, Running
<1>7. CASE StorageLosesProxy(s) \/ StorageDies(s)
  BY <1>1, <1>7 DEF StorageLosesProxy, S!OnClose, StorageDies, S!Crash, S!CrashWhileStoring
<1>8. CASE ProxyStorageStep(s)
  BY <1>8 DEF ProxyStorageStep, ProxyReadsStorage, ProxyLosesStorage, servers, DownIdle, Running
<1> QED
  BY <1>4, <1>5, <1>6, <1>7, <1>8 DEF StorageMoves, StorageStep

LEMMA DownIdleNext ==
  ASSUME P!TypeOK, S!TypeOK, DownIdle, [Next]_vars PROVE DownIdle'
<1>1. ASSUME UNCHANGED <<sState, downloadingContext>> PROVE DownIdle'
  BY <1>1 DEF DownIdle, Running
<1>2. ASSUME NEW s \in Servers, StorageMoves(s), NEW t \in Servers, NEW f \in Flows, ~Running(t)'
      PROVE  downloadingContext'[t][f] = S!NoDownload
  <2>1. CASE t = s
    BY <1>2, <2>1, DownIdleMoves
  <2>2. CASE t # s
    <3>1. downloadingContext'[t] = downloadingContext[t] /\ sState'[t] = sState[t]
      BY <1>2, <2>2, OtherDownloads, OtherServers DEF SameServer
    <3> QED
      BY <1>2, <3>1 DEF DownIdle, Running
  <2> QED
    BY <2>1, <2>2
<1>3. ASSUME NEW s \in Servers, StorageMoves(s) PROVE DownIdle'
  BY <1>2, <1>3 DEF DownIdle
<1>4. ASSUME NEW f \in Flows, ClientSideStep(f) PROVE DownIdle'
  BY <1>1, <1>4, ClientSideServers DEF servers
<1>5. CASE UNCHANGED vars
  BY <1>1, <1>5 DEF vars, servers
<1> QED
  BY <1>3, <1>4, <1>5, StepKinds

----------------------------------------------------------------------------
(* The steps that ask for nothing more of flow f, and read no piece of it. *)

NoneComing(f) == \A s \in P!Connected : ~Busy(s, f)
Coming(f, m, v) ==
  /\ \A s \in P!Connected : Line(s, f, m, v)
  /\ \A s, t \in P!Connected : Busy(s, f) /\ Busy(t, f) => s = t

LEMMA LineStaysFree ==
  ASSUME S!TypeOK, NEW s \in Servers, NEW f \in Flows, ~Busy(s, f), NEW m \in Md5s, NEW v \in Nat
  PROVE  Line(s, f, m, v)
<1>1. toProxy[s] \in Seq(S!StorageMessage)
  BY DEF S!TypeOK
<1> QED
  BY <1>1, LineFree DEF Line, Busy

LEMMA LineFreeNext ==
  ASSUME S!TypeOK', NEW s \in Servers, NEW f \in Flows, ~Busy(s, f)', NEW m \in Md5s,
         NEW v \in Nat
  PROVE  Line(s, f, m, v)'
<1>1. toProxy'[s] \in Seq(S!StorageMessage)
  BY DEF S!TypeOK
<1>2. ~BusyOn(toProxy'[s], downloadingContext'[s][f], toStorage'[s], f)
  BY DEF Busy
<1>3. LineOn(toProxy'[s], downloadingContext'[s][f], toStorage'[s], md5_path'[s], f, m, v)
  BY <1>1, <1>2, LineFree
<1> QED
  BY <1>3 DEF Line

LEMMA ComingKept ==
  ASSUME S!TypeOK', NEW f \in Flows, LinesKept(f)
  PROVE  /\ NoneComing(f) => NoneComing(f)'
         /\ \A m \in Md5s, v \in Nat : Coming(f, m, v) => Coming(f, m, v)'
<1>1. ASSUME NEW s \in P!Connected' PROVE s \in Servers
  BY <1>1 DEF P!Connected
<1>2. ASSUME NEW s \in P!Connected', Busy(s, f)' PROVE s \in P!Connected /\ Busy(s, f)
  BY <1>1, <1>2 DEF LinesKept, LineKept
<1>3. ASSUME NEW m \in Md5s, NEW v \in Nat, Coming(f, m, v), NEW s \in P!Connected'
      PROVE  Line(s, f, m, v)'
  <2>1. CASE ~Busy(s, f)'
    BY <1>1, <2>1, LineFreeNext
  <2>2. CASE Busy(s, f)'
    <3>1. s \in P!Connected /\ LineKept(s, f)
      BY <1>1, <2>2 DEF LinesKept
    <3>2. Line(s, f, m, v)
      BY <1>3, <3>1 DEF Coming
    <3> QED
      BY <3>1, <3>2 DEF LineKept
  <2> QED
    BY <2>1, <2>2
<1>4. ASSUME NEW m \in Md5s, NEW v \in Nat, Coming(f, m, v) PROVE Coming(f, m, v)'
  BY <1>2, <1>3, <1>4 DEF Coming
<1> QED
  BY <1>2, <1>4 DEF NoneComing

(* A step that sends f's servers no request for f, and does nothing else to *)
(* them.                                                                   *)
LEMMA QuietServers ==
  ASSUME S!TypeOK, NEW f \in Flows, UNCHANGED <<servers, toProxy, storageState>>,
         \A s \in Servers : NoNewRequest(f, toStorage[s], toStorage'[s])
  PROVE  LinesKept(f)
<1> SUFFICES ASSUME NEW s \in Servers PROVE LineKept(s, f)
  BY DEF LinesKept, P!Connected
<1>1. NoNewPiece(f, toProxy[s], downloadingContext[s][f], toProxy'[s], downloadingContext'[s][f])
  BY DEF NoNewPiece, servers
<1> QED
  BY <1>1, StayLess DEF servers

LEMMA NothingAsked ==
  ASSUME P!TypeOK, NEW f \in Flows, NEW g \in Flows, Relays(g) \/ (AsksFor(g) /\ f # g),
         NEW s \in Servers
  PROVE  NoNewRequest(f, toStorage[s], toStorage'[s])
<1>1. toStorage[s] \in Seq(P!ToStorageMessage)
  BY DEF P!TypeOK
<1>2. toStorage'[s] = toStorage[s]
        \/ \E msg : ~Asks(msg, f) /\ toStorage'[s] = Append(toStorage[s], msg)
  <2>1. CASE Relays(g)
    BY <2>1 DEF Relays, Asks
  <2>2. CASE AsksFor(g) /\ f # g
    <3>1. \A m : ~Asks(P!DownLoadBlock(m, g), f)
      BY <2>2 DEF Asks, P!DownLoadBlock
    <3> QED
      BY <2>2, <3>1 DEF AsksFor, P!TypeOK
  <2> QED
    BY <2>1, <2>2
<1> QED
  BY <1>1, <1>2, RequestsIn

(* What a client does, and what the proxy does for it, but to ask. *)
LEMMA ClientSideLines ==
  ASSUME P!TypeOK, S!TypeOK, A!TypeOK, NEW g \in Flows, ClientSideStep(g), NEW f \in Flows,
         \/ f # g
         \/ ~ProxyReadsClient(g) /\ ~ProxyReadsLate(g)
         \/ Relays(g)
  PROVE  LinesKept(f)
<1>1. UNCHANGED <<servers, toProxy, storageState>>
  BY ClientSideServers
<1>2. Relays(g) \/ (AsksFor(g) /\ f # g)
  <2>1. CASE UNCHANGED toStorage
    BY <2>1 DEF Relays
  <2>2. CASE ProxyReadsClient(g) \/ ProxyReadsLate(g)
    <3>1. \/ P!ClientOnClose(g)
          \/ \E msg \in P!FromClientMessage : P!ClientOnMessage(g, msg) \/ P!LateMessage(g, msg)
      BY <2>2, ClientServed DEF ProxyServesClient
    <3>2. Relays(g) \/ AsksFor(g)
      BY <3>1, HandlersPassTurn, ClosePassesNoTurn
    <3> QED
      BY <2>2, <3>2
  <2>3. CASE ProxyLosesClient(g) \/ ProxyWriteFails(g)
    BY <2>3, ClosePassesNoTurn DEF ProxyLosesClient, ProxyWriteFails, P!ClientWriteFails
  <2>4. CASE AgentMoves(g) \/ DownloaderMoves(g)
    BY <2>1, <2>4 DEF AgentMoves, AgentReads, AgentWrote, AgentLosesProxy, AgentKilled,
         DownloaderMoves, DownloaderReads, DownloaderLosesProxy, DownloaderKilled
  <2>5. CASE Connects(g) \/ SessionDestroyed(g)
    BY <2>1, <2>5 DEF Connects, AgentConnects, DownloaderConnects, P!ClientOnConnection,
         SessionDestroyed, P!Expire
  <2> QED
    BY <2>2, <2>3, <2>4, <2>5 DEF ClientSideStep, ProxyServesClient
<1> QED
  BY <1>1, <1>2, NothingAsked, QuietServers

LEMMA OtherServerLine ==
  ASSUME P!TypeOK, S!TypeOK, [Next]_vars, NEW s \in Servers, StorageMoves(s),
         NEW t \in Servers, t # s, NEW f \in Flows
  PROVE  t \in P!Connected' => t \in P!Connected /\ LineKept(t, f)
<1>1. /\ toProxy'[t] = toProxy[t] /\ storageState'[t] = storageState[t]
      /\ downloadingContext'[t] = downloadingContext[t] /\ toStorage'[t] = toStorage[t]
  BY OtherServers, OtherDownloads, StorageMovesOnly DEF SameServer
<1>2. md5_path[t] \subseteq md5_path'[t]
  BY PathsGrow
<1>3. toStorage[t] \in Seq(P!ToStorageMessage)
  BY DEF P!TypeOK
<1>4. NoNewRequest(f, toStorage[t], toStorage'[t])
  BY <1>1 DEF NoNewRequest
<1>5. NoNewPiece(f, toProxy[t], downloadingContext[t][f], toProxy'[t], downloadingContext'[t][f])
  BY <1>1 DEF NoNewPiece
<1>6. LineKept(t, f)
  BY <1>2, <1>4, <1>5, StayLess
<1> QED
  BY <1>1, <1>6 DEF P!Connected

LEMMA ReadLine ==
  ASSUME P!TypeOK, S!TypeOK, NEW s \in Servers, ProxyReadsStorage(s), ~P!StorageOnClose(s),
         NEW f \in Flows, ~S!PieceOf(Head(toProxy[s]), f)
  PROVE  s \in P!Connected /\ LineKept(s, f)
<1>1. /\ toProxy[s] \in Seq(S!StorageMessage) /\ toProxy[s] # <<>>
      /\ toProxy'[s] = Tail(toProxy[s])
  BY DEF ProxyReadsStorage, S!TypeOK
<1>2. UNCHANGED <<downloadingContext, toStorage, md5_path>>
  BY ProxyHears DEF servers
<1>3. s \in P!Connected
  BY DEF ProxyReadsStorage, P!StorageOnMessage, P!HandleTransferBlockSet, P!HandleUploadBlockAck,
         P!HandleUploadBlockFail, P!NamelessFail, P!HandleTransferBlock,
         P!StorageMessageError, P!Connected
<1>4. Busy(s, f)' => Busy(s, f)
  BY <1>1, <1>2, PiecesIn DEF Busy, BusyOn
<1>5. ASSUME NEW m \in Md5s, NEW v \in Nat, Line(s, f, m, v) PROVE Line(s, f, m, v)'
  BY <1>1, <1>2, <1>5, LineTail DEF Line
<1> QED
  BY <1>3, <1>4, <1>5 DEF LineKept

LEMMA ServerLines ==
  ASSUME AskSystem, DownIdle, MayTear = FALSE, [Next]_vars, NEW s \in Servers, StorageMoves(s),
         NEW f \in Flows,
         \/ ~ProxyReadsStorage(s)
         \/ P!StorageOnClose(s)
         \/ ~S!PieceOf(Head(toProxy[s]), f)
  PROVE  LinesKept(f)
<1>1. P!TypeOK /\ S!TypeOK
  BY SystemTypes DEF AskSystem
<1>2. ASSUME s \in P!Connected' PROVE ~Busy(s, f)' \/ (s \in P!Connected /\ LineKept(s, f))
  <2>1. CASE ~ProxyStorageStep(s)
    BY <1>2, <2>1, ServerLine
  <2>2. ~P!StorageOnClose(s)
    BY <1>1, <1>2, StorageClosed DEF P!Connected, P!TypeOK
  <2>3. CASE ProxyStorageStep(s)
    <3>1. ProxyReadsStorage(s)
      BY <2>2, <2>3 DEF ProxyStorageStep, ProxyLosesStorage
    <3> QED
      BY <1>1, <2>2, <3>1, ReadLine
  <2> QED
    BY <2>1, <2>3
<1>3. ASSUME NEW t \in Servers, t # s
      PROVE  t \in P!Connected' => t \in P!Connected /\ LineKept(t, f)
  BY <1>1, <1>3, OtherServerLine
<1> QED
  BY <1>2, <1>3 DEF LinesKept

----------------------------------------------------------------------------
(* Who downloads waits for no server's answer to a piece, and holds at most *)
(* the one block its request can name.                                     *)

Uploaded(f) == f < nextFlow /\ clientState[f] \notin {"init", "waiting_transfer_block"}
Uncalled == \A f \in Flows : Uploaded(f) \/ Votes(f) = {}
OneHeld == \A f \in Flows : \A wish \in Downloads[f] : Len(wish[2]) <= 1
HeldOne == \A f \in Flows : Len(heldMd5s[f]) <= 1

LEMMA UncalledKept ==
  ASSUME Uncalled, NEW f \in Flows, Votes(f)' \subseteq Votes(f), nextFlow <= nextFlow',
         nextFlow \in Nat, nextFlow' \in Nat,
         \/ clientState'[f] = clientState[f]
         \/ clientState'[f] \notin {"init", "waiting_transfer_block"}
         \/ ~Uploaded(f)
  PROVE  Uploaded(f)' \/ Votes(f)' = {}
<1>1. f \in Nat
  BY FlowsAssumption
<1>2. Uploaded(f) \/ Votes(f) = {}
  BY DEF Uncalled
<1> QED
  BY <1>1, <1>2 DEF Uploaded

LEMMA HandlerCalls ==
  ASSUME P!TypeOK, LateGone, NEW f \in Flows, NEW msg,
         P!ClientOnMessage(f, msg) \/ P!LateMessage(f, msg)
  PROVE  \/ clientState[f] \in {"waiting_upload_block", "none"} /\ UNCHANGED clientState
            /\ \A g \in Flows \ {f} : Votes(g)' \subseteq Votes(g)
         \/ /\ UNCHANGED blockAckCallbacks
            /\ \/ UNCHANGED clientState
               \/ clientState[f] = "init"
               \/ clientState' = [clientState EXCEPT ![f] = "none"]
               \/ clientState' = [clientState EXCEPT ![f] = "have_uploaded_all_blocks"]
               \/ clientState' = [clientState EXCEPT ![f] = "have_transfered_all_blocks"]
<1>1. CASE /\ clientState[f] \in {"waiting_upload_block", "none"}
           /\ P!StartBlock(f, msg)
  <2>1. clientState[f] \in {"waiting_upload_block", "none"} /\ UNCHANGED clientState
    BY <1>1 DEF P!StartBlock
  <2>2. PICK selected : P!SubBlockAckEvent(selected, msg.md5, f)
    BY <1>1 DEF P!StartBlock
  <2>3. ASSUME NEW g \in Flows \ {f}, NEW vote \in Votes(g)' PROVE vote \in Votes(g)
    <3>1. vote[1] \in Servers /\ vote[2] \in P!AnyMd5 /\ g # f
          /\ vote \in Servers \X P!AnyMd5 /\ g \in blockAckCallbacks'[vote[1]][vote[2]]
      BY <2>3 DEF Votes
    <3>2. g \in blockAckCallbacks[vote[1]][vote[2]]
      BY <2>2, <3>1 DEF P!SubBlockAckEvent, P!TypeOK
    <3> QED
      BY <3>1, <3>2 DEF Votes
  <2> QED
    BY <2>1, <2>3
<1>2. CASE P!TooFewServers(f, msg) \/ P!RelayPiece(f, msg) \/ P!RelayToExpired(f, msg)
  BY <1>2 DEF P!TooFewServers, P!RelayPiece, P!RelayToExpired, P!Dies, P!storages
<1>3. CASE clientState[f] = "init" /\ P!HandleUploadRequest(f, msg)
  BY <1>3 DEF P!HandleUploadRequest, P!storages
<1>4. CASE P!HandleUploadAllBlocks(f)
  BY <1>4 DEF P!HandleUploadAllBlocks, P!SetClientState, P!storages
<1>5. CASE P!ClientOnClose(f)
  BY <1>5 DEF P!ClientOnClose, P!SetClientState, P!storages
<1>6. CASE clientState[f] = "init" /\ P!HandleDownloadRequest(f, msg)
  BY <1>5, <1>6 DEF P!HandleDownloadRequest, P!HandleFileNotExist, P!StartDownload,
       P!DownloadRefused, P!NothingToTransfer, P!Dies, P!storages
<1>7. CASE P!HandleTransferBlockAck(f)
  BY <1>5, <1>7 DEF P!HandleTransferBlockAck, P!TransferNextBlock, P!TransferRefused,
       P!TransferEnds, P!SetClientState, P!storages
<1>8. CASE P!ClientOnMessage(f, msg)
  <2>1. P!ClientHandles(f, msg)
    BY <1>8 DEF P!ClientOnMessage
  <2>2. CASE clientState[f] = "waiting_upload_block" /\ P!HandleUploadBlock(f, msg)
    BY <1>1, <1>2, <2>2 DEF P!HandleUploadBlock
  <2>3. CASE clientState[f] = "init" /\ P!HandleUploadRequest(f, msg)
    BY <1>3, <2>3
  <2> QED
    BY <1>4, <1>5, <1>6, <1>7, <2>1, <2>2, <2>3 DEF P!ClientHandles, P!ClientMessageError
<1>9. CASE P!LateMessage(f, msg)
  <2>1. clientState[f] = "none" /\ P!LateHandles(f, msg)
    BY <1>9 DEF P!LateMessage, LateGone
  <2>2. CASE P!HandleUploadBlock(f, msg)
    BY <1>1, <1>2, <2>1, <2>2 DEF P!HandleUploadBlock
  <2>3. CASE P!LateRecord(f) \/ P!LateNextBlock(f) \/ P!LateIgnored(f, msg)
             \/ \E need : P!LateStart(f, need) \/ P!NothingToTransfer(f, msg, need)
    BY <2>3 DEF P!LateRecord, P!LateNextBlock, P!LateIgnored, P!LateStart,
       P!NothingToTransfer, P!Dies, P!storages
  <2> QED
    BY <2>1, <2>2, <2>3 DEF P!LateHandles
<1> QED
  BY <1>8, <1>9

LEMMA ServedUncalled ==
  ASSUME P!TypeOK, A!TypeOK, SelectedConnected, LateGone, Uncalled, NEW f \in Flows,
         f < nextFlow, ProxyServesClient(f)
  PROVE  Uncalled'
<1> SUFFICES ASSUME NEW g \in Flows PROVE Uploaded(g)' \/ Votes(g)' = {}
  BY DEF Uncalled
<1>1. UNCHANGED nextFlow /\ \A h \in Flows \ {f} : clientState'[h] = clientState[h]
  BY ProxyServes DEF ServesOnly
<1>2. nextFlow \in Nat /\ nextFlow' \in Nat /\ nextFlow <= nextFlow'
  BY <1>1 DEF P!TypeOK
<1>3. UNCHANGED blockAckCallbacks => Votes(g)' \subseteq Votes(g)
  BY DEF Votes
<1>4. \/ clientState[f] \in {"waiting_upload_block", "none"} /\ UNCHANGED clientState
         /\ \A h \in Flows \ {f} : Votes(h)' \subseteq Votes(h)
      \/ /\ UNCHANGED blockAckCallbacks
         /\ \/ clientState'[f] = clientState[f]
            \/ clientState[f] = "init"
            \/ clientState'[f] \notin {"init", "waiting_transfer_block"}
  <2>1. ASSUME NEW msg, P!ClientOnMessage(f, msg) \/ P!LateMessage(f, msg)
        PROVE  \/ clientState[f] \in {"waiting_upload_block", "none"} /\ UNCHANGED clientState
                  /\ \A h \in Flows \ {f} : Votes(h)' \subseteq Votes(h)
               \/ /\ UNCHANGED blockAckCallbacks
                  /\ \/ clientState'[f] = clientState[f]
                     \/ clientState[f] = "init"
                     \/ clientState'[f] \notin {"init", "waiting_transfer_block"}
    <3>1. clientState \in [Flows -> P!ClientStates]
      BY DEF P!TypeOK
    <3> QED
      BY <2>1, <3>1, HandlerCalls
  <2>2. CASE P!ClientOnClose(f)
    BY <2>2 DEF P!ClientOnClose, P!SetClientState, P!storages, P!TypeOK
  <2> QED
    BY <2>1, <2>2, ClientServed
<1>5. CASE UNCHANGED blockAckCallbacks
  <2>1. \/ clientState'[g] = clientState[g]
        \/ clientState'[g] \notin {"init", "waiting_transfer_block"}
        \/ ~Uploaded(g)
    BY <1>1, <1>4 DEF Uploaded
  <2> QED
    BY <1>2, <1>3, <1>5, <2>1, UncalledKept
<1>6. CASE clientState[f] \in {"waiting_upload_block", "none"} /\ UNCHANGED clientState
           /\ \A h \in Flows \ {f} : Votes(h)' \subseteq Votes(h)
  <2>1. CASE g = f
    BY <1>1, <1>6, <2>1 DEF Uploaded
  <2>2. CASE g # f
    BY <1>2, <1>6, <2>2, UncalledKept
  <2> QED
    BY <2>1, <2>2
<1> QED
  BY <1>4, <1>5, <1>6

LEMMA ServersCallFewer ==
  ASSUME P!TypeOK, NEW s \in Servers, StorageMoves(s), NEW f \in Flows
  PROVE  Votes(f)' \subseteq Votes(f)
<1>1. CASE UNCHANGED blockAckCallbacks
  BY <1>1 DEF Votes
<1>2. CASE blockAckCallbacks' = [blockAckCallbacks EXCEPT ![s] = P!NoCallbacks]
  BY <1>2 DEF Votes, P!NoCallbacks, P!TypeOK
<1>3. ASSUME NEW m, blockAckCallbacks' = P!Erased(s, m) PROVE Votes(f)' \subseteq Votes(f)
  BY <1>3 DEF Votes, P!Erased, P!TypeOK
<1>4. CASE ServerConnects(s)
  BY <1>2, <1>4 DEF ServerConnects, P!StorageOnConnection
<1>5. CASE StorageStep(s) \/ StorageDies(s)
  BY <1>1, <1>5 DEF StorageStep, StorageReads, StorageWrote, StorageLosesProxy, StorageDies, proxy
<1>6. CASE P!StorageOnClose(s)
  BY <1>2, <1>6 DEF P!StorageOnClose
<1>7. CASE ProxyStorageStep(s)
  BY <1>1, <1>3, <1>6, <1>7 DEF ProxyStorageStep, ProxyReadsStorage, ProxyLosesStorage,
     P!StorageOnMessage, P!HandleTransferBlockSet, P!HandleUploadBlockAck,
     P!HandleUploadBlockFail, P!NamelessFail, P!Dies, P!HandleTransferBlock,
     P!StorageMessageError, P!storages
<1> QED
  BY <1>4, <1>5, <1>7 DEF StorageMoves

LEMMA ServedIsBorn ==
  ASSUME P!TypeOK, A!TypeOK, UploadInv, LateGone, NEW f \in Flows, ProxyServesClient(f)
  PROVE  f < nextFlow /\ nextFlow' = nextFlow
<1>1. nextFlow \in Nat /\ f \in Nat
  BY FlowsAssumption DEF P!TypeOK
<1>2. clientState[f] # "none" \/ lateState[f] # "none"
  BY ProxyServes DEF UploadInv
<1>3. ~(f >= nextFlow)
  BY <1>2 DEF UploadInv, Unborn, LateGone
<1>4. nextFlow' = nextFlow
  BY ProxyServes DEF UploadInv, ServesOnly
<1> QED
  BY <1>1, <1>3, <1>4

LEMMA UncalledNext ==
  ASSUME P!TypeOK, S!TypeOK, A!TypeOK, D!TypeOK, UploadInv, LateGone, Uncalled, [Next]_vars
  PROVE  Uncalled'
<1>1. nextFlow \in Nat /\ \A f \in Flows : f \in Nat
  BY FlowsAssumption DEF P!TypeOK
<1>2. ASSUME NEW f \in Flows, Votes(f)' \subseteq Votes(f), UNCHANGED nextFlow,
             clientState'[f] = clientState[f]
      PROVE  Uploaded(f)' \/ Votes(f)' = {}
  BY <1>1, <1>2, UncalledKept
<1>3. CASE UNCHANGED <<blockAckCallbacks, nextFlow, clientState>>
  <2>1. ASSUME NEW f \in Flows PROVE Votes(f)' \subseteq Votes(f)
    BY <1>3 DEF Votes
  <2> QED
    BY <1>2, <1>3, <2>1 DEF Uncalled
<1>4. ASSUME NEW f \in Flows, AgentMoves(f) \/ DownloaderMoves(f) PROVE Uncalled'
  BY <1>3, <1>4 DEF AgentMoves, AgentReads, AgentWrote, AgentLosesProxy, AgentKilled, proxy,
     DownloaderMoves, DownloaderReads, DownloaderLosesProxy, DownloaderKilled
<1>5. ASSUME NEW f \in Flows, Connects(f) PROVE Uncalled'
  <2>1. /\ f = nextFlow /\ nextFlow' = nextFlow + 1
        /\ \A g \in Flows \ {f} : clientState'[g] = clientState[g]
    BY <1>5, ConnectsOnly DEF UploadInv
  <2>2. UNCHANGED blockAckCallbacks
    BY <1>5 DEF Connects, AgentConnects, DownloaderConnects, P!ClientOnConnection, P!storages
  <2>3. ASSUME NEW g \in Flows PROVE Uploaded(g)' \/ Votes(g)' = {}
    <3>1. Votes(g)' \subseteq Votes(g)
      BY <2>2 DEF Votes
    <3>2. clientState'[g] = clientState[g] \/ ~Uploaded(g)
      BY <1>1, <2>1 DEF Uploaded
    <3>3. nextFlow' \in Nat /\ nextFlow <= nextFlow'
      BY <1>1, <2>1
    <3> QED
      BY <1>1, <3>1, <3>2, <3>3, UncalledKept
  <2> QED
    BY <2>3 DEF Uncalled
<1>6. ASSUME NEW f \in Flows, SessionDestroyed(f) PROVE Uncalled'
  BY <1>3, <1>6 DEF SessionDestroyed, P!Expire, P!process, P!storages
<1>7. ASSUME NEW f \in Flows, ProxyServesClient(f) PROVE Uncalled'
  <2>1. f < nextFlow
    BY <1>1, <1>7, ServedIsBorn
  <2> QED
    BY <1>7, <2>1, ServedUncalled DEF UploadInv
<1>8. ASSUME NEW s \in Servers, StorageMoves(s) PROVE Uncalled'
  <2>1. UNCHANGED <<nextFlow, clientState>>
    BY <1>8, StorageMovesOnly
  <2>2. ASSUME NEW f \in Flows PROVE Votes(f)' \subseteq Votes(f)
    BY <1>8, ServersCallFewer
  <2> QED
    BY <1>2, <2>1, <2>2 DEF Uncalled
<1>9. CASE UNCHANGED vars
  BY <1>3, <1>9 DEF vars, proxy
<1> QED
  BY <1>4, <1>5, <1>6, <1>7, <1>8, <1>9, StepKinds DEF ClientSideStep

LEMMA HeldOneNext ==
  ASSUME D!TypeOK, OneHeld, HeldOne, [Next]_vars PROVE HeldOne'
<1>1. CASE UNCHANGED heldMd5s
  BY <1>1 DEF HeldOne
<1>2. ASSUME NEW f \in Flows, DownloaderConnects(f) PROVE HeldOne'
  <2>1. PICK wish \in Downloads[f] : heldMd5s' = [heldMd5s EXCEPT ![f] = wish[2]]
    BY <1>2 DEF DownloaderConnects, D!OnConnection
  <2>2. heldMd5s'[f] = wish[2] /\ \A g \in Flows \ {f} : heldMd5s'[g] = heldMd5s[g]
    BY <2>1 DEF D!TypeOK
  <2> QED
    BY <2>2 DEF HeldOne, OneHeld
<1>3. ASSUME NEW f \in Flows, DownloaderMoves(f) PROVE UNCHANGED heldMd5s
  BY <1>3 DEF DownloaderMoves, DownloaderReads, DownloaderLosesProxy, DownloaderKilled,
     D!OnMessage, D!OnTransferBlock, D!OnTransferAllBlocks, D!OnMessageError, D!Close, D!End
<1>4. ASSUME NEW f \in Flows, AgentMoves(f) \/ AgentConnects(f) \/ ProxyServesClient(f)
                              \/ SessionDestroyed(f)
      PROVE  UNCHANGED heldMd5s
  BY <1>4 DEF AgentMoves, AgentReads, AgentWrote, AgentLosesProxy, AgentKilled, AgentConnects,
     ProxyServesClient, ProxyReadsClient, ProxyLosesClient, ProxyWriteFails, ProxyReadsLate,
     SessionDestroyed, clients, downloaders
<1>5. ASSUME NEW s \in Servers, StorageMoves(s) PROVE UNCHANGED heldMd5s
  BY <1>5 DEF StorageMoves, ServerConnects, StorageStep, StorageReads, StorageWrote,
     StorageLosesProxy, StorageDies, ProxyStorageStep, ProxyReadsStorage, ProxyLosesStorage,
     clients, downloaders
<1>6. UNCHANGED vars => UNCHANGED heldMd5s
  BY DEF vars, clients, downloaders
<1> QED
  BY <1>1, <1>2, <1>3, <1>4, <1>5, <1>6, StepKinds DEF ClientSideStep, Connects

----------------------------------------------------------------------------
(* How far a download is: nothing asked for yet, some pieces of the block   *)
(* at the proxy's index written, the rest of them on their way, or all of   *)
(* the file written and the end on its way.                                *)

Needs(f) == Kept(wantedFile[f], Md5s \ Held(f))
WaitedFor(f) == transferingBlockMd5s[f][transferIndex[f] + 1]

Begun(f) ==
  /\ clientState[f] \in {"init", "none"} /\ output[f] = <<>>
  /\ \A i \in DOMAIN toClient[f] :
       toClient[f][i].type \notin {"transfer_block", "transfer_all_blocks"}
  /\ clientState[f] = "init" =>
       /\ NoneComing(f)
       /\ \/ fromClient[f] = <<>>
          \/ /\ fromClient[f] = <<DownLoadRequest(wantedFile[f], heldMd5s[f])>>
             /\ toClient[f] = <<>>

ReadingAt(f, m, w) ==
  /\ output[f] = UpTo(transferingBlockMd5s[f], transferIndex[f]) \o Part(m, w)
  /\ w + Len(toClient[f]) <= Pieces[m]
  /\ \A i \in DOMAIN toClient[f] : toClient[f][i] = ThePiece(f, m, w + i - 1)
  /\ clientState[f] # "none" =>
       /\ \E v \in Nat : v = w + Len(toClient[f]) /\ Coming(f, m, v)
       /\ \/ fromClient[f] = <<>>
          \/ w = Pieces[m] /\ fromClient[f] = <<TransferBlockAck(m)>>
Reading(f) ==
  /\ clientState[f] \in {"waiting_transfer_block", "none"}
  /\ transferingBlockMd5s[f] \in Needs(f)
  /\ transferIndex[f] < Len(transferingBlockMd5s[f])
  /\ \E w \in 0 .. Pieces[WaitedFor(f)] : ReadingAt(f, WaitedFor(f), w)

Ended(f) ==
  /\ clientState[f] \in {"have_transfered_all_blocks", "none"}
  /\ transferingBlockMd5s[f] \in Needs(f)
  /\ output[f] = Content(transferingBlockMd5s[f])
  /\ toClient[f] # <<>> => toClient[f][1].type = "transfer_all_blocks"
  /\ clientState[f] # "none" => toClient[f] # <<>>

(* What ReadBack says of one flow. *)
ReadsBack(f) ==
  \A need \in Needs(f) :
    /\ IsPrefix(output[f], Content(need))
    /\ downloadState[f] = "done" => output[f] = Content(need)

ReadAt(f) ==
  /\ f >= nextFlow => NoneComing(f) /\ toClient[f] = <<>>
  /\ downloadState[f] = "init" => output[f] = <<>>
  /\ downloadState[f] = "reading" => Begun(f) \/ Reading(f) \/ Ended(f)
  /\ downloadState[f] \in {"done", "failed"} => ReadsBack(f)
ReadInv == \A f \in Flows : ReadAt(f)

(* Only of a client that is gone is a message handled after its connection *)
(* was closed.                                                             *)
NoLateReader == \A f \in Flows : downloadState[f] = "reading" => lateState[f] = "none"

LEMMA LateIsNoReader ==
  ASSUME OneRole, NoLateReader, NEW f \in Flows, ProxyWriteFails(f) \/ ProxyReadsLate(f)
  PROVE  downloadState[f] # "reading"
<1>1. CASE ProxyWriteFails(f)
  BY <1>1 DEF ProxyWriteFails, Gone, OneRole
<1>2. CASE ProxyReadsLate(f)
  BY <1>2 DEF ProxyReadsLate, P!LateMessage, NoLateReader
<1> QED
  BY <1>1, <1>2

LEMMA NoLateReaderNext ==
  ASSUME P!TypeOK, S!TypeOK, A!TypeOK, D!TypeOK, UploadInv, LateGone, NoLateReader, [Next]_vars
  PROVE  NoLateReader'
<1>1. CASE UNCHANGED <<downloadState, lateState>>
  BY <1>1 DEF NoLateReader
<1>2. ASSUME NEW f \in Flows, AgentMoves(f) \/ SessionDestroyed(f) PROVE NoLateReader'
  BY <1>1, <1>2 DEF AgentMoves, AgentReads, AgentWrote, AgentLosesProxy, AgentKilled,
     SessionDestroyed, P!Expire, clients, downloaders, proxy
<1>3. ASSUME NEW f \in Flows, DownloaderMoves(f) PROVE NoLateReader'
  <2>1. UNCHANGED lateState
    BY <1>3 DEF DownloaderMoves, DownloaderReads, DownloaderLosesProxy, DownloaderKilled, proxy
  <2>2. downloadState[f] = "reading" /\ \A g \in Flows \ {f} : downloadState'[g] = downloadState[g]
    BY <1>3 DEF DownloaderMoves, DownloaderReads, DownloaderLosesProxy, DownloaderKilled,
       D!OnMessage, D!OnTransferBlock, D!OnTransferAllBlocks, D!OnMessageError, D!Close, D!End,
       D!SetState, D!TypeOK
  <2> QED
    BY <2>1, <2>2 DEF NoLateReader
<1>4. ASSUME NEW f \in Flows, Connects(f) PROVE NoLateReader'
  <2>1. /\ f = nextFlow /\ UNCHANGED lateState
        /\ \A g \in Flows \ {f} : downloadState'[g] = downloadState[g]
    BY <1>4, ConnectsOnly DEF UploadInv, SameClient
  <2>2. lateState[f] = "none"
    BY <2>1 DEF LateGone, P!TypeOK
  <2> QED
    BY <2>1, <2>2 DEF NoLateReader
<1>5. ASSUME NEW f \in Flows, ProxyServesClient(f) PROVE NoLateReader'
  <2>1. UNCHANGED downloadState /\ \A g \in Flows \ {f} : lateState'[g] = lateState[g]
    BY <1>5, ProxyServes DEF UploadInv, ServesOnly, downloaders
  <2>2. downloadState[f] = "reading" => lateState'[f] = lateState[f]
    <3>1. CASE ProxyReadsClient(f) \/ ProxyLosesClient(f)
      BY <3>1 DEF ProxyReadsClient, ProxyLosesClient, P!ClientOnMessage
    <3>2. CASE ProxyWriteFails(f) \/ ProxyReadsLate(f)
      BY <3>2, LateIsNoReader DEF UploadInv
    <3> QED
      BY <1>5, <3>1, <3>2 DEF ProxyServesClient
  <2> QED
    BY <2>1, <2>2 DEF NoLateReader
<1>6. ASSUME NEW s \in Servers, StorageMoves(s) PROVE NoLateReader'
  BY <1>1, <1>6, StorageMovesOnly DEF downloaders
<1>7. CASE UNCHANGED vars
  BY <1>1, <1>7 DEF vars, proxy, clients, downloaders
<1> QED
  BY <1>2, <1>3, <1>4, <1>5, <1>6, <1>7, StepKinds DEF ClientSideStep

LEMMA KeptIsSeq ==
  ASSUME NEW md5s \in Seq(Md5s), NEW T, NEW kept \in Kept(md5s, T)
  PROVE  kept \in Seq(Md5s)
<1> DEFINE places == {i \in DOMAIN md5s : md5s[i] \in T}
           n == Cardinality(places)
<1>1. places \subseteq 1 .. Len(md5s) /\ IsFiniteSet(1 .. Len(md5s))
  BY FS_Interval
<1>2. IsFiniteSet(places) /\ n \in Nat
  BY <1>1, FS_Subset, FS_CardinalityType
<1>3. PICK at \in [1 .. n -> places] : kept = [k \in 1 .. n |-> md5s[at[k]]]
  BY ZenonT(60) DEF Kept, Increasing
<1>4. \A k \in 1 .. n : md5s[at[k]] \in Md5s
  BY <1>1, <1>3
<1> HIDE DEF places, n
<1> QED
  BY <1>2, <1>3, <1>4

LEMMA NeedsTyped ==
  ASSUME D!TypeOK, NEW f \in Flows
  PROVE  /\ \A need \in Needs(f) : need \in Seq(Md5s)
         /\ \A x, y \in Needs(f) : x = y
<1>1. wantedFile[f] \in Seq(Md5s)
  BY DEF D!TypeOK
<1>2. \A need \in Needs(f) : need \in Seq(Md5s)
  BY <1>1, KeptIsSeq DEF Needs
<1>3. \A x, y \in Needs(f) : x = y
  BY <1>1, KeptOne DEF Needs
<1> QED
  BY <1>2, <1>3

(* Nothing is the start of anything. *)
LEMMA NothingBegins ==
  ASSUME NEW md5s \in Seq(Md5s) PROVE IsPrefix(<<>>, Content(md5s))
<1>1. <<>> \in Seq(PieceContent) /\ Content(md5s) \in Seq(PieceContent)
      /\ UpTo(md5s, 0) = <<>> /\ 0 \in 0 .. Len(md5s)
  BY ContentSteps
<1> QED
  BY <1>1, UpToBegins

LEMMA AllBegins ==
  ASSUME NEW md5s \in Seq(Md5s) PROVE IsPrefix(Content(md5s), Content(md5s))
<1>1. Len(md5s) \in 0 .. Len(md5s) /\ UpTo(md5s, Len(md5s)) = Content(md5s)
  BY ContentSteps
<1> QED
  BY <1>1, UpToBegins

LEMMA ReadsBackAlways ==
  ASSUME P!TypeOK, D!TypeOK, NEW f \in Flows, ReadAt(f) PROVE ReadsBack(f)
<1> SUFFICES ASSUME NEW need \in Needs(f), downloadState[f] \in {"init", "reading"}
             PROVE  IsPrefix(output[f], Content(need))
  BY DEF ReadsBack, ReadAt, D!TypeOK
<1>1. need \in Seq(Md5s) /\ \A x \in Needs(f) : x = need
  BY NeedsTyped
<1>2. CASE output[f] = <<>>
  BY <1>1, <1>2, NothingBegins
<1>3. CASE Reading(f)
  <2> DEFINE md5s == transferingBlockMd5s[f]
             n == transferIndex[f]
  <2>1. md5s = need /\ n \in Nat /\ n < Len(md5s)
    BY <1>1, <1>3 DEF Reading, P!TypeOK
  <2>2. PICK w \in 0 .. Pieces[md5s[n + 1]] : output[f] = UpTo(md5s, n) \o Part(md5s[n + 1], w)
    BY <1>3 DEF Reading, ReadingAt, WaitedFor
  <2> HIDE DEF md5s, n
  <2> QED
    BY <1>1, <2>1, <2>2, WrittenBegins
<1>4. CASE Ended(f)
  BY <1>1, <1>4, AllBegins DEF Ended
<1> QED
  BY <1>2, <1>3, <1>4 DEF ReadAt, Begun

----------------------------------------------------------------------------
(* What leaves a download as far as it is.                                 *)

SameReader(f) ==
  /\ downloadState'[f] = downloadState[f] /\ wantedFile'[f] = wantedFile[f]
  /\ heldMd5s'[f] = heldMd5s[f] /\ output'[f] = output[f]
SameServed(f) ==
  /\ clientState'[f] = clientState[f] /\ transferIndex'[f] = transferIndex[f]
  /\ transferingBlockMd5s'[f] = transferingBlockMd5s[f]

LEMMA NeedsSame ==
  ASSUME NEW f, wantedFile'[f] = wantedFile[f], heldMd5s'[f] = heldMd5s[f]
  PROVE  Needs(f)' = Needs(f)
BY DEF Needs, Held

(* Who does not read is done with. *)
LEMMA IdleStays ==
  ASSUME NEW f, ReadAt(f), SameReader(f), downloadState[f] # "reading",
         f >= nextFlow' => NoneComing(f)' /\ toClient'[f] = <<>>
  PROVE  ReadAt(f)'
<1>1. ReadsBack(f) => ReadsBack(f)'
  BY NeedsSame DEF ReadsBack, SameReader
<1> QED
  BY <1>1 DEF ReadAt, SameReader

LEMMA BegunStays ==
  ASSUME S!TypeOK', NEW f \in Flows, LinesKept(f), SameReader(f), SameServed(f),
         toClient'[f] = toClient[f], fromClient'[f] = fromClient[f], Begun(f)
  PROVE  Begun(f)'
<1>1. NoneComing(f) => NoneComing(f)'
  BY ComingKept
<1> QED
  BY <1>1 DEF Begun, SameReader, SameServed

LEMMA ReadingAtStays ==
  ASSUME S!TypeOK', NEW f \in Flows, LinesKept(f), SameReader(f), SameServed(f),
         toClient'[f] = toClient[f], fromClient'[f] = fromClient[f],
         NEW m \in Md5s, NEW w \in Nat, ReadingAt(f, m, w)
  PROVE  ReadingAt(f, m, w)'
<1>1. \A v \in Nat : Coming(f, m, v) => Coming(f, m, v)'
  BY ComingKept
<1> QED
  BY <1>1 DEF ReadingAt, SameReader, SameServed

LEMMA ReadingTyped ==
  ASSUME P!TypeOK, NEW f \in Flows, Reading(f)
  PROVE  /\ WaitedFor(f) \in Md5s /\ Pieces[WaitedFor(f)] \in Nat \ {0}
         /\ transferIndex[f] \in Nat /\ transferIndex[f] < Len(transferingBlockMd5s[f])
         /\ transferingBlockMd5s[f] \in Seq(Md5s)
         /\ \E w \in Nat : w <= Pieces[WaitedFor(f)] /\ ReadingAt(f, WaitedFor(f), w)
<1>1. /\ transferIndex[f] \in Nat /\ transferIndex[f] < Len(transferingBlockMd5s[f])
      /\ transferingBlockMd5s[f] \in Seq(Md5s)
  BY DEF P!TypeOK, Reading
<1>2. WaitedFor(f) \in Md5s
  BY <1>1 DEF WaitedFor
<1>3. Pieces[WaitedFor(f)] \in Nat \ {0}
  BY <1>2, PiecesAssumption
<1>4. \E w \in 0 .. Pieces[WaitedFor(f)] : ReadingAt(f, WaitedFor(f), w)
  BY DEF Reading
<1> QED
  BY <1>1, <1>2, <1>3, <1>4

LEMMA ReadingStays ==
  ASSUME P!TypeOK, S!TypeOK', NEW f \in Flows, LinesKept(f), SameReader(f), SameServed(f),
         toClient'[f] = toClient[f], fromClient'[f] = fromClient[f], Reading(f)
  PROVE  Reading(f)'
<1>2. PICK m \in Md5s : m = WaitedFor(f)
  BY ReadingTyped
<1>3. PICK w \in Nat : w <= Pieces[m] /\ ReadingAt(f, m, w)
  BY <1>2, ReadingTyped
<1>4. ReadingAt(f, m, w)'
  BY <1>3, ReadingAtStays
<1>5. WaitedFor(f)' = m /\ w \in 0 .. Pieces[m]
  BY <1>2, <1>3, PiecesAssumption DEF WaitedFor, SameServed
<1>6. Needs(f)' = Needs(f)
  BY NeedsSame DEF SameReader
<1>7. \E x \in 0 .. Pieces[WaitedFor(f)'] : ReadingAt(f, WaitedFor(f), x)'
  BY <1>4, <1>5
<1> QED
  BY <1>6, <1>7 DEF Reading, SameServed

LEMMA EndedStays ==
  ASSUME NEW f \in Flows, SameReader(f), SameServed(f), toClient'[f] = toClient[f], Ended(f)
  PROVE  Ended(f)'
<1>1. Needs(f)' = Needs(f)
  BY NeedsSame DEF SameReader
<1> QED
  BY <1>1 DEF Ended, SameReader, SameServed

LEMMA ReadStays ==
  ASSUME P!TypeOK, S!TypeOK', NEW f \in Flows, ReadAt(f), LinesKept(f), SameReader(f),
         SameServed(f), toClient'[f] = toClient[f], fromClient'[f] = fromClient[f],
         f >= nextFlow' => f >= nextFlow
  PROVE  ReadAt(f)'
<1>1. f >= nextFlow' => NoneComing(f)' /\ toClient'[f] = <<>>
  BY ComingKept DEF ReadAt
<1>2. CASE downloadState[f] # "reading"
  BY <1>1, <1>2, IdleStays
<1>3. CASE downloadState[f] = "reading"
  <2>1. Begun(f)' \/ Reading(f)' \/ Ended(f)'
    BY <1>3, BegunStays, ReadingStays, EndedStays DEF ReadAt
  <2> QED
    BY <1>1, <1>3, <2>1 DEF ReadAt, SameReader
<1> QED
  BY <1>2, <1>3

----------------------------------------------------------------------------
(* The client reads.                                                       *)

(* q holds the pieces of block m of flow f from piece w on. *)
Follow(q, f, m, w) == \A i \in DOMAIN q : q[i] = ThePiece(f, m, w + i - 1)

LEMMA FollowTail ==
  ASSUME NEW f, NEW m, NEW w \in Nat, NEW M, NEW q \in Seq(M), q # <<>>, Follow(q, f, m, w)
  PROVE  /\ Head(q) = ThePiece(f, m, w) /\ Follow(Tail(q), f, m, w + 1)
         /\ Len(Tail(q)) = Len(q) - 1 /\ Len(q) \in Nat \ {0}
<1>1. /\ Len(q) \in Nat \ {0} /\ Head(q) = q[1] /\ Len(Tail(q)) = Len(q) - 1
      /\ DOMAIN Tail(q) = 1 .. Len(q) - 1 /\ DOMAIN q = 1 .. Len(q)
      /\ \A i \in 1 .. Len(q) - 1 : Tail(q)[i] = q[i + 1]
  OBVIOUS
<1>2. Head(q) = ThePiece(f, m, w)
  <2>1. 1 \in DOMAIN q /\ w + 1 - 1 = w
    BY <1>1
  <2> QED
    BY <1>1, <2>1 DEF Follow
<1>3. ASSUME NEW i \in 1 .. Len(q) - 1 PROVE Tail(q)[i] = ThePiece(f, m, (w + 1) + i - 1)
  <2>1. i + 1 \in DOMAIN q /\ w + (i + 1) - 1 = (w + 1) + i - 1
    BY <1>1
  <2>2. q[i + 1] = ThePiece(f, m, w + (i + 1) - 1)
    BY <2>1 DEF Follow
  <2> QED
    BY <1>1, <2>1, <2>2
<1> QED
  BY <1>1, <1>2, <1>3 DEF Follow

LEMMA FollowAppend ==
  ASSUME NEW f, NEW m, NEW w \in Nat, NEW M, NEW q \in Seq(M), Follow(q, f, m, w),
         NEW msg, msg = ThePiece(f, m, w + Len(q))
  PROVE  Follow(Append(q, msg), f, m, w) /\ Len(Append(q, msg)) = Len(q) + 1
<1>1. /\ Len(q) \in Nat /\ DOMAIN q = 1 .. Len(q) /\ DOMAIN Append(q, msg) = 1 .. Len(q) + 1
      /\ \A i \in 1 .. Len(q) : Append(q, msg)[i] = q[i]
      /\ Append(q, msg)[Len(q) + 1] = msg /\ Len(Append(q, msg)) = Len(q) + 1
  OBVIOUS
<1>2. ASSUME NEW i \in 1 .. Len(q) + 1 PROVE Append(q, msg)[i] = ThePiece(f, m, w + i - 1)
  <2>1. CASE i \in 1 .. Len(q)
    BY <1>1, <2>1 DEF Follow
  <2>2. CASE i = Len(q) + 1
    <3>1. w + i - 1 = w + Len(q)
      BY <1>1, <2>2
    <3> QED
      BY <1>1, <2>2, <3>1
  <2> QED
    BY <1>1, <2>1, <2>2
<1> QED
  BY <1>1, <1>2 DEF Follow

LEMMA FollowPart ==
  ASSUME NEW f, NEW m, NEW w \in Nat, NEW M, NEW q \in Seq(M), Follow(q, f, m, w),
         NEW n \in 0 .. Len(q)
  PROVE  Follow(SubSeq(q, 1, n), f, m, w) /\ Len(SubSeq(q, 1, n)) <= Len(q)
<1>1. /\ Len(q) \in Nat /\ DOMAIN q = 1 .. Len(q) /\ DOMAIN SubSeq(q, 1, n) = 1 .. n
      /\ Len(SubSeq(q, 1, n)) = n /\ \A i \in 1 .. n : SubSeq(q, 1, n)[i] = q[i]
  OBVIOUS
<1>2. \A i \in 1 .. n : i \in DOMAIN q
  BY <1>1
<1> QED
  BY <1>1, <1>2 DEF Follow

LEMMA PieceWritten ==
  ASSUME NEW c \in Seq(PieceContent), NEW m \in Md5s, NEW w \in Nat
  PROVE  Append(c \o Part(m, w), <<m, w>>) = c \o Part(m, w + 1)
<1>1. /\ Part(m, w) \in Seq(PieceContent) /\ Part(m, w + 1) = Append(Part(m, w), <<m, w>>)
      /\ <<m, w>> \in PieceContent
  BY PartTyped DEF PieceContent
<1> DEFINE T == PieceContent
           p == Part(m, w)
           x == <<m, w>>
<1> HIDE DEF T, p, x
<1>2. c \in Seq(T) /\ p \in Seq(T) /\ x \in T
  BY <1>1 DEF T, p, x
<1>3. Append(c \o p, x) = c \o Append(p, x)
  BY <1>2
<1> QED
  BY <1>1, <1>3 DEF p, x

LEMMA ReadingNext ==
  ASSUME NEW f, NEW m, NEW w, w \in 0 .. Pieces[m],
         clientState'[f] \in {"waiting_transfer_block", "none"},
         transferingBlockMd5s'[f] \in Needs(f)', transferIndex'[f] < Len(transferingBlockMd5s'[f]),
         m = transferingBlockMd5s'[f][transferIndex'[f] + 1], ReadingAt(f, m, w)'
  PROVE  Reading(f)'
<1>1. WaitedFor(f)' = m
  BY DEF WaitedFor
<1>2. \E x \in 0 .. Pieces[WaitedFor(f)'] : ReadingAt(f, WaitedFor(f), x)'
  BY <1>1
<1> QED
  BY <1>2 DEF Reading

LEMMA ClientGets ==
  ASSUME P!TypeOK, A!TypeOK, D!TypeOK, NEW f \in Flows, DownloaderReads(f)
  PROVE  /\ toClient[f] \in Seq(P!ClientMessage) /\ toClient[f] # <<>>
         /\ toClient'[f] = Tail(toClient[f]) /\ SameServed(f)
         /\ D!OnMessage(f, Head(toClient[f]))
BY DEF DownloaderReads, P!TypeOK, SameServed, proxy

LEMMA PieceReadAt ==
  ASSUME P!TypeOK, A!TypeOK, D!TypeOK, S!TypeOK', NEW f \in Flows, DownloaderReads(f),
         D!OnTransferBlock(f, Head(toClient[f])), LinesKept(f),
         transferIndex[f] < Len(transferingBlockMd5s[f]),
         NEW m \in Md5s, NEW w \in Nat, ReadingAt(f, m, w)
  PROVE  ReadingAt(f, m, w + 1)'
<1> DEFINE q == toClient[f]
           msg == Head(q)
           before == UpTo(transferingBlockMd5s[f], transferIndex[f])
<1>1. /\ q \in Seq(P!ClientMessage) /\ q # <<>> /\ toClient'[f] = Tail(q) /\ SameServed(f)
  BY ClientGets
<1>2. Follow(q, f, m, w) /\ w + Len(q) <= Pieces[m] /\ output[f] = before \o Part(m, w)
  BY DEF ReadingAt, Follow
<1>3. /\ msg = ThePiece(f, m, w) /\ Follow(Tail(q), f, m, w + 1)
      /\ Len(Tail(q)) = Len(q) - 1 /\ Len(q) \in Nat \ {0}
  BY <1>1, <1>2, FollowTail
<1> HIDE DEF q
<1>4. Pieces[m] \in Nat
  BY PiecesAssumption
<1>5. w # Pieces[m] /\ w + 1 + Len(Tail(q)) = w + Len(q)
  BY <1>2, <1>3, <1>4
<1>6. /\ msg.md5 = m /\ msg.content = <<m, w>> /\ (msg.eof <=> w + 1 = Pieces[m])
  BY <1>3, ThePieceIs
<1> HIDE DEF msg
<1>7. output'[f] = Append(output[f], <<m, w>>)
  BY <1>6 DEF D!OnTransferBlock, D!TypeOK, msg, q
<1>8. output'[f] = before \o Part(m, w + 1)
  <2>1. transferingBlockMd5s[f] \in Seq(Md5s)
        /\ transferIndex[f] \in 0 .. Len(transferingBlockMd5s[f])
    BY DEF P!TypeOK
  <2>2. before \in Seq(PieceContent)
    BY <2>1, ContentSteps DEF before
  <2> QED
    BY <1>2, <1>7, <2>2, PieceWritten
<1>9. CASE clientState[f] # "none"
  <2>1. fromClient[f] = <<>>
    BY <1>5, <1>9 DEF ReadingAt
  <2>2. PICK v \in Nat : v = w + Len(q) /\ Coming(f, m, v)
    BY <1>9 DEF ReadingAt, q
  <2>4. Coming(f, m, v)' /\ v = w + 1 + Len(toClient'[f])
    BY <1>1, <1>5, <2>2, ComingKept
  <2>3. fromClient'[f] = <<>> \/ (w + 1 = Pieces[m] /\ fromClient'[f] = <<TransferBlockAck(m)>>)
    <3>1. CASE msg.eof
      BY <1>6, <2>1, <3>1
         DEF D!OnTransferBlock, D!Acknowledge, D!Send, D!TypeOK, msg, q, TransferBlockAck,
             D!TransferBlockAck
    <3>2. CASE ~msg.eof
      BY <2>1, <3>2 DEF D!OnTransferBlock, D!Acknowledge, msg, q
    <3> QED
      BY <3>1, <3>2
  <2> QED
    BY <1>1, <1>2, <1>3, <1>5, <1>8, <2>3, <2>4 DEF ReadingAt, SameServed, Follow, before
<1>10. CASE clientState[f] = "none"
  BY <1>1, <1>2, <1>3, <1>5, <1>8, <1>10 DEF ReadingAt, SameServed, Follow, before
<1> QED
  BY <1>9, <1>10

LEMMA PieceReadKeeps ==
  ASSUME P!TypeOK, A!TypeOK, D!TypeOK, S!TypeOK', NEW f \in Flows, DownloaderReads(f),
         D!OnTransferBlock(f, Head(toClient[f])), LinesKept(f), Begun(f) \/ Reading(f) \/ Ended(f)
  PROVE  Reading(f)'
<1>1. /\ toClient[f] \in Seq(P!ClientMessage) /\ toClient[f] # <<>> /\ SameServed(f)
      /\ 1 \in DOMAIN toClient[f] /\ Head(toClient[f]) = toClient[f][1]
  BY ClientGets
<1>2. toClient[f][1].type = "transfer_block"
  BY <1>1 DEF D!OnTransferBlock
<1>3. Reading(f)
  BY <1>1, <1>2 DEF Begun, Ended
<1>4. PICK m \in Md5s : m = WaitedFor(f)
  BY <1>3, ReadingTyped
<1>5. PICK w \in Nat : w <= Pieces[m] /\ ReadingAt(f, m, w)
  BY <1>3, <1>4, ReadingTyped
<1>6. ReadingAt(f, m, w + 1)'
  BY <1>3, <1>5, PieceReadAt DEF Reading
<1>7. w + 1 \in 0 .. Pieces[m]
  <2>1. w + Len(toClient[f]) <= Pieces[m] /\ Len(toClient[f]) \in Nat \ {0}
    BY <1>1, <1>5 DEF ReadingAt
  <2>2. Pieces[m] \in Nat
    BY PiecesAssumption
  <2> QED
    BY <2>1, <2>2
<1>8. Needs(f)' = Needs(f)
  <2>1. UNCHANGED <<wantedFile, heldMd5s>>
    BY DEF D!OnTransferBlock
  <2> QED
    BY <2>1, NeedsSame
<1>9. /\ clientState'[f] \in {"waiting_transfer_block", "none"}
      /\ transferingBlockMd5s'[f] \in Needs(f)'
      /\ transferIndex'[f] < Len(transferingBlockMd5s'[f])
      /\ m = transferingBlockMd5s'[f][transferIndex'[f] + 1]
  BY <1>1, <1>3, <1>4, <1>8 DEF SameServed, Reading, WaitedFor
<1> QED
  BY <1>6, <1>7, <1>9, ReadingNext

LEMMA EndKeeps ==
  ASSUME P!TypeOK, D!TypeOK, NEW f \in Flows, ReadAt(f), f < nextFlow', f \in Nat,
         nextFlow' \in Nat, NEW state \in {"done", "failed"}, D!End(f, state),
         state = "done" => Ended(f)
  PROVE  ReadAt(f)'
<1>1. /\ UNCHANGED <<wantedFile, heldMd5s, output>> /\ downloadState'[f] = state
  BY DEF D!End, D!SetState, D!TypeOK
<1>2. Needs(f)' = Needs(f)
  BY <1>1, NeedsSame
<1>3. ReadsBack(f)
  BY ReadsBackAlways
<1>4. ASSUME state = "done", NEW need \in Needs(f) PROVE output[f] = Content(need)
  <2>1. transferingBlockMd5s[f] \in Needs(f) /\ output[f] = Content(transferingBlockMd5s[f])
    BY <1>4 DEF Ended
  <2>2. transferingBlockMd5s[f] = need
    BY <1>4, <2>1, NeedsTyped
  <2> QED
    BY <2>1, <2>2
<1>5. ReadsBack(f)'
  BY <1>1, <1>2, <1>3, <1>4 DEF ReadsBack
<1> QED
  BY <1>1, <1>5 DEF ReadAt

LEMMA DownloaderReadsOn ==
  ASSUME P!TypeOK, A!TypeOK, D!TypeOK, S!TypeOK', Unborn, NEW f \in Flows, DownloaderMoves(f),
         LinesKept(f), ReadAt(f)
  PROVE  ReadAt(f)'
<1>1. downloadState[f] = "reading"
  BY DEF DownloaderMoves, DownloaderReads, DownloaderLosesProxy, DownloaderKilled, D!OnMessage,
     D!OnTransferBlock, D!OnTransferAllBlocks, D!OnMessageError, D!Close, D!End
<1>2. f \in Nat /\ nextFlow \in Nat /\ nextFlow' = nextFlow
  BY FlowsAssumption DEF P!TypeOK, DownloaderMoves, DownloaderReads, DownloaderLosesProxy,
     DownloaderKilled, proxy
<1>3. f < nextFlow' /\ nextFlow' \in Nat
  BY <1>1, <1>2 DEF Unborn
<1>4. CASE D!End(f, "failed")
  BY <1>2, <1>3, <1>4, EndKeeps
<1>5. Begun(f) \/ Reading(f) \/ Ended(f)
  BY <1>1 DEF ReadAt
<1>6. CASE DownloaderReads(f) /\ D!OnTransferAllBlocks(f, Head(toClient[f]))
  <2>1. /\ toClient[f] \in Seq(P!ClientMessage) /\ toClient[f] # <<>>
        /\ 1 \in DOMAIN toClient[f] /\ Head(toClient[f]) = toClient[f][1]
    BY <1>6, ClientGets
  <2>2. toClient[f][1].type = "transfer_all_blocks" /\ D!End(f, "done")
    BY <1>6, <2>1 DEF D!OnTransferAllBlocks
  <2>3. ~Begun(f)
    BY <2>1, <2>2 DEF Begun
  <2>4. ~Reading(f)
    <3> SUFFICES ASSUME Reading(f) PROVE FALSE
      OBVIOUS
    <3>1. PICK m, w : ReadingAt(f, m, w)
      BY DEF Reading
    <3>2. toClient[f][1] = ThePiece(f, m, w + 1 - 1)
      BY <2>1, <3>1 DEF ReadingAt
    <3>3. toClient[f][1].type = "transfer_block"
      BY <3>2, ThePieceIs
    <3> QED
      BY <2>2, <3>3
  <2> QED
    BY <1>2, <1>3, <1>5, <2>2, <2>3, <2>4, EndKeeps
<1>7. CASE DownloaderReads(f) /\ D!OnTransferBlock(f, Head(toClient[f]))
  <2>1. Reading(f)'
    BY <1>5, <1>7, PieceReadKeeps
  <2>2. downloadState'[f] = "reading"
    BY <1>1, <1>7 DEF D!OnTransferBlock
  <2> QED
    BY <1>2, <1>3, <2>1, <2>2 DEF ReadAt
<1> QED
  BY <1>4, <1>6, <1>7 DEF DownloaderMoves, DownloaderReads, DownloaderLosesProxy,
     DownloaderKilled, D!OnMessage, D!OnMessageError, D!Close

----------------------------------------------------------------------------
(* The proxy serves the client that reads.                                 *)

LEMMA RequestComes ==
  ASSUME P!TypeOK, S!TypeOK, NEW f \in Flows, NEW m \in Md5s, P!RequestBlock(f, m),
         NoneComing(f), UNCHANGED <<servers, toProxy, storageState>>
  PROVE  Coming(f, m, 0)'
<1>1. PICK s \in P!Connected :
        toStorage' = [toStorage EXCEPT ![s] = Append(@, DownLoadBlock(m, f))]
  BY DEF P!RequestBlock, P!StoragesOf, P!DownLoadBlock, DownLoadBlock
<1>2. /\ P!Connected' = P!Connected /\ P!Connected \subseteq Servers
      /\ UNCHANGED <<downloadingContext, md5_path, toProxy>>
  BY DEF P!Connected, servers
<1>3. /\ toStorage'[s] = Append(toStorage[s], DownLoadBlock(m, f))
      /\ \A t \in Servers \ {s} : toStorage'[t] = toStorage[t]
  BY <1>1, <1>2 DEF P!TypeOK
<1>4. ASSUME NEW t \in P!Connected
      PROVE  toProxy[t] \in Seq(S!StorageMessage) /\ toStorage[t] \in Seq(P!ToStorageMessage)
             /\ ~BusyOn(toProxy[t], downloadingContext[t][f], toStorage[t], f)
  BY <1>2, <1>4 DEF P!TypeOK, S!TypeOK, NoneComing, Busy
<1>5. ASSUME NEW t \in P!Connected
      PROVE  LineOn(toProxy[t], downloadingContext[t][f], toStorage'[t], md5_path[t], f, m, 0)
  <2>1. CASE t = s
    BY <1>3, <1>4, <2>1, LineAsked
  <2>2. CASE t # s
    <3>1. toStorage'[t] = toStorage[t]
      BY <1>2, <1>3, <2>2
    <3> QED
      BY <1>4, <3>1, LineFree
  <2> QED
    BY <2>1, <2>2
<1>6. \A t \in P!Connected' : Line(t, f, m, 0)'
  BY <1>2, <1>5 DEF Line
<1>7. ASSUME NEW t \in P!Connected, Busy(t, f)' PROVE t = s
  <2>1. BusyOn(toProxy[t], downloadingContext[t][f], toStorage'[t], f)
    BY <1>2, <1>7 DEF Busy
  <2> QED
    BY <1>2, <1>3, <1>4, <2>1
<1> QED
  BY <1>2, <1>6, <1>7 DEF Coming

LEMMA NoneLeft ==
  ASSUME S!TypeOK, NEW f \in Flows, NEW m \in Md5s, Coming(f, m, Pieces[m])
  PROVE  NoneComing(f)
<1> SUFFICES ASSUME NEW s \in P!Connected PROVE ~Busy(s, f)
  BY DEF NoneComing
<1>1. toProxy[s] \in Seq(S!StorageMessage)
  BY DEF S!TypeOK, P!Connected
<1>2. LineOn(toProxy[s], downloadingContext[s][f], toStorage[s], md5_path[s], f, m, Pieces[m])
  BY DEF Coming, Line
<1> QED
  BY <1>1, <1>2, LineOver DEF Busy

LEMMA BlockAsked ==
  ASSUME NEW f, NEW md5s \in Seq(Md5s), NEW n \in Nat, n < Len(md5s), NEW m, m = md5s[n + 1],
         transferingBlockMd5s'[f] = md5s, transferIndex'[f] = n, md5s \in Needs(f)',
         output'[f] = UpTo(md5s, n), toClient'[f] = <<>>, fromClient'[f] = <<>>,
         clientState'[f] = "waiting_transfer_block", Coming(f, m, 0)'
  PROVE  Reading(f)'
<1>1. m \in Md5s /\ Pieces[m] \in Nat /\ 0 \in 0 .. Pieces[m]
  BY PiecesAssumption
<1>2. UpTo(md5s, n) \o Part(m, 0) = UpTo(md5s, n)
  <2>1. UpTo(md5s, n) \in Seq(PieceContent)
    BY ContentSteps
  <2>2. Part(m, 0) = <<>>
    BY <1>1, PartTyped
  <2> QED
    BY <2>1, <2>2
<1>3. /\ 0 + Len(toClient'[f]) = 0 /\ DOMAIN toClient'[f] = {} /\ 0 <= Pieces[m]
  BY <1>1
<1>4. \E v \in Nat : v = 0 + Len(toClient'[f]) /\ Coming(f, m, v)'
  BY <1>3
<1>5. ReadingAt(f, m, 0)'
  BY <1>2, <1>3, <1>4 DEF ReadingAt
<1> QED
  BY <1>1, <1>5, ReadingNext

(* The request names the one block the client holds, so that what the      *)
(* proxy finds to send is what the client needs.                           *)
LEMMA RequestNeeds ==
  ASSUME D!TypeOK, HeldOne, NEW f \in Flows
  PROVE  P!ReallyNeed(DownLoadRequest(wantedFile[f], heldMd5s[f])) = Needs(f)
<1> DEFINE held == heldMd5s[f]
           msg == DownLoadRequest(wantedFile[f], held)
<1>1. held \in Seq(Md5s) /\ Len(held) <= 1
  BY DEF D!TypeOK, HeldOne
<1>2. msg.file_id = wantedFile[f] /\ msg.md5s = IF held = <<>> THEN {} ELSE {held[Len(held)]}
  BY DEF DownLoadRequest
<1>3. msg.md5s = Range(held)
  <2>1. CASE held = <<>>
    BY <1>2, <2>1 DEF Range
  <2>2. CASE held # <<>>
    <3>1. Len(held) = 1
      <4> HIDE DEF held
      <4>1. Len(held) \in Nat /\ Len(held) # 0
        BY <1>1, <2>2, EmptySeq
      <4>2. \A n \in Nat : n # 0 /\ n <= 1 => n = 1
        OBVIOUS
      <4> QED
        BY <1>1, <4>1, <4>2, Zenon
    <3>2. DOMAIN held = {1}
      <4> HIDE DEF held
      <4>1. DOMAIN held = 1 .. Len(held)
        BY <1>1
      <4> QED
        BY <3>1, <4>1
    <3> QED
      BY <1>2, <2>2, <3>1, <3>2 DEF Range
  <2> QED
    BY <2>1, <2>2
<1> HIDE DEF msg
<1>4. P!ReallyNeed(msg) = Kept(wantedFile[f], Md5s \ Range(held))
  <2>1. P!ReallyNeed(msg) = P!Kept(msg.file_id, Md5s \ msg.md5s)
    BY DEF P!ReallyNeed
  <2>2. \A md5s, T : P!Kept(md5s, T) = Kept(md5s, T)
    BY DEF P!Kept, Kept, P!Increasing, Increasing, P!Cardinality, Cardinality
  <2> QED
    BY <1>2, <1>3, <2>1, <2>2
<1> QED
  BY <1>4 DEF msg, Needs, Held

(* A client that the proxy closes keeps what came before. *)
LEMMA ClosedClient ==
  ASSUME P!TypeOK, NEW f \in Flows, P!ClientOnClose(f)
  PROVE  /\ clientState'[f] = "none" /\ toClient[f] \in Seq(P!ClientMessage)
         /\ UNCHANGED <<transferingBlockMd5s, transferIndex>>
         /\ \E n \in 0 .. Len(toClient[f]) : toClient'[f] = SubSeq(toClient[f], 1, n)
BY DEF P!TypeOK, P!ClientOnClose, P!SetClientState, P!Truncated, P!download

LEMMA PartOfSeq ==
  ASSUME NEW T, NEW q \in Seq(T), NEW n \in 0 .. Len(q)
  PROVE  /\ DOMAIN SubSeq(q, 1, n) \subseteq DOMAIN q
         /\ \A i \in DOMAIN SubSeq(q, 1, n) : SubSeq(q, 1, n)[i] = q[i]
         /\ SubSeq(q, 1, n) # <<>> => 1 \in DOMAIN q /\ SubSeq(q, 1, n)[1] = q[1] /\ q # <<>>
<1>1. Len(q) \in Nat /\ DOMAIN q = 1 .. Len(q)
  OBVIOUS
<1>2. /\ Len(SubSeq(q, 1, n)) = n /\ DOMAIN SubSeq(q, 1, n) = 1 .. n
      /\ \A i \in 1 .. n : SubSeq(q, 1, n)[i] = q[i]
  BY <1>1
<1>3. 1 .. n \subseteq 1 .. Len(q) /\ (n # 0 => 1 \in 1 .. n)
  BY <1>1
<1>4. n = 0 => SubSeq(q, 1, n) = <<>>
  BY <1>2
<1>5. 1 \in DOMAIN q => q # <<>>
  OBVIOUS
<1> QED
  BY <1>1, <1>2, <1>3, <1>4, <1>5, Zenon

LEMMA ClosedBegun ==
  ASSUME P!TypeOK, NEW f \in Flows, P!ClientOnClose(f), SameReader(f), Begun(f)
  PROVE  Begun(f)'
<1>1. PICK n \in 0 .. Len(toClient[f]) : toClient'[f] = SubSeq(toClient[f], 1, n)
  BY ClosedClient
<1>2. /\ DOMAIN toClient'[f] \subseteq DOMAIN toClient[f]
      /\ \A i \in DOMAIN toClient'[f] : toClient'[f][i] = toClient[f][i]
  BY <1>1, ClosedClient, PartOfSeq
<1> QED
  BY <1>2, ClosedClient DEF Begun, SameReader

LEMMA ClosedReading ==
  ASSUME P!TypeOK, NEW f \in Flows, P!ClientOnClose(f), SameReader(f), Reading(f)
  PROVE  Reading(f)'
<1>1. PICK m, w : /\ m = WaitedFor(f) /\ m \in Md5s /\ w \in Nat /\ w <= Pieces[m]
                  /\ Pieces[m] \in Nat /\ ReadingAt(f, m, w)
  BY ReadingTyped
<1>2. PICK n \in 0 .. Len(toClient[f]) : toClient'[f] = SubSeq(toClient[f], 1, n)
  BY ClosedClient
<1>3. toClient[f] \in Seq(P!ClientMessage) /\ toClient'[f] \in Seq(P!ClientMessage)
  BY <1>2, ClosedClient, SubSeqProperties
<1>4. Follow(toClient[f], f, m, w) /\ w + Len(toClient[f]) <= Pieces[m]
  BY <1>1 DEF Follow, ReadingAt
<1>5. Follow(toClient'[f], f, m, w) /\ Len(toClient'[f]) <= Len(toClient[f])
  BY <1>1, <1>2, <1>3, <1>4, FollowPart
<1>6. w + Len(toClient'[f]) <= Pieces[m]
  <2>1. Len(toClient'[f]) \in Nat /\ Len(toClient[f]) \in Nat
    BY <1>3
  <2> QED
    BY <1>1, <1>4, <1>5, <2>1
<1>7. clientState'[f] = "none" /\ UNCHANGED <<transferingBlockMd5s, transferIndex>>
  BY ClosedClient
<1>8. output'[f] = UpTo(transferingBlockMd5s'[f], transferIndex'[f]) \o Part(m, w)
  BY <1>1, <1>7 DEF SameReader, ReadingAt
<1>9. ReadingAt(f, m, w)'
  BY <1>5, <1>6, <1>7, <1>8 DEF ReadingAt, Follow
<1>10. Needs(f)' = Needs(f)
  BY NeedsSame DEF SameReader
<1>11. /\ transferingBlockMd5s'[f] \in Needs(f)'
       /\ m = transferingBlockMd5s'[f][transferIndex'[f] + 1]
       /\ transferIndex'[f] < Len(transferingBlockMd5s'[f])
  BY <1>1, <1>7, <1>10 DEF Reading, WaitedFor
<1>12. w \in 0 .. Pieces[m] /\ clientState'[f] \in {"waiting_transfer_block", "none"}
  BY <1>1, <1>7
<1> QED
  BY <1>9, <1>11, <1>12, ReadingNext

LEMMA ClosedEnded ==
  ASSUME P!TypeOK, NEW f \in Flows, P!ClientOnClose(f), SameReader(f), Ended(f)
  PROVE  Ended(f)'
<1>1. PICK n \in 0 .. Len(toClient[f]) : toClient'[f] = SubSeq(toClient[f], 1, n)
  BY ClosedClient
<1>2. toClient'[f] # <<>> => toClient[f] # <<>> /\ toClient'[f][1] = toClient[f][1]
  BY <1>1, ClosedClient, PartOfSeq
<1>3. Needs(f)' = Needs(f)
  BY NeedsSame DEF SameReader
<1> QED
  BY <1>2, <1>3, ClosedClient DEF Ended, SameReader

(* What the proxy reads from a client that has begun is its request. *)
LEMMA RequestRead ==
  ASSUME P!TypeOK, D!TypeOK, NEW f \in Flows, ProxyReadsClient(f), Begun(f)
  PROVE  LET msg == DownLoadRequest(wantedFile[f], heldMd5s[f]) IN
         /\ clientState[f] = "init" /\ NoneComing(f) /\ toClient[f] = <<>> /\ fromClient'[f] = <<>>
         /\ output[f] = <<>> /\ P!HandleDownloadRequest(f, msg)
<1> DEFINE msg == DownLoadRequest(wantedFile[f], heldMd5s[f])
<1>1. clientState[f] = "init" /\ NoneComing(f) /\ fromClient[f] = <<msg>> /\ toClient[f] = <<>>
      /\ output[f] = <<>>
  BY DEF Begun, ProxyReadsClient
<1>2. msg.type = "download_request"
  BY DEF DownLoadRequest
<1> HIDE DEF msg
<1>3. Head(fromClient[f]) = msg /\ Tail(fromClient[f]) = <<>>
  BY <1>1
<1>4. fromClient'[f] = <<>> /\ P!ClientOnMessage(f, msg)
  BY <1>3 DEF ProxyReadsClient, D!TypeOK
<1>5. msg.type \in P!Allowed(clientState[f])
  BY <1>1, <1>2 DEF P!Allowed
<1>6. P!HandleDownloadRequest(f, msg)
  BY <1>1, <1>2, <1>4, <1>5 DEF P!ClientOnMessage, P!ClientHandles, P!ClientMessageError
<1> QED
  BY <1>1, <1>4, <1>6 DEF msg

LEMMA DownloadBegins ==
  ASSUME AskSystem, HeldOne, NEW f \in Flows, ProxyReadsClient(f), Begun(f), NEW msg,
         NEW need \in Needs(f), P!StartDownload(f, msg, need)
  PROVE  Reading(f)'
<1>1. P!TypeOK /\ S!TypeOK /\ D!TypeOK /\ PP!FreshDownload
  BY SystemTypes DEF AskSystem, SystemInv, PP!IInv
<1>2. /\ clientState[f] = "init" /\ NoneComing(f) /\ toClient[f] = <<>> /\ fromClient'[f] = <<>>
      /\ output[f] = <<>>
  BY <1>1, RequestRead
<1>3. transferIndex[f] = 0
  BY <1>1, <1>2 DEF PP!FreshDownload, PP!Unused
<1>4. need \in Seq(Md5s) /\ need # <<>> /\ Len(need) \in Nat /\ 0 < Len(need) /\ need[1] \in Md5s
  <2>1. need \in Seq(Md5s) /\ need # <<>>
    BY <1>1, NeedsTyped DEF P!StartDownload
  <2> QED
    BY <2>1
<1>5. /\ P!RequestBlock(f, need[1]) /\ UNCHANGED <<transferIndex, toClient>>
      /\ transferingBlockMd5s'[f] = need /\ clientState'[f] = "waiting_transfer_block"
  BY <1>1, <1>3 DEF P!StartDownload, P!SetClientState, P!TypeOK
<1>6. UNCHANGED <<servers, toProxy, storageState>> /\ SameReader(f)
  BY ClientSideServers
     DEF ClientSideStep, ProxyServesClient, ProxyReadsClient, clients, downloaders, SameReader
<1>7. Coming(f, need[1], 0)'
  BY <1>1, <1>2, <1>4, <1>5, <1>6, RequestComes
<1>8. output'[f] = UpTo(need, 0) /\ need \in Needs(f)'
  BY <1>2, <1>4, <1>6, ContentSteps, NeedsSame DEF SameReader
<1>9. need[1] = need[0 + 1] /\ transferIndex'[f] = 0 /\ toClient'[f] = <<>>
  BY <1>2, <1>3, <1>5
<1> QED
  BY <1>2, <1>4, <1>5, <1>7, <1>8, <1>9, BlockAsked

LEMMA BegunServed ==
  ASSUME AskSystem, S!TypeOK', HeldOne, NEW f \in Flows, ProxyReadsClient(f), Begun(f)
  PROVE  Begun(f)' \/ Reading(f)'
<1> DEFINE msg == DownLoadRequest(wantedFile[f], heldMd5s[f])
<1>1. P!TypeOK /\ S!TypeOK /\ A!TypeOK /\ D!TypeOK
  BY SystemTypes DEF AskSystem
<1>2. /\ clientState[f] = "init" /\ NoneComing(f) /\ toClient[f] = <<>> /\ fromClient'[f] = <<>>
      /\ output[f] = <<>> /\ P!HandleDownloadRequest(f, msg)
  BY <1>1, RequestRead
<1>3. SameReader(f)
  BY DEF ProxyReadsClient, clients, downloaders, SameReader
<1>4. ASSUME UNCHANGED <<clientState, toStorage>>,
             \A i \in DOMAIN toClient'[f] :
               toClient'[f][i].type \notin {"transfer_block", "transfer_all_blocks"}
      PROVE  Begun(f)'
  <2>1. LinesKept(f)
    BY <1>1, <1>4, ClientSideLines DEF ClientSideStep, ProxyServesClient, Relays
  <2>2. NoneComing(f)'
    BY <1>2, <2>1, ComingKept
  <2> QED
    BY <1>2, <1>3, <1>4, <2>2 DEF Begun, SameReader
<1>5. CASE P!HandleFileNotExist(f, msg)
  <2>1. toClient'[f] = <<P!FileNotExist(msg.file_id)>> /\ UNCHANGED <<clientState, toStorage>>
    BY <1>1, <1>2, <1>5 DEF P!HandleFileNotExist, P!SendToClient, P!TypeOK
  <2>2. P!FileNotExist(msg.file_id).type = "file_not_exist"
    BY DEF P!FileNotExist
  <2> HIDE DEF msg
  <2>3. \A i \in DOMAIN toClient'[f] : toClient'[f][i].type = "file_not_exist"
    BY <2>1, <2>2
  <2> QED
    BY <1>4, <2>1, <2>3
<1>6. ASSUME NEW need \in P!ReallyNeed(msg), P!StartDownload(f, msg, need)
      PROVE  Reading(f)'
  <2>1. need \in Needs(f)
    BY <1>1, <1>6, RequestNeeds
  <2> QED
    BY <1>6, <2>1, DownloadBegins
<1>7. ASSUME NEW need, P!DownloadRefused(f, msg, need) PROVE Begun(f)'
  BY <1>1, <1>3, <1>7, ClosedBegun DEF P!DownloadRefused
<1>8. ASSUME NEW need, P!NothingToTransfer(f, msg, need) PROVE Begun(f)'
  <2>1. UNCHANGED <<clientState, toStorage, toClient>>
    BY <1>8 DEF P!NothingToTransfer, P!Dies
  <2>2. DOMAIN toClient'[f] = {}
    BY <1>2, <2>1
  <2> QED
    BY <1>4, <2>1, <2>2
<1> QED
  BY <1>2, <1>5, <1>6, <1>7, <1>8 DEF P!HandleDownloadRequest

(* What the proxy reads from a client that gets its blocks is the          *)
(* acknowledgement of one that has arrived whole.                          *)
LEMMA AckRead ==
  ASSUME P!TypeOK, S!TypeOK, D!TypeOK, NEW f \in Flows, ProxyReadsClient(f), Reading(f)
  PROVE  /\ clientState[f] = "waiting_transfer_block" /\ NoneComing(f)
         /\ toClient[f] = <<>> /\ fromClient'[f] = <<>>
         /\ output[f] = UpTo(transferingBlockMd5s[f], transferIndex[f] + 1)
         /\ P!HandleTransferBlockAck(f)
<1>1. PICK m, w : /\ m = WaitedFor(f) /\ m \in Md5s /\ w \in Nat /\ w <= Pieces[m]
                  /\ Pieces[m] \in Nat /\ ReadingAt(f, m, w)
  BY ReadingTyped
<1>2. clientState[f] = "waiting_transfer_block"
  BY DEF Reading, ProxyReadsClient
<1>3. /\ w + Len(toClient[f]) <= Pieces[m] /\ w = Pieces[m]
      /\ fromClient[f] = <<TransferBlockAck(m)>>
      /\ \E v \in Nat : v = w + Len(toClient[f]) /\ Coming(f, m, v)
  BY <1>1, <1>2 DEF ReadingAt, ProxyReadsClient
<1>4. toClient[f] = <<>> /\ Len(toClient[f]) = 0
  <2>1. toClient[f] \in Seq(P!ClientMessage) /\ Len(toClient[f]) \in Nat
    BY DEF P!TypeOK
  <2>2. Len(toClient[f]) = 0
    BY <1>1, <1>3, <2>1
  <2> QED
    BY <2>1, <2>2, EmptySeq
<1>5. NoneComing(f)
  <2>1. Coming(f, m, Pieces[m])
    BY <1>1, <1>3, <1>4, SMTT(60)
  <2> QED
    BY <1>1, <2>1, NoneLeft
<1>6. output[f] = UpTo(transferingBlockMd5s[f], transferIndex[f] + 1)
  <2>1. output[f] = UpTo(transferingBlockMd5s[f], transferIndex[f]) \o Part(m, Pieces[m])
    BY <1>1, <1>3 DEF ReadingAt
  <2>2. /\ transferIndex[f] \in 0 .. Len(transferingBlockMd5s[f]) - 1
        /\ transferingBlockMd5s[f] \in Seq(Md5s)
        /\ m = transferingBlockMd5s[f][transferIndex[f] + 1]
    BY <1>1, ReadingTyped DEF WaitedFor
  <2> QED
    BY <2>1, <2>2, ContentSteps
<1> DEFINE msg == TransferBlockAck(m)
<1>7. msg.type = "transfer_block_ack"
  BY DEF TransferBlockAck
<1>8. fromClient[f] = <<msg>>
  BY <1>3
<1> HIDE DEF msg
<1>9. Head(fromClient[f]) = msg /\ Tail(fromClient[f]) = <<>>
  BY <1>8
<1>10. fromClient'[f] = <<>> /\ P!ClientOnMessage(f, msg)
  BY <1>9 DEF ProxyReadsClient, D!TypeOK
<1>11. msg.type \in P!Allowed(clientState[f])
  BY <1>2, <1>7 DEF P!Allowed
<1>12. P!HandleTransferBlockAck(f)
  BY <1>7, <1>10, <1>11 DEF P!ClientOnMessage, P!ClientHandles, P!ClientMessageError
<1> QED
  BY <1>2, <1>4, <1>5, <1>6, <1>10, <1>12

LEMMA NextBegins ==
  ASSUME AskSystem, NEW f \in Flows, ProxyReadsClient(f), Reading(f), P!TransferNextBlock(f)
  PROVE  Reading(f)'
<1>0. PICK md5s, n, m : /\ md5s = transferingBlockMd5s[f] /\ n = transferIndex[f] + 1
                        /\ m = md5s[n + 1]
  OBVIOUS
<1>1. P!TypeOK /\ S!TypeOK /\ D!TypeOK
  BY SystemTypes DEF AskSystem
<1>2. /\ NoneComing(f) /\ toClient[f] = <<>> /\ fromClient'[f] = <<>> /\ output[f] = UpTo(md5s, n)
  BY <1>0, <1>1, AckRead
<1>3. /\ md5s \in Seq(Md5s) /\ md5s \in Needs(f) /\ transferIndex[f] \in Nat
      /\ transferIndex[f] + 1 < Len(md5s)
  BY <1>0, <1>1, ReadingTyped DEF Reading, P!TransferNextBlock, P!ContinueToTransfer
<1>4. n \in Nat /\ n < Len(md5s) /\ n + 1 = transferIndex[f] + 2 /\ n + 1 \in DOMAIN md5s
  BY <1>0, <1>3
<1>5. m \in Md5s
  BY <1>0, <1>3, <1>4
<1>6. /\ transferingBlockMd5s'[f] = md5s /\ transferIndex'[f] = n /\ UNCHANGED toClient
      /\ clientState'[f] = "waiting_transfer_block"
  BY <1>0, <1>1, AckRead DEF P!TransferNextBlock, P!MoveToNextTransferBlockIndex, P!TypeOK
<1>7. P!RequestBlock(f, m)
  BY <1>0, <1>4 DEF P!TransferNextBlock, P!NextBlock
<1>8. UNCHANGED <<servers, toProxy, storageState>> /\ SameReader(f)
  BY ClientSideServers
     DEF ClientSideStep, ProxyServesClient, ProxyReadsClient, clients, downloaders, SameReader
<1>9. Coming(f, m, 0)'
  BY <1>1, <1>2, <1>5, <1>7, <1>8, RequestComes
<1>10. output'[f] = UpTo(md5s, n) /\ md5s \in Needs(f)' /\ toClient'[f] = <<>> /\ m = md5s[n + 1]
  BY <1>0, <1>2, <1>3, <1>6, <1>8, NeedsSame DEF SameReader
<1> QED
  BY <1>2, <1>3, <1>4, <1>6, <1>9, <1>10, BlockAsked

LEMMA LastEnds ==
  ASSUME AskSystem, NEW f \in Flows, ProxyReadsClient(f), Reading(f), P!TransferEnds(f)
  PROVE  Ended(f)'
<1> DEFINE md5s == transferingBlockMd5s[f]
<1>1. P!TypeOK /\ S!TypeOK /\ D!TypeOK
  BY SystemTypes DEF AskSystem
<1>2. toClient[f] = <<>> /\ output[f] = UpTo(md5s, transferIndex[f] + 1)
  BY <1>1, AckRead
<1>3. /\ md5s \in Seq(Md5s) /\ md5s \in Needs(f) /\ transferIndex[f] \in Nat
      /\ transferIndex[f] < Len(md5s) /\ ~(transferIndex[f] + 1 < Len(md5s))
  BY <1>1, ReadingTyped DEF Reading, P!TransferEnds, P!ContinueToTransfer
<1>4. transferIndex[f] + 1 = Len(md5s)
  <2>1. Len(md5s) \in Nat
    BY <1>3
  <2> QED
    BY <1>3, <2>1
<1>5. output[f] = Content(md5s)
  BY <1>2, <1>3, <1>4, ContentSteps
<1>6. /\ toClient'[f] = <<P!TransferAllBlocks>> /\ clientState'[f] = "have_transfered_all_blocks"
      /\ transferingBlockMd5s'[f] = md5s
  BY <1>1, <1>2 DEF P!TransferEnds, P!SendToClient, P!SetClientState, P!TypeOK, P!download
<1>7. P!TransferAllBlocks.type = "transfer_all_blocks"
  BY DEF P!TransferAllBlocks
<1>8. toClient'[f] # <<>> /\ toClient'[f][1].type = "transfer_all_blocks"
  BY <1>6, <1>7
<1>9. SameReader(f)
  BY DEF ProxyReadsClient, clients, downloaders, SameReader
<1>10. md5s \in Needs(f)' /\ output'[f] = Content(md5s)
  BY <1>3, <1>5, <1>9, NeedsSame DEF SameReader
<1> QED
  BY <1>6, <1>8, <1>10 DEF Ended

LEMMA ReadingServed ==
  ASSUME AskSystem, NEW f \in Flows, ProxyReadsClient(f), Reading(f)
  PROVE  Reading(f)' \/ Ended(f)'
<1>1. P!TypeOK /\ S!TypeOK /\ D!TypeOK
  BY SystemTypes DEF AskSystem
<1>2. SameReader(f)
  BY DEF ProxyReadsClient, clients, downloaders, SameReader
<1>3. P!HandleTransferBlockAck(f)
  BY <1>1, AckRead
<1>4. CASE P!TransferRefused(f)
  BY <1>1, <1>2, <1>4, ClosedReading DEF P!TransferRefused
<1> QED
  BY <1>3, <1>4, NextBegins, LastEnds DEF P!HandleTransferBlockAck

LEMMA EndedServed ==
  ASSUME P!TypeOK, NEW f \in Flows, ProxyReadsClient(f), Ended(f)
  PROVE  Ended(f)'
<1>1. SameReader(f) /\ clientState[f] = "have_transfered_all_blocks"
  BY DEF ProxyReadsClient, clients, downloaders, SameReader, Ended
<1>2. P!ClientOnClose(f)
  BY <1>1 DEF ProxyReadsClient, P!ClientOnMessage, P!ClientHandles, P!ClientMessageError
<1> QED
  BY <1>1, <1>2, ClosedEnded

----------------------------------------------------------------------------
(* What one client's steps leave alone.                                    *)

LEMMA ServedDownloads ==
  ASSUME P!TypeOK, NEW f \in Flows, NEW msg, P!ClientOnMessage(f, msg) \/ P!LateMessage(f, msg),
         NEW g \in Flows \ {f}
  PROVE  /\ transferIndex'[g] = transferIndex[g]
         /\ transferingBlockMd5s'[g] = transferingBlockMd5s[g]
<1>1. CASE UNCHANGED P!download
  BY <1>1 DEF P!download
<1>2. CASE P!ClientOnClose(f)
  BY <1>1, <1>2 DEF P!ClientOnClose
<1>3. CASE P!HandleUploadRequest(f, msg) \/ P!HandleUploadAllBlocks(f) \/ P!TransferEnds(f)
           \/ P!HandleFileNotExist(f, msg)
  BY <1>1, <1>3
     DEF P!HandleUploadRequest, P!HandleUploadAllBlocks, P!TransferEnds, P!HandleFileNotExist
<1>4. CASE P!HandleUploadBlock(f, msg)
  BY <1>1, <1>4 DEF P!HandleUploadBlock, P!StartBlock, P!TooFewServers, P!RelayPiece,
     P!RelayToExpired, P!Dies
<1>5. CASE P!HandleDownloadRequest(f, msg)
  <2>1. ASSUME NEW need, P!StartDownload(f, msg, need)
        PROVE  /\ transferIndex'[g] = transferIndex[g]
               /\ transferingBlockMd5s'[g] = transferingBlockMd5s[g]
    BY <2>1 DEF P!StartDownload, P!TypeOK
  <2>2. ASSUME NEW need, P!NothingToTransfer(f, msg, need) PROVE UNCHANGED P!download
    BY <2>2 DEF P!NothingToTransfer, P!Dies
  <2> QED
    BY <1>1, <1>2, <1>3, <1>5, <2>1, <2>2 DEF P!HandleDownloadRequest, P!DownloadRefused
<1>6. CASE P!TransferNextBlock(f)
  BY <1>6 DEF P!TransferNextBlock, P!MoveToNextTransferBlockIndex, P!TypeOK
<1>7. CASE P!LateRecord(f) \/ P!LateIgnored(f, msg)
  BY <1>1, <1>7 DEF P!LateRecord, P!LateIgnored
<1>8. CASE P!LateNextBlock(f)
  BY <1>8 DEF P!LateNextBlock, P!MoveToNextTransferBlockIndex, P!TypeOK
<1>9. ASSUME NEW need, P!LateStart(f, need) \/ P!NothingToTransfer(f, msg, need)
      PROVE  /\ transferIndex'[g] = transferIndex[g]
             /\ transferingBlockMd5s'[g] = transferingBlockMd5s[g]
  BY <1>1, <1>9 DEF P!LateStart, P!NothingToTransfer, P!Dies, P!TypeOK
<1>10. CASE P!ClientOnMessage(f, msg)
  BY <1>2, <1>3, <1>4, <1>5, <1>6, <1>10 DEF P!ClientOnMessage, P!ClientHandles,
     P!HandleTransferBlockAck, P!TransferRefused, P!ClientMessageError
<1>11. CASE P!LateMessage(f, msg)
  BY <1>4, <1>7, <1>8, <1>9, <1>11 DEF P!LateMessage, P!LateHandles
<1> QED
  BY <1>10, <1>11

LEMMA OtherReader ==
  ASSUME AskSystem, NEW f \in Flows, ClientSideStep(f), NEW g \in Flows \ {f}
  PROVE  /\ SameReader(g) /\ SameServed(g)
         /\ toClient'[g] = toClient[g] /\ fromClient'[g] = fromClient[g]
         /\ g >= nextFlow' => g >= nextFlow
<1>1. P!TypeOK /\ S!TypeOK /\ A!TypeOK /\ D!TypeOK /\ AgentInv /\ Unborn /\ AgentPlaced
      /\ SelectedConnected /\ LateGone /\ g \in Nat /\ nextFlow \in Nat
  BY SystemTypes, SystemLate, FlowsAssumption DEF AskSystem, SystemInv, UploadInv, P!TypeOK
<1>2. UNCHANGED downloaders => SameReader(g)
  BY DEF downloaders, SameReader
<1>3. CASE AgentMoves(f)
  <2>1. ClientMoves(f) /\ UNCHANGED downloaders
    <3>1. AgentAt(f) \in Position
      BY <1>1 DEF AgentPlaced
    <3> QED
      BY <1>1, <1>3, <3>1, AgentMovesOnly
         DEF AgentMoves, AgentReads, AgentWrote, AgentLosesProxy, AgentKilled
  <2>2. toClient'[g] = toClient[g]
    BY <1>1, <1>3
       DEF AgentMoves, AgentReads, AgentWrote, AgentLosesProxy, AgentKilled, P!TypeOK
  <2>3. UNCHANGED <<nextFlow, clientState, transferIndex, transferingBlockMd5s>>
        /\ fromClient'[g] = fromClient[g]
    BY <2>1 DEF ClientMoves, SameClient, proxy
  <2> QED
    BY <1>2, <2>1, <2>2, <2>3 DEF SameServed
<1>4. CASE DownloaderMoves(f)
  <2>1. ClientMoves(f)
    BY <1>1, <1>4, DownloaderMovesOnly
  <2>2. toClient'[g] = toClient[g]
    BY <1>1, <1>4
       DEF DownloaderMoves, DownloaderReads, DownloaderLosesProxy, DownloaderKilled, P!TypeOK
  <2>3. UNCHANGED <<nextFlow, clientState, transferIndex, transferingBlockMd5s>>
        /\ fromClient'[g] = fromClient[g] /\ downloadState'[g] = downloadState[g]
    BY <2>1 DEF ClientMoves, SameClient, proxy
  <2>4. UNCHANGED <<wantedFile, heldMd5s>> /\ output'[g] = output[g]
    BY <1>1, <1>4 DEF DownloaderMoves, DownloaderReads, DownloaderLosesProxy, DownloaderKilled,
       D!OnMessage, D!OnTransferBlock, D!OnTransferAllBlocks, D!OnMessageError, D!Close, D!End,
       D!TypeOK
  <2> QED
    BY <2>2, <2>3, <2>4 DEF SameServed, SameReader
<1>5. CASE Connects(f)
  <2>1. /\ nextFlow' = nextFlow + 1 /\ SameClient(g) /\ clientState'[g] = clientState[g]
    BY <1>1, <1>5, ConnectsOnly
  <2>2. UNCHANGED <<transferIndex, transferingBlockMd5s, toClient>>
    BY <1>5 DEF Connects, AgentConnects, DownloaderConnects, P!ClientOnConnection, P!download
  <2>3. SameReader(g)
    <3>1. CASE AgentConnects(f)
      BY <1>2, <3>1 DEF AgentConnects
    <3>2. CASE DownloaderConnects(f)
      BY <1>1, <3>2 DEF DownloaderConnects, D!OnConnection, D!SetState, D!TypeOK, SameReader
    <3> QED
      BY <1>5, <3>1, <3>2 DEF Connects
  <2>4. g >= nextFlow + 1 => g >= nextFlow
    BY <1>1
  <2> QED
    BY <2>1, <2>2, <2>3, <2>4 DEF SameServed, SameClient
<1>6. CASE ProxyServesClient(f)
  <2>1. /\ clientState'[g] = clientState[g] /\ UNCHANGED <<nextFlow, downloaders>>
        /\ fromClient'[g] = fromClient[g]
    BY <1>1, <1>6, ProxyServes DEF ServesOnly
  <2>2. ASSUME NEW msg \in P!FromClientMessage, P!ClientOnMessage(f, msg) \/ P!LateMessage(f, msg)
        PROVE  SameServed(g) /\ toClient'[g] = toClient[g]
    <3>1. toClient'[g] = toClient[g]
      BY <1>1, <2>2, HandlersPassTurn DEF Answers, AsksFor
    <3>2. /\ transferIndex'[g] = transferIndex[g]
          /\ transferingBlockMd5s'[g] = transferingBlockMd5s[g]
      BY <1>1, <2>2, ServedDownloads
    <3> QED
      BY <2>1, <3>1, <3>2 DEF SameServed
  <2>3. ASSUME P!ClientOnClose(f) PROVE SameServed(g) /\ toClient'[g] = toClient[g]
    <3>1. toClient'[g] = toClient[g] /\ UNCHANGED <<transferIndex, transferingBlockMd5s>>
      BY <1>1, <2>3, ClosePassesNoTurn DEF Answers, P!ClientOnClose, P!download
    <3> QED
      BY <2>1, <3>1 DEF SameServed
  <2>4. SameServed(g) /\ toClient'[g] = toClient[g]
    BY <1>1, <1>6, <2>2, <2>3, ClientServed
  <2> QED
    BY <1>2, <2>1, <2>4
<1>7. CASE SessionDestroyed(f)
  BY <1>2, <1>7 DEF SessionDestroyed, P!Expire, P!process, P!download, clients, SameServed
<1> QED
  BY <1>3, <1>4, <1>5, <1>6, <1>7 DEF ClientSideStep

LEMMA ServedReadsOn ==
  ASSUME AskSystem, S!TypeOK', HeldOne, NEW f \in Flows, ProxyReadsClient(f), ReadAt(f)
  PROVE  ReadAt(f)'
<1>1. P!TypeOK /\ A!TypeOK /\ UploadInv /\ LateGone /\ f \in Nat /\ nextFlow \in Nat
  BY SystemTypes, SystemLate, FlowsAssumption DEF AskSystem, P!TypeOK
<1>2. f < nextFlow /\ nextFlow' = nextFlow
  BY <1>1, ServedIsBorn DEF ProxyServesClient
<1>3. SameReader(f)
  BY DEF ProxyReadsClient, clients, downloaders, SameReader
<1>4. CASE downloadState[f] # "reading"
  BY <1>1, <1>2, <1>3, <1>4, IdleStays
<1>5. CASE downloadState[f] = "reading"
  <2>1. Begun(f)' \/ Reading(f)' \/ Ended(f)'
    BY <1>1, <1>5, BegunServed, ReadingServed, EndedServed DEF ReadAt
  <2>2. downloadState'[f] = "reading" /\ ~(f >= nextFlow')
    BY <1>1, <1>2, <1>3, <1>5 DEF SameReader
  <2> QED
    BY <2>1, <2>2 DEF ReadAt
<1> QED
  BY <1>4, <1>5

LEMMA AgentReadsOn ==
  ASSUME AskSystem, NEW f \in Flows, AgentMoves(f), ReadAt(f) PROVE ReadAt(f)'
<1>1. P!TypeOK /\ AgentInv /\ Unborn /\ OneRole /\ f \in Nat /\ nextFlow \in Nat
      /\ AgentAt(f) \in Position
  BY SystemTypes, FlowsAssumption DEF AskSystem, SystemInv, UploadInv, P!TypeOK, AgentPlaced
<1>2. agentState[f] # "init" /\ UNCHANGED nextFlow
  BY <1>1, AgentMovesOnly DEF ClientMoves, proxy
<1>3. downloadState[f] = "init" /\ f < nextFlow
  BY <1>1, <1>2 DEF OneRole, Unborn
<1>4. SameReader(f)
  BY DEF AgentMoves, AgentReads, AgentWrote, AgentLosesProxy, AgentKilled, downloaders, SameReader
<1> QED
  BY <1>1, <1>2, <1>3, <1>4, IdleStays

LEMMA ConnectsReadsOn ==
  ASSUME AskSystem, S!TypeOK', NEW f \in Flows, Connects(f), ReadAt(f) PROVE ReadAt(f)'
<1>1. P!TypeOK /\ S!TypeOK /\ A!TypeOK /\ D!TypeOK /\ Unborn /\ LateGone
      /\ f \in Nat /\ nextFlow \in Nat
  BY SystemTypes, SystemLate, FlowsAssumption DEF AskSystem, UploadInv, P!TypeOK
<1>2. /\ f = nextFlow /\ nextFlow' = nextFlow + 1 /\ clientState[f] = "none"
      /\ clientState'[f] = "init" /\ fromClient[f] = <<>>
  BY <1>1, ConnectsOnly
<1>3. ~(f >= nextFlow') /\ f >= nextFlow
  BY <1>1, <1>2
<1>4. NoneComing(f) /\ toClient[f] = <<>> /\ downloadState[f] = "init" /\ output[f] = <<>>
  BY <1>1, <1>3 DEF ReadAt, Unborn
<1>5. CASE AgentConnects(f)
  <2>1. SameReader(f)
    BY <1>5 DEF AgentConnects, downloaders, SameReader
  <2> QED
    BY <1>3, <1>4, <2>1, IdleStays
<1>6. CASE DownloaderConnects(f)
  <2>1. ~ProxyReadsClient(f) /\ ~ProxyReadsLate(f)
    BY <1>2 DEF ProxyReadsClient, ProxyReadsLate
  <2>2. LinesKept(f)
    BY <1>1, <2>1, ClientSideLines DEF ClientSideStep
  <2>3. NoneComing(f)'
    BY <1>4, <2>2, ComingKept
  <2>4. PICK id, have : D!OnConnection(f, id, have)
    BY <1>6 DEF DownloaderConnects
  <2>5. /\ wantedFile'[f] = id /\ heldMd5s'[f] = have
        /\ downloadState'[f] = "reading" /\ output' = output
        /\ fromClient' = [fromClient EXCEPT ![f] = Append(@, D!DownLoadRequest(id, have))]
    BY <1>1, <2>4 DEF D!OnConnection, D!SetState, D!Send, D!TypeOK
  <2>6. D!DownLoadRequest(id, have) = DownLoadRequest(id, have)
    BY DEF D!DownLoadRequest, DownLoadRequest
  <2>7. fromClient'[f] = <<DownLoadRequest(id, have)>>
    <3>1. fromClient'[f] = Append(fromClient[f], DownLoadRequest(id, have))
      BY <1>1, <2>5, <2>6 DEF A!TypeOK
    <3> QED
      BY <1>2, <3>1
  <2>8. toClient'[f] = <<>> /\ DOMAIN toClient'[f] = {}
    BY <1>4, <1>6 DEF DownloaderConnects, P!ClientOnConnection
  <2>9. Begun(f)'
    BY <1>2, <1>4, <2>3, <2>5, <2>7, <2>8 DEF Begun
  <2> QED
    BY <1>3, <2>5, <2>9 DEF ReadAt
<1> QED
  BY <1>5, <1>6 DEF Connects

LEMMA ClientSideReadsOn ==
  ASSUME AskSystem, S!TypeOK', HeldOne, NoLateReader, ReadInv, NEW f \in Flows,
         ClientSideStep(f), NEW g \in Flows
  PROVE  ReadAt(g)'
<1>1. P!TypeOK /\ S!TypeOK /\ A!TypeOK /\ D!TypeOK /\ UploadInv /\ LateGone
      /\ f \in Nat /\ nextFlow \in Nat
  BY SystemTypes, SystemLate, FlowsAssumption DEF AskSystem, P!TypeOK
<1>2. ReadAt(f) /\ ReadAt(g)
  BY DEF ReadInv
<1>3. CASE g # f
  <2>1. LinesKept(g)
    BY <1>1, <1>3, ClientSideLines
  <2>2. /\ SameReader(g) /\ SameServed(g)
        /\ toClient'[g] = toClient[g] /\ fromClient'[g] = fromClient[g]
        /\ g >= nextFlow' => g >= nextFlow
    BY <1>3, OtherReader
  <2> QED
    BY <1>1, <1>2, <2>1, <2>2, ReadStays
<1>4. ASSUME DownloaderMoves(f) \/ SessionDestroyed(f) PROVE ReadAt(f)'
  <2>1. Relays(f)
    BY <1>4 DEF DownloaderMoves, DownloaderReads, DownloaderLosesProxy, DownloaderKilled,
       SessionDestroyed, P!Expire, Relays
  <2>2. LinesKept(f)
    BY <1>1, <2>1, ClientSideLines
  <2>3. CASE DownloaderMoves(f)
    BY <1>1, <1>2, <2>2, <2>3, DownloaderReadsOn DEF UploadInv
  <2>4. CASE SessionDestroyed(f)
    <3>1. SameReader(f) /\ SameServed(f) /\ UNCHANGED <<toClient, fromClient, nextFlow>>
      BY <2>4 DEF SessionDestroyed, P!Expire, P!process, P!download, clients, downloaders,
         SameServed, SameReader
    <3> QED
      BY <1>1, <1>2, <2>2, <3>1, ReadStays
  <2> QED
    BY <1>4, <2>3, <2>4
<1>5. ASSUME ProxyLosesClient(f) \/ ProxyWriteFails(f) \/ ProxyReadsLate(f) PROVE ReadAt(f)'
  <2>1. downloadState[f] # "reading"
    BY <1>1, <1>5, LateIsNoReader DEF ProxyLosesClient, UploadInv
  <2>3. SameReader(f)
    BY <1>5 DEF ProxyLosesClient, ProxyWriteFails, ProxyReadsLate, clients, downloaders, SameReader
  <2>2. f < nextFlow /\ nextFlow' = nextFlow
    BY <1>1, <1>5, ServedIsBorn DEF ProxyServesClient
  <2> QED
    BY <1>1, <1>2, <2>1, <2>2, <2>3, IdleStays
<1> QED
  BY <1>2, <1>3, <1>4, <1>5, ServedReadsOn, AgentReadsOn, ConnectsReadsOn
     DEF ClientSideStep, ProxyServesClient

----------------------------------------------------------------------------
(* The servers: what reaches the client, and what does not.                *)

LEMMA ServersLeaveDownloads ==
  ASSUME P!TypeOK, S!TypeOK, NEW s \in Servers, StorageMoves(s), NEW f \in Flows
  PROVE  /\ SameReader(f) /\ SameServed(f) /\ UNCHANGED nextFlow /\ fromClient'[f] = fromClient[f]
         /\ ~ProxyStorageStep(s) => toClient'[f] = toClient[f]
<1>1. /\ UNCHANGED <<downloaders, fromClient, nextFlow, clientState>>
  BY StorageMovesOnly
<1>2. UNCHANGED P!download
  <2>1. CASE ServerConnects(s)
    BY <2>1 DEF ServerConnects, P!StorageOnConnection
  <2>2. CASE StorageStep(s) \/ StorageDies(s)
    BY <2>2 DEF StorageStep, StorageReads, StorageWrote, StorageLosesProxy, StorageDies, proxy,
       P!download
  <2>3. CASE P!StorageOnClose(s)
    BY <2>3 DEF P!StorageOnClose
  <2>4. CASE ProxyStorageStep(s)
    BY <2>3, <2>4 DEF ProxyStorageStep, ProxyReadsStorage, ProxyLosesStorage,
       P!StorageOnMessage, P!HandleTransferBlockSet, P!HandleUploadBlockAck,
       P!HandleUploadBlockFail, P!NamelessFail, P!Dies, P!HandleTransferBlock,
       P!StorageMessageError
  <2> QED
    BY <2>1, <2>2, <2>4 DEF StorageMoves
<1>3. ~ProxyStorageStep(s) => UNCHANGED toClient
  BY DEF StorageMoves, ServerConnects, P!StorageOnConnection, StorageStep, StorageReads,
     StorageWrote, StorageLosesProxy, StorageDies
<1> QED
  BY <1>1, <1>2, <1>3 DEF P!download, downloaders, SameReader, SameServed

(* A server's answer reaches a client that waits for one. *)
AnswerComes(f) ==
  clientState[f] # "none" /\ Votes(f) # {} /\ \E msg : toClient'[f] = Append(toClient[f], msg)

LEMMA CalledIsTold ==
  ASSUME P!TypeOK, NEW s \in Servers, NEW f \in Flows, NEW m \in P!AnyMd5, NEW called,
         called \in {P!Remaining(s), blockAckCallbacks[s][m]}, NEW succ, NEW md5,
         P!CallBack(called, succ, md5)
  PROVE  toClient'[f] = toClient[f] \/ AnswerComes(f)
<1>1. toClient'[f] # toClient[f] =>
        f \in P!Notified(called) /\ \E msg : toClient'[f] = Append(toClient[f], msg)
  BY DEF P!CallBack
<1>2. f \in P!Notified(called) => f \in called /\ clientState[f] # "none"
  BY DEF P!Notified
<1>3. ASSUME f \in called PROVE Votes(f) # {}
  <2>1. PICK k \in P!AnyMd5 : f \in blockAckCallbacks[s][k]
    BY <1>3 DEF P!Remaining
  <2>2. <<s, k>> \in Votes(f)
    BY <2>1 DEF Votes
  <2> QED
    BY <2>2
<1> QED
  BY <1>1, <1>2, <1>3 DEF AnswerComes

LEMMA ProxyTells ==
  ASSUME P!TypeOK, S!TypeOK, NEW s \in Servers, ProxyStorageStep(s), NEW f \in Flows
  PROVE  \/ /\ toClient'[f] = toClient[f] \/ AnswerComes(f)
            /\ \/ ~ProxyReadsStorage(s)
               \/ P!StorageOnClose(s)
               \/ ~S!PieceOf(Head(toProxy[s]), f)
         \/ ProxyReadsStorage(s) /\ P!HandleTransferBlock(s, Head(toProxy[s]))
              /\ S!PieceOf(Head(toProxy[s]), f)
<1>0. NoMd5 \in P!AnyMd5
  BY DEF P!AnyMd5
<1>1. CASE P!StorageOnClose(s)
  <2>1. \E md5 : P!CallBack(P!Remaining(s), FALSE, md5)
    BY <1>1 DEF P!StorageOnClose, P!HandleRemainEvent
  <2> QED
    BY <1>0, <1>1, <2>1, CalledIsTold
<1>2. CASE ProxyReadsStorage(s) /\ ~P!StorageOnClose(s)
  <2> DEFINE msg == Head(toProxy[s])
  <2>1. toProxy[s] \in Seq(S!StorageMessage) /\ toProxy[s] # <<>> /\ P!StorageOnMessage(s, msg)
    BY <1>2 DEF ProxyReadsStorage, S!TypeOK
  <2>2. msg \in S!StorageMessage
    BY <2>1
  <2> HIDE DEF msg
  <2>3. CASE P!HandleTransferBlockSet(s, msg)
    BY <2>3 DEF P!HandleTransferBlockSet, S!PieceOf, msg
  <2>4. CASE P!HandleUploadBlockAck(s, msg) \/ P!HandleUploadBlockFail(s, msg)
    <3>1. /\ msg.type # "transfer_block" /\ msg.type \in {"upload_block_ack", "upload_block_fail"}
          /\ \E succ, md5 : P!CallBack(blockAckCallbacks[s][msg.md5], succ, md5)
      BY <2>4 DEF P!HandleUploadBlockAck, P!HandleUploadBlockFail
    <3>2. msg.md5 \in P!AnyMd5
      BY <2>2, <3>1 DEF S!StorageMessage, P!AnyMd5
    <3>3. toClient'[f] = toClient[f] \/ AnswerComes(f)
      BY <3>1, <3>2, CalledIsTold
    <3> QED
      BY <3>1, <3>3 DEF S!PieceOf, msg
  <2>5. CASE P!HandleTransferBlock(s, msg)
    <3>1. CASE S!PieceOf(msg, f)
      BY <1>2, <2>5, <3>1 DEF msg
    <3>2. CASE ~S!PieceOf(msg, f)
      BY <2>5, <3>2 DEF P!HandleTransferBlock, S!PieceOf, msg
    <3> QED
      BY <3>1, <3>2
  <2>6. CASE P!NamelessFail(s, msg)
    BY <2>6 DEF P!NamelessFail, P!Dies, S!PieceOf, msg
  <2> QED
    BY <1>2, <2>1, <2>3, <2>4, <2>5, <2>6 DEF P!StorageOnMessage, P!StorageMessageError
<1> QED
  BY <1>1, <1>2 DEF ProxyStorageStep, ProxyLosesStorage

LEMMA EndedTold ==
  ASSUME P!TypeOK, NEW f \in Flows, SameReader(f), SameServed(f), Ended(f),
         clientState[f] # "none", NEW msg, toClient'[f] = Append(toClient[f], msg)
  PROVE  Ended(f)'
<1>1. toClient[f] \in Seq(P!ClientMessage) /\ toClient[f] # <<>>
  BY DEF P!TypeOK, Ended
<1>2. toClient'[f] # <<>> /\ toClient'[f][1] = toClient[f][1]
  <2>1. Len(toClient[f]) \in Nat /\ Len(toClient[f]) # 0
    BY <1>1, EmptySeq
  <2>2. 1 \in 1 .. Len(toClient[f])
    BY <2>1
  <2> QED
    BY <1>1, <2>2
<1>3. Needs(f)' = Needs(f)
  BY NeedsSame DEF SameReader
<1> QED
  BY <1>1, <1>2, <1>3 DEF Ended, SameReader, SameServed

(* The next piece of the block leaves the one queue that holds it. *)
LEMMA PieceLeaves ==
  ASSUME P!TypeOK, S!TypeOK, S!TypeOK', [Next]_vars, NEW s \in Servers, ProxyReadsStorage(s),
         NEW f \in Flows, P!HandleTransferBlock(s, Head(toProxy[s])),
         S!PieceOf(Head(toProxy[s]), f), NEW m \in Md5s, NEW v, Coming(f, m, v)
  PROVE  /\ v \in Nat /\ Head(toProxy[s]) = ThePiece(f, m, v) /\ v < Pieces[m]
         /\ Coming(f, m, v + 1)'
<1>1. /\ toProxy[s] \in Seq(S!StorageMessage) /\ toProxy[s] # <<>>
      /\ toProxy'[s] = Tail(toProxy[s])
  BY DEF ProxyReadsStorage, S!TypeOK
<1>2. s \in P!Connected /\ P!Connected' = P!Connected /\ P!Connected \subseteq Servers
      /\ UNCHANGED <<downloadingContext, toStorage, md5_path>>
  BY DEF P!HandleTransferBlock, P!Connected, P!storages, ProxyReadsStorage, servers
<1>3. Line(s, f, m, v) /\ Busy(s, f)
  BY <1>1, <1>2, PiecesIn DEF Coming, Busy, BusyOn
<1>4. /\ v \in Nat /\ Head(toProxy[s]) = ThePiece(f, m, v) /\ v < Pieces[m]
      /\ Line(s, f, m, v + 1)'
  BY <1>1, <1>2, <1>3, LineTail DEF Line
<1>5. v + 1 \in Nat
  BY <1>4
<1>6. ASSUME NEW t \in P!Connected, t # s PROVE ~Busy(t, f)' /\ Line(t, f, m, v + 1)'
  <2>1. ~Busy(t, f)
    BY <1>2, <1>3, <1>6 DEF Coming
  <2>2. LineKept(t, f)
    <3>1. StorageMoves(s)
      BY DEF StorageMoves, ProxyStorageStep
    <3> QED
      BY <1>2, <1>6, <3>1, OtherServerLine
  <2>3. ~Busy(t, f)'
    BY <2>1, <2>2 DEF LineKept
  <2> QED
    BY <1>2, <1>5, <2>3, LineFreeNext
<1>7. \A t \in P!Connected' : Line(t, f, m, v + 1)'
  BY <1>2, <1>4, <1>6
<1>8. \A t, u \in P!Connected' : Busy(t, f)' /\ Busy(u, f)' => t = u
  BY <1>2, <1>6
<1>9. Coming(f, m, v + 1)'
  BY <1>7, <1>8 DEF Coming
<1> QED
  BY <1>4, <1>9

LEMMA PieceForwarded ==
  ASSUME P!TypeOK, S!TypeOK, S!TypeOK', [Next]_vars, NEW s \in Servers, ProxyReadsStorage(s),
         NEW f \in Flows, P!HandleTransferBlock(s, Head(toProxy[s])),
         S!PieceOf(Head(toProxy[s]), f), SameReader(f), SameServed(f),
         fromClient'[f] = fromClient[f], clientState[f] # "none", Reading(f)
  PROVE  Reading(f)'
<1>1. PICK m, w : /\ m = WaitedFor(f) /\ m \in Md5s /\ w \in Nat /\ w <= Pieces[m]
                  /\ Pieces[m] \in Nat /\ ReadingAt(f, m, w)
  BY ReadingTyped
<1>2. PICK v \in Nat : v = w + Len(toClient[f]) /\ Coming(f, m, v)
  BY <1>1 DEF ReadingAt
<1>3. Head(toProxy[s]) = ThePiece(f, m, v) /\ v < Pieces[m] /\ Coming(f, m, v + 1)'
  BY <1>1, <1>2, PieceLeaves
<1>4. toClient[f] \in Seq(P!ClientMessage) /\ Len(toClient[f]) \in Nat
  BY DEF P!TypeOK
<1>5. toClient'[f] = Append(toClient[f], ThePiece(f, m, v))
  BY <1>3 DEF P!HandleTransferBlock, S!PieceOf
<1>6. Follow(toClient[f], f, m, w)
  BY <1>1 DEF Follow, ReadingAt
<1>7. Follow(toClient'[f], f, m, w) /\ Len(toClient'[f]) = Len(toClient[f]) + 1
  <2>1. PICK msg : msg = ThePiece(f, m, w + Len(toClient[f]))
    OBVIOUS
  <2>2. /\ Follow(Append(toClient[f], msg), f, m, w)
        /\ Len(Append(toClient[f], msg)) = Len(toClient[f]) + 1
    BY <1>1, <1>4, <1>6, <2>1, FollowAppend
  <2>3. toClient'[f] = Append(toClient[f], msg)
    BY <1>2, <1>5, <2>1
  <2> QED
    BY <2>2, <2>3
<1>8. v + 1 \in Nat /\ v + 1 = w + Len(toClient'[f]) /\ w + Len(toClient'[f]) <= Pieces[m]
  <2>1. \A n, k \in Nat : v = w + n /\ k = n + 1 => v + 1 = w + k
    BY <1>1
  <2>2. v + 1 \in Nat /\ v + 1 <= Pieces[m]
    BY <1>1, <1>3
  <2>3. Len(toClient'[f]) \in Nat /\ Len(toClient'[f]) = Len(toClient[f]) + 1
    BY <1>4, <1>7
  <2>4. v + 1 = w + Len(toClient'[f])
    BY <1>2, <1>4, <2>1, <2>3
  <2> QED
    BY <2>2, <2>4, Zenon
<1>9. \E u \in Nat : u = w + Len(toClient'[f]) /\ Coming(f, m, u)'
  BY <1>3, <1>8
<1>10. output'[f] = UpTo(transferingBlockMd5s'[f], transferIndex'[f]) \o Part(m, w)
  BY <1>1 DEF SameReader, SameServed, ReadingAt
<1>11. fromClient'[f] = <<>> \/ (w = Pieces[m] /\ fromClient'[f] = <<TransferBlockAck(m)>>)
  BY <1>1 DEF ReadingAt
<1>12. ReadingAt(f, m, w)'
  BY <1>7, <1>8, <1>9, <1>10, <1>11 DEF ReadingAt, Follow
<1>13. Needs(f)' = Needs(f)
  BY NeedsSame DEF SameReader
<1>14. /\ transferingBlockMd5s'[f] \in Needs(f)'
       /\ m = transferingBlockMd5s'[f][transferIndex'[f] + 1]
       /\ transferIndex'[f] < Len(transferingBlockMd5s'[f])
  BY <1>1, <1>13 DEF Reading, WaitedFor, SameServed
<1>15. w \in 0 .. Pieces[m] /\ clientState'[f] \in {"waiting_transfer_block", "none"}
  BY <1>1 DEF SameServed, Reading
<1> QED
  BY <1>12, <1>14, <1>15, ReadingNext

LEMMA ToldReadsOn ==
  ASSUME P!TypeOK, NEW f \in Flows, f \in Nat, ReadAt(f), Uncalled, AnswerComes(f), SameReader(f),
         SameServed(f), UNCHANGED nextFlow
  PROVE  ReadAt(f)'
<1>1. f < nextFlow /\ clientState[f] \notin {"init", "waiting_transfer_block", "none"}
      /\ nextFlow \in Nat
  BY DEF Uncalled, Uploaded, AnswerComes, P!TypeOK
<1>2. ~(f >= nextFlow')
  BY <1>1
<1>3. CASE downloadState[f] # "reading"
  BY <1>2, <1>3, IdleStays
<1>4. CASE downloadState[f] = "reading"
  <2>1. Ended(f)
    BY <1>1, <1>4 DEF ReadAt, Begun, Reading
  <2>2. Ended(f)'
    BY <1>1, <2>1, EndedTold DEF AnswerComes
  <2>3. downloadState'[f] = "reading"
    BY <1>4 DEF SameReader
  <2> QED
    BY <1>2, <2>2, <2>3 DEF ReadAt
<1> QED
  BY <1>3, <1>4

LEMMA PieceReadsOn ==
  ASSUME P!TypeOK, S!TypeOK, S!TypeOK', [Next]_vars, NEW s \in Servers, ProxyReadsStorage(s),
         NEW f \in Flows, f \in Nat, P!HandleTransferBlock(s, Head(toProxy[s])),
         S!PieceOf(Head(toProxy[s]), f), SameReader(f), SameServed(f),
         fromClient'[f] = fromClient[f], UNCHANGED nextFlow, ReadAt(f)
  PROVE  ReadAt(f)'
<1>1. ~NoneComing(f)
  <2>1. toProxy[s] \in Seq(S!StorageMessage) /\ toProxy[s] # <<>>
    BY DEF ProxyReadsStorage, S!TypeOK
  <2>2. s \in P!Connected
    BY DEF P!HandleTransferBlock, P!Connected
  <2> QED
    BY <2>1, <2>2, PiecesIn DEF NoneComing, Busy, BusyOn
<1>2. ~(f >= nextFlow')
  BY <1>1 DEF ReadAt
<1>3. CASE downloadState[f] # "reading"
  BY <1>2, <1>3, IdleStays
<1>4. /\ clientState[f] = "none" => toClient'[f] = toClient[f]
      /\ clientState[f] # "none" => \E msg : toClient'[f] = Append(toClient[f], msg)
  BY DEF P!HandleTransferBlock, S!PieceOf
<1>5. Needs(f)' = Needs(f)
  BY NeedsSame DEF SameReader
<1>6. ASSUME Begun(f) PROVE Begun(f)'
  <2>1. clientState[f] = "none"
    BY <1>1, <1>6 DEF Begun
  <2> QED
    BY <1>4, <1>6, <2>1 DEF Begun, SameReader, SameServed
<1>7. ASSUME Reading(f) PROVE Reading(f)'
  <2>1. CASE clientState[f] # "none"
    BY <1>7, <2>1, PieceForwarded
  <2>2. CASE clientState[f] = "none"
    <3>1. PICK m, w : /\ m = WaitedFor(f) /\ w \in 0 .. Pieces[m] /\ ReadingAt(f, m, w)
      BY <1>7 DEF Reading
    <3>2. toClient'[f] = toClient[f] /\ clientState'[f] = "none"
      BY <1>4, <2>2 DEF SameServed
    <3>3. ReadingAt(f, m, w)'
      BY <3>1, <3>2 DEF ReadingAt, SameReader, SameServed
    <3>4. /\ transferingBlockMd5s'[f] \in Needs(f)'
          /\ m = transferingBlockMd5s'[f][transferIndex'[f] + 1]
          /\ transferIndex'[f] < Len(transferingBlockMd5s'[f])
      BY <1>5, <1>7, <3>1 DEF Reading, WaitedFor, SameServed
    <3> QED
      BY <3>1, <3>2, <3>3, <3>4, ReadingNext
  <2> QED
    BY <2>1, <2>2
<1>8. ASSUME Ended(f) PROVE Ended(f)'
  BY <1>4, <1>8, EndedTold, EndedStays
<1>9. CASE downloadState[f] = "reading"
  <2>1. Begun(f)' \/ Reading(f)' \/ Ended(f)'
    BY <1>6, <1>7, <1>8, <1>9 DEF ReadAt
  <2>2. downloadState'[f] = "reading"
    BY <1>9 DEF SameReader
  <2> QED
    BY <1>2, <2>1, <2>2 DEF ReadAt
<1> QED
  BY <1>3, <1>9

LEMMA ServersReadOn ==
  ASSUME AskSystem, DownIdle, Uncalled, MayTear = FALSE, [Next]_vars, S!TypeOK', ReadInv,
         NEW s \in Servers, StorageMoves(s), NEW f \in Flows
  PROVE  ReadAt(f)'
<1>1. P!TypeOK /\ S!TypeOK /\ f \in Nat /\ ReadAt(f)
  BY SystemTypes, FlowsAssumption DEF AskSystem, ReadInv
<1>2. /\ SameReader(f) /\ SameServed(f) /\ UNCHANGED nextFlow /\ fromClient'[f] = fromClient[f]
      /\ ~ProxyStorageStep(s) => toClient'[f] = toClient[f]
  BY <1>1, ServersLeaveDownloads
<1>3. CASE /\ toClient'[f] = toClient[f] \/ AnswerComes(f)
           /\ \/ ~ProxyReadsStorage(s)
              \/ P!StorageOnClose(s)
              \/ ~S!PieceOf(Head(toProxy[s]), f)
  <2>1. LinesKept(f)
    BY <1>3, ServerLines
  <2>2. CASE toClient'[f] = toClient[f]
    BY <1>1, <1>2, <2>1, <2>2, ReadStays
  <2>3. CASE AnswerComes(f)
    BY <1>1, <1>2, <2>3, ToldReadsOn
  <2> QED
    BY <1>3, <2>2, <2>3
<1>4. CASE ~ProxyStorageStep(s)
  BY <1>2, <1>3, <1>4 DEF ProxyStorageStep
<1>5. CASE /\ ProxyReadsStorage(s) /\ P!HandleTransferBlock(s, Head(toProxy[s]))
           /\ S!PieceOf(Head(toProxy[s]), f)
  BY <1>1, <1>2, <1>5, PieceReadsOn
<1> QED
  BY <1>1, <1>3, <1>4, <1>5, ProxyTells

----------------------------------------------------------------------------
(* All of it, and the theorem.                                             *)

ReadBackInv == AskSystem /\ DownIdle /\ Uncalled /\ HeldOne /\ NoLateReader /\ ReadInv

LEMMA ReadBackInit == Init => ReadBackInv
<1> SUFFICES ASSUME Init PROVE ReadBackInv
  OBVIOUS
<1>1. AskSystem
  BY AskSystemInit
<1>2. DownIdle
  BY DEF Init, S!Init, DownIdle
<1>3. Uncalled
  <2>1. \A f \in Flows : Votes(f) = {}
    BY DEF Init, P!Init, P!NoCallbacks, Votes
  <2> QED
    BY <2>1 DEF Uncalled
<1>4. HeldOne /\ NoLateReader
  BY DEF Init, P!Init, D!Init, HeldOne, NoLateReader
<1>5. ASSUME NEW f \in Flows PROVE ReadAt(f)
  <2>1. P!Connected = {} /\ toClient[f] = <<>>
    BY DEF Init, P!Init, P!Connected
  <2>2. output[f] = <<>> /\ downloadState[f] = "init"
    BY DEF Init, D!Init
  <2> QED
    BY <2>1, <2>2 DEF ReadAt, NoneComing
<1> QED
  BY <1>1, <1>2, <1>3, <1>4, <1>5 DEF ReadBackInv, ReadInv

LEMMA ReadNext ==
  ASSUME ReadBackInv, MayTear = FALSE, [Next]_vars, S!TypeOK' PROVE ReadInv'
<1>1. AskSystem /\ DownIdle /\ Uncalled /\ HeldOne /\ NoLateReader /\ ReadInv
      /\ P!TypeOK /\ S!TypeOK
  BY SystemTypes DEF ReadBackInv, AskSystem
<1> SUFFICES ASSUME NEW g \in Flows PROVE ReadAt(g)'
  BY DEF ReadInv
<1>2. ASSUME NEW f \in Flows, ClientSideStep(f) PROVE ReadAt(g)'
  BY <1>1, <1>2, ClientSideReadsOn
<1>3. ASSUME NEW s \in Servers, StorageMoves(s) PROVE ReadAt(g)'
  BY <1>1, <1>3, ServersReadOn
<1>4. CASE UNCHANGED vars
  <2>1. /\ UNCHANGED <<servers, toProxy, storageState, toStorage>>
        /\ SameReader(g) /\ SameServed(g) /\ UNCHANGED <<toClient, fromClient, nextFlow>>
    BY <1>4 DEF vars, proxy, clients, downloaders, SameReader, SameServed
  <2>2. \A s \in Servers : NoNewRequest(g, toStorage[s], toStorage'[s])
    BY <2>1 DEF NoNewRequest
  <2>3. LinesKept(g)
    BY <1>1, <2>1, <2>2, QuietServers
  <2> QED
    BY <1>1, <2>1, <2>3, ReadStays DEF ReadInv
<1> QED
  BY <1>2, <1>3, <1>4, StepKinds

LEMMA AskTyped == AskSystem => S!TypeOK
BY SystemTypes DEF AskSystem

LEMMA ReadBackNext ==
  ASSUME MayTear = FALSE, OneHeld PROVE ReadBackInv /\ [Next]_vars => ReadBackInv'
<1> SUFFICES ASSUME ReadBackInv, [Next]_vars PROVE ReadBackInv'
  OBVIOUS
<1>1. AskSystem /\ DownIdle /\ Uncalled /\ HeldOne /\ NoLateReader /\ UploadInv /\ LateGone
      /\ P!TypeOK /\ S!TypeOK /\ A!TypeOK /\ D!TypeOK
  BY SystemTypes, SystemLate DEF ReadBackInv, AskSystem
<1>2. AskSystem'
  BY <1>1, AskSystemNext
<1>3. S!TypeOK'
  BY <1>2, AskTyped, PTL
<1>4. DownIdle' /\ Uncalled' /\ HeldOne' /\ NoLateReader'
  BY <1>1, DownIdleNext, UncalledNext, HeldOneNext, NoLateReaderNext
<1>5. ReadInv'
  BY <1>3, ReadNext
<1> QED
  BY <1>2, <1>4, <1>5 DEF ReadBackInv

(* ReadBack of FileStorage.tla: what a downloading client has written is,  *)
(* at any time, the start of the blocks it asked for and did not hold, in  *)
(* the file's order, and all of it when it is told the end.  The proxy's   *)
(* one block at a time, the server's pieces one after the other and the    *)
(* client's acknowledgements make it so, whatever else happens; two things *)
(* are assumed.  No server dies between the steps of storing a block: it   *)
(* would announce a torn file when it comes back.  And a client holds at   *)
(* most one block, as its request names no more.                           *)
THEOREM DownloadsReadBack ==
  ASSUME MayTear = FALSE, OneHeld PROVE Spec => []ReadBack
<1>1. Init => ReadBackInv
  BY ReadBackInit
<1>2. ReadBackInv /\ [Next]_vars => ReadBackInv'
  BY ReadBackNext
<1>3. ReadBackInv => ReadBack
  <2> SUFFICES ASSUME ReadBackInv, NEW f \in Flows PROVE ReadsBack(f)
    BY DEF ReadBack, ReadsBack, Needs
  <2>1. P!TypeOK /\ D!TypeOK /\ ReadAt(f)
    BY SystemTypes DEF ReadBackInv, AskSystem, ReadInv
  <2> QED
    BY <2>1, ReadsBackAlways
<1> QED
  BY <1>1, <1>2, <1>3, PTL DEF Spec
==============================================================================
