---------------------------- MODULE RecvBufProofs ----------------------------
(***************************************************************************)
(* Proofs about the receive buffer, for every size of a header, of the     *)
(* buffer, of stackbuf and of the messages, and receives cut anywhere:     *)
(* the indices, the bytes, the byte order, and that RecvBuf implements     *)
(* VarFifo.                                                                *)
(***************************************************************************)
EXTENDS RecvBuf, FiniteSetTheorems, SequenceTheorems, TLAPS

-----------------------------------------------------------------------------
(* Induction and recursion over an interval.                               *)

\* Induction over 0 .. top, for a set: the numbers that are missing from T would
\* have a least one.
LEMMA UpTo ==
  ASSUME NEW top \in Nat, NEW T, 0 \in T, \A k \in 0 .. top - 1 : k \in T => k + 1 \in T
  PROVE  \A k \in 0 .. top : k \in T
<1> DEFINE D == 0 .. top
           Missing == {k \in D : k \notin T}
           Below == {0 .. k : k \in Missing}
<1> SUFFICES ASSUME Missing # {} PROVE FALSE
  OBVIOUS
<1>1. IsFiniteSet(D)
  BY FS_Interval
<1>2. Below \subseteq SUBSET D /\ Below # {}
  OBVIOUS
<1>3. PICK A \in Below : \A B \in Below : ~ (<<B, A>> \in StrictSubsetOrdering(D))
  <2>1. FiniteSubsetsOf(D) = SUBSET D
    <3> HIDE DEF D
    <3> QED BY <1>1, FS_FiniteSubsetsOfFinite
  <2> HIDE DEF Below, D
  <2> QED BY <2>1, <1>1, <1>2, FS_StrictSubsetOrderingWellFounded, WFMin
<1>4. PICK k \in Missing : A = 0 .. k
  OBVIOUS
<1>5. k - 1 \in Missing
  OBVIOUS
<1>6. 0 .. k - 1 \in Below
  BY <1>5
<1>7. <<0 .. k - 1, A>> \in StrictSubsetOrdering(D)
  <2>1. 0 .. k - 1 \subseteq A /\ A \subseteq D /\ k \in A /\ k \notin 0 .. k - 1
    BY <1>4
  <2> QED BY <2>1 DEF StrictSubsetOrdering
<1> QED BY <1>3, <1>6, <1>7

\* The step of a recursion stays in D.
Closed(D, top, step) == \A i \in 1 .. top, x \in D : step[<<i, x>>] \in D

\* g has the values of the recursion.
Recurs(g, D, top, first, step) ==
  g \in [0 .. top -> D] /\ g[0] = first /\ \A i \in 1 .. top : g[i] = step[<<i, g[i - 1]>>]

\* A function defined by recursion over 0 .. top exists, and its values are in every
\* set that has the first value and is closed under the step.
LEMMA Recursion ==
  ASSUME NEW top \in Nat, NEW D, NEW first \in D, NEW step, Closed(D, top, step)
  PROVE  \E g : Recurs(g, D, top, first, step)
<1> DEFINE Good(k, g) == g[0] = first /\ \A i \in 1 .. k : g[i] = step[<<i, g[i - 1]>>]
           T == {k \in 0 .. top : \E g \in [0 .. k -> D] : Good(k, g)}
<1> USE DEF Recurs
<1>1. 0 \in T
  <2> DEFINE g == [i \in 0 .. 0 |-> first]
  <2>1. g \in [0 .. 0 -> D] /\ g[0] = first /\ 1 .. 0 = {}
    OBVIOUS
  <2> HIDE DEF g
  <2>2. Good(0, g)
    BY <2>1
  <2> QED BY <2>1, <2>2
<1>2. ASSUME NEW k \in 0 .. top - 1, k \in T PROVE k + 1 \in T
  <2>1. PICK g \in [0 .. k -> D] : Good(k, g)
    BY <1>2
  <2> DEFINE v == step[<<k + 1, g[k]>>]
             h == [i \in 0 .. k + 1 |-> IF i <= k THEN g[i] ELSE v]
  <2>2. v \in D
    BY SMTT(30) DEF Closed
  <2> HIDE DEF v
  <2>3. h \in [0 .. k + 1 -> D]
    BY <2>2
  <2>4. h[0] = first
    BY <2>1
  <2>5. ASSUME NEW i \in 1 .. k + 1 PROVE h[i] = step[<<i, h[i - 1]>>]
    <3>1. CASE i = k + 1
      <4>1. h[i] = v /\ h[i - 1] = g[k]
        BY <3>1
      <4> QED BY <4>1, <3>1 DEF v
    <3>2. CASE i <= k
      BY <3>2, <2>1
    <3> QED BY <3>1, <3>2
  <2> HIDE DEF h
  <2> QED BY <2>3, <2>4, <2>5
<1>3. top \in T
  <2> HIDE DEF T
  <2> QED BY <1>1, <1>2, UpTo
<1> QED BY <1>3

-----------------------------------------------------------------------------
(* The inductive invariant.                                                *)

\* The messages of the stream, heartbeats included, and their bytes.
AnyMsg == Message \cup {HeartbeatMsg(a) : a \in UInt}
Unit == [msg : AnyMsg, pos : Nat, host : BOOLEAN]
Cell == Unit \cup {Junk}

Size(c) == RoundUp(c.msg.size)

\* The byte is the last one of its message.
Ends(c) == c.pos + 1 = Size(c)

\* The bytes of messages one after the other, from the start of one.
Chain(G) ==
  /\ Len(G) > 0 => G[1].pos = 0
  /\ \A i \in 1 .. Len(G) : G[i].pos < Size(G[i])
  /\ \A i \in 1 .. Len(G) - 1 :
       IF Ends(G[i]) THEN G[i + 1].pos = 0
       ELSE G[i + 1].msg = G[i].msg /\ G[i + 1].pos = G[i].pos + 1

\* A message ends after c bytes.
Bound(G, c) == c > 0 => Ends(G[c])

\* Where the last message before the byte at i began.
Start(G, i) == i - 1 - G[i].pos

\* The headers before c are in host byte order, and the one at c if it is among
\* the first o bytes.
Host(G, c, o) ==
  \A i \in 1 .. Len(G) :
    G[i].host <=> G[i].pos < HDR /\ (Start(G, i) < c \/ (Start(G, i) = c /\ c + HDR <= o))

\* The message at c is not complete in the first o bytes.
Partial(G, c, o) == c + HDR <= o => o < c + Size(G[c + 1])

\* at[i] is how many of the first i bytes belong to messages.
Counts(G, F, at) ==
  /\ at \in [0 .. Len(G) -> 0 .. Len(F)]
  /\ at[0] = 0 /\ at[Len(G)] = Len(F)
  /\ \A i \in 1 .. Len(G) :
       IF IsHeartbeat(G[i].msg) THEN at[i] = at[i - 1]
       ELSE /\ at[i] = at[i - 1] + 1
            /\ G[i].msg = F[at[i]].msg /\ G[i].pos = F[at[i]].pos

Match(G, F) == \E at : Counts(G, F, at)

\* What is unread in the buffer, what is in flight and what the peer has not
\* sent, of the bytes F of its messages.
View(b, x, F, u) ==
  [i \in 1 .. (b.w - b.r) + Len(x) + (Len(F) - u) |->
     IF i <= b.w - b.r THEN b.mem[b.r + i - 1]
     ELSE IF i <= (b.w - b.r) + Len(x) THEN x[i - (b.w - b.r)]
     ELSE F[u + i - ((b.w - b.r) + Len(x))]]

BufOK(b) ==
  /\ b \in [mem : [0 .. MaxSize - 1 -> Cell], size : Nat, w : Nat, n : Nat, r : Nat]
  /\ b.r <= b.n /\ b.n <= b.w /\ b.w <= b.size
  /\ InitSize <= b.size /\ b.size <= MaxSize /\ b.size % HDR = 0

\* The stream G, with c bytes of complete messages in front, of which o were looked at.
Framed(G, F, c, o) ==
  /\ G \in Seq(Unit) /\ Chain(G) /\ Bound(G, Len(G))
  /\ Bound(G, c) /\ Host(G, c, o) /\ Partial(G, c, o)
  /\ Match(G, F)

Shown(G, m, c) == m # NoMsg => ~ IsHeartbeat(m) /\ c > 0 /\ G[1].msg = m

Types ==
  /\ up \in BOOLEAN /\ popped \in BOOLEAN
  /\ pend \in Seq(Message) /\ sentu \in 0 .. Len(Flat(pend))
  /\ wire \in Seq(Unit) /\ Len(wire) <= WireCap
  /\ posted \in UInt /\ acked \in UInt /\ peer_ack \in UInt
  /\ closes \in 0 .. MaxCloses

Stream == View(Buf, wire, Flat(pend), sentu)

IInv ==
  /\ Types /\ BufOK(Buf)
  /\ Framed(Stream, Flat(pend), n - r, w - r)
  /\ Shown(Stream, shown, n - r)

-----------------------------------------------------------------------------
(* Arithmetic of headers and of sizes.                                     *)

\* The numbers among the constants.
LEMMA Constants ==
  /\ HDR \in Nat /\ HDR > 0 /\ InitSize \in Nat /\ MaxSize \in Nat /\ StackSize \in Nat
  /\ InitSize > 0 /\ InitSize <= MaxSize /\ InitSize % HDR = 0 /\ MaxSize % HDR = 0
  /\ WireCap \in Nat /\ PeerCap \in Nat /\ MaxCloses \in Nat
  /\ MaxReplies \in Nat /\ MaxReplies < HalfRange /\ HalfRange \in Nat /\ HalfRange > 0
BY RecvBufAssumption, HalfRangeAssumption

\* Division by the size of a header.
LEMMA Divided ==
  ASSUME NEW a \in Nat
  PROVE  /\ a \div HDR \in Nat
         /\ a = (a \div HDR) * HDR + (a % HDR)
         /\ a % HDR \in Nat /\ a % HDR < HDR
         /\ (a \div HDR) * HDR \in Nat
         /\ (a \div HDR) * HDR <= a
<1>1. a \div HDR \in Nat /\ a % HDR \in Nat /\ a % HDR < HDR
  BY Constants
<1>2. a = HDR * (a \div HDR) + (a % HDR)
  BY Constants
<1> DEFINE q == a \div HDR
           p == a % HDR
<1> HIDE DEF q, p
<1>3. q \in Nat /\ p \in Nat /\ p < HDR /\ a = HDR * q + p
  BY <1>1, <1>2 DEF q, p
<1>4. q * HDR = HDR * q /\ q * HDR \in Nat
  BY <1>3, Constants
<1>5. a = q * HDR + p /\ q * HDR <= a
  BY <1>3, <1>4
<1> QED BY <1>3, <1>4, <1>5 DEF q, p

\* A multiple of the size of a header leaves no remainder.
LEMMA Multiple ==
  ASSUME NEW a \in Nat, NEW q \in Nat, a = q * HDR
  PROVE  a % HDR = 0
<1> DEFINE p == a \div HDR
           z == a % HDR
<1>1. p \in Nat /\ z \in Nat /\ z < HDR /\ a = p * HDR + z
  BY Divided
<1> HIDE DEF p, z
<1>2. z = (q - p) * HDR
  BY <1>1, Constants
<1>3. q - p <= 0 => (q - p) * HDR <= 0
  BY <1>1, Constants
<1>4. q - p >= 1 => (q - p) * HDR >= HDR
  BY <1>1, Constants
<1>5. z = 0
  BY <1>1, <1>2, <1>3, <1>4, Constants
<1> QED BY <1>5 DEF z

\* What RoundUp() gives: the next multiple of a header.
LEMMA Rounded ==
  ASSUME NEW a \in Nat
  PROVE  /\ RoundUp(a) \in Nat /\ RoundUp(a) >= a
         /\ RoundUp(a) % HDR = 0 /\ RoundUp(a) < a + HDR
<1> DEFINE e == a + HDR - 1
<1>1. e \in Nat
  BY Constants
<1> HIDE DEF e
<1> DEFINE q == e \div HDR
<1>2. q \in Nat /\ q * HDR \in Nat /\ q * HDR <= e /\ e < q * HDR + HDR
  BY <1>1, Divided, Constants
<1>3. RoundUp(a) = q * HDR
  BY DEF RoundUp, e
<1> HIDE DEF q
<1>4. (q * HDR) % HDR = 0
  BY <1>2, Multiple
<1> DEFINE z == q * HDR
<1>5. z \in Nat /\ z <= e /\ e < z + HDR /\ RoundUp(a) = z /\ z % HDR = 0
  BY <1>2, <1>3, <1>4
<1> HIDE DEF z
<1>6. z >= a /\ z < a + HDR
  BY <1>5, Constants DEF e
<1> QED BY <1>5, <1>6

\* Twice a multiple is a multiple.
LEMMA Doubled ==
  ASSUME NEW a \in Nat, a % HDR = 0
  PROVE  (a * 2) % HDR = 0
<1> DEFINE q == a \div HDR
<1>1. q \in Nat /\ a = q * HDR
  BY Divided
<1> HIDE DEF q
<1>2. 2 * q \in Nat /\ (2 * q) * HDR = 2 * (q * HDR)
  BY <1>1, Constants
<1>3. a * 2 \in Nat /\ a * 2 = (2 * q) * HDR
  BY <1>1, <1>2
<1> QED BY <1>2, <1>3, Multiple

\* A header alone is not rounded.
LEMMA HeaderRounded == RoundUp(HDR) = HDR
<1> DEFINE z == RoundUp(HDR)
<1>1. z \in Nat /\ z >= HDR /\ z < HDR + HDR /\ z % HDR = 0
  BY Rounded, Constants
<1> DEFINE q == z \div HDR
<1>2. q \in Nat /\ z = q * HDR
  BY <1>1, Divided
<1> HIDE DEF z, q
<1>3. q >= 2 => q * HDR >= HDR + HDR
  BY <1>2, Constants
<1>4. q <= 0 => q * HDR = 0
  BY <1>2, Constants
<1>5. q = 1
  BY <1>1, <1>2, <1>3, <1>4, Constants
<1>6. z = HDR
  BY <1>2, <1>5, Constants
<1> QED BY <1>6 DEF z

\* The loop over the headers has enough iterations for every header that fits.
LEMMA EnoughIterations ==
  /\ MaxSize \div HDR + 1 \in Nat
  /\ (MaxSize \div HDR + 1) * HDR > MaxSize
<1> DEFINE q == MaxSize \div HDR
<1>1. q \in Nat /\ q * HDR \in Nat /\ MaxSize < q * HDR + HDR
  BY Divided, Constants
<1> HIDE DEF q
<1>2. (q + 1) * HDR = q * HDR + HDR
  BY <1>1, Constants
<1>3. q + 1 \in Nat /\ (q + 1) * HDR > MaxSize
  BY <1>1, <1>2
<1> QED BY <1>3 DEF q

-----------------------------------------------------------------------------
(* Messages and their bytes.                                               *)

\* A message of the peer is not a heartbeat, and no message is NoMsg; each has at
\* least a header.
LEMMA Messages ==
  /\ \A m \in Message : m.id # 0 /\ m.size \in Nat /\ m.size >= HDR /\ m.ack \in UInt
  /\ \A m \in AnyMsg : m.size \in Nat /\ m.size >= HDR /\ m.ack \in UInt
  /\ \A m \in AnyMsg : ~ IsHeartbeat(m) => m \in Message
  /\ \A m \in AnyMsg : IsHeartbeat(m) => m.size = HDR
  /\ NoMsg \notin AnyMsg
<1>1. \A m \in Message : m.id # 0 /\ m.size \in Nat /\ m.size >= HDR /\ m.ack \in UInt
  BY RecvBufAssumption DEF Message
<1>2. ASSUME NEW a \in UInt
      PROVE  HeartbeatMsg(a).id = 0 /\ HeartbeatMsg(a).size = HDR /\ HeartbeatMsg(a).ack = a
  BY DEF HeartbeatMsg
<1>3. NoMsg.size = 0
  BY DEF NoMsg
<1> QED BY <1>1, <1>2, <1>3, Constants DEF AnyMsg, IsHeartbeat

\* The size of a message on the wire.
LEMMA Sized ==
  ASSUME NEW m \in AnyMsg
  PROVE  /\ RoundUp(m.size) \in Nat /\ RoundUp(m.size) >= HDR
         /\ RoundUp(m.size) >= 1 /\ RoundUp(m.size) % HDR = 0
         /\ IsHeartbeat(m) => RoundUp(m.size) = HDR
BY Messages, Rounded, HeaderRounded, Constants

\* The fields of a byte.
LEMMA Units ==
  ASSUME NEW c \in Unit
  PROVE  /\ c.msg \in AnyMsg /\ c.pos \in Nat /\ c.host \in BOOLEAN
         /\ Size(c) \in Nat /\ Size(c) >= HDR /\ Size(c) >= 1
         /\ c = [msg |-> c.msg, pos |-> c.pos, host |-> c.host]
<1>1. c.msg \in AnyMsg /\ c.pos \in Nat /\ c.host \in BOOLEAN
  BY DEF Unit
<1>2. c = [msg |-> c.msg, pos |-> c.pos, host |-> c.host]
  BY DEF Unit
<1> QED BY <1>1, <1>2, Sized DEF Size

\* The bytes of one message.
LEMMA BytesOf ==
  ASSUME NEW m \in AnyMsg
  PROVE  /\ Bytes(m) \in Seq(Unit) /\ Len(Bytes(m)) = RoundUp(m.size)
         /\ \A i \in 1 .. RoundUp(m.size) : /\ Bytes(m)[i].msg = m
                                            /\ Bytes(m)[i].pos = i - 1
                                            /\ Bytes(m)[i].host = FALSE
<1> DEFINE len == RoundUp(m.size)
<1>1. len \in Nat
  BY Sized
<1>2. Bytes(m) = [i \in 1 .. len |-> [msg |-> m, pos |-> i - 1, host |-> FALSE]]
  BY DEF Bytes
<1> HIDE DEF len
<1>3. \A i \in 1 .. len : Bytes(m)[i] = [msg |-> m, pos |-> i - 1, host |-> FALSE]
  BY <1>2
<1>4. \A i \in 1 .. len : [msg |-> m, pos |-> i - 1, host |-> FALSE] \in Unit
  BY <1>1 DEF Unit
<1>5. Bytes(m) \in [1 .. len -> Unit]
  BY <1>2, <1>4
<1>6. Bytes(m) \in Seq(Unit) /\ Len(Bytes(m)) = len
  BY <1>5, <1>1
<1> QED BY <1>3, <1>6 DEF len

\* They are one whole message.
LEMMA BytesChain ==
  ASSUME NEW m \in AnyMsg
  PROVE  Chain(Bytes(m)) /\ Bound(Bytes(m), Len(Bytes(m))) /\ Len(Bytes(m)) >= 1
<1> DEFINE len == RoundUp(m.size)
           B == Bytes(m)
<1>1. len \in Nat /\ len >= 1 /\ Len(B) = len
  BY Sized, BytesOf
<1>2. \A i \in 1 .. len : B[i].msg = m /\ B[i].pos = i - 1 /\ Size(B[i]) = len
  BY BytesOf DEF Size
<1> HIDE DEF len, B
<1>3. Chain(B)
  BY <1>1, <1>2 DEF Chain, Ends
<1>4. Bound(B, Len(B))
  BY <1>1, <1>2 DEF Bound, Ends
<1> QED BY <1>1, <1>3, <1>4 DEF B

\* Two streams of whole messages, one after the other.
LEMMA ChainConcat ==
  ASSUME NEW G \in Seq(Unit), NEW H \in Seq(Unit), Chain(G), Bound(G, Len(G)), Chain(H)
  PROVE  /\ G \o H \in Seq(Unit) /\ Chain(G \o H)
         /\ Bound(H, Len(H)) => Bound(G \o H, Len(G \o H))
<1> DEFINE K == G \o H
           a == Len(G)
           b == Len(H)
<1>1. K \in Seq(Unit) /\ Len(K) = a + b /\ a \in Nat /\ b \in Nat
      /\ \A i \in 1 .. a + b : K[i] = IF i <= a THEN G[i] ELSE H[i - a]
  BY ConcatProperties
<1>2. \A i \in 1 .. a : K[i] = G[i]
  BY <1>1
<1>3. \A i \in 1 .. b : K[a + i] = H[i]
  BY <1>1
<1> HIDE DEF K, a, b
<1>4. a + b > 0 => K[1].pos = 0
  <2>1. CASE a > 0
    BY <2>1, <1>1, <1>2 DEF Chain, a
  <2>2. CASE a = 0 /\ b > 0
    BY <2>2, <1>1, <1>3 DEF Chain, b
  <2> QED BY <2>1, <2>2, <1>1
<1>5. ASSUME NEW i \in 1 .. a + b PROVE K[i].pos < Size(K[i])
  <2>1. CASE i <= a
    BY <2>1, <1>1, <1>2 DEF Chain, a
  <2>2. CASE i > a
    <3>1. PICK d \in 1 .. b : i = a + d
      BY <2>2, <1>1
    <3>2. K[i] = H[d]
      BY <3>1, <1>3
    <3> QED BY <3>1, <3>2 DEF Chain, b
  <2> QED BY <2>1, <2>2, <1>1
<1>6. ASSUME NEW i \in 1 .. a + b - 1
      PROVE  IF Ends(K[i]) THEN K[i + 1].pos = 0
             ELSE K[i + 1].msg = K[i].msg /\ K[i + 1].pos = K[i].pos + 1
  <2>1. CASE i < a
    BY <2>1, <1>1, <1>2 DEF Chain, a
  <2>2. CASE i = a
    <3>1. Ends(G[a])
      BY <2>2, <1>1 DEF Bound, a
    <3>2. K[i] = G[a] /\ K[i + 1] = H[1] /\ b > 0
      BY <2>2, <1>1
    <3> QED BY <3>1, <3>2 DEF Chain, b
  <2>3. CASE i > a
    <3>1. PICK d \in 1 .. b - 1 : i = a + d
      BY <2>3, <1>1
    <3>2. K[i] = H[d] /\ i + 1 = a + (d + 1) /\ d + 1 \in 1 .. b
      BY <3>1, <1>1, <1>3
    <3>3. K[i + 1] = H[d + 1]
      BY <3>2, <1>3
    <3> QED BY <3>1, <3>2, <3>3 DEF Chain, b
  <2> QED BY <2>1, <2>2, <2>3, <1>1
<1>7. Chain(K)
  BY <1>1, <1>4, <1>5, <1>6 DEF Chain
<1>8. Bound(H, b) => Bound(K, a + b)
  <2>1. CASE b > 0
    BY <2>1, <1>1 DEF Bound
  <2>2. CASE b = 0
    BY <2>2, <1>1 DEF Bound, a
  <2> QED BY <2>1, <2>2, <1>1
<1> QED BY <1>1, <1>7, <1>8 DEF K, a, b

\* The bytes of a sequence of messages: what a stream holds when nothing of it was
\* sent, so that no header is converted.
Fresh == {G \in Seq(Unit) : /\ Chain(G) /\ Bound(G, Len(G))
                            /\ \A i \in 1 .. Len(G) : ~ G[i].host /\ ~ IsHeartbeat(G[i].msg)}

\* Fresh streams can be put together.
LEMMA FreshConcat ==
  ASSUME NEW G \in Fresh, NEW m \in Message
  PROVE  G \o Bytes(m) \in Fresh
<1> DEFINE B == Bytes(m)
           K == G \o B
<1>1. m \in AnyMsg /\ ~ IsHeartbeat(m)
  BY Messages DEF AnyMsg, IsHeartbeat
<1>2. B \in Seq(Unit) /\ Chain(B) /\ Bound(B, Len(B))
      /\ \A i \in 1 .. Len(B) : ~ B[i].host /\ ~ IsHeartbeat(B[i].msg)
  BY <1>1, BytesOf, BytesChain
<1>3. G \in Seq(Unit) /\ Chain(G) /\ Bound(G, Len(G))
      /\ \A i \in 1 .. Len(G) : ~ G[i].host /\ ~ IsHeartbeat(G[i].msg)
  BY DEF Fresh
<1> HIDE DEF B
<1>4. K \in Seq(Unit) /\ Chain(K) /\ Bound(K, Len(K))
  BY <1>2, <1>3, ChainConcat
<1>5. Len(K) = Len(G) + Len(B)
      /\ \A i \in 1 .. Len(G) + Len(B) : K[i] = IF i <= Len(G) THEN G[i] ELSE B[i - Len(G)]
  BY <1>2, <1>3, ConcatProperties
<1> HIDE DEF K
<1>6. ASSUME NEW i \in 1 .. Len(K) PROVE ~ K[i].host /\ ~ IsHeartbeat(K[i].msg)
  BY <1>2, <1>3, <1>5
<1>7. K \in Fresh
  BY <1>4, <1>6 DEF Fresh
<1> QED BY <1>7 DEF K, B

\* The recursive function in Flat().
LEMMA FlatFunction ==
  ASSUME NEW s \in Seq(Message)
  PROVE  \E f \in [0 .. Len(s) -> Fresh] :
           /\ f[0] = <<>> /\ \A i \in 1 .. Len(s) : f[i] = f[i - 1] \o Bytes(s[i])
           /\ Flat(s) = f[Len(s)]
<1> DEFINE top == Len(s)
           step == [p \in (1 .. top) \X Fresh |-> p[2] \o Bytes(s[p[1]])]
           first == <<>>
           Body(f) == [i \in 0 .. Len(s) |-> IF i = 0 THEN <<>> ELSE f[i - 1] \o Bytes(s[i])]
           flat == CHOOSE f : f = Body(f)
<1>1. top \in Nat /\ \A i \in 1 .. top : s[i] \in Message
  OBVIOUS
<1>2. first \in Fresh
  BY DEF Fresh, Chain, Bound
<1>3. \A i \in 1 .. top, x \in Fresh : step[<<i, x>>] = x \o Bytes(s[i])
  OBVIOUS
<1>4. Closed(Fresh, top, step)
  <2>1. \A i \in 1 .. top, x \in Fresh : x \o Bytes(s[i]) \in Fresh
    BY <1>1, FreshConcat
  <2> QED BY <1>3, <2>1 DEF Closed
<1> HIDE DEF first, step
<1>5. PICK g : Recurs(g, Fresh, top, first, step)
  <2> HIDE DEF top
  <2> QED BY <1>1, <1>2, <1>4, Recursion
<1> USE DEF Recurs
<1>6. ASSUME NEW i \in 1 .. top PROVE g[i] = g[i - 1] \o Bytes(s[i])
  <2>1. g[i] = step[<<i, g[i - 1]>>] /\ g[i - 1] \in Fresh
    BY <1>1, <1>5, SMTT(30)
  <2> QED BY <2>1, <1>3
<1>7. g = Body(g)
  <2>1. ASSUME NEW i \in 0 .. top
        PROVE  g[i] = IF i = 0 THEN <<>> ELSE g[i - 1] \o Bytes(s[i])
    <3>1. CASE i = 0
      BY <3>1, <1>5 DEF first
    <3>2. CASE i # 0
      <4>1. i \in 1 .. top
        BY <3>2, <1>1
      <4>2. g[i] = g[i - 1] \o Bytes(s[i])
        BY <4>1, <1>6
      <4> QED BY <4>2, <3>2
    <3> QED BY <3>1, <3>2
  <2>2. g = [i \in 0 .. top |-> g[i]]
    BY <1>5
  <2> QED BY <2>1, <2>2
<1>8. flat = Body(flat)
  <2> HIDE DEF Body
  <2> QED BY <1>7
<1>9. Flat(s) = flat[Len(s)]
  BY DEF Flat
<1> HIDE DEF flat
<1>10. flat[0] = <<>> /\ \A i \in 1 .. top : flat[i] = flat[i - 1] \o Bytes(s[i])
  BY <1>1, <1>8
<1>11. flat \in [0 .. top -> Fresh]
  <2> DEFINE T == {i \in 0 .. top : flat[i] \in Fresh}
  <2>1. 0 \in T
    BY <1>1, <1>2, <1>10 DEF first
  <2>2. \A k \in 0 .. top - 1 : k \in T => k + 1 \in T
    <3> SUFFICES ASSUME NEW k \in 0 .. top - 1, k \in T PROVE flat[k + 1] \in Fresh
      BY <1>1
    <3>1. k + 1 \in 1 .. top /\ (k + 1) - 1 = k
      BY <1>1
    <3> DEFINE i == k + 1
    <3> HIDE DEF i
    <3>2. i \in 1 .. top /\ i - 1 = k
      BY <3>1 DEF i
    <3>3. flat[i] = flat[k] \o Bytes(s[i]) /\ s[i] \in Message
      BY <3>2, <1>1, <1>10
    <3>4. flat[i] \in Fresh
      BY <3>3, FreshConcat
    <3> QED BY <3>4 DEF i
  <2>3. \A k \in 0 .. top : k \in T
    <3> HIDE DEF T, top
    <3> QED BY <1>1, <2>1, <2>2, UpTo
  <2>4. flat = [i \in 0 .. top |-> flat[i]]
    BY <1>8
  <2> QED BY <2>3, <2>4
<1> QED BY <1>9, <1>10, <1>11

\* The bytes of a sequence of messages.
LEMMA FlatFresh ==
  ASSUME NEW s \in Seq(Message)
  PROVE  Flat(s) \in Fresh /\ Flat(s) \in Seq(Unit) /\ Len(Flat(s)) \in Nat
<1>1. PICK f \in [0 .. Len(s) -> Fresh] : Flat(s) = f[Len(s)]
  BY FlatFunction
<1>2. Len(s) \in 0 .. Len(s)
  OBVIOUS
<1>3. Flat(s) \in Fresh
  BY <1>1, <1>2
<1> HIDE DEF Flat
<1> QED BY <1>3 DEF Fresh

\* No message has no bytes.
LEMMA FlatEmpty == Flat(<<>>) = <<>>
<1> DEFINE s == <<>>
<1>1. s \in Seq(Message) /\ Len(s) = 0
  OBVIOUS
<1> HIDE DEF s
<1>2. PICK f \in [0 .. Len(s) -> Fresh] : f[0] = <<>> /\ Flat(s) = f[Len(s)]
  BY <1>1, FlatFunction
<1>3. Flat(s) = <<>>
  BY <1>1, <1>2
<1> QED BY <1>3 DEF s

\* A message that is added at the end adds its bytes at the end.
LEMMA FlatAppend ==
  ASSUME NEW s \in Seq(Message), NEW m \in Message
  PROVE  Flat(Append(s, m)) = Flat(s) \o Bytes(m)
<1> DEFINE t == Append(s, m)
           top == Len(s)
<1>1. t \in Seq(Message) /\ Len(t) = top + 1 /\ top \in Nat /\ t[top + 1] = m
      /\ \A i \in 1 .. top : t[i] = s[i]
  BY AppendProperties
<1>2. PICK f \in [0 .. Len(s) -> Fresh] :
        /\ f[0] = <<>> /\ \A i \in 1 .. Len(s) : f[i] = f[i - 1] \o Bytes(s[i])
        /\ Flat(s) = f[Len(s)]
  BY FlatFunction
<1> HIDE DEF t
<1>3. PICK g \in [0 .. Len(t) -> Fresh] :
        /\ g[0] = <<>> /\ \A i \in 1 .. Len(t) : g[i] = g[i - 1] \o Bytes(t[i])
        /\ Flat(t) = g[Len(t)]
  BY <1>1, FlatFunction
<1> HIDE DEF top
<1>4. top = Len(s)
  BY DEF top
<1>5. \A k \in 0 .. top : g[k] = f[k]
  <2> DEFINE T == {k \in 0 .. top : g[k] = f[k]}
  <2>1. 0 \in T
    BY <1>1, <1>2, <1>3
  <2>2. ASSUME NEW k \in 0 .. top - 1, k \in T PROVE k + 1 \in T
    <3> DEFINE i == k + 1
    <3>1. i \in 1 .. top /\ i \in 0 .. top /\ i \in 1 .. Len(t) /\ i - 1 = k
      BY <1>1
    <3> HIDE DEF i
    <3>2. g[i] = g[k] \o Bytes(t[i]) /\ f[i] = f[k] \o Bytes(s[i]) /\ t[i] = s[i]
      BY <3>1, <1>1, <1>2, <1>3, <1>4
    <3>3. g[i] = f[i]
      BY <3>2, <2>2
    <3> QED BY <3>1, <3>3 DEF i
  <2>3. \A k \in 0 .. top : k \in T
    <3> HIDE DEF T
    <3> QED BY <1>1, <2>1, <2>2, UpTo
  <2> QED BY <2>3
<1> DEFINE e == top + 1
<1>6. e = Len(t) /\ e \in 1 .. Len(t) /\ e - 1 = top /\ top \in 0 .. top
  BY <1>1
<1>7. t[e] = m
  BY <1>1
<1> HIDE DEF e
<1>8. g[e] = g[top] \o Bytes(m)
  BY <1>3, <1>6, <1>7
<1>9. g[top] = Flat(s)
  BY <1>2, <1>4, <1>5, <1>6
<1>10. Flat(t) = Flat(s) \o Bytes(m)
  BY <1>3, <1>6, <1>8, <1>9
<1> QED BY <1>10 DEF t

\* The bytes of the first message come first.
LEMMA FlatTail ==
  ASSUME NEW s \in Seq(Message), s # <<>>
  PROVE  Flat(s) = Bytes(Head(s)) \o Flat(Tail(s))
<1> DEFINE t == Tail(s)
           B == Bytes(Head(s))
           top == Len(t)
<1>1. t \in Seq(Message) /\ Len(s) = top + 1 /\ top \in Nat /\ Head(s) = s[1] /\ s[1] \in Message
      /\ \A i \in 1 .. top : t[i] = s[i + 1]
  BY HeadTailProperties
<1>2. B \in Seq(Unit)
  BY <1>1, BytesOf DEF AnyMsg
<1>3. PICK f \in [0 .. Len(s) -> Fresh] :
        /\ f[0] = <<>> /\ \A i \in 1 .. Len(s) : f[i] = f[i - 1] \o Bytes(s[i])
        /\ Flat(s) = f[Len(s)]
  BY FlatFunction
<1> HIDE DEF t
<1>4. PICK g \in [0 .. Len(t) -> Fresh] :
        /\ g[0] = <<>> /\ \A i \in 1 .. Len(t) : g[i] = g[i - 1] \o Bytes(t[i])
        /\ Flat(t) = g[Len(t)]
  BY <1>1, FlatFunction
<1>5. B = Bytes(s[1])
  BY <1>1
<1>6. \A i \in 0 .. Len(t) : g[i] \in Seq(Unit)
  BY <1>4 DEF Fresh
<1> HIDE DEF top, B
<1>7. top = Len(t)
  BY DEF top
<1>8. \A k \in 0 .. top : f[k + 1] = B \o g[k]
  <2> DEFINE T == {k \in 0 .. top : f[k + 1] = B \o g[k]}
  <2>1. 0 \in T
    <3>1. f[1] = f[0] \o B
      <4>1. 1 \in 1 .. Len(s) /\ 1 - 1 = 0
        BY <1>1
      <4> QED BY <4>1, <1>3, <1>5
    <3>2. f[0] \o B = B /\ B \o g[0] = B
      BY <1>2, <1>3, <1>4, ConcatEmptySeq
    <3>3. f[0 + 1] = f[1]
      OBVIOUS
    <3> QED BY <3>1, <3>2, <3>3, <1>1
  <2>2. ASSUME NEW k \in 0 .. top - 1, k \in T PROVE k + 1 \in T
    <3> DEFINE i == k + 1
               j == i + 1
    <3>1. i \in 1 .. top /\ i \in 0 .. top /\ i - 1 = k
      BY <1>1
    <3>2. j \in 1 .. Len(s) /\ j - 1 = i
      BY <1>1
    <3> HIDE DEF i
    <3>3. t[i] = s[j]
      BY <3>1, <1>1
    <3> HIDE DEF j
    <3>4. t[i] \in Message
      BY <3>1, <1>1, <1>7
    <3>5. f[j] = f[i] \o Bytes(t[i])
      BY <3>2, <3>3, <1>3
    <3>6. g[i] = g[k] \o Bytes(t[i])
      BY <3>1, <1>4, <1>7
    <3>7. f[i] = B \o g[k]
      BY <2>2 DEF i
    <3>8. g[k] \in Seq(Unit) /\ Bytes(t[i]) \in Seq(Unit)
      <4>1. k \in 0 .. top
        BY <1>1
      <4>2. t[i] \in AnyMsg
        BY <3>4 DEF AnyMsg
      <4> QED BY <4>1, <4>2, <1>6, <1>7, BytesOf
    <3>9. (B \o g[k]) \o Bytes(t[i]) = B \o (g[k] \o Bytes(t[i]))
      <4> DEFINE y == g[k]
                 z == Bytes(t[i])
      <4> HIDE DEF y, z
      <4>1. y \in Seq(Unit) /\ z \in Seq(Unit)
        BY <3>8 DEF y, z
      <4>2. (B \o y) \o z = B \o (y \o z)
        BY <4>1, <1>2, ConcatAssociative, SMTT(30)
      <4> QED BY <4>2 DEF y, z
    <3>10. f[j] = B \o g[i]
      BY <3>5, <3>6, <3>7, <3>9
    <3> QED BY <3>1, <3>10 DEF i, j
  <2>3. \A k \in 0 .. top : k \in T
    <3> HIDE DEF T
    <3> QED BY <1>1, <2>1, <2>2, UpTo
  <2> QED BY <2>3
<1>9. f[top + 1] = B \o g[top]
  BY <1>1, <1>8
<1>10. Flat(s) = B \o Flat(t)
  BY <1>1, <1>3, <1>4, <1>7, <1>9
<1> QED BY <1>10 DEF t, B

\* TotalUnits() counts the bytes.
LEMMA Total ==
  ASSUME NEW s \in Seq(Message)
  PROVE  TotalUnits(s) = Len(Flat(s))
<1> DEFINE top == Len(s)
           Body(f) == [i \in 0 .. Len(s) |-> IF i = 0 THEN 0 ELSE f[i - 1] + RoundUp(s[i].size)]
           sum == CHOOSE f : f = Body(f)
<1>1. top \in Nat /\ \A i \in 1 .. top : s[i] \in Message
  OBVIOUS
<1>2. PICK f \in [0 .. Len(s) -> Fresh] :
        /\ f[0] = <<>> /\ \A i \in 1 .. Len(s) : f[i] = f[i - 1] \o Bytes(s[i])
        /\ Flat(s) = f[Len(s)]
  BY FlatFunction
<1>3. \A i \in 0 .. top : f[i] \in Seq(Unit)
  BY <1>2 DEF Fresh
<1>4. ASSUME NEW i \in 1 .. top PROVE Len(f[i]) = Len(f[i - 1]) + RoundUp(s[i].size)
  <2> DEFINE y == f[i - 1]
             z == Bytes(s[i])
  <2>1. y \in Seq(Unit)
    <3>1. i - 1 \in 0 .. top
      BY <1>1
    <3> QED BY <3>1, <1>3
  <2>2. z \in Seq(Unit) /\ Len(z) = RoundUp(s[i].size)
    <3>1. s[i] \in AnyMsg
      BY <1>1 DEF AnyMsg
    <3> QED BY <3>1, BytesOf
  <2>3. f[i] = y \o z
    BY <1>2
  <2> HIDE DEF y, z
  <2>4. Len(f[i]) = Len(y) + Len(z)
    BY <2>1, <2>2, <2>3, ConcatProperties
  <2> QED BY <2>4, <2>2 DEF y
<1> DEFINE g == [i \in 0 .. Len(s) |-> Len(f[i])]
<1>5. g = Body(g)
  <2>1. ASSUME NEW i \in 0 .. top
        PROVE  g[i] = IF i = 0 THEN 0 ELSE g[i - 1] + RoundUp(s[i].size)
    <3>1. CASE i = 0
      <4>1. Len(f[0]) = 0
        BY <1>2
      <4> QED BY <4>1, <3>1
    <3>2. CASE i # 0
      <4>1. i \in 1 .. top /\ i - 1 \in 0 .. top
        BY <3>2, <1>1
      <4>2. g[i] = Len(f[i]) /\ g[i - 1] = Len(f[i - 1])
        BY <4>1
      <4> QED BY <4>1, <4>2, <3>2, <1>4
    <3> QED BY <3>1, <3>2
  <2>2. g = [i \in 0 .. top |-> g[i]]
    OBVIOUS
  <2> HIDE DEF g
  <2> QED BY <2>1, <2>2
<1>6. sum = Body(sum)
  <2> HIDE DEF Body, g
  <2> QED BY <1>5
<1>7. TotalUnits(s) = sum[Len(s)]
  BY DEF TotalUnits
<1> HIDE DEF sum
<1>8. sum[0] = 0 /\ \A i \in 1 .. top : sum[i] = sum[i - 1] + RoundUp(s[i].size)
  BY <1>1, <1>6
<1>9. \A k \in 0 .. top : sum[k] = Len(f[k])
  <2> DEFINE T == {k \in 0 .. top : sum[k] = Len(f[k])}
  <2>1. 0 \in T
    BY <1>1, <1>2, <1>8
  <2>2. ASSUME NEW k \in 0 .. top - 1, k \in T PROVE k + 1 \in T
    <3> DEFINE i == k + 1
    <3>1. i \in 1 .. top /\ i \in 0 .. top /\ i - 1 = k
      BY <1>1
    <3> HIDE DEF i
    <3>2. sum[i] = Len(f[i])
      BY <3>1, <2>2, <1>4, <1>8
    <3> QED BY <3>1, <3>2 DEF i
  <2>3. \A k \in 0 .. top : k \in T
    <3> HIDE DEF T, top
    <3> QED BY <1>1, <2>1, <2>2, UpTo
  <2> QED BY <2>3
<1>10. sum[top] = Len(f[top])
  BY <1>1, <1>9
<1> QED BY <1>2, <1>7, <1>10

-----------------------------------------------------------------------------
(* Streams of messages.                                                    *)

\* The bytes that follow one of a message belong to it until it ends.
LEMMA ChainRun ==
  ASSUME NEW G \in Seq(Unit), Chain(G), NEW i \in 1 .. Len(G), NEW j \in i .. Len(G),
         G[i].pos + (j - i) < Size(G[i])
  PROVE  G[j].msg = G[i].msg /\ G[j].pos = G[i].pos + (j - i)
<1> DEFINE N == j - i
           L == Len(G)
           p == G[i].pos
           z == Size(G[i])
           T == {d \in 0 .. N : G[i + d].msg = G[i].msg /\ G[i + d].pos = p + d}
<1>1. L \in Nat /\ i \in Nat /\ i >= 1 /\ j \in Nat /\ j <= L /\ N \in Nat /\ j = i + N
  OBVIOUS
<1>2. p \in Nat /\ z \in Nat /\ p + N < z
  BY Units
<1> HIDE DEF L, p, z, N
<1>3. 0 \in T
  <2>1. i + 0 = i /\ p + 0 = p /\ 0 \in 0 .. N
    BY <1>1, <1>2
  <2>2. G[i + 0].msg = G[i].msg /\ G[i + 0].pos = p + 0
    BY <2>1 DEF p
  <2> QED BY <2>1, <2>2
<1>4. ASSUME NEW d \in 0 .. N - 1, d \in T PROVE d + 1 \in T
  <2> DEFINE k == i + d
  <2>1. k \in 1 .. L - 1 /\ k + 1 = i + (d + 1) /\ d + 1 \in 0 .. N
    BY <1>1
  <2>2. G[k].msg = G[i].msg /\ G[k].pos = p + d
    BY <1>4
  <2> HIDE DEF k
  <2>3. Size(G[k]) = z
    BY <2>2 DEF Size, z
  <2>4. ~ Ends(G[k])
    BY <1>1, <1>2, <2>2, <2>3 DEF Ends
  <2>5. G[k + 1].msg = G[k].msg /\ G[k + 1].pos = G[k].pos + 1
    BY <2>1, <2>4 DEF Chain, L
  <2>6. G[k + 1].msg = G[i].msg /\ G[k + 1].pos = p + (d + 1)
    BY <1>1, <1>2, <2>2, <2>5
  <2> QED BY <2>1, <2>6
<1>5. \A d \in 0 .. N : d \in T
  <2> HIDE DEF T
  <2> QED BY <1>1, <1>3, <1>4, UpTo
<1>6. N \in T
  BY <1>1, <1>5
<1>7. G[j].msg = G[i].msg /\ G[j].pos = p + N
  BY <1>1, <1>6
<1> QED BY <1>7 DEF p, N

\* After the end of a message the next one starts.
LEMMA ChainNext ==
  ASSUME NEW G \in Seq(Unit), Chain(G), NEW c \in 0 .. Len(G), Bound(G, c), c < Len(G)
  PROVE  G[c + 1].pos = 0
<1>1. CASE c = 0
  BY <1>1 DEF Chain
<1>2. CASE c > 0
  <2>1. c \in 1 .. Len(G) - 1 /\ Ends(G[c])
    BY <1>2 DEF Bound
  <2> QED BY <2>1 DEF Chain
<1> QED BY <1>1, <1>2

\* No message began before the end of another one and goes on after it.
LEMMA ChainFrom ==
  ASSUME NEW G \in Seq(Unit), Chain(G), NEW c \in 0 .. Len(G), Bound(G, c),
         NEW i \in c + 1 .. Len(G)
  PROVE  Start(G, i) >= c
<1> DEFINE N == i - (c + 1)
           L == Len(G)
           T == {d \in 0 .. N : G[c + 1 + d].pos <= d}
<1>1. L \in Nat /\ c \in Nat /\ c < L /\ i \in Nat /\ i <= L /\ N \in Nat /\ i = c + 1 + N
  OBVIOUS
<1>2. \A k \in 1 .. L : G[k].pos \in Nat
  BY Units
<1> HIDE DEF N
<1>3. 0 \in T
  <2>1. G[c + 1].pos = 0
    BY <1>1, ChainNext
  <2>2. c + 1 + 0 = c + 1
    BY <1>1
  <2> QED BY <1>1, <2>1, <2>2
<1> HIDE DEF L
<1>4. ASSUME NEW d \in 0 .. N - 1, d \in T PROVE d + 1 \in T
  <2> DEFINE k == c + 1 + d
  <2>1. k \in 1 .. L - 1 /\ k + 1 = c + 1 + (d + 1) /\ d + 1 \in 0 .. N /\ k \in 1 .. L
    BY <1>1
  <2>2. G[k].pos <= d
    BY <1>4
  <2> HIDE DEF k
  <2>3. G[k + 1].pos = 0 \/ G[k + 1].pos = G[k].pos + 1
    BY <2>1 DEF Chain, L
  <2>4. G[k + 1].pos <= d + 1
    BY <1>1, <1>2, <2>1, <2>2, <2>3, SMTT(30)
  <2> QED BY <2>1, <2>4
<1>5. \A d \in 0 .. N : d \in T
  <2> HIDE DEF T
  <2> QED BY <1>1, <1>3, <1>4, UpTo
<1>6. N \in T
  BY <1>1, <1>5
<1>7. G[i].pos <= N /\ G[i].pos \in Nat
  BY <1>1, <1>2, <1>6
<1> QED BY <1>1, <1>7 DEF Start

\* A message with a byte before the end of another one ends there or earlier.
LEMMA ChainBefore ==
  ASSUME NEW G \in Seq(Unit), Chain(G), NEW c \in 0 .. Len(G), Bound(G, c), NEW i \in 1 .. c
  PROVE  Start(G, i) + Size(G[i]) <= c
<1> DEFINE p == G[i].pos
           z == Size(G[i])
<1>1. Len(G) \in Nat /\ c \in Nat /\ c <= Len(G) /\ i \in 1 .. Len(G) /\ c \in i .. Len(G) /\ c > 0
  OBVIOUS
<1>2. p \in Nat /\ z \in Nat /\ p < z
  BY <1>1, Units DEF Chain
<1> HIDE DEF p, z
<1> SUFFICES ASSUME p + (c - i) + 1 < z PROVE FALSE
  BY <1>1, <1>2 DEF Start, p, z
<1>3. G[c].msg = G[i].msg /\ G[c].pos = p + (c - i)
  BY <1>1, <1>2, ChainRun DEF p, z
<1>4. Size(G[c]) = z
  BY <1>3 DEF Size, z
<1>5. G[c].pos + 1 = z
  BY <1>1, <1>4 DEF Bound, Ends
<1> QED BY <1>1, <1>2, <1>3, <1>5

\* The message that starts after the first c bytes.
LEMMA MessageAt ==
  ASSUME NEW G \in Seq(Unit), Chain(G), NEW c \in 0 .. Len(G), Bound(G, c), c < Len(G),
         NEW e \in 0 .. Len(G), Bound(G, e), c < e
  PROVE  /\ Size(G[c + 1]) \in Nat /\ Size(G[c + 1]) >= HDR /\ Size(G[c + 1]) >= 1
         /\ c + Size(G[c + 1]) <= e
         /\ Bound(G, c + Size(G[c + 1]))
         /\ \A j \in 1 .. Size(G[c + 1]) :
              G[c + j].msg = G[c + 1].msg /\ G[c + j].pos = j - 1
<1> DEFINE i == c + 1
           z == Size(G[i])
<1>1. Len(G) \in Nat /\ c \in Nat /\ i \in 1 .. Len(G) /\ i \in 1 .. e /\ e \in Nat /\ e <= Len(G)
  OBVIOUS
<1>2. G[i].pos = 0
  BY ChainNext
<1>3. z \in Nat /\ z >= HDR /\ z >= 1
  BY <1>1, Units
<1>4. Start(G, i) + z <= e
  BY <1>1, ChainBefore
<1>5. c + z <= e
  BY <1>1, <1>2, <1>3, <1>4 DEF Start
<1>6. ASSUME NEW j \in 1 .. z PROVE G[c + j].msg = G[i].msg /\ G[c + j].pos = j - 1
  <2>1. c + j \in i .. Len(G) /\ (c + j) - i = j - 1
    BY <1>1, <1>3, <1>5
  <2>2. G[i].pos + ((c + j) - i) < z
    BY <1>1, <1>2, <1>3
  <2>3. G[c + j].msg = G[i].msg /\ G[c + j].pos = G[i].pos + ((c + j) - i)
    <3> DEFINE k == c + j
    <3> HIDE DEF k, i
    <3> QED BY <1>1, <2>1, <2>2, ChainRun DEF k
  <2> QED BY <1>1, <1>2, <2>1, <2>3
<1>7. Bound(G, c + z)
  <2>1. G[c + z].msg = G[i].msg /\ G[c + z].pos = z - 1
    BY <1>3, <1>6
  <2>2. Size(G[c + z]) = z
    BY <2>1 DEF Size
  <2> HIDE DEF z
  <2> QED BY <1>1, <1>3, <2>1, <2>2 DEF Bound, Ends
<1> QED BY <1>3, <1>5, <1>6, <1>7

\* All bytes from a on and before b are of heartbeats, or of messages.
HBOnly(G, a, b) == \A i \in a + 1 .. b : IsHeartbeat(G[i].msg)
DataOnly(G, a, b) == \A i \in a + 1 .. b : ~ IsHeartbeat(G[i].msg)

\* How the count of the bytes of messages goes on.
LEMMA CountOn ==
  ASSUME NEW G \in Seq(Unit), NEW F \in Seq(Unit), NEW at, Counts(G, F, at),
         NEW a \in 0 .. Len(G), NEW b \in a .. Len(G)
  PROVE  /\ at[a] \in Nat /\ at[b] \in Nat /\ at[a] <= at[b] /\ at[b] <= Len(F)
         /\ HBOnly(G, a, b) => at[b] = at[a]
         /\ DataOnly(G, a, b) => at[b] = at[a] + (b - a)
<1> DEFINE N == b - a
           L == Len(G)
           On(d) == /\ at[a] <= at[a + d]
                    /\ HBOnly(G, a, b) => at[a + d] = at[a]
                    /\ DataOnly(G, a, b) => at[a + d] = at[a] + d
           T == {d \in 0 .. N : On(d)}
<1>1. L \in Nat /\ a \in Nat /\ b \in Nat /\ b <= L /\ N \in Nat /\ b = a + N
  OBVIOUS
<1>2. \A i \in 0 .. L : at[i] \in Nat /\ at[i] <= Len(F)
  BY DEF Counts
<1>3. \A i \in 1 .. L : /\ IsHeartbeat(G[i].msg) => at[i] = at[i - 1]
                        /\ ~ IsHeartbeat(G[i].msg) => at[i] = at[i - 1] + 1
  BY DEF Counts
<1> HIDE DEF L, N
<1>4. at[a] \in Nat /\ at[b] \in Nat /\ at[b] <= Len(F)
  BY <1>1, <1>2
<1>5. 0 \in T
  <2>1. a + 0 = a /\ at[a] + 0 = at[a] /\ 0 \in 0 .. N
    BY <1>1, <1>4
  <2>2. On(0)
    BY <2>1, <1>4
  <2> QED BY <2>1, <2>2
<1>6. ASSUME NEW d \in 0 .. N - 1, d \in T PROVE d + 1 \in T
  <2> DEFINE i == a + (d + 1)
             y == at[a]
             z == at[i]
             x == at[a + d]
  <2>1. i \in 1 .. L /\ i - 1 = a + d /\ d + 1 \in 0 .. N /\ i \in a + 1 .. b /\ a + d \in 0 .. L /\ i \in 0 .. L
    BY <1>1
  <2>2. x \in Nat /\ y \in Nat /\ z \in Nat
    BY <2>1, <1>2, <1>4
  <2> HIDE DEF i
  <2>3. (IsHeartbeat(G[i].msg) => z = x) /\ (~ IsHeartbeat(G[i].msg) => z = x + 1)
    BY <2>1, <1>3
  <2>4. y <= x /\ (HBOnly(G, a, b) => x = y) /\ (DataOnly(G, a, b) => x = y + d)
    BY <1>6
  <2>5. (HBOnly(G, a, b) => IsHeartbeat(G[i].msg)) /\ (DataOnly(G, a, b) => ~ IsHeartbeat(G[i].msg))
    BY <2>1 DEF HBOnly, DataOnly
  <2> HIDE DEF x, y, z
  <2>6. y <= z /\ (HBOnly(G, a, b) => z = y) /\ (DataOnly(G, a, b) => z = y + (d + 1))
    BY <1>1, <2>2, <2>3, <2>4, <2>5
  <2>7. On(d + 1)
    BY <2>6 DEF i, y, z
  <2> QED BY <2>1, <2>7
<1>7. \A d \in 0 .. N : d \in T
  <2> HIDE DEF T
  <2> QED BY <1>1, <1>5, <1>6, UpTo
<1>8. N \in T
  BY <1>1, <1>7
<1>9. On(N)
  BY <1>8
<1>10. a + N = b
  BY <1>1
<1> QED BY <1>4, <1>9, <1>10 DEF N

\* The stream without its first d bytes.
Drop(G, d) == [i \in 1 .. Len(G) - d |-> G[i + d]]

\* Its elements.
LEMMA Dropped ==
  ASSUME NEW G \in Seq(Unit), NEW d \in 0 .. Len(G)
  PROVE  /\ Drop(G, d) \in Seq(Unit) /\ Len(Drop(G, d)) = Len(G) - d
         /\ \A i \in 1 .. Len(G) - d : Drop(G, d)[i] = G[i + d]
<1> DEFINE L == Len(G) - d
<1>1. L \in Nat /\ \A i \in 1 .. L : G[i + d] \in Unit
  OBVIOUS
<1>2. Drop(G, d) = [i \in 1 .. L |-> G[i + d]]
  BY DEF Drop
<1> HIDE DEF L
<1>3. Drop(G, d) \in [1 .. L -> Unit]
  BY <1>1, <1>2
<1>4. Drop(G, d) \in Seq(Unit) /\ Len(Drop(G, d)) = L
  BY <1>1, <1>3
<1>5. \A i \in 1 .. L : Drop(G, d)[i] = G[i + d]
  BY <1>2
<1> QED BY <1>4, <1>5 DEF L

\* The matching of the rest of a stream with the rest of the messages.
LEMMA DropMatch ==
  ASSUME NEW G \in Seq(Unit), NEW F \in Seq(Unit), NEW at, Counts(G, F, at),
         NEW d \in 0 .. Len(G)
  PROVE  at[d] \in 0 .. Len(F) /\ Match(Drop(G, d), Drop(F, at[d]))
<1> DEFINE a == at[d]
           H == Drop(G, d)
           E == Drop(F, a)
           L == Len(G) - d
<1>1. a \in 0 .. Len(F) /\ Len(F) \in Nat /\ Len(G) \in Nat /\ L \in Nat
  BY SMTT(30) DEF Counts
<1>2. Len(H) = L /\ \A i \in 1 .. L : H[i] = G[i + d]
  BY Dropped
<1>3. Len(E) = Len(F) - a /\ \A i \in 1 .. Len(F) - a : E[i] = F[i + a]
  <2> HIDE DEF a
  <2> QED BY <1>1, Dropped
<1>4. \A i \in 0 .. L : at[i + d] \in Nat /\ a <= at[i + d] /\ at[i + d] <= Len(F)
  <2> SUFFICES ASSUME NEW i \in 0 .. L PROVE at[i + d] \in Nat /\ a <= at[i + d] /\ at[i + d] <= Len(F)
    OBVIOUS
  <2> DEFINE k == i + d
  <2>1. k \in d .. Len(G)
    OBVIOUS
  <2> HIDE DEF k
  <2>2. at[k] \in Nat /\ at[d] <= at[k] /\ at[k] <= Len(F)
    BY <2>1, CountOn
  <2> QED BY <2>2 DEF k
<1> HIDE DEF H, E, a, L
<1> DEFINE bt == [i \in 0 .. Len(H) |-> at[i + d] - a]
<1>5. \A i \in 0 .. L : bt[i] = at[i + d] - a
  BY <1>2
<1>6. bt \in [0 .. Len(H) -> 0 .. Len(E)]
  <2>1. ASSUME NEW i \in 0 .. L PROVE at[i + d] - a \in 0 .. Len(E)
    <3> DEFINE x == at[i + d]
    <3>1. x \in Nat /\ a <= x /\ x <= Len(F)
      BY <1>4
    <3> HIDE DEF x
    <3>2. x - a \in 0 .. Len(E)
      BY <3>1, <1>1, <1>3
    <3> QED BY <3>2 DEF x
  <2> QED BY <1>2, <2>1
<1>7. bt[0] = 0 /\ bt[Len(H)] = Len(E)
  <2>1. 0 + d = d /\ L + d = Len(G)
    BY DEF L
  <2>2. at[Len(G)] = Len(F)
    BY DEF Counts
  <2>3. bt[0] = at[d] - a /\ bt[L] = Len(F) - a
    <3>1. 0 \in 0 .. L /\ L \in 0 .. L
      BY <1>1
    <3>2. bt[0] = at[0 + d] - a /\ bt[L] = at[L + d] - a
      <4> HIDE DEF bt
      <4> QED BY <3>1, <1>5
    <3> QED BY <2>1, <2>2, <3>2
  <2> QED BY <1>1, <1>2, <1>3, <2>3 DEF a
<1> HIDE DEF bt
<1>8. ASSUME NEW i \in 1 .. Len(H)
      PROVE  IF IsHeartbeat(H[i].msg) THEN bt[i] = bt[i - 1]
             ELSE /\ bt[i] = bt[i - 1] + 1
                  /\ H[i].msg = E[bt[i]].msg /\ H[i].pos = E[bt[i]].pos
  <2> DEFINE k == i + d
             x == at[k]
             y == at[k - 1]
  <2>1. k \in 1 .. Len(G) /\ H[i] = G[k] /\ i \in 0 .. L /\ i - 1 \in 0 .. L /\ (i - 1) + d = k - 1
    BY <1>2 DEF L
  <2>2. bt[i] = x - a /\ bt[i - 1] = y - a /\ x \in Nat /\ y \in Nat /\ a <= y /\ x <= Len(F)
    BY <2>1, <1>4, <1>5
  <2> HIDE DEF k
  <2>3. IF IsHeartbeat(G[k].msg) THEN x = y
        ELSE x = y + 1 /\ G[k].msg = F[x].msg /\ G[k].pos = F[x].pos
    BY <2>1 DEF Counts
  <2> HIDE DEF x, y
  <2>4. CASE IsHeartbeat(G[k].msg)
    BY <2>1, <2>2, <2>3, <2>4
  <2>5. CASE ~ IsHeartbeat(G[k].msg)
    <3>1. x = y + 1 /\ G[k].msg = F[x].msg /\ G[k].pos = F[x].pos
      BY <2>3, <2>5
    <3>2. bt[i] = bt[i - 1] + 1 /\ bt[i] \in 1 .. Len(F) - a /\ bt[i] + a = x
      BY <3>1, <2>2, <1>1
    <3>3. E[bt[i]] = F[x]
      BY <3>2, <1>3
    <3> QED BY <3>1, <3>2, <3>3, <2>1, <2>5
  <2> QED BY <2>4, <2>5
<1>9. Counts(H, E, bt)
  BY <1>6, <1>7, <1>8 DEF Counts
<1>10. Match(H, E)
  BY <1>9 DEF Match
<1> QED BY <1>1, <1>10 DEF H, E, a

\* A stream stays well formed when whole messages are taken off its front.
LEMMA DropFramed ==
  ASSUME NEW G \in Seq(Unit), NEW F \in Seq(Unit), NEW at, Counts(G, F, at),
         NEW d \in 0 .. Len(G), NEW c \in d .. Len(G), NEW o \in Int, o <= Len(G), Bound(G, d),
         Framed(G, F, c, o)
  PROVE  Framed(Drop(G, d), Drop(F, at[d]), c - d, o - d)
<1> DEFINE H == Drop(G, d)
           L == Len(G)
<1>1. H \in Seq(Unit) /\ Len(H) = L - d /\ \A i \in 1 .. L - d : H[i] = G[i + d]
  BY Dropped
<1>2. Match(H, Drop(F, at[d]))
  BY DropMatch
<1>3. L \in Nat /\ d \in Nat /\ d <= c /\ c \in Nat /\ c <= L /\ o \in Int /\ o <= L
  OBVIOUS
<1>4. Chain(G) /\ Bound(G, L) /\ Bound(G, c) /\ Host(G, c, o) /\ Partial(G, c, o)
  BY DEF Framed
<1>5. \A i \in 1 .. L : G[i].pos \in Nat
  BY Units
<1> HIDE DEF H, L
<1>6. Chain(H)
  <2>1. Len(H) > 0 => H[1].pos = 0
    <3> SUFFICES ASSUME d < L PROVE H[1].pos = 0
      BY <1>1, <1>3
    <3>1. H[1] = G[d + 1]
      BY <1>1, <1>3
    <3>2. G[d + 1].pos = 0
      BY <1>4, ChainNext DEF L
    <3> QED BY <3>1, <3>2
  <2>2. ASSUME NEW i \in 1 .. Len(H) PROVE H[i].pos < Size(H[i])
    <3>1. H[i] = G[i + d] /\ i + d \in 1 .. L
      BY <1>1, <1>3
    <3> QED BY <3>1, <1>4 DEF Chain, L
  <2>3. ASSUME NEW i \in 1 .. Len(H) - 1
        PROVE  IF Ends(H[i]) THEN H[i + 1].pos = 0
               ELSE H[i + 1].msg = H[i].msg /\ H[i + 1].pos = H[i].pos + 1
    <3> DEFINE k == i + d
    <3>1. H[i] = G[k] /\ k \in 1 .. L - 1 /\ H[i + 1] = G[k + 1]
      <4>1. i \in 1 .. L - d /\ i + 1 \in 1 .. L - d /\ (i + 1) + d = k + 1 /\ k \in 1 .. L - 1
        BY <1>1, <1>3
      <4> QED BY <4>1, <1>1
    <3> HIDE DEF k
    <3> QED BY <3>1, <1>4 DEF Chain, L
  <2> QED BY <2>1, <2>2, <2>3 DEF Chain
<1>7. ASSUME NEW e \in d .. L, Bound(G, e) PROVE Bound(H, e - d)
  <2> SUFFICES ASSUME e - d > 0 PROVE Ends(H[e - d])
    BY DEF Bound
  <2>1. e - d \in 1 .. L - d /\ (e - d) + d = e /\ e > 0
    BY <1>3
  <2>2. H[e - d] = G[e]
    BY <2>1, <1>1
  <2> QED BY <2>1, <2>2, <1>7 DEF Bound
<1>8. Host(H, c - d, o - d)
  <2> SUFFICES ASSUME NEW i \in 1 .. Len(H)
               PROVE  H[i].host <=> /\ H[i].pos < HDR
                                    /\ \/ Start(H, i) < c - d
                                       \/ Start(H, i) = c - d /\ (c - d) + HDR <= o - d
    BY DEF Host
  <2> DEFINE k == i + d
             s == Start(G, k)
             p == G[k].pos
  <2>1. H[i] = G[k] /\ k \in 1 .. L /\ i \in Nat
    BY <1>1, <1>3
  <2>2. p \in Nat /\ s = k - 1 - p /\ Start(H, i) = i - 1 - p
    BY <2>1, <1>5 DEF Start
  <2>3. G[k].host <=> p < HDR /\ (s < c \/ (s = c /\ c + HDR <= o))
    BY <2>1, <1>4 DEF Host, L
  <2> HIDE DEF s, p
  <2>4. Start(H, i) = s - d /\ s \in Int
    <3>1. k = i + d /\ i \in Nat
      BY <2>1
    <3> HIDE DEF k
    <3> QED BY <3>1, <2>2, <1>3
  <2>5. s - d < c - d <=> s < c
    BY <2>4, <1>3
  <2>6. (s - d = c - d /\ (c - d) + HDR <= o - d) <=> (s = c /\ c + HDR <= o)
    BY <2>4, <1>3, Constants
  <2> QED BY <2>1, <2>3, <2>4, <2>5, <2>6 DEF p
<1>9. Partial(H, c - d, o - d)
  <2> SUFFICES ASSUME (c - d) + HDR <= o - d PROVE o - d < (c - d) + Size(H[(c - d) + 1])
    BY DEF Partial
  <2>1. c + HDR <= o /\ (c - d) + 1 \in 1 .. L - d /\ ((c - d) + 1) + d = c + 1 /\ c + 1 \in 1 .. L
    BY <1>3, Constants
  <2>2. H[(c - d) + 1] = G[c + 1]
    BY <2>1, <1>1
  <2> DEFINE z == Size(G[c + 1])
  <2>3. z \in Nat
    <3>1. G[c + 1] \in Unit
      BY <2>1 DEF L
    <3> QED BY <3>1, Units
  <2>4. o < c + z
    BY <2>1, <1>4 DEF Partial
  <2> HIDE DEF z
  <2>5. o - d < (c - d) + z
    BY <2>3, <2>4, <1>3
  <2> QED BY <2>2, <2>5 DEF z
<1>10. Bound(H, Len(H)) /\ Bound(H, c - d)
  <2>1. Bound(H, L - d)
    BY <1>3, <1>4, <1>7
  <2>2. Bound(H, c - d)
    BY <1>3, <1>4, <1>7
  <2> QED BY <2>1, <2>2, <1>1
<1> QED BY <1>1, <1>2, <1>6, <1>8, <1>9, <1>10 DEF Framed, H

\* A heartbeat or a message that is put behind a stream and its messages.
LEMMA Joined ==
  ASSUME NEW G \in Seq(Unit), NEW F \in Seq(Unit), NEW c \in 0 .. Len(G), NEW o \in c .. Len(G),
         Framed(G, F, c, o), NEW m \in AnyMsg, NEW E \in Seq(Unit),
         IF IsHeartbeat(m) THEN E = F ELSE E = F \o Bytes(m)
  PROVE  Framed(G \o Bytes(m), E, c, o)
<1> DEFINE B == Bytes(m)
           K == G \o B
           a == Len(G)
           b == Len(B)
<1>1. B \in Seq(Unit) /\ Chain(B) /\ Bound(B, b)
      /\ \A i \in 1 .. b : B[i].msg = m /\ B[i].pos = i - 1 /\ B[i].host = FALSE
  <2>1. Chain(B) /\ Bound(B, b)
    BY BytesChain
  <2>2. B \in Seq(Unit) /\ b = RoundUp(m.size)
        /\ \A i \in 1 .. RoundUp(m.size) : B[i].msg = m /\ B[i].pos = i - 1 /\ B[i].host = FALSE
    BY BytesOf
  <2> HIDE DEF B, b
  <2> QED BY <2>1, <2>2
<1>2. b >= 1 /\ b \in Nat /\ a \in Nat /\ Len(G \o B) = a + b
  <2>1. b >= 1 /\ B \in Seq(Unit)
    BY BytesOf, BytesChain
  <2> HIDE DEF B
  <2> QED BY <2>1
<1>3. Chain(G) /\ Bound(G, a) /\ Bound(G, c) /\ Host(G, c, o) /\ Partial(G, c, o)
  BY DEF Framed
<1>4. K \in Seq(Unit) /\ \A i \in 1 .. a + b : K[i] = IF i <= a THEN G[i] ELSE B[i - a]
  BY <1>1, ConcatProperties
<1>5. Len(K) = a + b
  BY <1>2
<1>6. Chain(K) /\ Bound(K, Len(K))
  <2> HIDE DEF B
  <2> QED BY <1>1, <1>3, ChainConcat
<1>7. c \in Nat /\ o \in Nat /\ c <= o /\ o <= a
  OBVIOUS
<1> HIDE DEF K, B, a, b
<1>8. \A i \in 1 .. a : K[i] = G[i]
  BY <1>2, <1>4
<1>9. \A i \in 1 .. b : K[a + i] = B[i]
  BY <1>2, <1>4
<1>10. Bound(K, c)
  <2> SUFFICES ASSUME c > 0 PROVE Ends(K[c])
    BY DEF Bound
  <2>1. c \in 1 .. a
    BY <1>2, <1>7
  <2> QED BY <2>1, <1>3, <1>7, <1>8 DEF Bound
<1>11. Host(K, c, o)
  <2>1. ASSUME NEW i \in 1 .. Len(K)
        PROVE  K[i].host <=> K[i].pos < HDR /\ (Start(K, i) < c \/ (Start(K, i) = c /\ c + HDR <= o))
    <3>1. CASE i <= a
      <4>1. K[i] = G[i] /\ i \in 1 .. a
        BY <3>1, <1>5, <1>2, <1>8
      <4>2. Start(K, i) = Start(G, i)
        BY <4>1 DEF Start
      <4> QED BY <4>1, <4>2, <1>3 DEF Host, a
    <3>2. CASE i > a
      <4>1. PICK j \in 1 .. b : i = a + j
        BY <3>2, <1>2, <1>5
      <4>2. K[i] = B[j]
        BY <4>1, <1>9
      <4>3. K[i].pos = j - 1 /\ K[i].host = FALSE
        BY <4>2, <1>1
      <4>4. Start(K, i) = a
        BY <4>1, <4>3, <1>2 DEF Start
      <4> QED BY <4>3, <4>4, <1>2, <1>7, Constants
    <3> QED BY <3>1, <3>2, <1>2, <1>5
  <2> QED BY <2>1 DEF Host
<1>12. Partial(K, c, o)
  <2> SUFFICES ASSUME c + HDR <= o PROVE o < c + Size(K[c + 1])
    BY DEF Partial
  <2>1. c + 1 \in 1 .. a
    BY <1>2, <1>7, Constants
  <2> QED BY <2>1, <1>3, <1>8 DEF Partial
<1>13. Match(K, E)
  <2>1. PICK at : Counts(G, F, at)
    BY DEF Framed, Match
  <2> DEFINE f == Len(F)
             hb == IsHeartbeat(m)
             g == Len(E)
             bt == [i \in 0 .. Len(K) |-> IF i <= a THEN at[i] ELSE IF hb THEN f ELSE f + (i - a)]
  <2>2. f \in Nat /\ (hb => E = F /\ g = f)
        /\ (~ hb => g = f + b /\ \A i \in 1 .. f + b : E[i] = IF i <= f THEN F[i] ELSE B[i - f])
    BY <1>1, ConcatProperties DEF B, b
  <2>3. \A i \in 1 .. f : E[i] = F[i]
    BY <2>2, <1>2
  <2>4. \A i \in 0 .. a : at[i] \in Nat /\ at[i] <= f
    <3>1. at \in [0 .. a -> 0 .. f]
      BY <2>1 DEF Counts, a
    <3> HIDE DEF f
    <3> QED BY <3>1, <2>2
  <2>5. at[0] = 0 /\ at[a] = f
    BY <2>1 DEF Counts, a
  <2> HIDE DEF f, g, hb
  <2>6. g \in Nat /\ f <= g
    BY <2>2, <1>2
  <2>7. \A i \in 0 .. a : bt[i] = at[i]
    BY <1>2, <1>5
  <2>8. \A i \in a + 1 .. a + b : bt[i] = IF hb THEN f ELSE f + (i - a)
    BY <1>2, <1>5
  <2>9. bt \in [0 .. Len(K) -> 0 .. g]
    <3>1. ASSUME NEW i \in 0 .. a + b PROVE bt[i] \in 0 .. g
      <4>1. CASE i <= a
        <5>1. i \in 0 .. a
          BY <4>1, <1>2
        <5>2. bt[i] = at[i] /\ at[i] \in Nat /\ at[i] <= f
          BY <5>1, <2>4, <2>7
        <5> HIDE DEF bt
        <5> QED BY <5>2, <2>2, <2>6
      <4>2. CASE i > a /\ hb
        <5>1. bt[i] = f
          BY <4>2, <2>8, <1>2, <1>5
        <5> QED BY <5>1, <2>2, <2>6
      <4>3. CASE i > a /\ ~ hb
        <5>1. bt[i] = f + (i - a)
          BY <4>3, <2>8, <1>2, <1>5
        <5> QED BY <5>1, <4>3, <2>2, <2>6, <1>2, <1>5
      <4> QED BY <4>1, <4>2, <4>3, <1>5, <1>2
    <3> QED BY <3>1, <1>5, <1>2
  <2> HIDE DEF bt
  <2>10. bt[0] = 0 /\ bt[Len(K)] = g
    <3>1. 0 \in 0 .. a /\ a + b \in a + 1 .. a + b /\ (a + b) - a = b
      BY <1>2, <1>5
    <3> QED BY <3>1, <2>2, <2>5, <2>7, <2>8, <1>5, <1>2
  <2>11. ASSUME NEW i \in 1 .. Len(K)
         PROVE  IF IsHeartbeat(K[i].msg) THEN bt[i] = bt[i - 1]
                ELSE /\ bt[i] = bt[i - 1] + 1
                     /\ K[i].msg = E[bt[i]].msg /\ K[i].pos = E[bt[i]].pos
    <3>1. CASE i <= a
      <4>1. i \in 1 .. a /\ i - 1 \in 0 .. a /\ i \in 0 .. a
        BY <3>1, <1>5, <1>2
      <4>2. K[i] = G[i] /\ bt[i] = at[i] /\ bt[i - 1] = at[i - 1] /\ at[i] \in Nat /\ at[i - 1] \in Nat /\ at[i] <= f
        BY <4>1, <1>8, <2>4, <2>7
      <4>3. IF IsHeartbeat(G[i].msg) THEN at[i] = at[i - 1]
            ELSE at[i] = at[i - 1] + 1 /\ G[i].msg = F[at[i]].msg /\ G[i].pos = F[at[i]].pos
        BY <4>1, <2>1 DEF Counts, a
      <4>4. ~ IsHeartbeat(G[i].msg) => E[at[i]] = F[at[i]]
        BY <4>2, <4>3, <2>3, <2>2, SMTT(30)
      <4> QED BY <4>2, <4>3, <4>4
    <3>2. CASE i > a
      <4>1. PICK j \in 1 .. b : i = a + j
        BY <3>2, <1>2, <1>5
      <4>2. K[i] = B[j]
        BY <4>1, <1>9
      <4>3. K[i].msg = m /\ K[i].pos = j - 1
        BY <4>2, <1>1
      <4>4. bt[i - 1] = IF hb THEN f ELSE f + (j - 1)
        <5>1. CASE j = 1
          <6>1. i - 1 = a /\ a \in 0 .. a
            BY <5>1, <4>1, <1>5, <1>2
          <6> QED BY <6>1, <5>1, <2>2, <2>5, <2>7
        <5>2. CASE j > 1
          <6>1. i - 1 \in a + 1 .. a + b /\ (i - 1) - a = j - 1
            BY <5>2, <4>1, <1>2, <1>5
          <6> QED BY <6>1, <2>8
        <5> QED BY <5>1, <5>2, <1>2
      <4>5. bt[i] = IF hb THEN f ELSE f + j
        <5>1. i \in a + 1 .. a + b /\ i - a = j
          BY <4>1, <1>2, <1>5
        <5> QED BY <5>1, <2>8
      <4>6. CASE hb
        BY <4>3, <4>4, <4>5, <4>6 DEF hb
      <4>7. CASE ~ hb
        <5>1. f + j \in 1 .. f + b /\ ~ (f + j <= f) /\ (f + j) - f = j
          BY <1>2, <2>2
        <5>2. E[f + j] = B[j]
          BY <5>1, <4>7, <2>2
        <5>3. bt[i] = f + j /\ bt[i - 1] = f + (j - 1) /\ f + j = (f + (j - 1)) + 1
          BY <4>4, <4>5, <4>7, <2>2, <1>2
        <5> QED BY <5>2, <5>3, <4>2, <4>3, <4>7 DEF hb
      <4> QED BY <4>6, <4>7
    <3> QED BY <3>1, <3>2, <1>5, <1>2
  <2>12. Counts(K, E, bt)
    BY <2>9, <2>10, <2>11 DEF Counts, g
  <2> QED BY <2>12 DEF Match
<1> QED BY <1>4, <1>6, <1>10, <1>11, <1>12, <1>13 DEF Framed, K, B

\* What the peer sends after the next login: its messages and nothing else.
LEMMA FreshFramed ==
  ASSUME NEW F \in Fresh
  PROVE  Framed(F, F, 0, 0)
<1> DEFINE at == [i \in 0 .. Len(F) |-> i]
<1>1. F \in Seq(Unit) /\ Chain(F) /\ Bound(F, Len(F)) /\ Len(F) \in Nat
      /\ \A i \in 1 .. Len(F) : ~ F[i].host /\ ~ IsHeartbeat(F[i].msg)
  BY DEF Fresh
<1>2. Bound(F, 0) /\ Partial(F, 0, 0)
  BY Constants DEF Bound, Partial
<1>3. Host(F, 0, 0)
  <2>1. ASSUME NEW i \in 1 .. Len(F) PROVE Start(F, i) >= 0 /\ Start(F, i) \in Int
    <3>1. i \in 0 + 1 .. Len(F) /\ 0 \in 0 .. Len(F)
      BY <1>1
    <3>2. Start(F, i) >= 0
      <4> DEFINE z == 0
      <4>1. z \in 0 .. Len(F) /\ Bound(F, z) /\ i \in z + 1 .. Len(F)
        BY <3>1, <1>2
      <4> HIDE DEF z
      <4>2. Start(F, i) >= z
        BY <4>1, <1>1, ChainFrom
      <4> QED BY <4>2 DEF z
    <3>3. F[i].pos \in Nat
      BY <1>1, Units
    <3> QED BY <3>2, <3>3 DEF Start
  <2>2. ASSUME NEW i \in 1 .. Len(F)
        PROVE  F[i].host <=> F[i].pos < HDR /\ (Start(F, i) < 0 \/ (Start(F, i) = 0 /\ 0 + HDR <= 0))
    <3>1. ~ F[i].host /\ ~ (Start(F, i) < 0) /\ ~ (0 + HDR <= 0)
      BY <2>1, <1>1, Constants
    <3> QED BY <3>1
  <2> QED BY <2>2 DEF Host
<1>4. Counts(F, F, at)
  <2>1. at \in [0 .. Len(F) -> 0 .. Len(F)] /\ at[0] = 0 /\ at[Len(F)] = Len(F)
    BY <1>1
  <2>2. ASSUME NEW i \in 1 .. Len(F) PROVE at[i] = i /\ at[i - 1] = i - 1 /\ i = (i - 1) + 1
    BY <1>1
  <2> HIDE DEF at
  <2> QED BY <2>1, <2>2, <1>1 DEF Counts
<1>5. Match(F, F)
  BY <1>4 DEF Match
<1> QED BY <1>1, <1>2, <1>3, <1>5 DEF Framed

-----------------------------------------------------------------------------
(* The stream that a buffer is a part of.                                  *)

\* The indices of a buffer are numbers.
LEMMA Indices ==
  ASSUME NEW b, BufOK(b)
  PROVE  /\ b.size \in Nat /\ b.w \in Nat /\ b.n \in Nat /\ b.r \in Nat
         /\ b.r <= b.n /\ b.n <= b.w /\ b.w <= b.size /\ b.size <= MaxSize /\ InitSize <= b.size
         /\ b.mem \in [0 .. MaxSize - 1 -> Cell]
         /\ b = [mem |-> b.mem, size |-> b.size, w |-> b.w, n |-> b.n, r |-> b.r]
         /\ b.n - b.r \in Nat /\ b.w - b.r \in Nat /\ b.n - b.r <= b.w - b.r
<1>1. b.size \in Nat /\ b.w \in Nat /\ b.n \in Nat /\ b.r \in Nat
      /\ b.r <= b.n /\ b.n <= b.w /\ b.w <= b.size /\ b.size <= MaxSize /\ InitSize <= b.size
  BY DEF BufOK
<1>2. b.mem \in [0 .. MaxSize - 1 -> Cell]
  BY DEF BufOK
<1>3. b = [mem |-> b.mem, size |-> b.size, w |-> b.w, n |-> b.n, r |-> b.r]
  BY DEF BufOK
<1> QED BY <1>1, <1>2, <1>3

\* The length and the elements of the stream, in its three parts.
IsView(V, b, x, F, u) ==
  /\ Len(V) = (b.w - b.r) + Len(x) + (Len(F) - u)
  /\ V \in Seq(Cell)
  /\ \A i \in 1 .. b.w - b.r : V[i] = b.mem[b.r + i - 1]
  /\ \A i \in 1 .. Len(x) : V[(b.w - b.r) + i] = x[i]
  /\ \A i \in 1 .. Len(F) - u : V[(b.w - b.r) + Len(x) + i] = F[u + i]

\* They are those of View().
LEMMA Viewed ==
  ASSUME NEW b, BufOK(b), NEW x \in Seq(Unit), NEW F \in Seq(Unit), NEW u \in 0 .. Len(F)
  PROVE  IsView(View(b, x, F, u), b, x, F, u)
<1> DEFINE l == b.w - b.r
           k == Len(x)
           f == Len(F) - u
           V == View(b, x, F, u)
<1>1. l \in Nat /\ k \in Nat /\ f \in Nat /\ u \in Nat /\ b.r \in Nat /\ b.r + l <= MaxSize
  <2>1. b.w \in Nat /\ b.r \in Nat /\ b.w - b.r \in Nat /\ b.w <= b.size /\ b.size <= MaxSize /\ b.size \in Nat
    BY Indices
  <2>2. k \in Nat /\ f \in Nat /\ u \in Nat
    OBVIOUS
  <2>3. b.r + (b.w - b.r) <= MaxSize
    BY <2>1, Constants
  <2> QED BY <2>1, <2>2, <2>3
<1>2. \A i \in 1 .. l : b.r + i - 1 \in 0 .. MaxSize - 1
  BY <1>1, Constants
<1>3. V = [i \in 1 .. l + k + f |->
             IF i <= l THEN b.mem[b.r + i - 1] ELSE IF i <= l + k THEN x[i - l] ELSE F[u + i - (l + k)]]
  BY DEF View
<1>4. \A i \in 1 .. k : x[i] \in Unit
  OBVIOUS
<1>5. \A i \in u + 1 .. u + f : F[i] \in Unit
  OBVIOUS
<1>6. b.mem \in [0 .. MaxSize - 1 -> Cell]
  BY Indices
<1> HIDE DEF l, k, f, V
<1>7. \A i \in 1 .. l + k + f :
        V[i] = IF i <= l THEN b.mem[b.r + i - 1] ELSE IF i <= l + k THEN x[i - l] ELSE F[u + i - (l + k)]
  BY <1>3
<1>8. \A i \in 1 .. l : V[i] = b.mem[b.r + i - 1] /\ V[i] \in Cell
  <2> SUFFICES ASSUME NEW i \in 1 .. l PROVE V[i] = b.mem[b.r + i - 1] /\ V[i] \in Cell
    OBVIOUS
  <2>1. i \in 1 .. l + k + f /\ i <= l
    BY <1>1
  <2>2. V[i] = b.mem[b.r + i - 1]
    BY <2>1, <1>7
  <2> QED BY <2>2, <1>2, <1>6
<1>9. \A i \in 1 .. k : V[l + i] = x[i]
  <2> SUFFICES ASSUME NEW i \in 1 .. k PROVE V[l + i] = x[i]
    OBVIOUS
  <2>1. l + i \in 1 .. l + k + f /\ ~ (l + i <= l) /\ l + i <= l + k /\ (l + i) - l = i
    BY <1>1
  <2> QED BY <2>1, <1>7
<1>10. \A i \in 1 .. f : V[l + k + i] = F[u + i]
  <2> SUFFICES ASSUME NEW i \in 1 .. f PROVE V[l + k + i] = F[u + i]
    OBVIOUS
  <2>1. l + k + i \in 1 .. l + k + f /\ ~ (l + k + i <= l) /\ ~ (l + k + i <= l + k)
        /\ u + (l + k + i) - (l + k) = u + i
    BY <1>1
  <2> QED BY <2>1, <1>7
<1>11. \A i \in 1 .. l + k + f : V[i] \in Cell
  <2> SUFFICES ASSUME NEW i \in 1 .. l + k + f PROVE V[i] \in Cell
    OBVIOUS
  <2>1. CASE i <= l
    BY <2>1, <1>1, <1>8
  <2>2. CASE i > l /\ i <= l + k
    <3>1. PICK j \in 1 .. k : i = l + j
      BY <2>2, <1>1
    <3> QED BY <3>1, <1>4, <1>9 DEF Cell
  <2>3. CASE i > l + k
    <3>1. PICK j \in 1 .. f : i = l + k + j
      BY <2>3, <1>1
    <3>2. u + j \in u + 1 .. u + f
      BY <1>1
    <3> QED BY <3>1, <3>2, <1>5, <1>10 DEF Cell
  <2> QED BY <2>1, <2>2, <2>3, <1>1
<1>12. V \in Seq(Cell) /\ Len(V) = l + k + f
  <2>1. l + k + f \in Nat
    BY <1>1
  <2>2. V \in [1 .. l + k + f -> Cell]
    BY <1>3, <1>11
  <2> QED BY <2>1, <2>2
<1> QED BY <1>8, <1>9, <1>10, <1>12 DEF l, k, f, V, IsView

\* The unread bytes of b are those of e, and behind them are the first k bytes of x;
\* y are the others.
Shifted(e, y, b, x, k) ==
  /\ e.w - e.r = (b.w - b.r) + k /\ Len(y) = Len(x) - k
  /\ \A i \in 1 .. b.w - b.r : e.mem[e.r + i - 1] = b.mem[b.r + i - 1]
  /\ \A i \in 1 .. k : e.mem[e.r + (b.w - b.r) + i - 1] = x[i]
  /\ \A i \in 1 .. Len(y) : y[i] = x[k + i]

\* The stream stays the same when the first k bytes in flight move to the end of
\* the buffer, wherever the unread bytes are put.
LEMMA SameView ==
  ASSUME NEW b, BufOK(b), NEW x \in Seq(Unit), NEW F \in Seq(Unit), NEW u \in 0 .. Len(F),
         NEW k \in 0 .. Len(x), NEW e, BufOK(e), NEW y \in Seq(Unit),
         Shifted(e, y, b, x, k)
  PROVE  View(e, y, F, u) = View(b, x, F, u)
<1> DEFINE V == View(b, x, F, u)
           W == View(e, y, F, u)
           l == b.w - b.r
           q == Len(x)
           f == Len(F) - u
           z == Len(y)
<1>1. /\ Len(V) = l + q + f /\ V \in Seq(Cell)
      /\ \A i \in 1 .. l : V[i] = b.mem[b.r + i - 1]
      /\ \A i \in 1 .. q : V[l + i] = x[i]
      /\ \A i \in 1 .. f : V[l + q + i] = F[u + i]
  <2>1. IsView(V, b, x, F, u)
    BY Viewed
  <2> HIDE DEF V
  <2> QED BY <2>1 DEF IsView
<1>2. /\ Len(W) = (e.w - e.r) + z + f /\ W \in Seq(Cell)
      /\ \A i \in 1 .. e.w - e.r : W[i] = e.mem[e.r + i - 1]
      /\ \A i \in 1 .. z : W[(e.w - e.r) + i] = y[i]
      /\ \A i \in 1 .. f : W[(e.w - e.r) + z + i] = F[u + i]
  <2>1. IsView(W, e, y, F, u)
    BY Viewed
  <2> HIDE DEF W
  <2> QED BY <2>1 DEF IsView
<1>3. l \in Nat /\ q \in Nat /\ f \in Nat /\ k \in Nat /\ k <= q /\ z = q - k /\ e.w - e.r = l + k /\ e.r \in Nat
  <2>1. l \in Nat /\ e.r \in Nat
    BY Indices
  <2>2. q \in Nat /\ f \in Nat /\ k \in Nat /\ k <= q
    OBVIOUS
  <2>3. z = q - k /\ e.w - e.r = l + k
    BY DEF Shifted
  <2> QED BY <2>1, <2>2, <2>3
<1>4. \A i \in 1 .. l : e.mem[e.r + i - 1] = b.mem[b.r + i - 1]
  BY DEF Shifted
<1>5. \A i \in 1 .. k : e.mem[e.r + l + i - 1] = x[i]
  BY DEF Shifted
<1>6. \A i \in 1 .. z : y[i] = x[k + i]
  BY DEF Shifted
<1> HIDE DEF V, W, l, q, f, z
<1>7. Len(W) = Len(V) /\ Len(V) = l + q + f
  BY <1>1, <1>2, <1>3
<1>8. ASSUME NEW i \in 1 .. l + q + f PROVE W[i] = V[i]
  <2>1. CASE i <= l
    <3>1. i \in 1 .. l /\ i \in 1 .. l + k
      BY <2>1, <1>3
    <3> QED BY <3>1, <1>1, <1>2, <1>3, <1>4
  <2>2. CASE i > l /\ i <= l + k
    <3>1. PICK j \in 1 .. k : i = l + j
      BY <2>2, <1>3
    <3>2. i \in 1 .. l + k /\ e.r + i - 1 = e.r + l + j - 1 /\ j \in 1 .. q
      BY <2>2, <3>1, <1>3
    <3>3. W[i] = e.mem[e.r + i - 1]
      BY <3>2, <1>2, <1>3
    <3>4. e.mem[e.r + l + j - 1] = x[j]
      BY <1>5
    <3>5. V[i] = x[j]
      BY <3>1, <3>2, <1>1
    <3> QED BY <3>2, <3>3, <3>4, <3>5
  <2>3. CASE i > l + k /\ i <= l + q
    <3>1. PICK j \in 1 .. z : i = (l + k) + j
      BY <2>3, <1>3
    <3>2. k + j \in 1 .. q /\ i = l + (k + j)
      BY <3>1, <1>3
    <3>3. W[i] = y[j]
      BY <3>1, <1>2, <1>3
    <3>4. V[i] = x[k + j]
      BY <3>2, <1>1
    <3> QED BY <3>3, <3>4, <1>6
  <2>4. CASE i > l + q
    <3>1. PICK j \in 1 .. f : i = l + q + j
      BY <2>4, <1>3
    <3>2. i = (l + k) + z + j
      BY <3>1, <1>3
    <3>3. W[i] = F[u + j]
      BY <3>2, <1>2, <1>3
    <3>4. V[i] = F[u + j]
      BY <3>1, <1>1
    <3> QED BY <3>3, <3>4
  <2> QED BY <2>1, <2>2, <2>3, <2>4, <1>3
<1>9. \A i \in 1 .. Len(W) : W[i] = V[i]
  BY <1>7, <1>8
<1>10. W = V
  BY <1>1, <1>2, <1>7, <1>9, SeqEqual
<1> QED BY <1>10 DEF V, W

\* What SetBuf() keeps of a buffer.
Clean(b) == [mem |-> [i \in DOMAIN b.mem |-> IF i \in b.r .. b.w - 1 THEN b.mem[i] ELSE Junk],
             size |-> b.size, w |-> b.w, n |-> b.n, r |-> b.r]

\* The bytes that nobody will read are not part of the stream.
LEMMA CleanView ==
  ASSUME NEW b, BufOK(b), NEW x \in Seq(Unit), NEW F \in Seq(Unit), NEW u \in 0 .. Len(F)
  PROVE  BufOK(Clean(b)) /\ View(Clean(b), x, F, u) = View(b, x, F, u)
<1> DEFINE e == Clean(b)
           k == 0
<1>1. e.size = b.size /\ e.w = b.w /\ e.n = b.n /\ e.r = b.r
      /\ e.mem = [i \in 0 .. MaxSize - 1 |-> IF i \in b.r .. b.w - 1 THEN b.mem[i] ELSE Junk]
  BY Indices DEF Clean
<1>2. e.mem \in [0 .. MaxSize - 1 -> Cell]
  <2>1. \A i \in 0 .. MaxSize - 1 : b.mem[i] \in Cell
    BY Indices
  <2> HIDE DEF e
  <2> QED BY <1>1, <2>1 DEF Cell
<1>3. e \in [mem : [0 .. MaxSize - 1 -> Cell], size : Nat, w : Nat, n : Nat, r : Nat]
  BY <1>2, Indices DEF Clean
<1> HIDE DEF e
<1>4. BufOK(e)
  BY <1>1, <1>3 DEF BufOK
<1>5. ASSUME NEW i \in 1 .. b.w - b.r PROVE e.mem[e.r + i - 1] = b.mem[b.r + i - 1]
  <2> DEFINE j == b.r + i - 1
  <2>1. b.r \in Nat /\ b.w \in Nat /\ b.w <= MaxSize
    <3>1. b.r \in Nat /\ b.w \in Nat /\ b.w <= b.size /\ b.size <= MaxSize /\ b.size \in Nat
      BY Indices
    <3> QED BY <3>1, Constants
  <2>2. j \in 0 .. MaxSize - 1 /\ j \in b.r .. b.w - 1
    BY <2>1, Constants, SMTT(30)
  <2> HIDE DEF j
  <2>3. e.mem[j] = b.mem[j]
    BY <2>2, <1>1
  <2> QED BY <2>3, <1>1 DEF j
<1>6. k \in 0 .. Len(x) /\ e.w - e.r = (b.w - b.r) + k /\ Len(x) = Len(x) - k
  <2>1. b.w - b.r \in Nat
    BY Indices
  <2> QED BY <2>1, <1>1
<1>7. \A i \in 1 .. Len(x) : x[i] = x[k + i]
  OBVIOUS
<1>8. \A i \in 1 .. k : e.mem[e.r + (b.w - b.r) + i - 1] = x[i]
  OBVIOUS
<1> HIDE DEF k
<1>9. Shifted(e, x, b, x, k)
  BY <1>5, <1>6, <1>7, <1>8 DEF Shifted
<1>10. View(e, x, F, u) = View(b, x, F, u)
  BY <1>4, <1>6, <1>9, SameView
<1> QED BY <1>4, <1>10 DEF e

\* A buffer that is rewound held nothing.
LEMMA RewoundView ==
  ASSUME NEW b, BufOK(b), NEW x \in Seq(Unit), NEW F \in Seq(Unit), NEW u \in 0 .. Len(F)
  PROVE  /\ BufOK(Rewound(b)) /\ View(Rewound(b), x, F, u) = View(b, x, F, u)
         /\ Rewound(b).n - Rewound(b).r = b.n - b.r /\ Rewound(b).w - Rewound(b).r = b.w - b.r
<1>1. CASE ~ (b.r > 0 /\ b.r = b.w)
  BY <1>1 DEF Rewound
<1>2. CASE b.r > 0 /\ b.r = b.w
  <2> DEFINE e == [mem |-> b.mem, size |-> b.size, w |-> 0, n |-> 0, r |-> 0]
             k == 0
  <2>1. b \in [mem : [0 .. MaxSize - 1 -> Cell], size : Nat, w : Nat, n : Nat, r : Nat]
    BY DEF BufOK
  <2>2. Rewound(b) = e
    BY <1>2, <2>1 DEF Rewound
  <2>3. b.w - b.r = 0 /\ b.n - b.r = 0
    BY <1>2, Indices
  <2>4. e.mem = b.mem /\ e.size = b.size /\ e.w = 0 /\ e.n = 0 /\ e.r = 0
    OBVIOUS
  <2>5. e \in [mem : [0 .. MaxSize - 1 -> Cell], size : Nat, w : Nat, n : Nat, r : Nat]
    BY Indices
  <2> HIDE DEF e
  <2>6. BufOK(e)
    BY <2>4, <2>5 DEF BufOK
  <2>7. k \in 0 .. Len(x) /\ e.w - e.r = (b.w - b.r) + k /\ Len(x) = Len(x) - k
        /\ (\A i \in 1 .. Len(x) : x[i] = x[k + i])
        /\ (\A i \in 1 .. k : e.mem[e.r + (b.w - b.r) + i - 1] = x[i])
        /\ (\A i \in 1 .. b.w - b.r : e.mem[e.r + i - 1] = b.mem[b.r + i - 1])
    <3>1. k \in 0 .. Len(x) /\ e.w - e.r = (b.w - b.r) + k /\ Len(x) = Len(x) - k
      BY <2>3, <2>4
    <3>2. \A i \in 1 .. Len(x) : x[i] = x[k + i]
      OBVIOUS
    <3>3. 1 .. k = {} /\ 1 .. b.w - b.r = {}
      BY <2>3
    <3> QED BY <3>1, <3>2, <3>3
  <2> HIDE DEF k
  <2>8. Shifted(e, x, b, x, k)
    BY <2>7 DEF Shifted
  <2>9. View(e, x, F, u) = View(b, x, F, u)
    BY <2>6, <2>7, <2>8, SameView
  <2> QED BY <2>2, <2>3, <2>4, <2>6, <2>9
<1> QED BY <1>1, <1>2

\* Of the bytes in the buffer and in flight, those of messages are the ones sent.
LEMMA SentCount ==
  ASSUME NEW b, BufOK(b), NEW x \in Seq(Unit), NEW F \in Fresh, NEW u \in 0 .. Len(F),
         NEW V \in Seq(Unit), IsView(V, b, x, F, u), NEW at, Counts(V, F, at)
  PROVE  at[(b.w - b.r) + Len(x)] = u
<1> DEFINE L == (b.w - b.r) + Len(x)
           f == Len(F) - u
<1>1. L \in Nat /\ f \in Nat /\ u \in Nat /\ Len(F) \in Nat /\ Len(F) = u + f
  <2>1. b.w - b.r \in Nat
    BY Indices
  <2>2. F \in Seq(Unit) /\ Len(x) \in Nat
    BY DEF Fresh
  <2>3. Len(F) \in Nat
    BY <2>2
  <2> QED BY <2>1, <2>2, <2>3
<1>2. Len(V) = L + f /\ \A i \in 1 .. f : V[L + i] = F[u + i]
  BY DEF IsView
<1>3. F \in Seq(Unit) /\ \A i \in 1 .. Len(F) : ~ IsHeartbeat(F[i].msg)
  BY DEF Fresh
<1> HIDE DEF L, f
<1>4. DataOnly(V, L, Len(V))
  <2> SUFFICES ASSUME NEW i \in L + 1 .. Len(V) PROVE ~ IsHeartbeat(V[i].msg)
    BY DEF DataOnly
  <2>1. PICK j \in 1 .. f : i = L + j
    BY <1>1, <1>2
  <2>2. V[i] = F[u + j] /\ u + j \in 1 .. Len(F)
    BY <2>1, <1>1, <1>2
  <2> QED BY <2>2, <1>3
<1>5. L \in 0 .. Len(V) /\ Len(V) \in L .. Len(V) /\ Len(V) - L = f
  BY <1>1, <1>2
<1> DEFINE p == Len(V)
<1>6. p \in L .. p /\ at[p] = Len(F)
  BY <1>5 DEF Counts
<1> HIDE DEF p
<1>7. at[L] \in Nat /\ at[p] = at[L] + (p - L)
  BY <1>3, <1>4, <1>5, <1>6, CountOn DEF p
<1>8. at[L] = u
  BY <1>1, <1>5, <1>6, <1>7 DEF p
<1> QED BY <1>8 DEF L

\* readidx_ is moved d bytes on.
Advanced(e, b, d) == e = [b EXCEPT !.r = b.r + d]

\* readidx_ moves d bytes on, and a of the bytes were those of messages.
LEMMA AdvanceView ==
  ASSUME NEW b, BufOK(b), NEW x \in Seq(Unit), NEW F \in Seq(Unit), NEW u \in 0 .. Len(F),
         View(b, x, F, u) \in Seq(Unit), NEW d \in 0 .. b.n - b.r, NEW a \in 0 .. u,
         NEW e, Advanced(e, b, d)
  PROVE  /\ BufOK(e) /\ e.mem = b.mem /\ e.size = b.size /\ e.w = b.w /\ e.n = b.n /\ e.r = b.r + d
         /\ View(e, x, Drop(F, a), u - a) = Drop(View(b, x, F, u), d)
<1> DEFINE V == View(b, x, F, u)
           E == Drop(F, a)
           W == View(e, x, E, u - a)
           l == b.w - b.r
           k == Len(x)
           f == Len(F) - u
<1>1. b \in [mem : [0 .. MaxSize - 1 -> Cell], size : Nat, w : Nat, n : Nat, r : Nat]
  BY DEF BufOK
<1>2. e = [mem |-> b.mem, size |-> b.size, w |-> b.w, n |-> b.n, r |-> b.r + d]
  BY <1>1 DEF Advanced
<1>3. e.mem = b.mem /\ e.size = b.size /\ e.w = b.w /\ e.n = b.n /\ e.r = b.r + d
  BY <1>2
<1>4. b.r \in Nat /\ b.n \in Nat /\ b.w \in Nat /\ b.n - b.r \in Nat /\ b.n - b.r <= l /\ l \in Nat /\ b.n <= b.w
  BY Indices
<1>5. e.r \in Nat /\ e.r <= e.n
  BY <1>3, <1>4
<1>6. e \in [mem : [0 .. MaxSize - 1 -> Cell], size : Nat, w : Nat, n : Nat, r : Nat]
  BY <1>1, <1>2, <1>3, <1>5
<1>7. BufOK(e)
  BY <1>3, <1>5, <1>6 DEF BufOK
<1>8. E \in Seq(Unit) /\ Len(E) = Len(F) - a /\ \A i \in 1 .. Len(F) - a : E[i] = F[i + a]
  <2>1. a \in 0 .. Len(F)
    OBVIOUS
  <2> QED BY <2>1, Dropped
<1>9. k \in Nat /\ f \in Nat /\ u \in Nat /\ a \in Nat /\ a <= u /\ Len(F) = u + f /\ u - a \in 0 .. Len(E)
  BY <1>8
<1>10. /\ Len(V) = l + k + f
       /\ \A i \in 1 .. l : V[i] = b.mem[b.r + i - 1]
       /\ \A i \in 1 .. k : V[l + i] = x[i]
       /\ \A i \in 1 .. f : V[l + k + i] = F[u + i]
  <2>1. IsView(V, b, x, F, u)
    BY Viewed
  <2> HIDE DEF V
  <2> QED BY <2>1 DEF IsView
<1> HIDE DEF E
<1>11. /\ Len(W) = (e.w - e.r) + k + (Len(E) - (u - a)) /\ W \in Seq(Cell)
       /\ \A i \in 1 .. e.w - e.r : W[i] = e.mem[e.r + i - 1]
       /\ \A i \in 1 .. k : W[(e.w - e.r) + i] = x[i]
       /\ \A i \in 1 .. Len(E) - (u - a) : W[(e.w - e.r) + k + i] = E[(u - a) + i]
  <2> DEFINE v == u - a
  <2>1. v \in 0 .. Len(E)
    BY <1>9
  <2> HIDE DEF v
  <2>2. IsView(View(e, x, E, v), e, x, E, v)
    BY <2>1, <1>7, <1>8, Viewed
  <2>3. IsView(W, e, x, E, u - a)
    BY <2>2 DEF v
  <2> HIDE DEF W
  <2> QED BY <2>3 DEF IsView
<1> HIDE DEF V, W, l, k, f
<1>12. e.w - e.r = l - d /\ Len(E) - (u - a) = f /\ d \in Nat /\ d <= l
  <2>1. d \in Nat /\ d <= l
    BY <1>4
  <2>2. e.w - e.r = l - d
    BY <2>1, <1>3, <1>4 DEF l
  <2> QED BY <2>1, <2>2, <1>8, <1>9
<1> DEFINE g == l - d
<1>13. l \in Nat /\ k \in Nat /\ f \in Nat /\ d \in Nat /\ g \in Nat /\ l = g + d
  BY <1>4, <1>9, <1>12
<1>14. u \in Nat /\ a \in Nat /\ a <= u /\ Len(F) = u + f /\ b.r \in Nat
  BY <1>4, <1>9
<1>15. /\ Len(W) = g + k + f /\ W \in Seq(Cell)
       /\ \A i \in 1 .. g : W[i] = b.mem[b.r + d + i - 1]
       /\ \A i \in 1 .. k : W[g + i] = x[i]
       /\ \A i \in 1 .. f : W[g + k + i] = E[(u - a) + i]
  BY <1>3, <1>11, <1>12
<1> HIDE DEF g
<1> DEFINE D == Drop(V, d)
<1>16. D \in Seq(Unit) /\ Len(D) = Len(V) - d /\ \A i \in 1 .. Len(V) - d : D[i] = V[i + d]
  <2>1. V \in Seq(Unit)
    BY DEF V
  <2>2. d \in 0 .. Len(V)
    BY <1>13, <1>10
  <2> QED BY <2>1, <2>2, Dropped
<1> HIDE DEF D
<1>17. Len(W) = Len(D) /\ Len(W) = g + k + f /\ Len(V) - d = g + k + f
  <2>1. Len(V) = l + k + f
    BY <1>10
  <2>2. Len(W) = g + k + f
    BY <1>15
  <2>3. Len(D) = Len(V) - d
    BY <1>16
  <2>4. Len(V) - d = g + k + f
    BY <1>13, <2>1
  <2> QED BY <2>2, <2>3, <2>4
<1>18. ASSUME NEW i \in 1 .. g + k + f PROVE W[i] = D[i]
  <2>1. D[i] = V[i + d]
    BY <1>16, <1>17
  <2>2. CASE i <= g
    <3>1. i \in 1 .. g /\ i + d \in 1 .. l /\ b.r + (i + d) - 1 = b.r + d + i - 1
      BY <2>2, <1>13, <1>14
    <3>2. V[i + d] = b.mem[b.r + (i + d) - 1]
      BY <3>1, <1>10
    <3>3. W[i] = b.mem[b.r + d + i - 1]
      BY <3>1, <1>15
    <3> QED BY <3>1, <3>2, <3>3, <2>1
  <2>3. CASE i > g /\ i <= g + k
    <3>1. PICK j \in 1 .. k : i = g + j
      BY <2>3, <1>13
    <3>2. i + d = l + j
      BY <3>1, <1>13
    <3> QED BY <3>1, <3>2, <2>1, <1>10, <1>15
  <2>4. CASE i > g + k
    <3>1. PICK j \in 1 .. f : i = g + k + j
      BY <2>4, <1>13
    <3>2. i + d = l + k + j /\ (u - a) + j \in 1 .. Len(F) - a /\ ((u - a) + j) + a = u + j
      BY <3>1, <1>13, <1>14
    <3>3. E[(u - a) + j] = F[u + j]
      BY <3>2, <1>8
    <3>4. W[i] = E[(u - a) + j] /\ V[i + d] = F[u + j]
      BY <3>1, <3>2, <1>10, <1>15
    <3> QED BY <3>3, <3>4, <2>1
  <2> QED BY <2>2, <2>3, <2>4, <1>13
<1>19. W = D
  <2>1. D \in Seq(Cell)
    BY <1>16 DEF Cell
  <2>2. \A i \in 1 .. Len(W) : W[i] = D[i]
    BY <1>17, <1>18
  <2> QED BY <2>1, <2>2, <1>15, <1>17, SeqEqual
<1> QED BY <1>3, <1>7, <1>19 DEF W, D, V, E

\* The message at readidx_, if it is not a heartbeat, is whole, its header is in
\* host byte order, and it is the oldest message that the peer has.
LEMMA FrontMessage ==
  ASSUME NEW b, BufOK(b), NEW x \in Seq(Unit), NEW F \in Fresh, NEW u \in 0 .. Len(F),
         NEW V, V = View(b, x, F, u), Framed(V, F, b.n - b.r, b.w - b.r),
         b.r # b.n, ~ IsHeartbeat(V[1].msg)
  PROVE  /\ V[1].msg \in Message /\ MsgAtFront(b) = V[1].msg
         /\ Len(F) > 0 /\ F[1].msg = V[1].msg
         /\ RoundUp(V[1].msg.size) <= b.n - b.r
         /\ Bound(V, RoundUp(V[1].msg.size)) /\ DataOnly(V, 0, RoundUp(V[1].msg.size))
<1> DEFINE c == b.n - b.r
           l == b.w - b.r
           m == V[1].msg
           len == RoundUp(m.size)
<1>1. F \in Seq(Unit)
  BY DEF Fresh
<1>2. IsView(V, b, x, F, u)
  BY <1>1, Viewed
<1>3. V \in Seq(Unit) /\ Chain(V) /\ Bound(V, c) /\ Host(V, c, l) /\ Match(V, F)
  BY DEF Framed
<1>4. c \in Nat /\ l \in Nat /\ c <= l /\ c > 0 /\ b.r \in Nat /\ b.n = b.r + c
  BY Indices
<1>5. l <= Len(V) /\ Len(V) \in Nat /\ \A i \in 1 .. l : V[i] = b.mem[b.r + i - 1]
  <2>1. Len(V) = l + Len(x) + (Len(F) - u)
    BY <1>2 DEF IsView
  <2>2. Len(x) \in Nat /\ Len(F) - u \in Nat
    BY <1>1
  <2>3. \A i \in 1 .. l : V[i] = b.mem[b.r + i - 1]
    BY <1>2 DEF IsView
  <2> HIDE DEF l
  <2> QED BY <2>1, <2>2, <2>3, <1>4
<1> HIDE DEF c, l
<1>6. V[1] \in Unit /\ m \in AnyMsg /\ m \in Message
  <2>1. V[1] \in Unit
    BY <1>3, <1>4, <1>5
  <2> QED BY <2>1, Units, Messages
<1>7. len \in Nat /\ len >= HDR /\ len >= 1 /\ len <= c /\ Bound(V, len)
      /\ \A j \in 1 .. len : V[j].msg = m /\ V[j].pos = j - 1
  <2> DEFINE z == 0
             s == Size(V[z + 1])
  <2>1. z \in 0 .. Len(V) /\ Bound(V, z) /\ z < Len(V) /\ c \in 0 .. Len(V) /\ z < c
    BY <1>4, <1>5 DEF Bound
  <2>2. V[z + 1] = V[1]
    OBVIOUS
  <2>3. \A j : j \in Int => z + j = j
    OBVIOUS
  <2> HIDE DEF z
  <2>4. /\ s \in Nat /\ s >= HDR /\ s >= 1 /\ z + s <= c /\ Bound(V, z + s)
        /\ \A j \in 1 .. s : V[z + j].msg = V[z + 1].msg /\ V[z + j].pos = j - 1
    BY <1>3, <2>1, MessageAt
  <2>5. s = len
    BY <2>2 DEF Size
  <2> HIDE DEF s
  <2>6. z + s = s /\ \A j \in 1 .. s : z + j = j
    BY <2>3, <2>4
  <2> QED BY <2>2, <2>4, <2>5, <2>6
<1> HIDE DEF len
<1>8. ASSUME NEW j \in 0 .. len - 1
      PROVE  b.mem[b.r + j] = [msg |-> m, pos |-> j, host |-> j < HDR]
  <2> DEFINE i == j + 1
             h == V[i].host
  <2>1. i \in 1 .. len /\ i \in 1 .. l /\ i \in 1 .. Len(V) /\ i - 1 = j /\ b.r + i - 1 = b.r + j
    <3>1. len \in Nat /\ len <= l /\ len <= Len(V) /\ l \in Nat /\ Len(V) \in Nat /\ b.r \in Nat
      BY <1>4, <1>5, <1>7
    <3>2. i \in 1 .. len /\ i - 1 = j /\ b.r + i - 1 = b.r + j
      BY <3>1
    <3>3. i \in 1 .. l /\ i \in 1 .. Len(V)
      BY <3>1
    <3> QED BY <3>2, <3>3
  <2> HIDE DEF i
  <2>2. V[i] = b.mem[b.r + j] /\ V[i] \in Unit /\ V[i].msg = m /\ V[i].pos = j
    BY <2>1, <1>3, <1>5, <1>7
  <2>3. Start(V, i) = 0
    BY <2>1, <2>2 DEF Start
  <2>4. h <=> j < HDR
    BY <2>1, <2>2, <2>3, <1>3, <1>4 DEF Host
  <2>5. h \in BOOLEAN /\ V[i] = [msg |-> m, pos |-> j, host |-> h]
    BY <2>2, Units
  <2>6. h = (j < HDR)
    BY <2>4, <2>5
  <2> QED BY <2>2, <2>5, <2>6
<1>9. MsgAtFront(b) = m
  <2>1. b.mem[b.r].msg = m
    <3>1. 1 \in 1 .. l /\ b.r + 1 - 1 = b.r
      BY <1>4
    <3> QED BY <3>1, <1>5
  <2>2. len > 0 /\ b.r + len <= b.n
    BY <1>4, <1>7
  <2>3. RoundUp(b.mem[b.r].msg.size) = len
    BY <2>1 DEF len
  <2> QED BY <2>1, <2>2, <2>3, <1>8 DEF MsgAtFront
<1>10. Len(F) > 0 /\ F[1].msg = m
  <2>1. PICK at : Counts(V, F, at)
    BY <1>3 DEF Match
  <2>2. 1 \in 1 .. Len(V) /\ 1 - 1 = 0
    BY <1>4, <1>5
  <2>3. at[0] = 0
    BY <2>1 DEF Counts
  <2>4. at[1] = at[1 - 1] + 1 /\ m = F[at[1]].msg
    BY <2>1, <2>2 DEF Counts
  <2>5. at[1] = 1
    BY <2>2, <2>3, <2>4
  <2>6. at[1] \in 0 .. Len(F)
    BY <2>1, <2>2 DEF Counts
  <2> QED BY <2>4, <2>5, <2>6, <1>1
<1>11. DataOnly(V, 0, len)
  BY <1>7 DEF DataOnly
<1> QED BY <1>6, <1>7, <1>9, <1>10, <1>11 DEF c, len

\* Pop() takes the oldest message off the stream and off the peer's queue.
LEMMA PopFramed ==
  ASSUME NEW b, BufOK(b), NEW x \in Seq(Unit), NEW F \in Fresh, NEW u \in 0 .. Len(F),
         NEW V, V = View(b, x, F, u), Framed(V, F, b.n - b.r, b.w - b.r),
         NEW d \in 1 .. b.n - b.r, Bound(V, d), DataOnly(V, 0, d),
         NEW e, Advanced(e, b, d)
  PROVE  /\ d <= u /\ BufOK(e) /\ Framed(View(e, x, Drop(F, d), u - d), Drop(F, d), e.n - e.r, e.w - e.r)
         /\ d \in 0 .. Len(F)
<1> DEFINE c == b.n - b.r
           l == b.w - b.r
           L == l + Len(x)
<1>1. F \in Seq(Unit) /\ Len(F) \in Nat /\ u \in Nat /\ u <= Len(F)
  <2>1. F \in Seq(Unit)
    BY DEF Fresh
  <2> QED BY <2>1
<1>2. IsView(V, b, x, F, u)
  BY <1>1, Viewed
<1>3. V \in Seq(Unit)
  BY DEF Framed
<1>4. c \in Nat /\ l \in Nat /\ c <= l /\ d \in Nat /\ d <= c /\ b.r \in Nat /\ b.n \in Nat /\ b.w \in Nat
  BY Indices
<1>5. Len(V) = L + (Len(F) - u)
  BY <1>2 DEF IsView
<1> HIDE DEF c, l
<1>6. L \in Nat /\ l <= L /\ L <= Len(V) /\ Len(V) \in Nat
  BY <1>1, <1>4, <1>5
<1> HIDE DEF L
<1>7. PICK at : Counts(V, F, at)
  BY DEF Framed, Match
<1>8. at[L] = u
  BY <1>2, <1>3, <1>7, SentCount DEF L, l
<1>9. at[d] = d
  <2> DEFINE z == 0
  <2>1. z \in 0 .. Len(V) /\ d \in z .. Len(V) /\ DataOnly(V, z, d) /\ d - z = d
    BY <1>4, <1>6
  <2>2. at[z] = 0
    BY <1>7 DEF Counts
  <2> HIDE DEF z
  <2>3. at[d] = at[z] + (d - z)
    BY <2>1, <1>1, <1>3, <1>7, CountOn
  <2> QED BY <2>1, <2>2, <2>3, <1>4
<1>10. d <= u
  <2>1. d \in 0 .. Len(V) /\ L \in d .. Len(V)
    BY <1>4, <1>6
  <2>2. at[d] <= at[L]
    BY <2>1, <1>1, <1>3, <1>7, CountOn
  <2> QED BY <2>2, <1>8, <1>9
<1>11. /\ BufOK(e) /\ e.w = b.w /\ e.n = b.n /\ e.r = b.r + d
       /\ View(e, x, Drop(F, d), u - d) = Drop(V, d)
  <2>1. d \in 0 .. b.n - b.r /\ d \in 0 .. u /\ View(b, x, F, u) \in Seq(Unit)
    BY <1>1, <1>3, <1>4, <1>10 DEF c
  <2> QED BY <2>1, <1>1, AdvanceView
<1>12. Framed(Drop(V, d), Drop(F, at[d]), c - d, l - d)
  <2>1. d \in 0 .. Len(V) /\ c \in d .. Len(V) /\ l \in c .. Len(V) /\ Framed(V, F, c, l)
    BY <1>4, <1>6 DEF c, l
  <2> QED BY <2>1, <1>1, <1>3, <1>7, DropFramed
<1>13. e.n - e.r = c - d /\ e.w - e.r = l - d
  <2>1. e.n - e.r = b.n - (b.r + d) /\ e.w - e.r = b.w - (b.r + d)
    BY <1>11
  <2> QED BY <2>1, <1>4, SMTT(30) DEF c, l
<1>14. d \in 0 .. Len(F)
  BY <1>1, <1>4, <1>10
<1> QED BY <1>9, <1>10, <1>11, <1>12, <1>13, <1>14

\* There is a first element of an interval that is not in S, or none.
LEMMA FirstNotIn ==
  ASSUME NEW a \in Nat, NEW e \in Nat, a <= e, NEW S
  PROVE  \E i \in a .. e : (i = e \/ i \notin S) /\ \A j \in a .. i - 1 : j \in S
<1> SUFFICES ASSUME \A i \in a .. e : ~ ((i = e \/ i \notin S) /\ \A j \in a .. i - 1 : j \in S)
             PROVE  FALSE
  OBVIOUS
<1> DEFINE N == e - a
           T == {d \in 0 .. N : \A j \in a .. a + d - 1 : j \in S}
<1>1. N \in Nat /\ e = a + N
  OBVIOUS
<1> HIDE DEF N
<1>2. 0 \in T
  BY <1>1
<1>3. ASSUME NEW d \in 0 .. N - 1, d \in T PROVE d + 1 \in T
  <2>1. a + d \in a .. e /\ d + 1 \in 0 .. N
    BY <1>1
  <2>2. \A j \in a .. (a + d) - 1 : j \in S
    BY <1>3
  <2>3. a + d \in S
    BY <2>1, <2>2
  <2>4. ASSUME NEW j \in a .. a + (d + 1) - 1 PROVE j \in S
    <3>1. j = a + d \/ j \in a .. (a + d) - 1
      BY <1>1
    <3> QED BY <3>1, <2>2, <2>3
  <2> QED BY <2>1, <2>4
<1>4. \A d \in 0 .. N : d \in T
  <2> HIDE DEF T
  <2> QED BY <1>1, <1>2, <1>3, UpTo
<1>5. N \in T
  <2>1. N \in 0 .. N
    BY <1>1
  <2> HIDE DEF T
  <2> QED BY <2>1, <1>4
<1>6. \A j \in a .. e - 1 : j \in S
  BY <1>1, <1>5
<1> QED BY <1>6

\* What SkipHeartbeats() skips.
LEMMA Skips ==
  ASSUME NEW b, BufOK(b), NEW x \in Seq(Unit), NEW F \in Seq(Unit), NEW u \in 0 .. Len(F),
         NEW V, V = View(b, x, F, u), Framed(V, F, b.n - b.r, b.w - b.r)
  PROVE  \E d \in 0 .. b.n - b.r :
           /\ Advanced(SkipHeartbeats(b), b, d)
           /\ Bound(V, d) /\ HBOnly(V, 0, d)
           /\ d # b.n - b.r => ~ IsHeartbeat(V[d + 1].msg)
<1> DEFINE c == b.n - b.r
           l == b.w - b.r
           a == b.r
           P(i) == /\ i = b.n \/ ~ IsHeartbeat(b.mem[i].msg)
                   /\ \A j \in b.r .. i - 1 : IsHeartbeat(b.mem[j].msg)
           i == CHOOSE k \in b.r .. b.n : P(k)
<1>1. IsView(V, b, x, F, u)
  BY Viewed
<1>2. V \in Seq(Unit) /\ Chain(V) /\ Bound(V, c)
  BY DEF Framed
<1>3. c \in Nat /\ l \in Nat /\ c <= l /\ b.r \in Nat /\ b.n \in Nat /\ b.r <= b.n /\ b.n = b.r + c
  BY Indices
<1>4. Len(V) \in Nat /\ l <= Len(V) /\ \A k \in 1 .. l : V[k] = b.mem[b.r + k - 1]
  <2>1. Len(V) = l + Len(x) + (Len(F) - u)
    BY <1>1 DEF IsView
  <2>2. Len(x) \in Nat /\ Len(F) - u \in Nat
    OBVIOUS
  <2>3. \A k \in 1 .. l : V[k] = b.mem[b.r + k - 1]
    BY <1>1 DEF IsView
  <2> HIDE DEF l
  <2> QED BY <2>1, <2>2, <2>3, <1>3, SMTT(30)
<1>5. SkipHeartbeats(b) = [b EXCEPT !.r = i]
  BY DEF SkipHeartbeats
<1>6. \E k \in b.r .. b.n : P(k)
  <2> DEFINE S == {k \in b.r .. b.n : IsHeartbeat(b.mem[k].msg)}
             e == b.n
  <2>1. a \in Nat /\ e \in Nat /\ a <= e
    BY <1>3
  <2> HIDE DEF S, a, e
  <2>2. PICK k \in a .. e : (k = e \/ k \notin S) /\ \A j \in a .. k - 1 : j \in S
    BY <2>1, FirstNotIn
  <2>3. k \in b.r .. b.n /\ (k = b.n \/ k \notin S) /\ \A j \in b.r .. k - 1 : j \in S
    BY <2>2 DEF a, e
  <2>4. P(k)
    <3>1. k = b.n \/ ~ IsHeartbeat(b.mem[k].msg)
      BY <2>3 DEF S
    <3>2. \A j \in b.r .. k - 1 : IsHeartbeat(b.mem[j].msg)
      BY <2>3 DEF S
    <3> QED BY <3>1, <3>2
  <2> QED BY <2>3, <2>4
<1>7. i \in b.r .. b.n /\ P(i)
  <2> HIDE DEF P
  <2> QED BY <1>6
<1> HIDE DEF i
<1> DEFINE d == i - b.r
<1>8. d \in Nat /\ d <= c /\ i = b.r + d
  BY <1>3, <1>7
<1>9. Advanced(SkipHeartbeats(b), b, d)
  BY <1>5, <1>8 DEF Advanced
<1> HIDE DEF d
<1>10. ASSUME NEW k \in 1 .. d PROVE IsHeartbeat(V[k].msg)
  <2>1. k \in 1 .. l /\ b.r + k - 1 \in b.r .. i - 1
    BY <1>3, <1>8, SMTT(30)
  <2>2. V[k] = b.mem[b.r + k - 1]
    BY <2>1, <1>4
  <2> QED BY <2>1, <2>2, <1>7
<1>11. HBOnly(V, 0, d)
  BY <1>10 DEF HBOnly
<1>12. ASSUME d # c PROVE ~ IsHeartbeat(V[d + 1].msg) /\ d < c
  <2>1. d < c /\ i # b.n
    BY <1>12, <1>3, <1>8
  <2>2. ~ IsHeartbeat(b.mem[i].msg)
    BY <2>1, <1>7
  <2>3. d + 1 \in 1 .. l /\ b.r + (d + 1) - 1 = i
    BY <2>1, <1>3, <1>8
  <2>4. V[d + 1] = b.mem[b.r + (d + 1) - 1]
    BY <2>3, <1>4
  <2> QED BY <2>1, <2>2, <2>3, <2>4
<1> HIDE DEF c, l
<1>13. Bound(V, d)
  <2>1. CASE d = c
    BY <2>1, <1>2
  <2>2. CASE d = 0
    BY <2>2 DEF Bound
  <2>3. CASE d > 0 /\ d # c
    <3>1. d \in 1 .. Len(V) - 1 /\ d \in 1 .. d
      BY <2>3, <1>3, <1>4, <1>8, <1>12
    <3>2. IsHeartbeat(V[d].msg) /\ ~ IsHeartbeat(V[d + 1].msg)
      BY <3>1, <2>3, <1>10, <1>12
    <3>3. Ends(V[d])
      BY <3>1, <3>2, <1>2 DEF Chain
    <3> QED BY <3>3 DEF Bound
  <2> QED BY <2>1, <2>2, <2>3, <1>8
<1> QED
  <2>1. d \in 0 .. c
    BY <1>3, <1>8
  <2> QED BY <2>1, <1>9, <1>11, <1>12, <1>13 DEF c

\* readidx_ moves over whole heartbeats.
LEMMA HeartbeatsSkipped ==
  ASSUME NEW b, BufOK(b), NEW x \in Seq(Unit), NEW F \in Fresh, NEW u \in 0 .. Len(F),
         NEW V, V = View(b, x, F, u), NEW o \in Int, o <= b.w - b.r,
         Framed(V, F, b.n - b.r, o),
         NEW d \in 0 .. b.n - b.r, Bound(V, d), HBOnly(V, 0, d),
         NEW e, Advanced(e, b, d)
  PROVE  /\ BufOK(e) /\ e.n - e.r = (b.n - b.r) - d /\ e.w - e.r = (b.w - b.r) - d
         /\ e.mem = b.mem /\ e.size = b.size /\ e.w = b.w /\ e.n = b.n /\ e.r = b.r + d
         /\ View(e, x, F, u) = Drop(V, d)
         /\ Framed(Drop(V, d), F, (b.n - b.r) - d, o - d)
<1> DEFINE c == b.n - b.r
           l == b.w - b.r
<1>1. F \in Seq(Unit) /\ Len(F) \in Nat /\ u \in Nat /\ u <= Len(F)
  <2>1. F \in Seq(Unit)
    BY DEF Fresh
  <2> QED BY <2>1
<1>2. IsView(V, b, x, F, u)
  BY <1>1, Viewed
<1>3. V \in Seq(Unit)
  BY DEF Framed
<1>4. c \in Nat /\ l \in Nat /\ c <= l /\ d \in Nat /\ d <= c /\ b.r \in Nat /\ b.n \in Nat /\ b.w \in Nat
  BY Indices
<1>5. Len(V) = l + Len(x) + (Len(F) - u)
  BY <1>2 DEF IsView
<1>6. o <= l
  OBVIOUS
<1> HIDE DEF c, l
<1>7. l <= Len(V) /\ Len(V) \in Nat
  BY <1>1, <1>4, <1>5
<1>8. PICK at : Counts(V, F, at)
  BY DEF Framed, Match
<1> DEFINE z == 0
<1>9. at[d] = z
  <2>1. z \in 0 .. Len(V) /\ d \in z .. Len(V) /\ HBOnly(V, z, d)
    BY <1>4, <1>7
  <2>2. at[z] = z
    BY <1>8 DEF Counts
  <2> HIDE DEF z
  <2>3. at[d] = at[z]
    BY <2>1, <1>1, <1>3, <1>8, CountOn
  <2> QED BY <2>2, <2>3
<1>10. Drop(F, z) = F /\ u - z = u /\ z \in 0 .. u
  <2>1. Drop(F, z) \in Seq(Unit) /\ Len(Drop(F, z)) = Len(F) - z
        /\ \A i \in 1 .. Len(F) - z : Drop(F, z)[i] = F[i + z]
    <3>1. z \in 0 .. Len(F)
      BY <1>1
    <3> HIDE DEF z
    <3> QED BY <3>1, <1>1, Dropped
  <2>2. Len(Drop(F, z)) = Len(F) /\ \A i \in 1 .. Len(F) : Drop(F, z)[i] = F[i]
    BY <2>1, <1>1
  <2>3. Drop(F, z) = F
    <3> HIDE DEF z
    <3> QED BY <2>1, <2>2, <1>1, SeqEqual
  <2> QED BY <2>3, <1>1
<1> HIDE DEF z
<1>11. /\ BufOK(e) /\ e.mem = b.mem /\ e.size = b.size /\ e.w = b.w /\ e.n = b.n /\ e.r = b.r + d
       /\ View(e, x, Drop(F, z), u - z) = Drop(V, d)
  <2>1. d \in 0 .. b.n - b.r /\ View(b, x, F, u) \in Seq(Unit)
    BY <1>3
  <2> QED BY <2>1, <1>1, <1>10, AdvanceView
<1>12. Framed(Drop(V, d), Drop(F, at[d]), c - d, o - d)
  <2>1. d \in 0 .. Len(V) /\ c \in d .. Len(V) /\ o <= Len(V) /\ Framed(V, F, c, o)
    BY <1>4, <1>6, <1>7 DEF c
  <2> QED BY <2>1, <1>1, <1>3, <1>8, DropFramed
<1>13. e.n - e.r = c - d /\ e.w - e.r = l - d
  <2>1. e.n - e.r = b.n - (b.r + d) /\ e.w - e.r = b.w - (b.r + d)
    BY <1>11
  <2> QED BY <2>1, <1>4, SMTT(30) DEF c, l
<1>14. View(e, x, F, u) = Drop(V, d)
  BY <1>10, <1>11
<1>15. Framed(Drop(V, d), F, c - d, o - d)
  BY <1>9, <1>10, <1>12
<1> QED BY <1>11, <1>13, <1>14, <1>15 DEF c, l

-----------------------------------------------------------------------------
(* DoRecv().                                                               *)

\* Bytes that are written into a buffer.
LEMMA PutBytes ==
  ASSUME NEW m \in [0 .. MaxSize - 1 -> Cell], NEW i \in Nat, NEW s \in Seq(Unit)
  PROVE  /\ Put(m, i, s) \in [0 .. MaxSize - 1 -> Cell]
         /\ \A j \in 0 .. MaxSize - 1 : j < i \/ j >= i + Len(s) => Put(m, i, s)[j] = m[j]
         /\ \A j \in 1 .. Len(s) : i + j - 1 < MaxSize => Put(m, i, s)[i + j - 1] = s[j]
<1> DEFINE q == Len(s)
           P == Put(m, i, s)
<1>1. q \in Nat /\ \A j \in 1 .. q : s[j] \in Unit
  OBVIOUS
<1>2. P = [j \in 0 .. MaxSize - 1 |-> IF j \in i .. i + q - 1 THEN s[j - i + 1] ELSE m[j]]
  BY DEF Put
<1> HIDE DEF P, q
<1>3. ASSUME NEW j \in 0 .. MaxSize - 1, j < i \/ j >= i + q PROVE P[j] = m[j]
  <2>1. j \notin i .. i + q - 1
    BY <1>1, <1>3, Constants
  <2> QED BY <2>1, <1>2
<1>4. ASSUME NEW j \in 1 .. q, i + j - 1 < MaxSize PROVE P[i + j - 1] = s[j]
  <2> DEFINE k == i + j - 1
  <2>1. k \in 0 .. MaxSize - 1 /\ k \in i .. i + q - 1 /\ k - i + 1 = j
    BY <1>1, <1>4, Constants
  <2> HIDE DEF k
  <2>2. P[k] = s[j]
    BY <2>1, <1>2
  <2> QED BY <2>2 DEF k
<1>5. ASSUME NEW j \in 0 .. MaxSize - 1
      PROVE  (IF j \in i .. i + q - 1 THEN s[j - i + 1] ELSE m[j]) \in Cell
  <2>1. CASE j \in i .. i + q - 1
    <3>1. j - i + 1 \in 1 .. q
      BY <2>1, <1>1, Constants
    <3> QED BY <3>1, <2>1, <1>1 DEF Cell
  <2>2. CASE j \notin i .. i + q - 1
    BY <2>2
  <2> QED BY <2>1, <2>2
<1>6. P \in [0 .. MaxSize - 1 -> Cell]
  BY <1>2, <1>5
<1> QED BY <1>3, <1>4, <1>6 DEF P, q

\* What may be read beyond the buffer fits into the largest one.
LEMMA Room ==
  ASSUME NEW b, BufOK(b)
  PROVE  /\ Writable(b) \in Nat /\ ExtraSize(b) \in Nat
         /\ (b.w - b.r) + Writable(b) + ExtraSize(b) <= MaxSize
<1>1. b.size \in Nat /\ b.w \in Nat /\ b.r \in Nat /\ b.w <= b.size /\ b.size <= MaxSize
      /\ b.r <= b.w
  <2>1. b.size \in Nat /\ b.w \in Nat /\ b.r \in Nat /\ b.n \in Nat /\ b.w <= b.size /\ b.size <= MaxSize
        /\ b.r <= b.n /\ b.n <= b.w
    BY Indices
  <2> QED BY <2>1
<1> DEFINE more == IF (Writable(b) + b.r) * 2 < b.size THEN MaxSize - b.size ELSE 0
<1>2. more \in Nat /\ more <= MaxSize - b.size
  BY <1>1, Constants
<1>3. ExtraSize(b) = Least(StackSize, b.r + more)
  BY DEF ExtraSize
<1> HIDE DEF more
<1>4. ExtraSize(b) \in Nat /\ ExtraSize(b) <= b.r + more
  BY <1>1, <1>2, <1>3, Constants DEF Least
<1>5. Writable(b) \in Nat /\ Writable(b) = b.size - b.w
  BY <1>1 DEF Writable
<1>6. (b.w - b.r) + Writable(b) + ExtraSize(b) <= MaxSize
  <2> DEFINE v == ExtraSize(b)
             sz == b.size
             wi == b.w
             ri == b.r
  <2>1. v \in Nat /\ v <= ri + more /\ sz \in Nat /\ wi \in Nat /\ ri \in Nat /\ more \in Nat /\ more <= MaxSize - sz
    BY <1>1, <1>2, <1>4
  <2> HIDE DEF v, sz, wi, ri
  <2>2. (wi - ri) + (sz - wi) + v <= MaxSize
    BY <2>1, Constants
  <2> QED BY <2>2, <1>5 DEF v, sz, wi, ri
<1> QED BY <1>4, <1>5, <1>6

\* The size of an expanded buffer.
LEMMA Expanded ==
  ASSUME NEW b, BufOK(b), NEW k \in Nat, (b.w - b.r) + k <= MaxSize
  PROVE  /\ NewBufSize(b, k) \in Nat /\ NewBufSize(b, k) % HDR = 0
         /\ NewBufSize(b, k) <= MaxSize /\ InitSize <= NewBufSize(b, k)
         /\ (b.w - b.r) + k <= NewBufSize(b, k)
<1> DEFINE l == b.w - b.r
           need == l + k
           up2 == RoundUp(need)
           twice == b.size * 2
<1>1. l \in Nat /\ b.size \in Nat /\ InitSize <= b.size /\ b.size <= MaxSize /\ b.size % HDR = 0
  BY Indices DEF BufOK
<1>2. NewBufSize(b, k) = Least(MaxSize, Greatest(twice, up2))
  <2>1. b.w - b.r + k = need
    OBVIOUS
  <2> QED BY <2>1 DEF NewBufSize
<1> HIDE DEF l
<1>3. need \in Nat /\ need <= MaxSize
  BY <1>1 DEF l
<1> HIDE DEF need
<1>4. up2 \in Nat /\ up2 >= need /\ up2 % HDR = 0
  BY <1>3, Rounded
<1>5. twice \in Nat /\ twice >= b.size /\ twice % HDR = 0
  BY <1>1, Doubled
<1> HIDE DEF up2, twice
<1> DEFINE g == Greatest(twice, up2)
           y == Least(MaxSize, g)
<1>6. g \in Nat /\ g >= twice /\ g >= up2 /\ g % HDR = 0
  BY <1>4, <1>5 DEF Greatest
<1> HIDE DEF g
<1>7. y \in Nat /\ y <= MaxSize /\ (y = MaxSize \/ y = g)
  BY <1>6, Constants DEF Least
<1> HIDE DEF y
<1>8. y % HDR = 0
  BY <1>6, <1>7, Constants
<1>9. InitSize <= y /\ need <= y
  BY <1>1, <1>3, <1>4, <1>5, <1>6, <1>7, Constants
<1> QED BY <1>2, <1>7, <1>8, <1>9 DEF y, g, need, l

\* got is the buffer after DoRecv() of the first k bytes in flight, and e is got
\* after its caller has moved writeidx_.
IsReceived(e, got, b, x, k) ==
  got = DoRecv(b, SubSeq(x, 1, k)) /\ e = [got EXCEPT !.w = @ + k]

\* The first k bytes in flight.
LEMMA Arrived ==
  ASSUME NEW x \in Seq(Unit), NEW k \in 0 .. Len(x)
  PROVE  /\ SubSeq(x, 1, k) \in Seq(Unit) /\ Len(SubSeq(x, 1, k)) = k
         /\ \A i \in 1 .. k : SubSeq(x, 1, k)[i] = x[i]
         /\ SubSeq(x, k + 1, Len(x)) \in Seq(Unit) /\ Len(SubSeq(x, k + 1, Len(x))) = Len(x) - k
         /\ \A i \in 1 .. Len(x) - k : SubSeq(x, k + 1, Len(x))[i] = x[k + i]
<1> DEFINE q == Len(x)
<1>1. q \in Nat /\ k \in Nat /\ k <= q /\ \A i \in 1 .. q : x[i] \in Unit
  OBVIOUS
<1>2. /\ SubSeq(x, 1, k) \in Seq(Unit) /\ Len(SubSeq(x, 1, k)) = k
      /\ \A i \in 1 .. k : SubSeq(x, 1, k)[i] = x[i]
  OBVIOUS
<1>3. /\ SubSeq(x, k + 1, q) \in Seq(Unit) /\ Len(SubSeq(x, k + 1, q)) = q - k
      /\ \A i \in 1 .. q - k : SubSeq(x, k + 1, q)[i] = x[k + i]
  <2> DEFINE p == k + 1
  <2>1. p \in Int /\ q \in Int /\ \A i \in p .. q : x[i] \in Unit
    BY <1>1
  <2> HIDE DEF p, q
  <2>2. /\ SubSeq(x, p, q) \in Seq(Unit) /\ Len(SubSeq(x, p, q)) = IF p <= q THEN q - p + 1 ELSE 0
        /\ \A i \in 1 .. q - p + 1 : SubSeq(x, p, q)[i] = x[p + i - 1]
    BY <2>1, SubSeqProperties
  <2>3. q - p + 1 = q - k
    BY <1>1 DEF p
  <2>4. Len(SubSeq(x, p, q)) = q - k
    BY <2>2, <1>1 DEF p
  <2>5. ASSUME NEW i \in 1 .. q - k PROVE SubSeq(x, p, q)[i] = x[k + i]
    <3>1. p + i - 1 = k + i
      BY <1>1 DEF p
    <3> QED BY <3>1, <2>2, <2>3
  <2> QED BY <2>2, <2>4, <2>5 DEF p
<1> QED BY <1>2, <1>3

\* In the buffer got, of size Z, the unread bytes of b are at R in the memory M, and
\* there is room behind them for the first k bytes in flight, which are there.
Placed(got, M, Z, R, b, x, k) ==
  /\ got = [mem |-> M, size |-> Z, w |-> R + (b.w - b.r), n |-> R + (b.n - b.r), r |-> R]
  /\ M \in [0 .. MaxSize - 1 -> Cell]
  /\ Z \in Nat /\ Z % HDR = 0 /\ InitSize <= Z /\ Z <= MaxSize
  /\ R \in Nat /\ R + (b.w - b.r) + k <= Z
  /\ \A i \in 1 .. b.w - b.r : M[R + i - 1] = b.mem[b.r + i - 1]
  /\ \A i \in 1 .. k : M[R + (b.w - b.r) + i - 1] = x[i]

\* DoRecv() puts the bytes behind the unread ones, in place, after a memmove or in
\* a larger buffer.
LEMMA ReceivedBytes ==
  ASSUME NEW b, BufOK(b), NEW x \in Seq(Unit), NEW k \in 1 .. Len(x),
         k <= Writable(b) + ExtraSize(b)
  PROVE  \E M, Z, R : Placed(DoRecv(b, SubSeq(x, 1, k)), M, Z, R, b, x, k)
<1> DEFINE s == SubSeq(x, 1, k)
           l == b.w - b.r
           c == b.n - b.r
           ri == b.r
           wi == b.w
           sz == b.size
           free == Writable(b)
           here == Least(k, free)
           t == SubSeq(s, 1, here)
           P == Put(b.mem, b.w, t)
<1>1. s \in Seq(Unit) /\ Len(s) = k /\ (\A i \in 1 .. k : s[i] = x[i]) /\ k \in Nat
  <2>1. k \in 0 .. Len(x)
    OBVIOUS
  <2> QED BY <2>1, Arrived
<1> HIDE DEF s
<1>2. b \in [mem : [0 .. MaxSize - 1 -> Cell], size : Nat, w : Nat, n : Nat, r : Nat]
  BY DEF BufOK
<1>3. /\ b.size \in Nat /\ b.w \in Nat /\ b.n \in Nat /\ b.r \in Nat /\ b.w <= b.size /\ b.size <= MaxSize
      /\ InitSize <= b.size /\ l \in Nat /\ c \in Nat /\ b.mem \in [0 .. MaxSize - 1 -> Cell]
  BY Indices
<1>4. b.size % HDR = 0
  BY DEF BufOK
<1>5. free \in Nat /\ free = b.size - b.w /\ l + k <= MaxSize /\ b.w = b.r + l /\ b.n = b.r + c
  <2>1. free = b.size - b.w
    BY DEF Writable
  <2> DEFINE v == ExtraSize(b)
  <2>2. free \in Nat /\ v \in Nat /\ l + free + v <= MaxSize /\ k <= free + v
    BY Room
  <2> HIDE DEF v, l, free
  <2>3. l + k <= MaxSize
    BY <2>2, <1>1, <1>3, Constants
  <2>4. b.w = b.r + l /\ b.n = b.r + c
    BY <1>3 DEF l
  <2> QED BY <2>1, <2>2, <2>3, <2>4
<1>6. ri \in Nat /\ wi \in Nat /\ sz \in Nat /\ sz <= MaxSize /\ wi = ri + l /\ sz = wi + free
  BY <1>3, <1>5
<1>7. l \in Nat /\ k \in Nat /\ free \in Nat /\ l + k <= MaxSize
  BY <1>1, <1>3, <1>5
<1> HIDE DEF free, l, c, ri, wi, sz
<1>8. b.r = ri /\ b.w = wi /\ b.size = sz
  BY DEF ri, wi, sz
<1>9. here \in Nat /\ here <= k /\ here <= free /\ (k <= free => here = k) /\ (k > free => here = free)
  BY <1>1, <1>5 DEF Least
<1> HIDE DEF here
<1>10. t \in Seq(Unit) /\ Len(t) = here /\ \A i \in 1 .. here : t[i] = x[i]
  <2>1. here \in 0 .. Len(s)
    BY <1>1, <1>9
  <2>2. t \in Seq(Unit) /\ Len(t) = here /\ \A i \in 1 .. here : t[i] = s[i]
    BY <2>1, <1>1, Arrived
  <2>3. \A i \in 1 .. here : i \in 1 .. k
    BY <1>1, <1>9
  <2> QED BY <2>2, <2>3, <1>1
<1> HIDE DEF t
<1>11. /\ P \in [0 .. MaxSize - 1 -> Cell]
       /\ \A j \in 0 .. MaxSize - 1 : j < b.w => P[j] = b.mem[j]
       /\ \A i \in 1 .. here : P[b.w + i - 1] = x[i]
  <2>1. /\ P \in [0 .. MaxSize - 1 -> Cell]
        /\ \A j \in 0 .. MaxSize - 1 : j < b.w \/ j >= b.w + Len(t) => P[j] = b.mem[j]
        /\ \A j \in 1 .. Len(t) : b.w + j - 1 < MaxSize => P[b.w + j - 1] = t[j]
    BY <1>3, <1>10, PutBytes
  <2> HIDE DEF P
  <2>2. ASSUME NEW i \in 1 .. here PROVE P[b.w + i - 1] = x[i]
    <3>1. wi + i - 1 < MaxSize
      BY <1>9, <1>6, <1>7, Constants
    <3> QED BY <3>1, <2>1, <1>10, <1>8
  <2> QED BY <2>1, <2>2
<1> HIDE DEF P
<1>12. CASE k <= free
  <2> DEFINE R == b.r
             Z == b.size
  <2>1. DoRecv(b, s) = [b EXCEPT !.mem = P]
    BY <1>1, <1>12 DEF DoRecv, free, here, t, P
  <2>2. DoRecv(b, s) = [mem |-> P, size |-> b.size, w |-> b.w, n |-> b.n, r |-> b.r]
    BY <2>1, <1>2
  <2>3. DoRecv(b, s) = [mem |-> P, size |-> Z, w |-> R + l, n |-> R + c, r |-> R]
    BY <2>2, <1>5
  <2>4. Z \in Nat /\ Z % HDR = 0 /\ InitSize <= Z /\ Z <= MaxSize /\ R \in Nat
    BY <1>3, <1>4
  <2>5. R + l + k <= Z
    BY <1>1, <1>3, <1>5, <1>12, SMTT(30)
  <2>6. ASSUME NEW i \in 1 .. l PROVE P[R + i - 1] = b.mem[b.r + i - 1]
    <3>1. ri + i - 1 \in 0 .. MaxSize - 1 /\ ri + i - 1 < wi
      BY <1>6, <1>7, Constants
    <3> QED BY <3>1, <1>11, <1>8
  <2>7. ASSUME NEW i \in 1 .. k PROVE P[R + l + i - 1] = x[i]
    <3>1. i \in 1 .. here /\ R + l + i - 1 = b.w + i - 1
      BY <1>1, <1>3, <1>5, <1>9, <1>12
    <3> QED BY <3>1, <1>11
  <2>8. Placed(DoRecv(b, s), P, Z, R, b, x, k)
    <3> HIDE DEF R, Z
    <3> QED BY <2>3, <2>4, <2>5, <2>6, <2>7, <1>11 DEF Placed, l, c
  <2> QED BY <2>8 DEF s
<1>13. CASE k > free
  <2> DEFINE R == 0
             Z == IF k > free + b.r THEN NewBufSize(b, k) ELSE b.size
             rest == SubSeq(s, here + 1, k)
             Q == [j \in 0 .. MaxSize - 1 |-> IF j < b.size - b.r THEN P[j + b.r] ELSE Junk]
             at == b.size - b.r
             M == Put(Q, at, rest)
             read == [b EXCEPT !.mem = Put(@, b.w, t)]
  <2>1. DoRecv(b, s) = [mem |-> Moved(read, rest), size |-> Z, w |-> b.w - b.r, n |-> b.n - b.r, r |-> 0]
    <3>1. ~ (k <= free)
      BY <1>1, <1>13, <1>7
    <3> QED BY <1>1, <3>1 DEF DoRecv, free, here, t
  <2>2. read = [mem |-> P, size |-> b.size, w |-> b.w, n |-> b.n, r |-> b.r]
    BY <1>2 DEF P
  <2>3. read.mem = P /\ read.size = b.size /\ read.r = b.r /\ DOMAIN P = 0 .. MaxSize - 1
    BY <2>2, <1>11
  <2> HIDE DEF read
  <2>4. Moved(read, rest) = M
    BY <2>3 DEF Moved
  <2>5. DoRecv(b, s) = [mem |-> M, size |-> Z, w |-> R + l, n |-> R + c, r |-> R]
    <3>1. R + l = b.w - b.r /\ R + c = b.n - b.r
      BY <1>3 DEF l, c
    <3> HIDE DEF M, Z
    <3> QED BY <3>1, <2>1, <2>4
  <2>6. Z \in Nat /\ Z % HDR = 0 /\ InitSize <= Z /\ Z <= MaxSize /\ R + l + k <= Z
    <3>1. CASE k > free + b.r
      <4> DEFINE g == NewBufSize(b, k)
      <4>1. g \in Nat /\ g % HDR = 0 /\ g <= MaxSize /\ InitSize <= g /\ l + k <= g
        BY <1>1, <1>5, Expanded DEF l
      <4> HIDE DEF g
      <4>2. R + l + k = l + k
        BY <1>1, <1>3
      <4> QED BY <4>1, <4>2, <3>1 DEF g
    <3>2. CASE k <= free + b.r
      <4>1. Z = b.size
        BY <3>2, <1>1, <1>3, <1>5
      <4>2. R + l + k <= b.size
        BY <3>2, <1>1, <1>3, <1>5, SMTT(30)
      <4> HIDE DEF Z
      <4> QED BY <4>1, <4>2, <1>3, <1>4
    <3> QED BY <3>1, <3>2, <1>1, <1>3, <1>5
  <2>7. rest \in Seq(Unit) /\ Len(rest) = k - free /\ \A i \in 1 .. k - free : rest[i] = x[free + i]
    <3>1. here \in 0 .. Len(s) /\ here = free
      BY <1>1, <1>9, <1>13
    <3>2. rest \in Seq(Unit) /\ Len(rest) = k - here /\ \A i \in 1 .. k - here : rest[i] = s[here + i]
      BY <3>1, <1>1, Arrived
    <3>3. \A i \in 1 .. k - free : free + i \in 1 .. k
      BY <1>1, <1>5
    <3> HIDE DEF rest
    <3> QED BY <3>1, <3>2, <3>3, <1>1
  <2> HIDE DEF rest
  <2>8. /\ Q \in [0 .. MaxSize - 1 -> Cell]
        /\ \A j \in 0 .. MaxSize - 1 : j < at => Q[j] = P[j + b.r]
    <3>1. ASSUME NEW j \in 0 .. MaxSize - 1, j < at PROVE j + b.r \in 0 .. MaxSize - 1
      BY <3>1, <1>3, Constants
    <3>2. ASSUME NEW j \in 0 .. MaxSize - 1 PROVE (IF j < b.size - b.r THEN P[j + b.r] ELSE Junk) \in Cell
      BY <3>1, <1>11 DEF Cell
    <3> QED BY <3>2
  <2>9. at \in Nat /\ at = l + free
    <3>1. at = sz - ri
      BY <1>8
    <3> HIDE DEF at
    <3> QED BY <3>1, <1>6, <1>7
  <2> HIDE DEF Q, at
  <2>10. /\ M \in [0 .. MaxSize - 1 -> Cell]
         /\ \A j \in 0 .. MaxSize - 1 : j < at \/ j >= at + Len(rest) => M[j] = Q[j]
         /\ \A j \in 1 .. Len(rest) : at + j - 1 < MaxSize => M[at + j - 1] = rest[j]
    BY <2>7, <2>8, <2>9, PutBytes
  <2> HIDE DEF M
  <2>11. ASSUME NEW j \in 0 .. MaxSize - 1, j < at PROVE M[j] = P[j + b.r]
    BY <2>8, <2>10, <2>11
  <2>12. ASSUME NEW i \in 1 .. l PROVE M[R + i - 1] = b.mem[b.r + i - 1]
    <3> DEFINE j == i - 1
    <3>1. R + i - 1 = j /\ j + b.r = b.r + i - 1 /\ j \in 0 .. MaxSize - 1 /\ j < at
          /\ j + b.r \in 0 .. MaxSize - 1 /\ j + b.r < b.w
      <4>1. R + i - 1 = j /\ j + ri = ri + i - 1 /\ j \in 0 .. MaxSize - 1 /\ j < at
        BY <2>9, <1>6, <1>7, Constants
      <4>2. j + ri \in 0 .. MaxSize - 1 /\ j + ri < wi
        BY <1>6, <1>7, Constants
      <4> QED BY <4>1, <4>2, <1>8
    <3> HIDE DEF j, R
    <3>2. M[j] = P[j + b.r]
      BY <3>1, <2>11
    <3>3. P[j + b.r] = b.mem[j + b.r]
      BY <3>1, <1>11
    <3> QED BY <3>1, <3>2, <3>3
  <2>13. ASSUME NEW i \in 1 .. k PROVE M[R + l + i - 1] = x[i]
    <3> DEFINE j == l + i - 1
    <3>1. R + l + i - 1 = j /\ j \in 0 .. MaxSize - 1
      BY <1>1, <1>3, <1>5, Constants
    <3>2. CASE i <= free
      <4>1. i \in 1 .. here /\ j < at /\ j + b.r = b.w + i - 1
        <5>1. i \in 1 .. here /\ j < at /\ j + ri = wi + i - 1
          BY <3>2, <2>9, <1>6, <1>7, <1>9, <1>13
        <5> QED BY <5>1, <1>8
      <4> HIDE DEF j, R
      <4>2. M[j] = P[j + b.r]
        BY <3>1, <4>1, <2>11
      <4>3. P[b.w + i - 1] = x[i]
        BY <4>1, <1>11
      <4> QED BY <3>1, <4>1, <4>2, <4>3
    <3>3. CASE i > free
      <4> DEFINE y == i - free
      <4>1. y \in 1 .. k - free /\ at + y - 1 = j /\ free + y = i /\ j < MaxSize
        BY <3>1, <3>3, <2>9, <1>7, Constants
      <4> HIDE DEF j, R, y
      <4>2. at + y - 1 < MaxSize /\ y \in 1 .. Len(rest)
        BY <4>1, <2>7
      <4>3. M[at + y - 1] = rest[y]
        BY <4>2, <2>10
      <4>4. rest[y] = x[free + y]
        BY <4>1, <2>7
      <4> QED BY <3>1, <4>1, <4>3, <4>4
    <3> QED BY <3>2, <3>3, <1>1, <1>5
  <2>14. R \in Nat
    OBVIOUS
  <2>15. Placed(DoRecv(b, s), M, Z, R, b, x, k)
    <3> HIDE DEF R, Z
    <3> QED BY <2>5, <2>6, <2>10, <2>12, <2>13, <2>14 DEF Placed, l, c
  <2> QED BY <2>15 DEF s
<1> QED BY <1>12, <1>13, <1>1, <1>5

\* The caller of DoRecv() has the bytes behind the unread ones, in the same stream.
LEMMA ReceivedView ==
  ASSUME NEW b, BufOK(b), NEW x \in Seq(Unit), NEW F \in Seq(Unit), NEW u \in 0 .. Len(F),
         NEW k \in 1 .. Len(x), k <= Writable(b) + ExtraSize(b),
         NEW e, NEW got, IsReceived(e, got, b, x, k)
  PROVE  /\ BufOK(e) /\ View(e, SubSeq(x, k + 1, Len(x)), F, u) = View(b, x, F, u)
         /\ e.n - e.r = b.n - b.r /\ e.w - e.r = (b.w - b.r) + k
         /\ got.w \in Nat /\ got.w - e.r = b.w - b.r
<1> DEFINE y == SubSeq(x, k + 1, Len(x))
           l == b.w - b.r
           c == b.n - b.r
<1>1. PICK M, Z, R : Placed(DoRecv(b, SubSeq(x, 1, k)), M, Z, R, b, x, k)
  BY ReceivedBytes
<1>2. /\ got = [mem |-> M, size |-> Z, w |-> R + l, n |-> R + c, r |-> R]
      /\ M \in [0 .. MaxSize - 1 -> Cell]
      /\ Z \in Nat /\ Z % HDR = 0 /\ InitSize <= Z /\ Z <= MaxSize /\ R \in Nat /\ R + l + k <= Z
  BY <1>1 DEF Placed, IsReceived
<1>3. \A i \in 1 .. l : M[R + i - 1] = b.mem[b.r + i - 1]
  BY <1>1 DEF Placed
<1>4. \A i \in 1 .. k : M[R + l + i - 1] = x[i]
  BY <1>1 DEF Placed
<1>5. e = [got EXCEPT !.w = @ + k]
  BY DEF IsReceived
<1>6. e = [mem |-> M, size |-> Z, w |-> R + l + k, n |-> R + c, r |-> R]
  BY <1>2, <1>5
<1>7. e.mem = M /\ e.size = Z /\ e.w = R + l + k /\ e.n = R + c /\ e.r = R /\ got.w = R + l
  BY <1>2, <1>6
<1>8. l \in Nat /\ c \in Nat /\ c <= l /\ k \in Nat
  BY Indices
<1> HIDE DEF l, c
<1>9. e.w \in Nat /\ e.n \in Nat /\ e.r \in Nat /\ e.r <= e.n /\ e.n <= e.w /\ e.w <= e.size
  <2>1. R + l + k \in Nat /\ R + c \in Nat /\ R <= R + c /\ R + c <= R + l + k /\ R + l + k <= Z /\ R \in Nat
    BY <1>2, <1>8
  <2> QED BY <2>1, <1>7
<1>10. BufOK(e)
  <2>1. e \in [mem : [0 .. MaxSize - 1 -> Cell], size : Nat, w : Nat, n : Nat, r : Nat]
    BY <1>2, <1>6, <1>7, <1>9
  <2> QED BY <2>1, <1>2, <1>7, <1>9 DEF BufOK
<1>11. e.n - e.r = c /\ e.w - e.r = l + k /\ got.w - e.r = l /\ got.w \in Nat
  <2>1. (R + c) - R = c /\ (R + l + k) - R = l + k /\ (R + l) - R = l /\ R + l \in Nat
    BY <1>2, <1>8
  <2> QED BY <2>1, <1>7
<1>12. y \in Seq(Unit) /\ Len(y) = Len(x) - k /\ (\A i \in 1 .. Len(y) : y[i] = x[k + i]) /\ k \in 0 .. Len(x)
  <2>1. k \in 0 .. Len(x)
    OBVIOUS
  <2>2. y \in Seq(Unit) /\ Len(y) = Len(x) - k /\ \A i \in 1 .. Len(x) - k : y[i] = x[k + i]
    BY <2>1, Arrived
  <2> HIDE DEF y
  <2> QED BY <2>1, <2>2
<1> HIDE DEF y
<1>13. View(e, y, F, u) = View(b, x, F, u)
  <2>1. e.w - e.r = (b.w - b.r) + k
    BY <1>11 DEF l
  <2>2. \A i \in 1 .. b.w - b.r : e.mem[e.r + i - 1] = b.mem[b.r + i - 1]
    BY <1>3, <1>7 DEF l
  <2>3. \A i \in 1 .. k : e.mem[e.r + (b.w - b.r) + i - 1] = x[i]
    BY <1>4, <1>7 DEF l
  <2>4. y \in Seq(Unit) /\ Len(y) = Len(x) - k /\ k \in 0 .. Len(x)
    BY <1>12
  <2>5. \A i \in 1 .. Len(y) : y[i] = x[k + i]
    BY <1>12
  <2>6. Shifted(e, y, b, x, k)
    BY <2>1, <2>2, <2>3, <2>4, <2>5 DEF Shifted
  <2> QED BY <2>4, <2>6, <1>10, SameView
<1> QED BY <1>10, <1>11, <1>13 DEF y, l, c

-----------------------------------------------------------------------------
(* The loop over the headers.                                              *)

\* The state of the loop.
ScanState == [b : [mem : [0 .. MaxSize - 1 -> Cell], size : Nat, w : Nat, n : Nat, r : Nat],
              acked : UInt, up : BOOLEAN, go : BOOLEAN]

\* The memory with the header converted, the message at nextmsg_idx_ and its size.
StepParts(s, old, m0, head, z) ==
  m0 = HeaderConverted(s.b, old) /\ head = m0[s.b.n].msg /\ z = RoundUp(head.size)

\* One iteration, case by case.
LEMMA StepIs ==
  ASSUME NEW s \in ScanState, NEW old, NEW m0, NEW head, NEW z, StepParts(s, old, m0, head, z)
  PROVE  /\ ~ s.go \/ s.b.w - s.b.n < HDR =>
              ScanStep(s, old) = [b |-> s.b, acked |-> s.acked, up |-> s.up, go |-> FALSE]
         /\ s.go /\ ~ (s.b.w - s.b.n < HDR) /\ (z > MaxSize \/ s.b.w - s.b.n < z) =>
              ScanStep(s, old) =
                [b |-> [mem |-> m0, size |-> s.b.size, w |-> s.b.w, n |-> s.b.n, r |-> s.b.r],
                 acked |-> Ack(s.acked, head.ack),
                 up |-> IF z > MaxSize THEN FALSE ELSE s.up, go |-> FALSE]
         /\ s.go /\ ~ (s.b.w - s.b.n < HDR) /\ ~ (z > MaxSize) /\ ~ (s.b.w - s.b.n < z) =>
              ScanStep(s, old) =
                [b |-> [mem |-> m0, size |-> s.b.size, w |-> s.b.w, n |-> s.b.n + z,
                        r |-> IF IsHeartbeat(head) /\ s.b.r = s.b.n THEN s.b.r + z ELSE s.b.r],
                 acked |-> Ack(s.acked, head.ack), up |-> s.up, go |-> TRUE]
<1> DEFINE b1 == [s.b EXCEPT !.mem = m0]
           skip == IsHeartbeat(head) /\ s.b.r = s.b.n
           r2 == IF skip THEN s.b.r + z ELSE s.b.r
           n2 == s.b.n + z
           b2 == [mem |-> m0, size |-> s.b.size, w |-> s.b.w, n |-> n2, r |-> r2]
           unread == s.b.w - s.b.n
<1>1. s.b \in [mem : [0 .. MaxSize - 1 -> Cell], size : Nat, w : Nat, n : Nat, r : Nat]
  BY DEF ScanState
<1>2. b1 = [mem |-> m0, size |-> s.b.size, w |-> s.b.w, n |-> s.b.n, r |-> s.b.r]
  BY <1>1
<1>3. [s EXCEPT !.go = FALSE] = [b |-> s.b, acked |-> s.acked, up |-> s.up, go |-> FALSE]
  <2> DEFINE BB == [mem : [0 .. MaxSize - 1 -> Cell], size : Nat, w : Nat, n : Nat, r : Nat]
  <2>1. s \in [b : BB, acked : UInt, up : BOOLEAN, go : BOOLEAN]
    BY DEF ScanState
  <2> DEFINE no == FALSE
  <2> HIDE DEF BB, no
  <2>2. [s EXCEPT !.go = no] = [b |-> s.b, acked |-> s.acked, up |-> s.up, go |-> no]
    BY <2>1
  <2> QED BY <2>2 DEF no
<1>4. ScanStep(s, old) =
        IF ~ s.go \/ unread < HDR THEN [s EXCEPT !.go = FALSE]
        ELSE IF z > MaxSize
             THEN [b |-> b1, acked |-> Ack(s.acked, head.ack), up |-> FALSE, go |-> FALSE]
        ELSE IF unread < z
             THEN [b |-> b1, acked |-> Ack(s.acked, head.ack), up |-> s.up, go |-> FALSE]
        ELSE [b |-> b2, acked |-> Ack(s.acked, head.ack), up |-> s.up, go |-> TRUE]
  BY Zenon DEF ScanStep, StepParts
<1> HIDE DEF b1, b2, unread
<1>5. ASSUME ~ s.go \/ unread < HDR
      PROVE  ScanStep(s, old) = [b |-> s.b, acked |-> s.acked, up |-> s.up, go |-> FALSE]
  BY <1>3, <1>4, <1>5
<1>6. ASSUME s.go, ~ (unread < HDR), z > MaxSize \/ unread < z
      PROVE  ScanStep(s, old) = [b |-> b1, acked |-> Ack(s.acked, head.ack),
                                 up |-> IF z > MaxSize THEN FALSE ELSE s.up, go |-> FALSE]
  BY <1>4, <1>6
<1>7. ASSUME s.go, ~ (unread < HDR), ~ (z > MaxSize), ~ (unread < z)
      PROVE  ScanStep(s, old) = [b |-> b2, acked |-> Ack(s.acked, head.ack), up |-> s.up, go |-> TRUE]
  BY <1>4, <1>7
<1> QED BY <1>2, <1>5, <1>6, <1>7 DEF unread, b2

\* Endian::Convert() changes the byte order of a byte and nothing else.
LEMMA ConvertUnit ==
  ASSUME NEW c \in Unit
  PROVE  /\ Convert(c) \in Unit /\ Convert(c).msg = c.msg /\ Convert(c).pos = c.pos
         /\ Convert(c).host = ~ c.host
<1> DEFINE h == ~ c.host
           B == BOOLEAN
<1>1. c \in [msg : AnyMsg, pos : Nat, host : B] /\ h \in B
  BY Units DEF Unit
<1> HIDE DEF h, B
<1>2. [c EXCEPT !.host = h] = [msg |-> c.msg, pos |-> c.pos, host |-> h]
  BY <1>1
<1>3. Convert(c) = [c EXCEPT !.host = h]
  BY DEF Convert, h
<1>4. Convert(c) = [msg |-> c.msg, pos |-> c.pos, host |-> h]
  BY <1>2, <1>3
<1>5. Convert(c) \in [msg : AnyMsg, pos : Nat, host : B]
  BY <1>1, <1>4
<1>6. Convert(c).msg = c.msg /\ Convert(c).pos = c.pos /\ Convert(c).host = h
  BY <1>4
<1> QED BY <1>5, <1>6 DEF Unit, h, B

\* W is V with the header after c bytes converted, unless o bytes had all of it.
Flipped(W, V, c, o) ==
  /\ W \in Seq(Cell) /\ Len(W) = Len(V)
  /\ \A i \in 1 .. Len(V) :
       W[i] = IF i \in c + 1 .. c + HDR /\ ~ (c + HDR <= o) THEN Convert(V[i]) ELSE V[i]

\* The header after c bytes is in host byte order, and so are those before it.
Ready(G, F, c) ==
  /\ G \in Seq(Unit) /\ Chain(G) /\ Bound(G, Len(G))
  /\ Bound(G, c) /\ Host(G, c, c + HDR)
  /\ Match(G, F)

\* The loop has the header in host byte order, whether it came now or before.
LEMMA HeaderReady ==
  ASSUME NEW V, NEW F \in Seq(Unit), NEW c \in Nat, NEW o \in Int, Framed(V, F, c, o),
         c + HDR <= Len(V), NEW W, Flipped(W, V, c, o)
  PROVE  /\ Ready(W, F, c) /\ Len(W) = Len(V)
         /\ \A i \in 1 .. Len(V) : W[i].msg = V[i].msg /\ W[i].pos = V[i].pos
<1>1. V \in Seq(Unit) /\ Chain(V) /\ Bound(V, Len(V)) /\ Bound(V, c) /\ Host(V, c, o) /\ Match(V, F)
  BY DEF Framed
<1> DEFINE L == Len(V)
           now(i) == i \in c + 1 .. c + HDR /\ ~ (c + HDR <= o)
<1>2. L \in Nat /\ Len(W) = L /\ W \in Seq(Cell)
  BY <1>1 DEF Flipped
<1>3. ASSUME NEW i \in 1 .. L
      PROVE  /\ W[i] \in Unit /\ W[i].msg = V[i].msg /\ W[i].pos = V[i].pos
             /\ W[i].host = IF now(i) THEN ~ V[i].host ELSE V[i].host
  <2>1. V[i] \in Unit
    BY <1>1
  <2>2. W[i] = IF now(i) THEN Convert(V[i]) ELSE V[i]
    BY DEF Flipped
  <2> HIDE DEF now
  <2>3. CASE now(i)
    <3>1. W[i] = Convert(V[i])
      BY <2>2, <2>3
    <3>2. W[i] \in Unit /\ W[i].msg = V[i].msg /\ W[i].pos = V[i].pos /\ W[i].host = ~ V[i].host
      BY <3>1, <2>1, ConvertUnit
    <3> QED BY <3>2, <2>3
  <2>4. CASE ~ now(i)
    BY <2>1, <2>2, <2>4
  <2> QED BY <2>3, <2>4
<1>4. W \in Seq(Unit)
  <2>1. W = [i \in 1 .. L |-> W[i]]
    BY <1>2
  <2>2. \A i \in 1 .. L : W[i] \in Unit
    BY <1>3
  <2> QED BY <2>1, <2>2, <1>2
<1>5. \A i \in 1 .. L : W[i].msg = V[i].msg /\ W[i].pos = V[i].pos
  BY <1>3
<1>6. \A i \in 1 .. L : Size(W[i]) = Size(V[i]) /\ (Ends(W[i]) <=> Ends(V[i]))
  BY <1>5 DEF Size, Ends
<1>7. Chain(W)
  <2>1. L > 0 => W[1].pos = 0
    <3>1. L > 0 => 1 \in 1 .. L
      BY <1>2
    <3> QED BY <3>1, <1>1, <1>5 DEF Chain
  <2>2. \A i \in 1 .. L : W[i].pos < Size(W[i])
    BY <1>1, <1>5, <1>6 DEF Chain
  <2>3. ASSUME NEW i \in 1 .. L - 1
        PROVE  IF Ends(W[i]) THEN W[i + 1].pos = 0
               ELSE W[i + 1].msg = W[i].msg /\ W[i + 1].pos = W[i].pos + 1
    <3>1. i \in 1 .. L /\ i + 1 \in 1 .. L
      BY <1>2
    <3>2. IF Ends(V[i]) THEN V[i + 1].pos = 0
          ELSE V[i + 1].msg = V[i].msg /\ V[i + 1].pos = V[i].pos + 1
      BY <1>1 DEF Chain
    <3> HIDE DEF L
    <3> QED BY <3>1, <3>2, <1>5, <1>6
  <2> HIDE DEF L
  <2> QED BY <2>1, <2>2, <2>3, <1>2 DEF Chain
<1>8. Bound(W, Len(W)) /\ Bound(W, c)
  <2>1. L > 0 => L \in 1 .. L
    BY <1>2
  <2>2. c > 0 => c \in 1 .. L
    BY Constants, <1>2
  <2> QED BY <2>1, <2>2, <1>1, <1>2, <1>6 DEF Bound
<1>9. Match(W, F)
  <2>1. PICK at : Counts(V, F, at)
    BY <1>1 DEF Match
  <2> HIDE DEF L
  <2>2. Counts(W, F, at)
    <3>1. at \in [0 .. L -> 0 .. Len(F)] /\ at[0] = 0 /\ at[L] = Len(F)
      BY <2>1 DEF Counts, L
    <3>2. ASSUME NEW i \in 1 .. L
          PROVE  IF IsHeartbeat(W[i].msg) THEN at[i] = at[i - 1]
                 ELSE /\ at[i] = at[i - 1] + 1
                      /\ W[i].msg = F[at[i]].msg /\ W[i].pos = F[at[i]].pos
      <4>1. IF IsHeartbeat(V[i].msg) THEN at[i] = at[i - 1]
            ELSE /\ at[i] = at[i - 1] + 1
                 /\ V[i].msg = F[at[i]].msg /\ V[i].pos = F[at[i]].pos
        BY <2>1 DEF Counts, L
      <4> QED BY <4>1, <1>5
    <3> QED BY <3>1, <3>2, <1>2 DEF Counts
  <2> QED BY <2>2 DEF Match
<1>10. Host(W, c, c + HDR)
  <2> SUFFICES ASSUME NEW i \in 1 .. L
               PROVE  W[i].host <=> W[i].pos < HDR /\ (Start(W, i) < c \/ (Start(W, i) = c /\ c + HDR <= c + HDR))
    BY <1>2 DEF Host
  <2> DEFINE p == V[i].pos
             st == i - 1 - p
  <2>1. p \in Nat /\ st \in Int /\ Start(V, i) = st /\ Start(W, i) = st /\ W[i].pos = p /\ V[i] \in Unit
    BY <1>1, <1>3, Units DEF Start
  <2>2. V[i].host <=> p < HDR /\ (st < c \/ (st = c /\ c + HDR <= o))
    BY <2>1, <1>1 DEF Host
  <2>3. W[i].host <=> IF now(i) THEN ~ V[i].host ELSE V[i].host
    BY <1>3
  <2>4. c + HDR <= c + HDR
    BY Constants
  <2>5. now(i) => p < HDR /\ st = c
    <3> HAVE now(i)
    <3> DEFINE z == Size(V[c + 1])
               j == i - c
    <3>1. c \in 0 .. L /\ c < L /\ L \in 0 .. L
      BY <1>2, Constants
    <3>2. z >= HDR /\ z \in Nat /\ \A k \in 1 .. z : V[c + k].pos = k - 1
      BY <3>1, <1>1, MessageAt
    <3> HIDE DEF z, L
    <3>3. j \in 1 .. z /\ c + j = i /\ j <= HDR
      BY <3>2, <1>2, Constants
    <3> HIDE DEF j
    <3>4. p = j - 1
      BY <3>2, <3>3
    <3> HIDE DEF p
    <3> QED BY <3>3, <3>4, <2>1, Constants
  <2>6. ~ now(i) /\ p < HDR /\ st = c => c + HDR <= o
    <3> HAVE ~ now(i) /\ p < HDR /\ st = c
    <3>1. i \in c + 1 .. c + HDR
      <4> HIDE DEF p
      <4> QED BY <2>1, <1>2, Constants
    <3> QED BY <3>1
  <2> HIDE DEF p, st, now
  <2>7. CASE now(i)
    <3>1. ~ (c + HDR <= o)
      BY <2>7 DEF now
    <3>2. ~ V[i].host
      BY <3>1, <2>2, <2>5, <2>7, <2>1
    <3> QED BY <3>2, <2>1, <2>3, <2>4, <2>5, <2>7
  <2>8. CASE ~ now(i)
    BY <2>1, <2>2, <2>3, <2>4, <2>6, <2>8
  <2> QED BY <2>7, <2>8
<1> QED BY <1>2, <1>4, <1>5, <1>7, <1>8, <1>9, <1>10 DEF Ready

\* The loop stops at a message that is not complete.
LEMMA Waits ==
  ASSUME NEW G, NEW F, NEW c \in Nat, NEW o \in Nat, Ready(G, F, c),
         c + HDR <= o, o < c + Size(G[c + 1])
  PROVE  Framed(G, F, c, o)
<1>1. c + HDR <= c + HDR
  BY Constants
<1>2. Host(G, c, o)
  BY <1>1 DEF Ready, Host
<1>3. Partial(G, c, o)
  BY DEF Partial
<1> QED BY <1>2, <1>3 DEF Ready, Framed

\* The loop goes on behind a message that is complete, and that was not complete
\* before the receive.
LEMMA Passes ==
  ASSUME NEW G, NEW F, NEW c \in Nat, NEW o \in Int, Ready(G, F, c), NEW z \in Nat,
         z = Size(G[c + 1]), z >= HDR, c + z <= Len(G), o < c + z
  PROVE  Framed(G, F, c + z, o) /\ \A j \in 1 .. z : G[c + j].msg = G[c + 1].msg
<1>1. G \in Seq(Unit) /\ Chain(G) /\ Bound(G, Len(G)) /\ Bound(G, c) /\ Host(G, c, c + HDR) /\ Match(G, F)
  BY DEF Ready
<1> DEFINE L == Len(G)
           e == c + z
<1>2. L \in Nat /\ e \in Nat /\ e <= L /\ e > c /\ c < L /\ c \in 0 .. L /\ e \in 0 .. L
  BY <1>1, Constants
<1>3. Bound(G, e) /\ \A j \in 1 .. z : G[c + j].msg = G[c + 1].msg /\ G[c + j].pos = j - 1
  <2>1. L \in 0 .. L
    BY <1>2
  <2> QED BY <2>1, <1>1, <1>2, MessageAt
<1> HIDE DEF e
<1>4. Host(G, e, o)
  <2> SUFFICES ASSUME NEW i \in 1 .. L
               PROVE  G[i].host <=> G[i].pos < HDR /\ (Start(G, i) < e \/ (Start(G, i) = e /\ e + HDR <= o))
    BY DEF Host
  <2> DEFINE p == G[i].pos
             st == Start(G, i)
  <2>1. p \in Nat /\ st = i - 1 - p /\ st \in Int
    <3>1. G \in Seq(Unit) /\ i \in 1 .. Len(G)
      BY <1>1
    <3>2. p \in Nat
      BY <3>1, Units
    <3>3. st = i - 1 - p
      BY DEF Start
    <3> HIDE DEF p, st
    <3> QED BY <3>2, <3>3
  <2>2. G[i].host <=> p < HDR /\ (st < c \/ (st = c /\ c + HDR <= c + HDR))
    BY <1>1 DEF Host
  <2>3. c + HDR <= c + HDR /\ ~ (e + HDR <= o)
    BY Constants DEF e
  <2>4. st >= c => st = c \/ st >= e
    <3> HAVE st >= c
    <3>1. CASE i <= e
      <4> DEFINE j == i - c
      <4>1. i > c
        <5> HIDE DEF p, st
        <5> QED BY <2>1, <1>2
      <4>2. j \in 1 .. z /\ c + j = i
        BY <3>1, <4>1 DEF e
      <4> HIDE DEF j
      <4>3. p = j - 1
        BY <4>2, <1>3
      <4> HIDE DEF p, st
      <4> QED BY <4>2, <4>3, <2>1, <1>2
    <3>2. CASE i > e
      <4>1. i \in e + 1 .. Len(G)
        BY <3>2, <1>2
      <4>2. st >= e
        BY <4>1, <1>1, <1>2, <1>3, ChainFrom
      <4> QED BY <4>2
    <3> QED BY <3>1, <3>2, <1>2
  <2> HIDE DEF p, st
  <2>5. (st < c \/ (st = c /\ c + HDR <= c + HDR)) <=> (st < e \/ (st = e /\ e + HDR <= o))
    BY <2>1, <2>3, <2>4, <1>2
  <2>6. G[i].host <=> p < HDR /\ (st < e \/ (st = e /\ e + HDR <= o))
    BY <2>2, <2>5
  <2> QED BY <2>6 DEF p, st
<1>5. Partial(G, e, o)
  <2>1. ~ (e + HDR <= o)
    BY <1>2, Constants DEF e
  <2> QED BY <2>1 DEF Partial
<1>6. Framed(G, F, e, o)
  BY <1>1, <1>3, <1>4, <1>5 DEF Framed
<1> QED BY <1>3, <1>6 DEF e

\* The buffer with the header at nextmsg_idx_ in host byte order.
Converted(e, b, old) ==
  e = [mem |-> HeaderConverted(b, old), size |-> b.size, w |-> b.w, n |-> b.n, r |-> b.r]

\* What the conversion does to the stream: nothing but to this header.
LEMMA ConvertedView ==
  ASSUME NEW b, BufOK(b), NEW x \in Seq(Unit), NEW F \in Seq(Unit), NEW u \in 0 .. Len(F),
         View(b, x, F, u) \in Seq(Unit), NEW old \in Int, ~ (b.w - b.n < HDR),
         NEW e, Converted(e, b, old)
  PROVE  /\ BufOK(e) /\ e.mem = HeaderConverted(b, old)
         /\ e.size = b.size /\ e.w = b.w /\ e.n = b.n /\ e.r = b.r
         /\ Flipped(View(e, x, F, u), View(b, x, F, u), b.n - b.r, old - b.r)
<1> DEFINE V == View(b, x, F, u)
           W == View(e, x, F, u)
           M == HeaderConverted(b, old)
           c == b.n - b.r
           l == b.w - b.r
           o == old - b.r
           f == Len(F) - u
           k == Len(x)
           now == old - b.n < HDR
<1>1. e.mem = M /\ e.size = b.size /\ e.w = b.w /\ e.n = b.n /\ e.r = b.r
  BY DEF Converted
<1>2. b.r \in Nat /\ b.n \in Nat /\ b.w \in Nat /\ c \in Nat /\ l \in Nat /\ c <= l /\ b.w <= MaxSize
      /\ b.mem \in [0 .. MaxSize - 1 -> Cell] /\ b.w = b.r + l /\ b.n = b.r + c
  <2>1. /\ b.r \in Nat /\ b.n \in Nat /\ b.w \in Nat /\ c \in Nat /\ l \in Nat /\ c <= l /\ b.w <= b.size
        /\ b.size <= MaxSize /\ b.size \in Nat /\ b.mem \in [0 .. MaxSize - 1 -> Cell]
    BY Indices
  <2>2. b.w <= MaxSize
    BY <2>1, Constants
  <2> QED BY <2>1, <2>2, SMTT(30)
<1>3. V \in Seq(Unit) /\ IsView(V, b, x, F, u)
  BY Viewed
<1>4. f \in Nat /\ k \in Nat
  OBVIOUS
<1> DEFINE ri == b.r
           ni == b.n
           wi == b.w
<1>5. ri \in Nat /\ ni = ri + c /\ wi = ri + l /\ wi <= MaxSize /\ c \in Nat /\ l \in Nat /\ c + HDR <= l
  <2>1. ri \in Nat /\ ni = ri + c /\ wi = ri + l /\ wi <= MaxSize /\ c \in Nat /\ l \in Nat /\ ~ (wi - ni < HDR)
    BY <1>2
  <2> HIDE DEF ri, ni, wi, c, l
  <2> QED BY <2>1, Constants
<1>6. now <=> ~ (c + HDR <= o)
  <2>1. now <=> old - ni < HDR
    OBVIOUS
  <2>2. o = old - ri
    OBVIOUS
  <2> HIDE DEF ri, ni, wi, c, l, o, now
  <2> QED BY <2>1, <2>2, <1>5, Constants
<1>7. M = IF now THEN ConvertByteOrder(b.mem, b.n) ELSE b.mem
  BY DEF HeaderConverted
<1> HIDE DEF V, W, M, c, l, o, f, k, ri, ni, wi, now
<1>8. \A j \in 0 .. MaxSize - 1 :
        M[j] = IF now /\ j \in ni .. ni + HDR - 1 THEN Convert(b.mem[j]) ELSE b.mem[j]
  <2>1. CASE now
    <3>1. M = [j \in 0 .. MaxSize - 1 |-> IF j \in ni .. ni + HDR - 1 THEN Convert(b.mem[j]) ELSE b.mem[j]]
      BY <2>1, <1>2, <1>7 DEF ConvertByteOrder, ni
    <3> QED BY <3>1, <2>1
  <2>2. CASE ~ now
    BY <2>2, <1>7
  <2> QED BY <2>1, <2>2
<1>9. \A i \in 1 .. l : V[i] = b.mem[ri + i - 1] /\ V[i] \in Unit
  <2>1. \A i \in 1 .. l : V[i] = b.mem[b.r + i - 1]
    BY <1>3 DEF IsView, l
  <2>2. Len(V) = l + k + f
    BY <1>3 DEF IsView, l, k, f
  <2>3. \A i \in 1 .. l : i \in 1 .. Len(V)
    BY <2>2, <1>4, <1>5
  <2> QED BY <2>1, <2>3, <1>3 DEF ri
<1>10. M \in [0 .. MaxSize - 1 -> Cell]
  <2>1. ASSUME NEW j \in 0 .. MaxSize - 1 PROVE M[j] \in Cell
    <3>1. CASE now /\ j \in ni .. ni + HDR - 1
      <4> DEFINE i == j - ri + 1
      <4>1. i \in 1 .. l /\ ri + i - 1 = j
        BY <3>1, <1>5, Constants
      <4> HIDE DEF i
      <4>2. b.mem[j] \in Unit
        BY <4>1, <1>9
      <4>3. M[j] = Convert(b.mem[j])
        BY <3>1, <1>8
      <4> QED BY <4>2, <4>3, ConvertUnit DEF Cell
    <3>2. CASE ~ (now /\ j \in ni .. ni + HDR - 1)
      <4>1. M[j] = b.mem[j]
        BY <3>2, <1>8
      <4> QED BY <4>1, <1>2
    <3> QED BY <3>1, <3>2
  <2>2. M = [j \in 0 .. MaxSize - 1 |-> M[j]]
    <3>1. CASE now
      BY <3>1, <1>2, <1>7 DEF ConvertByteOrder
    <3>2. CASE ~ now
      BY <3>2, <1>2, <1>7
    <3> QED BY <3>1, <3>2
  <2> QED BY <2>1, <2>2
<1>11. BufOK(e)
  <2>1. b \in [mem : [0 .. MaxSize - 1 -> Cell], size : Nat, w : Nat, n : Nat, r : Nat]
    BY DEF BufOK
  <2>2. e = [mem |-> M, size |-> b.size, w |-> b.w, n |-> b.n, r |-> b.r]
    BY DEF Converted, M
  <2>3. e \in [mem : [0 .. MaxSize - 1 -> Cell], size : Nat, w : Nat, n : Nat, r : Nat]
    BY <2>1, <2>2, <1>10
  <2> QED BY <2>3, <1>1 DEF BufOK
<1>12. IsView(W, e, x, F, u)
  BY <1>11, Viewed DEF W
<1>13. /\ Len(V) = l + k + f
       /\ \A i \in 1 .. k : V[l + i] = x[i]
       /\ \A i \in 1 .. f : V[l + k + i] = F[u + i]
  BY <1>3 DEF IsView, l, k, f
<1>14. /\ Len(W) = l + k + f /\ W \in Seq(Cell)
       /\ \A i \in 1 .. l : W[i] = M[ri + i - 1]
       /\ \A i \in 1 .. k : W[l + i] = x[i]
       /\ \A i \in 1 .. f : W[l + k + i] = F[u + i]
  BY <1>1, <1>12 DEF IsView, l, k, f, ri
<1>15. ASSUME NEW i \in 1 .. l + k + f
       PROVE  W[i] = IF i \in c + 1 .. c + HDR /\ ~ (c + HDR <= o) THEN Convert(V[i]) ELSE V[i]
  <2>1. CASE i <= l
    <3> DEFINE j == ri + i - 1
    <3>1. j \in 0 .. MaxSize - 1 /\ i \in 1 .. l /\ (j \in ni .. ni + HDR - 1 <=> i \in c + 1 .. c + HDR)
      BY <2>1, <1>4, <1>5, Constants
    <3> HIDE DEF j
    <3>2. W[i] = M[j] /\ V[i] = b.mem[j]
      BY <3>1, <1>9, <1>14 DEF j
    <3> QED BY <3>1, <3>2, <1>6, <1>8
  <2>2. CASE i > l /\ i <= l + k
    <3>1. PICK j \in 1 .. k : i = l + j
      BY <2>2, <1>4, <1>5
    <3>2. W[i] = V[i]
      BY <3>1, <1>13, <1>14
    <3>3. ~ (i \in c + 1 .. c + HDR)
      BY <2>2, <1>4, <1>5, Constants
    <3> QED BY <3>2, <3>3
  <2>3. CASE i > l + k
    <3>1. PICK j \in 1 .. f : i = l + k + j
      BY <2>3, <1>4, <1>5
    <3>2. W[i] = V[i]
      BY <3>1, <1>13, <1>14
    <3>3. ~ (i \in c + 1 .. c + HDR)
      BY <2>3, <1>4, <1>5, Constants
    <3> QED BY <3>2, <3>3
  <2> QED BY <2>1, <2>2, <2>3, <1>4, <1>5
<1>16. Flipped(W, V, c, o)
  <2>1. Len(W) = Len(V) /\ Len(V) = l + k + f /\ W \in Seq(Cell)
    BY <1>13, <1>14
  <2> QED BY <2>1, <1>15 DEF Flipped
<1> QED BY <1>1, <1>11, <1>16 DEF V, W, c, o, M

\* The invariant of the loop: the stream is in order, with the header at
\* nextmsg_idx_ still to be converted if it came with this receive, and the
\* buffer never starts with a complete heartbeat.
Loop(t, x, F, u, old) ==
  /\ t \in ScanState /\ BufOK(t.b) /\ old <= t.b.w
  /\ Framed(View(t.b, x, F, u), F, t.b.n - t.b.r, IF t.go THEN old - t.b.r ELSE t.b.w - t.b.r)
  /\ t.b.n # t.b.r => ~ IsHeartbeat(View(t.b, x, F, u)[1].msg)

\* The last iteration: there is no whole header, so none was there before.
LEMMA NoHeader ==
  ASSUME NEW G, NEW F, NEW c \in Nat, NEW o \in Int, NEW l \in Nat, Framed(G, F, c, o),
         o <= l, l < c + HDR
  PROVE  Framed(G, F, c, l)
<1>1. ~ (c + HDR <= l) /\ ~ (c + HDR <= o)
  BY Constants
<1>2. Host(G, c, l)
  BY <1>1 DEF Framed, Host
<1>3. Partial(G, c, l)
  BY <1>1 DEF Partial
<1> QED BY <1>2, <1>3 DEF Framed

\* The buffer e, with nextmsg_idx_ moved z bytes on.
NextMoved(e, b, z) ==
  e = [mem |-> b.mem, size |-> b.size, w |-> b.w, n |-> b.n + z, r |-> b.r]

\* nextmsg_idx_ is moved over bytes that are there.
LEMMA NextMovedView ==
  ASSUME NEW b, BufOK(b), NEW x, NEW F, NEW u, NEW z \in Nat, b.n + z <= b.w,
         NEW e, NextMoved(e, b, z)
  PROVE  /\ BufOK(e) /\ View(e, x, F, u) = View(b, x, F, u)
         /\ e.mem = b.mem /\ e.size = b.size /\ e.w = b.w /\ e.n = b.n + z /\ e.r = b.r
<1>1. e.mem = b.mem /\ e.size = b.size /\ e.w = b.w /\ e.n = b.n + z /\ e.r = b.r
  BY DEF NextMoved
<1>2. View(e, x, F, u) = View(b, x, F, u)
  BY <1>1 DEF View
<1>3. b \in [mem : [0 .. MaxSize - 1 -> Cell], size : Nat, w : Nat, n : Nat, r : Nat]
  BY DEF BufOK
<1>4. b.n + z \in Nat /\ b.r <= b.n + z
  BY Indices
<1>5. e \in [mem : [0 .. MaxSize - 1 -> Cell], size : Nat, w : Nat, n : Nat, r : Nat]
  BY <1>3, <1>4 DEF NextMoved
<1>6. BufOK(e)
  BY <1>1, <1>4, <1>5 DEF BufOK
<1> QED BY <1>1, <1>2, <1>6

\* The header that the loop looks at, in the buffer e where it is converted.
LEMMA HeaderSeen ==
  ASSUME NEW b, BufOK(b), NEW x \in Seq(Unit), NEW F \in Seq(Unit), NEW u \in 0 .. Len(F),
         NEW old \in Int, NEW V, V = View(b, x, F, u), Framed(V, F, b.n - b.r, old - b.r),
         ~ (b.w - b.n < HDR), NEW e, Converted(e, b, old), NEW W, W = View(e, x, F, u),
         NEW m0, m0 = HeaderConverted(b, old)
  PROVE  /\ BufOK(e) /\ e.mem = m0 /\ e.size = b.size /\ e.w = b.w /\ e.n = b.n /\ e.r = b.r
         /\ Ready(W, F, b.n - b.r) /\ b.w - b.r <= Len(W)
         /\ W[1].msg = V[1].msg
         /\ W[(b.n - b.r) + 1] \in Unit /\ W[(b.n - b.r) + 1] = m0[b.n]
         /\ (b.n - b.r) + HDR <= b.w - b.r
         /\ Size(W[(b.n - b.r) + 1]) = Size(V[(b.n - b.r) + 1])
<1> DEFINE c == b.n - b.r
           l == b.w - b.r
           o == old - b.r
           f == Len(F) - u
           k == Len(x)
<1>1. V \in Seq(Unit)
  BY DEF Framed
<1>2. /\ BufOK(e) /\ e.mem = m0 /\ e.size = b.size /\ e.w = b.w /\ e.n = b.n /\ e.r = b.r
      /\ Flipped(W, V, c, o)
  BY <1>1, ConvertedView
<1>3. c \in Nat /\ l \in Nat /\ c <= l /\ b.r \in Nat /\ b.n \in Nat /\ b.w \in Nat
  BY Indices
<1>4. c + HDR <= l /\ b.r + (c + 1) - 1 = b.n /\ o \in Int
  BY <1>3, Constants, SMTT(30)
<1>5. IsView(W, e, x, F, u)
  BY <1>2, Viewed
<1>6. k \in Nat /\ f \in Nat
  OBVIOUS
<1>7. Len(W) = l + k + f /\ \A i \in 1 .. l : W[i] = m0[b.r + i - 1]
  BY <1>2, <1>5 DEF IsView
<1>8. Len(W) = Len(V)
  BY <1>2 DEF Flipped
<1> HIDE DEF c, l, o, f, k
<1>9. c + HDR <= Len(V) /\ l <= Len(W) /\ c + 1 \in 1 .. l /\ c + 1 \in 1 .. Len(V) /\ 1 \in 1 .. Len(V)
  <2> DEFINE L == Len(V)
  <2>1. L = l + k + f /\ Len(W) = L
    BY <1>7, <1>8
  <2>2. c \in Nat /\ l \in Nat /\ c + HDR <= l /\ k \in Nat /\ f \in Nat
    BY <1>3, <1>4, <1>6
  <2> HIDE DEF L
  <2>3. c + HDR <= L /\ l <= L /\ c + 1 \in 1 .. l /\ c + 1 \in 1 .. L /\ 1 \in 1 .. L
    BY <2>1, <2>2, Constants
  <2> QED BY <2>1, <2>3 DEF L
<1>10. /\ Ready(W, F, c)
       /\ \A i \in 1 .. Len(V) : W[i].msg = V[i].msg /\ W[i].pos = V[i].pos
  <2>1. Framed(V, F, c, o)
    BY DEF c, o
  <2>2. Flipped(W, V, c, o) /\ c \in Nat /\ o \in Int /\ c + HDR <= Len(V)
    BY <1>2, <1>3, <1>4, <1>9
  <2> QED BY <2>1, <2>2, HeaderReady
<1>11. W[c + 1] = m0[b.n]
  BY <1>4, <1>7, <1>9
<1>12. W[c + 1] \in Unit
  BY <1>8, <1>9, <1>10 DEF Ready
<1>13. Size(W[c + 1]) = Size(V[c + 1]) /\ W[1].msg = V[1].msg
  BY <1>9, <1>10 DEF Size
<1> QED BY <1>2, <1>4, <1>9, <1>10, <1>11, <1>12, <1>13 DEF c, l

\* PTCPQueue::Ack() stays in the range of sequence numbers.
LEMMA AckType ==
  ASSUME NEW a \in UInt, NEW b \in UInt
  PROVE  Ack(a, b) \in UInt
BY DEF Ack

\* A message that is complete is passed; a heartbeat in front is skipped as well.
LEMMA MessagePassed ==
  ASSUME NEW b, BufOK(b), NEW x \in Seq(Unit), NEW F \in Fresh, NEW u \in 0 .. Len(F),
         NEW o \in Int, o <= b.w - b.r, NEW W, W = View(b, x, F, u), Ready(W, F, b.n - b.r),
         NEW z \in Nat, z = Size(W[(b.n - b.r) + 1]), z >= HDR, b.n + z <= b.w,
         o < (b.n - b.r) + z,
         b.n # b.r => ~ IsHeartbeat(W[1].msg),
         NEW skip \in BOOLEAN, skip <=> IsHeartbeat(W[(b.n - b.r) + 1].msg) /\ b.r = b.n,
         NEW e, e = [mem |-> b.mem, size |-> b.size, w |-> b.w, n |-> b.n + z,
                     r |-> IF skip THEN b.r + z ELSE b.r]
  PROVE  /\ BufOK(e) /\ e.w = b.w /\ e.n = b.n + z
         /\ Framed(View(e, x, F, u), F, e.n - e.r, (o + b.r) - e.r)
         /\ e.n # e.r => ~ IsHeartbeat(View(e, x, F, u)[1].msg)
<1> DEFINE c == b.n - b.r
           l == b.w - b.r
           b1 == [mem |-> b.mem, size |-> b.size, w |-> b.w, n |-> b.n + z, r |-> b.r]
<1>1. c \in Nat /\ l \in Nat /\ b.r \in Nat /\ b.n \in Nat /\ b.w \in Nat /\ b.n = b.r + c /\ b.w = b.r + l
  <2>1. c \in Nat /\ l \in Nat /\ b.r \in Nat /\ b.n \in Nat /\ b.w \in Nat
    BY Indices
  <2>2. \A i, j \in Nat : i = j + (i - j)
    OBVIOUS
  <2> QED BY <2>1, <2>2
<1>2. F \in Seq(Unit)
  BY DEF Fresh
<1>3. NextMoved(b1, b, z)
  BY DEF NextMoved
<1> HIDE DEF b1
<1>4. /\ BufOK(b1) /\ View(b1, x, F, u) = W
      /\ b1.mem = b.mem /\ b1.size = b.size /\ b1.w = b.w /\ b1.n = b.n + z /\ b1.r = b.r
  BY <1>3, NextMovedView
<1>5. c + z <= Len(W) /\ b1.n - b1.r = c + z /\ c + z <= l /\ (o + b.r) - b.r = o /\ b1.w - b1.r = l
  <2>1. IsView(W, b, x, F, u)
    BY <1>2, Viewed
  <2> DEFINE k == Len(x)
             f == Len(F) - u
             ri == b.r
             ni == b.n
             wi == b.w
  <2>2. Len(W) = l + k + f
    BY <2>1 DEF IsView
  <2>3. k \in Nat /\ f \in Nat
    BY <1>2
  <2>4. ni + z <= wi /\ ri \in Nat /\ ni = ri + c /\ wi = ri + l /\ l \in Nat /\ c \in Nat
    BY <1>1
  <2>5. b1.n = ni + z /\ b1.r = ri /\ b1.w = wi
    BY <1>4
  <2> HIDE DEF k, f, ri, ni, wi, c, l
  <2>6. c + z <= l /\ (ni + z) - ri = c + z /\ wi - ri = l /\ (o + ri) - ri = o
    BY <2>4
  <2>7. c + z <= l + k + f
    BY <2>3, <2>4, <2>6
  <2> QED BY <2>2, <2>5, <2>6, <2>7 DEF ri
<1>6. Framed(W, F, c + z, o) /\ \A j \in 1 .. z : W[c + j].msg = W[c + 1].msg
  <2> DEFINE cc == c
  <2>1. cc \in Nat /\ Ready(W, F, cc) /\ z = Size(W[cc + 1]) /\ cc + z <= Len(W) /\ o < cc + z
    BY <1>1, <1>5
  <2> HIDE DEF cc
  <2>2. Framed(W, F, cc + z, o) /\ \A j \in 1 .. z : W[cc + j].msg = W[cc + 1].msg
    BY <2>1, Passes
  <2> QED BY <2>2 DEF cc
<1>7. CASE ~ skip
  <2>1. e = b1
    BY <1>7 DEF b1
  <2>2. ~ IsHeartbeat(W[1].msg)
    <3>1. CASE b.r = b.n
      <4>1. c + 1 = 1
        BY <3>1, <1>1
      <4> QED BY <3>1, <4>1, <1>7
    <3>2. CASE b.r # b.n
      BY <3>2
    <3> QED BY <3>1, <3>2
  <2>3. Framed(View(e, x, F, u), F, e.n - e.r, (o + b.r) - e.r)
    BY <2>1, <1>4, <1>5, <1>6
  <2> QED BY <2>1, <2>2, <2>3, <1>4
<1>8. CASE skip
  <2>1. c = 0 /\ IsHeartbeat(W[c + 1].msg)
    BY <1>8, <1>1
  <2>2. b1 \in [mem : [0 .. MaxSize - 1 -> Cell], size : Nat, w : Nat, n : Nat, r : Nat]
    BY <1>4 DEF BufOK
  <2>3. Advanced(e, b1, z)
    <3>1. e = [mem |-> b.mem, size |-> b.size, w |-> b.w, n |-> b.n + z, r |-> b.r + z]
      BY <1>8
    <3>2. [b1 EXCEPT !.r = b1.r + z] = [mem |-> b1.mem, size |-> b1.size, w |-> b1.w, n |-> b1.n, r |-> b1.r + z]
      BY <2>2
    <3>3. [b1 EXCEPT !.r = b1.r + z] = [mem |-> b.mem, size |-> b.size, w |-> b.w, n |-> b.n + z, r |-> b.r + z]
      BY <3>2, <1>4
    <3> QED BY <3>1, <3>3 DEF Advanced
  <2>4. c + z = z /\ z \in 0 .. z /\ b1.n - b1.r = z
    BY <2>1, <1>5
  <2>5. Framed(W, F, b1.n - b1.r, o) /\ Bound(W, z) /\ z \in 0 .. b1.n - b1.r /\ o <= b1.w - b1.r
    BY <2>4, <1>5, <1>6 DEF Framed
  <2>6. HBOnly(W, 0, z)
    <3>1. \A j \in 1 .. z : c + j = j
      BY <2>1
    <3>2. \A j \in 0 + 1 .. z : j \in 1 .. z
      OBVIOUS
    <3> QED BY <3>1, <3>2, <2>1, <1>6 DEF HBOnly
  <2> HIDE DEF c, l
  <2> DEFINE W1 == View(b1, x, F, u)
  <2>7. W1 = W
    BY <1>4
  <2> HIDE DEF W1
  <2>8. /\ BufOK(e) /\ e.n - e.r = (b1.n - b1.r) - z
        /\ e.w = b1.w /\ e.n = b1.n /\ e.r = b1.r + z
        /\ View(e, x, F, u) = Drop(W, z)
        /\ Framed(Drop(W, z), F, (b1.n - b1.r) - z, o - z)
    BY <2>3, <2>5, <2>6, <2>7, <1>4, HeartbeatsSkipped DEF W1
  <2>9. e.n = e.r /\ (o + b.r) - e.r = o - z
    <3>1. e.n = b.n + z /\ e.r = b.r + z /\ b.r = b.n
      BY <2>8, <1>4, <1>8
    <3> QED BY <3>1, <1>1
  <2>10. Framed(View(e, x, F, u), F, e.n - e.r, (o + b.r) - e.r)
    BY <2>8, <2>9
  <2> QED BY <2>8, <2>9, <2>10, <1>4
<1> QED BY <1>7, <1>8

\* Every iteration keeps the invariant, and goes on only if it has passed a header.
LEMMA LoopStep ==
  ASSUME NEW x \in Seq(Unit), NEW F \in Fresh, NEW u \in 0 .. Len(F), NEW old \in Nat,
         NEW t, Loop(t, x, F, u, old)
  PROVE  /\ Loop(ScanStep(t, old), x, F, u, old)
         /\ ScanStep(t, old).go => t.go /\ ScanStep(t, old).b.n >= t.b.n + HDR
<1> DEFINE b == t.b
           c == b.n - b.r
           l == b.w - b.r
           o == old - b.r
           V == View(b, x, F, u)
           m0 == HeaderConverted(b, old)
           head == m0[b.n].msg
           z == RoundUp(head.size)
           s == ScanStep(t, old)
           a1 == Ack(t.acked, head.ack)
<1>1. t \in ScanState /\ BufOK(b) /\ old <= b.w
  BY DEF Loop
<1>2. t.acked \in UInt /\ t.up \in BOOLEAN /\ t.go \in BOOLEAN
  BY <1>1 DEF ScanState
<1>3. F \in Seq(Unit)
  BY DEF Fresh
<1>4. b.r \in Nat /\ b.n \in Nat /\ b.w \in Nat /\ c \in Nat /\ l \in Nat /\ c <= l /\ b.w <= b.size
      /\ b.size <= MaxSize /\ b.size \in Nat
  BY <1>1, Indices
<1>5. b \in [mem : [0 .. MaxSize - 1 -> Cell], size : Nat, w : Nat, n : Nat, r : Nat]
  BY <1>1 DEF BufOK
<1>6. o \in Int /\ o <= l /\ b.w <= MaxSize /\ (b.w - b.n < HDR => l < c + HDR)
  <2> DEFINE ri == b.r
             ni == b.n
             wi == b.w
             sz == b.size
  <2>1. ri \in Nat /\ ni \in Nat /\ wi \in Nat /\ sz \in Nat /\ wi <= sz /\ sz <= MaxSize /\ old <= wi
    BY <1>1, <1>4
  <2>2. o = old - ri /\ l = wi - ri /\ c = ni - ri
    OBVIOUS
  <2> HIDE DEF ri, ni, wi, sz, o, l, c
  <2>3. o \in Int /\ o <= l /\ wi <= MaxSize /\ (wi - ni < HDR => l < c + HDR)
    BY <2>1, <2>2, Constants
  <2> QED BY <2>3 DEF ni, wi
<1>7. b.n # b.r => ~ IsHeartbeat(V[1].msg)
  BY DEF Loop
<1>8. StepParts(t, old, m0, head, z)
  BY DEF StepParts
<1>9. ASSUME NEW e, BufOK(e), NEW ack \in UInt, NEW isup \in BOOLEAN, NEW go \in BOOLEAN
      PROVE  [b |-> e, acked |-> ack, up |-> isup, go |-> go] \in ScanState
  <2>1. e \in [mem : [0 .. MaxSize - 1 -> Cell], size : Nat, w : Nat, n : Nat, r : Nat]
    BY <1>9 DEF BufOK
  <2> QED BY <2>1 DEF ScanState
<1>10. CASE ~ t.go \/ b.w - b.n < HDR
  <2>1. s = [b |-> b, acked |-> t.acked, up |-> t.up, go |-> FALSE]
    BY <1>1, <1>8, <1>10, StepIs
  <2>2. s.b = b /\ s.go = FALSE
    BY <2>1
  <2>3. s \in ScanState
    BY <2>1, <1>1, <1>2, <1>9
  <2>4. Framed(V, F, c, l)
    <3>1. CASE ~ t.go
      BY <3>1 DEF Loop
    <3>2. CASE t.go /\ b.w - b.n < HDR
      <4>1. Framed(V, F, c, o)
        BY <3>2 DEF Loop
      <4>2. l < c + HDR
        BY <3>2, <1>6
      <4> HIDE DEF V, c, l, o
      <4>3. c \in Nat /\ l \in Nat /\ o \in Int /\ o <= l
        BY <1>4, <1>6
      <4> QED BY <4>1, <4>2, <4>3, NoHeader
    <3> QED BY <3>1, <3>2, <1>10
  <2> HIDE DEF s
  <2>5. Loop(s, x, F, u, old)
    BY <2>2, <2>3, <2>4, <1>1, <1>7 DEF Loop
  <2> QED BY <2>2, <2>5 DEF s
<1>11. CASE t.go /\ ~ (b.w - b.n < HDR)
  <2> DEFINE e == [mem |-> m0, size |-> b.size, w |-> b.w, n |-> b.n, r |-> b.r]
             W == View(e, x, F, u)
  <2>1. Framed(V, F, c, o)
    BY <1>11 DEF Loop
  <2>2. Converted(e, b, old)
    BY DEF Converted
  <2> HIDE DEF e
  <2>3. /\ BufOK(e) /\ e.mem = m0 /\ e.size = b.size /\ e.w = b.w /\ e.n = b.n /\ e.r = b.r
        /\ Ready(W, F, c) /\ l <= Len(W) /\ W[1].msg = V[1].msg
        /\ W[c + 1] \in Unit /\ W[c + 1] = m0[b.n] /\ c + HDR <= l
        /\ Size(W[c + 1]) = Size(V[c + 1])
    <3> DEFINE b0 == b
               V0 == V
               W0 == W
               mm == m0
    <3>1. BufOK(b0) /\ Framed(V0, F, b0.n - b0.r, old - b0.r) /\ ~ (b0.w - b0.n < HDR)
          /\ Converted(e, b0, old) /\ V0 = View(b0, x, F, u) /\ W0 = View(e, x, F, u)
          /\ mm = HeaderConverted(b0, old) /\ old \in Int
      BY <1>1, <1>11, <2>1, <2>2
    <3> HIDE DEF b0, V0, W0, mm
    <3>2. /\ BufOK(e) /\ e.mem = mm /\ e.size = b0.size /\ e.w = b0.w /\ e.n = b0.n /\ e.r = b0.r
          /\ Ready(W0, F, b0.n - b0.r) /\ b0.w - b0.r <= Len(W0)
          /\ W0[1].msg = V0[1].msg
          /\ W0[(b0.n - b0.r) + 1] \in Unit /\ W0[(b0.n - b0.r) + 1] = mm[b0.n]
          /\ (b0.n - b0.r) + HDR <= b0.w - b0.r
          /\ Size(W0[(b0.n - b0.r) + 1]) = Size(V0[(b0.n - b0.r) + 1])
      BY <3>1, <1>3, HeaderSeen
    <3> QED BY <3>2 DEF b0, V0, W0, mm
  <2>4. W[c + 1].msg = head /\ Size(W[c + 1]) = z /\ z \in Nat /\ z >= HDR /\ head \in AnyMsg
    <3> HIDE DEF W, m0, c
    <3>1. W[c + 1] \in Unit /\ W[c + 1].msg = head
      BY <2>3
    <3>2. Size(W[c + 1]) = z
      BY <3>1 DEF Size
    <3> HIDE DEF z
    <3> QED BY <3>1, <3>2, Units
  <2>5. a1 \in UInt
    <3>1. head.ack \in UInt
      BY <2>4, Messages
    <3> QED BY <3>1, <1>2, AckType
  <2>6. o < c + z
    <3>1. Partial(V, c, o)
      BY <2>1 DEF Framed
    <3>2. Size(V[c + 1]) = z
      BY <2>3, <2>4
    <3>3. c + HDR <= o => o < c + z
      BY <3>1, <3>2 DEF Partial
    <3> HIDE DEF c, o, z
    <3>4. c \in Nat /\ o \in Int /\ z \in Nat /\ z >= HDR
      BY <1>4, <1>6, <2>4
    <3> QED BY <3>3, <3>4, Constants
  <2> DEFINE ri == b.r
             ni == b.n
             wi == b.w
  <2>7. ri \in Nat /\ ni = ri + c /\ wi = ri + l /\ l \in Nat /\ c \in Nat /\ wi <= MaxSize /\ wi - ni = l - c
    <3>1. wi <= MaxSize
      BY <1>6
    <3>2. \A i, j \in Nat : i = j + (i - j)
      OBVIOUS
    <3>3. ni = ri + c /\ wi = ri + l
      BY <3>2, <1>4
    <3> HIDE DEF c, l
    <3>4. ri \in Nat /\ l \in Nat /\ c \in Nat
      BY <1>4
    <3> HIDE DEF ri, ni, wi
    <3>5. wi - ni = l - c
      BY <3>3, <3>4
    <3> QED BY <3>1, <3>3, <3>4, <3>5
  <2>8. CASE z > MaxSize \/ b.w - b.n < z
    <3> DEFINE isup == IF z > MaxSize THEN FALSE ELSE t.up
    <3>1. s = [b |-> e, acked |-> a1, up |-> isup, go |-> FALSE]
      BY <1>1, <1>8, <1>11, <2>8, StepIs, ZenonT(30) DEF e
    <3>2. isup \in BOOLEAN
      BY <1>2
    <3> HIDE DEF isup, a1
    <3>3. s \in ScanState /\ s.b = e /\ s.go = FALSE
      <4> DEFINE no == FALSE
      <4>1. no \in BOOLEAN /\ BufOK(e) /\ a1 \in UInt /\ isup \in BOOLEAN
        BY <3>2, <2>3, <2>5
      <4>2. s = [b |-> e, acked |-> a1, up |-> isup, go |-> no]
        BY <3>1
      <4> HIDE DEF no, s
      <4>3. s \in ScanState
        BY <4>1, <4>2, <1>9
      <4>4. s.b = e /\ s.go = no
        BY <4>2
      <4> QED BY <4>3, <4>4 DEF no
    <3>4. l < c + z
      <4>1. z > MaxSize \/ wi - ni < z
        BY <2>8
      <4>2. z \in Nat
        BY <2>4
      <4> HIDE DEF z, ri, ni, wi, c, l
      <4> QED BY <4>1, <4>2, <2>7, Constants
    <3>5. Framed(W, F, c, l)
      <4> HIDE DEF W, c, l, z
      <4>1. c \in Nat /\ l \in Nat /\ Ready(W, F, c) /\ c + HDR <= l /\ l < c + Size(W[c + 1])
        BY <1>4, <2>3, <2>4, <3>4
      <4> QED BY <4>1, Waits
    <3> HIDE DEF s
    <3>6. s.b.n - s.b.r = c /\ s.b.w - s.b.r = l /\ s.b.w = b.w /\ (s.b.n # s.b.r <=> b.n # b.r)
      BY <3>3, <2>3
    <3>7. Loop(s, x, F, u, old)
      BY <3>3, <3>5, <3>6, <2>3, <1>1, <1>7 DEF Loop
    <3> QED BY <3>3, <3>7 DEF s
  <2>9. CASE ~ (z > MaxSize) /\ ~ (b.w - b.n < z)
    <3> DEFINE skip == IsHeartbeat(head) /\ b.r = b.n
               r2 == IF skip THEN b.r + z ELSE b.r
               d == [mem |-> m0, size |-> b.size, w |-> b.w, n |-> b.n + z, r |-> r2]
    <3>1. s = [b |-> d, acked |-> a1, up |-> t.up, go |-> TRUE]
      BY <1>1, <1>8, <1>11, <2>9, StepIs
    <3>2. BufOK(d) /\ d.w = b.w /\ d.n = b.n + z
          /\ Framed(View(d, x, F, u), F, d.n - d.r, (o + b.r) - d.r)
          /\ (d.n # d.r => ~ IsHeartbeat(View(d, x, F, u)[1].msg))
      <4>1. d = [mem |-> e.mem, size |-> e.size, w |-> e.w, n |-> e.n + z,
                 r |-> IF skip THEN e.r + z ELSE e.r]
        BY <2>3
      <4>2. skip \in BOOLEAN /\ (skip <=> IsHeartbeat(W[(e.n - e.r) + 1].msg) /\ e.r = e.n)
        BY <2>3, <2>4
      <4>3. e.n # e.r => ~ IsHeartbeat(W[1].msg)
        BY <2>3, <1>7
      <4>4. o <= e.w - e.r /\ o < (e.n - e.r) + z /\ z = Size(W[(e.n - e.r) + 1])
            /\ Ready(W, F, e.n - e.r)
        BY <2>3, <2>4, <2>6, <1>6
      <4>5. e.n + z <= e.w
        <5>1. ~ (wi - ni < z) /\ z \in Nat
          BY <2>4, <2>9
        <5>2. ni + z <= wi
          <6> HIDE DEF z, ri, ni, wi, c, l
          <6> QED BY <5>1, <2>7
        <5> QED BY <5>2, <2>3
      <4> HIDE DEF d, W, skip, o, z, c, l, b
      <4>6. BufOK(d) /\ d.w = e.w /\ d.n = e.n + z
            /\ Framed(View(d, x, F, u), F, d.n - d.r, (o + e.r) - d.r)
            /\ (d.n # d.r => ~ IsHeartbeat(View(d, x, F, u)[1].msg))
        <5>1. BufOK(e) /\ o \in Int /\ z \in Nat /\ z >= HDR /\ W = View(e, x, F, u)
          BY <2>3, <2>4, <1>6 DEF W
        <5> QED BY <5>1, <4>1, <4>2, <4>3, <4>4, <4>5, MessagePassed
      <4> QED BY <4>6, <2>3
    <3>3. (o + b.r) - d.r = old - d.r /\ d.n >= b.n + HDR
      <4>1. o + b.r = old
        BY <1>4
      <4>2. b.n + z >= b.n + HDR
        <5>1. z \in Nat /\ z >= HDR /\ b.n \in Nat
          BY <1>4, <2>4
        <5> HIDE DEF z, b
        <5> QED BY <5>1, Constants
      <4> HIDE DEF d
      <4> QED BY <4>1, <4>2, <3>2
    <3> HIDE DEF d, a1
    <3>4. s \in ScanState /\ s.b = d /\ s.go = TRUE
      <4> DEFINE yes == TRUE
                 isup == t.up
      <4>1. yes \in BOOLEAN /\ BufOK(d) /\ a1 \in UInt /\ isup \in BOOLEAN
        BY <3>2, <1>2, <2>5
      <4>2. s = [b |-> d, acked |-> a1, up |-> isup, go |-> yes]
        BY <3>1
      <4> HIDE DEF yes, isup, s
      <4>3. s \in ScanState
        BY <4>1, <4>2, <1>9
      <4>4. s.b = d /\ s.go = yes
        BY <4>2
      <4> QED BY <4>3, <4>4 DEF yes
    <3> HIDE DEF s
    <3>5. Loop(s, x, F, u, old)
      BY <3>2, <3>3, <3>4, <1>1 DEF Loop
    <3> QED BY <3>3, <3>4, <3>5, <1>11 DEF s
  <2> QED BY <2>8, <2>9
<1> QED BY <1>2, <1>10, <1>11

\* The whole loop ends, and leaves the stream with every complete message behind
\* readidx_ passed and no complete heartbeat in front.
LEMMA Scanned ==
  ASSUME NEW x \in Seq(Unit), NEW F \in Fresh, NEW u \in 0 .. Len(F), NEW old \in Nat, NEW b,
         Loop([b |-> b, acked |-> acked, up |-> up, go |-> TRUE], x, F, u, old)
  PROVE  Loop(Scan(b, old), x, F, u, old) /\ Scan(b, old).go = FALSE
<1> DEFINE top == MaxSize \div HDR + 1
           first == [b |-> b, acked |-> acked, up |-> up, go |-> TRUE]
           D == {t \in ScanState : Loop(t, x, F, u, old)}
           Step(v) == CHOOSE t \in {ScanStep(y, old) : y \in {v}} : TRUE
           step == [p \in (1 .. top) \X D |-> ScanStep(p[2], old)]
           Body(f) == [i \in 0 .. MaxSize \div HDR + 1 |-> IF i = 0 THEN first ELSE Step(f[i - 1])]
           s == CHOOSE f : f = Body(f)
<1>1. top \in Nat /\ top * HDR > MaxSize
  BY EnoughIterations
<1>2. ASSUME NEW v PROVE Step(v) = ScanStep(v, old)
  <2> DEFINE a == ScanStep(v, old)
             S == {ScanStep(y, old) : y \in {v}}
  <2>1. S = {a}
    OBVIOUS
  <2> HIDE DEF a, S
  <2>2. (CHOOSE t \in S : TRUE) = a
    BY <2>1
  <2> QED BY <2>2 DEF S, a
<1>3. first \in D
  BY DEF Loop
<1>4. Closed(D, top, step)
  <2> SUFFICES ASSUME NEW i \in 1 .. top, NEW v \in D PROVE step[<<i, v>>] \in D
    BY DEF Closed
  <2>1. step[<<i, v>>] = ScanStep(v, old)
    <3> HIDE DEF D, top
    <3> QED OBVIOUS
  <2>2. Loop(ScanStep(v, old), x, F, u, old)
    BY LoopStep
  <2>3. ScanStep(v, old) \in D
    BY <2>2 DEF Loop
  <2> QED BY <2>1, <2>3
<1>5. PICK g : Recurs(g, D, top, first, step)
  <2> HIDE DEF D, top, first, step
  <2> QED BY <1>1, <1>3, <1>4, Recursion
<1>6. g = Body(g)
  <2>1. g \in [0 .. top -> D] /\ g[0] = first /\ \A i \in 1 .. top : g[i] = step[<<i, g[i - 1]>>]
    BY <1>5 DEF Recurs
  <2>2. ASSUME NEW i \in 0 .. top PROVE g[i] = IF i = 0 THEN first ELSE Step(g[i - 1])
    <3>1. CASE i = 0
      BY <3>1, <2>1
    <3>2. CASE i # 0
      <4> DEFINE v == g[i - 1]
      <4>1. i \in 1 .. top /\ i - 1 \in 0 .. top
        BY <3>2, <1>1
      <4>2. v \in D /\ g[i] = step[<<i, v>>]
        BY <4>1, <2>1
      <4> HIDE DEF D, top, v
      <4>3. step[<<i, v>>] = ScanStep(v, old)
        BY <4>1, <4>2
      <4>4. g[i] = Step(v)
        BY <4>2, <4>3, <1>2
      <4> QED BY <4>4, <3>2 DEF v
    <3> QED BY <3>1, <3>2
  <2>3. g = [i \in 0 .. top |-> g[i]]
    BY <2>1
  <2> HIDE DEF first, Step
  <2> QED BY <2>2, <2>3
<1>7. s = Body(s)
  <2> HIDE DEF Body
  <2> QED BY <1>6
<1>8. Scan(b, old) = s[top]
  BY Zenon DEF Scan
<1> HIDE DEF s
<1>9. s[0] = first /\ \A i \in 1 .. top : s[i] = ScanStep(s[i - 1], old)
  <2> HIDE DEF first, Step
  <2>1. s = [i \in 0 .. top |-> IF i = 0 THEN first ELSE Step(s[i - 1])]
    BY <1>7
  <2>2. 0 \in 0 .. top /\ \A i \in 1 .. top : i \in 0 .. top /\ i # 0
    BY <1>1
  <2> HIDE DEF top
  <2>3. s[0] = first /\ \A i \in 1 .. top : s[i] = Step(s[i - 1])
    BY <2>1, <2>2
  <2> QED BY <2>3, <1>2
<1> DEFINE Good(k) == Loop(s[k], x, F, u, old) /\ (s[k].go => s[k].b.n >= k * HDR)
           T == {k \in 0 .. top : Good(k)}
<1>10. 0 \in T
  <2>1. Loop(s[0], x, F, u, old)
    BY <1>9
  <2>2. s[0].b.n \in Nat
    <3>1. BufOK(s[0].b)
      BY <2>1 DEF Loop
    <3> QED BY <3>1, Indices
  <2>3. 0 * HDR = 0
    BY Constants
  <2> QED BY <2>1, <2>2, <2>3, <1>1
<1>11. ASSUME NEW k \in 0 .. top - 1, k \in T PROVE k + 1 \in T
  <2> DEFINE i == k + 1
             v == s[k]
             a == v.b.n
             e == s[i].b.n
  <2>1. i \in 1 .. top /\ i \in 0 .. top /\ i - 1 = k /\ k \in Nat
    BY <1>1
  <2>2. s[i] = ScanStep(v, old)
    <3> HIDE DEF i
    <3> QED BY <2>1, <1>9
  <2>3. Loop(v, x, F, u, old) /\ (v.go => a >= k * HDR)
    BY <1>11
  <2>4. Loop(s[i], x, F, u, old) /\ (s[i].go => v.go /\ e >= a + HDR)
    <3> HIDE DEF v
    <3>1. /\ Loop(ScanStep(v, old), x, F, u, old)
          /\ ScanStep(v, old).go => v.go /\ ScanStep(v, old).b.n >= v.b.n + HDR
      BY <2>3, LoopStep
    <3> QED BY <3>1, <2>2
  <2>5. a \in Nat /\ e \in Nat
    <3>1. BufOK(v.b) /\ BufOK(s[i].b)
      BY <2>3, <2>4 DEF Loop
    <3> QED BY <3>1, Indices
  <2>6. i * HDR = k * HDR + HDR /\ k * HDR \in Nat
    BY <2>1, Constants
  <2>7. s[i].go => e >= i * HDR
    <3> DEFINE p == k * HDR
               q == i * HDR
    <3>1. q = p + HDR /\ p \in Nat
      BY <2>6
    <3>2. s[i].go => a >= p /\ e >= a + HDR
      BY <2>3, <2>4
    <3> HIDE DEF p, q, a, e
    <3>3. s[i].go => e >= q
      BY <3>1, <3>2, <2>5, Constants
    <3> QED BY <3>3 DEF q
  <2> HIDE DEF i
  <2>8. i \in T
    BY <2>1, <2>4, <2>7
  <2> QED BY <2>8 DEF i
<1>12. top \in T
  <2>1. top \in 0 .. top
    BY <1>1
  <2> HIDE DEF T, top
  <2> QED BY <2>1, <1>1, <1>10, <1>11, UpTo
<1> DEFINE z == s[top]
<1>13. Loop(z, x, F, u, old) /\ (z.go => z.b.n >= top * HDR)
  BY <1>12
<1> HIDE DEF T
<1>14. z.go \in BOOLEAN /\ z.b.n \in Nat /\ z.b.n <= MaxSize
  <2>1. z \in ScanState /\ BufOK(z.b)
    BY <1>13 DEF Loop
  <2> HIDE DEF z
  <2>2. z.b.n \in Nat /\ z.b.n <= z.b.w /\ z.b.w <= z.b.size /\ z.b.size <= MaxSize
        /\ z.b.w \in Nat /\ z.b.size \in Nat
    BY <2>1, Indices
  <2>3. z.go \in BOOLEAN
    BY <2>1 DEF ScanState
  <2> DEFINE a == z.b.n
             d == z.b.w
             e == z.b.size
  <2>4. a \in Nat /\ d \in Nat /\ e \in Nat /\ a <= d /\ d <= e /\ e <= MaxSize
    BY <2>2
  <2> HIDE DEF a, d, e
  <2>5. a <= MaxSize
    BY <2>4, Constants
  <2> QED BY <2>2, <2>3, <2>5 DEF a
<1>15. z.go = FALSE
  <2> DEFINE a == z.b.n
             q == top * HDR
  <2>1. q > MaxSize /\ q \in Nat /\ a \in Nat /\ a <= MaxSize /\ (z.go => a >= q) /\ z.go \in BOOLEAN
    <3>1. q \in Nat
      <4> HIDE DEF top
      <4> QED BY <1>1, Constants
    <3> QED BY <3>1, <1>1, <1>13, <1>14
  <2> HIDE DEF a, q, z
  <2> QED BY <2>1, Constants
<1> QED BY <1>8, <1>13, <1>15

\* What a buffer looks like when Front() is done with it, or before it receives:
\* every complete message is passed and no complete heartbeat is in front.
Settled(b, x, F, u) ==
  /\ BufOK(b)
  /\ Framed(View(b, x, F, u), F, b.n - b.r, b.w - b.r)
  /\ b.n # b.r => ~ IsHeartbeat(View(b, x, F, u)[1].msg)

\* A receive of any number of bytes for which there is room leaves the buffer so.
LEMMA ReceiveSettles ==
  ASSUME NEW b, NEW F \in Fresh, NEW u \in 0 .. Len(F), wire \in Seq(Unit), acked \in UInt,
         up \in BOOLEAN, Settled(b, wire, F, u), NEW k \in 0 .. Len(wire),
         k <= Writable(b) + ExtraSize(b)
  PROVE  /\ Settled(Received(b, k).b, SubSeq(wire, k + 1, Len(wire)), F, u)
         /\ Received(b, k).acked \in UInt /\ Received(b, k).up \in BOOLEAN
<1> DEFINE y == SubSeq(wire, k + 1, Len(wire))
           d == Received(b, k)
<1>1. F \in Seq(Unit)
  BY DEF Fresh
<1>2. BufOK(b) /\ Framed(View(b, wire, F, u), F, b.n - b.r, b.w - b.r)
      /\ (b.n # b.r => ~ IsHeartbeat(View(b, wire, F, u)[1].msg))
  BY DEF Settled
<1>3. CASE k = 0
  <2>1. d = [b |-> b, acked |-> acked, up |-> up, go |-> FALSE]
    BY <1>3 DEF Received
  <2>2. d.b = b /\ d.acked = acked /\ d.up = up
    BY <2>1
  <2>3. y = wire
    <3>1. y \in Seq(Unit) /\ Len(y) = Len(wire) - k /\ \A i \in 1 .. Len(wire) - k : y[i] = wire[k + i]
      BY Arrived
    <3> HIDE DEF y
    <3>2. Len(wire) - k = Len(wire) /\ \A i \in 1 .. Len(wire) : k + i = i
      BY <1>3
    <3>3. Len(y) = Len(wire) /\ \A i \in 1 .. Len(y) : y[i] = wire[i]
      BY <3>1, <3>2
    <3> QED BY <3>1, <3>3, SeqEqual
  <2> HIDE DEF y, d
  <2>4. Settled(d.b, y, F, u) /\ d.acked \in UInt /\ d.up \in BOOLEAN
    BY <2>2, <2>3
  <2> QED BY <2>4 DEF y, d
<1>4. CASE k # 0
  <2> DEFINE got == DoRecv(b, SubSeq(wire, 1, k))
             e == [got EXCEPT !.w = @ + k]
             old == got.w
             first == [b |-> e, acked |-> acked, up |-> up, go |-> TRUE]
  <2>1. IsReceived(e, got, b, wire, k)
    BY DEF IsReceived
  <2>2. d = Scan(e, old)
    BY <1>4 DEF Received
  <2> HIDE DEF got, e, old, first, y
  <2>3. k \in 1 .. Len(wire)
    BY <1>4
  <2>4. /\ BufOK(e) /\ View(e, y, F, u) = View(b, wire, F, u)
        /\ e.n - e.r = b.n - b.r /\ e.w - e.r = (b.w - b.r) + k
        /\ old \in Nat /\ old - e.r = b.w - b.r
    BY <2>1, <2>3, <1>1, <1>2, ReceivedView DEF y, old
  <2>5. y \in Seq(Unit)
    BY Arrived DEF y
  <2>6. first \in ScanState /\ first.b = e /\ first.go = TRUE
    <3> DEFINE yes == TRUE
               BB == [mem : [0 .. MaxSize - 1 -> Cell], size : Nat, w : Nat, n : Nat, r : Nat]
    <3>1. e \in BB /\ yes \in BOOLEAN
      BY <2>4 DEF BufOK
    <3>2. first = [b |-> e, acked |-> acked, up |-> up, go |-> yes]
      BY DEF first
    <3>3. ScanState = [b : BB, acked : UInt, up : BOOLEAN, go : BOOLEAN]
      BY DEF ScanState
    <3> HIDE DEF yes, BB
    <3>4. first.b = e /\ first.go = yes
      BY <3>2
    <3>5. first \in ScanState
      BY <3>1, <3>2, <3>3
    <3> QED BY <3>4, <3>5 DEF yes
  <2>7. old <= e.w /\ (e.n # e.r <=> b.n # b.r)
    <3> DEFINE er == e.r
               ew == e.w
               en == e.n
               br == b.r
               bw == b.w
               bn == b.n
    <3>1. er \in Nat /\ ew \in Nat /\ en \in Nat /\ br \in Nat /\ bw \in Nat /\ bn \in Nat
      BY <2>4, <1>2, Indices
    <3>2. en - er = bn - br /\ ew - er = (bw - br) + k /\ old - er = bw - br /\ old \in Nat
      BY <2>4
    <3> HIDE DEF er, ew, en, br, bw, bn
    <3>3. old <= ew /\ (en # er <=> bn # br)
      BY <3>1, <3>2
    <3> QED BY <3>3 DEF er, ew, en, br, bn
  <2>8. Loop(first, y, F, u, old)
    BY <2>4, <2>6, <2>7, <1>2 DEF Loop
  <2>9. Loop(d, y, F, u, old) /\ d.go = FALSE
    <3> DEFINE bb == e
    <3>1. Loop([b |-> bb, acked |-> acked, up |-> up, go |-> TRUE], y, F, u, old) /\ old \in Nat
      BY <2>4, <2>8 DEF first
    <3> HIDE DEF bb
    <3>2. Loop(Scan(bb, old), y, F, u, old) /\ Scan(bb, old).go = FALSE
      BY <3>1, <2>5, Scanned
    <3> QED BY <3>2, <2>2 DEF bb
  <2> HIDE DEF d
  <2>10. d.acked \in UInt /\ d.up \in BOOLEAN
    BY <2>9 DEF Loop, ScanState
  <2>11. Settled(d.b, y, F, u)
    BY <2>9 DEF Loop, Settled
  <2> QED BY <2>10, <2>11 DEF d, y
<1> QED BY <1>3, <1>4

-----------------------------------------------------------------------------
(* What the peer does to the stream.                                       *)

\* The elements of two sequences put together.
LEMMA Concat ==
  ASSUME NEW S, NEW G \in Seq(S), NEW H \in Seq(S)
  PROVE  /\ G \o H \in Seq(S) /\ Len(G \o H) = Len(G) + Len(H)
         /\ \A i \in 1 .. Len(G) : (G \o H)[i] = G[i]
         /\ \A i \in 1 .. Len(H) : (G \o H)[Len(G) + i] = H[i]
<1> DEFINE g == Len(G)
           h == Len(H)
           U == G \o H
<1>1. g \in Nat /\ h \in Nat
  OBVIOUS
<1>2. U \in Seq(S) /\ Len(U) = g + h /\ \A i \in 1 .. g + h : U[i] = IF i <= g THEN G[i] ELSE H[i - g]
  BY ConcatProperties
<1> HIDE DEF U, g, h
<1>3. ASSUME NEW i \in 1 .. g PROVE U[i] = G[i]
  <2>1. i \in 1 .. g + h /\ i <= g
    BY <1>1
  <2> QED BY <2>1, <1>2
<1>4. ASSUME NEW i \in 1 .. h PROVE U[g + i] = H[i]
  <2> DEFINE j == g + i
  <2>1. j \in 1 .. g + h /\ ~ (j <= g) /\ j - g = i
    BY <1>1
  <2> HIDE DEF j
  <2>2. U[j] = H[i]
    BY <2>1, <1>2
  <2> QED BY <2>2 DEF j
<1> QED BY <1>2, <1>3, <1>4 DEF U, g, h

\* With nothing read and nothing in flight the stream is what the peer has.
LEMMA ViewRestarts ==
  ASSUME NEW b, BufOK(b), b.w = b.r, NEW F \in Seq(Unit), NEW x, x = <<>>, NEW u, u = 0
  PROVE  View(b, x, F, u) = F
<1> DEFINE V == View(b, x, F, u)
           f == Len(F)
<1>1. x \in Seq(Unit) /\ Len(x) = 0 /\ u \in 0 .. Len(F) /\ f \in Nat /\ b.r \in Nat
  BY Indices
<1>2. IsView(V, b, x, F, u)
  BY <1>1, Viewed
<1>3. b.w - b.r = 0
  BY <1>1
<1> HIDE DEF V
<1>4. /\ Len(V) = 0 + 0 + (f - 0) /\ V \in Seq(Cell)
      /\ \A i \in 1 .. f - 0 : V[0 + 0 + i] = F[0 + i]
  BY <1>1, <1>2, <1>3 DEF IsView
<1>5. f - 0 = f /\ 0 + 0 + (f - 0) = f /\ \A i \in 1 .. f : 0 + 0 + i = i /\ 0 + i = i
  BY <1>1
<1>6. Len(V) = f /\ \A i \in 1 .. f : V[i] = F[i]
  BY <1>4, <1>5
<1>7. F \in Seq(Cell)
  BY DEF Cell
<1>8. V = F
  BY <1>4, <1>6, <1>7, SeqEqual
<1> QED BY <1>8 DEF V

\* A message that the peer pushes goes to the end of the stream.
LEMMA ViewPushed ==
  ASSUME NEW b, BufOK(b), NEW x \in Seq(Unit), NEW F \in Seq(Unit), NEW u \in 0 .. Len(F),
         NEW B \in Seq(Unit)
  PROVE  /\ F \o B \in Seq(Unit) /\ u \in 0 .. Len(F \o B)
         /\ View(b, x, F \o B, u) = View(b, x, F, u) \o B
<1> DEFINE E == F \o B
           V == View(b, x, F, u)
           W == View(b, x, E, u)
           l == b.w - b.r
           k == Len(x)
           f == Len(F) - u
           g == Len(B)
<1>1. /\ E \in Seq(Unit) /\ Len(E) = Len(F) + g
      /\ \A i \in 1 .. Len(F) : E[i] = F[i]
      /\ \A i \in 1 .. g : E[Len(F) + i] = B[i]
  BY Concat
<1> HIDE DEF E
<1>2. l \in Nat /\ k \in Nat /\ f \in Nat /\ g \in Nat /\ u \in Nat /\ Len(F) = u + f
  BY Indices
<1>3. u \in 0 .. Len(E) /\ Len(E) - u = f + g
  BY <1>1, <1>2
<1>4. IsView(V, b, x, F, u) /\ IsView(W, b, x, E, u)
  BY <1>1, <1>3, Viewed
<1> HIDE DEF V, W
<1>5. /\ Len(V) = l + k + f /\ V \in Seq(Cell)
      /\ \A i \in 1 .. l : V[i] = b.mem[b.r + i - 1]
      /\ \A i \in 1 .. k : V[l + i] = x[i]
      /\ \A i \in 1 .. f : V[l + k + i] = F[u + i]
  BY <1>4 DEF IsView
<1>6. /\ Len(W) = l + k + (f + g) /\ W \in Seq(Cell)
      /\ \A i \in 1 .. l : W[i] = b.mem[b.r + i - 1]
      /\ \A i \in 1 .. k : W[l + i] = x[i]
      /\ \A i \in 1 .. f + g : W[l + k + i] = E[u + i]
  BY <1>3, <1>4 DEF IsView
<1> DEFINE U == V \o B
<1>7. /\ U \in Seq(Cell) /\ Len(U) = Len(V) + g
      /\ \A i \in 1 .. Len(V) : U[i] = V[i]
      /\ \A i \in 1 .. g : U[Len(V) + i] = B[i]
  <2>1. B \in Seq(Cell)
    BY DEF Cell
  <2>2. V \in Seq(Cell)
    BY <1>5
  <2> QED BY <2>1, <2>2, Concat
<1> HIDE DEF U
<1>8. Len(F) = u + f /\ Len(V) = l + k + f
  BY <1>2, <1>5
<1> HIDE DEF l, k, f, g
<1>9. l + k + (f + g) = (l + k + f) + g
  BY <1>2
<1>10. ASSUME NEW i \in 1 .. (l + k + f) + g PROVE W[i] = U[i]
  <2>1. CASE i <= l + k + f
    <3>1. i \in 1 .. Len(V)
      BY <2>1, <1>2, <1>8
    <3>2. U[i] = V[i]
      BY <3>1, <1>7
    <3>3. CASE i <= l
      <4>1. i \in 1 .. l
        BY <3>3, <1>2
      <4> QED BY <4>1, <3>2, <1>5, <1>6
    <3>4. CASE i > l /\ i <= l + k
      <4>1. PICK j \in 1 .. k : i = l + j
        BY <3>4, <1>2
      <4> QED BY <4>1, <3>2, <1>5, <1>6
    <3>5. CASE i > l + k
      <4>1. PICK j \in 1 .. f : i = l + k + j
        BY <2>1, <3>5, <1>2
      <4>2. j \in 1 .. f + g /\ u + j \in 1 .. Len(F)
        BY <1>2, <1>8
      <4> QED BY <4>1, <4>2, <3>2, <1>1, <1>5, <1>6
    <3> QED BY <3>3, <3>4, <3>5, <1>2
  <2>2. CASE i > l + k + f
    <3>1. PICK j \in 1 .. g : i = (l + k + f) + j
      BY <2>2, <1>2
    <3>2. U[i] = B[j]
      BY <3>1, <1>7, <1>8
    <3>3. i = l + k + (f + j) /\ f + j \in 1 .. f + g /\ u + (f + j) = Len(F) + j
      BY <3>1, <1>2, <1>8
    <3>4. W[i] = E[Len(F) + j]
      BY <3>3, <1>6
    <3> QED BY <3>2, <3>4, <1>1
  <2> QED BY <2>1, <2>2, <1>2
<1>11. W = U
  <2>1. Len(W) = Len(U) /\ Len(W) = (l + k + f) + g
    BY <1>6, <1>7, <1>8, <1>9
  <2> QED BY <2>1, <1>6, <1>7, <1>10, SeqEqual
<1> QED BY <1>1, <1>3, <1>11 DEF U, V, W, E

\* Bytes of messages that the peer sends stay where they are in the stream.
LEMMA ViewSent ==
  ASSUME NEW b, BufOK(b), NEW x \in Seq(Unit), NEW F \in Seq(Unit), NEW u \in 0 .. Len(F),
         NEW k \in 0 .. Len(F) - u
  PROVE  /\ x \o SubSeq(F, u + 1, u + k) \in Seq(Unit)
         /\ Len(x \o SubSeq(F, u + 1, u + k)) = Len(x) + k
         /\ u + k \in 0 .. Len(F)
         /\ View(b, x \o SubSeq(F, u + 1, u + k), F, u + k) = View(b, x, F, u)
<1> DEFINE S == SubSeq(F, u + 1, u + k)
           y == x \o S
           V == View(b, x, F, u)
           W == View(b, y, F, u + k)
           l == b.w - b.r
           q == Len(x)
           f == Len(F) - u
           g == f - k
           v == u + k
<1>1. l \in Nat /\ q \in Nat /\ f \in Nat /\ g \in Nat /\ u \in Nat /\ k \in Nat /\ f = k + g
      /\ v \in 0 .. Len(F) /\ Len(F) - v = g /\ v = u + k
  BY Indices, SMTT(30)
<1>2. S \in Seq(Unit) /\ Len(S) = k /\ \A i \in 1 .. k : S[i] = F[u + i]
  <2>1. \A i \in u + 1 .. u + k : F[i] \in Unit
    <3>1. \A i \in u + 1 .. u + k : i \in 1 .. Len(F)
      BY <1>1
    <3> QED BY <3>1
  <2>2. S = [i \in 1 .. (u + k) - (u + 1) + 1 |-> F[i + (u + 1) - 1]]
    OBVIOUS
  <2>3. (u + k) - (u + 1) + 1 = k /\ \A i \in 1 .. k : i + (u + 1) - 1 = u + i /\ u + i \in u + 1 .. u + k
    BY <1>1
  <2>4. S = [i \in 1 .. k |-> F[u + i]]
    BY <2>2, <2>3
  <2>5. S \in [1 .. k -> Unit]
    BY <2>1, <2>3, <2>4
  <2> HIDE DEF S
  <2> QED BY <2>4, <2>5, <1>1
<1> HIDE DEF S
<1>3. /\ y \in Seq(Unit) /\ Len(y) = q + k
      /\ \A i \in 1 .. q : y[i] = x[i]
      /\ \A i \in 1 .. k : y[q + i] = F[u + i]
  <2>1. /\ y \in Seq(Unit) /\ Len(y) = q + Len(S)
        /\ \A i \in 1 .. q : y[i] = x[i]
        /\ \A i \in 1 .. Len(S) : y[q + i] = S[i]
    <3>1. S \in Seq(Unit)
      BY <1>2
    <3> QED BY <3>1, Concat
  <2> HIDE DEF y
  <2> QED BY <2>1, <1>2
<1> HIDE DEF y, v
<1>4. IsView(V, b, x, F, u) /\ IsView(View(b, y, F, v), b, y, F, v) /\ W = View(b, y, F, v)
  BY <1>1, <1>3, Viewed
<1> HIDE DEF V, W
<1>5. /\ Len(V) = l + q + f /\ V \in Seq(Cell)
      /\ \A i \in 1 .. l : V[i] = b.mem[b.r + i - 1]
      /\ \A i \in 1 .. q : V[l + i] = x[i]
      /\ \A i \in 1 .. f : V[l + q + i] = F[u + i]
  BY <1>4 DEF IsView
<1>6. /\ Len(W) = l + (q + k) + g /\ W \in Seq(Cell)
      /\ \A i \in 1 .. l : W[i] = b.mem[b.r + i - 1]
      /\ \A i \in 1 .. q + k : W[l + i] = y[i]
      /\ \A i \in 1 .. g : W[l + (q + k) + i] = F[v + i]
  BY <1>1, <1>3, <1>4 DEF IsView
<1> HIDE DEF l, q, f, g
<1>7. l + (q + k) + g = l + q + f
  BY <1>1
<1>8. ASSUME NEW i \in 1 .. l + q + f PROVE W[i] = V[i]
  <2>1. CASE i <= l
    <3>1. i \in 1 .. l
      BY <2>1, <1>1
    <3> QED BY <3>1, <1>5, <1>6
  <2>2. CASE i > l /\ i <= l + q
    <3>1. PICK j \in 1 .. q : i = l + j
      BY <2>2, <1>1
    <3>2. j \in 1 .. q + k
      BY <1>1
    <3> QED BY <3>1, <3>2, <1>3, <1>5, <1>6
  <2>3. CASE i > l + q /\ i <= l + q + k
    <3>1. PICK j \in 1 .. k : i = l + q + j
      BY <2>3, <1>1
    <3>2. i = l + (q + j) /\ q + j \in 1 .. q + k /\ j \in 1 .. f
      BY <3>1, <1>1
    <3>3. W[i] = y[q + j]
      BY <3>2, <1>6
    <3>4. V[i] = F[u + j]
      BY <3>1, <3>2, <1>5
    <3> QED BY <3>3, <3>4, <1>3
  <2>4. CASE i > l + q + k
    <3>1. PICK j \in 1 .. g : i = l + (q + k) + j
      BY <2>4, <1>1
    <3>2. i = l + q + (k + j) /\ k + j \in 1 .. f /\ v + j = u + (k + j)
      BY <3>1, <1>1
    <3>3. W[i] = F[v + j]
      BY <3>1, <1>6
    <3>4. V[i] = F[u + (k + j)]
      BY <3>2, <1>5
    <3> QED BY <3>2, <3>3, <3>4
  <2> QED BY <2>1, <2>2, <2>3, <2>4, <1>1
<1>9. W = V
  <2>1. Len(W) = Len(V) /\ Len(W) = l + q + f
    BY <1>5, <1>6, <1>7
  <2> QED BY <2>1, <1>5, <1>6, <1>8, SeqEqual
<1> QED BY <1>1, <1>3, <1>9 DEF W, V, y, S, q, v

\* W is V followed by B.
Followed(W, V, B) == W = V \o B

\* A heartbeat goes to the end of the stream too: the peer has sent everything.
LEMMA ViewBeat ==
  ASSUME NEW b, BufOK(b), NEW x \in Seq(Unit), NEW F \in Seq(Unit), NEW B \in Seq(Unit),
         NEW y, Followed(y, x, B), NEW u \in 0 .. Len(F), u = Len(F)
  PROVE  /\ y \in Seq(Unit) /\ Len(y) = Len(x) + Len(B)
         /\ Followed(View(b, y, F, u), View(b, x, F, u), B)
<1> DEFINE V == View(b, x, F, u)
           W == View(b, y, F, u)
           l == b.w - b.r
           q == Len(x)
           g == Len(B)
<1>1. l \in Nat /\ q \in Nat /\ g \in Nat /\ u \in 0 .. Len(F) /\ Len(F) - u = 0
  BY Indices
<1>2. /\ y \in Seq(Unit) /\ Len(y) = q + g
      /\ \A i \in 1 .. q : y[i] = x[i]
      /\ \A i \in 1 .. g : y[q + i] = B[i]
  BY Concat DEF Followed
<1>3. IsView(V, b, x, F, u) /\ IsView(W, b, y, F, u)
  BY <1>1, <1>2, Viewed
<1> HIDE DEF V, W
<1>4. /\ Len(V) = l + q + 0 /\ V \in Seq(Cell)
      /\ \A i \in 1 .. l : V[i] = b.mem[b.r + i - 1]
      /\ \A i \in 1 .. q : V[l + i] = x[i]
  BY <1>1, <1>3 DEF IsView
<1>5. /\ Len(W) = l + (q + g) + 0 /\ W \in Seq(Cell)
      /\ \A i \in 1 .. l : W[i] = b.mem[b.r + i - 1]
      /\ \A i \in 1 .. q + g : W[l + i] = y[i]
  BY <1>1, <1>2, <1>3 DEF IsView
<1> DEFINE U == V \o B
<1>6. /\ U \in Seq(Cell) /\ Len(U) = Len(V) + g
      /\ \A i \in 1 .. Len(V) : U[i] = V[i]
      /\ \A i \in 1 .. g : U[Len(V) + i] = B[i]
  <2>1. B \in Seq(Cell)
    BY DEF Cell
  <2>2. V \in Seq(Cell)
    BY <1>4
  <2> QED BY <2>1, <2>2, Concat
<1> HIDE DEF U, l, q, g
<1>7. Len(V) = l + q /\ Len(W) = (l + q) + g /\ Len(U) = (l + q) + g
  <2>1. l + q + 0 = l + q /\ l + (q + g) + 0 = (l + q) + g
    BY <1>1
  <2> QED BY <2>1, <1>4, <1>5, <1>6
<1>8. ASSUME NEW i \in 1 .. (l + q) + g PROVE W[i] = U[i]
  <2>1. CASE i <= l
    <3>1. i \in 1 .. l /\ i \in 1 .. l + q
      BY <2>1, <1>1
    <3>2. U[i] = V[i]
      BY <3>1, <1>6, <1>7
    <3> QED BY <3>1, <3>2, <1>4, <1>5
  <2>2. CASE i > l /\ i <= l + q
    <3>1. PICK j \in 1 .. q : i = l + j
      BY <2>2, <1>1
    <3>2. j \in 1 .. q + g /\ i \in 1 .. l + q
      BY <2>2, <1>1
    <3>3. U[i] = V[i]
      BY <3>2, <1>6, <1>7
    <3> QED BY <3>1, <3>2, <3>3, <1>2, <1>4, <1>5
  <2>3. CASE i > l + q
    <3>1. PICK j \in 1 .. g : i = (l + q) + j
      BY <2>3, <1>1
    <3>2. i = l + (q + j) /\ q + j \in 1 .. q + g
      BY <3>1, <1>1
    <3>3. U[i] = B[j]
      BY <3>1, <1>6, <1>7
    <3>4. W[i] = y[q + j]
      BY <3>2, <1>5
    <3> QED BY <3>3, <3>4, <1>2
  <2> QED BY <2>1, <2>2, <2>3, <1>1
<1>9. W = U
  BY <1>5, <1>6, <1>7, <1>8, SeqEqual
<1> QED BY <1>2, <1>9 DEF W, U, V, q, g, Followed

-----------------------------------------------------------------------------
(* Every action keeps the inductive invariant.                             *)

\* The invariant without the types: of buffer, wire, messages and callback.
Sound(b, x, F, u, m) ==
  /\ BufOK(b)
  /\ Framed(View(b, x, F, u), F, b.n - b.r, b.w - b.r)
  /\ Shown(View(b, x, F, u), m, b.n - b.r)

\* The fields of the buffer.
LEMMA BufFields ==
  Buf.mem = mem /\ Buf.size = size /\ Buf.w = w /\ Buf.n = n /\ Buf.r = r
BY DEF Buf

\* The invariant in terms of Sound().
LEMMA IInvIs == IInv <=> Types /\ Sound(Buf, wire, Flat(pend), sentu, shown)
<1>1. Buf.n - Buf.r = n - r /\ Buf.w - Buf.r = w - r
  BY BufFields
<1> QED BY <1>1 DEF IInv, Sound, Stream

\* The same after a step.
LEMMA IInvNext ==
  IInv' <=> Types' /\ Sound(Buf', wire', Flat(pend'), sentu', shown')
<1>1. Buf'.n - Buf'.r = n' - r' /\ Buf'.w - Buf'.r = w' - r'
  BY DEF Buf
<1>2. Stream' = View(Buf', wire', Flat(pend'), sentu')
  BY DEF Stream, View, Flat
<1>3. IInv' <=> /\ Types' /\ BufOK(Buf')
                /\ Framed(Stream', Flat(pend'), n' - r', w' - r')
                /\ Shown(Stream', shown', n' - r')
  BY DEF IInv
<1> QED BY <1>1, <1>2, <1>3 DEF Sound

\* Front() skips the heartbeats first.
LEMMA SkipSettles ==
  ASSUME NEW b, NEW x \in Seq(Unit), NEW F \in Fresh, NEW u \in 0 .. Len(F), BufOK(b),
         Framed(View(b, x, F, u), F, b.n - b.r, b.w - b.r)
  PROVE  Settled(SkipHeartbeats(b), x, F, u)
<1> DEFINE V == View(b, x, F, u)
           e == SkipHeartbeats(b)
           c == b.n - b.r
           o == b.w - b.r
<1>1. F \in Seq(Unit) /\ V \in Seq(Unit)
  BY DEF Fresh, Framed
<1>2. c \in Nat /\ o \in Nat /\ c <= o
  BY Indices
<1>3. Len(V) >= o /\ Len(V) \in Nat
  <2>1. IsView(V, b, x, F, u)
    BY <1>1, Viewed
  <2> DEFINE k == Len(x)
             f == Len(F) - u
  <2>2. Len(V) = o + k + f /\ k \in Nat /\ f \in Nat
    BY <2>1, <1>1 DEF IsView
  <2> HIDE DEF V, o, k, f
  <2> QED BY <2>2, <1>2
<1>4. PICK d \in 0 .. c :
        /\ Advanced(e, b, d) /\ Bound(V, d) /\ HBOnly(V, 0, d)
        /\ d # c => ~ IsHeartbeat(V[d + 1].msg)
  <2> DEFINE V0 == V
  <2>1. V0 = View(b, x, F, u) /\ Framed(V0, F, b.n - b.r, b.w - b.r)
    OBVIOUS
  <2> HIDE DEF V0
  <2>2. \E d \in 0 .. b.n - b.r :
          /\ Advanced(SkipHeartbeats(b), b, d) /\ Bound(V0, d) /\ HBOnly(V0, 0, d)
          /\ d # b.n - b.r => ~ IsHeartbeat(V0[d + 1].msg)
    BY <2>1, <1>1, Skips
  <2> QED BY <2>2 DEF V0
<1> HIDE DEF e
<1>5. /\ BufOK(e) /\ e.n - e.r = c - d /\ e.w - e.r = o - d
      /\ View(e, x, F, u) = Drop(V, d) /\ Framed(Drop(V, d), F, c - d, o - d)
  <2> DEFINE V0 == V
             oo == b.w - b.r
  <2>1. V0 = View(b, x, F, u) /\ Framed(V0, F, b.n - b.r, oo) /\ oo \in Int /\ oo <= b.w - b.r
        /\ Bound(V0, d) /\ HBOnly(V0, 0, d) /\ d \in 0 .. b.n - b.r /\ Advanced(e, b, d)
    BY <1>2, <1>4
  <2> HIDE DEF V0, oo
  <2>2. /\ BufOK(e) /\ e.n - e.r = (b.n - b.r) - d /\ e.w - e.r = (b.w - b.r) - d
        /\ View(e, x, F, u) = Drop(V0, d)
        /\ Framed(Drop(V0, d), F, (b.n - b.r) - d, oo - d)
    BY <2>1, HeartbeatsSkipped
  <2> QED BY <2>2 DEF V0, oo
<1>6. ASSUME e.n # e.r PROVE ~ IsHeartbeat(View(e, x, F, u)[1].msg)
  <2> DEFINE D == Drop(V, d)
  <2>1. c # d
    <3>1. e.n \in Nat /\ e.r \in Nat
      BY <1>5, Indices
    <3>2. e.n - e.r # 0
      BY <3>1, <1>6
    <3> QED BY <3>2, <1>2, <1>5
  <2>2. ~ IsHeartbeat(V[d + 1].msg)
    BY <2>1, <1>4
  <2>3. d \in 0 .. Len(V) /\ 1 \in 1 .. Len(V) - d /\ 1 + d = d + 1
    <3> HIDE DEF V, c, o
    <3> QED BY <2>1, <1>2, <1>3
  <2>4. D[1] = V[d + 1]
    <3>1. \A i \in 1 .. Len(V) - d : D[i] = V[i + d]
      BY <2>3, <1>1, Dropped
    <3> HIDE DEF D, V
    <3> QED BY <3>1, <2>3
  <2> QED BY <2>2, <2>4, <1>5
<1> HIDE DEF V, c, o
<1>7. Settled(e, x, F, u)
  BY <1>5, <1>6 DEF Settled
<1> QED BY <1>7 DEF e

\* DoRecv() rewinds an empty buffer.
LEMMA RewindSettles ==
  ASSUME NEW b, NEW x \in Seq(Unit), NEW F \in Seq(Unit), NEW u \in 0 .. Len(F),
         Settled(b, x, F, u)
  PROVE  Settled(Rewound(b), x, F, u)
<1> DEFINE e == Rewound(b)
<1>1. BufOK(b)
  BY DEF Settled
<1>2. /\ BufOK(e) /\ View(e, x, F, u) = View(b, x, F, u)
      /\ e.n - e.r = b.n - b.r /\ e.w - e.r = b.w - b.r
  BY <1>1, RewoundView
<1> HIDE DEF e
<1>3. e.n # e.r <=> b.n # b.r
  <2>1. e.n \in Nat /\ e.r \in Nat /\ b.n \in Nat /\ b.r \in Nat
    BY <1>1, <1>2, Indices
  <2>2. \A i, j \in Nat : i = j <=> i - j = 0
    OBVIOUS
  <2> QED BY <2>1, <2>2, <1>2
<1>4. Settled(e, x, F, u)
  BY <1>2, <1>3 DEF Settled
<1> QED BY <1>4 DEF e

\* SetBuf() keeps the invariant.
LEMMA CleanSound ==
  ASSUME NEW b, NEW x \in Seq(Unit), NEW F \in Seq(Unit), NEW u \in 0 .. Len(F), NEW m,
         Sound(b, x, F, u, m)
  PROVE  Sound(Clean(b), x, F, u, m)
<1> DEFINE e == Clean(b)
<1>1. BufOK(b)
  BY DEF Sound
<1>2. BufOK(e) /\ View(e, x, F, u) = View(b, x, F, u)
  BY <1>1, CleanView
<1>3. e.n = b.n /\ e.r = b.r /\ e.w = b.w
  BY DEF Clean
<1> HIDE DEF e
<1>4. Sound(e, x, F, u, m)
  BY <1>2, <1>3 DEF Sound
<1> QED BY <1>4 DEF e

\* What Front() returns of a settled buffer that has a complete message: the
\* oldest message of the peer.
LEMMA FrontShows ==
  ASSUME NEW b, NEW x \in Seq(Unit), NEW F \in Fresh, NEW u \in 0 .. Len(F),
         Settled(b, x, F, u), b.r # b.n
  PROVE  /\ MsgAtFront(b) \in Message /\ Len(F) > 0 /\ F[1].msg = MsgAtFront(b)
         /\ Sound(b, x, F, u, MsgAtFront(b))
<1> DEFINE V == View(b, x, F, u)
           m == MsgAtFront(b)
<1>1. BufOK(b) /\ Framed(V, F, b.n - b.r, b.w - b.r) /\ ~ IsHeartbeat(V[1].msg) /\ V = View(b, x, F, u)
  BY DEF Settled
<1> HIDE DEF V
<1>2. V[1].msg \in Message /\ MsgAtFront(b) = V[1].msg /\ Len(F) > 0 /\ F[1].msg = V[1].msg
  BY <1>1, FrontMessage
<1>3. b.n - b.r > 0
  <2>1. b.n \in Nat /\ b.r \in Nat /\ b.r <= b.n
    BY <1>1, Indices
  <2> QED BY <2>1
<1>4. Shown(V, m, b.n - b.r)
  BY <1>1, <1>2, <1>3 DEF Shown
<1> HIDE DEF m
<1>5. Sound(b, x, F, u, m)
  BY <1>1, <1>4 DEF Sound
<1> QED BY <1>2, <1>5 DEF m

\* A settled buffer with nothing shown.
LEMMA SettledSound ==
  ASSUME NEW b, NEW x, NEW F, NEW u, Settled(b, x, F, u)
  PROVE  Sound(b, x, F, u, NoMsg)
BY DEF Settled, Sound, Shown

\* A new TCP connection: the indices are reset, and the peer starts again with the
\* first message that was not popped.
LEMMA Restarted ==
  ASSUME NEW b, BufOK(b), b.w = 0, b.n = 0, b.r = 0, NEW F \in Fresh, NEW x, x = <<>>,
         NEW u, u = 0
  PROVE  Sound(b, x, F, u, NoMsg)
<1> DEFINE V == View(b, x, F, u)
<1>1. F \in Seq(Unit) /\ b.w = b.r
  BY DEF Fresh
<1>2. V = F
  BY <1>1, ViewRestarts
<1>3. Framed(F, F, 0, 0)
  BY FreshFramed
<1>4. b.n - b.r = 0 /\ b.w - b.r = 0
  OBVIOUS
<1> HIDE DEF V
<1>5. Framed(V, F, b.n - b.r, b.w - b.r)
  BY <1>2, <1>3, <1>4
<1> QED BY <1>5 DEF Sound, Shown, V

\* The facts that the steps below need of the state before them.
LEMMA IInvFacts ==
  ASSUME IInv
  PROVE  /\ Types /\ Sound(Buf, wire, Flat(pend), sentu, shown)
         /\ pend \in Seq(Message) /\ Flat(pend) \in Fresh /\ Flat(pend) \in Seq(Unit)
         /\ Len(Flat(pend)) \in Nat /\ sentu \in 0 .. Len(Flat(pend))
         /\ wire \in Seq(Unit) /\ Len(wire) \in Nat /\ Len(wire) <= WireCap
         /\ up \in BOOLEAN /\ popped \in BOOLEAN /\ closes \in 0 .. MaxCloses
         /\ posted \in UInt /\ acked \in UInt /\ peer_ack \in UInt
         /\ TotalUnits(pend) = Len(Flat(pend)) /\ BufOK(Buf)
<1>1. Types /\ Sound(Buf, wire, Flat(pend), sentu, shown)
  BY IInvIs
<1>2. /\ pend \in Seq(Message) /\ sentu \in 0 .. Len(Flat(pend))
      /\ wire \in Seq(Unit) /\ Len(wire) <= WireCap
      /\ up \in BOOLEAN /\ popped \in BOOLEAN /\ closes \in 0 .. MaxCloses
      /\ posted \in UInt /\ acked \in UInt /\ peer_ack \in UInt
  BY <1>1 DEF Types
<1>3. Flat(pend) \in Fresh /\ Flat(pend) \in Seq(Unit) /\ Len(Flat(pend)) \in Nat
  BY <1>2, FlatFresh
<1>4. TotalUnits(pend) = Len(Flat(pend))
  BY <1>2, Total
<1>5. BufOK(Buf)
  BY <1>1 DEF Sound
<1>6. Len(wire) \in Nat
  BY <1>2
<1> QED BY <1>1, <1>2, <1>3, <1>4, <1>5, <1>6

\* Zero is a sequence number.
LEMMA ZeroUInt == 0 \in UInt
BY Constants DEF UInt, UIntMod

\* After the first Open().
LEMMA InitIInv == Init => IInv
<1> HAVE Init
<1>1. Flat(pend) = <<>>
  BY FlatEmpty DEF Init
<1>2. Types
  <2>1. pend \in Seq(Message) /\ wire \in Seq(Unit) /\ Len(wire) = 0
    BY DEF Init
  <2>2. sentu \in 0 .. Len(Flat(pend))
    BY <1>1 DEF Init
  <2>3. closes \in 0 .. MaxCloses /\ Len(wire) <= WireCap
    BY <2>1, Constants DEF Init
  <2>4. posted \in UInt /\ acked \in UInt /\ peer_ack \in UInt
    BY ZeroUInt DEF Init
  <2> QED BY <2>1, <2>2, <2>3, <2>4 DEF Init, Types
<1>3. Flat(pend) \in Fresh
  <2>1. pend \in Seq(Message)
    BY <1>2 DEF Types
  <2> QED BY <2>1, FlatFresh
<1>4. BufOK(Buf)
  <2>1. mem \in [0 .. MaxSize - 1 -> Cell]
    BY DEF Init, EmptyBuf, Cell
  <2>2. size = InitSize /\ w = 0 /\ n = 0 /\ r = 0
    BY DEF Init
  <2>3. Buf \in [mem : [0 .. MaxSize - 1 -> Cell], size : Nat, w : Nat, n : Nat, r : Nat]
    BY <2>1, <2>2, Constants DEF Buf
  <2>4. Buf.r <= Buf.n /\ Buf.n <= Buf.w /\ Buf.w <= Buf.size
        /\ InitSize <= Buf.size /\ Buf.size <= MaxSize /\ Buf.size % HDR = 0
    BY <2>2, BufFields, Constants
  <2> QED BY <2>3, <2>4 DEF BufOK
<1>5. Sound(Buf, wire, Flat(pend), sentu, NoMsg)
  <2>1. Buf.w = 0 /\ Buf.n = 0 /\ Buf.r = 0 /\ wire = <<>> /\ sentu = 0
    BY BufFields DEF Init
  <2> QED BY <2>1, <1>3, <1>4, Restarted
<1> QED BY <1>2, <1>5, IInvIs DEF Init

\* Steps that leave the buffer, the wire and the messages alone keep the stream;
\* the callback may have returned.
LEMMA StreamKept ==
  ASSUME IInv, UNCHANGED <<buf, stream>>, shown' = shown \/ shown' = NoMsg, Types'
  PROVE  IInv'
<1>1. Buf' = Buf /\ wire' = wire /\ Flat(pend') = Flat(pend) /\ sentu' = sentu
  BY DEF buf, stream, Buf
<1>2. Sound(Buf, wire, Flat(pend), sentu, shown)
  BY IInvIs
<1>3. Sound(Buf, wire, Flat(pend), sentu, shown')
  <2>1. CASE shown' = shown
    BY <2>1, <1>2
  <2>2. CASE shown' = NoMsg
    BY <2>2, <1>2 DEF Sound, Shown
  <2> QED BY <2>1, <2>2
<1>4. Sound(Buf', wire', Flat(pend'), sentu', shown')
  BY <1>1, <1>3
<1> QED BY <1>4, IInvNext

\* A message is pushed at the peer.
LEMMA PeerPushIInv ==
  ASSUME IInv, NEW s \in Sizes, PeerPush(s)
  PROVE  IInv' /\ \E m \in Message : pend' = Append(pend, m)
<1> DEFINE F == Flat(pend)
           V == View(Buf, wire, F, sentu)
<1>1. PICK id \in Ids : pend' = Append(pend, [id |-> id, size |-> s, ack |-> peer_ack])
  BY DEF PeerPush
<1> DEFINE m == [id |-> id, size |-> s, ack |-> peer_ack]
           B == Bytes(m)
           E == F \o B
<1>2. UNCHANGED <<buf, up, popped, shown, sentu, wire, ours, closes>>
  BY DEF PeerPush
<1>3. m \in Message
  BY IInvFacts DEF Message
<1> HIDE DEF m
<1>4. m \in AnyMsg /\ ~ IsHeartbeat(m) /\ pend' \in Seq(Message)
  <2>1. ~ IsHeartbeat(m)
    BY <1>3, Messages DEF IsHeartbeat
  <2>2. pend \in Seq(Message)
    BY IInvFacts
  <2>3. pend' = Append(pend, m)
    BY <1>1 DEF m
  <2>4. pend' \in Seq(Message)
    BY <2>2, <2>3, <1>3
  <2> QED BY <2>1, <2>4, <1>3 DEF AnyMsg
<1>5. Flat(pend') = E
  <2>1. pend \in Seq(Message) /\ pend' = Append(pend, m)
    BY <1>1, IInvFacts DEF m
  <2> QED BY <2>1, <1>3, FlatAppend
<1>6. F \in Seq(Unit) /\ BufOK(Buf) /\ wire \in Seq(Unit) /\ sentu \in 0 .. Len(F) /\ B \in Seq(Unit)
  BY <1>4, IInvFacts, BytesOf
<1> HIDE DEF B, F
<1>7. E \in Seq(Unit) /\ sentu \in 0 .. Len(E) /\ View(Buf, wire, E, sentu) = V \o B
  BY <1>6, ViewPushed
<1> DEFINE c == Buf.n - Buf.r
           l == Buf.w - Buf.r
<1>8. c \in Nat /\ l \in Nat /\ c <= l
  BY <1>6, Indices
<1>9. Framed(V, F, c, l) /\ Shown(V, shown, c)
  BY IInvFacts DEF Sound, F
<1>10. V \in Seq(Unit) /\ c \in 0 .. Len(V) /\ l \in c .. Len(V)
  <2>1. V \in Seq(Unit)
    BY <1>9 DEF Framed
  <2>2. IsView(V, Buf, wire, F, sentu)
    BY <1>6, Viewed
  <2> DEFINE k == Len(wire)
             f == Len(F) - sentu
  <2>3. Len(V) = l + k + f /\ k \in Nat /\ f \in Nat
    BY <2>2, <1>6 DEF IsView
  <2> HIDE DEF V, c, l, k, f
  <2> QED BY <2>1, <2>3, <1>8
<1> HIDE DEF V, E, c, l
<1>11. Framed(V \o B, E, c, l)
  <2>1. IF IsHeartbeat(m) THEN E = F ELSE E = F \o Bytes(m)
    BY <1>4 DEF E, B
  <2> QED BY <2>1, <1>4, <1>6, <1>7, <1>9, <1>10, Joined DEF B
<1>12. Shown(V \o B, shown, c)
  <2> SUFFICES ASSUME shown # NoMsg PROVE ~ IsHeartbeat(shown) /\ c > 0 /\ (V \o B)[1].msg = shown
    BY DEF Shown
  <2>1. ~ IsHeartbeat(shown) /\ c > 0 /\ V[1].msg = shown
    BY <1>9 DEF Shown
  <2>2. 1 \in 1 .. Len(V)
    BY <2>1, <1>8, <1>10
  <2>3. (V \o B)[1] = V[1]
    <3>1. \A i \in 1 .. Len(V) : (V \o B)[i] = V[i]
      BY <1>6, <1>10, Concat
    <3> QED BY <3>1, <2>2
  <2> QED BY <2>1, <2>3
<1>13. Sound(Buf, wire, E, sentu, shown)
  BY <1>6, <1>7, <1>11, <1>12 DEF Sound, c, l
<1>14. Buf' = Buf /\ wire' = wire /\ sentu' = sentu /\ shown' = shown
  BY <1>2 DEF buf, Buf
<1>15. Sound(Buf', wire', Flat(pend'), sentu', shown')
  BY <1>5, <1>13, <1>14
<1>16. Types'
  <2>1. up' = up /\ popped' = popped /\ closes' = closes /\ posted' = posted /\ acked' = acked
        /\ peer_ack' = peer_ack
    BY <1>2 DEF ours
  <2>2. sentu' \in 0 .. Len(Flat(pend'))
    BY <1>5, <1>7, <1>14
  <2> QED BY <2>1, <2>2, <1>4, <1>14, IInvFacts DEF Types
<1>17. pend' = Append(pend, m)
  BY <1>1 DEF m
<1> QED BY <1>3, <1>15, <1>16, <1>17, IInvNext

\* SendPending() at the peer.
LEMMA PeerSendIInv ==
  ASSUME IInv, PeerSend
  PROVE  IInv'
<1> DEFINE F == Flat(pend)
           room == WireCap - Len(wire)
           fits == (room \div HDR) * HDR
           left == Len(F) - sentu
           k == Least(fits, left)
<1>1. /\ F \in Seq(Unit) /\ Len(F) \in Nat /\ BufOK(Buf) /\ wire \in Seq(Unit) /\ sentu \in 0 .. Len(F)
      /\ Len(wire) \in Nat /\ Len(wire) <= WireCap /\ TotalUnits(pend) = Len(F)
  BY IInvFacts
<1>2. /\ wire' = wire \o SubSeq(F, sentu + 1, sentu + k) /\ sentu' = sentu + k
      /\ UNCHANGED <<buf, up, popped, shown, pend, ours, closes>>
  BY <1>1 DEF PeerSend
<1>3. k > 0
  BY <1>1 DEF PeerSend
<1>4. room \in Nat
  BY <1>1, Constants
<1>5. fits \in Nat /\ fits <= room
  <2> HIDE DEF room
  <2> QED BY <1>4, Divided
<1>6. k \in 0 .. left /\ k <= room /\ k \in Nat
  <2>1. left \in Nat
    BY <1>1
  <2>2. k = fits \/ k = left
    BY DEF Least
  <2>3. k <= fits /\ k <= left
    <3> HIDE DEF fits, left
    <3> QED BY <2>1, <1>5 DEF Least
  <2> HIDE DEF k, fits, left
  <2>4. k \in Nat /\ k <= room
    BY <2>1, <2>2, <2>3, <1>4, <1>5
  <2> QED BY <2>1, <2>3, <2>4
<1> HIDE DEF k, F
<1>7. /\ wire' \in Seq(Unit) /\ Len(wire') = Len(wire) + k /\ sentu' \in 0 .. Len(F)
      /\ View(Buf, wire', F, sentu') = View(Buf, wire, F, sentu)
  <2>1. k \in 0 .. Len(F) - sentu
    BY <1>6
  <2>2. /\ wire \o SubSeq(F, sentu + 1, sentu + k) \in Seq(Unit)
        /\ Len(wire \o SubSeq(F, sentu + 1, sentu + k)) = Len(wire) + k
        /\ sentu + k \in 0 .. Len(F)
        /\ View(Buf, wire \o SubSeq(F, sentu + 1, sentu + k), F, sentu + k) = View(Buf, wire, F, sentu)
    BY <2>1, <1>1, ViewSent
  <2> QED BY <2>2, <1>2
<1>8. Len(wire') <= WireCap
  BY <1>1, <1>6, <1>7, Constants
<1>9. Buf' = Buf /\ shown' = shown /\ pend' = pend
  BY <1>2 DEF buf, Buf
<1>10. Sound(Buf', wire', Flat(pend'), sentu', shown')
  <2>1. Sound(Buf, wire, F, sentu, shown)
    BY IInvFacts DEF F
  <2>2. Sound(Buf, wire', F, sentu', shown)
    BY <2>1, <1>7 DEF Sound
  <2> QED BY <2>2, <1>9 DEF F
<1>11. Types'
  <2>1. up' = up /\ popped' = popped /\ closes' = closes /\ posted' = posted /\ acked' = acked
        /\ peer_ack' = peer_ack
    BY <1>2 DEF ours
  <2>2. sentu' \in 0 .. Len(Flat(pend'))
    BY <1>7, <1>9 DEF F
  <2> QED BY <2>1, <2>2, <1>7, <1>8, <1>9, IInvFacts DEF Types
<1> QED BY <1>10, <1>11, IInvNext

\* SendHB() at the peer.
LEMMA PeerHBIInv ==
  ASSUME IInv, PeerHB
  PROVE  IInv'
<1> DEFINE F == Flat(pend)
           V == View(Buf, wire, F, sentu)
           m == HeartbeatMsg(peer_ack)
           B == Bytes(m)
<1>1. /\ F \in Seq(Unit) /\ Len(F) \in Nat /\ BufOK(Buf) /\ wire \in Seq(Unit) /\ sentu \in 0 .. Len(F)
      /\ Len(wire) \in Nat /\ Len(wire) <= WireCap /\ TotalUnits(pend) = Len(F) /\ peer_ack \in UInt
  BY IInvFacts
<1>2. m \in AnyMsg /\ IsHeartbeat(m)
  BY <1>1 DEF AnyMsg, IsHeartbeat, HeartbeatMsg
<1>3. /\ wire' = wire \o B /\ sentu = Len(F) /\ WireCap - Len(wire) >= HDR
      /\ UNCHANGED <<buf, up, popped, shown, pend, sentu, ours, closes>>
  BY <1>1 DEF PeerHB
<1> HIDE DEF m, F
<1>4. B \in Seq(Unit) /\ Len(B) = HDR
  BY <1>2, BytesOf, Sized
<1> HIDE DEF B
<1>5. wire' \in Seq(Unit) /\ Len(wire') = Len(wire) + Len(B) /\ View(Buf, wire', F, sentu) = V \o B
  <2>1. BufOK(Buf) /\ wire \in Seq(Unit) /\ F \in Seq(Unit) /\ B \in Seq(Unit)
        /\ wire' = wire \o B /\ sentu = Len(F)
    BY <1>1, <1>3, <1>4
  <2> DEFINE b == Buf
             x == wire
             y == wire'
             u == sentu
  <2>2. BufOK(b)
    BY <2>1
  <2>3. x \in Seq(Unit)
    BY <2>1
  <2>4. Followed(y, x, B)
    BY <2>1 DEF Followed
  <2>5. u = Len(F) /\ u \in 0 .. Len(F)
    BY <1>1, <2>1
  <2>6. F \in Seq(Unit) /\ B \in Seq(Unit)
    BY <2>1
  <2> HIDE DEF b, x, y, u
  <2>7. /\ y \in Seq(Unit) /\ Len(y) = Len(x) + Len(B)
        /\ Followed(View(b, y, F, u), View(b, x, F, u), B)
    BY <2>2, <2>3, <2>4, <2>5, <2>6, ViewBeat
  <2> QED BY <2>7 DEF b, x, y, u, V, Followed
<1>6. Len(wire') <= WireCap
  BY <1>1, <1>3, <1>4, <1>5, Constants
<1> DEFINE c == Buf.n - Buf.r
           l == Buf.w - Buf.r
<1>7. c \in Nat /\ l \in Nat /\ c <= l
  BY <1>1, Indices
<1>8. Framed(V, F, c, l) /\ Shown(V, shown, c)
  BY IInvFacts DEF Sound, F
<1>9. V \in Seq(Unit) /\ c \in 0 .. Len(V) /\ l \in c .. Len(V)
  <2>1. V \in Seq(Unit)
    BY <1>8 DEF Framed
  <2>2. IsView(V, Buf, wire, F, sentu)
    BY <1>1, Viewed
  <2> DEFINE k == Len(wire)
             f == Len(F) - sentu
  <2>3. Len(V) = l + k + f /\ k \in Nat /\ f \in Nat
    BY <2>2, <1>1 DEF IsView
  <2> HIDE DEF V, c, l, k, f
  <2> QED BY <2>1, <2>3, <1>7
<1> HIDE DEF V, c, l
<1>10. Framed(V \o B, F, c, l)
  <2>1. IF IsHeartbeat(m) THEN F = F ELSE F = F \o Bytes(m)
    BY <1>2
  <2> QED BY <2>1, <1>1, <1>2, <1>8, <1>9, Joined DEF B
<1>11. Shown(V \o B, shown, c)
  <2> SUFFICES ASSUME shown # NoMsg PROVE ~ IsHeartbeat(shown) /\ c > 0 /\ (V \o B)[1].msg = shown
    BY DEF Shown
  <2>1. ~ IsHeartbeat(shown) /\ c > 0 /\ V[1].msg = shown
    BY <1>8 DEF Shown
  <2>2. 1 \in 1 .. Len(V)
    BY <2>1, <1>7, <1>9
  <2>3. (V \o B)[1] = V[1]
    <3>1. \A i \in 1 .. Len(V) : (V \o B)[i] = V[i]
      BY <1>4, <1>9, Concat
    <3> QED BY <3>1, <2>2
  <2> QED BY <2>1, <2>3
<1>12. Sound(Buf, wire', F, sentu, shown)
  BY <1>1, <1>5, <1>10, <1>11 DEF Sound, c, l
<1>13. Buf' = Buf /\ sentu' = sentu /\ shown' = shown /\ pend' = pend
  BY <1>3 DEF buf, Buf
<1>14. Sound(Buf', wire', Flat(pend'), sentu', shown')
  BY <1>12, <1>13 DEF F
<1>15. Types'
  <2>1. up' = up /\ popped' = popped /\ closes' = closes /\ posted' = posted /\ acked' = acked
        /\ peer_ack' = peer_ack
    BY <1>3 DEF ours
  <2> QED BY <2>1, <1>5, <1>6, <1>13, IInvFacts DEF Types
<1> QED BY <1>14, <1>15, IInvNext

\* The peer's user pops one of our messages.
LEMMA PeerPopIInv ==
  ASSUME IInv, PeerPop
  PROVE  IInv'
<1>1. peer_ack' \in UInt
  <2>1. peer_ack \in UInt /\ peer_ack' = Add(peer_ack, 1)
    BY IInvFacts DEF PeerPop
  <2> QED BY <2>1, Constants DEF Add, UInt, UIntMod
<1>2. UNCHANGED <<buf, up, popped, shown, stream, posted, acked, closes>>
  BY DEF PeerPop
<1>3. Types'
  BY <1>1, <1>2, IInvFacts DEF Types, stream
<1> QED BY <1>2, <1>3, StreamKept

\* The callback returns without Pop().
LEMMA LeaveIInv ==
  ASSUME IInv, Leave
  PROVE  IInv'
<1>1. shown' = NoMsg /\ UNCHANGED <<buf, up, popped, stream, ours, closes>>
  BY DEF Leave
<1>2. Types'
  BY <1>1, IInvFacts DEF Types, stream, ours
<1> QED BY <1>1, <1>2, StreamKept

\* The connection is lost; what is in the buffer stays there.
LEMMA CloseIInv ==
  ASSUME IInv, Close
  PROVE  IInv'
<1>1. UNCHANGED <<buf, popped, shown, stream, ours>> /\ up' \in BOOLEAN
  BY DEF Close
<1>2. closes' \in 0 .. MaxCloses
  BY IInvFacts, Constants DEF Close
<1>3. Types'
  BY <1>1, <1>2, IInvFacts DEF Types, stream, ours
<1> QED BY <1>1, <1>3, StreamKept

\* Nothing happens.
LEMMA StutterIInv ==
  ASSUME IInv, UNCHANGED vars
  PROVE  IInv'
<1>1. UNCHANGED <<buf, stream>> /\ shown' = shown
  BY DEF vars
<1>2. Types'
  BY IInvFacts DEF vars, Types, stream, ours
<1> QED BY <1>1, <1>2, StreamKept

\* The three indices set to 0.
LEMMA IndicesReset ==
  ASSUME NEW b, BufOK(b)
  PROVE  [b EXCEPT !.w = 0, !.n = 0, !.r = 0]
           = [mem |-> b.mem, size |-> b.size, w |-> 0, n |-> 0, r |-> 0]
<1> DEFINE M == [0 .. MaxSize - 1 -> Cell]
           N == Nat
           z == 0
           b1 == [b EXCEPT !.w = z]
           b2 == [b1 EXCEPT !.n = z]
           b3 == [b2 EXCEPT !.r = z]
<1>1. b \in [mem : M, size : N, w : N, n : N, r : N] /\ z \in N
  BY DEF BufOK
<1> HIDE DEF M, N, z
<1>2. b1 \in [mem : M, size : N, w : N, n : N, r : N]
      /\ b1.mem = b.mem /\ b1.size = b.size /\ b1.w = z
  BY <1>1
<1>3. [b EXCEPT !.w = z, !.n = z, !.r = z] = b3
  OBVIOUS
<1> HIDE DEF b1
<1>4. b2 \in [mem : M, size : N, w : N, n : N, r : N]
      /\ b2.mem = b.mem /\ b2.size = b.size /\ b2.w = z /\ b2.n = z
  BY <1>1, <1>2
<1> HIDE DEF b2
<1>5. b3 = [mem |-> b.mem, size |-> b.size, w |-> z, n |-> z, r |-> z]
  <2>1. b3 = [mem |-> b2.mem, size |-> b2.size, w |-> b2.w, n |-> b2.n, r |-> z]
    BY <1>4
  <2> QED BY <2>1, <1>4
<1> QED BY <1>3, <1>5 DEF z

\* The next Open().
LEMMA OpenIInv ==
  ASSUME IInv, Open
  PROVE  IInv'
<1> DEFINE b == [Buf EXCEPT !.w = 0, !.n = 0, !.r = 0]
           e == [mem |-> Buf.mem, size |-> Buf.size, w |-> 0, n |-> 0, r |-> 0]
           F == Flat(pend)
<1>1. BufOK(Buf) /\ F \in Fresh /\ F \in Seq(Unit)
  BY IInvFacts
<1>2. b = e
  BY <1>1, IndicesReset
<1>3. SetBuf(b) /\ sentu' = 0 /\ wire' = <<>> /\ acked' = Ack(acked, peer_ack) /\ up' = TRUE
      /\ UNCHANGED <<popped, shown, pend, posted, peer_ack, closes>> /\ shown = NoMsg
  BY DEF Open
<1> HIDE DEF b
<1>4. Buf' = Clean(b)
  BY <1>3 DEF SetBuf, Buf, Clean
<1>5. e.w = 0 /\ e.n = 0 /\ e.r = 0 /\ e.size = Buf.size /\ e.mem = Buf.mem
  OBVIOUS
<1>6. BufOK(e)
  <2>1. Buf.size \in Nat /\ Buf.size <= MaxSize /\ InitSize <= Buf.size
        /\ Buf.mem \in [0 .. MaxSize - 1 -> Cell]
    BY <1>1, Indices
  <2>2. e \in [mem : [0 .. MaxSize - 1 -> Cell], size : Nat, w : Nat, n : Nat, r : Nat]
    BY <2>1
  <2>3. Buf.size % HDR = 0
    BY <1>1 DEF BufOK
  <2> HIDE DEF e
  <2> QED BY <2>1, <2>2, <2>3, <1>5 DEF BufOK
<1> HIDE DEF e, F
<1>7. Sound(b, wire', F, sentu', NoMsg)
  BY <1>1, <1>2, <1>3, <1>5, <1>6, Restarted
<1>8. wire' \in Seq(Unit) /\ Len(wire') = 0 /\ sentu' \in 0 .. Len(F)
  BY <1>1, <1>3
<1>9. Sound(Clean(b), wire', F, sentu', NoMsg)
  BY <1>1, <1>7, <1>8, CleanSound
<1>10. Sound(Buf', wire', Flat(pend'), sentu', shown')
  BY <1>3, <1>4, <1>9 DEF F
<1>11. acked' \in UInt
  BY <1>3, IInvFacts, AckType
<1>12. Len(wire') <= WireCap
  BY <1>8, Constants
<1>13. Types'
  BY <1>3, <1>8, <1>11, <1>12, IInvFacts DEF Types, F
<1> QED BY <1>10, <1>13, IInvNext

\* The first bytes are those of the oldest message; the rest is what Pop() leaves.
LEMMA OldestMessage ==
  ASSUME NEW s \in Seq(Message), Len(Flat(s)) > 0
  PROVE  /\ s # <<>> /\ Head(s) \in Message /\ Tail(s) \in Seq(Message)
         /\ Flat(s)[1].msg = Head(s)
         /\ Flat(Tail(s)) = Drop(Flat(s), RoundUp(Head(s).size))
<1> DEFINE m == Head(s)
           t == Tail(s)
           B == Bytes(m)
           G == Flat(t)
           F == Flat(s)
           d == RoundUp(m.size)
<1>1. s # <<>>
  <2>1. Len(Flat(<<>>)) = 0
    BY FlatEmpty
  <2> QED BY <2>1
<1>2. m \in Message /\ t \in Seq(Message)
  BY <1>1
<1>3. F = B \o G
  BY <1>1, FlatTail
<1>4. m \in AnyMsg
  BY <1>2 DEF AnyMsg
<1>5. G \in Seq(Unit) /\ F \in Seq(Unit)
  BY <1>2, FlatFresh
<1> HIDE DEF m, t, G, F
<1>6. /\ B \in Seq(Unit) /\ Len(B) = d /\ d \in Nat /\ d >= 1
      /\ \A i \in 1 .. d : B[i].msg = m
  BY <1>4, BytesOf, Sized
<1> HIDE DEF B, d
<1>7. /\ Len(F) = d + Len(G)
      /\ \A i \in 1 .. d : F[i] = B[i]
      /\ \A i \in 1 .. Len(G) : F[d + i] = G[i]
  <2>1. B \in Seq(Unit) /\ G \in Seq(Unit)
    BY <1>5, <1>6
  <2> DEFINE U == B \o G
  <2>2. /\ Len(U) = Len(B) + Len(G)
        /\ \A i \in 1 .. Len(B) : U[i] = B[i]
        /\ \A i \in 1 .. Len(G) : U[Len(B) + i] = G[i]
    BY <2>1, Concat
  <2> HIDE DEF U
  <2>3. U = F
    BY <1>3 DEF U
  <2> QED BY <2>2, <2>3, <1>6
<1>8. F[1].msg = m
  <2>1. 1 \in 1 .. d
    BY <1>6
  <2> QED BY <2>1, <1>6, <1>7
<1>9. G = Drop(F, d)
  <2> DEFINE D == Drop(F, d)
             g == Len(G)
  <2>1. g \in Nat /\ d \in 0 .. Len(F) /\ Len(F) - d = g
    BY <1>5, <1>6, <1>7
  <2>2. D \in Seq(Unit) /\ Len(D) = Len(F) - d /\ \A i \in 1 .. Len(F) - d : D[i] = F[i + d]
    BY <2>1, <1>5, Dropped
  <2> HIDE DEF D, g
  <2>3. ASSUME NEW i \in 1 .. g PROVE D[i] = G[i]
    <3>1. i + d = d + i
      BY <1>6, <2>1
    <3>2. D[i] = F[d + i]
      BY <3>1, <2>1, <2>2
    <3> QED BY <3>2, <1>7 DEF g
  <2>4. Len(D) = Len(G) /\ \A i \in 1 .. Len(D) : D[i] = G[i]
    BY <2>1, <2>2, <2>3 DEF g
  <2>5. D = G
    BY <2>2, <2>4, <1>5, SeqEqual
  <2> QED BY <2>5 DEF D
<1> QED BY <1>1, <1>2, <1>8, <1>9 DEF m, t, G, F, d

\* The message in the callback's hands is the oldest one, and whole in the buffer.
LEMMA InHand ==
  ASSUME IInv, shown # NoMsg
  PROVE  /\ pend # <<>> /\ shown = Head(pend) /\ shown \in Message
         /\ Flat(Tail(pend)) = Drop(Flat(pend), RoundUp(shown.size))
         /\ Tail(pend) \in Seq(Message)
         /\ RoundUp(shown.size) \in 1 .. Buf.n - Buf.r
         /\ Bound(View(Buf, wire, Flat(pend), sentu), RoundUp(shown.size))
         /\ DataOnly(View(Buf, wire, Flat(pend), sentu), 0, RoundUp(shown.size))
<1> DEFINE F == Flat(pend)
           V == View(Buf, wire, F, sentu)
           b == Buf
           x == wire
           u == sentu
<1>1. /\ BufOK(b) /\ x \in Seq(Unit) /\ F \in Fresh /\ u \in 0 .. Len(F) /\ pend \in Seq(Message)
      /\ V = View(b, x, F, u)
  BY IInvFacts
<1>2. Framed(V, F, b.n - b.r, b.w - b.r) /\ Shown(V, shown, b.n - b.r)
  BY IInvFacts DEF Sound
<1> HIDE DEF F, V, b, x, u
<1>3. ~ IsHeartbeat(V[1].msg) /\ b.n - b.r > 0 /\ V[1].msg = shown
  BY <1>2 DEF Shown
<1>4. b.r # b.n
  <2>1. b.r \in Nat /\ b.n \in Nat
    BY <1>1, Indices
  <2> QED BY <2>1, <1>3
<1>5. /\ V[1].msg \in Message /\ Len(F) > 0 /\ F[1].msg = V[1].msg
      /\ RoundUp(V[1].msg.size) <= b.n - b.r
      /\ Bound(V, RoundUp(V[1].msg.size)) /\ DataOnly(V, 0, RoundUp(V[1].msg.size))
  BY <1>1, <1>2, <1>3, <1>4, FrontMessage
<1>6. /\ pend # <<>> /\ Head(pend) \in Message /\ Tail(pend) \in Seq(Message)
      /\ F[1].msg = Head(pend)
      /\ Flat(Tail(pend)) = Drop(F, RoundUp(Head(pend).size))
  BY <1>1, <1>5, OldestMessage DEF F
<1>7. shown = Head(pend) /\ shown \in Message
  BY <1>3, <1>5, <1>6
<1>8. RoundUp(shown.size) \in 1 .. b.n - b.r
  <2> DEFINE d == RoundUp(shown.size)
             c == b.n - b.r
  <2>1. d \in Nat /\ d >= 1
    <3>1. shown \in AnyMsg
      BY <1>7 DEF AnyMsg
    <3> QED BY <3>1, Sized
  <2>2. d <= c
    BY <1>3, <1>5
  <2>3. c \in Nat
    BY <1>1, Indices
  <2> HIDE DEF d, c
  <2>4. d \in 1 .. c
    BY <2>1, <2>2, <2>3
  <2> QED BY <2>4 DEF d, c
<1>9. Bound(V, RoundUp(shown.size)) /\ DataOnly(V, 0, RoundUp(shown.size))
  BY <1>3, <1>5
<1> QED BY <1>6, <1>7, <1>8, <1>9 DEF F, V, b, x, u

\* The callback pops the message.
LEMMA PopIInv ==
  ASSUME IInv, Pop
  PROVE  IInv'
<1> DEFINE F == Flat(pend)
           b == Buf
           x == wire
           u == sentu
           V == View(b, x, F, u)
           d == RoundUp(shown.size)
           e == Popped(Buf, shown)
           E == Drop(F, d)
<1>1. /\ SetBuf(e) /\ popped' = TRUE /\ shown' = NoMsg /\ pend' = Tail(pend)
      /\ sentu' = sentu - RoundUp(Head(pend).size)
      /\ UNCHANGED <<up, wire, acked, peer_ack, closes>> /\ shown # NoMsg
      /\ posted' = IF SendFull \/ posted >= MaxReplies THEN posted ELSE Add(posted, 1)
  BY DEF Pop
<1>2. /\ pend # <<>> /\ shown = Head(pend) /\ shown \in Message
      /\ Flat(Tail(pend)) = E /\ Tail(pend) \in Seq(Message)
      /\ d \in 1 .. b.n - b.r /\ Bound(V, d) /\ DataOnly(V, 0, d)
  BY <1>1, InHand
<1>3. BufOK(b) /\ x \in Seq(Unit) /\ F \in Fresh /\ u \in 0 .. Len(F) /\ F \in Seq(Unit)
      /\ Framed(V, F, b.n - b.r, b.w - b.r) /\ V = View(b, x, F, u)
  BY IInvFacts DEF Sound
<1>4. Advanced(e, b, d)
  BY DEF Advanced, Popped
<1>5. Buf' = Clean(e)
  <2> HIDE DEF e
  <2> QED BY <1>1 DEF SetBuf, Buf, Clean
<1> HIDE DEF F, b, x, u, V, d, e
<1>6. /\ d <= u /\ BufOK(e) /\ d \in 0 .. Len(F)
      /\ Framed(View(e, x, E, u - d), E, e.n - e.r, e.w - e.r)
  BY <1>2, <1>3, <1>4, PopFramed
<1>7. E \in Seq(Unit) /\ u - d \in 0 .. Len(E)
  <2>1. E \in Seq(Unit) /\ Len(E) = Len(F) - d
    BY <1>3, <1>6, Dropped
  <2>2. u \in Nat /\ Len(F) \in Nat /\ u <= Len(F) /\ d \in Nat /\ d <= u
    BY <1>3, <1>6
  <2> HIDE DEF E
  <2> QED BY <2>1, <2>2
<1> HIDE DEF E
<1> DEFINE v == u - d
<1>8. Sound(e, x, E, v, NoMsg)
  BY <1>6 DEF Sound, Shown
<1>9. Sound(Clean(e), x, E, v, NoMsg)
  <2>1. v \in 0 .. Len(E)
    BY <1>7
  <2> HIDE DEF v
  <2> QED BY <2>1, <1>3, <1>7, <1>8, CleanSound
<1>10. sentu' = v /\ wire' = x /\ Flat(pend') = E
  BY <1>1, <1>2 DEF u, d, x
<1>11. Sound(Buf', wire', Flat(pend'), sentu', shown')
  BY <1>1, <1>5, <1>9, <1>10
<1>12. posted' \in UInt
  <2>1. posted \in UInt
    BY IInvFacts
  <2> QED BY <2>1, <1>1, Constants DEF Add, UInt, UIntMod
<1>13. Types'
  <2>1. sentu' \in 0 .. Len(Flat(pend'))
    BY <1>7, <1>10
  <2>2. pend' \in Seq(Message)
    BY <1>1, <1>2
  <2>3. up' = up /\ wire' = wire /\ acked' = acked /\ peer_ack' = peer_ack /\ closes' = closes
        /\ popped' \in BOOLEAN
    BY <1>1
  <2> QED BY <2>1, <2>2, <2>3, <1>12, IInvFacts DEF Types
<1> QED BY <1>11, <1>13, IInvNext

\* Front() returns a buffered message.
LEMMA FrontBufferedIInv ==
  ASSUME IInv, FrontBuffered
  PROVE  IInv' /\ pend # <<>> /\ shown' = Head(pend)
<1> DEFINE F == Flat(pend)
           b == SkipHeartbeats(Buf)
<1>1. /\ shown = NoMsg /\ b.r # b.n /\ popped' = FALSE /\ SetBuf(b) /\ shown' = MsgAtFront(b)
      /\ UNCHANGED <<up, stream, ours, closes>>
  BY DEF FrontBuffered
<1>2. BufOK(Buf) /\ wire \in Seq(Unit) /\ F \in Fresh /\ F \in Seq(Unit) /\ sentu \in 0 .. Len(F)
      /\ pend \in Seq(Message)
  BY IInvFacts
<1>3. Framed(View(Buf, wire, F, sentu), F, Buf.n - Buf.r, Buf.w - Buf.r)
  BY IInvFacts DEF Sound
<1>4. Settled(b, wire, F, sentu)
  <2> HIDE DEF F
  <2> QED BY <1>2, <1>3, SkipSettles
<1> HIDE DEF b, F
<1>5. /\ MsgAtFront(b) \in Message /\ Len(F) > 0 /\ F[1].msg = MsgAtFront(b)
      /\ Sound(b, wire, F, sentu, MsgAtFront(b))
  BY <1>1, <1>2, <1>4, FrontShows
<1>6. Sound(Clean(b), wire, F, sentu, shown')
  BY <1>1, <1>2, <1>5, CleanSound
<1>7. Buf' = Clean(b) /\ wire' = wire /\ pend' = pend /\ sentu' = sentu
  BY <1>1 DEF SetBuf, Buf, Clean, stream
<1>8. Sound(Buf', wire', Flat(pend'), sentu', shown')
  BY <1>6, <1>7 DEF F
<1>9. Types'
  BY <1>1, IInvFacts DEF Types, stream, ours
<1>10. pend # <<>> /\ F[1].msg = Head(pend)
  BY <1>2, <1>5, OldestMessage DEF F
<1> QED BY <1>1, <1>5, <1>8, <1>9, <1>10, IInvNext

\* Front() receives k units.
LEMMA FrontRecvIInv ==
  ASSUME IInv, NEW k \in Nat, FrontRecv(k)
  PROVE  IInv' /\ (shown' = NoMsg \/ (pend # <<>> /\ shown' = Head(pend)))
<1> DEFINE F == Flat(pend)
           y == SubSeq(wire, k + 1, Len(wire))
<1>1. PICK b0 \in {SkipHeartbeats(Buf)} :
        LET b == Rewound(b0)
            room == Writable(b) + ExtraSize(b)
        IN  /\ k \in IF up /\ room > 0 /\ wire # <<>> THEN 1 .. Least(Len(wire), room) ELSE {0}
            /\ \E done \in {Received(b, k)} :
                 /\ SetBuf(done.b)
                 /\ acked' = done.acked
                 /\ up' = done.up
                 /\ shown' = IF done.b.r # done.b.n /\ done.up = up THEN MsgAtFront(done.b) ELSE NoMsg
  BY DEF FrontRecv
<1> DEFINE b == Rewound(b0)
           room == Writable(b) + ExtraSize(b)
           done == Received(b, k)
           d == done.b
<1>2. b0 = SkipHeartbeats(Buf)
  BY <1>1
<1>3. /\ SetBuf(d) /\ acked' = done.acked /\ up' = done.up
      /\ shown' = IF d.r # d.n /\ done.up = up THEN MsgAtFront(d) ELSE NoMsg
  BY <1>1
<1>4. k \in IF up /\ room > 0 /\ wire # <<>> THEN 1 .. Least(Len(wire), room) ELSE {0}
  BY <1>1
<1>5. /\ wire' = y /\ UNCHANGED <<popped, pend, sentu, posted, peer_ack, closes>>
  BY DEF FrontRecv
<1>6. BufOK(Buf) /\ wire \in Seq(Unit) /\ F \in Fresh /\ F \in Seq(Unit) /\ sentu \in 0 .. Len(F)
      /\ pend \in Seq(Message) /\ acked \in UInt /\ up \in BOOLEAN /\ Len(wire) \in Nat
  BY IInvFacts
<1>7. Framed(View(Buf, wire, F, sentu), F, Buf.n - Buf.r, Buf.w - Buf.r)
  BY IInvFacts DEF Sound
<1> HIDE DEF F
<1>8. Settled(b0, wire, F, sentu)
  BY <1>2, <1>6, <1>7, SkipSettles
<1>9. Settled(b, wire, F, sentu)
  BY <1>6, <1>8, RewindSettles
<1> HIDE DEF b
<1>10. k \in 0 .. Len(wire) /\ k <= Writable(b) + ExtraSize(b)
  <2>1. BufOK(b)
    BY <1>9 DEF Settled
  <2>2. room \in Nat
    BY <2>1, Room
  <2>3. k = 0 \/ (k >= 1 /\ k <= Least(Len(wire), room))
    BY <1>4
  <2> DEFINE q == Len(wire)
  <2>4. q \in Nat /\ (k = 0 \/ (k >= 1 /\ k <= Least(q, room)))
    BY <2>3, <1>6
  <2> HIDE DEF q, room
  <2>5. k <= q /\ k <= room
    BY <2>2, <2>4 DEF Least
  <2>6. k \in 0 .. q /\ k <= room
    BY <2>2, <2>4, <2>5
  <2> QED BY <2>6 DEF q, room
<1>11. Settled(d, y, F, sentu) /\ done.acked \in UInt /\ done.up \in BOOLEAN
  BY <1>6, <1>9, <1>10, ReceiveSettles
<1>12. y \in Seq(Unit) /\ Len(y) = Len(wire) - k
  BY <1>6, <1>10, Arrived
<1> HIDE DEF d, done, y, room
<1>13. /\ Sound(d, y, F, sentu, shown')
       /\ shown' = NoMsg \/ (pend # <<>> /\ shown' = Head(pend))
  <2>1. CASE d.r # d.n /\ done.up = up
    <3>1. /\ Len(F) > 0 /\ F[1].msg = MsgAtFront(d) /\ Sound(d, y, F, sentu, MsgAtFront(d))
      BY <2>1, <1>6, <1>11, <1>12, FrontShows
    <3>2. pend # <<>> /\ F[1].msg = Head(pend)
      BY <3>1, <1>6, OldestMessage DEF F
    <3> QED BY <3>1, <3>2, <2>1, <1>3
  <2>2. CASE ~ (d.r # d.n /\ done.up = up)
    <3>1. shown' = NoMsg
      BY <2>2, <1>3
    <3>2. Sound(d, y, F, sentu, NoMsg)
      BY <1>11, SettledSound
    <3> QED BY <3>1, <3>2
  <2> QED BY <2>1, <2>2
<1>14. Sound(Clean(d), y, F, sentu, shown')
  BY <1>6, <1>12, <1>13, CleanSound
<1>15. Buf' = Clean(d)
  BY <1>3 DEF SetBuf, Buf, Clean
<1>16. Sound(Buf', wire', Flat(pend'), sentu', shown')
  BY <1>5, <1>14, <1>15 DEF F
<1>17. Types'
  <2>1. Len(y) <= WireCap
    <3>1. Len(wire) \in Nat /\ Len(wire) <= WireCap
      BY IInvFacts
    <3> QED BY <3>1, <1>12, Constants
  <2> QED BY <2>1, <1>3, <1>5, <1>11, <1>12, IInvFacts DEF Types
<1> QED BY <1>13, <1>16, <1>17, IInvNext

\* The inductive step.
LEMMA NextIInv == IInv /\ [Next]_vars => IInv'
<1> SUFFICES ASSUME IInv, [Next]_vars PROVE IInv'
  OBVIOUS
<1>1. CASE \E s \in Sizes : PeerPush(s)
  BY <1>1, PeerPushIInv
<1>2. CASE PeerSend
  BY <1>2, PeerSendIInv
<1>3. CASE PeerHB
  BY <1>3, PeerHBIInv
<1>4. CASE PeerPop
  BY <1>4, PeerPopIInv
<1>5. CASE FrontBuffered
  BY <1>5, FrontBufferedIInv
<1>6. CASE \E k \in 0 .. WireCap : FrontRecv(k)
  <2>1. PICK k \in 0 .. WireCap : FrontRecv(k)
    BY <1>6
  <2>2. k \in Nat
    BY Constants
  <2> QED BY <2>1, <2>2, FrontRecvIInv
<1>7. CASE Pop
  BY <1>7, PopIInv
<1>8. CASE Leave
  BY <1>8, LeaveIInv
<1>9. CASE Close
  BY <1>9, CloseIInv
<1>10. CASE Open
  BY <1>10, OpenIInv
<1>11. CASE UNCHANGED vars
  BY <1>11, StutterIInv
<1> QED
  BY <1>1, <1>2, <1>3, <1>4, <1>5, <1>6, <1>7, <1>8, <1>9, <1>10, <1>11 DEF Next

\* The inductive invariant of the receive buffer: what is unread, what is in flight
\* and what the peer has still to send are one stream of whole messages, cut
\* correctly at nextmsg_idx_ and in host byte order as far as it was looked at.
THEOREM RecvInvariant == Spec => []IInv
<1>1. IInv /\ [Next]_vars => IInv'
  BY NextIInv
<1> QED BY <1>1, InitIInv, PTL DEF Spec

-----------------------------------------------------------------------------
(* What the invariant says.                                                *)

\* The type invariant follows.
LEMMA TypeOKFollows == IInv => TypeOK
<1> HAVE IInv
<1>1. BufOK(Buf)
  BY IInvFacts
<1>2. size \in Nat /\ w \in Nat /\ n \in Nat /\ r \in Nat /\ r <= n /\ n <= w /\ w <= size
      /\ size <= MaxSize /\ InitSize <= size
  BY <1>1, Indices, BufFields
<1>3. size % HDR = 0
  BY <1>1, BufFields DEF BufOK
<1>4. shown \in Message \cup {NoMsg}
  BY InHand
<1>5. size \in InitSize .. MaxSize /\ 0 <= r
  BY <1>2, Constants
<1>6. /\ up \in BOOLEAN /\ popped \in BOOLEAN /\ pend \in Seq(Message)
      /\ sentu \in 0 .. TotalUnits(pend) /\ Len(wire) <= WireCap
      /\ posted \in UInt /\ acked \in UInt /\ peer_ack \in UInt /\ closes \in 0 .. MaxCloses
  BY IInvFacts
<1>7. {up, popped} \subseteq BOOLEAN /\ {posted, acked, peer_ack} \subseteq UInt
  BY <1>6
<1> QED BY <1>2, <1>3, <1>4, <1>5, <1>6, <1>7 DEF TypeOK

\* Every variable keeps its range, and 0 <= readidx_ <= nextmsg_idx_ <= writeidx_
\* <= recvbuf_size_ <= TcpRecvBufMaxSize, whatever is received: DoRecv() never
\* writes beyond the end of the buffer.
THEOREM RecvTypeOK == Spec => []TypeOK
BY RecvInvariant, TypeOKFollows, PTL

\* The byte order follows.
LEMMA HostOrderFollows == IInv => HostOrder
<1> HAVE IInv
<1> DEFINE F == Flat(pend)
           V == View(Buf, wire, F, sentu)
           c == n - r
           l == w - r
           k == Len(wire)
           f == Len(F) - sentu
<1>1. BufOK(Buf) /\ wire \in Seq(Unit) /\ F \in Seq(Unit) /\ sentu \in 0 .. Len(F)
  BY IInvFacts
<1>2. V \in Seq(Unit) /\ Chain(V) /\ Bound(V, c) /\ Host(V, c, l)
  <2>1. Framed(V, F, Buf.n - Buf.r, Buf.w - Buf.r)
    BY IInvFacts DEF Sound
  <2> HIDE DEF V, F
  <2> QED BY <2>1, BufFields DEF Framed
<1>3. w \in Nat /\ n \in Nat /\ r \in Nat /\ c \in Nat /\ l \in Nat /\ c <= l /\ n = r + c /\ w = r + l
  <2>1. w \in Nat /\ n \in Nat /\ r \in Nat /\ r <= n /\ n <= w
    BY <1>1, Indices, BufFields
  <2> QED BY <2>1
<1>4. Len(V) = l + k + f /\ k \in Nat /\ f \in Nat /\ \A i \in 1 .. l : V[i] = mem[r + i - 1]
  <2>1. IsView(V, Buf, wire, F, sentu)
    BY <1>1, Viewed
  <2>2. k \in Nat /\ f \in Nat
    BY <1>1
  <2> HIDE DEF V, F
  <2> QED BY <2>1, <2>2, BufFields DEF IsView
<1> HIDE DEF F, V, c, l, k, f
<1>5. l <= Len(V) /\ Len(V) \in Nat /\ c \in 0 .. Len(V)
  <2>1. Len(V) = l + k + f /\ k \in Nat /\ f \in Nat
    BY <1>4
  <2> QED BY <2>1, <1>3
<1>6. n < w => mem[n].pos = 0
  <2> HAVE n < w
  <2>1. c < l /\ c + 1 \in 1 .. l /\ r + (c + 1) - 1 = n /\ c < Len(V)
    BY <1>3, <1>5
  <2>2. V[c + 1] = mem[n]
    BY <2>1, <1>4
  <2>3. V[c + 1].pos = 0
    BY <2>1, <1>2, <1>5, ChainNext
  <2> QED BY <2>2, <2>3
<1>7. ASSUME NEW i \in r .. w - 1
      PROVE  LET start == i - mem[i].pos
             IN  mem[i].host <=> mem[i].pos < HDR /\ start + HDR <= w /\ start <= n
  <2> DEFINE j == i - r + 1
             p == V[j].pos
             st == Start(V, j)
             z == Size(V[j])
  <2>1. j \in 1 .. l /\ r + j - 1 = i /\ j \in 1 .. Len(V)
    BY <1>3, <1>5
  <2> HIDE DEF j
  <2>2. mem[i] = V[j] /\ V[j] \in Unit
    BY <2>1, <1>2, <1>4
  <2>3. p \in Nat /\ z \in Nat /\ z >= HDR
    BY <2>2, Units
  <2>4. st = j - 1 - p
    BY DEF Start
  <2>5. V[j].host <=> p < HDR /\ (st < c \/ (st = c /\ c + HDR <= l))
    BY <2>1, <1>2 DEF Host
  <2>6. st < c => st + z <= c
    <3> HAVE st < c
    <3>1. CASE j \in c + 1 .. Len(V)
      <4>1. st >= c
        BY <3>1, <1>2, <1>5, ChainFrom
      <4> HIDE DEF st, p
      <4> QED BY <4>1, <2>1, <2>3, <2>4, <1>3
    <3>2. CASE j \in 1 .. c
      BY <3>2, <1>2, <1>5, ChainBefore
    <3> QED BY <3>1, <3>2, <2>1, <1>3
  <2> HIDE DEF st, p, z
  <2>7. i - p = st + r /\ st \in Int
    BY <2>1, <2>3, <2>4, <1>3
  <2>8. (st < c \/ (st = c /\ c + HDR <= l)) <=> (i - p) + HDR <= w /\ i - p <= n
    BY <2>3, <2>6, <2>7, <1>3, Constants
  <2>9. mem[i].pos = p
    BY <2>2 DEF p
  <2> QED BY <2>2, <2>5, <2>8, <2>9
<1> QED BY <1>6, <1>7 DEF HostOrder

\* MsgHeader::ConvertByteOrder() is called exactly once for each header, as soon as
\* all of it is there, however the receives cut the stream.
THEOREM RecvHostOrder == Spec => []HostOrder
BY RecvInvariant, HostOrderFollows, PTL

\* The bytes s are the first q bytes of the stream V.
Begins(s, V, q) ==
  /\ s \in Seq(Unit) /\ Len(s) = q
  /\ \A i \in 1 .. q : s[i] = V[i]

\* What OnWire() gives, for a stream that matches the messages.
LEMMA OnWireIs ==
  ASSUME NEW V \in Seq(Unit), NEW F \in Fresh, NEW at, Counts(V, F, at),
         NEW s, NEW q \in 0 .. Len(V), Begins(s, V, q)
  PROVE  OnWire(s) = SubSeq(F, 1, at[q])
<1> s \in Seq(Unit) /\ Len(s) = q /\ \A i \in 1 .. q : s[i] = V[i]
  BY DEF Begins
<1> DEFINE Body(f) == [i \in 0 .. Len(s) |->
                         IF i = 0 THEN <<>>
                         ELSE IF IsHeartbeat(s[i].msg) THEN f[i - 1]
                         ELSE Append(f[i - 1], [s[i] EXCEPT !.host = FALSE])]
           data == CHOOSE f : f = Body(f)
           g == [i \in 0 .. Len(s) |-> SubSeq(F, 1, at[i])]
<1>1. q \in Nat /\ F \in Seq(Unit) /\ Len(F) \in Nat /\ (\A i \in 0 .. q : at[i] \in 0 .. Len(F))
  <2>1. F \in Seq(Unit)
    BY DEF Fresh
  <2>2. at \in [0 .. Len(V) -> 0 .. Len(F)]
    BY DEF Counts
  <2>3. \A i \in 0 .. q : i \in 0 .. Len(V)
    OBVIOUS
  <2>4. \A i \in 0 .. q : at[i] \in 0 .. Len(F)
    BY <2>2, <2>3
  <2>5. q \in Nat /\ Len(F) \in Nat
    BY <2>1
  <2> QED BY <2>1, <2>4, <2>5
<1>2. at[0] = 0
  BY DEF Counts
<1>3. ASSUME NEW i \in 1 .. q
      PROVE  SubSeq(F, 1, at[i]) = IF IsHeartbeat(s[i].msg) THEN SubSeq(F, 1, at[i - 1])
                                   ELSE Append(SubSeq(F, 1, at[i - 1]), [s[i] EXCEPT !.host = FALSE])
  <2>1. s[i] = V[i] /\ i \in 1 .. Len(V) /\ i - 1 \in 0 .. q /\ i \in 0 .. q
    OBVIOUS
  <2>2. IF IsHeartbeat(V[i].msg) THEN at[i] = at[i - 1]
        ELSE at[i] = at[i - 1] + 1 /\ V[i].msg = F[at[i]].msg /\ V[i].pos = F[at[i]].pos
    BY <2>1 DEF Counts
  <2>3. CASE IsHeartbeat(s[i].msg)
    BY <2>1, <2>2, <2>3
  <2>4. CASE ~ IsHeartbeat(s[i].msg)
    <3> DEFINE a == at[i - 1]
               e == at[i]
               no == FALSE
               t == V[i]
    <3>1. e = a + 1 /\ a \in Nat /\ e \in 1 .. Len(F)
      BY <2>1, <2>2, <2>4, <1>1
    <3>2. t.msg = F[e].msg /\ t.pos = F[e].pos /\ t \in Unit /\ F[e] \in Unit /\ ~ F[e].host
      <4>1. \A j \in 1 .. Len(F) : ~ F[j].host
        BY DEF Fresh
      <4> QED BY <4>1, <3>1, <2>1, <2>2, <2>4, <1>1
    <3>3. [t EXCEPT !.host = no] = [msg |-> t.msg, pos |-> t.pos, host |-> no]
      <4> DEFINE BB == BOOLEAN
      <4>1. t \in [msg : AnyMsg, pos : Nat, host : BB]
        BY <3>2 DEF Unit
      <4> HIDE DEF BB, no, t
      <4> QED BY <4>1
    <3>4. F[e] = [msg |-> F[e].msg, pos |-> F[e].pos, host |-> no]
      <4>1. F[e] = [msg |-> F[e].msg, pos |-> F[e].pos, host |-> F[e].host] /\ F[e].host \in BOOLEAN
        BY <3>2, Units
      <4>2. F[e].host = no
        BY <4>1, <3>2
      <4> QED BY <4>1, <4>2
    <3>5. [t EXCEPT !.host = no] = F[e]
      <4> HIDE DEF t, e
      <4> QED BY <3>2, <3>3, <3>4
    <3>6. SubSeq(F, 1, e) = Append(SubSeq(F, 1, a), F[e])
      <4> HIDE DEF a, e
      <4>1. a \in 0 .. Len(F) - 1 /\ e \in 0 .. Len(F) /\ a \in 0 .. Len(F)
        BY <3>1, <1>1
      <4> DEFINE A == SubSeq(F, 1, a)
                 E == SubSeq(F, 1, e)
                 P == Append(A, F[e])
      <4>2. A \in Seq(Unit) /\ Len(A) = a /\ \A j \in 1 .. a : A[j] = F[j]
        BY <4>1, <1>1, Arrived
      <4>3. E \in Seq(Unit) /\ Len(E) = e /\ \A j \in 1 .. e : E[j] = F[j]
        BY <4>1, <1>1, Arrived
      <4> HIDE DEF A, E
      <4>4. P \in Seq(Unit) /\ Len(P) = a + 1 /\ (\A j \in 1 .. a : P[j] = A[j]) /\ P[a + 1] = F[e]
        BY <4>2, <3>2
      <4> HIDE DEF P
      <4>5. ASSUME NEW j \in 1 .. e PROVE E[j] = P[j]
        <5>1. CASE j \in 1 .. a
          BY <5>1, <4>2, <4>3, <4>4
        <5>2. CASE j = a + 1
          BY <5>2, <3>1, <4>3, <4>4
        <5> QED BY <5>1, <5>2, <3>1
      <4>6. E = P
        <5>1. Len(E) = Len(P) /\ \A j \in 1 .. Len(E) : E[j] = P[j]
          BY <4>3, <4>4, <4>5, <3>1
        <5> QED BY <5>1, <4>3, <4>4, SeqEqual
      <4> QED BY <4>6 DEF A, E, P
    <3> QED BY <3>5, <3>6, <2>1, <2>4
  <2> QED BY <2>3, <2>4
<1>4. SubSeq(F, 1, at[0]) = <<>>
  BY <1>1, <1>2
<1>5. g = Body(g)
  <2>1. ASSUME NEW i \in 0 .. q
        PROVE  g[i] = IF i = 0 THEN <<>>
                      ELSE IF IsHeartbeat(s[i].msg) THEN g[i - 1]
                      ELSE Append(g[i - 1], [s[i] EXCEPT !.host = FALSE])
    <3>1. CASE i = 0
      BY <3>1, <1>1, <1>4
    <3>2. CASE i # 0
      <4>1. i \in 1 .. q /\ i - 1 \in 0 .. q
        BY <3>2, <1>1
      <4>2. g[i] = SubSeq(F, 1, at[i]) /\ g[i - 1] = SubSeq(F, 1, at[i - 1])
        BY <4>1
      <4> QED BY <4>1, <4>2, <3>2, <1>3
    <3> QED BY <3>1, <3>2
  <2>2. g = [i \in 0 .. q |-> g[i]]
    OBVIOUS
  <2> HIDE DEF g
  <2> QED BY <2>1, <2>2
<1>6. data = Body(data)
  <2> HIDE DEF Body, g
  <2> QED BY <1>5
<1>7. OnWire(s) = data[q]
  <2>1. OnWire(s) = data[Len(s)]
    BY Zenon DEF OnWire
  <2> HIDE DEF data
  <2> QED BY <2>1
<1> HIDE DEF data
<1>8. /\ data[0] = <<>>
      /\ \A i \in 1 .. q : data[i] = IF IsHeartbeat(s[i].msg) THEN data[i - 1]
                                     ELSE Append(data[i - 1], [s[i] EXCEPT !.host = FALSE])
  <2>1. 0 \in 0 .. q /\ \A i \in 1 .. q : i \in 0 .. q /\ i # 0
    BY <1>1
  <2>2. data = [i \in 0 .. q |->
                         IF i = 0 THEN <<>>
                         ELSE IF IsHeartbeat(s[i].msg) THEN data[i - 1]
                         ELSE Append(data[i - 1], [s[i] EXCEPT !.host = FALSE])]
    BY <1>6
  <2> QED BY <2>1, <2>2
<1>9. \A k \in 0 .. q : data[k] = SubSeq(F, 1, at[k])
  <2> DEFINE T == {k \in 0 .. q : data[k] = SubSeq(F, 1, at[k])}
  <2>1. 0 \in T
    <3>1. 0 \in 0 .. q
      BY <1>1
    <3>2. data[0] = SubSeq(F, 1, at[0])
      BY <1>4, <1>8
    <3> QED BY <3>1, <3>2
  <2>2. ASSUME NEW k \in 0 .. q - 1, k \in T PROVE k + 1 \in T
    <3> DEFINE i == k + 1
    <3>1. i \in 1 .. q /\ i \in 0 .. q /\ i - 1 = k
      BY <1>1
    <3> HIDE DEF i
    <3>2. data[i - 1] = SubSeq(F, 1, at[i - 1])
      BY <3>1, <2>2
    <3>3. data[i] = SubSeq(F, 1, at[i])
      BY <3>1, <3>2, <1>3, <1>8
    <3> QED BY <3>1, <3>3 DEF i
  <2>3. \A k \in 0 .. q : k \in T
    <3> HIDE DEF T
    <3> QED BY <1>1, <2>1, <2>2, UpTo
  <2> QED BY <2>3
<1>10. q \in 0 .. q
  BY <1>1
<1> QED BY <1>7, <1>9, <1>10

\* The bytes follow.
LEMMA IntactFollows == IInv => Intact
<1> HAVE IInv
<1> DEFINE F == Flat(pend)
           V == View(Buf, wire, F, sentu)
           l == w - r
           k == Len(wire)
           f == Len(F) - sentu
           s == Unread \o wire
<1>1. BufOK(Buf) /\ wire \in Seq(Unit) /\ F \in Seq(Unit) /\ sentu \in 0 .. Len(F) /\ F \in Fresh
  BY IInvFacts
<1>2. V \in Seq(Unit) /\ Match(V, F)
  <2>1. Framed(V, F, Buf.n - Buf.r, Buf.w - Buf.r)
    BY IInvFacts DEF Sound
  <2> HIDE DEF V, F
  <2> QED BY <2>1 DEF Framed
<1>3. IsView(V, Buf, wire, F, sentu) /\ l = Buf.w - Buf.r
  BY <1>1, Viewed, BufFields
<1>4. l \in Nat /\ k \in Nat /\ f \in Nat
  BY <1>1, <1>3, Indices
<1>5. Unread = [i \in 1 .. l |-> mem[r + i - 1]]
  BY DEF Unread
<1> HIDE DEF F, V, l, k, f
<1>6. /\ Len(V) = l + k + f
      /\ \A i \in 1 .. l : V[i] = mem[r + i - 1]
      /\ \A i \in 1 .. k : V[l + i] = wire[i]
  BY <1>3, BufFields DEF IsView, k, f
<1>7. Unread \in Seq(Unit) /\ Len(Unread) = l /\ \A i \in 1 .. l : Unread[i] = V[i]
  <2>1. \A i \in 1 .. l : i \in 1 .. Len(V)
    BY <1>4, <1>6
  <2>2. \A i \in 1 .. l : mem[r + i - 1] \in Unit
    BY <2>1, <1>2, <1>6
  <2>3. Unread \in [1 .. l -> Unit]
    BY <2>2, <1>5
  <2>4. Unread \in Seq(Unit) /\ Len(Unread) = l
    BY <2>3, <1>4
  <2> QED BY <2>4, <1>5, <1>6
<1>8. s \in Seq(Unit) /\ Len(s) = l + k /\ \A i \in 1 .. l + k : s[i] = V[i]
  <2> DEFINE U == Unread
             x == wire
  <2>1. U \in Seq(Unit) /\ x \in Seq(Unit)
    BY <1>1, <1>7
  <2>2. Len(U) = l /\ Len(x) = k
    BY <1>7 DEF k
  <2> HIDE DEF U, x
  <2>3. /\ U \o x \in Seq(Unit) /\ Len(U \o x) = Len(U) + Len(x)
        /\ \A i \in 1 .. Len(U) : (U \o x)[i] = U[i]
        /\ \A i \in 1 .. Len(x) : (U \o x)[Len(U) + i] = x[i]
    BY <2>1, Concat
  <2>4. s = U \o x
    BY DEF U, x
  <2> HIDE DEF s
  <2>5. /\ s \in Seq(Unit) /\ Len(s) = l + k
        /\ \A i \in 1 .. l : s[i] = U[i]
        /\ \A i \in 1 .. k : s[l + i] = x[i]
    BY <2>2, <2>3, <2>4
  <2>6. ASSUME NEW i \in 1 .. l + k PROVE s[i] = V[i]
    <3>1. CASE i \in 1 .. l
      BY <3>1, <2>5, <1>7 DEF U
    <3>2. CASE i > l
      <4>1. PICK j \in 1 .. k : i = l + j
        BY <3>2, <1>4
      <4> QED BY <4>1, <2>5, <1>6 DEF x
    <3> QED BY <3>1, <3>2, <1>4
  <2> QED BY <2>5, <2>6
<1> HIDE DEF s
<1>9. PICK at : Counts(V, F, at)
  BY <1>2 DEF Match
<1> DEFINE q == l + k
<1>10. at[q] = sentu
  <2>1. at[(Buf.w - Buf.r) + Len(wire)] = sentu
    BY <1>1, <1>2, <1>3, <1>9, SentCount
  <2> QED BY <2>1, <1>3 DEF k
<1>11. q \in 0 .. Len(V)
  BY <1>4, <1>6
<1>12. Begins(s, V, q)
  BY <1>8 DEF Begins
<1> HIDE DEF q
<1>13. OnWire(s) = SubSeq(F, 1, at[q])
  <2>1. V \in Seq(Unit) /\ F \in Fresh
    BY <1>1, <1>2
  <2> QED BY <2>1, <1>9, <1>11, <1>12, OnWireIs
<1> QED BY <1>10, <1>13 DEF Intact, s, F

\* No byte is lost, doubled or displaced, whatever the sizes of the buffer, of
\* stackbuf and of the receives: the unread bytes and those in flight are exactly
\* what the peer has sent of the messages that were not popped.
THEOREM RecvIntact == Spec => []Intact
BY RecvInvariant, IntactFollows, PTL

\* Every step is one of the abstract queue, or nothing to it.
LEMMA FifoStep == IInv /\ [Next]_vars => [Fifo!Next]_Fifo!fifoVars
<1> SUFFICES ASSUME IInv, [Next]_vars PROVE [Fifo!Next]_Fifo!fifoVars
  OBVIOUS
<1> USE DEF Fifo!Next, Fifo!fifoVars
<1>1. CASE \E s \in Sizes : PeerPush(s)
  <2>1. PICK s \in Sizes : PeerPush(s)
    BY <1>1
  <2>2. \E m \in Message : pend' = Append(pend, m)
    BY <2>1, PeerPushIInv
  <2>3. shown' = shown
    BY <2>1 DEF PeerPush
  <2> QED BY <2>2, <2>3 DEF Fifo!Push
<1>2. CASE PeerSend \/ PeerHB \/ PeerPop \/ Close \/ Open \/ UNCHANGED vars
  <2>1. pend' = pend /\ shown' = shown
    BY <1>2 DEF PeerSend, PeerHB, PeerPop, Close, Open, vars, stream
  <2> QED BY <2>1
<1>3. CASE FrontBuffered
  <2>1. pend' = pend /\ shown = NoMsg
    BY <1>3 DEF FrontBuffered, stream
  <2>2. pend # <<>> /\ shown' = Head(pend)
    BY <1>3, FrontBufferedIInv
  <2> QED BY <2>1, <2>2 DEF Fifo!Front
<1>4. CASE \E k \in 0 .. WireCap : FrontRecv(k)
  <2>1. PICK k \in 0 .. WireCap : FrontRecv(k)
    BY <1>4
  <2>2. k \in Nat
    BY Constants
  <2>3. pend' = pend /\ shown = NoMsg
    BY <2>1 DEF FrontRecv
  <2>4. shown' = NoMsg \/ (pend # <<>> /\ shown' = Head(pend))
    BY <2>1, <2>2, FrontRecvIInv
  <2> QED BY <2>3, <2>4 DEF Fifo!Front
<1>5. CASE Pop
  <2>1. pend' = Tail(pend) /\ shown' = NoMsg /\ shown # NoMsg
    BY <1>5 DEF Pop
  <2>2. pend # <<>> /\ shown = Head(pend)
    BY <2>1, InHand
  <2> QED BY <2>1, <2>2 DEF Fifo!Pop
<1>6. CASE Leave
  <2>1. shown # NoMsg /\ shown' = NoMsg /\ pend' = pend
    BY <1>6 DEF Leave, stream
  <2> QED BY <2>1 DEF Fifo!Leave
<1> QED BY <1>1, <1>2, <1>3, <1>4, <1>5, <1>6 DEF Next

\* The receive buffer implements the abstract queue: Front() shows the peer's
\* messages whole, once and in order, across receives cut anywhere, heartbeats,
\* moves and expansions of the buffer, and reconnects.
THEOREM RecvImplementsFifo == Spec => ImplementsFifo
<1>1. Init => Fifo!Init
  BY DEF Init, Fifo!Init
<1>2. IInv /\ [Next]_vars => [Fifo!Next]_Fifo!fifoVars
  BY FifoStep
<1>3. Spec => Fifo!Spec
  BY <1>1, <1>2, RecvInvariant, PTL DEF Spec, Fifo!Spec
<1> QED BY <1>3 DEF ImplementsFifo

=============================================================================
