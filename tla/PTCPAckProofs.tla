---------------------------- MODULE PTCPAckProofs ----------------------------
(***************************************************************************)
(* What the invariant of a session over TCP says of it, and when the       *)
(* hypothesis of RecentInvariant holds: as long as no side has pushed half *)
(* of the range of sequence numbers, no acknowledgement can be that old.   *)
(***************************************************************************)
EXTENDS PTCPSessionProofs

-----------------------------------------------------------------------------
(* What the invariant implies.                                             *)

\* The queue of an end is intact.
LEMMA IntactQueue ==
  ASSUME NEW q \in Queues, NEW p \in UInt, QueueInv(q, p), NEW i \in q.read_idx .. q.write_idx - 1
  PROVE  LET b == q.blk[i]
             h == q.blk[i - b.part]
             last == b.part + 1 = h.len
         IN  /\ b.part \in 0 .. i - q.read_idx
             /\ h.part = 0 /\ h.id = b.id /\ b.part < h.len
             /\ i = q.read_idx => b.id = q.read_seq
             /\ IF i + 1 < q.write_idx
                THEN /\ q.blk[i + 1].part = IF last THEN 0 ELSE b.part + 1
                     /\ q.blk[i + 1].id = IF last THEN Add(b.id, 1) ELSE b.id
                ELSE last /\ Add(b.id, 1) = p
<1> DEFINE part_ == q.blk[i].part
           g == i - part_
           len == q.blk[g].len
<1>0. i \in Int /\ i \in 0 .. BLK_CNT - 1 /\ q.read_idx \in Int /\ q.write_idx \in Int
  BY UsedBlock, QueueFields
<1>1. /\ g \in q.read_idx .. i /\ i < g + len /\ WholeAt(q, p, g) /\ g + len <= q.write_idx
      /\ q.blk[g].id = q.blk[i].id /\ q.blk[g].part = 0
  <2>1. q.blk[g].part = 0
    BY DEF QueueInv
  <2> QED BY <2>1, BlockOfMessage
<1>2. part_ \in 0 .. BLK_CNT
  BY <1>0, QueueFields
<1>3. g \in 0 .. BLK_CNT - 1 /\ len \in 0 .. BLK_CNT
  <2>1. g \in Int /\ g >= q.read_idx /\ g <= i
    BY <1>1, <1>0
  <2>2. g \in 0 .. BLK_CNT - 1
    <3> HIDE DEF g
    <3> QED BY <2>1, <1>0, QueueFields, Widths
  <2> QED BY <2>2, QueueFields
<1>4. /\ \A j \in g .. g + len - 1 : q.blk[j].part = j - g /\ q.blk[j].id = q.blk[g].id
      /\ Starts(q, p, g + len, Add(q.blk[g].id, 1))
  <2>1. WholeAt(q, p, g) /\ len = q.blk[g].len
    BY <1>1
  <2>2. g \in Int /\ len \in Int
    BY <1>3
  <2> HIDE DEF g, len
  <2>3. \A j \in g .. g + len - 1 : q.blk[j].part = j - g /\ q.blk[j].id = q.blk[g].id
    BY <2>1, <2>2 DEF WholeAt
  <2>4. Starts(q, p, g + len, Add(q.blk[g].id, 1))
    BY <2>1, <2>2 DEF WholeAt
  <2> QED BY <2>3, <2>4
<1>5. part_ = i - g /\ part_ < len /\ part_ \in 0 .. i - q.read_idx
  BY <1>0, <1>1, <1>2, <1>3
<1>6. i = q.read_idx => q.blk[i].id = q.read_seq
  <2>1. Starts(q, p, q.read_idx, q.read_seq)
    BY DEF QueueInv
  <2> QED BY <2>1, <1>0 DEF Starts
<1> HIDE DEF g, len, part_
<1>7. CASE part_ + 1 = len
  <2>1. i + 1 = g + len
    BY <1>7, <1>5, <1>0, <1>2, <1>3
  <2>2. Starts(q, p, i + 1, Add(q.blk[i].id, 1))
    BY <2>1, <1>4, <1>1
  <2>3. IF i + 1 < q.write_idx THEN q.blk[i + 1].part = 0 /\ q.blk[i + 1].id = Add(q.blk[i].id, 1)
        ELSE Add(q.blk[i].id, 1) = p
    BY <2>2 DEF Starts
  <2> QED BY <2>3, <1>1, <1>5, <1>6, <1>7 DEF part_, g, len
<1>8. CASE part_ + 1 # len
  <2>1. i + 1 \in g .. g + len - 1 /\ i + 1 < q.write_idx /\ i + 1 - g = part_ + 1
    BY <1>8, <1>5, <1>1, <1>0, <1>2, <1>3
  <2>2. q.blk[i + 1].part = part_ + 1 /\ q.blk[i + 1].id = q.blk[i].id
    BY <2>1, <1>4, <1>1
  <2> QED BY <2>1, <2>2, <1>1, <1>5, <1>6, <1>8 DEF part_, g, len
<1> QED BY <1>7, <1>8

\* The invariant implies that the two files agree.
LEMMA InvFilesAgree ==
  ASSUME IInv
  PROVE  FilesAgree
<1> SUFFICES ASSUME NEW e \in Ends
             PROVE  QueueIntact(e) /\ CheckAckInQueue(file[Peer(e)].ack_seq, file[e].read_seq, pushed[e])
  BY DEF FilesAgree
<1> DEFINE q == file[e]
           p == pushed[e]
           have == file[Peer(e)].ack_seq
<1>1. /\ q \in Queues /\ p \in UInt /\ QueueInv(q, p) /\ SendInv(q) /\ Acked(e)
      /\ Peer(e) \in Ends /\ have \in UInt
  <2>1. TypeOK /\ MoreTypes /\ QueuesInv /\ Acked(e) /\ Peer(e) \in Ends
    BY EndsAre DEF IInv
  <2> QED BY <2>1, EndTypes DEF QueuesInv
<1>2. QueueIntact(e)
  <2>1. Starts(q, p, q.read_idx, q.read_seq)
    BY <1>1 DEF QueueInv
  <2>2. q.read_idx = q.write_idx => p = q.read_seq
    <3> HIDE DEF q, p
    <3> QED BY <2>1, <1>1, QueueFields DEF Starts
  <2> HIDE DEF q, p
  <2>3. ASSUME NEW i \in q.read_idx .. q.write_idx - 1
        PROVE  LET b == q.blk[i]
                   h == q.blk[i - b.part]
                   last == b.part + 1 = h.len
               IN  /\ b.part \in 0 .. i - q.read_idx
                   /\ h.part = 0 /\ h.id = b.id /\ b.part < h.len
                   /\ i = q.read_idx => b.id = q.read_seq
                   /\ IF i + 1 < q.write_idx
                      THEN /\ q.blk[i + 1].part = IF last THEN 0 ELSE b.part + 1
                           /\ q.blk[i + 1].id = IF last THEN Add(b.id, 1) ELSE b.id
                      ELSE last /\ Add(b.id, 1) = p
    BY <1>1, IntactQueue
  <2> QED BY <2>2, <2>3 DEF QueueIntact, q, p
<1>3. \E h \in Int : Starts(q, p, h, have)
  BY <1>1 DEF Acked, AckedOK
<1> HIDE DEF q, p, have
<1>4. CheckAckInQueue(have, q.read_seq, p)
  <2>1. PICK h \in Int : Starts(q, p, h, have)
    BY <1>3
  <2>2. q.write_idx \in Int /\ h <= q.write_idx /\ q.read_idx <= q.write_idx
    BY <2>1, <1>1, QueueFields DEF Starts, SendInv
  <2>3. Starts(q, p, q.write_idx, p)
    BY <2>2, <1>1, StartsEnd
  <2> QED BY <2>1, <2>2, <2>3, <1>1, CheckAckAccepts
<1> QED BY <1>2, <1>4 DEF q, p, have

\* The invariant implies that the indexes are in order.
LEMMA InvIndexOrder ==
  ASSUME IInv
  PROVE  IndexOrder
BY DEF IInv, QueuesInv, SendInv, IndexOrder

\* The invariant implies that logins match.
LEMMA InvLoginsMatch ==
  ASSUME IInv, AcksRecent
  PROVE  LoginsMatch
<1>1. \A e \in Ends : SanityCheck(file[e])
  BY LoginMsgIs
<1>2. \A k \in Fds : net[k].rsp.status \notin {"mismatch", "corrupt"}
  BY DEF IInv, RspInv
<1> QED BY <1>1, <1>2 DEF LoginsMatch

-----------------------------------------------------------------------------
(* Acknowledgements before the sequence numbers wrap around.               *)

\* The acknowledgements in the headers of a queue, and in heartbeats under way.
AcksUpTo(q, a) ==
  \A i \in q.read_idx .. q.write_idx - 1 : q.blk[i].part = 0 => q.blk[i].ack <= a

HeartbeatsUpTo(wire, a) == \A j \in DOMAIN wire : IsHeartbeat(wire[j]) => wire[j].ack <= a

\* No end has consumed more than was pushed for it, and none has announced more
\* than it has consumed.
CountInv(e) ==
  /\ pushed[e] <= MaxPushes /\ (alloced[e] => pushed[e] < MaxPushes)
  /\ file[e].ack_seq <= pushed[Peer(e)]
  /\ AcksUpTo(file[e], file[e].ack_seq)
  /\ \A k \in Fds : HeartbeatsUpTo(net[k].out[e], file[e].ack_seq)

CountsInv == \A e \in Ends : CountInv(e)

\* (int)(b - a) < 0 never happens between numbers a <= b below half of the range.
LEMMA NotBefore ==
  ASSUME NEW a \in UInt, NEW b \in UInt, a <= b, b < HalfRange
  PROVE  ~ Before(b, a)
BY Widths DEF Before, Sub

\* Before half of the range is used no acknowledgement is half of the range old.
LEMMA CountsRecent ==
  ASSUME IInv, CountsInv, MaxPushes < HalfRange
  PROVE  AcksRecent
<1> SUFFICES ASSUME NEW e \in Ends
             PROVE  /\ \A i \in file[e].read_idx .. file[e].write_idx - 1 :
                         file[e].blk[i].part = 0 => ~ Before(file[e].ack_seq, file[e].blk[i].ack)
                    /\ \A k \in Fds : \A j \in DOMAIN net[k].out[e] :
                         IsHeartbeat(net[k].out[e][j]) => ~ Before(file[e].ack_seq, net[k].out[e][j].ack)
  BY DEF AcksRecent
<1> DEFINE q == file[e]
           a == q.ack_seq
<1>1. /\ q \in Queues /\ a \in UInt /\ Peer(e) \in Ends /\ pushed[Peer(e)] \in UInt
      /\ \A k \in Fds : net[k] \in Conns
  <2>1. TypeOK /\ MoreTypes /\ Peer(e) \in Ends
    BY EndsAre DEF IInv
  <2> QED BY <2>1, EndTypes
<1>2. /\ a <= pushed[Peer(e)] /\ pushed[Peer(e)] <= MaxPushes
      /\ AcksUpTo(q, a) /\ \A k \in Fds : HeartbeatsUpTo(net[k].out[e], a)
  BY <1>1 DEF CountsInv, CountInv
<1>3. a < HalfRange
  <2> DEFINE p == pushed[Peer(e)]
  <2>1. p \in Int /\ a \in Int /\ MaxPushes \in Int /\ a <= p /\ p <= MaxPushes /\ HalfRange \in Int
    BY <1>1, <1>2, SessionAssumption, Widths
  <2> HIDE DEF p, a
  <2> QED BY <2>1
<1> HIDE DEF q, a
<1>4. ASSUME NEW i \in q.read_idx .. q.write_idx - 1, q.blk[i].part = 0
      PROVE  ~ Before(a, q.blk[i].ack)
  <2>1. q.blk[i].ack \in UInt /\ q.blk[i].ack <= a
    BY <1>1, <1>2, <1>4, UsedBlock, QueueFields DEF AcksUpTo
  <2> QED BY <2>1, <1>1, <1>3, NotBefore
<1>5. ASSUME NEW k \in Fds, NEW j \in DOMAIN net[k].out[e], IsHeartbeat(net[k].out[e][j])
      PROVE  ~ Before(a, net[k].out[e][j].ack)
  <2>1. net[k].out[e] \in Seq(Blocks)
    BY <1>1, ConnFields
  <2>2. net[k].out[e][j] \in Blocks
    BY <2>1
  <2>3. net[k].out[e][j].ack \in UInt
    BY <2>2 DEF Blocks
  <2>4. net[k].out[e][j].ack <= a
    BY <1>2, <1>5 DEF HeartbeatsUpTo
  <2> QED BY <2>3, <2>4, <1>1, <1>3, NotBefore
<1> QED BY <1>4, <1>5 DEF q, a

\* What is left of a queue has no other acknowledgements.
LEMMA AcksMoved ==
  ASSUME NEW q \in Queues, NEW p, NEW q2 \in Queues, NEW s \in Nat, Shrinks(q, p, q2, s),
         NEW a, AcksUpTo(q, a)
  PROVE  AcksUpTo(q2, a)
<1>1. /\ q2.read_idx + s \in q.read_idx .. q.write_idx /\ q2.write_idx + s = q.write_idx
      /\ \A i \in q2.read_idx + s .. q.write_idx - 1 : q2.blk[i - s] = q.blk[i]
  BY DEF Shrinks, Moves
<1>2. q.read_idx \in Int /\ q.write_idx \in Int /\ q2.read_idx \in Int /\ q2.write_idx \in Int
  BY QueueFields
<1> SUFFICES ASSUME NEW i \in q2.read_idx .. q2.write_idx - 1, q2.blk[i].part = 0
             PROVE  q2.blk[i].ack <= a
  BY DEF AcksUpTo
<1>3. /\ i + s \in q2.read_idx + s .. q.write_idx - 1 /\ i + s \in q.read_idx .. q.write_idx - 1
      /\ (i + s) - s = i
  BY <1>1, <1>2
<1>4. q2.blk[i] = q.blk[i + s]
  BY <1>1, <1>3
<1> QED BY <1>3, <1>4 DEF AcksUpTo

\* The acknowledgements of a queue do not depend on send_idx and ack_seq.
LEMMA AcksSame ==
  ASSUME NEW q, NEW q2, q2.blk = q.blk, q2.write_idx = q.write_idx, q2.read_idx = q.read_idx,
         NEW a, AcksUpTo(q, a)
  PROVE  AcksUpTo(q2, a)
BY DEF AcksUpTo

\* Push() stamps the message with the acknowledgement of the moment.
LEMMA AcksPushed ==
  ASSUME NEW q \in Queues, NEW p, AllocInv(q, p), SendInv(q), AcksUpTo(q, q.ack_seq)
  PROVE  AcksUpTo(Push(q), q.ack_seq)
<1> DEFINE q2 == Push(q)
           w == q.write_idx
<1>1. /\ q2 \in Queues /\ q2.write_idx = w + q.blk[w].len /\ q2.read_idx = q.read_idx
      /\ \A i \in 0 .. BLK_CNT - 1 :
           /\ q2.blk[i].part = q.blk[i].part
           /\ q2.blk[i].ack = IF i = w THEN q.ack_seq ELSE q.blk[i].ack
  BY PushIs
<1>2. /\ w \in Int /\ w < BLK_CNT /\ q.blk[w].len \in Int /\ w + q.blk[w].len <= BLK_CNT /\ q.read_idx \in Nat
      /\ \A i \in w .. w + q.blk[w].len - 1 : q.blk[i].part = i - w
  <2>1. w \in 0 .. BLK_CNT /\ w < BLK_CNT
    BY QueueFields DEF AllocInv
  <2>2. w \in 0 .. BLK_CNT - 1
    BY <2>1, Widths
  <2> QED BY <2>1, <2>2, QueueFields DEF AllocInv
<1> SUFFICES ASSUME NEW i \in q2.read_idx .. q2.write_idx - 1, q2.blk[i].part = 0
             PROVE  q2.blk[i].ack <= q.ack_seq
  BY DEF AcksUpTo
<1> HIDE DEF q2
<1>3. i \in 0 .. BLK_CNT - 1 /\ i \in Int /\ q2.blk[i].part = q.blk[i].part
  BY <1>1, UsedBlock
<1> DEFINE n == q.blk[w].len
<1> HIDE DEF n
<1>4. CASE i < w
  <2>1. i \in q.read_idx .. w - 1
    BY <1>1, <1>2, <1>3, <1>4
  <2>2. q.blk[i].ack <= q.ack_seq
    BY <2>1, <1>3 DEF AcksUpTo
  <2> QED BY <2>2, <1>1, <1>2, <1>3, <1>4
<1>5. CASE i = w
  <2>1. q2.blk[i].ack = q.ack_seq
    BY <1>5, <1>1, <1>3
  <2>2. q.ack_seq \in Int
    BY QueueFields, Widths
  <2> QED BY <2>1, <2>2
<1>6. CASE i > w
  <2>1. i \in w .. w + n - 1
    BY <1>6, <1>1, <1>2, <1>3 DEF n
  <2>2. q.blk[i].part = i - w
    BY <2>1, <1>2 DEF n
  <2> QED BY <2>2, <1>2, <1>3, <1>6
<1> QED BY <1>2, <1>3, <1>4, <1>5, <1>6

\* A wire with no block.
LEMMA NoHeartbeats ==
  ASSUME NEW a
  PROVE  HeartbeatsUpTo(<<>>, a)
BY DEF HeartbeatsUpTo

\* A wire of which the first block was read.
LEMMA HeartbeatsTail ==
  ASSUME NEW wire \in Seq(Blocks), wire # <<>>, NEW a, HeartbeatsUpTo(wire, a)
  PROVE  HeartbeatsUpTo(Tail(wire), a)
<1>1. ASSUME NEW j \in DOMAIN Tail(wire) PROVE j + 1 \in DOMAIN wire /\ Tail(wire)[j] = wire[j + 1]
  OBVIOUS
<1> QED BY <1>1 DEF HeartbeatsUpTo

\* A wire with more blocks behind it.
LEMMA HeartbeatsMore ==
  ASSUME NEW wire \in Seq(Blocks), NEW more \in Seq(Blocks), NEW a,
         HeartbeatsUpTo(wire, a), HeartbeatsUpTo(more, a)
  PROVE  HeartbeatsUpTo(wire \o more, a)
<1> DEFINE both == wire \o more
<1>1. ASSUME NEW j \in DOMAIN both
      PROVE  \/ j \in DOMAIN wire /\ both[j] = wire[j]
             \/ j - Len(wire) \in DOMAIN more /\ both[j] = more[j - Len(wire)]
  <2>1. both \in Seq(Blocks) /\ Len(both) = Len(wire) + Len(more) /\ Len(wire) \in Nat /\ Len(more) \in Nat
    BY ConcatProperties
  <2>2. j \in 1 .. Len(both)
    BY <2>1
  <2>3. both[j] = IF j <= Len(wire) THEN wire[j] ELSE more[j - Len(wire)]
    BY <2>1, <2>2, ConcatProperties
  <2>4. DOMAIN wire = 1 .. Len(wire) /\ DOMAIN more = 1 .. Len(more)
    OBVIOUS
  <2> HIDE DEF both
  <2> QED BY <2>1, <2>2, <2>3, <2>4
<1> HIDE DEF both
<1>2. HeartbeatsUpTo(both, a)
  BY <1>1 DEF HeartbeatsUpTo
<1> QED BY <1>2 DEF both

\* The blocks that a queue sends are messages.
LEMMA HeartbeatsSent ==
  ASSUME NEW q \in Queues, NEW p, QueueInv(q, p), SendInv(q), NEW k \in Nat, k <= Pending(q), NEW a
  PROVE  Sendable(q, k) \in Seq(Blocks) /\ HeartbeatsUpTo(Sendable(q, k), a)
<1>1. /\ q.read_idx \in Nat /\ q.write_idx \in Nat /\ q.send_idx \in Nat
      /\ q.read_idx <= q.send_idx /\ q.send_idx + k <= q.write_idx
  BY QueueFields DEF SendInv, Pending
<1>2. ASSUME NEW j \in 1 .. k
      PROVE  /\ Sendable(q, k)[j] = q.blk[q.send_idx + j - 1]
             /\ q.send_idx + j - 1 \in q.read_idx .. q.write_idx - 1
  BY <1>1 DEF Sendable
<1>3. ASSUME NEW j \in 1 .. k
      PROVE  Sendable(q, k)[j] \in Blocks /\ Sendable(q, k)[j].len > 0
  <2> DEFINE i == q.send_idx + j - 1
  <2>1. i \in q.read_idx .. q.write_idx - 1 /\ Sendable(q, k)[j] = q.blk[i]
    BY <1>2
  <2> HIDE DEF i
  <2>2. q.blk[i] \in QBlocks /\ q.blk[i].len > 0
    BY <2>1, UsedBlock, QueueFields DEF QueueInv
  <2> QED BY <2>1, <2>2, BlocksAre
<1>4. Sendable(q, k) = [j \in 1 .. k |-> q.blk[q.send_idx + j - 1]] /\ DOMAIN Sendable(q, k) = 1 .. k
  BY DEF Sendable
<1>5. Sendable(q, k) \in [1 .. k -> Blocks]
  BY <1>3, <1>4
<1>6. Sendable(q, k) \in Seq(Blocks)
  BY <1>5
<1>7. HeartbeatsUpTo(Sendable(q, k), a)
  BY <1>3, <1>4 DEF HeartbeatsUpTo, IsHeartbeat
<1> QED BY <1>6, <1>7

\* SendPending() sends no heartbeat.
LEMMA HeartbeatsPending ==
  ASSUME NEW e \in Ends, NEW q \in Queues, NEW p, QueueInv(q, p), SendInv(q), NEW n \in Conns,
         Len(n.out[e]) <= WireCap, NEW r \in SendPending(e, q, n), NEW a, HeartbeatsUpTo(n.out[e], a)
  PROVE  HeartbeatsUpTo(r.n.out[e], a)
<1>1. \/ r.n = n
      \/ \E k \in Nat : /\ k <= Pending(q)
                        /\ n.open[Peer(e)] => r.n.out[e] = n.out[e] \o Sendable(q, k)
                        /\ ~ n.open[Peer(e)] => r.n = n
  <2>1. SendsBlocks(e, q, n, r)
    BY SendPendingIs
  <2> QED BY <2>1 DEF SendsBlocks
<1>2. CASE r.n = n
  BY <1>2
<1>3. CASE r.n # n
  <2>1. PICK k \in Nat : k <= Pending(q) /\ r.n.out[e] = n.out[e] \o Sendable(q, k)
    BY <1>1, <1>3
  <2>2. Sendable(q, k) \in Seq(Blocks) /\ HeartbeatsUpTo(Sendable(q, k), a)
    BY <2>1, HeartbeatsSent
  <2>3. n.out[e] \in Seq(Blocks)
    BY ConnFields
  <2> QED BY <2>1, <2>2, <2>3, HeartbeatsMore
<1> QED BY <1>2, <1>3

-----------------------------------------------------------------------------
(* Every action keeps the counts.                                          *)

\* A step that sends nothing and leaves the queues as they are.
LEMMA QuietCounts ==
  ASSUME CountsInv, UNCHANGED <<file, pushed>>, \A e \in Ends : alloced'[e] => alloced[e],
         \A k \in Fds, e \in Ends : net'[k].out[e] \in {net[k].out[e], <<>>}
  PROVE  CountsInv'
<1> SUFFICES ASSUME NEW e \in Ends PROVE CountInv(e)'
  BY DEF CountsInv
<1>1. CountInv(e)
  BY DEF CountsInv
<1>2. ASSUME NEW k \in Fds PROVE HeartbeatsUpTo(net'[k].out[e], file[e].ack_seq)
  <2>1. CASE net'[k].out[e] = net[k].out[e]
    BY <2>1, <1>1 DEF CountInv
  <2>2. CASE net'[k].out[e] = <<>>
    BY <2>2, NoHeartbeats
  <2> QED BY <2>1, <2>2
<1> QED BY <1>1, <1>2 DEF CountInv

\* A step of one end.
LEMMA EndCounts ==
  ASSUME IInv, CountsInv, NEW e \in Ends,
         pushed'[e] \in UInt, pushed[e] <= pushed'[e], pushed'[e] <= MaxPushes,
         alloced'[e] => pushed'[e] < MaxPushes,
         file'[e].ack_seq <= pushed[Peer(e)], AcksUpTo(file'[e], file'[e].ack_seq),
         \A k \in Fds : HeartbeatsUpTo(net'[k].out[e], file'[e].ack_seq),
         file'[Peer(e)] = file[Peer(e)], pushed'[Peer(e)] = pushed[Peer(e)],
         alloced'[Peer(e)] => alloced[Peer(e)],
         \A k \in Fds : HeartbeatsUpTo(net'[k].out[Peer(e)], file[Peer(e)].ack_seq)
  PROVE  CountsInv'
<1> DEFINE o == Peer(e)
<1>1. o \in Ends /\ Peer(o) = e /\ \A d \in Ends : d = e \/ d = o
  BY EndsAre
<1>2. CountInv(o)
  BY <1>1 DEF CountsInv
<1>3. file[o].ack_seq <= pushed'[e]
  <2>1. file[o].ack_seq \in UInt /\ pushed[e] \in UInt
    BY <1>1, EndTypes DEF IInv
  <2>2. file[o].ack_seq <= pushed[e]
    BY <1>1, <1>2 DEF CountInv
  <2> QED BY <2>1, <2>2, Widths
<1>4. CountInv(o)'
  BY <1>1, <1>2, <1>3 DEF CountInv
<1>5. CountInv(e)'
  BY DEF CountInv
<1> QED BY <1>1, <1>4, <1>5 DEF CountsInv

\* Sockets that are closed and connections that are reset or given up.
LEMMA CloseCounts ==
  ASSUME IInv, CountsInv, NEW e \in Ends, RemoteClose(e) \/ Close(e) \/ TryCloseFd(e)
  PROVE  CountsInv'
<1> USE DEF files, bufs, logins
<1>1. CASE RemoteClose(e) \/ Close(e)
  <2>1. UNCHANGED <<file, pushed, alloced, net>>
    BY <1>1 DEF RemoteClose, Close
  <2> QED BY <2>1, QuietCounts
<1>2. CASE TryCloseFd(e)
  <2>1. /\ UNCHANGED <<file, pushed, alloced>> /\ sock[e].fd # NoFd
        /\ net' = [net EXCEPT ![sock[e].fd] = Closed(net[sock[e].fd], e)]
    BY <1>2 DEF TryCloseFd
  <2>2. PICK k \in Fds : k = sock[e].fd
    BY <2>1, EndTypes DEF IInv
  <2>3. NetBecomes(k, Closed(net[k], e))
    BY <2>1, <2>2 DEF NetBecomes
  <2>4. NetShrinks
    BY <2>3, ClosedShrinks
  <2> QED BY <2>1, <2>4, QuietCounts DEF NetShrinks
<1> QED BY <1>1, <1>2

\* The network resets a connection, or PollCtl() drops one that is gone.
LEMMA ResetCounts ==
  ASSUME IInv, CountsInv, (\E m \in backlog : DropLogin(m)) \/ \E k \in Fds : NetReset(k)
  PROVE  CountsInv'
<1> USE DEF files, bufs, logins
<1>1. ASSUME NEW m \in backlog, DropLogin(m) PROVE CountsInv'
  <2>1. UNCHANGED <<file, pushed, alloced>> /\ net' = [net EXCEPT ![m.fd] = Closed(net[m.fd], S)]
    BY <1>1 DEF DropLogin
  <2>2. PICK k \in Fds : k = m.fd
    BY LoginIs
  <2>3. NetBecomes(k, Closed(net[k], S)) /\ S \in Ends
    BY <2>1, <2>2, EndsAre DEF NetBecomes
  <2>4. NetShrinks
    BY <2>3, ClosedShrinks
  <2> QED BY <2>1, <2>4, QuietCounts DEF NetShrinks
<1>2. ASSUME NEW k \in Fds, NetReset(k) PROVE CountsInv'
  <2>1. UNCHANGED <<file, pushed, alloced>> /\ net' = [net EXCEPT ![k] = FreeNet]
    BY <1>2 DEF NetReset
  <2>2. net'[k] = FreeNet /\ \A j \in Fds \ {k} : net'[j] = net[j]
    BY <2>1, ShrinkTypes, FreeNetIs, NetChanged
  <2>3. \A j \in Fds, e \in Ends : net'[j].out[e] \in {net[j].out[e], <<>>}
    BY <2>2, FreeNetIs
  <2> QED BY <2>1, <2>3, QuietCounts
<1> QED BY <1>1, <1>2

\* Connect() fails, or the client is refused.
LEMMA GiveUpCounts ==
  ASSUME IInv, CountsInv, connecting # NoFd, net' = [net EXCEPT ![connecting] = Closed(net[connecting], C)],
         UNCHANGED <<file, pushed, alloced>>
  PROVE  CountsInv'
<1>1. PICK k \in Fds : k = connecting
  BY ShrinkTypes
<1>2. NetBecomes(k, Closed(net[k], C)) /\ C \in Ends
  BY <1>1, EndsAre DEF NetBecomes
<1>3. NetShrinks
  BY <1>2, ClosedShrinks
<1> QED BY <1>3, QuietCounts DEF NetShrinks

\* Connect() until the LoginMsg is sent.
LEMMA ConnectCounts ==
  ASSUME IInv, CountsInv, NEW k \in Fds, Connect(k)
  PROVE  CountsInv'
<1> USE DEF files, bufs, logins
<1> DEFINE open == [e \in Ends |-> TRUE]
           fresh == [FreeNet EXCEPT !.open = open]
<1>1. /\ UNCHANGED <<file, pushed, alloced>>
      /\ net' = [i \in Fds |-> IF i = k THEN fresh ELSE IF i = sock[C].fd THEN Closed(net[i], C) ELSE net[i]]
  BY DEF Connect
<1>2. \A e \in Ends : fresh.out[e] = <<>>
  <2> HIDE DEF open
  <2>1. fresh.out = FreeNet.out
    BY DEF FreeNet
  <2> QED BY <2>1, FreeNetIs
<1> HIDE DEF fresh
<1>3. ASSUME NEW i \in Fds, NEW e \in Ends PROVE net'[i].out[e] \in {net[i].out[e], <<>>}
  <2>1. CASE i = k
    BY <2>1, <1>1, <1>2
  <2>2. CASE i # k /\ i # sock[C].fd
    BY <2>2, <1>1
  <2>3. CASE i # k /\ i = sock[C].fd
    <3>1. net'[i] = Closed(net[i], C) /\ net[i] \in Conns
      BY <2>3, <1>1, ShrinkTypes
    <3>2. Closed(net[i], C).out[S] = <<>> /\ Closed(net[i], C).out[C] = net[i].out[C]
      BY <3>1, EndsAre, ClosedIs
    <3>3. e = C \/ e = S
      BY EndsAre
    <3> QED BY <3>1, <3>2, <3>3
  <2> QED BY <2>1, <2>2, <2>3
<1> QED BY <1>1, <1>3, QuietCounts

\* A process dies.
LEMMA CrashCounts ==
  ASSUME IInv, CountsInv, NEW e \in Ends, Crash(e)
  PROVE  CountsInv'
<1>1. /\ file' = [file EXCEPT ![e] = file[e]] /\ pushed' = pushed
      /\ alloced' = [alloced EXCEPT ![e] = FALSE]
      /\ net' = [k \in Fds |-> IF net[k].open[e] THEN Closed(net[k], e) ELSE net[k]]
  BY DEF Crash, Dies
<1>2. file' = file
  <2>1. file \in [Ends -> Queues]
    BY EndTypes DEF IInv, TypeOK
  <2> QED BY <2>1, <1>1
<1>3. \A d \in Ends : alloced'[d] => alloced[d]
  BY <1>1, ShrinkTypes
<1>4. ASSUME NEW k \in Fds, NEW d \in Ends PROVE net'[k].out[d] \in {net[k].out[d], <<>>}
  <2>1. CASE ~ net[k].open[e]
    BY <2>1, <1>1
  <2>2. CASE net[k].open[e]
    <3>1. net'[k] = Closed(net[k], e) /\ net[k] \in Conns
      BY <2>2, <1>1, ShrinkTypes
    <3>2. Closed(net[k], e).out[Peer(e)] = <<>> /\ Closed(net[k], e).out[e] = net[k].out[e]
      BY <3>1, ClosedIs
    <3>3. d = e \/ d = Peer(e)
      BY EndsAre
    <3> QED BY <3>1, <3>2, <3>3
  <2> QED BY <2>1, <2>2
<1> QED BY <1>1, <1>2, <1>3, <1>4, QuietCounts

\* What is known of the end that takes a step and of its peer.
LEMMA CountTypes ==
  ASSUME IInv, CountsInv, NEW e \in Ends
  PROVE  /\ Peer(e) \in Ends /\ Peer(e) # e /\ Peer(Peer(e)) = e
         /\ file \in [Ends -> Queues] /\ pushed \in [Ends -> UInt] /\ alloced \in [Ends -> BOOLEAN]
         /\ net \in [Fds -> Conns] /\ \A k \in Fds, d \in Ends : Len(net[k].out[d]) <= WireCap
         /\ file[e] \in Queues /\ pushed[e] \in UInt /\ pushed[Peer(e)] \in UInt /\ file[e].ack_seq \in UInt
         /\ file[Peer(e)].ack_seq \in UInt /\ file[Peer(e)] \in Queues
         /\ QueueInv(file[e], pushed[e]) /\ SendInv(file[e]) /\ (alloced[e] => AllocInv(file[e], pushed[e]))
         /\ \E h \in Int : Starts(file[e], pushed[e], h, file[Peer(e)].ack_seq)
         /\ CountInv(e) /\ CountInv(Peer(e))
         /\ \A n \in UInt : n \in Int /\ n <= n
<1>1. Peer(e) \in Ends /\ Peer(e) # e /\ Peer(Peer(e)) = e
  BY EndsAre
<1>2. TypeOK /\ MoreTypes /\ QueuesInv /\ Acked(e)
  BY DEF IInv
<1>3. file \in [Ends -> Queues]
  BY <1>2, EndTypes DEF TypeOK
<1>4. /\ pushed \in [Ends -> UInt] /\ alloced \in [Ends -> BOOLEAN]
      /\ net \in [Fds -> Conns] /\ \A k \in Fds, d \in Ends : Len(net[k].out[d]) <= WireCap
  BY <1>2 DEF TypeOK, MoreTypes
<1>5. /\ file[e] \in Queues /\ pushed[e] \in UInt /\ pushed[Peer(e)] \in UInt /\ file[e].ack_seq \in UInt
      /\ file[Peer(e)].ack_seq \in UInt /\ file[Peer(e)] \in Queues
  BY <1>1, <1>2, EndTypes
<1>6. QueueInv(file[e], pushed[e]) /\ SendInv(file[e]) /\ (alloced[e] => AllocInv(file[e], pushed[e]))
  BY <1>2 DEF QueuesInv
<1>7. \E h \in Int : Starts(file[e], pushed[e], h, file[Peer(e)].ack_seq)
  BY <1>2 DEF Acked, AckedOK
<1>8. CountInv(e) /\ CountInv(Peer(e))
  BY <1>1 DEF CountsInv
<1>9. \A n \in UInt : n \in Int /\ n <= n
  BY Widths
<1> QED BY <1>1, <1>3, <1>4, <1>5, <1>6, <1>7, <1>8, <1>9

\* Alloc().
LEMMA AllocCounts ==
  ASSUME IInv, CountsInv, NEW e \in Ends, NEW len \in MsgLens, AllocMsg(e, len)
  PROVE  CountsInv'
<1> USE DEF files, bufs, logins
<1> DEFINE o == Peer(e)
           q == file[e]
           p == pushed[e]
           q2 == Alloc(q, len, p)
<1>0. /\ o \in Ends /\ o # e /\ file \in [Ends -> Queues] /\ alloced \in [Ends -> BOOLEAN]
      /\ q \in Queues /\ p \in UInt /\ QueueInv(q, p) /\ SendInv(q) /\ CountInv(e) /\ CountInv(o) /\ p <= p
  BY CountTypes
<1>1. /\ file' = [file EXCEPT ![e] = q2] /\ alloced' = [alloced EXCEPT ![e] = TRUE]
      /\ UNCHANGED <<net, pushed>> /\ p < MaxPushes /\ ~ AllocFails(q, len) /\ len \in Nat \ {0}
  BY SessionAssumption DEF AllocMsg
<1>2. q2 \in Queues /\ \E s \in Nat : Shrinks(q, p, q2, s)
  <2> HIDE DEF q, p
  <2> QED BY <1>0, <1>1, AllocShrinks
<1> HIDE DEF q2
<1>3. AcksUpTo(q2, q.ack_seq) /\ q2.ack_seq = q.ack_seq
  <2>1. PICK s \in Nat : Shrinks(q, p, q2, s)
    BY <1>2
  <2>2. AcksUpTo(q, q.ack_seq)
    BY <1>0 DEF CountInv
  <2> HIDE DEF q, p
  <2> QED BY <2>1, <2>2, <1>0, <1>2, AcksMoved DEF Shrinks
<1>4. file'[e] = q2 /\ file'[o] = file[o] /\ alloced'[o] = alloced[o]
  BY <1>0, <1>1
<1>5. /\ pushed[e] <= MaxPushes /\ file[e].ack_seq <= pushed[o]
      /\ \A k \in Fds : HeartbeatsUpTo(net[k].out[e], file[e].ack_seq)
      /\ \A k \in Fds : HeartbeatsUpTo(net[k].out[o], file[o].ack_seq)
  BY <1>0 DEF CountInv
<1> QED BY <1>0, <1>1, <1>3, <1>4, <1>5, EndCounts

\* What a connection sends from its queue q, the file's with maybe one more
\* message, are messages.
LEMMA SentCounts ==
  ASSUME IInv, CountsInv, NEW e \in Ends, NEW q \in Queues, NEW p \in UInt, QueueInv(q, p), SendInv(q),
         q.ack_seq = file[e].ack_seq, AcksUpTo(q, q.ack_seq),
         NEW r \in SendOutcomes(e, q), Sent(e, r),
         pushed'[e] = p, pushed[e] <= p, p <= MaxPushes, pushed'[Peer(e)] = pushed[Peer(e)],
         alloced'[e] => p < MaxPushes, alloced'[Peer(e)] => alloced[Peer(e)]
  PROVE  CountsInv'
<1> DEFINE o == Peer(e)
           a == file[e].ack_seq
<1>0. /\ o \in Ends /\ o # e /\ file \in [Ends -> Queues] /\ net \in [Fds -> Conns]
      /\ \A k \in Fds, d \in Ends : Len(net[k].out[d]) <= WireCap
      /\ CountInv(e) /\ CountInv(o)
  BY CountTypes
<1>1. /\ a <= pushed[o] /\ \A k \in Fds : HeartbeatsUpTo(net[k].out[e], a)
      /\ \A k \in Fds : HeartbeatsUpTo(net[k].out[o], file[o].ack_seq)
  BY <1>0 DEF CountInv
<1>2. CASE ~ sock[e].up
  <2>1. r.q = q
    BY <1>2 DEF SendOutcomes
  <2>2. net' = net /\ file' = [file EXCEPT ![e] = q]
    BY <2>1, <1>2 DEF Sent
  <2>3. file'[e] = q /\ file'[o] = file[o]
    BY <2>2, <1>0
  <2> QED BY <2>2, <2>3, <1>1, EndCounts
<1>3. CASE sock[e].up
  <2>1. PICK k \in Fds : k = sock[e].fd
    BY <1>3, EndTypes DEF IInv
  <2> DEFINE n == net[k]
  <2>2. n \in Conns /\ Len(n.out[e]) <= WireCap /\ HeartbeatsUpTo(n.out[e], a)
    BY <1>0, <1>1
  <2>3. r \in SendPending(e, q, n)
    BY <1>3, <2>1 DEF SendOutcomes
  <2> HIDE DEF n
  <2>4. /\ r.q \in Queues /\ r.q.blk = q.blk /\ r.q.write_idx = q.write_idx /\ r.q.read_idx = q.read_idx
        /\ r.q.ack_seq = q.ack_seq /\ r.n \in Conns /\ r.n.out[o] = n.out[o]
    BY <2>2, <2>3, SendPendingIs
  <2>5. HeartbeatsUpTo(r.n.out[e], a)
    <3> HIDE DEF a
    <3> QED BY <2>2, <2>3, HeartbeatsPending
  <2>6. AcksUpTo(r.q, a)
    BY <2>4, AcksSame
  <2>7. net' = [net EXCEPT ![k] = r.n] /\ file' = [file EXCEPT ![e] = r.q]
    BY <1>3, <2>1 DEF Sent
  <2>8. net'[k] = r.n /\ \A j \in Fds \ {k} : net'[j] = net[j]
    BY <2>4, <2>7, <1>0, NetChanged
  <2>9. file'[e] = r.q /\ file'[o] = file[o] /\ file'[e].ack_seq = a
    BY <2>4, <2>7, <1>0
  <2>10. \A j \in Fds : HeartbeatsUpTo(net'[j].out[e], a)
    BY <2>5, <2>8, <1>1
  <2>11. \A j \in Fds : HeartbeatsUpTo(net'[j].out[o], file[o].ack_seq)
    BY <2>4, <2>8, <1>1 DEF n
  <2> QED BY <2>6, <2>9, <2>10, <2>11, <1>1, EndCounts
<1> QED BY <1>2, <1>3

\* Push() and PushMore().
LEMMA PushCounts ==
  ASSUME IInv, CountsInv, MaxPushes < HalfRange, NEW e \in Ends, NEW more \in BOOLEAN, PushMsg(e, more)
  PROVE  CountsInv'
<1> DEFINE o == Peer(e)
           q == file[e]
           p == pushed[e]
           q2 == Push(q)
           p2 == Add(p, 1)
<1>0. /\ o \in Ends /\ o # e /\ file \in [Ends -> Queues] /\ alloced \in [Ends -> BOOLEAN]
      /\ pushed \in [Ends -> UInt]
      /\ q \in Queues /\ p \in UInt /\ QueueInv(q, p) /\ SendInv(q) /\ CountInv(e) /\ CountInv(o)
      /\ (alloced[e] => AllocInv(q, p))
  BY CountTypes
<1>1. /\ pushed' = [pushed EXCEPT ![e] = p2] /\ alloced' = [alloced EXCEPT ![e] = FALSE]
      /\ alloced[e] /\ AllocInv(q, p) /\ p < MaxPushes /\ AcksUpTo(q, q.ack_seq)
  BY <1>0 DEF PushMsg, CountInv
<1>2. p2 = p + 1 /\ p2 \in UInt /\ p <= p2 /\ p2 <= MaxPushes
  <2> HIDE DEF p
  <2> QED BY <1>0, <1>1, SessionAssumption, Widths DEF Add
<1> HIDE DEF p2
<1>3. q2 \in Queues /\ q2.ack_seq = q.ack_seq /\ AcksUpTo(q2, q.ack_seq)
  <2> HIDE DEF q, p
  <2> QED BY <1>0, <1>1, PushIs, AcksPushed
<1>4. QueueInv(q2, p2) /\ SendInv(q2)
  <2> DEFINE have == file[o].ack_seq
             up == Heard(e)
  <2>1. AckedOK(q, p, have, up) /\ have \in UInt
    BY <1>0, EndTypes DEF IInv, Acked
  <2> HIDE DEF q, p, have, up
  <2> QED BY <2>1, <1>0, <1>1, PushKeeps DEF p2
<1> HIDE DEF q2
<1>5. /\ pushed'[e] = p2 /\ pushed'[o] = pushed[o] /\ ~ alloced'[e] /\ alloced'[o] = alloced[o]
  BY <1>0, <1>1, <1>2
<1>6. CASE more
  <2>1. file' = [file EXCEPT ![e] = q2] /\ net' = net
    BY <1>6 DEF PushMsg, q2
  <2>2. file'[e] = q2 /\ file'[o] = file[o]
    BY <2>1, <1>0
  <2>3. /\ file[e].ack_seq <= pushed[o]
        /\ \A k \in Fds : HeartbeatsUpTo(net[k].out[e], file[e].ack_seq)
        /\ \A k \in Fds : HeartbeatsUpTo(net[k].out[o], file[o].ack_seq)
    BY <1>0 DEF CountInv
  <2> QED BY <2>1, <2>2, <2>3, <1>2, <1>3, <1>5, EndCounts
<1>7. CASE ~ more
  <2>1. PICK r \in SendOutcomes(e, q2) : Sent(e, r)
    BY <1>7 DEF PushMsg, q2
  <2> QED BY <2>1, <1>2, <1>3, <1>4, <1>5, SentCounts
<1> QED BY <1>6, <1>7

\* SendHB() announces what was consumed.
LEMMA HeartbeatCounts ==
  ASSUME IInv, CountsInv, NEW e \in Ends, SendHB(e)
  PROVE  CountsInv'
<1> USE DEF files, bufs, logins
<1> DEFINE o == Peer(e)
           q == file[e]
           a == q.ack_seq
           hb == HeartbeatMsg(a)
<1>0. /\ o \in Ends /\ o # e /\ file \in [Ends -> Queues] /\ net \in [Fds -> Conns]
      /\ \A k \in Fds, d \in Ends : Len(net[k].out[d]) <= WireCap
      /\ q \in Queues /\ pushed[e] \in UInt /\ QueueInv(q, pushed[e]) /\ SendInv(q)
      /\ CountInv(e) /\ CountInv(o) /\ a \in UInt /\ a <= a /\ pushed[e] <= pushed[e]
  BY CountTypes
<1>1. sock[e].up /\ UNCHANGED <<alloced, pushed>>
  BY DEF SendHB
<1>2. PICK k \in Fds : k = sock[e].fd
  BY <1>1, EndTypes DEF IInv
<1> DEFINE n == net[k]
           t == Transmit(n, e, <<hb>>)
<1>3. /\ pushed[e] <= MaxPushes /\ (alloced[e] => pushed[e] < MaxPushes)
      /\ a <= pushed[o] /\ AcksUpTo(q, a) /\ \A j \in Fds : HeartbeatsUpTo(net[j].out[e], a)
      /\ \A j \in Fds : HeartbeatsUpTo(net[j].out[o], file[o].ack_seq)
  BY <1>0 DEF CountInv
<1>4. CASE Pending(q) > 0
  <2>1. PICK r \in SendOutcomes(e, q) : Sent(e, r)
    BY <1>4 DEF SendHB
  <2> QED BY <2>1, <1>0, <1>1, <1>3, SentCounts
<1>5. CASE ~ (Pending(q) > 0) /\ ~ n.open[e]
  <2> DEFINE r == [q |-> q, n |-> n, up |-> FALSE, cut |-> FALSE]
  <2>1. Sent(e, r)
    BY <1>2, <1>5 DEF SendHB
  <2>2. r.q = q /\ r.n = n
    OBVIOUS
  <2> HIDE DEF r
  <2>3. file' = [file EXCEPT ![e] = q] /\ net' = [net EXCEPT ![k] = n]
    BY <2>1, <2>2, <1>1, <1>2 DEF Sent
  <2>4. file' = file /\ net' = net
    BY <2>3, <1>0
  <2> QED BY <2>4, <1>1, QuietCounts
<1>6. CASE ~ (Pending(q) > 0) /\ n.open[e]
  <2> DEFINE r == [q |-> q, up |-> TRUE, cut |-> FALSE, n |-> t]
  <2>1. Sent(e, r) /\ Len(n.out[e]) < WireCap
    BY <1>2, <1>6 DEF SendHB
  <2>2. r.q = q /\ r.n = t
    OBVIOUS
  <2>3. hb \in Blocks /\ hb.ack = a
    <3>1. hb = [id |-> 0, part |-> 0, len |-> 0, ack |-> a]
      BY DEF HeartbeatMsg, ZeroBlock
    <3>2. 0 \in UInt /\ 0 \in 0 .. BLK_CNT
      BY Widths
    <3> HIDE DEF a
    <3> QED BY <3>1, <3>2, <1>0 DEF Blocks
  <2> HIDE DEF r, hb
  <2>4. <<hb>> \in Seq(Blocks) /\ Len(<<hb>>) = 1 /\ n \in Conns /\ n.out[e] \in Seq(Blocks)
    BY <2>3, <1>0, ConnFields
  <2>5. HeartbeatsUpTo(<<hb>>, a)
    BY <2>3, <1>0 DEF HeartbeatsUpTo
  <2>6. HeartbeatsUpTo(n.out[e] \o <<hb>>, a)
    <3>1. HeartbeatsUpTo(n.out[e], a)
      BY <1>3
    <3> QED BY <3>1, <2>4, <2>5, HeartbeatsMore
  <2>7. Len(n.out[e]) + Len(<<hb>>) <= WireCap /\ WireCap \in Nat
    <3>1. Len(n.out[e]) \in Nat /\ WireCap \in Nat
      BY <2>4, SessionAssumption
    <3> QED BY <3>1, <2>1, <2>4
  <2> HIDE DEF n
  <2>8. /\ t \in Conns /\ t.out[o] = n.out[o]
        /\ t.out[e] = IF n.open[o] THEN n.out[e] \o <<hb>> ELSE n.out[e]
    BY <2>4, <2>7, TransmitIs
  <2> HIDE DEF t
  <2>9. HeartbeatsUpTo(t.out[e], a)
    BY <2>6, <2>8, <1>3 DEF n
  <2>10. net' = [net EXCEPT ![k] = t] /\ file' = [file EXCEPT ![e] = q]
    BY <2>1, <2>2, <1>1, <1>2 DEF Sent
  <2>11. net'[k] = t /\ \A j \in Fds \ {k} : net'[j] = net[j]
    BY <2>8, <2>10, <1>0, NetChanged
  <2>12. file' = file
    BY <2>10, <1>0
  <2>13. \A j \in Fds : HeartbeatsUpTo(net'[j].out[e], a)
    BY <2>9, <2>11, <1>3
  <2>14. \A j \in Fds : HeartbeatsUpTo(net'[j].out[o], file[o].ack_seq)
    BY <2>8, <2>11, <1>3 DEF n
  <2> QED BY <2>12, <2>13, <2>14, <1>0, <1>1, <1>3, EndCounts
<1> QED BY <1>4, <1>5, <1>6

\* An end that consumes a message has not consumed more than was pushed for it.
LEMMA PopWithin ==
  ASSUME NEW q \in Queues, NEW p \in UInt, QueueInv(q, p), p < HalfRange,
         NEW have \in UInt, have <= p, NEW h, Starts(q, p, h, Add(have, 1))
  PROVE  Add(have, 1) = have + 1 /\ have + 1 <= p
<1>1. Add(have, 1) = have + 1 /\ have + 1 \in UInt /\ p + 1 \in UInt /\ have \in Nat /\ p \in Nat
  BY Widths DEF Add
<1>2. Off(q, have + 1) <= Off(q, p)
  <2>1. q.read_idx <= q.write_idx
    BY QueueFields DEF Starts
  <2>2. Starts(q, p, q.write_idx, p)
    BY <2>1, StartsEnd
  <2> DEFINE a == Add(have, 1)
  <2>3. a \in UInt /\ Starts(q, p, h, a)
    BY <1>1
  <2> HIDE DEF a
  <2>4. Off(q, a) <= Off(q, p)
    BY <2>2, <2>3, StartsOnce
  <2> QED BY <2>4, <1>1 DEF a
<1>3. Off(q, p) \in Nat /\ Off(q, p) <= BLK_CNT
  BY QueueCount, QueueFields, Widths
<1>4. have + 1 # p + 1
  <2> SUFFICES ASSUME have = p PROVE FALSE
    BY <1>1
  <2>1. Off(q, p + 1) <= Off(q, p)
    BY <1>2
  <2>2. Off(q, p + 1) = Off(q, p) + 1
    <3> DEFINE r == q.read_seq
    <3>1. r \in UInt
      BY QueueFields
    <3>2. Sub(p, r) <= BLK_CNT
      BY <1>3 DEF Off
    <3> HIDE DEF r
    <3>3. Sub(p + 1, r) = Sub(p, r) + 1
      BY <3>1, <3>2, <1>1, Widths DEF Sub
    <3> QED BY <3>3 DEF Off, r
  <2> QED BY <2>1, <2>2, <1>3
<1> QED BY <1>1, <1>4

\* Pop().
LEMMA PopCounts ==
  ASSUME IInv, IInv', CountsInv, MaxPushes < HalfRange, NEW e \in Ends, Pop(e)
  PROVE  CountsInv'
<1> USE DEF files, bufs, logins
<1> DEFINE o == Peer(e)
           q == file[e]
           q2 == MyAckNext(q)
           have == q.ack_seq
<1>0. /\ o \in Ends /\ o # e /\ Peer(o) = e /\ file \in [Ends -> Queues]
      /\ q \in Queues /\ have \in UInt /\ file[o] \in Queues /\ pushed[o] \in UInt /\ pushed[e] \in UInt
      /\ CountInv(e) /\ CountInv(o) /\ pushed[e] <= pushed[e]
  BY CountTypes
<1>1. file' = [file EXCEPT ![e] = q2] /\ UNCHANGED <<alloced, net, pushed>>
  BY DEF Pop
<1>2. /\ q2 \in Queues /\ q2.ack_seq = Add(have, 1) /\ q2.blk = q.blk
      /\ q2.write_idx = q.write_idx /\ q2.read_idx = q.read_idx
  BY <1>0, MyAckNextIs
<1> HIDE DEF q2
<1>3. file'[e] = q2 /\ file'[o] = file[o]
  BY <1>0, <1>1
<1>4. /\ pushed[e] <= MaxPushes /\ pushed[o] <= MaxPushes /\ (alloced[e] => pushed[e] < MaxPushes)
      /\ have <= pushed[o] /\ AcksUpTo(q, have)
      /\ \A j \in Fds : HeartbeatsUpTo(net[j].out[e], have)
      /\ \A j \in Fds : HeartbeatsUpTo(net[j].out[o], file[o].ack_seq)
  BY <1>0 DEF CountInv
<1>5. q2.ack_seq = have + 1 /\ have + 1 <= pushed[o]
  <2> DEFINE b == file[o]
             p == pushed[o]
  <2>1. Acked(o)'
    BY <1>0 DEF IInv
  <2>2. \E h \in Int : Starts(b, p, h, q2.ack_seq)
    BY <2>1, <1>0, <1>1, <1>3 DEF Acked, AckedOK
  <2>3. QueueInv(b, p)
    BY <1>0 DEF IInv, QueuesInv
  <2>8. p \in UInt /\ p <= MaxPushes
    BY <1>0, <1>4
  <2> HIDE DEF b, p, have
  <2>4. p < HalfRange
    <3>1. p \in Int /\ MaxPushes \in Int /\ HalfRange \in Int
      BY <2>8, SessionAssumption, Widths
    <3> QED BY <3>1, <2>8
  <2>5. PICK h \in Int : Starts(b, p, h, Add(have, 1))
    BY <2>2, <1>2
  <2>6. b \in Queues /\ p \in UInt /\ have <= p
    BY <1>0, <1>4 DEF b, p
  <2>7. Add(have, 1) = have + 1 /\ have + 1 <= p
    BY <2>3, <2>4, <2>5, <2>6, <1>0, PopWithin
  <2> QED BY <2>7, <1>2 DEF p
<1> HIDE DEF have
<1>6. AcksUpTo(q2, have + 1)
  <2>1. ASSUME NEW i \in q2.read_idx .. q2.write_idx - 1, q2.blk[i].part = 0
        PROVE  q2.blk[i].ack <= have + 1
    <3>1. q.blk[i].ack \in UInt /\ q.blk[i].ack <= have
      BY <2>1, <1>0, <1>2, <1>4, UsedBlock, QueueFields DEF AcksUpTo
    <3> QED BY <3>1, <1>0, <1>2, Widths
  <2> QED BY <2>1 DEF AcksUpTo
<1>7. ASSUME NEW k \in Fds PROVE HeartbeatsUpTo(net[k].out[e], have + 1)
  <2> DEFINE w == net[k].out[e]
  <2>1. w \in Seq(Blocks)
    BY ConnFields, EndTypes DEF IInv
  <2>2. HeartbeatsUpTo(w, have)
    BY <1>4
  <2> HIDE DEF w
  <2>3. ASSUME NEW j \in DOMAIN w, IsHeartbeat(w[j]) PROVE w[j].ack <= have + 1
    <3>1. w[j] \in Blocks
      BY <2>1
    <3>2. w[j].ack \in UInt /\ w[j].ack <= have
      BY <3>1, <2>2, <2>3 DEF Blocks, HeartbeatsUpTo
    <3> QED BY <3>2, <1>0, Widths
  <2>4. HeartbeatsUpTo(w, have + 1)
    BY <2>3 DEF HeartbeatsUpTo
  <2> QED BY <2>4 DEF w
<1> QED BY <1>0, <1>1, <1>3, <1>4, <1>5, <1>6, <1>7, EndCounts

\* Front() reads one block.
LEMMA RecvCounts ==
  ASSUME IInv, CountsInv, AcksRecent, NEW e \in Ends, Recv(e)
  PROVE  CountsInv'
<1> USE DEF files, bufs, logins
<1> DEFINE o == Peer(e)
           q == file[e]
<1>0. /\ o \in Ends /\ o # e /\ Peer(o) = e /\ file \in [Ends -> Queues] /\ net \in [Fds -> Conns]
      /\ q \in Queues /\ q.ack_seq \in UInt /\ file[o] \in Queues /\ pushed[o] \in UInt /\ pushed[e] \in UInt
      /\ file[o].ack_seq \in UInt /\ QueueInv(q, pushed[e])
      /\ \E h \in Int : Starts(q, pushed[e], h, file[o].ack_seq)
      /\ CountInv(e) /\ CountInv(o) /\ pushed[e] <= pushed[e]
  BY CountTypes
<1>1. sock[e].up /\ UNCHANGED <<alloced, pushed>>
  BY DEF Recv
<1>2. PICK k \in Fds : k = sock[e].fd
  BY <1>1, EndTypes DEF IInv
<1> DEFINE wire == net[k].out[o]
           b == Head(wire)
           blocks == Append(part[e], b)
           a == IF IsHeartbeat(b) THEN b.ack ELSE blocks[1].ack
           q2 == Ack(q, a)
<1>3. wire # <<>> /\ net' = [net EXCEPT ![k].out[o] = Tail(wire)] /\ file' = [file EXCEPT ![e] = q2]
  BY <1>2 DEF Recv
<1>4. a \in UInt /\ ~ Before(file[o].ack_seq, a)
  BY <1>1, <1>2, <1>3, RecvAck
<1> HIDE DEF a
<1>5. q2 \in Queues /\ \E s \in Nat : Shrinks(q, pushed[e], q2, s)
  <2> DEFINE p == pushed[e]
             have == file[o].ack_seq
  <2>1. PICK h \in Int : Starts(q, p, h, have)
    BY <1>0
  <2> HIDE DEF q, p, have, q2
  <2> QED BY <2>1, <1>0, <1>4, AckShrinks DEF p, have, q2
<1> HIDE DEF q2
<1>6. AcksUpTo(q2, q.ack_seq) /\ q2.ack_seq = q.ack_seq
  <2>1. PICK s \in Nat : Shrinks(q, pushed[e], q2, s)
    BY <1>5
  <2>2. AcksUpTo(q, q.ack_seq)
    BY <1>0 DEF CountInv
  <2> HIDE DEF q
  <2> QED BY <2>1, <2>2, <1>0, <1>5, AcksMoved DEF Shrinks
<1>7. file'[e] = q2 /\ file'[o] = file[o]
  BY <1>0, <1>3
<1>8. /\ pushed[e] <= MaxPushes /\ (alloced[e] => pushed[e] < MaxPushes)
      /\ q.ack_seq <= pushed[o] /\ \A j \in Fds : HeartbeatsUpTo(net[j].out[e], q.ack_seq)
      /\ \A j \in Fds : HeartbeatsUpTo(net[j].out[o], file[o].ack_seq)
  BY <1>0 DEF CountInv
<1>9. /\ net'[k].out[o] = Tail(wire) /\ net'[k].out[e] = net[k].out[e]
      /\ \A j \in Fds \ {k} : net'[j] = net[j]
  <2> DEFINE n == net[k]
             t == Tail(wire)
             out == [n.out EXCEPT ![o] = t]
             n2 == [n EXCEPT !.out = out]
  <2>1. n \in Conns /\ n.out \in [Ends -> Seq(Blocks)] /\ wire \in Seq(Blocks) /\ t \in Seq(Blocks)
    BY <1>0, <1>3, ConnFields
  <2>2. net' = [net EXCEPT ![k] = n2]
    BY <1>0, <1>3
  <2>3. out[o] = t /\ out[e] = n.out[e]
    <3> HIDE DEF t, n
    <3> QED BY <2>1, <1>0
  <2> HIDE DEF out
  <2>4. n2.out = out
    BY <2>1 DEF Conns
  <2> HIDE DEF n2
  <2>5. net'[k] = n2 /\ \A j \in Fds \ {k} : net'[j] = net[j]
    BY <2>2, <1>0
  <2> QED BY <2>3, <2>4, <2>5
<1>10. HeartbeatsUpTo(Tail(wire), file[o].ack_seq)
  <2>1. wire \in Seq(Blocks) /\ HeartbeatsUpTo(wire, file[o].ack_seq)
    BY <1>0, <1>8, ConnFields
  <2> HIDE DEF wire
  <2> QED BY <2>1, <1>3, HeartbeatsTail
<1>11. \A j \in Fds : HeartbeatsUpTo(net'[j].out[o], file[o].ack_seq)
  <2> HIDE DEF wire
  <2> QED BY <1>8, <1>9, <1>10
<1>12. \A j \in Fds : HeartbeatsUpTo(net'[j].out[e], q.ack_seq)
  BY <1>8, <1>9
<1> HIDE DEF wire, b, blocks
<1> QED BY <1>0, <1>1, <1>6, <1>7, <1>8, <1>11, <1>12, EndCounts

\* Open(): the queue gives up what the peer has, and sends no heartbeat.
LEMMA OpenCounts ==
  ASSUME IInv, CountsInv, NEW e \in Ends, NEW k \in Fds,
         NEW b \in UInt, ~ Before(file[Peer(e)].ack_seq, b),
         NEW r \in SendPending(e, LoginAck(file[e], b), net[k]),
         file' = [file EXCEPT ![e] = r.q], UNCHANGED <<alloced, pushed>>,
         net'[k].out = r.n.out, \A j \in Fds \ {k} : net'[j] = net[j]
  PROVE  CountsInv'
<1> DEFINE o == Peer(e)
           q == file[e]
           p == pushed[e]
           have == file[o].ack_seq
           a == q.ack_seq
           q2 == LoginAck(q, b)
           n == net[k]
<1>0. /\ o \in Ends /\ o # e /\ Peer(o) = e /\ file \in [Ends -> Queues] /\ net \in [Fds -> Conns]
      /\ q \in Queues /\ p \in UInt /\ p <= p /\ have \in UInt /\ QueueInv(q, p)
      /\ \E h \in Int : Starts(q, p, h, have)
      /\ n \in Conns /\ Len(n.out[e]) <= WireCap
      /\ CountInv(e) /\ CountInv(o)
  BY CountTypes
<1>1. /\ q2 \in Queues /\ QueueInv(q2, p) /\ SendInv(q2)
      /\ r.q \in Queues /\ r.q.blk = q2.blk /\ r.q.write_idx = q2.write_idx /\ r.q.read_idx = q2.read_idx
      /\ r.q.ack_seq = a /\ r.n.out[o] = n.out[o]
  BY OpensIs
<1>2. r \in SendPending(e, q2, n)
  OBVIOUS
<1>3. /\ p <= MaxPushes /\ (alloced[e] => p < MaxPushes) /\ a <= pushed[o] /\ AcksUpTo(q, a)
      /\ \A j \in Fds : HeartbeatsUpTo(net[j].out[e], a)
      /\ \A j \in Fds : HeartbeatsUpTo(net[j].out[o], have)
  BY <1>0 DEF CountInv
<1>4. AcksUpTo(r.q, a)
  <2> DEFINE q1 == Ack(q, b)
  <2>1. PICK h \in Int : Starts(q, p, h, have)
    BY <1>0
  <2> HIDE DEF q, p, have, a
  <2>2. ~ Before(have, b)
    BY DEF have
  <2>3. q1 \in Queues /\ \E s \in Nat : Shrinks(q, p, q1, s)
    BY <2>1, <2>2, <1>0, AckShrinks
  <2>4. q2.blk = q1.blk /\ q2.write_idx = q1.write_idx /\ q2.read_idx = q1.read_idx
    BY <2>3, LoginAckIs
  <2> HIDE DEF q1, q2
  <2>5. PICK s \in Nat : Shrinks(q, p, q1, s)
    BY <2>3
  <2>6. AcksUpTo(q1, a)
    BY <2>3, <2>5, <1>0, <1>3, AcksMoved
  <2>7. AcksUpTo(q2, a)
    BY <2>4, <2>6, AcksSame
  <2> DEFINE rq == r.q
  <2>8. rq.blk = q2.blk /\ rq.write_idx = q2.write_idx /\ rq.read_idx = q2.read_idx
    BY <1>1
  <2> HIDE DEF rq
  <2>9. AcksUpTo(rq, a)
    BY <2>7, <2>8, AcksSame
  <2> QED BY <2>9 DEF rq
<1>5. HeartbeatsUpTo(r.n.out[e], a)
  <2>1. HeartbeatsUpTo(n.out[e], a)
    BY <1>3
  <2> HIDE DEF n, q2, a, p
  <2> QED BY <2>1, <1>0, <1>1, <1>2, HeartbeatsPending, ZenonT(40)
<1>6. file'[e] = r.q /\ file'[o] = file[o]
  BY <1>0
<1>7. \A j \in Fds : HeartbeatsUpTo(net'[j].out[e], a)
  BY <1>3, <1>5
<1>8. \A j \in Fds : HeartbeatsUpTo(net'[j].out[o], have)
  BY <1>1, <1>3
<1> HIDE DEF q2, n
<1> QED BY <1>0, <1>1, <1>3, <1>4, <1>6, <1>7, <1>8, EndCounts

\* The acknowledgement that a login is on with is not ahead of the client's.
LEMMA LoginAckRecent ==
  ASSUME IInv, login # NoLogin
  PROVE  login.fd \in Fds /\ login.ack \in UInt /\ ~ Before(file[C].ack_seq, login.ack)
<1> DEFINE b == login.ack
<1>1. login.fd \in Fds /\ b \in UInt /\ Off(file[S], b) <= Off(file[S], file[C].ack_seq)
  BY DEF IInv, TypeOK, MoreTypes, PhaseInv
<1>2. /\ Off(file[S], file[C].ack_seq) \in Nat /\ Off(file[S], pushed[S]) \in Nat
      /\ Off(file[S], file[C].ack_seq) <= Off(file[S], pushed[S])
      /\ Off(file[S], pushed[S]) < HalfRange /\ Off(file[S], b) \in Nat
      /\ Off(file[S], b) < HalfRange => (~ Before(file[C].ack_seq, b) <=> Off(file[S], b) <= Off(file[S], file[C].ack_seq))
  BY <1>1, EndsAre, AckedOff
<1>3. HalfRange \in Nat
  BY Widths
<1> QED BY <1>1, <1>2, <1>3

\* The server's Open().
LEMMA OpenLiveCounts ==
  ASSUME IInv, CountsInv, OpenLive
  PROVE  CountsInv'
<1> DEFINE k == login.fd
           b == login.ack
<1>1. /\ login # NoLogin /\ UNCHANGED <<alloced, pushed>>
  BY DEF OpenLive
<1>2. k \in Fds /\ b \in UInt /\ ~ Before(file[C].ack_seq, b)
  BY <1>1, LoginAckRecent
<1>3. Peer(S) = C /\ S \in Ends
  BY EndsAre
<1>4. PICK r \in SendPending(S, LoginAck(file[S], b), net[k]) :
        Opened(S, k, r) /\ net' = [net EXCEPT ![k] = r.n]
  BY <1>2 DEF OpenLive, OpenOutcomes
<1> HIDE DEF b
<1>5. r.n \in Conns /\ net \in [Fds -> Conns]
  BY <1>2, <1>3, <1>4, OpensIs DEF IInv, MoreTypes
<1>6. net'[k] = r.n /\ \A j \in Fds \ {k} : net'[j] = net[j]
  BY <1>2, <1>4, <1>5, NetChanged
<1>7. file' = [file EXCEPT ![S] = r.q]
  BY <1>4 DEF Opened
<1> HIDE DEF k
<1> QED BY <1>1, <1>2, <1>3, <1>4, <1>6, <1>7, OpenCounts

\* The LoginRsp: the client's Open(), or a refusal.
LEMMA RecvLoginRspCounts ==
  ASSUME IInv, CountsInv, RecvLoginRsp
  PROVE  CountsInv'
<1>1. CASE net[connecting].rsp.status = "ok"
  <2> DEFINE k == connecting
  <2>1. k \in Fds /\ UNCHANGED <<alloced, pushed>>
    BY <1>1, LoggedInIs
  <2>2. PICK r \in SendPending(C, LoginAck(file[C], file[S].ack_seq), net[k]) :
          /\ Opened(C, k, r) /\ net'[k].out = r.n.out /\ \A j \in Fds \ {k} : net'[j] = net[j]
    BY <1>1, LoggedInIs
  <2>3. Peer(C) = S /\ C \in Ends
    BY EndsAre
  <2>4. file' = [file EXCEPT ![C] = r.q]
    BY <2>2 DEF Opened
  <2>5. file[S].ack_seq \in UInt /\ ~ Before(file[S].ack_seq, file[S].ack_seq)
    BY EndsAre, EndTypes, NotBeforeSelf DEF IInv
  <2> HIDE DEF k
  <2> QED BY <2>1, <2>2, <2>3, <2>4, <2>5, OpenCounts
<1>2. CASE net[connecting].rsp.status # "ok"
  BY <1>2, RefusedIs, GiveUpCounts
<1> QED BY <1>1, <1>2

\* HandleLogin() until the LoginRsp is sent: a client that knows no server has
\* pushed and consumed nothing when the server's queue is cleared.
LEMMA HandleLoginCounts ==
  ASSUME IInv, CountsInv, AcksRecent, ~ LateLogin, NEW m \in backlog, HandleLogin(m)
  PROVE  CountsInv'
<1>0. C \in Ends /\ S \in Ends /\ Peer(C) = S /\ Peer(S) = C /\ C # S /\ \A d \in Ends : d = C \/ d = S
  BY EndsAre
<1>1. PICK n :
        /\ AnswerStep(m, n)
        /\ \/ UNCHANGED <<file, pushed>> /\ login' = NoLogin /\ ~ n.open[S]
           \/ /\ sock[S].fd = NoFd
              /\ file'[S] = IF m.known THEN file[S] ELSE ZeroQueue
              /\ pushed'[S] = IF m.known THEN pushed[S] ELSE 0
  BY HandleLoginIs
<1>2. /\ file'[C] = file[C] /\ pushed'[C] = pushed[C] /\ alloced' = alloced
      /\ \A e \in Ends : n.out[e] = <<>>
      /\ m.known \/ ~ last_server
  BY <1>1, HandleLoginIs DEF AnswerStep
<1>3. \A k \in Fds, e \in Ends : net'[k].out[e] \in {net[k].out[e], <<>>}
  <2>1. net'[m.fd] = n /\ \A j \in Fds \ {m.fd} : net'[j] = net[j]
    BY <1>1, AnswerIs
  <2> QED BY <2>1, <1>2
<1>4. ASSUME NEW e \in Ends, NEW a, \A k \in Fds : HeartbeatsUpTo(net[k].out[e], a)
      PROVE  \A k \in Fds : HeartbeatsUpTo(net'[k].out[e], a)
  BY <1>3, <1>4, NoHeartbeats
<1>5. CountInv(C) /\ CountInv(S)
  BY <1>0 DEF CountsInv
<1>6. CASE file'[S] = file[S] /\ pushed'[S] = pushed[S]
  <2>1. ASSUME NEW e \in Ends PROVE CountInv(e)'
    <3>1. /\ file'[e] = file[e] /\ pushed'[e] = pushed[e] /\ pushed'[Peer(e)] = pushed[Peer(e)] /\ CountInv(e)
      BY <1>0, <1>2, <1>5, <1>6
    <3>2. \A k \in Fds : HeartbeatsUpTo(net[k].out[e], file[e].ack_seq)
      BY <3>1 DEF CountInv
    <3>3. \A k \in Fds : HeartbeatsUpTo(net'[k].out[e], file[e].ack_seq)
      BY <3>2, <1>4
    <3> QED BY <3>1, <3>3, <1>2 DEF CountInv
  <2> QED BY <2>1 DEF CountsInv
<1>7. CASE ~ last_server /\ sock[S].fd = NoFd /\ file'[S] = ZeroQueue /\ pushed'[S] = 0
  <2>1. file[C] = ZeroQueue /\ pushed[C] = 0 /\ file[C].ack_seq = 0 /\ file[S].ack_seq = 0
    BY <1>7, FreshClient
  <2>2. ZeroQueue.ack_seq = 0 /\ ZeroQueue.read_idx = 0 /\ ZeroQueue.write_idx = 0
    BY DEF ZeroQueue
  <2>3. ~ alloced[S] /\ MaxPushes \in Nat
    BY <1>7, SessionAssumption DEF IInv, PhaseInv
  <2> DEFINE z == ZeroQueue
             zero == 0
  <2>4. AcksUpTo(z, zero)
    <3> HIDE DEF z, zero
    <3> QED BY <2>2 DEF AcksUpTo, z
  <2>5. ASSUME NEW e \in Ends PROVE CountInv(e)'
    <3>1. file'[e] = z /\ pushed'[e] = 0 /\ pushed'[Peer(e)] = 0 /\ file[e].ack_seq = zero /\ z.ack_seq = zero
      BY <2>1, <2>2, <1>0, <1>2, <1>7
    <3>2. \A k \in Fds : HeartbeatsUpTo(net[k].out[e], file[e].ack_seq)
      BY DEF CountsInv, CountInv
    <3>3. \A k \in Fds : HeartbeatsUpTo(net'[k].out[e], zero)
      BY <3>1, <3>2, <1>4
    <3>4. alloced'[e] => pushed'[e] < MaxPushes
      BY <2>1, <2>3, <1>0, <1>2, <1>5 DEF CountInv
    <3>5. pushed'[e] <= MaxPushes /\ file'[e].ack_seq <= pushed'[Peer(e)]
      BY <3>1, <2>3
    <3>6. AcksUpTo(file'[e], file'[e].ack_seq) /\ \A k \in Fds : HeartbeatsUpTo(net'[k].out[e], file'[e].ack_seq)
      BY <3>1, <3>3, <2>4
    <3> QED BY <3>4, <3>5, <3>6 DEF CountInv
  <2> QED BY <2>5 DEF CountsInv
<1>8. CASE UNCHANGED <<file, pushed>>
  BY <1>8, <1>6
<1>9. CASE /\ sock[S].fd = NoFd
           /\ file'[S] = IF m.known THEN file[S] ELSE ZeroQueue
           /\ pushed'[S] = IF m.known THEN pushed[S] ELSE 0
  <2>1. CASE m.known
    BY <1>9, <2>1, <1>6
  <2>2. CASE ~ m.known
    BY <1>9, <2>2, <1>2, <1>7
  <2> QED BY <2>1, <2>2
<1> QED BY <1>1, <1>8, <1>9

\* Nothing is pushed and nothing is under way at the start.
LEMMA InitCounts ==
  ASSUME Init
  PROVE  CountsInv
<1> DEFINE z == ZeroQueue
           zero == 0
<1>1. z.ack_seq = zero /\ z.read_idx = 0 /\ z.write_idx = 0
  BY DEF ZeroQueue
<1>2. AcksUpTo(z, zero)
  <2> HIDE DEF z, zero
  <2> QED BY <1>1 DEF AcksUpTo
<1>3. ASSUME NEW e \in Ends PROVE CountInv(e)
  <2>1. Peer(e) \in Ends
    BY EndsAre
  <2>2. file[e] = z /\ pushed[e] = 0 /\ pushed[Peer(e)] = 0 /\ alloced[e] = FALSE /\ \A k \in Fds : net[k] = FreeNet
    BY <2>1 DEF Init
  <2>3. \A k \in Fds : HeartbeatsUpTo(net[k].out[e], zero)
    BY <2>2, FreeNetIs, NoHeartbeats
  <2> HIDE DEF z
  <2>4. pushed[e] <= MaxPushes /\ file[e].ack_seq <= pushed[Peer(e)]
    BY <2>2, <1>1, SessionAssumption
  <2> QED BY <2>2, <2>3, <2>4, <1>1, <1>2 DEF CountInv
<1> QED BY <1>3 DEF CountsInv

\* Every step keeps the counts.
LEMMA NextCounts ==
  ASSUME IInv, IInv', CountsInv, AcksRecent, MaxPushes < HalfRange, ~ LateLogin, Next
  PROVE  CountsInv'
<1>1. ASSUME NEW e \in Ends, NEW len \in MsgLens, AllocMsg(e, len) PROVE CountsInv'
  BY <1>1, AllocCounts
<1>2. ASSUME NEW e \in Ends, NEW more \in BOOLEAN, PushMsg(e, more) PROVE CountsInv'
  BY <1>2, PushCounts
<1>3. ASSUME NEW e \in Ends, SendHB(e) \/ Recv(e) \/ Pop(e) PROVE CountsInv'
  BY <1>3, HeartbeatCounts, RecvCounts, PopCounts
<1>4. ASSUME NEW e \in Ends, RemoteClose(e) \/ Close(e) \/ TryCloseFd(e) PROVE CountsInv'
  BY <1>4, CloseCounts
<1>5. ASSUME NEW k \in Fds, NetReset(k) \/ Connect(k) PROVE CountsInv'
  BY <1>5, ResetCounts, ConnectCounts
<1>6. CASE ConnectFails
  <2>1. /\ connecting # NoFd /\ net' = [net EXCEPT ![connecting] = Closed(net[connecting], C)]
        /\ UNCHANGED <<file, pushed, alloced>>
    BY <1>6 DEF ConnectFails, files, bufs
  <2> QED BY <2>1, GiveUpCounts
<1>7. CASE RecvLoginRsp
  BY <1>7, RecvLoginRspCounts
<1>8. ASSUME NEW m \in backlog, HandleLogin(m) \/ DropLogin(m) PROVE CountsInv'
  BY <1>8, HandleLoginCounts, ResetCounts
<1>9. ASSUME NEW e \in Ends, Crash(e) PROVE CountsInv'
  BY <1>9, CrashCounts
<1> QED BY <1>1, <1>2, <1>3, <1>4, <1>5, <1>6, <1>7, <1>8, <1>9, OpenLiveCounts DEF Next

\* A step that changes nothing.
LEMMA StutterCounts ==
  ASSUME CountsInv, UNCHANGED vars
  PROVE  CountsInv'
BY QuietCounts DEF vars, files, bufs

-----------------------------------------------------------------------------
(* Messages stay in the file of their sender until they are popped.        *)

\* Number a is before b if both are in the window that starts at r.
LEMMA BeforeInWindow ==
  ASSUME NEW r \in UInt, NEW a \in UInt, NEW b \in UInt, Sub(a, r) < Sub(b, r), Sub(b, r) < HalfRange
  PROVE  Before(a, b)
BY Widths DEF Before, Sub

\* The messages that are in queue q and not in q2 are before number a.
DropsBefore(q, q2, a) == \A id \in Queued(q) \ Queued(q2) : Before(id, a)

\* A queue that gives up messages in front of number have drops those before it.
LEMMA ShrinkDrops ==
  ASSUME NEW q \in Queues, NEW p \in UInt, QueueInv(q, p), NEW q2 \in Queues, NEW s \in Nat,
         Shrinks(q, p, q2, s), NEW have \in UInt, NEW h, Starts(q, p, h, have), q2.read_idx + s <= h
  PROVE  DropsBefore(q, q2, have)
<1>0. q.read_idx \in Int /\ q.write_idx \in Int /\ q2.read_idx \in Int /\ q2.write_idx \in Int /\ h \in Int
  BY QueueFields DEF Starts
<1>1. /\ q2.write_idx + s = q.write_idx
      /\ \A i \in q2.read_idx + s .. q.write_idx - 1 : q2.blk[i - s] = q.blk[i]
  BY DEF Shrinks, Moves
<1> SUFFICES ASSUME NEW id \in Queued(q) \ Queued(q2) PROVE Before(id, have)
  BY DEF DropsBefore
<1>2. PICK i \in q.read_idx .. q.write_idx - 1 : id = q.blk[i].id
  BY DEF Queued
<1>3. i < q2.read_idx + s
  <2> SUFFICES ASSUME i >= q2.read_idx + s PROVE FALSE
    BY <1>0
  <2>1. i - s \in q2.read_idx .. q2.write_idx - 1 /\ i \in q2.read_idx + s .. q.write_idx - 1
    BY <1>0, <1>1
  <2>2. q2.blk[i - s].id = id
    BY <2>1, <1>1, <1>2
  <2> QED BY <2>1, <2>2 DEF Queued
<1> DEFINE g == i - q.blk[i].part
<1>4. g \in q.read_idx .. i /\ Starts(q, p, g, id) /\ id \in UInt
  <2>1. i \in 0 .. BLK_CNT - 1
    BY UsedBlock
  <2> QED BY <2>1, <1>2, BlockOfMessage, QueueFields
<1> HIDE DEF g
<1>5. g < h
  BY <1>0, <1>3, <1>4
<1>6. Off(q, id) < Off(q, have) /\ Off(q, have) <= Off(q, p) /\ Off(q, have) \in Nat
  BY <1>4, <1>5, StartsOnce
<1>7. Off(q, p) \in Nat /\ Off(q, p) <= BLK_CNT
  BY QueueCount, QueueFields, Widths
<1>8. Off(q, have) < HalfRange
  BY <1>6, <1>7, Widths
<1> DEFINE r == q.read_seq
<1>9. r \in UInt /\ Sub(id, r) < Sub(have, r) /\ Sub(have, r) < HalfRange
  BY <1>6, <1>8, QueueFields DEF Off
<1> HIDE DEF r
<1> QED BY <1>4, <1>9, BeforeInWindow

\* A queue that keeps its blocks, and maybe has more, drops nothing.
LEMMA GrowthDrops ==
  ASSUME NEW q \in Queues, NEW q2 \in Queues, q2.read_idx = q.read_idx, q.write_idx <= q2.write_idx,
         \A i \in 0 .. BLK_CNT - 1 : q2.blk[i].id = q.blk[i].id, NEW a
  PROVE  DropsBefore(q, q2, a)
<1>0. q.read_idx \in Int /\ q.write_idx \in Int /\ q2.write_idx \in Int
  BY QueueFields
<1> SUFFICES ASSUME NEW id \in Queued(q) PROVE id \in Queued(q2)
  BY DEF DropsBefore
<1>1. PICK i \in q.read_idx .. q.write_idx - 1 : id = q.blk[i].id
  BY DEF Queued
<1>2. i \in 0 .. BLK_CNT - 1 /\ i \in q2.read_idx .. q2.write_idx - 1
  BY <1>0, UsedBlock
<1> QED BY <1>1, <1>2 DEF Queued

\* What a step that changes the file of one end has to show.
LEMMA EndKeeps ==
  ASSUME NEW e \in Ends, NEW q2, file \in [Ends -> Queues], file' = [file EXCEPT ![e] = q2],
         DropsBefore(file[e], q2, file[Peer(e)].ack_seq)
  PROVE  Kept
<1>1. /\ Peer(e) \in Ends /\ Peer(e) # e /\ file'[e] = q2 /\ \A d \in Ends : d = e \/ file'[d] = file[d]
  BY EndsAre
<1> QED BY <1>1 DEF Kept, DropsBefore

\* What the invariant says of the file of one end.
LEMMA FileIs ==
  ASSUME IInv, NEW e \in Ends
  PROVE  /\ Peer(e) \in Ends /\ file \in [Ends -> Queues] /\ file[e] \in Queues /\ pushed[e] \in UInt
         /\ QueueInv(file[e], pushed[e]) /\ SendInv(file[e]) /\ (alloced[e] => AllocInv(file[e], pushed[e]))
         /\ file[Peer(e)].ack_seq \in UInt
         /\ \E h \in Int : Starts(file[e], pushed[e], h, file[Peer(e)].ack_seq)
         /\ net \in [Fds -> Conns] /\ \A k \in Fds, d \in Ends : Len(net[k].out[d]) <= WireCap
<1>1. TypeOK /\ MoreTypes /\ QueuesInv /\ Acked(e) /\ Peer(e) \in Ends
  BY EndsAre DEF IInv
<1>2. file \in [Ends -> Queues] /\ net \in [Fds -> Conns]
  BY <1>1 DEF TypeOK, MoreTypes, Queues, Blocks, QBlocks
<1>3. \A k \in Fds, d \in Ends : Len(net[k].out[d]) <= WireCap
  BY <1>1 DEF TypeOK
<1>4. \E h \in Int : Starts(file[e], pushed[e], h, file[Peer(e)].ack_seq)
  BY <1>1 DEF Acked, AckedOK
<1> QED BY <1>1, <1>2, <1>3, <1>4, EndTypes DEF QueuesInv

\* An acknowledgement of something that the peer has consumed drops no more than that.
LEMMA AckDrops ==
  ASSUME IInv, NEW e \in Ends, NEW a \in UInt, ~ Before(file[Peer(e)].ack_seq, a)
  PROVE  Ack(file[e], a) \in Queues /\ DropsBefore(file[e], Ack(file[e], a), file[Peer(e)].ack_seq)
<1> DEFINE q == file[e]
           p == pushed[e]
           have == file[Peer(e)].ack_seq
           q2 == Ack(q, a)
<1>1. q \in Queues /\ p \in UInt /\ QueueInv(q, p) /\ have \in UInt /\ ~ Before(have, a)
  BY FileIs
<1>2. PICK h \in Int : Starts(q, p, h, have)
  BY FileIs
<1> HIDE DEF q, p, have
<1>3. q2 \in Queues /\ \E s \in Nat : Shrinks(q, p, q2, s) /\ q2.read_idx + s <= h
  BY <1>1, <1>2, AckShrinks
<1> HIDE DEF q2
<1>4. DropsBefore(q, q2, have)
  BY <1>1, <1>2, <1>3, ShrinkDrops
<1> QED BY <1>3, <1>4 DEF q, q2, have

\* Alloc() moves messages and drops none.
LEMMA AllocKept ==
  ASSUME IInv, NEW e \in Ends, NEW len \in MsgLens, AllocMsg(e, len)
  PROVE  Kept
<1> DEFINE q == file[e]
           p == pushed[e]
           have == file[Peer(e)].ack_seq
           q2 == Alloc(q, len, p)
<1>1. q \in Queues /\ p \in UInt /\ QueueInv(q, p) /\ SendInv(q) /\ have \in UInt /\ file \in [Ends -> Queues]
  BY FileIs
<1>2. PICK h \in Int : Starts(q, p, h, have)
  BY FileIs
<1>3. file' = [file EXCEPT ![e] = q2] /\ ~ AllocFails(q, len) /\ len \in Nat \ {0}
  BY SessionAssumption DEF AllocMsg
<1> HIDE DEF q, p, have
<1>4. q2 \in Queues /\ \E s \in Nat : Shrinks(q, p, q2, s) /\ q2.read_idx + s = q.read_idx
  BY <1>1, <1>3, AllocShrinks
<1>5. q.read_idx <= h
  BY <1>1, <1>2, QueueFields DEF Starts
<1> HIDE DEF q2
<1>6. DropsBefore(q, q2, have)
  BY <1>1, <1>2, <1>4, <1>5, ShrinkDrops
<1> QED BY <1>1, <1>3, <1>6, EndKeeps DEF q, have

\* Sending from a queue that has all messages of the file drops none.
LEMMA SentKept ==
  ASSUME IInv, NEW e \in Ends, NEW q \in Queues, SendInv(q),
         \A q2 \in Queues : q2.blk = q.blk /\ q2.write_idx = q.write_idx /\ q2.read_idx = q.read_idx
           => DropsBefore(file[e], q2, file[Peer(e)].ack_seq),
         NEW r \in SendOutcomes(e, q), Sent(e, r)
  PROVE  Kept
<1>1. file \in [Ends -> Queues] /\ net \in [Fds -> Conns] /\ \A k \in Fds, d \in Ends : Len(net[k].out[d]) <= WireCap
  BY FileIs
<1>2. r.q \in Queues /\ r.q.blk = q.blk /\ r.q.write_idx = q.write_idx /\ r.q.read_idx = q.read_idx
  <2>1. CASE ~ sock[e].up
    BY <2>1 DEF SendOutcomes
  <2>2. CASE sock[e].up
    <3>1. PICK k \in Fds : k = sock[e].fd
      BY <2>2, EndTypes DEF IInv
    <3> DEFINE n == net[k]
    <3>2. n \in Conns /\ Len(n.out[e]) <= WireCap /\ r \in SendPending(e, q, n)
      BY <1>1, <2>2, <3>1 DEF SendOutcomes
    <3> HIDE DEF n
    <3> QED BY <3>2, SendPendingIs
  <2> QED BY <2>1, <2>2
<1>3. file' = [file EXCEPT ![e] = r.q]
  BY DEF Sent
<1>4. DropsBefore(file[e], r.q, file[Peer(e)].ack_seq)
  BY <1>2
<1> QED BY <1>1, <1>3, <1>4, EndKeeps

\* Push() and PushMore() add a message.
LEMMA PushKept ==
  ASSUME IInv, NEW e \in Ends, NEW more \in BOOLEAN, PushMsg(e, more)
  PROVE  Kept
<1> DEFINE q == file[e]
           p == pushed[e]
           have == file[Peer(e)].ack_seq
           q2 == Push(q)
<1>1. /\ q \in Queues /\ p \in UInt /\ QueueInv(q, p) /\ SendInv(q) /\ AllocInv(q, p)
      /\ have \in UInt /\ file \in [Ends -> Queues]
  BY FileIs DEF PushMsg
<1>2. /\ q2 \in Queues /\ q2.read_idx = q.read_idx /\ q2.send_idx = q.send_idx /\ q.write_idx <= q2.write_idx
      /\ \A i \in 0 .. BLK_CNT - 1 : q2.blk[i].id = q.blk[i].id
  <2> HIDE DEF q, p
  <2>1. /\ q2 \in Queues /\ q2.write_idx = q.write_idx + q.blk[q.write_idx].len
        /\ q2.read_idx = q.read_idx /\ q2.send_idx = q.send_idx
        /\ \A i \in 0 .. BLK_CNT - 1 : q2.blk[i].id = q.blk[i].id
    BY <1>1, PushIs
  <2>2. q.write_idx \in 0 .. BLK_CNT - 1 /\ q.blk[q.write_idx].len > 0
    BY <1>1, QueueFields, Widths DEF AllocInv
  <2>3. q.blk[q.write_idx].len \in 0 .. BLK_CNT /\ q.write_idx \in Int
    BY <1>1, <2>2, QueueFields
  <2> QED BY <2>1, <2>2, <2>3
<1>3. SendInv(q2)
  BY <1>1, <1>2, QueueFields DEF SendInv
<1> HIDE DEF q, have, p
<1>4. ASSUME NEW q3 \in Queues, q3.blk = q2.blk, q3.write_idx = q2.write_idx, q3.read_idx = q2.read_idx
      PROVE  DropsBefore(q, q3, have)
  <2> HIDE DEF q2
  <2> QED BY <1>1, <1>2, <1>4, GrowthDrops
<1>5. CASE more
  <2>1. file' = [file EXCEPT ![e] = q2]
    BY <1>5 DEF PushMsg, q
  <2> QED BY <2>1, <1>1, <1>2, <1>4, EndKeeps DEF q, have
<1>6. CASE ~ more
  <2>1. PICK r \in SendOutcomes(e, q2) : Sent(e, r)
    BY <1>6 DEF PushMsg, q
  <2> HIDE DEF q2
  <2> QED BY <2>1, <1>2, <1>3, <1>4, SentKept DEF q, have
<1> QED BY <1>5, <1>6

\* A step that leaves the files alone.
LEMMA QuietKept ==
  ASSUME UNCHANGED file
  PROVE  Kept
BY DEF Kept

\* SendHB().
LEMMA HeartbeatKept ==
  ASSUME IInv, NEW e \in Ends, SendHB(e)
  PROVE  Kept
<1> DEFINE q == file[e]
           have == file[Peer(e)].ack_seq
<1>1. q \in Queues /\ SendInv(q) /\ file \in [Ends -> Queues]
  BY FileIs
<1>2. ASSUME NEW q3 \in Queues, q3.blk = q.blk, q3.write_idx = q.write_idx, q3.read_idx = q.read_idx
      PROVE  DropsBefore(q, q3, have)
  <2>1. q.write_idx <= q.write_idx
    BY <1>1, QueueFields
  <2> HIDE DEF q, have
  <2> QED BY <2>1, <1>1, <1>2, GrowthDrops
<1>3. CASE Pending(q) > 0
  <2>1. PICK r \in SendOutcomes(e, q) : Sent(e, r)
    BY <1>3 DEF SendHB
  <2> QED BY <2>1, <1>1, <1>2, SentKept
<1>4. CASE ~ (Pending(q) > 0)
  <2>1. PICK r : r.q = q /\ Sent(e, r)
    BY <1>4 DEF SendHB
  <2>2. file' = [file EXCEPT ![e] = q]
    BY <2>1 DEF Sent
  <2>3. file' = file
    BY <2>2, <1>1
  <2> QED BY <2>3, QuietKept
<1> QED BY <1>3, <1>4

\* Pop() changes MyAck() only.
LEMMA PopKept ==
  ASSUME IInv, NEW e \in Ends, Pop(e)
  PROVE  Kept
<1> DEFINE q == file[e]
           q2 == MyAckNext(q)
           have == file[Peer(e)].ack_seq
<1>1. q \in Queues /\ file \in [Ends -> Queues] /\ file' = [file EXCEPT ![e] = q2]
  BY FileIs DEF Pop
<1>2. q2 \in Queues /\ q2.blk = q.blk /\ q2.write_idx = q.write_idx /\ q2.read_idx = q.read_idx
  BY <1>1, MyAckNextIs
<1>3. q.write_idx <= q.write_idx
  BY <1>1, QueueFields
<1> HIDE DEF q, q2, have
<1>4. DropsBefore(q, q2, have)
  BY <1>1, <1>2, <1>3, GrowthDrops
<1> QED BY <1>1, <1>4, EndKeeps DEF q, have

\* Front() acknowledges what the peer has consumed.
LEMMA RecvKept ==
  ASSUME IInv, AcksRecent, NEW e \in Ends, Recv(e)
  PROVE  Kept
<1>1. sock[e].up
  BY DEF Recv
<1>2. PICK k \in Fds : k = sock[e].fd
  BY <1>1, EndTypes DEF IInv
<1> DEFINE wire == net[k].out[Peer(e)]
           b == Head(wire)
           blocks == Append(part[e], b)
           a == IF IsHeartbeat(b) THEN b.ack ELSE blocks[1].ack
<1>3. wire # <<>> /\ file' = [file EXCEPT ![e] = Ack(file[e], a)]
  BY <1>2 DEF Recv
<1>4. a \in UInt /\ ~ Before(file[Peer(e)].ack_seq, a)
  BY <1>1, <1>2, <1>3, RecvAck
<1> HIDE DEF a
<1>5. DropsBefore(file[e], Ack(file[e], a), file[Peer(e)].ack_seq) /\ file \in [Ends -> Queues]
  BY <1>4, AckDrops, FileIs
<1> QED BY <1>3, <1>5, EndKeeps

\* Open() acknowledges what the peer had consumed when it logged in.
LEMMA OpenKept ==
  ASSUME IInv, NEW e \in Ends, NEW k \in Fds, NEW b \in UInt, ~ Before(file[Peer(e)].ack_seq, b),
         NEW r \in SendPending(e, LoginAck(file[e], b), net[k]), file' = [file EXCEPT ![e] = r.q]
  PROVE  Kept
<1> DEFINE q == file[e]
           q1 == Ack(q, b)
           q2 == LoginAck(q, b)
           have == file[Peer(e)].ack_seq
<1>1. r.q.blk = q2.blk /\ r.q.write_idx = q2.write_idx /\ r.q.read_idx = q2.read_idx
  BY OpensIs
<1>2. q1 \in Queues /\ DropsBefore(q, q1, have) /\ file \in [Ends -> Queues]
  BY AckDrops, FileIs
<1>3. q2.blk = q1.blk /\ q2.write_idx = q1.write_idx /\ q2.read_idx = q1.read_idx
  <2> HIDE DEF q
  <2> QED BY <1>2, LoginAckIs
<1>4. Queued(r.q) = Queued(q1)
  BY <1>1, <1>3 DEF Queued
<1>5. DropsBefore(q, r.q, have)
  BY <1>2, <1>4 DEF DropsBefore
<1> QED BY <1>2, <1>5, EndKeeps

\* The server's Open().
LEMMA OpenLiveKept ==
  ASSUME IInv, OpenLive
  PROVE  Kept
<1> DEFINE k == login.fd
           b == login.ack
<1>1. k \in Fds /\ b \in UInt /\ ~ Before(file[C].ack_seq, b)
  BY LoginAckRecent DEF OpenLive
<1>2. Peer(S) = C /\ S \in Ends
  BY EndsAre
<1>3. PICK r \in SendPending(S, LoginAck(file[S], b), net[k]) : file' = [file EXCEPT ![S] = r.q]
  BY <1>1 DEF OpenLive, OpenOutcomes, Opened
<1> HIDE DEF b, k
<1> QED BY <1>1, <1>2, <1>3, OpenKept

\* The client's Open().
LEMMA RecvLoginRspKept ==
  ASSUME IInv, RecvLoginRsp
  PROVE  Kept
<1>1. CASE net[connecting].rsp.status = "ok"
  <2> DEFINE k == connecting
             b == file[S].ack_seq
  <2>1. /\ k \in Fds
        /\ \E r \in SendPending(C, LoginAck(file[C], b), net[k]) : file' = [file EXCEPT ![C] = r.q]
    BY <1>1, LoggedInIs DEF Opened
  <2>2. Peer(C) = S /\ C \in Ends /\ b \in UInt /\ ~ Before(b, b)
    BY EndsAre, EndTypes, NotBeforeSelf DEF IInv
  <2> HIDE DEF k, b
  <2>3. PICK r \in SendPending(C, LoginAck(file[C], b), net[k]) : file' = [file EXCEPT ![C] = r.q]
    BY <2>1
  <2>4. ~ Before(file[Peer(C)].ack_seq, b)
    BY <2>2 DEF b
  <2> QED BY <2>1, <2>2, <2>3, <2>4, OpenKept
<1>2. CASE net[connecting].rsp.status # "ok"
  BY <1>2, RefusedIs, QuietKept
<1> QED BY <1>1, <1>2

\* HandleLogin() clears no queue of a client that has recorded its server.
LEMMA HandleLoginKept ==
  ASSUME IInv, AcksRecent, ~ LateLogin, last_server, NEW m \in backlog, HandleLogin(m)
  PROVE  Kept
<1>1. PICK n :
        /\ AnswerStep(m, n)
        /\ \/ UNCHANGED <<file, pushed>> /\ login' = NoLogin /\ ~ n.open[S]
           \/ /\ sock[S].fd = NoFd
              /\ file'[S] = IF m.known THEN file[S] ELSE ZeroQueue
              /\ pushed'[S] = IF m.known THEN pushed[S] ELSE 0
  BY HandleLoginIs
<1>2. m.known /\ file'[C] = file[C]
  BY <1>1, HandleLoginIs DEF AnswerStep
<1>3. \A d \in Ends : file'[d] = file[d]
  BY <1>1, <1>2, EndsAre
<1> QED BY <1>3 DEF Kept

\* No step but the clearing of the server's queue for a client that knows no server
\* yet drops a message that was not popped.
LEMMA NextKept ==
  ASSUME IInv, AcksRecent, ~ LateLogin, last_server, Next
  PROVE  Kept
<1> USE DEF files
<1>1. ASSUME NEW e \in Ends, NEW len \in MsgLens, AllocMsg(e, len) PROVE Kept
  BY <1>1, AllocKept
<1>2. ASSUME NEW e \in Ends, NEW more \in BOOLEAN, PushMsg(e, more) PROVE Kept
  BY <1>2, PushKept
<1>3. ASSUME NEW e \in Ends, SendHB(e) \/ Recv(e) \/ Pop(e) PROVE Kept
  BY <1>3, HeartbeatKept, RecvKept, PopKept
<1>4. ASSUME NEW e \in Ends, RemoteClose(e) \/ Close(e) \/ TryCloseFd(e) PROVE Kept
  BY <1>4, QuietKept DEF RemoteClose, Close, TryCloseFd
<1>5. ASSUME NEW k \in Fds, NetReset(k) \/ Connect(k) PROVE Kept
  BY <1>5, QuietKept DEF NetReset, Connect
<1>6. CASE ConnectFails
  BY <1>6, QuietKept DEF ConnectFails
<1>7. CASE RecvLoginRsp
  BY <1>7, RecvLoginRspKept
<1>8. ASSUME NEW m \in backlog, HandleLogin(m) PROVE Kept
  BY <1>8, HandleLoginKept
<1>9. ASSUME NEW m \in backlog, DropLogin(m) PROVE Kept
  BY <1>9, QuietKept DEF DropLogin
<1>10. ASSUME NEW e \in Ends, Crash(e) PROVE Kept
  <2>1. file' = [file EXCEPT ![e] = file[e]]
    BY <1>10 DEF Crash, Dies
  <2>2. file' = file
    BY <2>1, FileIs
  <2> QED BY <2>2, QuietKept
<1> QED BY <1>1, <1>2, <1>3, <1>4, <1>5, <1>6, <1>7, <1>8, <1>9, <1>10, OpenLiveKept DEF Next

-----------------------------------------------------------------------------
(* What holds of every session.                                            *)

\* Every state that satisfies the two invariants leads to one that does.
LEMMA SessionSteps ==
  ASSUME ~ TwoThreads, ~ StalePoll, ~ LateLogin, MaxPushes < HalfRange, IInv, CountsInv, [Next]_vars
  PROVE  IInv' /\ CountsInv'
<1>1. AcksRecent
  BY CountsRecent
<1>2. CASE Next
  <2>1. IInv'
    BY <1>1, <1>2, NextKeeps
  <2> QED BY <2>1, <1>1, <1>2, NextCounts
<1>3. CASE UNCHANGED vars
  BY <1>3, StutterKeeps, StutterCounts
<1> QED BY <1>2, <1>3

\* With one thread at a time in a connection, no late first LoginMsg, and fewer
\* pushes than half the range of sequence numbers, the invariant holds and no
\* acknowledgement that Ack() reads is ahead of what its sender has consumed or too
\* old to be compared.
THEOREM SessionInvariant ==
  ASSUME ~ TwoThreads, ~ StalePoll, ~ LateLogin, MaxPushes < HalfRange
  PROVE  Spec => [](IInv /\ CountsInv /\ AcksRecent)
<1>1. Init => IInv /\ CountsInv
  BY InitHolds, InitCounts
<1>2. IInv /\ CountsInv /\ [Next]_vars => IInv' /\ CountsInv'
  BY SessionSteps
<1>3. IInv /\ CountsInv => AcksRecent
  BY CountsRecent
<1> QED BY <1>1, <1>2, <1>3, PTL DEF Spec

\* The types of the two ends: in particular the indexes that Alloc(), Push() and
\* Ack() compute stay within the file, whatever is lost or crashes.
THEOREM SessionTypes ==
  ASSUME ~ TwoThreads, ~ StalePoll, ~ LateLogin, MaxPushes < HalfRange
  PROVE  Spec => []TypeOK
<1>1. IInv => TypeOK
  BY DEF IInv
<1> QED BY <1>1, SessionInvariant, PTL

\* read_idx_ <= send_idx_ <= write_idx_ in both files.
THEOREM SessionIndexOrder ==
  ASSUME ~ TwoThreads, ~ StalePoll, ~ LateLogin, MaxPushes < HalfRange
  PROVE  Spec => []IndexOrder
<1>1. IInv => IndexOrder
  BY InvIndexOrder
<1> QED BY <1>1, SessionInvariant, PTL

\* Front() shows whole messages, without a gap and without one it has shown and
\* popped before, across every reconnection and restart.
THEOREM SessionInOrder ==
  ASSUME ~ TwoThreads, ~ StalePoll, ~ LateLogin, MaxPushes < HalfRange
  PROVE  Spec => []InOrder
<1>1. IInv => InOrder
  BY DEF IInv
<1> QED BY <1>1, SessionInvariant, PTL

\* The blocks of a file are the messages pushed since it was cleared, whole and in
\* order, and what the other end has popped is a place in it to go on from.
THEOREM SessionFilesAgree ==
  ASSUME ~ TwoThreads, ~ StalePoll, ~ LateLogin, MaxPushes < HalfRange
  PROVE  Spec => []FilesAgree
<1>1. IInv => FilesAgree
  BY InvFilesAgree
<1> QED BY <1>1, SessionInvariant, PTL

\* A message leaves the file of its sender only when the other end's user has
\* popped it, whatever Ack(), Alloc(), Open(), HandleLogin() and crashes do, from
\* the moment on at which the client has recorded its server.
THEOREM SessionKeepsMessages ==
  ASSUME ~ TwoThreads, ~ StalePoll, ~ LateLogin, MaxPushes < HalfRange
  PROVE  Spec => KeptOnceKnown
<1>1. IInv /\ AcksRecent /\ [Next]_vars => [last_server => Kept]_vars
  BY NextKept
<1> QED BY <1>1, SessionInvariant, PTL DEF Spec, KeptOnceKnown

\* HandleLogin() never answers that the sequence numbers of the two ends do not
\* match or that a file is corrupt.
THEOREM SessionLoginsMatch ==
  ASSUME ~ TwoThreads, ~ StalePoll, ~ LateLogin, MaxPushes < HalfRange
  PROVE  Spec => []LoginsMatch
<1>1. IInv /\ AcksRecent => LoginsMatch
  BY InvLoginsMatch
<1> QED BY <1>1, SessionInvariant, PTL

\* No acknowledgement in a queue or under way, however often it is sent again,
\* looks newer than what its sender has consumed when it is compared as a signed
\* number.
THEOREM SessionAcksRecent ==
  ASSUME ~ TwoThreads, ~ StalePoll, ~ LateLogin, MaxPushes < HalfRange
  PROVE  Spec => []AcksRecent
BY SessionInvariant, PTL

\* The same for sessions of any length, in which sequence numbers wrap around,
\* as long as AcksRecent holds: only an acknowledgement that is half of the range
\* old breaks it.
THEOREM SessionWrapsAround ==
  ASSUME ~ TwoThreads, ~ StalePoll, ~ LateLogin
  PROVE  Spec /\ []AcksRecent =>
           [](TypeOK /\ IndexOrder /\ InOrder /\ FilesAgree /\ LoginsMatch) /\ KeptOnceKnown
<1>1. IInv /\ AcksRecent => TypeOK /\ IndexOrder /\ InOrder /\ FilesAgree /\ LoginsMatch
  <2>1. IInv => TypeOK /\ InOrder
    BY DEF IInv
  <2> QED BY <2>1, InvIndexOrder, InvFilesAgree, InvLoginsMatch
<1>2. IInv /\ AcksRecent /\ [Next]_vars => [last_server => Kept]_vars
  BY NextKept
<1> QED BY <1>1, <1>2, RecentInvariant, PTL DEF Spec, KeptOnceKnown

=============================================================================
