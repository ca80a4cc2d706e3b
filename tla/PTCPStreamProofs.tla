-------------------------- MODULE PTCPStreamProofs ---------------------------
(***************************************************************************)
(* The stream of blocks from a queue to the peer that receives it, and     *)
(* what every method of the queue and every step of the receiver do to it. *)
(***************************************************************************)
EXTENDS PTCPSession, PTCPQueueProofs, SequenceTheorems

\* The data blocks of wire are blocks at[0] to at[Len(wire)] - 1 of the queue.
Path(q, wire, at) ==
  /\ \A i, j \in 0 .. Len(wire) : i <= j => at[i] <= at[j]
  /\ \A j \in 1 .. Len(wire) :
       IF IsHeartbeat(wire[j]) THEN at[j] = at[j - 1]
       ELSE at[j] = at[j - 1] + 1 /\ wire[j] = q.blk[at[j - 1]]

\* The receiver has popped the messages up to have and holds cnt more and the
\* blocks prt of the next one, which starts at block h of the sender's queue; the
\* blocks in flight follow.
Stream(q, p, have, cnt, prt, wire, h, at) ==
  /\ Starts(q, p, h, Add(have, cnt)) /\ Off(q, Add(have, cnt)) = Off(q, have) + cnt
  /\ prt # <<>> => h < q.write_idx /\ Len(prt) < q.blk[h].len
  /\ \A j \in 1 .. Len(prt) : prt[j] = q.blk[h + j - 1]
  /\ at[0] = h + Len(prt) /\ at[Len(wire)] <= q.write_idx
  /\ Path(q, wire, at)

\* The stream from a queue to a receiver.  While the sender is connected to it
\* (live), nothing beyond send_idx is under way, and on a connection that works
\* everything before it is.
FlowOK(q, p, have, cnt, prt, wire, live, open) ==
  \E h \in Int, at \in [0 .. Len(wire) -> Int] :
    /\ Stream(q, p, have, cnt, prt, wire, h, at)
    /\ live => at[Len(wire)] <= q.send_idx /\ (open => at[Len(wire)] = q.send_idx)

\* What the receiver has consumed is in the queue or just before it, and was sent
\* on the connection that the sender has now.
AckedOK(q, p, have, up) ==
  \E h \in Int : Starts(q, p, h, have) /\ (up => h <= q.send_idx)

-----------------------------------------------------------------------------
(* The stream from a queue to its receiver.                                *)

\* Blocks are the blocks of the queues.
LEMMA BlocksAre == Blocks = QBlocks
BY DEF Blocks, QBlocks

\* Where the blocks under way are: at or after the message that the receiver
\* consumes next, and before write_idx.
LEMMA StreamRange ==
  ASSUME NEW q \in Queues, NEW p \in UInt, QueueInv(q, p), NEW have \in UInt, NEW cnt \in Nat,
         NEW prt \in Seq(Blocks), NEW wire \in Seq(Blocks), NEW h \in Int,
         NEW at \in [0 .. Len(wire) -> Int], Stream(q, p, have, cnt, prt, wire, h, at)
  PROVE  /\ Add(have, cnt) \in UInt
         /\ Off(q, Add(have, cnt)) \in Nat /\ Off(q, Add(have, cnt)) <= Off(q, p)
         /\ Len(wire) \in Nat /\ Len(prt) \in Nat
         /\ h \in q.read_idx .. q.write_idx
         /\ \A j \in 0 .. Len(wire) : at[j] \in Int /\ h + Len(prt) <= at[j] /\ at[j] <= at[Len(wire)]
         /\ at[Len(wire)] <= q.write_idx
         /\ h + Len(prt) <= at[Len(wire)]
<1>0. Starts(q, p, h, Add(have, cnt)) /\ at[0] = h + Len(prt) /\ at[Len(wire)] <= q.write_idx
  BY DEF Stream
<1>1. h \in q.read_idx .. q.write_idx
  BY <1>0 DEF Starts
<1>2. Add(have, cnt) \in UInt
  <2>1. CASE h < q.write_idx
    <3>1. h \in q.read_idx .. q.write_idx - 1
      BY <1>1, <2>1, QueueFields
    <3>2. h \in 0 .. BLK_CNT - 1
      BY <3>1, UsedBlock
    <3>3. q.blk[h].id \in UInt
      BY <3>2, QueueFields
    <3> QED BY <1>0, <2>1, <3>3 DEF Starts
  <2>2. CASE ~ (h < q.write_idx)
    BY <1>0, <2>2 DEF Starts
  <2> QED BY <2>1, <2>2
<1>3. Off(q, Add(have, cnt)) \in Nat /\ Off(q, Add(have, cnt)) <= Off(q, p)
  <2> DEFINE a == Add(have, cnt)
  <2>1. a \in UInt /\ Starts(q, p, h, a)
    BY <1>0, <1>2
  <2> HIDE DEF a
  <2>2. Off(q, a) \in Nat /\ Off(q, a) <= Off(q, p)
    BY <2>1, StartsOnce
  <2> QED BY <2>2 DEF a
<1>4. Len(wire) \in Nat /\ Len(prt) \in Nat
  OBVIOUS
<1>5. \A i, j \in 0 .. Len(wire) : i <= j => at[i] <= at[j]
  BY DEF Stream, Path
<1>6. \A j \in 0 .. Len(wire) : at[j] \in Int /\ h + Len(prt) <= at[j] /\ at[j] <= at[Len(wire)]
  BY <1>0, <1>4, <1>5, SMTT(30)
<1> QED BY <1>0, <1>1, <1>2, <1>3, <1>4, <1>6

\* The receiver's next message is at or after the one it has acknowledged.
LEMMA StreamAfter ==
  ASSUME NEW q \in Queues, NEW p \in UInt, QueueInv(q, p), NEW have \in UInt, NEW cnt \in Nat,
         NEW prt \in Seq(Blocks), NEW wire \in Seq(Blocks), NEW h \in Int,
         NEW at \in [0 .. Len(wire) -> Int], Stream(q, p, have, cnt, prt, wire, h, at),
         NEW g, Starts(q, p, g, have)
  PROVE  g \in Int /\ g <= h /\ g \in q.read_idx .. q.write_idx /\ (cnt = 0 => g = h)
<1> DEFINE a == Add(have, cnt)
<1>1. a \in UInt /\ Starts(q, p, h, a) /\ Off(q, a) = Off(q, have) + cnt
  BY StreamRange DEF Stream
<1>2. cnt = 0 => a = have
  BY AddZero
<1> HIDE DEF a
<1>3. (h < g <=> Off(q, a) < Off(q, have)) /\ (g = h <=> have = a)
  BY <1>1, StartsOnce
<1>4. Off(q, have) \in Nat
  BY OffRange
<1>5. g \in q.read_idx .. q.write_idx
  BY DEF Starts
<1>6. g \in Int
  BY <1>5, QueueFields
<1> QED BY <1>1, <1>2, <1>3, <1>4, <1>5, <1>6

\* What is acknowledged stays in the queue when it drops messages before it.
LEMMA AckedMoves ==
  ASSUME NEW q \in Queues, NEW p, NEW q2 \in Queues, NEW p2, NEW s \in Nat, Moves(q, p, q2, p2, s),
         NEW have, NEW up,
         NEW h \in Int, Starts(q, p, h, have), q2.read_idx + s <= h,
         up => h <= q2.send_idx + s
  PROVE  AckedOK(q2, p2, have, up)
<1>1. q2.read_idx \in Int /\ q2.send_idx \in Int
  BY QueueFields
<1>2. Starts(q2, p2, h - s, have)
  BY <1>1, StartsMoved
<1>3. h - s \in Int /\ (up => h - s <= q2.send_idx)
  BY <1>1
<1> QED BY <1>2, <1>3 DEF AckedOK

\* The stream goes on when the queue drops acknowledged messages, moves its
\* blocks or grows.
LEMMA FlowMoves ==
  ASSUME NEW q \in Queues, NEW p \in UInt, QueueInv(q, p), NEW q2 \in Queues, NEW p2, NEW s \in Nat,
         Moves(q, p, q2, p2, s), Starts(q, p, q2.read_idx + s, q2.read_seq),
         NEW have \in UInt, NEW cnt \in Nat, NEW prt \in Seq(Blocks), NEW wire \in Seq(Blocks),
         NEW live, NEW open, FlowOK(q, p, have, cnt, prt, wire, live, open),
         NEW g, Starts(q, p, g, have), q2.read_idx + s <= g, live => q2.send_idx + s = q.send_idx
  PROVE  FlowOK(q2, p2, have, cnt, prt, wire, live, open)
<1>1. PICK h \in Int, at \in [0 .. Len(wire) -> Int] :
        /\ Stream(q, p, have, cnt, prt, wire, h, at)
        /\ live => at[Len(wire)] <= q.send_idx /\ (open => at[Len(wire)] = q.send_idx)
  BY DEF FlowOK
<1> DEFINE h2 == h - s
           n == Len(wire)
           a == Add(have, cnt)
           r == q2.read_idx + s
           at2 == [j \in 0 .. n |-> at[j] - s]
<1>2. /\ q.read_idx \in Int /\ q.write_idx \in Int /\ q2.read_idx \in Int /\ q2.write_idx \in Int
      /\ q.send_idx \in Int /\ q2.send_idx \in Int /\ q2.read_seq \in UInt
  BY QueueFields
<1>3. /\ a \in UInt /\ n \in Nat /\ Len(prt) \in Nat
      /\ \A j \in 0 .. n : at[j] \in Int /\ h + Len(prt) <= at[j] /\ at[j] <= at[n]
      /\ at[n] <= q.write_idx /\ h + Len(prt) <= at[n]
      /\ h \in q.read_idx .. q.write_idx
  BY <1>1, StreamRange
<1>4. g \in Int /\ g <= h
  BY <1>1, StreamAfter
<1>5. /\ Starts(q, p, h, a) /\ Off(q, a) = Off(q, have) + cnt
      /\ prt # <<>> => h < q.write_idx /\ Len(prt) < q.blk[h].len
      /\ \A j \in 1 .. Len(prt) : prt[j] = q.blk[h + j - 1]
      /\ at[0] = h + Len(prt) /\ at[n] <= q.write_idx
      /\ \A i, j \in 0 .. n : i <= j => at[i] <= at[j]
      /\ \A j \in 1 .. n : IF IsHeartbeat(wire[j]) THEN at[j] = at[j - 1]
                           ELSE at[j] = at[j - 1] + 1 /\ wire[j] = q.blk[at[j - 1]]
  BY <1>1 DEF Stream, Path
<1> HIDE DEF a, r
<1>6. r \in Int /\ r <= g /\ r <= h /\ Starts(q, p, r, q2.read_seq)
  BY <1>2, <1>4 DEF r
<1>7. q2.write_idx + s >= q.write_idx /\ \A i \in r .. q.write_idx - 1 : q2.blk[i - s] = q.blk[i]
  BY DEF Moves, r
<1>8. h2 \in Int /\ Starts(q2, p2, h2, a)
  <2>1. Starts(q2, p2, h - s, a)
    BY <1>5, <1>6, StartsMoved DEF r
  <2> QED BY <2>1
<1>9. Off(q2, a) = Off(q2, have) + cnt
  <2>1. Off(q2, a) = Off(q, a) - Off(q, q2.read_seq)
    BY <1>3, <1>5, <1>6, OffMoved
  <2>2. Off(q2, have) = Off(q, have) - Off(q, q2.read_seq)
    BY <1>6, <1>4, OffMoved
  <2>3. Off(q, have) \in Nat /\ Off(q, q2.read_seq) \in Nat
    BY <1>2, OffRange
  <2> QED BY <2>1, <2>2, <2>3, <1>5
<1>10. prt # <<>> => h2 < q2.write_idx /\ Len(prt) < q2.blk[h2].len
  <2> SUFFICES ASSUME prt # <<>> PROVE h2 < q2.write_idx /\ Len(prt) < q2.blk[h2].len
    OBVIOUS
  <2>1. h \in r .. q.write_idx - 1
    BY <1>5, <1>6, <1>2
  <2>2. q2.blk[h - s] = q.blk[h]
    BY <2>1, <1>7
  <2> QED BY <2>1, <2>2, <1>2, <1>5, <1>6, <1>7
<1>10a. /\ h + Len(prt) <= q.write_idx /\ Len(prt) \in Nat /\ n \in 0 .. n /\ 0 \in 0 .. n
        /\ at[n] \in Int /\ at[0] \in Int
  BY <1>2, <1>3, SMTT(30)
<1>11. \A j \in 1 .. Len(prt) : prt[j] = q2.blk[h2 + j - 1]
  <2> TAKE j \in 1 .. Len(prt)
  <2>1. h + j - 1 \in r .. q.write_idx - 1
    BY <1>10a, <1>2, <1>6, SMTT(30)
  <2>2. q2.blk[(h + j - 1) - s] = q.blk[h + j - 1]
    BY <2>1, <1>7
  <2>3. (h + j - 1) - s = h2 + j - 1
    OBVIOUS
  <2> QED BY <2>2, <2>3, <1>5
<1>12. at2 \in [0 .. n -> Int] /\ \A j \in 0 .. n : at2[j] = at[j] - s
  BY <1>3
<1> HIDE DEF at2
<1>13. at2[0] = h2 + Len(prt) /\ at2[n] <= q2.write_idx
  <2>1. at2[0] = at[0] - s /\ at2[n] = at[n] - s
    BY <1>12, <1>10a
  <2> QED BY <2>1, <1>10a, <1>5, <1>7, <1>2
<1>14. Path(q2, wire, at2)
  <2>1. \A i, j \in 0 .. n : i <= j => at2[i] <= at2[j]
    BY <1>12, <1>3, <1>5
  <2>2. ASSUME NEW j \in 1 .. n
        PROVE  IF IsHeartbeat(wire[j]) THEN at2[j] = at2[j - 1]
               ELSE at2[j] = at2[j - 1] + 1 /\ wire[j] = q2.blk[at2[j - 1]]
    <3>1. j \in 0 .. n /\ j - 1 \in 0 .. n
      BY <1>3
    <3>2. at2[j] = at[j] - s /\ at2[j - 1] = at[j - 1] - s /\ at[j] \in Int /\ at[j - 1] \in Int
      BY <3>1, <1>12, <1>3
    <3>3. CASE IsHeartbeat(wire[j])
      BY <3>2, <3>3, <1>5
    <3>4. CASE ~ IsHeartbeat(wire[j])
      <4>1. at[j] = at[j - 1] + 1 /\ wire[j] = q.blk[at[j - 1]]
        BY <3>4, <1>5
      <4>2. at[j - 1] \in r .. q.write_idx - 1
        <5>1. h + Len(prt) <= at[j - 1] /\ at[j] <= at[n] /\ at[n] <= q.write_idx
          BY <3>1, <1>3
        <5> DEFINE x == at[j - 1]
                   y == at[j]
                   z == at[n]
        <5>2. /\ h + Len(prt) <= x /\ y <= z /\ z <= q.write_idx /\ y = x + 1
              /\ x \in Int /\ y \in Int /\ z \in Int
          BY <4>1, <5>1, <3>2, <1>10a
        <5> HIDE DEF x, y, z
        <5>3. x \in r .. q.write_idx - 1
          BY <5>2, <1>2, <1>10a, <1>6, SMTT(30)
        <5> QED BY <5>3 DEF x
      <4>3. q2.blk[at[j - 1] - s] = q.blk[at[j - 1]]
        BY <4>2, <1>7
      <4> QED BY <4>1, <4>3, <3>2, <3>4
    <3> QED BY <3>3, <3>4
  <2> QED BY <2>1, <2>2 DEF Path
<1>15. Stream(q2, p2, have, cnt, prt, wire, h2, at2)
  BY <1>8, <1>9, <1>10, <1>11, <1>13, <1>14 DEF Stream, a
<1>16. live => at2[n] <= q2.send_idx /\ (open => at2[n] = q2.send_idx)
  <2>1. at2[n] = at[n] - s /\ at[n] \in Int
    BY <1>12, <1>3
  <2> QED BY <2>1, <1>1, <1>2
<1> QED BY <1>8, <1>12, <1>15, <1>16 DEF FlowOK

\* A queue with the same blocks has the same stream; and less may be known of it.
LEMMA FlowSame ==
  ASSUME NEW q, NEW p, NEW q2, q2.blk = q.blk, q2.write_idx = q.write_idx,
         q2.read_idx = q.read_idx, q2.read_seq = q.read_seq,
         NEW have, NEW cnt, NEW prt, NEW wire, NEW live, NEW open,
         FlowOK(q, p, have, cnt, prt, wire, live, open),
         NEW live2, live2 => live /\ q2.send_idx = q.send_idx,
         NEW open2, live2 /\ open2 => open
  PROVE  FlowOK(q2, p, have, cnt, prt, wire, live2, open2)
<1>1. PICK h \in Int, at \in [0 .. Len(wire) -> Int] :
        /\ Stream(q, p, have, cnt, prt, wire, h, at)
        /\ live => at[Len(wire)] <= q.send_idx /\ (open => at[Len(wire)] = q.send_idx)
  BY DEF FlowOK
<1>2. \A i, id : Starts(q2, p, i, id) = Starts(q, p, i, id)
  BY SameBlocks
<1>3. \A id : Off(q2, id) = Off(q, id)
  BY SameBlocks
<1>4. Stream(q2, p, have, cnt, prt, wire, h, at)
  <2>1. Path(q2, wire, at)
    BY <1>1 DEF Stream, Path
  <2> QED BY <2>1, <1>1, <1>2, <1>3 DEF Stream
<1>5. live2 => at[Len(wire)] <= q2.send_idx /\ (open2 => at[Len(wire)] = q2.send_idx)
  BY <1>1
<1> QED BY <1>4, <1>5 DEF FlowOK

\* What the peer has consumed stays within a queue with the same blocks that has sent no less.
LEMMA AckedSame ==
  ASSUME NEW q, NEW p, NEW q2, q2.blk = q.blk, q2.write_idx = q.write_idx,
         q2.read_idx = q.read_idx, q2.read_seq = q.read_seq,
         q.send_idx \in Int, q2.send_idx \in Int,
         NEW have, NEW up, AckedOK(q, p, have, up),
         NEW up2, up2 => up /\ q2.send_idx >= q.send_idx
  PROVE  AckedOK(q2, p, have, up2)
<1>1. PICK h \in Int : Starts(q, p, h, have) /\ (up => h <= q.send_idx)
  BY DEF AckedOK
<1>2. \A i, id : Starts(q2, p, i, id) = Starts(q, p, i, id)
  BY SameBlocks
<1>3. up2 => h <= q2.send_idx
  BY <1>1
<1>4. Starts(q2, p, h, have)
  BY <1>1, <1>2
<1> QED BY <1>3, <1>4 DEF AckedOK

\* The stream that begins with a login.
LEMMA FlowFresh ==
  ASSUME NEW q \in Queues, NEW p \in UInt, NEW have \in UInt, NEW h \in Int,
         Starts(q, p, h, have), NEW live, live => h = q.send_idx, NEW open
  PROVE  FlowOK(q, p, have, 0, <<>>, <<>>, live, open)
<1> DEFINE at == [j \in 0 .. 0 |-> h]
<1>1. at \in [0 .. 0 -> Int] /\ at[0] = h /\ \A j \in 0 .. 0 : at[j] = h
  OBVIOUS
<1>2. Len(<<>>) = 0 /\ \A j \in 1 .. 0 : FALSE
  OBVIOUS
<1> HIDE DEF at
<1>3. Add(have, 0) = have /\ Off(q, have) + 0 = Off(q, have)
  BY AddZero, OffRange
<1>4. h <= q.write_idx /\ q.send_idx \in Int /\ h + 0 = h /\ h <= h
  BY QueueFields DEF Starts
<1>5. Path(q, <<>>, at)
  BY <1>1, <1>2, <1>4 DEF Path
<1>6. Stream(q, p, have, 0, <<>>, <<>>, h, at)
  BY <1>1, <1>2, <1>3, <1>4, <1>5 DEF Stream
<1>7. /\ live => at[Len(<<>>)] <= q.send_idx /\ (open => at[Len(<<>>)] = q.send_idx)
      /\ at \in [0 .. Len(<<>>) -> Int]
  BY <1>1, <1>2, <1>4
<1> QED BY <1>6, <1>7 DEF FlowOK

\* What is in flight on a connection that is reset is lost: from then on the
\* connection does not work.
LEMMA FlowCut ==
  ASSUME NEW q \in Queues, NEW p \in UInt, QueueInv(q, p), NEW have \in UInt, NEW cnt \in Nat,
         NEW prt \in Seq(Blocks), NEW wire \in Seq(Blocks), NEW live, NEW open,
         FlowOK(q, p, have, cnt, prt, wire, live, open),
         NEW live2, live2 => live, NEW open2, ~ (live2 /\ open2)
  PROVE  FlowOK(q, p, have, cnt, prt, <<>>, live2, open2)
<1>1. PICK h \in Int, at \in [0 .. Len(wire) -> Int] :
        /\ Stream(q, p, have, cnt, prt, wire, h, at)
        /\ live => at[Len(wire)] <= q.send_idx /\ (open => at[Len(wire)] = q.send_idx)
  BY DEF FlowOK
<1> DEFINE g == h + Len(prt)
           z == at[Len(wire)]
           at2 == [j \in 0 .. 0 |-> g]
<1>2. /\ Len(prt) \in Nat /\ Len(wire) \in Nat /\ g \in Int /\ z \in Int
      /\ g <= z /\ z <= q.write_idx /\ q.write_idx \in Int /\ q.send_idx \in Int
  <2>1. /\ Len(wire) \in Nat /\ Len(prt) \in Nat /\ z <= q.write_idx /\ g <= z
    BY <1>1, StreamRange
  <2>2. Len(wire) \in 0 .. Len(wire)
    BY <2>1
  <2> QED BY <2>1, <2>2, QueueFields
<1>3. at2 \in [0 .. 0 -> Int] /\ at2[0] = g /\ \A j \in 0 .. 0 : at2[j] = g
  BY <1>2
<1>4. Len(<<>>) = 0 /\ \A j \in 1 .. 0 : FALSE
  OBVIOUS
<1>5. live => z <= q.send_idx
  BY <1>1
<1> HIDE DEF at2, z
<1>6. live2 => g <= q.send_idx
  BY <1>2, <1>5
<1>8. Path(q, <<>>, at2)
  <2>1. g <= g
    BY <1>2
  <2> HIDE DEF g
  <2> QED BY <1>3, <1>4, <2>1 DEF Path
<1>9. Stream(q, p, have, cnt, prt, <<>>, h, at2)
  <2>1. g <= q.write_idx
    BY <1>2
  <2>2. at2[0] = h + Len(prt) /\ at2[Len(<<>>)] <= q.write_idx
    BY <1>3, <1>4, <2>1
  <2> QED BY <1>1, <1>8, <2>2 DEF Stream
<1> HIDE DEF g
<1>10. /\ live2 => at2[Len(<<>>)] <= q.send_idx /\ (open2 => at2[Len(<<>>)] = q.send_idx)
       /\ at2 \in [0 .. Len(<<>>) -> Int]
  BY <1>3, <1>4, <1>6
<1> QED BY <1>9, <1>10 DEF FlowOK

\* The blocks that follow what was sent so far join the stream; a queue that is
\* not told (live2 is false) keeps its send_idx.
LEMMA FlowSends ==
  ASSUME NEW q \in Queues, NEW p \in UInt, QueueInv(q, p), SendInv(q),
         NEW have \in UInt, NEW cnt \in Nat, NEW prt \in Seq(Blocks), NEW wire \in Seq(Blocks),
         FlowOK(q, p, have, cnt, prt, wire, TRUE, TRUE),
         NEW k \in Nat, k <= Pending(q), NEW q2 \in Queues, q2.blk = q.blk, q2.write_idx = q.write_idx,
         q2.read_idx = q.read_idx, q2.read_seq = q.read_seq,
         NEW live2, live2 => q2.send_idx = q.send_idx + k, NEW open2
  PROVE  FlowOK(q2, p, have, cnt, prt, wire \o Sendable(q, k), live2, open2)
<1>1. PICK h \in Int, at \in [0 .. Len(wire) -> Int] :
        /\ Stream(q, p, have, cnt, prt, wire, h, at)
        /\ at[Len(wire)] = q.send_idx
  BY DEF FlowOK
<1> DEFINE n == Len(wire)
           more == Sendable(q, k)
           wire2 == wire \o more
           x == q.send_idx
           at2 == [j \in 0 .. n + k |-> IF j <= n THEN at[j] ELSE x + (j - n)]
<1>2. /\ n \in Nat /\ Len(prt) \in Nat /\ x \in Nat /\ q.write_idx \in Nat /\ q.read_idx \in Nat
      /\ x + k <= q.write_idx /\ q.read_idx <= x
      /\ at[n] = x /\ \A j \in 0 .. n : at[j] \in Int /\ at[j] <= x
  <2>1. /\ n \in Nat /\ Len(prt) \in Nat /\ \A j \in 0 .. n : at[j] \in Int /\ at[j] <= at[n]
    BY <1>1, StreamRange
  <2> QED BY <2>1, <1>1, QueueFields DEF SendInv, Pending
<1>3. /\ more \in Seq(Blocks) /\ Len(more) = k
      /\ \A j \in 1 .. k : more[j] = q.blk[x + j - 1] /\ ~ IsHeartbeat(more[j])
  <2>1. ASSUME NEW j \in 1 .. k
        PROVE  q.blk[x + j - 1] \in Blocks /\ ~ IsHeartbeat(q.blk[x + j - 1])
    <3>1. x + j - 1 \in q.read_idx .. q.write_idx - 1
      BY <1>2
    <3>2. x + j - 1 \in 0 .. BLK_CNT - 1
      BY <3>1, UsedBlock
    <3>3. q.blk[x + j - 1] \in Blocks /\ q.blk[x + j - 1].len \in Int
      BY <3>2, QueueFields, BlocksAre, Widths, SMTT(30)
    <3>4. q.blk[x + j - 1].len > 0
      BY <3>1 DEF QueueInv
    <3> QED BY <3>3, <3>4 DEF IsHeartbeat
  <2>2. more = [j \in 1 .. k |-> q.blk[x + j - 1]]
    BY DEF Sendable
  <2> HIDE DEF more
  <2>3. \A j \in 1 .. k : more[j] = q.blk[x + j - 1]
    BY <2>2
  <2>4. \A j \in 1 .. k : q.blk[x + j - 1] \in Blocks
    BY <2>1
  <2>5. more \in [1 .. k -> Blocks]
    BY <2>2, <2>4
  <2>6. more \in Seq(Blocks) /\ Len(more) = k
    BY <2>5
  <2>7. \A j \in 1 .. k : ~ IsHeartbeat(more[j])
    BY <2>1, <2>3
  <2> QED BY <2>3, <2>6, <2>7
<1> HIDE DEF x, more
<1>4. /\ wire2 \in Seq(Blocks) /\ Len(wire2) = n + k
      /\ \A j \in 1 .. n : wire2[j] = wire[j]
      /\ \A j \in 1 .. k : wire2[n + j] = more[j]
  <2>1. more \in Seq(Blocks) /\ Len(more) = k /\ n \in Nat
    BY <1>2, <1>3
  <2>2. wire2 \in Seq(Blocks) /\ Len(wire2) = n + k
    BY <2>1, ConcatProperties
  <2>3. \A j \in 1 .. n : wire2[j] = wire[j]
    BY <2>1
  <2>4. ASSUME NEW j \in 1 .. k PROVE wire2[n + j] = more[j]
    <3>1. n + j \in 1 .. n + k /\ n + j > n /\ (n + j) - n = j
      BY <2>1
    <3> QED BY <2>1, <3>1
  <2> QED BY <2>2, <2>3, <2>4
<1>5. /\ at2 \in [0 .. n + k -> Int]
      /\ \A j \in 0 .. n : at2[j] = at[j] /\ at2[j] \in Int /\ at2[j] <= x
      /\ \A j \in 0 .. k : at2[n + j] = x + j
  <2>1. \A j \in 0 .. n : at2[j] = at[j]
    BY <1>2
  <2>2. ASSUME NEW j \in 0 .. k PROVE at2[n + j] = x + j
    <3>1. CASE j = 0
      BY <3>1, <1>2
    <3>2. CASE j # 0
      BY <3>2, <1>2
    <3> QED BY <3>1, <3>2
  <2>3. at2 \in [0 .. n + k -> Int]
    BY <1>2
  <2> QED BY <2>1, <2>2, <2>3, <1>2
<1> HIDE DEF at2, wire2
<1>6. \A i, id : Starts(q2, p, i, id) = Starts(q, p, i, id)
  BY SameBlocks
<1>7. \A id : Off(q2, id) = Off(q, id)
  BY SameBlocks
<1>8. Path(q2, wire2, at2)
  <2>1. ASSUME NEW i \in 0 .. n + k, NEW j \in 0 .. n + k, i <= j
        PROVE  at2[i] <= at2[j]
    <3>1. CASE j <= n
      <4>1. i \in 0 .. n /\ j \in 0 .. n
        BY <1>2, <2>1, <3>1
      <4>2. at[i] <= at[j]
        BY <4>1, <2>1, <1>1 DEF Stream, Path
      <4> QED BY <4>1, <4>2, <1>5
    <3>2. CASE j > n /\ i <= n
      <4>1. i \in 0 .. n /\ j - n \in 0 .. k /\ n + (j - n) = j
        BY <1>2, <2>1, <3>2
      <4>2. at2[j] = x + (j - n)
        BY <4>1, <1>5
      <4>3. at2[i] \in Int /\ at2[i] <= x
        BY <4>1, <1>5
      <4> DEFINE y == at2[i]
      <4>4. y \in Int /\ y <= x
        BY <4>3
      <4> HIDE DEF y
      <4>5. y <= x + (j - n)
        BY <4>1, <4>4, <1>2
      <4> QED BY <4>2, <4>5 DEF y
    <3>3. CASE i > n
      <4>1. i - n \in 0 .. k /\ n + (i - n) = i /\ j - n \in 0 .. k /\ n + (j - n) = j
        BY <1>2, <2>1, <3>3
      <4>2. at2[j] = x + (j - n) /\ at2[i] = x + (i - n)
        BY <4>1, <1>5
      <4>3. x + (i - n) <= x + (j - n)
        BY <4>1, <2>1, <1>2
      <4> QED BY <4>2, <4>3
    <3> QED BY <3>1, <3>2, <3>3, <1>2
  <2>2. ASSUME NEW j \in 1 .. n + k
        PROVE  IF IsHeartbeat(wire2[j]) THEN at2[j] = at2[j - 1]
               ELSE at2[j] = at2[j - 1] + 1 /\ wire2[j] = q2.blk[at2[j - 1]]
    <3>1. CASE j <= n
      <4>1. j \in 1 .. n /\ j \in 0 .. n /\ j - 1 \in 0 .. n
        BY <1>2, <3>1
      <4>2. wire2[j] = wire[j] /\ at2[j] = at[j] /\ at2[j - 1] = at[j - 1]
        BY <4>1, <1>4, <1>5
      <4>3. IF IsHeartbeat(wire[j]) THEN at[j] = at[j - 1]
            ELSE at[j] = at[j - 1] + 1 /\ wire[j] = q.blk[at[j - 1]]
        BY <4>1, <1>1 DEF Stream, Path
      <4> QED BY <4>2, <4>3
    <3>2. CASE j > n
      <4> DEFINE i == j - n
      <4>1. i \in 1 .. k /\ i \in 0 .. k /\ i - 1 \in 0 .. k /\ n + i = j /\ n + (i - 1) = j - 1
        BY <1>2, <3>2
      <4> HIDE DEF i
      <4>2. at2[j] = x + i /\ at2[j - 1] = x + (i - 1)
        BY <4>1, <1>5
      <4>3. wire2[j] = q.blk[x + i - 1] /\ ~ IsHeartbeat(wire2[j])
        BY <4>1, <1>3, <1>4
      <4>4. x + (i - 1) = x + i - 1 /\ x + i = (x + (i - 1)) + 1
        BY <4>1, <1>2
      <4> QED BY <4>2, <4>3, <4>4
    <3> QED BY <3>1, <3>2, <1>2
  <2> QED BY <1>4, <2>1, <2>2 DEF Path
<1>9. at2[0] = h + Len(prt) /\ at2[Len(wire2)] = x + k
  <2>1. 0 \in 0 .. n /\ k \in 0 .. k
    BY <1>2
  <2> QED BY <2>1, <1>1, <1>4, <1>5 DEF Stream
<1>10. Stream(q2, p, have, cnt, prt, wire2, h, at2)
  BY <1>1, <1>2, <1>6, <1>7, <1>8, <1>9 DEF Stream
<1>11. live2 => at2[Len(wire2)] <= q2.send_idx /\ (open2 => at2[Len(wire2)] = q2.send_idx)
  BY <1>9, <1>2 DEF x
<1>12. at2 \in [0 .. Len(wire2) -> Int]
  BY <1>4, <1>5
<1> QED BY <1>10, <1>11, <1>12 DEF FlowOK, wire2, more

\* A heartbeat joins the stream.
LEMMA FlowHeartbeat ==
  ASSUME NEW q \in Queues, NEW p \in UInt, QueueInv(q, p),
         NEW have \in UInt, NEW cnt \in Nat, NEW prt \in Seq(Blocks), NEW wire \in Seq(Blocks),
         NEW live, NEW open, FlowOK(q, p, have, cnt, prt, wire, live, open),
         NEW b \in Blocks, IsHeartbeat(b)
  PROVE  FlowOK(q, p, have, cnt, prt, wire \o <<b>>, live, open)
<1>1. PICK h \in Int, at \in [0 .. Len(wire) -> Int] :
        /\ Stream(q, p, have, cnt, prt, wire, h, at)
        /\ live => at[Len(wire)] <= q.send_idx /\ (open => at[Len(wire)] = q.send_idx)
  BY DEF FlowOK
<1> DEFINE n == Len(wire)
           wire2 == wire \o <<b>>
           x == at[n]
           at2 == [j \in 0 .. n + 1 |-> IF j <= n THEN at[j] ELSE x]
<1>2. n \in Nat /\ x \in Int /\ x <= q.write_idx /\ \A j \in 0 .. n : at[j] \in Int /\ at[j] <= x
  <2>1. n \in Nat /\ (\A j \in 0 .. n : at[j] \in Int /\ at[j] <= at[n]) /\ at[n] <= q.write_idx
    BY <1>1, StreamRange
  <2>2. n \in 0 .. n
    BY <2>1
  <2> QED BY <2>1, <2>2
<1>3. /\ wire2 \in Seq(Blocks) /\ Len(wire2) = n + 1
      /\ \A j \in 1 .. n : wire2[j] = wire[j]
      /\ wire2[n + 1] = b
  BY <1>2
<1>4. /\ at2 \in [0 .. n + 1 -> Int] /\ at2[n + 1] = x
      /\ \A j \in 0 .. n : at2[j] = at[j] /\ at2[j] \in Int /\ at2[j] <= x
  BY <1>2
<1>5. at2[n] = x /\ at2[0] = at[0]
  BY <1>2, <1>4
<1> HIDE DEF at2, wire2
<1>6. Path(q, wire2, at2)
  <2>1. ASSUME NEW i \in 0 .. n + 1, NEW j \in 0 .. n + 1, i <= j
        PROVE  at2[i] <= at2[j]
    <3>1. CASE j <= n
      <4>1. i \in 0 .. n /\ j \in 0 .. n
        BY <1>2, <2>1, <3>1
      <4>2. at[i] <= at[j]
        BY <4>1, <2>1, <1>1 DEF Stream, Path
      <4> QED BY <4>1, <4>2, <1>4
    <3>2. CASE j = n + 1 /\ i <= n
      <4>1. i \in 0 .. n
        BY <1>2, <3>2
      <4> QED BY <4>1, <3>2, <1>4
    <3>3. CASE i = n + 1 /\ j = n + 1
      BY <3>3, <1>2, <1>4
    <3> QED BY <3>1, <3>2, <3>3, <2>1, <1>2
  <2>2. ASSUME NEW j \in 1 .. n + 1
        PROVE  IF IsHeartbeat(wire2[j]) THEN at2[j] = at2[j - 1]
               ELSE at2[j] = at2[j - 1] + 1 /\ wire2[j] = q.blk[at2[j - 1]]
    <3>1. CASE j <= n
      <4>1. j \in 1 .. n /\ j \in 0 .. n /\ j - 1 \in 0 .. n
        BY <1>2, <3>1
      <4>2. wire2[j] = wire[j] /\ at2[j] = at[j] /\ at2[j - 1] = at[j - 1]
        BY <4>1, <1>3, <1>4
      <4>3. IF IsHeartbeat(wire[j]) THEN at[j] = at[j - 1]
            ELSE at[j] = at[j - 1] + 1 /\ wire[j] = q.blk[at[j - 1]]
        BY <4>1, <1>1 DEF Stream, Path
      <4> QED BY <4>2, <4>3
    <3>2. CASE j = n + 1
      <4>1. wire2[j] = b /\ at2[j] = x /\ at2[j - 1] = x
        <5>1. j - 1 = n
          BY <3>2, <1>2
        <5> HIDE DEF n, x
        <5> QED BY <5>1, <3>2, <1>3, <1>4, <1>5
      <4>2. IsHeartbeat(wire2[j])
        BY <4>1
      <4>3. at2[j] = at2[j - 1]
        BY <4>1
      <4> QED BY <4>2, <4>3
    <3>3. j <= n \/ j = n + 1
      <4>1. n \in Nat
        BY <1>2
      <4> HIDE DEF n
      <4> QED BY <4>1
    <3> QED BY <3>1, <3>2, <3>3
  <2> QED BY <1>3, <2>1, <2>2 DEF Path
<1>7. at2[0] = h + Len(prt) /\ at2[Len(wire2)] = x
  BY <1>1, <1>3, <1>4, <1>5 DEF Stream
<1>8. Stream(q, p, have, cnt, prt, wire2, h, at2)
  BY <1>1, <1>2, <1>6, <1>7 DEF Stream
<1>9. live => at2[Len(wire2)] <= q.send_idx /\ (open => at2[Len(wire2)] = q.send_idx)
  BY <1>7, <1>1
<1>10. at2 \in [0 .. Len(wire2) -> Int]
  BY <1>1, <1>7, <1>3, <1>4
<1> QED BY <1>8, <1>9, <1>10 DEF FlowOK, wire2

\* What is left of the path when the first block is received.
LEMMA PathTail ==
  ASSUME NEW q, NEW wire \in Seq(Blocks), wire # <<>>, NEW at \in [0 .. Len(wire) -> Int], Path(q, wire, at)
  PROVE  \E at2 \in [0 .. Len(Tail(wire)) -> Int] :
           /\ Path(q, Tail(wire), at2)
           /\ at2[0] = at[1] /\ at2[Len(Tail(wire))] = at[Len(wire)]
<1> DEFINE n == Len(wire)
           t == Tail(wire)
           at2 == [j \in 0 .. n - 1 |-> at[j + 1]]
<1>1. /\ n \in Nat /\ n >= 1 /\ t \in Seq(Blocks) /\ Len(t) = n - 1
      /\ \A j \in 1 .. n - 1 : t[j] = wire[j + 1]
  OBVIOUS
<1>2. \A j \in 0 .. n - 1 : j + 1 \in 0 .. n /\ j + 1 \in 1 .. n
  BY <1>1
<1>3. at2 \in [0 .. n - 1 -> Int] /\ \A j \in 0 .. n - 1 : at2[j] = at[j + 1]
  BY <1>2
<1> HIDE DEF n, t, at2
<1>4. /\ \A i, j \in 0 .. n : i <= j => at[i] <= at[j]
      /\ \A j \in 1 .. n : IF IsHeartbeat(wire[j]) THEN at[j] = at[j - 1]
                           ELSE at[j] = at[j - 1] + 1 /\ wire[j] = q.blk[at[j - 1]]
  BY DEF Path, n
<1>5. ASSUME NEW i \in 0 .. n - 1, NEW j \in 0 .. n - 1, i <= j
      PROVE  at2[i] <= at2[j]
  <2>1. i + 1 <= j + 1
    BY <1>5, <1>1
  <2>2. at[i + 1] <= at[j + 1]
    BY <2>1, <1>2, <1>4
  <2> QED BY <2>2, <1>3
<1>6. ASSUME NEW j \in 1 .. n - 1
      PROVE  IF IsHeartbeat(t[j]) THEN at2[j] = at2[j - 1]
             ELSE at2[j] = at2[j - 1] + 1 /\ t[j] = q.blk[at2[j - 1]]
  <2>1. j \in 0 .. n - 1 /\ j - 1 \in 0 .. n - 1 /\ (j - 1) + 1 = j /\ (j + 1) - 1 = j /\ j + 1 \in 1 .. n
    BY <1>1
  <2>2. at2[j] = at[j + 1] /\ at2[j - 1] = at[j] /\ t[j] = wire[j + 1]
    BY <2>1, <1>1, <1>3
  <2>3. IF IsHeartbeat(wire[j + 1]) THEN at[j + 1] = at[j]
        ELSE at[j + 1] = at[j] + 1 /\ wire[j + 1] = q.blk[at[j]]
    BY <2>1, <1>4
  <2> QED BY <2>2, <2>3
<1>7. Path(q, t, at2)
  BY <1>1, <1>5, <1>6 DEF Path
<1>8. at2[0] = at[1] /\ at2[n - 1] = at[n]
  <2>1. 0 \in 0 .. n - 1 /\ 0 + 1 = 1 /\ n - 1 \in 0 .. n - 1 /\ (n - 1) + 1 = n
    BY <1>1
  <2> QED BY <2>1, <1>3
<1>9. at2 \in [0 .. Len(t) -> Int] /\ at2[Len(t)] = at[Len(wire)]
  BY <1>1, <1>3, <1>8 DEF n
<1> QED BY <1>7, <1>8, <1>9 DEF t

\* The receiver reads a heartbeat.
LEMMA FlowReadsHeartbeat ==
  ASSUME NEW q \in Queues, NEW p, NEW have, NEW cnt, NEW prt, NEW wire \in Seq(Blocks),
         NEW live, NEW open, FlowOK(q, p, have, cnt, prt, wire, live, open),
         wire # <<>>, IsHeartbeat(Head(wire))
  PROVE  FlowOK(q, p, have, cnt, prt, Tail(wire), live, open)
<1>1. PICK h \in Int, at \in [0 .. Len(wire) -> Int] :
        /\ Stream(q, p, have, cnt, prt, wire, h, at)
        /\ live => at[Len(wire)] <= q.send_idx /\ (open => at[Len(wire)] = q.send_idx)
  BY DEF FlowOK
<1>2. PICK at2 \in [0 .. Len(Tail(wire)) -> Int] :
        /\ Path(q, Tail(wire), at2)
        /\ at2[0] = at[1] /\ at2[Len(Tail(wire))] = at[Len(wire)]
  <2>1. Path(q, wire, at)
    BY <1>1 DEF Stream
  <2> QED BY <2>1, PathTail
<1>3. at[1] = at[0]
  <2>1. 1 \in 1 .. Len(wire) /\ Head(wire) = wire[1] /\ 1 - 1 = 0
    OBVIOUS
  <2>2. IF IsHeartbeat(wire[1]) THEN at[1] = at[1 - 1]
        ELSE at[1] = at[1 - 1] + 1 /\ wire[1] = q.blk[at[1 - 1]]
    BY <2>1, <1>1 DEF Stream, Path
  <2> QED BY <2>1, <2>2
<1>4. Stream(q, p, have, cnt, prt, Tail(wire), h, at2)
  BY <1>1, <1>2, <1>3 DEF Stream
<1>5. live => at2[Len(Tail(wire))] <= q.send_idx /\ (open => at2[Len(Tail(wire))] = q.send_idx)
  BY <1>1, <1>2
<1> QED BY <1>4, <1>5 DEF FlowOK

\* The receiver reads a block: it is the next one of a message that is in the
\* sender's queue.  When the message is whole it is number have + cnt.
LEMMA FlowReadsBlock ==
  ASSUME NEW q \in Queues, NEW p \in UInt, QueueInv(q, p),
         NEW have \in UInt, NEW cnt \in Nat, NEW prt \in Seq(Blocks), NEW wire \in Seq(Blocks),
         NEW live, NEW open, FlowOK(q, p, have, cnt, prt, wire, live, open),
         wire # <<>>, ~ IsHeartbeat(Head(wire))
  PROVE  LET blocks == Append(prt, Head(wire))
         IN  /\ blocks \in Seq(Blocks)
             /\ \E i \in q.read_idx .. q.write_idx - 1 : blocks[1] = q.blk[i] /\ q.blk[i].part = 0
             /\ IF Len(blocks) < blocks[1].len
                THEN FlowOK(q, p, have, cnt, blocks, Tail(wire), live, open)
                ELSE /\ IsMessage(blocks, Add(have, cnt))
                     /\ FlowOK(q, p, have, cnt + 1, <<>>, Tail(wire), live, open)
<1>1. PICK h \in Int, at \in [0 .. Len(wire) -> Int] :
        /\ Stream(q, p, have, cnt, prt, wire, h, at)
        /\ live => at[Len(wire)] <= q.send_idx /\ (open => at[Len(wire)] = q.send_idx)
  BY DEF FlowOK
<1>2. PICK at2 \in [0 .. Len(Tail(wire)) -> Int] :
        /\ Path(q, Tail(wire), at2)
        /\ at2[0] = at[1] /\ at2[Len(Tail(wire))] = at[Len(wire)]
  <2>1. Path(q, wire, at)
    BY <1>1 DEF Stream
  <2> QED BY <2>1, PathTail
<1> DEFINE b == Head(wire)
           blocks == Append(prt, b)
           t == Tail(wire)
           m == Len(prt)
           len == q.blk[h].len
           a == Add(have, cnt)
           z == at[Len(wire)]
<1>3. at[1] = at[0] + 1 /\ b = q.blk[at[0]]
  <2>1. 1 \in 1 .. Len(wire) /\ b = wire[1] /\ 1 - 1 = 0
    OBVIOUS
  <2>2. IF IsHeartbeat(wire[1]) THEN at[1] = at[1 - 1]
        ELSE at[1] = at[1 - 1] + 1 /\ wire[1] = q.blk[at[1 - 1]]
    BY <2>1, <1>1 DEF Stream, Path
  <2> QED BY <2>1, <2>2
<1>4. /\ a \in UInt /\ m \in Nat /\ z \in Int /\ h \in q.read_idx .. q.write_idx
      /\ at[0] = h + m /\ h + m + 1 <= z /\ z <= q.write_idx
      /\ q.read_idx \in Int /\ q.write_idx \in Int
  <2>1. /\ a \in UInt /\ m \in Nat /\ h \in q.read_idx .. q.write_idx /\ z <= q.write_idx
        /\ \A j \in 0 .. Len(wire) : at[j] \in Int /\ at[j] <= at[Len(wire)]
    BY <1>1, StreamRange
  <2>2. 1 \in 0 .. Len(wire) /\ Len(wire) \in 0 .. Len(wire)
    OBVIOUS
  <2>3. at[1] <= z /\ z \in Int
    BY <2>1, <2>2
  <2>4. at[0] = h + m
    BY <1>1 DEF Stream
  <2>5. at[1] = h + m + 1
    BY <1>3, <2>4
  <2> HIDE DEF z, m
  <2>6. q.read_idx \in Int /\ q.write_idx \in Int
    BY QueueFields
  <2> QED BY <2>1, <2>3, <2>4, <2>5, <2>6
<1>5. blocks \in Seq(Blocks) /\ Len(blocks) = m + 1 /\ blocks[m + 1] = b /\ \A j \in 1 .. m : blocks[j] = prt[j]
  <2>1. b \in Blocks
    OBVIOUS
  <2> HIDE DEF b
  <2> QED BY <2>1
<1>6. /\ Starts(q, p, h, a) /\ Off(q, a) = Off(q, have) + cnt
      /\ prt # <<>> => h < q.write_idx /\ m < len
      /\ \A j \in 1 .. m : prt[j] = q.blk[h + j - 1]
  BY <1>1 DEF Stream
<1>7. \A j \in 1 .. m + 1 : blocks[j] = q.blk[h + j - 1]
  <2> TAKE j \in 1 .. m + 1
  <2>1. CASE j <= m
    <3>1. j \in 1 .. m
      BY <2>1, <1>4
    <3> QED BY <3>1, <1>5, <1>6
  <2>2. CASE j = m + 1
    <3>1. h + j - 1 = h + m
      BY <2>2, <1>4
    <3> QED BY <2>2, <3>1, <1>3, <1>4, <1>5
  <2>3. j <= m \/ j = m + 1
    <3> HIDE DEF m
    <3> QED BY <1>4
  <2> QED BY <2>1, <2>2, <2>3
<1> HIDE DEF blocks, b, a, z
<1>8. /\ h \in q.read_idx .. q.write_idx - 1 /\ h \in 0 .. BLK_CNT - 1
      /\ q.blk[h].id = a /\ q.blk[h].part = 0 /\ WholeAt(q, p, h) /\ len > 0 /\ len \in Int
      /\ Starts(q, p, h + len, Add(a, 1)) /\ Off(q, a) < Off(q, p)
  <2>1. a # p
    <3>1. Starts(q, p, q.write_idx, p)
      <4>1. q.read_idx <= q.write_idx
        <5> HIDE DEF m
        <5> QED BY <1>4
      <4> QED BY <4>1, StartsEnd
    <3>2. p = a => h = q.write_idx
      <4> DEFINE w == q.write_idx
      <4>1. Starts(q, p, w, p)
        BY <3>1
      <4> HIDE DEF w
      <4>2. Starts(q, p, h, a) /\ a \in UInt
        BY <1>4, <1>6
      <4>3. (h < w <=> Off(q, a) < Off(q, p)) /\ (h = w <=> a = p)
        BY <4>1, <4>2, StartsOnce
      <4> QED BY <4>3 DEF w
    <3>3. h # q.write_idx
      <4> HIDE DEF m
      <4> QED BY <1>4
    <3> QED BY <3>2, <3>3
  <2> QED BY <2>1, <1>4, <1>6, NextStart
<1>9. blocks[1] = q.blk[h] /\ blocks[1].len = len
  <2>1. 1 \in 1 .. m + 1 /\ h + 1 - 1 = h
    BY <1>4
  <2> QED BY <2>1, <1>7
<1>10. m + 1 <= len
  <2>1. prt # <<>> => m < len
    BY <1>6
  <2>2. prt = <<>> => m = 0
    OBVIOUS
  <2> HIDE DEF len
  <2> QED BY <2>1, <2>2, <1>4, <1>8
<1>11. at2[0] = h + (m + 1) /\ at2[Len(t)] = z
  BY <1>2, <1>3, <1>4 DEF z
<1>12. live => at2[Len(t)] <= q.send_idx /\ (open => at2[Len(t)] = q.send_idx)
  BY <1>1, <1>2
<1>13. CASE Len(blocks) < len
  <2>1. Len(blocks) = m + 1 /\ h < q.write_idx
    BY <1>4, <1>5, <1>8
  <2>2. Stream(q, p, have, cnt, blocks, t, h, at2)
    BY <1>2, <1>4, <1>6, <1>7, <1>11, <1>13, <2>1 DEF Stream, a
  <2>3. FlowOK(q, p, have, cnt, blocks, t, live, open)
    BY <2>2, <1>12 DEF FlowOK
  <2> QED BY <2>3, <1>5, <1>8, <1>9, <1>13 DEF blocks, b
<1>14. CASE ~ (Len(blocks) < len)
  <2>1. len = m + 1
    <3> HIDE DEF len, m
    <3> QED BY <1>14, <1>10, <1>4, <1>5, <1>8
  <2>2. IsMessage(blocks, a)
    <3>1. Len(blocks) = blocks[1].len
      BY <2>1, <1>5, <1>9
    <3>2. DOMAIN blocks = 1 .. m + 1
      BY <1>5
    <3>3. ASSUME NEW j \in 1 .. m + 1 PROVE blocks[j].id = a /\ blocks[j].part = j - 1
      <4>1. h + j - 1 \in h .. h + len - 1 /\ (h + j - 1) - h = j - 1
        <5> HIDE DEF len, m
        <5> QED BY <2>1, <1>4
      <4>2. \A i \in h .. h + len - 1 : q.blk[i].part = i - h /\ q.blk[i].id = q.blk[h].id
        BY <1>8 DEF WholeAt
      <4>3. q.blk[h + j - 1].part = (h + j - 1) - h /\ q.blk[h + j - 1].id = q.blk[h].id
        BY <4>1, <4>2
      <4> QED BY <4>1, <4>3, <1>7, <1>8
    <3> QED BY <3>1, <3>2, <3>3 DEF IsMessage
  <2>3. Add(have, cnt + 1) = Add(a, 1) /\ Off(q, Add(have, cnt + 1)) = Off(q, have) + (cnt + 1)
    <3>1. Off(q, have) \in Nat /\ Off(q, p) \in Nat /\ Off(q, p) < UIntMod /\ UIntMod \in Nat /\ q.read_seq \in UInt
      BY OffRange
    <3>2. Off(q, a) + 1 < UIntMod /\ cnt + 1 < UIntMod
      BY <3>1, <1>6, <1>8
    <3>3. Add(Add(have, cnt), 1) = Add(have, cnt + 1)
      BY <3>2, AddAdd
    <3>4. Sub(a, q.read_seq) + 1 < UIntMod
      BY <3>2 DEF Off
    <3>5. Sub(Add(a, 1), q.read_seq) = Sub(a, q.read_seq) + 1
      BY <3>1, <3>4, <1>4, SubAdd
    <3>6. Off(q, Add(a, 1)) = Off(q, a) + 1
      BY <3>5 DEF Off
    <3>7. (Off(q, have) + cnt) + 1 = Off(q, have) + (cnt + 1)
      BY <3>1
    <3> QED BY <3>3, <3>6, <3>7, <1>6 DEF a
  <2> DEFINE g == h + len
  <2>4. g \in Int /\ at2[0] = g + 0 /\ Len(<<>>) = 0
    <3> HIDE DEF len, m
    <3> QED BY <2>1, <1>4, <1>8, <1>11
  <2>5. Starts(q, p, g, Add(have, cnt + 1))
    BY <1>8, <2>3
  <2> HIDE DEF g
  <2>6. \A j \in 1 .. Len(<<>>) : FALSE
    OBVIOUS
  <2>7. Stream(q, p, have, cnt + 1, <<>>, t, g, at2)
    BY <1>2, <1>4, <1>11, <2>3, <2>4, <2>5, <2>6 DEF Stream
  <2>8. FlowOK(q, p, have, cnt + 1, <<>>, t, live, open)
    BY <2>4, <2>7, <1>12 DEF FlowOK
  <2> QED BY <2>2, <2>8, <1>5, <1>8, <1>9, <1>14 DEF blocks, b, a
<1> QED BY <1>13, <1>14

\* The receiver's user consumes a message.
LEMMA FlowPops ==
  ASSUME NEW q \in Queues, NEW p \in UInt, QueueInv(q, p),
         NEW have \in UInt, NEW cnt \in Nat \ {0}, NEW prt \in Seq(Blocks), NEW wire \in Seq(Blocks),
         NEW live, NEW open, FlowOK(q, p, have, cnt, prt, wire, live, open),
         NEW g, Starts(q, p, g, have)
  PROVE  /\ Add(have, 1) \in UInt
         /\ FlowOK(q, p, Add(have, 1), cnt - 1, prt, wire, live, open)
         /\ AckedOK(q, p, Add(have, 1), live)
<1>1. PICK h \in Int, at \in [0 .. Len(wire) -> Int] :
        /\ Stream(q, p, have, cnt, prt, wire, h, at)
        /\ live => at[Len(wire)] <= q.send_idx /\ (open => at[Len(wire)] = q.send_idx)
  BY DEF FlowOK
<1> DEFINE a == Add(have, cnt)
           next == Add(have, 1)
           z == at[Len(wire)]
<1>2. /\ a \in UInt /\ Off(q, a) \in Nat /\ Off(q, a) <= Off(q, p) /\ Len(prt) \in Nat
      /\ z \in Int /\ h + Len(prt) <= z
  <2>1. /\ a \in UInt /\ Off(q, a) \in Nat /\ Off(q, a) <= Off(q, p) /\ Len(prt) \in Nat
        /\ h + Len(prt) <= z /\ Len(wire) \in Nat
    BY <1>1, StreamRange
  <2> QED BY <2>1
<1>3. Starts(q, p, h, a) /\ Off(q, a) = Off(q, have) + cnt
  BY <1>1 DEF Stream
<1>4. /\ Off(q, have) \in Nat /\ Off(q, p) \in Nat /\ Off(q, p) < UIntMod /\ UIntMod \in Nat
      /\ q.read_seq \in UInt /\ q.send_idx \in Int
  BY OffRange, QueueFields
<1>5. Off(q, have) + 1 < UIntMod \/ Off(q, have) + 1 = Off(q, a)
  BY <1>2, <1>3, <1>4
<1>6. next \in UInt
  BY Widths, AddRange
<1>7. Off(q, have) + 1 < UIntMod /\ cnt < UIntMod
  BY <1>2, <1>3, <1>4
<1>8. Off(q, next) = Off(q, have) + 1
  <2>1. Sub(have, q.read_seq) + 1 < UIntMod
    BY <1>7 DEF Off
  <2>2. Sub(Add(have, 1), q.read_seq) = Sub(have, q.read_seq) + 1
    BY <2>1, <1>4, SubAdd
  <2> QED BY <2>2 DEF Off
<1>9. Add(next, cnt - 1) = a
  <2>1. 1 + (cnt - 1) = cnt /\ cnt - 1 \in Nat /\ 1 \in Nat
    OBVIOUS
  <2>2. Add(Add(have, 1), cnt - 1) = Add(have, 1 + (cnt - 1))
    BY <2>1, <1>7, AddAdd
  <2> QED BY <2>1, <2>2
<1> HIDE DEF a, next, z
<1>10. Off(q, a) = Off(q, next) + (cnt - 1)
  BY <1>3, <1>4, <1>8
<1>11. Stream(q, p, next, cnt - 1, prt, wire, h, at)
  BY <1>1, <1>3, <1>9, <1>10 DEF Stream
<1>12. FlowOK(q, p, next, cnt - 1, prt, wire, live, open)
  BY <1>1, <1>11 DEF FlowOK
<1>13. have # p
  <2>1. Off(q, have) < Off(q, p)
    BY <1>2, <1>3, <1>4
  <2> QED BY <2>1, <1>4
<1> DEFINE f == g + q.blk[g].len
<1>14. Starts(q, p, f, next) /\ g \in q.read_idx .. q.write_idx - 1 /\ q.blk[g].len \in Int
  BY <1>13, NextStart DEF next
<1>15. f \in Int
  <2>1. g \in Int
    BY <1>14, UsedBlock
  <2> QED BY <1>14, <2>1
<1> HIDE DEF f
<1>16. f <= h
  <2>1. h < f <=> Off(q, a) < Off(q, next)
    BY <1>14, <1>3, <1>2, <1>6, StartsOnce
  <2>2. Off(q, next) <= Off(q, a)
    BY <1>3, <1>4, <1>8
  <2> QED BY <2>1, <2>2, <1>15, <1>2, <1>4, <1>8
<1>17. f <= z
  BY <1>2, <1>15, <1>16
<1>18. live => f <= q.send_idx
  <2>1. live => z <= q.send_idx
    BY <1>1 DEF z
  <2> QED BY <2>1, <1>2, <1>4, <1>15, <1>17
<1>19. AckedOK(q, p, next, live)
  BY <1>14, <1>15, <1>18 DEF AckedOK
<1> QED BY <1>6, <1>12, <1>19 DEF next

-----------------------------------------------------------------------------
(* The methods of the queue and the streams.                               *)

\* There are two ends, each the other's peer.
LEMMA EndsAre ==
  /\ Ends = {C, S} /\ C # S /\ C \in Ends /\ S \in Ends
  /\ Peer(C) = S /\ Peer(S) = C
  /\ \A e \in Ends : Peer(e) \in Ends /\ Peer(e) # e /\ Peer(Peer(e)) = e /\ (e = C \/ e = S)
BY DEF Ends, C, S, Peer

\* Whatever the queue does that keeps its blocks from the acknowledged message on
\* keeps the streams.
LEMMA MovesKeep ==
  ASSUME NEW q \in Queues, NEW p \in UInt, QueueInv(q, p), NEW q2 \in Queues, NEW p2, NEW s \in Nat,
         Moves(q, p, q2, p2, s), Starts(q, p, q2.read_idx + s, q2.read_seq),
         NEW have \in UInt, NEW up,
         NEW h \in Int, Starts(q, p, h, have), up => h <= q.send_idx,
         q2.read_idx + s <= h, q2.send_idx + s = q.send_idx
  PROVE  /\ AckedOK(q2, p2, have, up)
         /\ \A cnt \in Nat, prt \in Seq(Blocks), wire \in Seq(Blocks), live \in BOOLEAN, open \in BOOLEAN :
              FlowOK(q, p, have, cnt, prt, wire, live, open)
                => FlowOK(q2, p2, have, cnt, prt, wire, live, open)
<1>1. up => h <= q2.send_idx + s
  OBVIOUS
<1>2. AckedOK(q2, p2, have, up)
  BY <1>1, AckedMoves
<1>3. ASSUME NEW cnt \in Nat, NEW prt \in Seq(Blocks), NEW wire \in Seq(Blocks),
             NEW live \in BOOLEAN, NEW open \in BOOLEAN,
             FlowOK(q, p, have, cnt, prt, wire, live, open)
      PROVE  FlowOK(q2, p2, have, cnt, prt, wire, live, open)
  BY <1>3, FlowMoves
<1> QED BY <1>2, <1>3

\* Ack() of an acknowledgement that is not newer than what the receiver has
\* consumed, on a connection that is open.
LEMMA AckKeeps ==
  ASSUME NEW q \in Queues, NEW p \in UInt, QueueInv(q, p), SendInv(q), NEW have \in UInt,
         NEW h \in Int, Starts(q, p, h, have), h <= q.send_idx,
         NEW a \in UInt, ~ Before(have, a)
  PROVE  LET q2 == Ack(q, a)
         IN  /\ q2 \in Queues /\ QueueInv(q2, p) /\ SendInv(q2) /\ q2.ack_seq = q.ack_seq
             /\ \A up \in BOOLEAN : AckedOK(q2, p, have, up)
             /\ \A cnt \in Nat, prt \in Seq(Blocks), wire \in Seq(Blocks), live \in BOOLEAN, open \in BOOLEAN :
                  FlowOK(q, p, have, cnt, prt, wire, live, open)
                    => FlowOK(q2, p, have, cnt, prt, wire, live, open)
<1>1. Starts(q, p, h, have) /\ h <= q.send_idx
  OBVIOUS
<1> DEFINE q2 == Ack(q, a)
<1>2. /\ q2 \in Queues
      /\ \E s \in Nat :
              /\ Shrinks(q, p, q2, s)
              /\ q2.read_idx + s <= h
              /\ have = a => q2.read_idx + s = h
              /\ SendInv(q) /\ h <= q.send_idx => q2.send_idx + s = q.send_idx
  BY <1>1, AckShrinks
<1> HIDE DEF q2
<1>3. PICK s \in Nat : /\ Shrinks(q, p, q2, s) /\ q2.read_idx + s <= h
                       /\ q2.send_idx + s = q.send_idx
  BY <1>1, <1>2
<1>4. /\ Moves(q, p, q2, p, s) /\ q2.write_idx + s = q.write_idx
      /\ Starts(q, p, q2.read_idx + s, q2.read_seq) /\ q2.ack_seq = q.ack_seq
  BY <1>3 DEF Shrinks
<1>5. QueueInv(q2, p)
  BY <1>2, <1>4, MovesInv
<1>6. SendInv(q2)
  BY <1>1, <1>2, <1>3, <1>4, QueueFields, SMTT(30) DEF SendInv
<1>7. /\ \A up \in BOOLEAN : AckedOK(q2, p, have, up)
      /\ \A cnt \in Nat, prt \in Seq(Blocks), wire \in Seq(Blocks), live \in BOOLEAN, open \in BOOLEAN :
              FlowOK(q, p, have, cnt, prt, wire, live, open)
                => FlowOK(q2, p, have, cnt, prt, wire, live, open)
  <2> DEFINE on == TRUE
  <2>1. (on => h <= q.send_idx) /\ q2.send_idx + s = q.send_idx
    BY <1>1, <1>3
  <2>2. on
    OBVIOUS
  <2>3. ASSUME NEW up \in BOOLEAN PROVE AckedOK(q2, p, have, up)
    <3>1. h <= q2.send_idx + s
      BY <1>1, <1>3
    <3> QED BY <3>1, <1>1, <1>2, <1>3, <1>4, AckedMoves
  <2> HIDE DEF on
  <2>4. /\ AckedOK(q2, p, have, on)
        /\ \A cnt \in Nat, prt \in Seq(Blocks), wire \in Seq(Blocks), live \in BOOLEAN, open \in BOOLEAN :
              FlowOK(q, p, have, cnt, prt, wire, live, open)
                => FlowOK(q2, p, have, cnt, prt, wire, live, open)
    <3>1. /\ q2 \in Queues /\ Moves(q, p, q2, p, s) /\ Starts(q, p, q2.read_idx + s, q2.read_seq)
          /\ q2.read_idx + s <= h /\ q2.send_idx + s = q.send_idx
      BY <1>2, <1>3, <1>4
    <3>2. Starts(q, p, h, have) /\ (on => h <= q.send_idx)
      BY <1>1
    <3> QED BY <3>1, <3>2, MovesKeep
  <2> QED BY <2>2, <2>3, <2>4
<1> QED BY <1>2, <1>4, <1>5, <1>6, <1>7 DEF q2

\* LoginAck() of an acknowledgement that is not newer than what the receiver has
\* consumed keeps the streams on other connections.  When it is what the receiver
\* has consumed, the queue starts there, and everything is to be sent again.
LEMMA LoginAckOpens ==
  ASSUME NEW q \in Queues, NEW p \in UInt, QueueInv(q, p), NEW have \in UInt, NEW up,
         AckedOK(q, p, have, up), NEW a \in UInt, ~ Before(have, a)
  PROVE  LET q2 == LoginAck(q, a)
         IN  /\ q2 \in Queues /\ QueueInv(q2, p) /\ SendInv(q2) /\ q2.ack_seq = q.ack_seq
             /\ \A on \in BOOLEAN : (on => a = have) => AckedOK(q2, p, have, on)
             /\ a = have => \A live \in BOOLEAN, open \in BOOLEAN :
                  FlowOK(q2, p, have, 0, <<>>, <<>>, live, open)
             /\ \A cnt \in Nat, prt \in Seq(Blocks), wire \in Seq(Blocks), live \in BOOLEAN, open \in BOOLEAN :
                  ~ live /\ FlowOK(q, p, have, cnt, prt, wire, live, open)
                    => FlowOK(q2, p, have, cnt, prt, wire, live, open)
<1>1. PICK h \in Int : Starts(q, p, h, have)
  BY DEF AckedOK
<1> DEFINE k == Ack(q, a)
           q2 == LoginAck(q, a)
<1>3. /\ k \in Queues
      /\ \E s \in Nat :
              /\ Shrinks(q, p, k, s)
              /\ k.read_idx + s <= h
              /\ have = a => k.read_idx + s = h
              /\ SendInv(q) /\ h <= q.send_idx => k.send_idx + s = q.send_idx
  BY <1>1, AckShrinks
<1>4. /\ q2 \in Queues /\ q2.send_idx = k.read_idx /\ q2.blk = k.blk
      /\ q2.write_idx = k.write_idx /\ q2.read_idx = k.read_idx
      /\ q2.read_seq = k.read_seq /\ q2.ack_seq = k.ack_seq
  BY <1>3, LoginAckIs
<1> HIDE DEF k, q2
<1>5. PICK s \in Nat : Shrinks(q, p, k, s) /\ k.read_idx + s <= h /\ (have = a => k.read_idx + s = h)
  BY <1>3
<1>6. /\ Moves(q, p, q2, p, s) /\ q2.write_idx + s = q.write_idx
      /\ Starts(q, p, q2.read_idx + s, q2.read_seq) /\ q2.ack_seq = q.ack_seq
  BY <1>4, <1>5 DEF Shrinks, Moves
<1>7. QueueInv(q2, p)
  BY <1>4, <1>6, MovesInv
<1>8. /\ q2.read_idx + s <= h /\ (a = have => q2.read_idx + s = h) /\ q2.send_idx = q2.read_idx
      /\ q2.read_idx \in Int /\ q2.send_idx \in Int /\ q2.write_idx \in Int
  BY <1>4, <1>5, QueueFields
<1>9. SendInv(q2)
  <2>1. Starts(q2, p, q2.read_idx, q2.read_seq)
    BY <1>7 DEF QueueInv
  <2> QED BY <2>1, <1>8 DEF SendInv, Starts
<1>10. ASSUME NEW on \in BOOLEAN, on => a = have PROVE AckedOK(q2, p, have, on)
  <2>1. (on => h <= q2.send_idx + s) /\ q2.read_idx + s <= h
    BY <1>8, <1>10
  <2> QED BY <2>1, <1>1, <1>4, <1>6, AckedMoves
<1>11. ASSUME a = have, NEW live \in BOOLEAN, NEW open \in BOOLEAN
       PROVE  FlowOK(q2, p, have, 0, <<>>, <<>>, live, open)
  <2> DEFINE g == h - s
  <2>1. g \in Int /\ g = q2.send_idx /\ h >= q2.read_idx + s
    BY <1>8, <1>11
  <2>2. Starts(q2, p, g, have)
    BY <2>1, <1>1, <1>4, <1>6, StartsMoved
  <2> HIDE DEF g
  <2> QED BY <2>1, <2>2, <1>4, FlowFresh
<1>12. ASSUME NEW cnt \in Nat, NEW prt \in Seq(Blocks), NEW wire \in Seq(Blocks), NEW live \in BOOLEAN,
              NEW open \in BOOLEAN, ~ live, FlowOK(q, p, have, cnt, prt, wire, live, open)
       PROVE  FlowOK(q2, p, have, cnt, prt, wire, live, open)
  <2>1. q2.read_idx + s <= h
    BY <1>8
  <2> QED BY <2>1, <1>1, <1>4, <1>6, <1>12, FlowMoves
<1> QED BY <1>4, <1>6, <1>7, <1>9, <1>10, <1>11, <1>12 DEF q2

\* Alloc() keeps the streams although it moves the blocks.
LEMMA AllocKeeps ==
  ASSUME NEW q \in Queues, NEW p \in UInt, QueueInv(q, p), SendInv(q), NEW have \in UInt, NEW up,
         AckedOK(q, p, have, up), NEW len \in Nat \ {0}, ~ AllocFails(q, len)
  PROVE  LET q2 == Alloc(q, len, p)
         IN  /\ q2 \in Queues /\ QueueInv(q2, p) /\ SendInv(q2) /\ AllocInv(q2, p)
             /\ q2.ack_seq = q.ack_seq /\ q2.read_seq = q.read_seq
             /\ AckedOK(q2, p, have, up)
             /\ \A cnt \in Nat, prt \in Seq(Blocks), wire \in Seq(Blocks), live \in BOOLEAN, open \in BOOLEAN :
                  FlowOK(q, p, have, cnt, prt, wire, live, open)
                    => FlowOK(q2, p, have, cnt, prt, wire, live, open)
<1>1. PICK h \in Int : Starts(q, p, h, have) /\ (up => h <= q.send_idx)
  BY DEF AckedOK
<1> DEFINE q2 == Alloc(q, len, p)
<1>2. /\ q2 \in Queues /\ AllocInv(q2, p)
      /\ \E s \in Nat :
           /\ Shrinks(q, p, q2, s)
           /\ q2.read_idx + s = q.read_idx /\ q2.send_idx + s = q.send_idx
  BY AllocShrinks
<1> HIDE DEF q2
<1>3. PICK s \in Nat : /\ Shrinks(q, p, q2, s)
                       /\ q2.read_idx + s = q.read_idx /\ q2.send_idx + s = q.send_idx
  BY <1>2
<1>4. /\ Moves(q, p, q2, p, s) /\ q2.write_idx + s = q.write_idx
      /\ Starts(q, p, q2.read_idx + s, q2.read_seq) /\ q2.ack_seq = q.ack_seq
  BY <1>3 DEF Shrinks
<1>5. QueueInv(q2, p)
  BY <1>2, <1>4, MovesInv
<1>6. SendInv(q2)
  BY <1>2, <1>3, <1>4, QueueFields DEF SendInv
<1>7. q2.read_idx + s <= h
  BY <1>1, <1>3, QueueFields DEF Starts
<1>8. q2.read_seq = q.read_seq
  <2>1. Starts(q, p, q.read_idx, q2.read_seq) /\ Starts(q, p, q.read_idx, q.read_seq)
    BY <1>3, <1>4 DEF QueueInv
  <2> QED BY <2>1 DEF Starts
<1>9. /\ AckedOK(q2, p, have, up)
      /\ \A cnt \in Nat, prt \in Seq(Blocks), wire \in Seq(Blocks), live \in BOOLEAN, open \in BOOLEAN :
              FlowOK(q, p, have, cnt, prt, wire, live, open)
                => FlowOK(q2, p, have, cnt, prt, wire, live, open)
  <2>1. /\ q2 \in Queues /\ Moves(q, p, q2, p, s) /\ Starts(q, p, q2.read_idx + s, q2.read_seq)
        /\ q2.read_idx + s <= h /\ q2.send_idx + s = q.send_idx
    BY <1>2, <1>3, <1>4, <1>7
  <2>2. Starts(q, p, h, have) /\ (up => h <= q.send_idx) /\ (up => h <= q2.send_idx + s)
    BY <1>1, <2>1
  <2>3. AckedOK(q2, p, have, up)
    BY <2>1, <2>2, AckedMoves
  <2>4. ASSUME NEW cnt \in Nat, NEW prt \in Seq(Blocks), NEW wire \in Seq(Blocks),
               NEW live \in BOOLEAN, NEW open \in BOOLEAN,
               FlowOK(q, p, have, cnt, prt, wire, live, open)
        PROVE  FlowOK(q2, p, have, cnt, prt, wire, live, open)
    BY <2>1, <2>2, <2>4, FlowMoves
  <2> QED BY <2>3, <2>4
<1> QED BY <1>2, <1>4, <1>5, <1>6, <1>8, <1>9 DEF q2

\* Push() keeps the streams.
LEMMA PushKeeps ==
  ASSUME NEW q \in Queues, NEW p \in UInt, QueueInv(q, p), SendInv(q), AllocInv(q, p),
         NEW have \in UInt, NEW up, AckedOK(q, p, have, up)
  PROVE  LET q2 == Push(q)
             p2 == Add(p, 1)
         IN  /\ q2 \in Queues /\ p2 \in UInt /\ QueueInv(q2, p2) /\ SendInv(q2)
             /\ q2.ack_seq = q.ack_seq /\ q2.read_seq = q.read_seq
             /\ AckedOK(q2, p2, have, up)
             /\ \A cnt \in Nat, prt \in Seq(Blocks), wire \in Seq(Blocks), live \in BOOLEAN, open \in BOOLEAN :
                  FlowOK(q, p, have, cnt, prt, wire, live, open)
                    => FlowOK(q2, p2, have, cnt, prt, wire, live, open)
<1>1. PICK h \in Int : Starts(q, p, h, have) /\ (up => h <= q.send_idx)
  BY DEF AckedOK
<1> DEFINE q2 == Push(q)
           p2 == Add(p, 1)
<1>2. /\ q2 \in Queues /\ q2.write_idx = q.write_idx + q.blk[q.write_idx].len
      /\ q2.read_idx = q.read_idx /\ q2.send_idx = q.send_idx
      /\ q2.read_seq = q.read_seq /\ q2.ack_seq = q.ack_seq
  BY PushIs
<1>3. Moves(q, p, q2, p2, 0) /\ QueueInv(q2, p2)
  BY PushMoves, PushInv
<1>4. p2 \in UInt
  <2>1. 1 \in 0 .. UIntMod
    BY Widths
  <2> QED BY <2>1, AddRange
<1> HIDE DEF q2, p2
<1>5. /\ q2.read_idx + 0 = q.read_idx /\ q2.send_idx + 0 = q.send_idx /\ q.read_idx <= h
      /\ q2.read_idx + 0 <= h
  BY <1>1, <1>2, QueueFields DEF Starts
<1>6. Starts(q, p, q2.read_idx + 0, q2.read_seq)
  BY <1>2, <1>5 DEF QueueInv
<1>7. SendInv(q2)
  <2>1. q.blk[q.write_idx].len > 0 /\ q.write_idx < BLK_CNT
    BY DEF AllocInv
  <2>2. q.write_idx \in 0 .. BLK_CNT - 1
    BY <2>1, QueueFields, Widths
  <2>3. q.blk[q.write_idx].len \in Int
    BY <2>2, QueueFields
  <2> QED BY <1>2, <2>1, <2>3, QueueFields DEF SendInv
<1>8. /\ AckedOK(q2, p2, have, up)
      /\ \A cnt \in Nat, prt \in Seq(Blocks), wire \in Seq(Blocks), live \in BOOLEAN, open \in BOOLEAN :
              FlowOK(q, p, have, cnt, prt, wire, live, open)
                => FlowOK(q2, p2, have, cnt, prt, wire, live, open)
  <2> DEFINE s == 0
  <2>1. /\ s \in Nat /\ Moves(q, p, q2, p2, s) /\ Starts(q, p, q2.read_idx + s, q2.read_seq)
        /\ q2.read_idx + s <= h /\ q2.send_idx + s = q.send_idx /\ q2 \in Queues
    BY <1>2, <1>3, <1>5, <1>6
  <2>2. Starts(q, p, h, have) /\ (up => h <= q.send_idx)
    BY <1>1
  <2> HIDE DEF s
  <2> QED BY <2>1, <2>2, MovesKeep
<1> QED BY <1>2, <1>3, <1>4, <1>7, <1>8 DEF q2, p2

=============================================================================
