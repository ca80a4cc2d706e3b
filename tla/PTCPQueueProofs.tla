--------------------------- MODULE PTCPQueueProofs ---------------------------
(***************************************************************************)
(* What the methods of the persistent queue do to a queue that is in       *)
(* order, for every size of the queue and every width of the sequence      *)
(* numbers.  PTCPSessionProofs builds on these lemmas.                     *)
(***************************************************************************)
EXTENDS PTCPQueue, FiniteSetTheorems, TLAPS

-----------------------------------------------------------------------------
(* Induction over an interval, stated for sets.                            *)

\* A set that contains 0, and with each number the next one, is the interval: a
\* number that is missing would have, among the intervals from it to n, one that
\* is minimal.
LEMMA IntervalInduction ==
  ASSUME NEW n \in Nat, NEW T, T \subseteq 0 .. n, 0 \in T,
         \A k \in 1 .. n : k - 1 \in T => k \in T
  PROVE  \A k \in 0 .. n : k \in T
<1> DEFINE D == 0 .. n
           F == {0 .. x : x \in D \ T}
<1> SUFFICES ASSUME D \ T # {} PROVE FALSE
  OBVIOUS
<1>1. FiniteSubsetsOf(D) = SUBSET D
  <2>1. IsFiniteSet(D)
    <3>1. 0 \in Int /\ n \in Int
      OBVIOUS
    <3> QED BY <3>1, FS_Interval
  <2> HIDE DEF D
  <2> QED BY <2>1, FS_FiniteSubsetsOfFinite
<1>2. F \subseteq SUBSET D /\ F # {}
  <2>1. \A x \in D \ T : 0 .. x \in SUBSET D
    OBVIOUS
  <2>2. PICK x \in D \ T : TRUE
    OBVIOUS
  <2>3. 0 .. x \in F
    OBVIOUS
  <2> QED BY <2>1, <2>3
<1>3. PICK A \in F : \A B \in F : ~ (<<B, A>> \in StrictSubsetOrdering(D))
  <2> HIDE DEF F, D
  <2> QED BY <1>1, <1>2, FS_StrictSubsetOrderingWellFounded, WFMin
<1>4. PICK x \in D \ T : A = 0 .. x
  OBVIOUS
<1>5. x - 1 \in D \ T
  OBVIOUS
<1>6. 0 .. x - 1 \in F
  BY <1>5
<1>7. <<0 .. x - 1, A>> \in StrictSubsetOrdering(D)
  <2>1. 0 .. x - 1 \subseteq A /\ A \subseteq D /\ x \in A /\ x \notin 0 .. x - 1
    BY <1>4
  <2> QED BY <2>1 DEF StrictSubsetOrdering
<1> QED BY <1>3, <1>6, <1>7

-----------------------------------------------------------------------------
(* Sequence numbers.                                                       *)

\* The range of sequence numbers is twice a positive number.
LEMMA Widths ==
  /\ HalfRange \in Nat /\ HalfRange > 0 /\ UIntMod = 2 * HalfRange
  /\ UInt = 0 .. UIntMod - 1
  /\ BLK_CNT \in Nat /\ BLK_CNT > 0 /\ BLK_CNT < HalfRange
BY HalfRangeAssumption, BlkCntAssumption DEF UIntMod, UInt

\* A difference is a sequence number and is 0 only for equals.
LEMMA SubRange ==
  ASSUME NEW a \in UInt, NEW b \in UInt
  PROVE  Sub(a, b) \in UInt /\ Sub(a, b) \in Nat /\ (Sub(a, b) = 0 <=> a = b) /\ Sub(a, a) = 0
BY Widths DEF Sub

\* The unsigned sum is in the range of the type.
LEMMA AddRange ==
  ASSUME NEW a \in UInt, NEW n \in 0 .. UIntMod
  PROVE  Add(a, n) \in UInt /\ Add(a, 0) = a
BY Widths DEF Add

\* Adding 0 changes nothing.
LEMMA AddZero ==
  ASSUME NEW a \in UInt
  PROVE  Add(a, 0) = a
BY Widths DEF Add

\* The distance from a base grows by what is added, as long as it does not pass
\* the range.
LEMMA SubAdd ==
  ASSUME NEW a \in UInt, NEW b \in UInt, NEW n \in Nat, Sub(a, b) + n < UIntMod
  PROVE  Sub(Add(a, n), b) = Sub(a, b) + n
BY Widths DEF Add, Sub

\* Distances from one base differ by the distance from one to the other.
LEMMA SubSub ==
  ASSUME NEW a \in UInt, NEW b \in UInt, NEW c \in UInt, Sub(a, c) <= Sub(b, c)
  PROVE  Sub(b, a) = Sub(b, c) - Sub(a, c)
BY Widths DEF Sub

\* Equal distances from one base are of equal numbers.
LEMMA SubSame ==
  ASSUME NEW a \in UInt, NEW b \in UInt, NEW c \in UInt, Sub(a, c) = Sub(b, c)
  PROVE  a = b
BY Widths DEF Sub

\* A number is its base plus its distance.
LEMMA AddSub ==
  ASSUME NEW a \in UInt, NEW b \in UInt
  PROVE  Add(b, Sub(a, b)) = a
BY Widths DEF Add, Sub

\* Two sums in a row are one.
LEMMA AddAdd ==
  ASSUME NEW a \in UInt, NEW m \in Nat, NEW n \in Nat, m + n < UIntMod
  PROVE  Add(Add(a, m), n) = Add(a, m + n)
BY Widths DEF Add

\* (int)(ack_seq - read_seq_num_) > 0 tells an ack that is newer from one that is
\* stale, if neither the queue nor the ack is half of the range behind what the
\* peer has consumed; a newer one is then not beyond it.
LEMMA AckWindow ==
  ASSUME NEW r \in UInt, NEW have \in UInt, NEW a \in UInt,
         Sub(have, r) < HalfRange, ~ Before(have, a), a # r, ~ Before(a, r)
  PROVE  Sub(a, r) > 0 /\ Sub(a, r) <= Sub(have, r)
BY Widths DEF Sub, Before
-----------------------------------------------------------------------------
(* Queues in order.                                                        *)

QBlocks == [id : UInt, part : 0 .. BLK_CNT, len : 0 .. BLK_CNT, ack : UInt]

Queues ==
  [blk : [0 .. BLK_CNT - 1 -> QBlocks],
   write_idx : 0 .. BLK_CNT, read_idx : 0 .. BLK_CNT, send_idx : 0 .. BLK_CNT,
   read_seq : UInt, ack_seq : UInt]

\* How many messages after the oldest one of the queue message number id is.
Off(q, id) == Sub(id, q.read_seq)

\* Message number id starts at block h; number p, the next to be pushed, at
\* write_idx.
Starts(q, p, h, id) ==
  /\ h \in q.read_idx .. q.write_idx
  /\ IF h < q.write_idx THEN q.blk[h].part = 0 /\ q.blk[h].id = id ELSE id = p

\* The message that starts at block h is whole and the next one follows it.
WholeAt(q, p, h) ==
  LET e == h + q.blk[h].len
  IN  /\ e > h
      /\ \A j \in h .. e - 1 : q.blk[j].part = j - h /\ q.blk[j].id = q.blk[h].id
      /\ Starts(q, p, e, Add(q.blk[h].id, 1))

\* The blocks from read_idx to write_idx are messages number read_seq to p - 1,
\* whole and in order, with at least one block each.
QueueInv(q, p) ==
  /\ Starts(q, p, q.read_idx, q.read_seq)
  /\ \A i \in q.read_idx .. q.write_idx - 1 :
       /\ q.blk[i].len > 0
       /\ LET h == i - q.blk[i].part
          IN  h >= q.read_idx /\ q.blk[h].part = 0 /\ i < h + q.blk[h].len
       /\ q.blk[i].part = 0 =>
            /\ WholeAt(q, p, i)
            /\ Off(q, q.blk[i].id) < Off(q, p)
            /\ Off(q, p) - Off(q, q.blk[i].id) <= q.write_idx - i
  /\ \A i, j \in q.read_idx .. q.write_idx - 1 :
       i < j /\ q.blk[j].part = 0 => Off(q, q.blk[i].id) < Off(q, q.blk[j].id)

\* The invariant stated at the fields of PTCPQueue.
SendInv(q) == q.read_idx <= q.send_idx /\ q.send_idx <= q.write_idx

\* What Alloc() and the user left at write_idx.
AllocInv(q, p) ==
  LET w == q.write_idx
      len == q.blk[w].len
  IN  /\ w < BLK_CNT /\ len > 0 /\ w + len <= BLK_CNT
      /\ \A i \in w .. w + len - 1 : q.blk[i].len > 0 /\ q.blk[i].part = i - w /\ q.blk[i].id = p

\* q2 holds the blocks of q from some message on, s places further down, and
\* maybe one more message.
Moves(q, p, q2, p2, s) ==
  /\ q2.read_idx + s \in q.read_idx .. q.write_idx /\ q2.write_idx + s >= q.write_idx
  /\ \A i \in q2.read_idx + s .. q.write_idx - 1 : q2.blk[i - s] = q.blk[i]
  /\ IF q2.write_idx + s = q.write_idx THEN p2 = p
     ELSE q2.blk[q.write_idx - s].part = 0 /\ q2.blk[q.write_idx - s].id = p

\* The fields of a queue.
LEMMA QueueFields ==
  ASSUME NEW q \in Queues
  PROVE  /\ q.read_idx \in 0 .. BLK_CNT /\ q.write_idx \in 0 .. BLK_CNT /\ q.send_idx \in 0 .. BLK_CNT
         /\ q.read_seq \in UInt /\ q.ack_seq \in UInt
         /\ q.blk \in [0 .. BLK_CNT - 1 -> QBlocks]
         /\ \A i \in 0 .. BLK_CNT - 1 :
              /\ q.blk[i] \in QBlocks
              /\ q.blk[i].id \in UInt /\ q.blk[i].part \in 0 .. BLK_CNT
              /\ q.blk[i].len \in 0 .. BLK_CNT /\ q.blk[i].ack \in UInt
BY DEF Queues, QBlocks

\* A block between read_idx and write_idx is a block of the array.
LEMMA UsedBlock ==
  ASSUME NEW q \in Queues, NEW i, i \in q.read_idx .. q.write_idx - 1
  PROVE  i \in Int /\ i \in 0 .. BLK_CNT - 1
BY QueueFields, Widths

\* Distances are sequence numbers.
LEMMA OffRange ==
  ASSUME NEW q \in Queues, NEW id \in UInt
  PROVE  /\ Off(q, id) \in Nat /\ Off(q, id) < UIntMod /\ Off(q, q.read_seq) = 0
         /\ UIntMod \in Nat /\ q.read_seq \in UInt
<1>1. q.read_seq \in UInt
  BY QueueFields
<1>2. Off(q, id) \in UInt /\ Off(q, id) \in Nat /\ Off(q, q.read_seq) = 0
  BY <1>1, SubRange DEF Off
<1> QED BY <1>1, <1>2, Widths

\* A record with the fields of a queue is one.
LEMMA QueueMade ==
  ASSUME NEW b \in [0 .. BLK_CNT - 1 -> QBlocks], NEW w \in 0 .. BLK_CNT, NEW r \in 0 .. BLK_CNT,
         NEW s \in 0 .. BLK_CNT, NEW rs \in UInt, NEW as \in UInt
  PROVE  [blk |-> b, write_idx |-> w, read_idx |-> r, send_idx |-> s, read_seq |-> rs, ack_seq |-> as]
           \in Queues
BY DEF Queues

\* Messages are at most as many as the blocks they lie in.
LEMMA QueueCount ==
  ASSUME NEW q \in Queues, NEW p \in UInt, QueueInv(q, p)
  PROVE  Off(q, p) \in Nat /\ Off(q, p) <= q.write_idx - q.read_idx
<1>1. Off(q, p) \in Nat /\ Off(q, q.read_seq) = 0 /\ (p = q.read_seq => Off(q, p) = 0)
  BY QueueFields, SubRange DEF Off
<1>2. CASE q.read_idx < q.write_idx
  BY <1>1, <1>2, QueueFields, Widths, SMTT(30) DEF QueueInv, Starts
<1>3. CASE ~ (q.read_idx < q.write_idx)
  BY <1>1, <1>3, QueueFields, Widths DEF QueueInv, Starts
<1> QED BY <1>2, <1>3

\* A message is found at one place only.
LEMMA StartsOnce ==
  ASSUME NEW q \in Queues, NEW p \in UInt, QueueInv(q, p), NEW a \in UInt, NEW b \in UInt,
         NEW g, NEW h, Starts(q, p, g, a), Starts(q, p, h, b)
  PROVE  /\ Off(q, a) \in Nat /\ Off(q, a) <= Off(q, p)
         /\ (g < h <=> Off(q, a) < Off(q, b)) /\ (g = h <=> a = b)
<1>0. Off(q, a) \in Nat /\ Off(q, b) \in Nat /\ Off(q, p) \in Nat
  BY QueueFields, SubRange DEF Off
<1>a. Off(q, a) = Off(q, b) => a = b
  BY QueueFields, SubSame DEF Off
<1>1. /\ \A x \in q.read_idx .. q.write_idx - 1 : q.blk[x].part = 0 => Off(q, q.blk[x].id) < Off(q, p)
      /\ \A i, j \in q.read_idx .. q.write_idx - 1 :
           i < j /\ q.blk[j].part = 0 => Off(q, q.blk[i].id) < Off(q, q.blk[j].id)
  BY DEF QueueInv
<1>2. ASSUME NEW i, NEW j, NEW c \in UInt, NEW d \in UInt,
             Starts(q, p, i, c), Starts(q, p, j, d), i < j
      PROVE  Off(q, c) < Off(q, d)
  <2>1. i \in q.read_idx .. q.write_idx - 1 /\ q.blk[i].part = 0 /\ q.blk[i].id = c
    BY <1>2, QueueFields, Widths DEF Starts
  <2>2. CASE j < q.write_idx
    <3>1. j \in q.read_idx .. q.write_idx - 1 /\ q.blk[j].part = 0 /\ q.blk[j].id = d
      BY <2>2, <1>2, QueueFields, Widths DEF Starts
    <3> QED BY <2>1, <3>1, <1>2, <1>1
  <2>3. CASE ~ (j < q.write_idx)
    <3>1. Off(q, c) < Off(q, p)
      BY <2>1, <1>1
    <3>2. d = p
      BY <2>3, <1>2 DEF Starts
    <3> QED BY <3>1, <3>2
  <2> QED BY <2>2, <2>3
<1>3. g \in Int /\ h \in Int
  BY QueueFields, Widths DEF Starts
<1>4. g = h => a = b
  BY DEF Starts
<1>5. Off(q, a) <= Off(q, p)
  <2>1. CASE g < q.write_idx
    <3>1. g \in q.read_idx .. q.write_idx - 1 /\ q.blk[g].part = 0 /\ q.blk[g].id = a
      BY <2>1, QueueFields, Widths DEF Starts
    <3>2. Off(q, a) < Off(q, p)
      BY <3>1, <1>1
    <3> QED BY <3>2, <1>0
  <2>2. CASE ~ (g < q.write_idx)
    BY <2>2, <1>0 DEF Starts
  <2> QED BY <2>1, <2>2
<1> QED BY <1>0, <1>a, <1>2, <1>3, <1>4, <1>5

\* The place of the next message to be pushed.
LEMMA StartsEnd ==
  ASSUME NEW q \in Queues, NEW p, q.read_idx <= q.write_idx
  PROVE  Starts(q, p, q.write_idx, p)
BY QueueFields, Widths DEF Starts

\* A block belongs to a message that starts at or before it and has its number.
LEMMA BlockOfMessage ==
  ASSUME NEW q \in Queues, NEW p \in UInt, QueueInv(q, p), NEW i \in q.read_idx .. q.write_idx - 1
  PROVE  LET h == i - q.blk[i].part
         IN  /\ h \in q.read_idx .. i /\ i < h + q.blk[h].len
             /\ Starts(q, p, h, q.blk[i].id) /\ WholeAt(q, p, h)
             /\ h + q.blk[h].len <= q.write_idx
             /\ q.blk[h].id = q.blk[i].id
<1> DEFINE h == i - q.blk[i].part
<1>1. i \in 0 .. BLK_CNT - 1 /\ q.blk[i].part \in 0 .. BLK_CNT
  BY QueueFields, Widths
<1>2. h >= q.read_idx /\ q.blk[h].part = 0 /\ i < h + q.blk[h].len
  BY DEF QueueInv
<1>3. h \in q.read_idx .. i /\ h \in q.read_idx .. q.write_idx - 1
  <2>1. h \in Int /\ h <= i
    BY <1>1
  <2>2. h >= q.read_idx
    BY <1>2
  <2>3. q.read_idx \in Int /\ q.write_idx \in Int
    BY QueueFields
  <2> HIDE DEF h
  <2> QED BY <2>1, <2>2, <2>3
<1>4. WholeAt(q, p, h)
  <2> HIDE DEF h
  <2> QED BY <1>2, <1>3 DEF QueueInv
<1>5. q.blk[i].id = q.blk[h].id
  <2>1. q.blk[h].len \in 0 .. BLK_CNT
    BY <1>1, <1>3, QueueFields, Widths, SMTT(30)
  <2>2. i \in h .. h + q.blk[h].len - 1
    BY <1>2, <1>3, <2>1, QueueFields
  <2> HIDE DEF h
  <2>3. \A j \in h .. h + q.blk[h].len - 1 : q.blk[j].part = j - h /\ q.blk[j].id = q.blk[h].id
    BY <1>4, <1>3, <2>1, QueueFields DEF WholeAt
  <2> QED BY <2>2, <2>3
<1>6. Starts(q, p, h, q.blk[i].id)
  BY <1>2, <1>3, <1>5, QueueFields, Widths, SMTT(30) DEF Starts
<1>7. h + q.blk[h].len <= q.write_idx
  <2> HIDE DEF h
  <2>1. Starts(q, p, h + q.blk[h].len, Add(q.blk[h].id, 1))
    BY <1>4 DEF WholeAt
  <2> QED BY <2>1, QueueFields DEF Starts
<1> QED BY <1>2, <1>3, <1>4, <1>5, <1>6, <1>7

\* What follows from one step of the queue for the places of messages and for
\* their distances.
LEMMA StartsMoved ==
  ASSUME NEW q \in Queues, NEW p, NEW q2 \in Queues, NEW p2, NEW s \in Nat, Moves(q, p, q2, p2, s),
         NEW h, NEW id, Starts(q, p, h, id), h >= q2.read_idx + s
  PROVE  Starts(q2, p2, h - s, id)
<1>1. h \in Int /\ h - s \in q2.read_idx .. q2.write_idx
  BY QueueFields, Widths DEF Starts, Moves
<1>2. CASE h < q.write_idx
  <2>1. q.blk[h].part = 0 /\ q.blk[h].id = id
    BY <1>2 DEF Starts
  <2>2. h \in q2.read_idx + s .. q.write_idx - 1 /\ h - s < q2.write_idx
    BY <1>1, <1>2, QueueFields, Widths DEF Moves
  <2>3. q2.blk[h - s] = q.blk[h]
    BY <2>2 DEF Moves
  <2> QED BY <1>1, <2>1, <2>2, <2>3 DEF Starts
<1>3. CASE ~ (h < q.write_idx)
  <2>1. h = q.write_idx /\ id = p
    BY <1>1, <1>3, QueueFields DEF Starts
  <2>2. CASE q2.write_idx + s = q.write_idx
    <3>1. p2 = p /\ h - s = q2.write_idx
      BY <2>1, <2>2, QueueFields DEF Moves
    <3> QED BY <1>1, <2>1, <3>1, QueueFields DEF Starts
  <2>3. CASE q2.write_idx + s # q.write_idx
    <3>1. q2.blk[h - s].part = 0 /\ q2.blk[h - s].id = p
      BY <2>1, <2>3 DEF Moves
    <3>2. q2.write_idx + s >= q.write_idx
      BY DEF Moves
    <3>3. h - s < q2.write_idx
      BY <2>1, <2>3, <3>2, QueueFields
    <3> QED BY <1>1, <2>1, <3>1, <3>3 DEF Starts
  <2> QED BY <2>2, <2>3
<1> QED BY <1>2, <1>3

\* The distance of a number from the first one, after the first has moved.
LEMMA OffMoved ==
  ASSUME NEW q \in Queues, NEW p \in UInt, QueueInv(q, p), NEW q2 \in Queues,
         NEW g, NEW h, NEW id \in UInt, Starts(q, p, g, q2.read_seq), Starts(q, p, h, id), h >= g
  PROVE  Off(q2, id) = Off(q, id) - Off(q, q2.read_seq) /\ Off(q, q2.read_seq) <= Off(q, id)
<1>1. q.read_seq \in UInt /\ q2.read_seq \in UInt /\ g \in Int /\ h \in Int
  BY QueueFields, Widths DEF Starts
<1>2. /\ Off(q, id) \in Nat /\ Off(q, q2.read_seq) \in Nat
      /\ h < g <=> Off(q, id) < Off(q, q2.read_seq)
  BY <1>1, StartsOnce
<1>3. Off(q, q2.read_seq) <= Off(q, id)
  BY <1>1, <1>2
<1> QED BY <1>1, <1>3, SubSub DEF Off

\* A queue that keeps the messages from a later one on is in order: compaction
\* and acknowledgements.
LEMMA MovesInv ==
  ASSUME NEW q \in Queues, NEW p \in UInt, QueueInv(q, p), NEW q2 \in Queues, NEW s \in Nat,
         Moves(q, p, q2, p, s), q2.write_idx + s = q.write_idx,
         Starts(q, p, q2.read_idx + s, q2.read_seq)
  PROVE  QueueInv(q2, p)
<1> DEFINE g == q2.read_idx + s
           a == q2.read_seq
<1>1. /\ q.read_idx \in Int /\ q.write_idx \in Int /\ q2.read_idx \in Int /\ q2.write_idx \in Int
      /\ a \in UInt /\ g \in q.read_idx .. q.write_idx
  BY QueueFields DEF Moves
<1>2. ASSUME NEW i \in q2.read_idx .. q2.write_idx - 1
      PROVE  i + s \in g .. q.write_idx - 1 /\ q2.blk[i] = q.blk[i + s]
  <2>1. i + s \in g .. q.write_idx - 1 /\ (i + s) - s = i
    BY <1>1
  <2> QED BY <2>1 DEF Moves
<1>3. \A i \in g .. q.write_idx - 1 : q2.blk[i - s] = q.blk[i] /\ i - s \in q2.read_idx .. q2.write_idx - 1
  BY <1>1 DEF Moves
<1>4. ASSUME NEW h, NEW id, Starts(q, p, h, id), h >= g
      PROVE  Starts(q2, p, h - s, id)
  BY <1>4, StartsMoved
<1>5. ASSUME NEW h, NEW id \in UInt, Starts(q, p, h, id), h >= g
      PROVE  Off(q2, id) = Off(q, id) - Off(q, a)
  BY <1>5, OffMoved
<1>6. Off(q, a) \in Nat /\ Off(q, p) \in Nat /\ Off(q2, p) = Off(q, p) - Off(q, a)
  <2>1. Off(q, a) \in Nat /\ Off(q, p) \in Nat
    BY <1>1, SubRange, QueueFields DEF Off
  <2>2. Starts(q, p, q.write_idx, p)
    <3>1. q.read_idx <= q.write_idx
      <4> HIDE DEF g
      <4> QED BY <1>1
    <3> QED BY <3>1, StartsEnd
  <2> HIDE DEF g, a
  <2> QED BY <2>1, <2>2, <1>1, <1>5
<1>7. ASSUME NEW i \in g .. q.write_idx - 1
      PROVE  /\ i \in q.read_idx .. q.write_idx - 1
             /\ i - q.blk[i].part >= g
             /\ Off(q2, q.blk[i].id) = Off(q, q.blk[i].id) - Off(q, a)
             /\ Off(q, q.blk[i].id) \in Nat
  <2>1. i \in q.read_idx .. q.write_idx - 1
    BY <1>1
  <2> DEFINE h == i - q.blk[i].part
  <2>2. /\ h \in q.read_idx .. i /\ i < h + q.blk[h].len
        /\ Starts(q, p, h, q.blk[i].id) /\ WholeAt(q, p, h)
    BY <2>1, BlockOfMessage
  <2>3. q.blk[i].id \in UInt /\ i \in 0 .. BLK_CNT - 1 /\ q.blk[h].len \in Int
    <3> HIDE DEF h, g, a
    <3>1. i \in 0 .. BLK_CNT - 1 /\ h \in 0 .. BLK_CNT - 1
      BY <2>1, <2>2, QueueFields, Widths, SMTT(30)
    <3> QED BY <3>1, QueueFields, SMTT(30)
  <2> HIDE DEF h, g, a
  <2>4. h >= g
    <3> SUFFICES ASSUME h < g PROVE FALSE
      BY <1>1, <2>2
    <3>1. g \in h .. h + q.blk[h].len - 1
      BY <1>1, <2>2, <2>3
    <3>2. q.blk[g].part = g - h
      BY <2>2, <2>3, <3>1, <1>1 DEF WholeAt
    <3>3. q.blk[g].part = 0
      BY <1>1 DEF Starts, g, a
    <3> QED BY <3>2, <3>3, <1>1, <2>2
  <2>5. Off(q2, q.blk[i].id) = Off(q, q.blk[i].id) - Off(q, a)
    BY <2>2, <2>3, <2>4, <1>5
  <2>6. Off(q, q.blk[i].id) \in Nat
    BY <2>3, SubRange, QueueFields DEF Off
  <2> QED BY <2>1, <2>4, <2>5, <2>6 DEF h
<1>8. Starts(q2, p, q2.read_idx, a)
  <2>1. Starts(q2, p, g - s, a)
    <3>1. g >= g /\ Starts(q, p, g, a)
      BY <1>1
    <3> HIDE DEF g, a
    <3> QED BY <3>1, <1>4
  <2>2. g - s = q2.read_idx
    BY <1>1
  <2> QED BY <2>1, <2>2
<1>9. ASSUME NEW i \in q2.read_idx .. q2.write_idx - 1
      PROVE  /\ q2.blk[i].len > 0
             /\ LET h == i - q2.blk[i].part
                IN  h >= q2.read_idx /\ q2.blk[h].part = 0 /\ i < h + q2.blk[h].len
             /\ q2.blk[i].part = 0 =>
                  /\ WholeAt(q2, p, i)
                  /\ Off(q2, q2.blk[i].id) < Off(q2, p)
                  /\ Off(q2, p) - Off(q2, q2.blk[i].id) <= q2.write_idx - i
  <2> DEFINE j == i + s
             h == j - q.blk[j].part
  <2>1. j \in g .. q.write_idx - 1 /\ q2.blk[i] = q.blk[j] /\ j \in q.read_idx .. q.write_idx - 1
    BY <1>1, <1>2
  <2>2. /\ q.blk[j].len > 0
        /\ q.blk[j].part = 0 =>
             /\ WholeAt(q, p, j)
             /\ Off(q, q.blk[j].id) < Off(q, p)
             /\ Off(q, p) - Off(q, q.blk[j].id) <= q.write_idx - j
        /\ h >= q.read_idx /\ q.blk[h].part = 0 /\ j < h + q.blk[h].len
    <3> HIDE DEF j
    <3> QED BY <2>1 DEF QueueInv
  <2>3. h >= g /\ Off(q2, q.blk[j].id) = Off(q, q.blk[j].id) - Off(q, a) /\ Off(q, q.blk[j].id) \in Nat
    <3> HIDE DEF j, g, a
    <3> QED BY <2>1, <1>7
  <2>4. j \in 0 .. BLK_CNT - 1 /\ q.blk[j].part \in 0 .. BLK_CNT /\ q.blk[j].len \in 0 .. BLK_CNT
    <3> HIDE DEF j, g
    <3>1. j \in 0 .. BLK_CNT - 1
      BY <2>1, UsedBlock
    <3> QED BY <3>1, QueueFields
  <2>5. h \in g .. q.write_idx - 1 /\ h - s = i - q2.blk[i].part /\ h - s >= q2.read_idx
    <3>1. j \in Int /\ i = j - s /\ s \in Int
      BY <1>1
    <3> HIDE DEF j
    <3> QED BY <3>1, <2>1, <2>3, <2>4, <1>1
  <2>6. q2.blk[h - s] = q.blk[h]
    <3> HIDE DEF h
    <3> QED BY <2>5, <1>3
  <2>7. q.blk[h].len \in 0 .. BLK_CNT
    <3>1. h \in 0 .. BLK_CNT - 1
      <4> HIDE DEF h, g
      <4> QED BY <2>5, <1>1, QueueFields, Widths
    <3> HIDE DEF h
    <3> QED BY <3>1, QueueFields
  <2>8. LET f == i - q2.blk[i].part
        IN  f >= q2.read_idx /\ q2.blk[f].part = 0 /\ i < f + q2.blk[f].len
    <3>1. i < h - s + q.blk[h].len
      <4>1. i = j - s /\ j \in Int /\ h \in Int
        BY <2>5, <1>1
      <4> HIDE DEF j, h
      <4> QED BY <4>1, <2>2, <2>7
    <3> HIDE DEF h, j
    <3> QED BY <2>2, <2>5, <2>6, <3>1
  <2>9. ASSUME q.blk[j].part = 0 PROVE WholeAt(q2, p, i)
    <3>1. WholeAt(q, p, j)
      BY <2>2, <2>9
    <3> DEFINE e == j + q.blk[j].len
    <3>2. /\ e > j /\ Starts(q, p, e, Add(q.blk[j].id, 1))
          /\ \A x \in j .. e - 1 : q.blk[x].part = x - j /\ q.blk[x].id = q.blk[j].id
      <4> HIDE DEF j
      <4> QED BY <3>1, <2>1, <2>4, <1>1 DEF WholeAt
    <3>3. e \in Int /\ e > g /\ e - s = i + q.blk[j].len /\ e <= q.write_idx /\ j \in Int
      <4>1. e <= q.write_idx
        <5> HIDE DEF e
        <5> QED BY <3>2, <1>1 DEF Starts
      <4> QED BY <2>1, <2>2, <2>4, <1>1, <4>1
    <3>4. Starts(q2, p, e - s, Add(q.blk[j].id, 1))
      <4> HIDE DEF e, j, g
      <4> QED BY <3>2, <3>3, <1>4, <1>1
    <3>5. ASSUME NEW x \in i .. e - s - 1
          PROVE  q2.blk[x].part = x - i /\ q2.blk[x].id = q.blk[j].id
      <4>1. x + s \in j .. e - 1 /\ x \in q2.read_idx .. q2.write_idx - 1
        <5>1. i = j - s
          BY <1>1
        <5> HIDE DEF e, j
        <5> QED BY <5>1, <3>3, <1>1, <2>1
      <4>2. q2.blk[x] = q.blk[x + s]
        BY <4>1, <1>2
      <4>3. q.blk[x + s].part = (x + s) - j /\ q.blk[x + s].id = q.blk[j].id
        <5> HIDE DEF e, j
        <5> QED BY <4>1, <3>2
      <4>4. (x + s) - j = x - i
        BY <1>1
      <4> QED BY <4>2, <4>3, <4>4
    <3>6. e - s = i + q2.blk[i].len /\ e - s > i /\ q2.blk[i].id = q.blk[j].id
      <4>1. e - s > i
        BY <2>2, <2>4, <1>1
      <4> QED BY <2>1, <3>3, <4>1
    <3> DEFINE f == e - s
    <3> HIDE DEF e, j
    <3>7. /\ f > i /\ f = i + q2.blk[i].len
          /\ \A x \in i .. f - 1 : q2.blk[x].part = x - i /\ q2.blk[x].id = q2.blk[i].id
          /\ Starts(q2, p, f, Add(q2.blk[i].id, 1))
      BY <3>4, <3>5, <3>6
    <3> HIDE DEF f
    <3> QED BY <3>7 DEF WholeAt
  <2> HIDE DEF h
  <2>10. q.blk[j].part = 0 =>
           /\ Off(q2, q2.blk[i].id) < Off(q2, p)
           /\ Off(q2, p) - Off(q2, q2.blk[i].id) <= q2.write_idx - i
    <3>1. q.write_idx - j = q2.write_idx - i
      BY <1>1
    <3> HIDE DEF j
    <3> QED BY <2>1, <2>2, <2>3, <1>6, <3>1
  <2> HIDE DEF j
  <2> QED BY <2>1, <2>2, <2>8, <2>9, <2>10
<1>10. ASSUME NEW i \in q2.read_idx .. q2.write_idx - 1, NEW j \in q2.read_idx .. q2.write_idx - 1,
              i < j, q2.blk[j].part = 0
       PROVE  Off(q2, q2.blk[i].id) < Off(q2, q2.blk[j].id)
  <2> DEFINE x == i + s
             y == j + s
  <2>1. x \in g .. q.write_idx - 1 /\ y \in g .. q.write_idx - 1 /\ x < y
    BY <1>10, <1>2, <1>1
  <2>2. q2.blk[i] = q.blk[x] /\ q2.blk[j] = q.blk[y]
    BY <1>2
  <2> HIDE DEF x, y, g, a
  <2>3. Off(q, q.blk[x].id) < Off(q, q.blk[y].id)
    <3>1. x \in q.read_idx .. q.write_idx - 1 /\ y \in q.read_idx .. q.write_idx - 1
      BY <2>1, <1>7
    <3> QED BY <1>10, <2>1, <2>2, <3>1 DEF QueueInv
  <2> QED BY <2>1, <2>2, <2>3, <1>6, <1>7
<1> HIDE DEF g
<1> QED BY <1>8, <1>9, <1>10 DEF QueueInv

-----------------------------------------------------------------------------
(* The walk over messages in Ack().                                        *)

\* From a message that is in the queue its header leads to the next one.
LEMMA NextStart ==
  ASSUME NEW q \in Queues, NEW p \in UInt, QueueInv(q, p), NEW h, NEW id \in UInt,
         Starts(q, p, h, id), id # p
  PROVE  /\ h \in q.read_idx .. q.write_idx - 1 /\ h \in 0 .. BLK_CNT - 1
         /\ q.blk[h].id = id /\ q.blk[h].part = 0
         /\ WholeAt(q, p, h) /\ q.blk[h].len > 0 /\ q.blk[h].len \in Int
         /\ Starts(q, p, h + q.blk[h].len, Add(id, 1))
         /\ Off(q, id) < Off(q, p)
<1>1. h \in q.read_idx .. q.write_idx - 1 /\ q.blk[h].id = id /\ q.blk[h].part = 0
  BY QueueFields DEF Starts
<1>2. h \in 0 .. BLK_CNT - 1
  BY <1>1, UsedBlock
<1>3. WholeAt(q, p, h) /\ q.blk[h].len > 0 /\ Off(q, q.blk[h].id) < Off(q, p)
  BY <1>1 DEF QueueInv
<1>4. Starts(q, p, h + q.blk[h].len, Add(id, 1))
  BY <1>1, <1>3 DEF WholeAt
<1> QED BY <1>1, <1>2, <1>3, <1>4, QueueFields

\* Every message from read_seq to p has its place.
LEMMA MessageAt ==
  ASSUME NEW q \in Queues, NEW p \in UInt, QueueInv(q, p), NEW k \in 0 .. Off(q, p)
  PROVE  \E h : Starts(q, p, h, Add(q.read_seq, k))
<1> DEFINE n == Off(q, p)
           T == {x \in 0 .. n : \E h : Starts(q, p, h, Add(q.read_seq, x))}
<1>1. n \in Nat /\ n < UIntMod /\ q.read_seq \in UInt /\ Off(q, q.read_seq) = 0 /\ UIntMod \in Nat
  BY OffRange
<1>2. 0 \in T
  <2>1. Add(q.read_seq, 0) = q.read_seq
    BY <1>1, AddZero
  <2>2. Starts(q, p, q.read_idx, q.read_seq)
    BY DEF QueueInv
  <2> QED BY <1>1, <2>1, <2>2
<1>3. ASSUME NEW x \in 1 .. n, x - 1 \in T PROVE x \in T
  <2> DEFINE id == Add(q.read_seq, x - 1)
  <2>1. PICK h : Starts(q, p, h, id)
    BY <1>3
  <2>2. id \in UInt /\ Add(id, 1) = Add(q.read_seq, x)
    <3> HIDE DEF n
    <3>1. x - 1 \in 0 .. UIntMod /\ x - 1 \in Nat /\ 1 \in Nat /\ (x - 1) + 1 = x /\ x < UIntMod
      BY <1>1, Widths
    <3> QED BY <3>1, <1>1, AddRange, AddAdd
  <2>3. id # p
    <3>1. Off(q, id) = x - 1
      <4> HIDE DEF n
      <4>1. x - 1 \in Nat /\ Off(q, q.read_seq) + (x - 1) < UIntMod
        BY <1>1, Widths
      <4> QED BY <4>1, <1>1, SubAdd DEF Off
    <3> QED BY <3>1, <1>1
  <2> HIDE DEF id
  <2>4. Starts(q, p, h + q.blk[h].len, Add(id, 1))
    BY <2>1, <2>2, <2>3, NextStart
  <2> QED BY <2>2, <2>4
<1>4. T \subseteq 0 .. n
  OBVIOUS
<1>5. k \in T
  <2> HIDE DEF T, n
  <2>1. k \in 0 .. n
    BY DEF n
  <2> QED BY <1>1, <1>2, <1>3, <1>4, <2>1, IntervalInduction
<1> QED BY <1>5

\* n turns of the loop lead to the message n places behind the oldest one.
LEMMA SkipMessagesIs ==
  ASSUME NEW q \in Queues, NEW p \in UInt, QueueInv(q, p), NEW n \in 0 .. Off(q, p)
  PROVE  Starts(q, p, SkipMessages(q, n), Add(q.read_seq, n))
<1> DEFINE Next(i) == IF i \in 0 .. BLK_CNT - 1 THEN i + q.blk[i].len ELSE i
           Turns(f) == [k \in 0 .. n |-> IF k = 0 THEN q.read_idx ELSE Next(f[k - 1])]
           skip == CHOOSE f : f = Turns(f)
           at == [k \in 0 .. n |-> CHOOSE h : Starts(q, p, h, Add(q.read_seq, k))]
           Id(k) == Add(q.read_seq, k)
<1>1. SkipMessages(q, n) = skip[n]
  BY DEF SkipMessages
<1>2. /\ q.read_seq \in UInt /\ Off(q, p) \in Nat /\ Off(q, p) < UIntMod
      /\ n \in Nat /\ n < UIntMod /\ Off(q, q.read_seq) = 0 /\ UIntMod \in Nat
  BY OffRange
<1>3. ASSUME NEW k \in 0 .. n
      PROVE  Starts(q, p, at[k], Id(k)) /\ Id(k) \in UInt
  <2>1. k \in 0 .. Off(q, p) /\ k \in 0 .. UIntMod
    BY <1>2
  <2>2. \E h : Starts(q, p, h, Id(k))
    BY <2>1, MessageAt
  <2> QED BY <2>1, <2>2, <1>2, AddRange
<1>4. Id(0) = q.read_seq /\ Starts(q, p, q.read_idx, q.read_seq)
  BY <1>2, AddZero DEF QueueInv
<1>5. ASSUME NEW k \in 1 .. n, NEW i, Starts(q, p, i, Id(k - 1))
      PROVE  Starts(q, p, Next(i), Id(k))
  <2>1. k - 1 \in 0 .. n /\ k - 1 \in Nat /\ (k - 1) + 1 = k /\ k < UIntMod
    BY <1>2
  <2>2. Id(k - 1) \in UInt /\ Add(Id(k - 1), 1) = Id(k)
    <3>1. Id(k - 1) \in UInt
      BY <2>1, <1>3
    <3>2. 1 \in Nat /\ (k - 1) + 1 < UIntMod
      BY <2>1
    <3>3. Add(Add(q.read_seq, k - 1), 1) = Add(q.read_seq, (k - 1) + 1)
      BY <2>1, <3>2, <1>2, AddAdd
    <3> QED BY <2>1, <3>1, <3>3
  <2>3. Id(k - 1) # p
    <3>1. Off(q, Id(k - 1)) = k - 1
      BY <2>1, <1>2, SubAdd DEF Off
    <3> QED BY <3>1, <1>2
  <2> HIDE DEF Id
  <2>4. i \in 0 .. BLK_CNT - 1 /\ Starts(q, p, i + q.blk[i].len, Add(Id(k - 1), 1))
    BY <1>5, <2>2, <2>3, NextStart
  <2> QED BY <2>2, <2>4
<1>6. at = Turns(at)
  <2>1. ASSUME NEW k \in 0 .. n
        PROVE  at[k] = IF k = 0 THEN q.read_idx ELSE Next(at[k - 1])
    <3>1. Starts(q, p, at[k], Id(k)) /\ Id(k) \in UInt
      BY <1>3
    <3>2. CASE k = 0
      <4> HIDE DEF at, Id
      <4> QED BY <3>1, <3>2, <1>4, <1>2, StartsOnce
    <3>3. CASE k # 0
      <4>1. k \in 1 .. n /\ k - 1 \in 0 .. n
        BY <3>3
      <4>2. Starts(q, p, Next(at[k - 1]), Id(k))
        <5> HIDE DEF at, Id, Next
        <5> QED BY <4>1, <1>3, <1>5
      <4> HIDE DEF at, Id, Next
      <4> QED BY <3>1, <3>3, <4>2, StartsOnce
    <3> QED BY <3>2, <3>3
  <2> HIDE DEF Next
  <2>2. at = [k \in 0 .. n |-> at[k]]
    OBVIOUS
  <2> HIDE DEF at
  <2> QED BY <2>1, <2>2
<1>7. skip = Turns(skip)
  <2> HIDE DEF at, Turns
  <2> QED BY <1>6
<1> HIDE DEF skip, at
<1> DEFINE T == {k \in 0 .. n : Starts(q, p, skip[k], Id(k))}
<1>8. 0 \in T
  <2>1. skip[0] = q.read_idx
    BY <1>7, <1>2
  <2> QED BY <2>1, <1>4, <1>2
<1>9. ASSUME NEW k \in 1 .. n, k - 1 \in T PROVE k \in T
  <2>1. k \in 0 .. n /\ skip[k] = Next(skip[k - 1])
    <3> HIDE DEF Next
    <3>1. k \in 0 .. n /\ k # 0
      OBVIOUS
    <3> QED BY <1>7, <3>1
  <2>2. Starts(q, p, skip[k - 1], Id(k - 1))
    BY <1>9
  <2> HIDE DEF Next, Id
  <2> QED BY <2>1, <2>2, <1>5
<1>10. n \in T
  <2>1. T \subseteq 0 .. n /\ n \in 0 .. n
    BY <1>2
  <2> HIDE DEF T
  <2> QED BY <1>2, <1>8, <1>9, <2>1, IntervalInduction
<1> QED BY <1>1, <1>10

-----------------------------------------------------------------------------
(* Acknowledgements.                                                       *)

\* q2 is what is left of q when the messages before its read_seq are gone.
Shrinks(q, p, q2, s) ==
  /\ Moves(q, p, q2, p, s) /\ q2.write_idx + s = q.write_idx
  /\ Starts(q, p, q2.read_idx + s, q2.read_seq)
  /\ q2.ack_seq = q.ack_seq

\* A queue shrinks to itself.
LEMMA ShrinksSame ==
  ASSUME NEW q \in Queues, NEW p, QueueInv(q, p)
  PROVE  Shrinks(q, p, q, 0)
<1>1. q.read_idx \in Int /\ q.write_idx \in Int /\ q.read_idx + 0 = q.read_idx /\ q.write_idx + 0 = q.write_idx
  BY QueueFields
<1>2. \A i \in q.read_idx .. q.write_idx - 1 : i - 0 = i
  BY <1>1
<1>3. Starts(q, p, q.read_idx, q.read_seq) /\ q.read_idx \in q.read_idx .. q.write_idx
  BY DEF QueueInv, Starts
<1> QED BY <1>1, <1>2, <1>3 DEF Shrinks, Moves

\* The fields of ReleaseTo() and of a queue that is rewound.
LEMMA ReleaseToIs ==
  ASSUME NEW q \in Queues, NEW a \in UInt, SkipMessages(q, Sub(a, q.read_seq)) \in 0 .. BLK_CNT
  PROVE  LET q2 == ReleaseTo(q, a)
         IN  /\ q2 \in Queues
             /\ q2.read_idx = SkipMessages(q, Sub(a, q.read_seq)) /\ q2.read_seq = a
             /\ q2.write_idx = q.write_idx /\ q2.send_idx = q.send_idx
             /\ q2.ack_seq = q.ack_seq /\ q2.blk = q.blk
<1> DEFINE i == SkipMessages(q, Sub(a, q.read_seq))
<1>1. ReleaseTo(q, a) = [q EXCEPT !.read_idx = i, !.read_seq = a]
  BY DEF ReleaseTo
<1> HIDE DEF i
<1> QED BY <1>1 DEF Queues, i

\* The rewind of an empty queue changes its indexes only.
LEMMA RewindEmptyIs ==
  ASSUME NEW q \in Queues
  PROVE  LET q2 == RewindEmpty(q)
         IN  /\ q2 \in Queues
             /\ q2.read_seq = q.read_seq /\ q2.ack_seq = q.ack_seq /\ q2.blk = q.blk
             /\ IF q.read_idx = q.write_idx
                THEN q2.read_idx = 0 /\ q2.write_idx = 0 /\ q2.send_idx = 0
                ELSE q2 = q
<1>1. CASE q.read_idx = q.write_idx
  <2>1. RewindEmpty(q) = [q EXCEPT !.read_idx = 0, !.write_idx = 0, !.send_idx = 0]
    BY <1>1 DEF RewindEmpty
  <2>2. 0 \in 0 .. BLK_CNT
    BY Widths
  <2> QED BY <1>1, <2>1, <2>2 DEF Queues
<1>2. CASE q.read_idx # q.write_idx
  BY <1>2 DEF RewindEmpty
<1> QED BY <1>1, <1>2

\* An ack that is not beyond what the peer has consumed releases messages that
\* it has consumed, whole ones, and keeps the others; the ack of all that it has
\* consumed releases all of them.
LEMMA AckShrinks ==
  ASSUME NEW q \in Queues, NEW p \in UInt, QueueInv(q, p), NEW have \in UInt, NEW h,
         Starts(q, p, h, have), NEW a \in UInt, ~ Before(have, a)
  PROVE  /\ Ack(q, a) \in Queues
         /\ \E s \in Nat :
              /\ Shrinks(q, p, Ack(q, a), s)
              /\ Ack(q, a).read_idx + s <= h
              /\ have = a => Ack(q, a).read_idx + s = h
              /\ SendInv(q) /\ h <= q.send_idx => Ack(q, a).send_idx + s = q.send_idx
<1>0. /\ q.read_seq \in UInt /\ q.read_idx \in Int /\ q.write_idx \in Int /\ q.send_idx \in Int
      /\ h \in q.read_idx .. q.write_idx /\ h \in Int
  BY QueueFields DEF Starts
<1>1. Off(q, have) \in Nat /\ Off(q, have) <= Off(q, p) /\ Off(q, have) < HalfRange
  <2>1. Off(q, have) \in Nat /\ Off(q, have) <= Off(q, p)
    BY StartsOnce
  <2>2. Off(q, p) \in Nat /\ Off(q, p) <= q.write_idx - q.read_idx
    BY QueueCount
  <2>3. q.write_idx - q.read_idx <= BLK_CNT
    BY QueueFields, Widths
  <2> QED BY <2>1, <2>2, <2>3, <1>0, Widths
<1>2. CASE ~ NewerAck(q, a)
  <2>1. Ack(q, a) = q
    BY <1>2 DEF Ack
  <2>2. have = a => q.read_idx = h
    <3>1. SUFFICES ASSUME have = a PROVE q.read_idx = h
      OBVIOUS
    <3>2. ~ Before(have, q.read_seq)
      BY <1>1, Widths DEF Before, Off
    <3>3. have = q.read_seq
      BY <1>2, <3>1, <3>2 DEF NewerAck
    <3>4. Starts(q, p, q.read_idx, q.read_seq)
      BY DEF QueueInv
    <3> QED BY <3>3, <3>4, <1>0, StartsOnce
  <2>3. /\ Shrinks(q, p, q, 0) /\ q.read_idx + 0 <= h
        /\ have = a => q.read_idx + 0 = h
        /\ SendInv(q) /\ h <= q.send_idx => q.send_idx + 0 = q.send_idx
    BY <1>0, <2>2, ShrinksSame
  <2> QED BY <2>1, <2>3
<1>3. CASE NewerAck(q, a)
  <2> DEFINE r == ReleaseTo(q, a)
             g == SkipMessages(q, Off(q, a))
             q2 == RewindEmpty(r)
  <2>1. Ack(q, a) = q2
    BY <1>3 DEF Ack
  <2>2. Off(q, a) \in Nat /\ Off(q, a) <= Off(q, have)
    BY <1>0, <1>1, <1>3, AckWindow, OffRange DEF NewerAck, Off
  <2>3. Starts(q, p, g, a)
    <3>1. Off(q, a) \in 0 .. Off(q, p)
      BY <2>2, <1>1, OffRange
    <3>2. Add(q.read_seq, Off(q, a)) = a
      BY <1>0, AddSub DEF Off
    <3> QED BY <3>1, <3>2, SkipMessagesIs
  <2>4. g <= h /\ (have = a => g = h) /\ g \in q.read_idx .. q.write_idx /\ g \in Int
    <3> HIDE DEF g
    <3>1. (h < g <=> Off(q, have) < Off(q, a)) /\ (g = h <=> a = have)
      BY <2>3, StartsOnce
    <3>2. g \in q.read_idx .. q.write_idx
      BY <2>3 DEF Starts
    <3> QED BY <3>1, <3>2, <2>2, <1>0, <1>1
  <2>5. /\ r \in Queues /\ r.read_idx = g /\ r.read_seq = a
        /\ r.write_idx = q.write_idx /\ r.send_idx = q.send_idx
        /\ r.ack_seq = q.ack_seq /\ r.blk = q.blk
    <3>1. g \in 0 .. BLK_CNT
      <4> HIDE DEF g
      <4> QED BY <2>4, QueueFields, Widths
    <3> QED BY <3>1, ReleaseToIs DEF Off
  <2> HIDE DEF r, g
  <2>6. /\ q2 \in Queues /\ q2.read_seq = a /\ q2.ack_seq = q.ack_seq /\ q2.blk = q.blk
        /\ IF g = q.write_idx THEN q2.read_idx = 0 /\ q2.write_idx = 0 /\ q2.send_idx = 0 ELSE q2 = r
    BY <2>5, RewindEmptyIs
  <2> HIDE DEF q2
  <2>7. CASE g = q.write_idx
    <3>1. g \in Nat /\ q2.read_idx + g = g /\ q2.write_idx + g = g /\ q2.send_idx + g = g
      BY <2>4, <2>6, <2>7, QueueFields
    <3>2. Moves(q, p, q2, p, g)
      BY <3>1, <2>4, <2>7 DEF Moves
    <3>3. Shrinks(q, p, q2, g)
      BY <3>1, <3>2, <2>3, <2>6, <2>7 DEF Shrinks
    <3>4. SendInv(q) /\ h <= q.send_idx => g = q.send_idx
      BY <2>4, <2>7, <1>0 DEF SendInv
    <3> QED BY <2>1, <2>4, <2>6, <3>1, <3>3, <3>4
  <2>8. CASE g # q.write_idx
    <3>1. /\ q2.read_idx + 0 = g /\ q2.write_idx + 0 = q.write_idx /\ q2.send_idx + 0 = q.send_idx
          /\ \A i \in g .. q.write_idx - 1 : i - 0 = i
      BY <2>4, <2>5, <2>6, <2>8, <1>0
    <3>2. Moves(q, p, q2, p, 0)
      BY <3>1, <2>4, <2>6, <1>0 DEF Moves
    <3>3. Shrinks(q, p, q2, 0)
      BY <3>1, <3>2, <2>3, <2>6 DEF Shrinks
    <3> QED BY <2>1, <2>4, <2>6, <3>1, <3>3
  <2> QED BY <2>7, <2>8
<1> QED BY <1>2, <1>3

-----------------------------------------------------------------------------
(* Alloc() and Push().                                                     *)

\* Compaction moves every index and every block that is in use by the same
\* distance, and makes the room that Alloc() found.
LEMMA CompactShrinks ==
  ASSUME NEW q \in Queues, NEW p, QueueInv(q, p), SendInv(q), NEW len \in Nat, ~ AllocFails(q, len)
  PROVE  LET c == Compact(q, len)
         IN  /\ c \in Queues /\ c.write_idx + len <= BLK_CNT
             /\ c.read_seq = q.read_seq /\ c.ack_seq = q.ack_seq
             /\ \E s \in Nat :
                  /\ c.read_idx + s = q.read_idx /\ c.send_idx + s = q.send_idx
                  /\ c.write_idx + s = q.write_idx
                  /\ \A i \in q.read_idx .. q.write_idx - 1 : c.blk[i - s] = q.blk[i]
<1> DEFINE c == Compact(q, len)
<1>0. /\ q.read_idx \in 0 .. BLK_CNT /\ q.write_idx \in 0 .. BLK_CNT /\ q.send_idx \in 0 .. BLK_CNT
      /\ BLK_CNT \in Nat /\ q.blk \in [0 .. BLK_CNT - 1 -> QBlocks]
      /\ q.read_idx <= q.send_idx /\ q.send_idx <= q.write_idx
  BY QueueFields, Widths DEF SendInv
<1>1. CASE len <= BLK_CNT - q.write_idx
  <2>1. c = q /\ q.write_idx + len <= BLK_CNT
    BY <1>1, <1>0 DEF Compact
  <2>2. /\ q.read_idx + 0 = q.read_idx /\ q.send_idx + 0 = q.send_idx /\ q.write_idx + 0 = q.write_idx
        /\ \A i \in q.read_idx .. q.write_idx - 1 : q.blk[i - 0] = q.blk[i]
    BY <1>0
  <2> HIDE DEF c
  <2>3. 0 \in Nat
    OBVIOUS
  <2> QED BY <2>1, <2>2, <2>3 DEF c
<1>2. CASE ~ (len <= BLK_CNT - q.write_idx)
  <2>1. len <= BLK_CNT - q.write_idx + q.read_idx
    BY <1>2, <1>0 DEF AllocFails
  <2> DEFINE m == Moved(q)
             w == q.write_idx - q.read_idx
             d == q.send_idx - q.read_idx
  <2>2. c = [q EXCEPT !.blk = m, !.write_idx = w, !.send_idx = d, !.read_idx = 0]
    BY <1>2, <1>0 DEF Compact
  <2>3. w \in 0 .. BLK_CNT /\ d \in 0 .. BLK_CNT /\ 0 \in 0 .. BLK_CNT
    BY <1>0
  <2>4. m = [i \in 0 .. BLK_CNT - 1 |-> IF i < w THEN q.blk[i + q.read_idx] ELSE q.blk[i]]
    BY DEF Moved
  <2>5. m \in [0 .. BLK_CNT - 1 -> QBlocks]
    <3>1. \A i \in 0 .. BLK_CNT - 1 : i < w => i + q.read_idx \in 0 .. BLK_CNT - 1
      BY <1>0
    <3> HIDE DEF m, w
    <3> QED BY <2>4, <3>1, <1>0
  <2>6. \A i \in q.read_idx .. q.write_idx - 1 : m[i - q.read_idx] = q.blk[i]
    <3> SUFFICES ASSUME NEW i \in q.read_idx .. q.write_idx - 1 PROVE m[i - q.read_idx] = q.blk[i]
      OBVIOUS
    <3>1. i - q.read_idx \in 0 .. BLK_CNT - 1 /\ i - q.read_idx < w /\ (i - q.read_idx) + q.read_idx = i
      BY <1>0
    <3> HIDE DEF m, w
    <3> QED BY <3>1, <2>4
  <2>7. 0 + q.read_idx = q.read_idx /\ d + q.read_idx = q.send_idx /\ w + q.read_idx = q.write_idx /\ w + len <= BLK_CNT
    BY <1>0, <2>1
  <2> HIDE DEF m, w, d, c
  <2>8. /\ c \in Queues /\ c.blk = m /\ c.write_idx = w /\ c.send_idx = d /\ c.read_idx = 0
        /\ c.read_seq = q.read_seq /\ c.ack_seq = q.ack_seq
    BY <2>2, <2>3, <2>5 DEF Queues
  <2>9. q.read_idx \in Nat
    BY <1>0
  <2> QED BY <2>6, <2>7, <2>8, <2>9 DEF c
<1> QED BY <1>1, <1>2

\* Alloc() and the writing of the message keep every message of the queue.
LEMMA AllocShrinks ==
  ASSUME NEW q \in Queues, NEW p \in UInt, QueueInv(q, p), SendInv(q),
         NEW len \in Nat \ {0}, ~ AllocFails(q, len)
  PROVE  LET q2 == Alloc(q, len, p)
         IN  /\ q2 \in Queues /\ AllocInv(q2, p)
             /\ \E s \in Nat :
                  /\ Shrinks(q, p, q2, s)
                  /\ q2.read_idx + s = q.read_idx /\ q2.send_idx + s = q.send_idx
<1> DEFINE c == Compact(q, len)
           w == c.write_idx
           Header == [c.blk[w] EXCEPT !.id = p, !.part = 0, !.len = len]
           b == [i \in 0 .. BLK_CNT - 1 |->
                   IF i = w THEN [c.blk[i] EXCEPT !.id = p, !.part = 0, !.len = len]
                   ELSE IF i \in w .. w + len - 1 THEN PayloadBlock(p, i - w)
                   ELSE c.blk[i]]
           q2 == [c EXCEPT !.blk = b]
<1>1. Alloc(q, len, p) = q2
  BY DEF Alloc
<1>2. /\ c \in Queues /\ c.write_idx + len <= BLK_CNT
      /\ c.read_seq = q.read_seq /\ c.ack_seq = q.ack_seq
  BY CompactShrinks
<1>3. PICK s \in Nat :
        /\ c.read_idx + s = q.read_idx /\ c.send_idx + s = q.send_idx
        /\ c.write_idx + s = q.write_idx
        /\ \A i \in q.read_idx .. q.write_idx - 1 : c.blk[i - s] = q.blk[i]
  BY CompactShrinks
<1> HIDE DEF c
<1>4. /\ c.read_idx \in 0 .. BLK_CNT /\ w \in 0 .. BLK_CNT /\ c.send_idx \in 0 .. BLK_CNT
      /\ BLK_CNT \in Nat /\ c.blk \in [0 .. BLK_CNT - 1 -> QBlocks]
      /\ w \in 0 .. BLK_CNT - 1 /\ len \in 1 .. BLK_CNT /\ w + len <= BLK_CNT
  BY <1>2, QueueFields, Widths
<1> HIDE DEF w
<1>5. Header \in QBlocks /\ Header.id = p /\ Header.part = 0 /\ Header.len = len
  <2>1. c.blk[w] \in QBlocks /\ 0 \in 0 .. BLK_CNT /\ len \in 0 .. BLK_CNT
    BY <1>4
  <2> QED BY <2>1 DEF QBlocks
<1>6. ASSUME NEW i \in w .. w + len - 1
      PROVE  /\ PayloadBlock(p, i - w) \in QBlocks
             /\ PayloadBlock(p, i - w).id = p /\ PayloadBlock(p, i - w).part = i - w
             /\ PayloadBlock(p, i - w).len = 1
  <2>1. i - w \in 0 .. BLK_CNT /\ 1 \in 0 .. BLK_CNT /\ 0 \in UInt
    BY <1>4, Widths, SMTT(30)
  <2> QED BY <2>1 DEF PayloadBlock, QBlocks
<1>7. b \in [0 .. BLK_CNT - 1 -> QBlocks]
  <2>1. ASSUME NEW i \in 0 .. BLK_CNT - 1
        PROVE  (IF i = w THEN [c.blk[i] EXCEPT !.id = p, !.part = 0, !.len = len]
                ELSE IF i \in w .. w + len - 1 THEN PayloadBlock(p, i - w)
                ELSE c.blk[i]) \in QBlocks
    <3>1. CASE i = w
      BY <1>5, <3>1
    <3>2. CASE i # w /\ i \in w .. w + len - 1
      BY <1>6, <3>2
    <3>3. CASE i # w /\ i \notin w .. w + len - 1
      BY <1>4, <3>3
    <3> QED BY <3>1, <3>2, <3>3
  <2> QED BY <2>1
<1>8. b[w] = Header
  BY <1>4
<1>9. ASSUME NEW i \in w .. w + len - 1, i # w PROVE b[i] = PayloadBlock(p, i - w)
  <2>1. i \in 0 .. BLK_CNT - 1
    BY <1>4
  <2> QED BY <1>9, <2>1
<1>10. \A i \in 0 .. BLK_CNT - 1 : i < w => b[i] = c.blk[i]
  BY <1>4
<1> HIDE DEF b, Header
<1>11. /\ q2 \in Queues /\ q2.blk = b /\ q2.write_idx = w /\ q2.read_idx = c.read_idx
       /\ q2.send_idx = c.send_idx /\ q2.read_seq = q.read_seq /\ q2.ack_seq = q.ack_seq
  BY <1>2, <1>7 DEF Queues, w
<1> HIDE DEF q2
<1>12. AllocInv(q2, p)
  <2>1. q2.blk[q2.write_idx].len = len
    BY <1>5, <1>8, <1>11
  <2>2. ASSUME NEW i \in w .. w + len - 1
        PROVE  q2.blk[i].len > 0 /\ q2.blk[i].part = i - w /\ q2.blk[i].id = p
    <3>1. CASE i = w
      <4>1. i - w = 0
        BY <1>4, <3>1
      <4> QED BY <3>1, <4>1, <1>5, <1>8, <1>11
    <3>2. CASE i # w
      BY <3>2, <1>6, <1>9, <1>11
    <3> QED BY <3>1, <3>2
  <2> QED BY <2>1, <2>2, <1>4, <1>11 DEF AllocInv
<1>13. Shrinks(q, p, q2, s)
  <2>1. q2.read_idx + s = q.read_idx /\ q2.write_idx + s = q.write_idx
    BY <1>3, <1>11 DEF w
  <2>2. Starts(q, p, q.read_idx, q.read_seq) /\ q.read_idx \in q.read_idx .. q.write_idx
    BY DEF QueueInv, Starts
  <2>3. ASSUME NEW i \in q.read_idx .. q.write_idx - 1 PROVE q2.blk[i - s] = q.blk[i]
    <3>1. i - s \in 0 .. BLK_CNT - 1 /\ i - s < w
      BY <1>3, <1>4, <1>11, <2>1, QueueFields, SMTT(30)
    <3> QED BY <3>1, <1>3, <1>10, <1>11
  <2>4. q2.write_idx + s >= q.write_idx
    BY <2>1, QueueFields
  <2> QED BY <2>1, <2>2, <2>3, <2>4, <1>11 DEF Shrinks, Moves
<1> QED BY <1>1, <1>3, <1>11, <1>12, <1>13

\* The fields of a queue after Push().
LEMMA PushIs ==
  ASSUME NEW q \in Queues, NEW p, AllocInv(q, p)
  PROVE  LET q2 == Push(q)
             w == q.write_idx
         IN  /\ q2 \in Queues /\ q2.write_idx = w + q.blk[w].len
             /\ q2.read_idx = q.read_idx /\ q2.send_idx = q.send_idx
             /\ q2.read_seq = q.read_seq /\ q2.ack_seq = q.ack_seq
             /\ \A i \in 0 .. BLK_CNT - 1 :
                  /\ q2.blk[i].id = q.blk[i].id /\ q2.blk[i].part = q.blk[i].part
                  /\ q2.blk[i].len = q.blk[i].len
                  /\ q2.blk[i].ack = IF i = w THEN q.ack_seq ELSE q.blk[i].ack
                  /\ i # w => q2.blk[i] = q.blk[i]
<1> DEFINE w == q.write_idx
           h == [q.blk[w] EXCEPT !.ack = q.ack_seq]
           b == [q.blk EXCEPT ![w] = h]
           e == w + q.blk[w].len
<1>1. /\ w \in 0 .. BLK_CNT - 1 /\ e \in 0 .. BLK_CNT
      /\ q.blk \in [0 .. BLK_CNT - 1 -> QBlocks] /\ q.ack_seq \in UInt
  <2>1. w \in 0 .. BLK_CNT /\ w < BLK_CNT /\ q.blk[w].len > 0 /\ w + q.blk[w].len <= BLK_CNT
    BY QueueFields DEF AllocInv
  <2>2. w \in 0 .. BLK_CNT - 1
    BY <2>1, Widths
  <2> QED BY <2>1, <2>2, QueueFields, Widths
<1>2. Push(q) = [q EXCEPT !.blk = b, !.write_idx = e]
  BY DEF Push
<1>3. /\ h \in QBlocks /\ h.id = q.blk[w].id /\ h.part = q.blk[w].part /\ h.len = q.blk[w].len
      /\ h.ack = q.ack_seq
  <2>1. q.blk[w] \in QBlocks
    BY <1>1
  <2> QED BY <2>1, <1>1 DEF QBlocks
<1> HIDE DEF h
<1>4. /\ b \in [0 .. BLK_CNT - 1 -> QBlocks]
      /\ \A i \in 0 .. BLK_CNT - 1 : b[i] = IF i = w THEN h ELSE q.blk[i]
  BY <1>1, <1>3
<1> HIDE DEF b, e
<1>5. /\ Push(q) \in Queues /\ Push(q).write_idx = e /\ Push(q).blk = b
      /\ Push(q).read_idx = q.read_idx /\ Push(q).send_idx = q.send_idx
      /\ Push(q).read_seq = q.read_seq /\ Push(q).ack_seq = q.ack_seq
  BY <1>1, <1>2, <1>4 DEF Queues
<1>6. ASSUME NEW i \in 0 .. BLK_CNT - 1
      PROVE  /\ b[i].id = q.blk[i].id /\ b[i].part = q.blk[i].part /\ b[i].len = q.blk[i].len
             /\ b[i].ack = IF i = w THEN q.ack_seq ELSE q.blk[i].ack
             /\ i # w => b[i] = q.blk[i]
  BY <1>3, <1>4
<1> QED BY <1>5, <1>6 DEF e

\* Push() adds message number p and keeps the others.
LEMMA PushMoves ==
  ASSUME NEW q \in Queues, NEW p \in UInt, QueueInv(q, p), AllocInv(q, p)
  PROVE  Moves(q, p, Push(q), Add(p, 1), 0)
<1> DEFINE q2 == Push(q)
           w == q.write_idx
<1>1. /\ q2 \in Queues /\ q2.write_idx = w + q.blk[w].len /\ q2.read_idx = q.read_idx
      /\ \A i \in 0 .. BLK_CNT - 1 :
           /\ q2.blk[i].id = q.blk[i].id /\ q2.blk[i].part = q.blk[i].part
           /\ i # w => q2.blk[i] = q.blk[i]
  BY PushIs
<1> HIDE DEF q2
<1>2. w \in 0 .. BLK_CNT - 1 /\ q.blk[w].len > 0 /\ q.read_idx \in Int /\ q.blk[w].len \in Int
  BY QueueFields, Widths DEF AllocInv
<1>3. q.blk[w].part = 0 /\ q.blk[w].id = p
  <2>1. w \in w .. w + q.blk[w].len - 1 /\ w - w = 0
    BY <1>2, Widths
  <2> QED BY <2>1 DEF AllocInv
<1>4. q.read_idx \in q.read_idx .. q.write_idx
  BY DEF QueueInv, Starts
<1>5. q2.read_idx + 0 = q.read_idx /\ q2.write_idx + 0 >= w /\ q2.write_idx + 0 # w /\ w - 0 = w
  BY <1>1, <1>2, Widths, SMTT(30)
<1>6. ASSUME NEW i \in q.read_idx .. w - 1 PROVE q2.blk[i - 0] = q.blk[i]
  <2>1. i \in 0 .. BLK_CNT - 1 /\ i - 0 = i /\ i # w
    BY <1>2, QueueFields, Widths
  <2> QED BY <2>1, <1>1
<1>7. q2.blk[w].part = 0 /\ q2.blk[w].id = p
  BY <1>1, <1>2, <1>3
<1>8. Moves(q, p, q2, Add(p, 1), 0)
  BY <1>4, <1>5, <1>6, <1>7 DEF Moves
<1> QED BY <1>8 DEF q2

\* After Push() the queue is in order with one message more.
LEMMA PushInv ==
  ASSUME NEW q \in Queues, NEW p \in UInt, QueueInv(q, p), AllocInv(q, p)
  PROVE  QueueInv(Push(q), Add(p, 1))
<1> DEFINE q2 == Push(q)
           w == q.write_idx
           p2 == Add(p, 1)
           len == q.blk[w].len
<1>1. /\ q2 \in Queues /\ q2.write_idx = w + len /\ q2.read_idx = q.read_idx
      /\ q2.read_seq = q.read_seq
      /\ \A i \in 0 .. BLK_CNT - 1 :
           /\ q2.blk[i].id = q.blk[i].id /\ q2.blk[i].part = q.blk[i].part
           /\ q2.blk[i].len = q.blk[i].len
  BY PushIs
<1>2. Moves(q, p, q2, p2, 0)
  BY PushMoves
<1> HIDE DEF q2
<1>3. /\ w \in 0 .. BLK_CNT - 1 /\ len > 0 /\ q.read_idx \in Int /\ len \in Int /\ w \in Int
      /\ w + len <= BLK_CNT /\ q.read_idx >= 0 /\ BLK_CNT \in Nat /\ q.read_idx <= w
      /\ \A i \in w .. w + len - 1 : q.blk[i].len > 0 /\ q.blk[i].part = i - w /\ q.blk[i].id = p
  <2>1. q.read_idx <= w
    BY QueueFields DEF QueueInv, Starts
  <2> QED BY <2>1, QueueFields, Widths DEF AllocInv
<1>4. Off(q, p) \in Nat /\ Off(q, p2) = Off(q, p) + 1 /\ p2 \in UInt
  <2>1. Off(q, p) \in Nat /\ Off(q, p) <= w - q.read_idx
    BY QueueCount
  <2>2. 1 \in Nat /\ 1 \in 0 .. UIntMod /\ Off(q, p) + 1 < UIntMod
    BY <2>1, <1>3, Widths
  <2> QED BY <2>1, <2>2, QueueFields, SubAdd, AddRange DEF Off
<1>5. \A id : Off(q2, id) = Off(q, id)
  BY <1>1 DEF Off
<1> HIDE DEF len, p2
<1>6. ASSUME NEW h, NEW id, Starts(q, p, h, id) PROVE Starts(q2, p2, h, id)
  <2>1. h \in Int /\ h >= q2.read_idx + 0 /\ h - 0 = h
    BY <1>6, <1>1, <1>3 DEF Starts
  <2>2. Starts(q2, p2, h - 0, id)
    BY <2>1, <1>1, <1>2, <1>6, StartsMoved
  <2> QED BY <2>1, <2>2
<1>7. Starts(q2, p2, q2.read_idx, q2.read_seq)
  BY <1>1, <1>6 DEF QueueInv
<1>8. ASSUME NEW i \in q.read_idx .. w - 1
      PROVE  /\ i \in 0 .. BLK_CNT - 1 /\ q2.blk[i].len > 0
             /\ LET h == i - q2.blk[i].part
                IN  h >= q2.read_idx /\ q2.blk[h].part = 0 /\ i < h + q2.blk[h].len
             /\ Off(q, q.blk[i].id) < Off(q, p) /\ Off(q, q.blk[i].id) \in Nat
             /\ q2.blk[i].part = 0 =>
                  /\ WholeAt(q2, p2, i)
                  /\ Off(q2, q2.blk[i].id) < Off(q2, p2)
                  /\ Off(q2, p2) - Off(q2, q2.blk[i].id) <= q2.write_idx - i
  <2> DEFINE h == i - q.blk[i].part
  <2>1. i \in 0 .. BLK_CNT - 1 /\ q.blk[i].len > 0
    BY UsedBlock DEF QueueInv
  <2>2. /\ h \in q.read_idx .. i /\ i < h + q.blk[h].len /\ Starts(q, p, h, q.blk[i].id)
        /\ WholeAt(q, p, h) /\ q.blk[h].id = q.blk[i].id /\ h + q.blk[h].len <= w
    BY BlockOfMessage
  <2>3. h \in 0 .. BLK_CNT - 1 /\ h \in q.read_idx .. w - 1
    <3> HIDE DEF h
    <3> QED BY <2>1, <2>2, <1>3
  <2>4. q2.blk[i].part = q.blk[i].part /\ q2.blk[i].id = q.blk[i].id /\ q2.blk[i].len = q.blk[i].len
    BY <2>1, <1>1
  <2>5. q.blk[h].part = 0 /\ Off(q, q.blk[h].id) < Off(q, p) /\ Off(q, p) - Off(q, q.blk[h].id) <= w - h
    <3>1. q.blk[h].part = 0
      BY DEF QueueInv
    <3> HIDE DEF h
    <3> QED BY <2>3, <3>1 DEF QueueInv
  <2>6. Off(q, q.blk[i].id) < Off(q, p) /\ Off(q, q.blk[i].id) \in Nat
    <3>1. q.blk[i].id \in UInt
      BY <2>1, QueueFields
    <3> HIDE DEF h
    <3> QED BY <2>2, <2>5, <3>1, OffRange
  <2>7. LET f == i - q2.blk[i].part
        IN  f >= q2.read_idx /\ q2.blk[f].part = 0 /\ i < f + q2.blk[f].len
    <3>1. i - q2.blk[i].part = h
      BY <2>4
    <3>2. q2.blk[h].part = q.blk[h].part /\ q2.blk[h].len = q.blk[h].len
      <4> HIDE DEF h
      <4> QED BY <2>3, <1>1
    <3>3. h >= q2.read_idx
      <4> HIDE DEF h
      <4> QED BY <2>2, <1>1, <1>3
    <3> HIDE DEF h
    <3> QED BY <3>1, <3>2, <3>3, <2>2, <2>5
  <2>8. ASSUME q2.blk[i].part = 0
        PROVE  /\ WholeAt(q2, p2, i)
               /\ Off(q2, q2.blk[i].id) < Off(q2, p2)
               /\ Off(q2, p2) - Off(q2, q2.blk[i].id) <= q2.write_idx - i
    <3>1. h = i
      BY <2>1, <2>4, <2>8
    <3>2. WholeAt(q, p, i) /\ Off(q, p) - Off(q, q.blk[i].id) <= w - i /\ i + q.blk[i].len <= w
      <4> HIDE DEF h
      <4> QED BY <2>2, <2>5, <3>1
    <3> HIDE DEF h
    <3> DEFINE e == i + q.blk[i].len
    <3>3. /\ e > i /\ Starts(q, p, e, Add(q.blk[i].id, 1)) /\ e \in Int
          /\ \A j \in i .. e - 1 : q.blk[j].part = j - i /\ q.blk[j].id = q.blk[i].id
      <4>1. q.blk[i].len \in Int /\ i \in Int
        BY <2>1, QueueFields
      <4> QED BY <3>2, <4>1 DEF WholeAt
    <3>4. Starts(q2, p2, e, Add(q2.blk[i].id, 1)) /\ e = i + q2.blk[i].len /\ e <= w
      BY <2>4, <3>2, <3>3, <1>6
    <3> HIDE DEF e
    <3>5. ASSUME NEW j \in i .. e - 1
          PROVE  q2.blk[j].part = j - i /\ q2.blk[j].id = q2.blk[i].id
      <4>1. j \in 0 .. BLK_CNT - 1
        BY <2>1, <3>3, <3>4, <1>3
      <4> QED BY <4>1, <2>4, <3>3, <1>1
    <3>6. WholeAt(q2, p2, i)
      BY <3>3, <3>4, <3>5 DEF WholeAt
    <3> QED BY <3>2, <3>6, <2>4, <2>6, <1>1, <1>3, <1>4, <1>5
  <2> QED BY <2>1, <2>4, <2>6, <2>7, <2>8
<1>9. ASSUME NEW i \in w .. w + len - 1
      PROVE  /\ i \in 0 .. BLK_CNT - 1 /\ q2.blk[i].len > 0 /\ q2.blk[i].part = i - w /\ q2.blk[i].id = p
             /\ LET h == i - q2.blk[i].part
                IN  h >= q2.read_idx /\ q2.blk[h].part = 0 /\ i < h + q2.blk[h].len
             /\ q2.blk[i].part = 0 =>
                  /\ WholeAt(q2, p2, i)
                  /\ Off(q2, q2.blk[i].id) < Off(q2, p2)
                  /\ Off(q2, p2) - Off(q2, q2.blk[i].id) <= q2.write_idx - i
  <2>1. i \in 0 .. BLK_CNT - 1 /\ w \in w .. w + len - 1 /\ w - w = 0
    BY <1>3
  <2>2. \A j \in w .. w + len - 1 : q2.blk[j].len > 0 /\ q2.blk[j].part = j - w /\ q2.blk[j].id = p
    <3> SUFFICES ASSUME NEW j \in w .. w + len - 1
                 PROVE  q2.blk[j].len > 0 /\ q2.blk[j].part = j - w /\ q2.blk[j].id = p
      OBVIOUS
    <3>1. j \in 0 .. BLK_CNT - 1
      BY <1>3
    <3> QED BY <3>1, <1>1, <1>3
  <2>3. q2.blk[w].part = 0 /\ q2.blk[w].len = len /\ q2.blk[w].id = p
    BY <2>1, <2>2, <1>1, <1>3 DEF len
  <2>4. LET h == i - q2.blk[i].part
        IN  h >= q2.read_idx /\ q2.blk[h].part = 0 /\ i < h + q2.blk[h].len
    <3>1. i - q2.blk[i].part = w
      BY <2>2, <1>3
    <3> QED BY <3>1, <2>3, <1>1, <1>3
  <2>5. ASSUME q2.blk[i].part = 0
        PROVE  /\ WholeAt(q2, p2, i)
               /\ Off(q2, q2.blk[i].id) < Off(q2, p2)
               /\ Off(q2, p2) - Off(q2, q2.blk[i].id) <= q2.write_idx - i
    <3>1. i = w
      BY <2>2, <2>5, <1>3
    <3>2. Starts(q2, p2, w + len, Add(q2.blk[w].id, 1))
      <4>1. Starts(q2, p2, q2.write_idx, p2)
        BY <1>1, <1>3, StartsEnd
      <4> QED BY <4>1, <2>3, <1>1 DEF p2
    <3>3. WholeAt(q2, p2, w)
      BY <2>2, <2>3, <3>2, <1>3 DEF WholeAt
    <3> QED BY <3>1, <3>3, <2>3, <1>1, <1>3, <1>4, <1>5
  <2> QED BY <2>1, <2>2, <2>4, <2>5
<1>10. ASSUME NEW i \in q2.read_idx .. q2.write_idx - 1
       PROVE  i \in q.read_idx .. w - 1 \/ i \in w .. w + len - 1
  BY <1>1, <1>3
<1>11. ASSUME NEW i \in q2.read_idx .. q2.write_idx - 1, NEW j \in q2.read_idx .. q2.write_idx - 1,
              i < j, q2.blk[j].part = 0
       PROVE  Off(q2, q2.blk[i].id) < Off(q2, q2.blk[j].id)
  <2>1. CASE j \in q.read_idx .. w - 1
    <3>1. i \in q.read_idx .. w - 1
      BY <2>1, <1>10, <1>11, <1>3
    <3>2. i \in 0 .. BLK_CNT - 1 /\ j \in 0 .. BLK_CNT - 1
      BY <2>1, <3>1, UsedBlock
    <3>3. Off(q, q.blk[i].id) < Off(q, q.blk[j].id)
      BY <2>1, <3>1, <3>2, <1>1, <1>11 DEF QueueInv
    <3> QED BY <3>2, <3>3, <1>1, <1>5
  <2>2. CASE j \in w .. w + len - 1
    <3>1. j = w /\ q2.blk[j].id = p
      BY <2>2, <1>9, <1>11, <1>3
    <3>2. i \in q.read_idx .. w - 1
      BY <3>1, <1>10, <1>11, <1>3
    <3>3. i \in 0 .. BLK_CNT - 1 /\ Off(q, q.blk[i].id) < Off(q, p)
      BY <3>2, <1>8
    <3> QED BY <3>1, <3>3, <1>1, <1>5
  <2> QED BY <2>1, <2>2, <1>10
<1>12. QueueInv(q2, p2)
  <2>1. ASSUME NEW i \in q2.read_idx .. q2.write_idx - 1
        PROVE  /\ q2.blk[i].len > 0
               /\ LET h == i - q2.blk[i].part
                  IN  h >= q2.read_idx /\ q2.blk[h].part = 0 /\ i < h + q2.blk[h].len
               /\ q2.blk[i].part = 0 =>
                    /\ WholeAt(q2, p2, i)
                    /\ Off(q2, q2.blk[i].id) < Off(q2, p2)
                    /\ Off(q2, p2) - Off(q2, q2.blk[i].id) <= q2.write_idx - i
    BY <1>8, <1>9, <1>10
  <2> QED BY <1>7, <1>11, <2>1 DEF QueueInv
<1> QED BY <1>12 DEF q2, p2

-----------------------------------------------------------------------------
(* The other methods.                                                      *)

\* The fields of a queue after Sendout(), after LoginAck() and after Pop() at
\* this end.
LEMMA SendoutIs ==
  ASSUME NEW q \in Queues, NEW n \in Nat, q.send_idx + n <= q.write_idx
  PROVE  LET q2 == Sendout(q, n)
         IN  /\ q2 \in Queues /\ q2.send_idx = q.send_idx + n /\ q2.blk = q.blk
             /\ q2.write_idx = q.write_idx /\ q2.read_idx = q.read_idx
             /\ q2.read_seq = q.read_seq /\ q2.ack_seq = q.ack_seq
<1> DEFINE i == q.send_idx + n
<1>1. i \in 0 .. BLK_CNT
  BY QueueFields, Widths
<1>2. Sendout(q, n) = [q EXCEPT !.send_idx = i]
  BY DEF Sendout
<1> HIDE DEF i
<1>3. /\ [q EXCEPT !.send_idx = i] \in Queues /\ [q EXCEPT !.send_idx = i].send_idx = i
      /\ [q EXCEPT !.send_idx = i].blk = q.blk
      /\ [q EXCEPT !.send_idx = i].write_idx = q.write_idx /\ [q EXCEPT !.send_idx = i].read_idx = q.read_idx
      /\ [q EXCEPT !.send_idx = i].read_seq = q.read_seq /\ [q EXCEPT !.send_idx = i].ack_seq = q.ack_seq
  BY <1>1 DEF Queues
<1> QED BY <1>2, <1>3 DEF i

\* LoginAck() is Ack() and the reset of send_idx_.
LEMMA LoginAckIs ==
  ASSUME NEW q, NEW a, Ack(q, a) \in Queues
  PROVE  LET q2 == LoginAck(q, a)
             k == Ack(q, a)
         IN  /\ q2 \in Queues /\ q2.send_idx = k.read_idx /\ q2.blk = k.blk
             /\ q2.write_idx = k.write_idx /\ q2.read_idx = k.read_idx
             /\ q2.read_seq = k.read_seq /\ q2.ack_seq = k.ack_seq
<1> DEFINE k == Ack(q, a)
<1>1. LoginAck(q, a) = [k EXCEPT !.send_idx = k.read_idx]
  BY DEF LoginAck
<1>2. k \in Queues
  OBVIOUS
<1> HIDE DEF k
<1>3. k.read_idx \in 0 .. BLK_CNT
  BY <1>2, QueueFields
<1> DEFINE i == k.read_idx
<1> HIDE DEF i
<1>4. /\ [k EXCEPT !.send_idx = i] \in Queues /\ [k EXCEPT !.send_idx = i].send_idx = i
      /\ [k EXCEPT !.send_idx = i].blk = k.blk
      /\ [k EXCEPT !.send_idx = i].write_idx = k.write_idx /\ [k EXCEPT !.send_idx = i].read_idx = k.read_idx
      /\ [k EXCEPT !.send_idx = i].read_seq = k.read_seq /\ [k EXCEPT !.send_idx = i].ack_seq = k.ack_seq
  BY <1>2, <1>3 DEF Queues, i
<1> QED BY <1>1, <1>4 DEF i, k

\* Pop() counts a message and changes nothing else in the file.
LEMMA MyAckNextIs ==
  ASSUME NEW q \in Queues
  PROVE  LET q2 == MyAckNext(q)
         IN  /\ q2 \in Queues /\ q2.ack_seq = Add(q.ack_seq, 1) /\ q2.blk = q.blk
             /\ q2.write_idx = q.write_idx /\ q2.read_idx = q.read_idx
             /\ q2.send_idx = q.send_idx /\ q2.read_seq = q.read_seq
<1> DEFINE a == Add(q.ack_seq, 1)
<1>1. a \in UInt
  <2>1. 1 \in 0 .. UIntMod
    BY Widths
  <2> QED BY <2>1, QueueFields, AddRange
<1>2. MyAckNext(q) = [q EXCEPT !.ack_seq = a]
  BY DEF MyAckNext
<1> HIDE DEF a
<1>3. /\ [q EXCEPT !.ack_seq = a] \in Queues /\ [q EXCEPT !.ack_seq = a].ack_seq = a
      /\ [q EXCEPT !.ack_seq = a].blk = q.blk
      /\ [q EXCEPT !.ack_seq = a].write_idx = q.write_idx /\ [q EXCEPT !.ack_seq = a].read_idx = q.read_idx
      /\ [q EXCEPT !.ack_seq = a].send_idx = q.send_idx /\ [q EXCEPT !.ack_seq = a].read_seq = q.read_seq
  BY <1>1 DEF Queues
<1> QED BY <1>2, <1>3 DEF a

\* What a queue holds does not depend on send_idx and ack_seq.
LEMMA SameBlocks ==
  ASSUME NEW q, NEW q2, NEW p,
         q2.blk = q.blk, q2.write_idx = q.write_idx, q2.read_idx = q.read_idx, q2.read_seq = q.read_seq
  PROVE  /\ \A h, id : Starts(q2, p, h, id) = Starts(q, p, h, id)
         /\ \A id : Off(q2, id) = Off(q, id)
         /\ QueueInv(q, p) => QueueInv(q2, p)
<1>1. \A h, id : Starts(q2, p, h, id) = Starts(q, p, h, id)
  BY DEF Starts
<1>2. \A id : Off(q2, id) = Off(q, id)
  BY DEF Off
<1>3. \A h : WholeAt(q2, p, h) = WholeAt(q, p, h)
  BY <1>1 DEF WholeAt
<1>4. ASSUME QueueInv(q, p) PROVE QueueInv(q2, p)
  BY <1>4, <1>1, <1>2, <1>3 DEF QueueInv
<1> QED BY <1>1, <1>2, <1>4

\* A file that was just created is a queue without messages.
LEMMA ZeroQueueInv == ZeroQueue \in Queues /\ QueueInv(ZeroQueue, 0) /\ SendInv(ZeroQueue)
<1>1. ZeroBlock \in QBlocks /\ 0 \in 0 .. BLK_CNT /\ 0 \in UInt
  BY Widths DEF ZeroBlock, QBlocks
<1>2. /\ ZeroQueue \in Queues /\ ZeroQueue.read_idx = 0 /\ ZeroQueue.write_idx = 0
      /\ ZeroQueue.send_idx = 0 /\ ZeroQueue.read_seq = 0 /\ ZeroQueue.ack_seq = 0
  BY <1>1 DEF ZeroQueue, Queues
<1> HIDE DEF ZeroQueue
<1>3. Starts(ZeroQueue, 0, 0, 0)
  BY <1>2 DEF Starts
<1>4. ZeroQueue.read_idx .. ZeroQueue.write_idx - 1 = {}
  BY <1>2
<1> QED BY <1>2, <1>3, <1>4 DEF QueueInv, SendInv

-----------------------------------------------------------------------------
(* SanityCheckAndGetSeq().                                                 *)

\* The walk of the check is defined: it only goes to later blocks.
LEMMA WalkExists ==
  ASSUME NEW q \in Queues
  PROVE  LET Visit(f, i) ==
               IF i >= q.write_idx THEN IF i = q.write_idx THEN 0 ELSE -1
               ELSE IF Before(q.ack_seq, q.blk[i].ack) \/ q.blk[i].len \notin 1 .. BLK_CNT THEN -1
               ELSE LET rest == f[i + q.blk[i].len]
                    IN  IF rest = -1 THEN -1 ELSE rest + 1
         IN  \E f : f = [i \in 0 .. 2 * BLK_CNT |-> Visit(f, i)]
<1> DEFINE m == 2 * BLK_CNT
           Stop(i) == Before(q.ack_seq, q.blk[i].ack) \/ q.blk[i].len \notin 1 .. BLK_CNT
           More(x) == IF x = -1 THEN -1 ELSE x + 1
           Visit(f, i) ==
             IF i >= q.write_idx THEN IF i = q.write_idx THEN 0 ELSE -1
             ELSE IF Stop(i) THEN -1 ELSE More(f[i + q.blk[i].len])
           Good(f, k) == /\ f = [i \in 0 .. m |-> f[i]]
                         /\ \A i \in m + 1 - k .. m : f[i] = Visit(f, i)
           T == {k \in 0 .. m + 1 : \E f : Good(f, k)}
<1>1. m \in Nat /\ m + 1 \in Nat /\ q.write_idx \in 0 .. BLK_CNT /\ BLK_CNT \in Nat
  BY QueueFields, Widths
<1>2. 0 \in T
  <2> DEFINE f == [i \in 0 .. m |-> 0]
  <2>1. f = [i \in 0 .. m |-> f[i]]
    OBVIOUS
  <2>2. m + 1 - 0 .. m = {}
    BY <1>1
  <2> HIDE DEF f, Visit, m
  <2>3. Good(f, 0)
    BY <2>1, <2>2
  <2> QED BY <2>3, <1>1
<1>3. ASSUME NEW k \in 1 .. m + 1, k - 1 \in T PROVE k \in T
  <2>1. PICK f : Good(f, k - 1)
    BY <1>3
  <2> DEFINE j == m + 1 - k
             g == [i \in 0 .. m |-> IF i = j THEN Visit(f, j) ELSE f[i]]
  <2>2. j \in 0 .. m /\ m + 1 - (k - 1) = j + 1
    BY <1>1
  <2>3. g = [i \in 0 .. m |-> g[i]] /\ \A i \in 0 .. m : g[i] = IF i = j THEN Visit(f, j) ELSE f[i]
    <3> HIDE DEF Visit
    <3> QED OBVIOUS
  <2> HIDE DEF g, j
  <2>4. ASSUME NEW i \in j .. m PROVE Visit(g, i) = Visit(f, i)
    <3>1. CASE i >= q.write_idx \/ Stop(i)
      BY <3>1
    <3>2. CASE ~ (i >= q.write_idx) /\ ~ Stop(i)
      <4>1. q.blk[i].len \in 1 .. BLK_CNT
        BY <3>2
      <4>2. i + q.blk[i].len \in 0 .. m /\ i + q.blk[i].len # j
        BY <4>1, <3>2, <2>2, <1>1
      <4>3. g[i + q.blk[i].len] = f[i + q.blk[i].len]
        <5> HIDE DEF Visit, m
        <5> QED BY <4>2, <2>3
      <4> HIDE DEF More, Stop
      <4> QED BY <4>3
    <3> QED BY <3>1, <3>2
  <2> HIDE DEF Visit
  <2>5. ASSUME NEW i \in j .. m PROVE g[i] = Visit(g, i)
    <3>1. i \in 0 .. m
      BY <2>2, <1>1
    <3>2. CASE i = j
      BY <3>1, <3>2, <2>3, <2>4
    <3>3. CASE i # j
      <4>1. i \in m + 1 - (k - 1) .. m
        BY <3>3, <2>2, <1>1
      <4>2. f[i] = Visit(f, i)
        <5> HIDE DEF m
        <5> QED BY <4>1, <2>1
      <4> QED BY <4>2, <3>1, <3>3, <2>3, <2>4
    <3> QED BY <3>2, <3>3
  <2>6. Good(g, k)
    BY <2>3, <2>5 DEF j
  <2>7. k \in 0 .. m + 1
    BY <1>1
  <2> HIDE DEF Good
  <2> QED BY <2>6, <2>7
<1>4. m + 1 \in T
  <2>1. T \subseteq 0 .. m + 1 /\ m + 1 \in 0 .. m + 1
    BY <1>1
  <2> HIDE DEF T, m
  <2> QED BY <1>1, <1>2, <1>3, <2>1, IntervalInduction
<1>5. PICK f : Good(f, m + 1)
  BY <1>4
<1>6. m + 1 - (m + 1) = 0
  BY <1>1
<1>7. f = [i \in 0 .. m |-> Visit(f, i)]
  <2> HIDE DEF Visit, m
  <2>1. f = [i \in 0 .. m |-> f[i]] /\ \A i \in 0 .. m : f[i] = Visit(f, i)
    BY <1>5, <1>6
  <2>2. [i \in 0 .. m |-> f[i]] = [i \in 0 .. m |-> Visit(f, i)]
    BY <2>1
  <2> QED BY <2>1, <2>2
<1> QED BY <1>7

\* The check accepts a queue in order whose acks are not from the future, and
\* finds as many messages as there are.
LEMMA SanityWalkIs ==
  ASSUME NEW q \in Queues, NEW p \in UInt, QueueInv(q, p),
         \A i \in q.read_idx .. q.write_idx - 1 : q.blk[i].part = 0 => ~ Before(q.ack_seq, q.blk[i].ack)
  PROVE  SanityWalk(q) = Off(q, p) /\ SanityCheck(q) /\ SeqStart(q) = q.read_seq /\ SeqEnd(q) = p
<1> DEFINE n == Off(q, p)
           Visit(f, i) ==
             IF i >= q.write_idx THEN IF i = q.write_idx THEN 0 ELSE -1
             ELSE IF Before(q.ack_seq, q.blk[i].ack) \/ q.blk[i].len \notin 1 .. BLK_CNT THEN -1
             ELSE LET rest == f[i + q.blk[i].len]
                  IN  IF rest = -1 THEN -1 ELSE rest + 1
           walk == CHOOSE f : f = [i \in 0 .. 2 * BLK_CNT |-> Visit(f, i)]
           Id(k) == Add(q.read_seq, k)
           T == {k \in 0 .. n : \A h : Starts(q, p, h, Id(n - k)) => walk[h] = k}
<1>1. SanityWalk(q) = walk[q.read_idx]
  BY DEF SanityWalk
<1>2. walk = [i \in 0 .. 2 * BLK_CNT |-> Visit(walk, i)]
  BY WalkExists
<1> HIDE DEF walk
<1>3. \A i \in 0 .. 2 * BLK_CNT : walk[i] = Visit(walk, i)
  <2> HIDE DEF Visit
  <2> QED BY <1>2
<1>4. /\ n \in Nat /\ n < UIntMod /\ q.read_seq \in UInt /\ Off(q, q.read_seq) = 0 /\ UIntMod \in Nat
      /\ q.write_idx \in 0 .. BLK_CNT /\ BLK_CNT \in Nat /\ q.read_idx \in 0 .. BLK_CNT
      /\ q.read_idx <= q.write_idx
  <2>1. q.read_idx \in q.read_idx .. q.write_idx
    BY DEF QueueInv, Starts
  <2> QED BY <2>1, OffRange, QueueFields, Widths
<1>5. ASSUME NEW k \in 0 .. n
      PROVE  Id(k) \in UInt /\ Off(q, Id(k)) = k
  <2>1. k \in Nat /\ k \in 0 .. UIntMod /\ Off(q, q.read_seq) + k < UIntMod
    BY <1>4
  <2> QED BY <2>1, <1>4, AddRange, SubAdd DEF Off
<1>6. 0 \in T
  <2> SUFFICES ASSUME NEW h, Starts(q, p, h, Id(n - 0)) PROVE walk[h] = 0
    BY <1>4
  <2>1. n - 0 = n /\ Id(n) = p
    BY <1>4, AddSub DEF Off
  <2>2. h = q.write_idx
    <3>1. Starts(q, p, q.write_idx, p) /\ Starts(q, p, h, p)
      BY <2>1, <1>4, StartsEnd
    <3> QED BY <3>1, StartsOnce
  <2>3. h \in 0 .. 2 * BLK_CNT /\ h >= q.write_idx
    BY <2>2, <1>4
  <2> QED BY <2>2, <2>3, <1>3
<1>7. ASSUME NEW k \in 1 .. n, k - 1 \in T PROVE k \in T
  <2>1. k \in 0 .. n
    BY <1>4
  <2> SUFFICES ASSUME NEW h, Starts(q, p, h, Id(n - k)) PROVE walk[h] = k
    BY <2>1
  <2> DEFINE id == Id(n - k)
             len == q.blk[h].len
  <2>2. n - k \in 0 .. n /\ n - k \in Nat /\ (n - k) + 1 = n - (k - 1) /\ (n - k) + 1 < UIntMod /\ n - k < n
    BY <1>4
  <2>3. id \in UInt /\ Off(q, id) < n
    <3> HIDE DEF Id, n
    <3> QED BY <2>2, <1>5
  <2>4. Add(id, 1) = Id(n - (k - 1))
    <3> HIDE DEF n
    <3>1. 1 \in Nat
      OBVIOUS
    <3> QED BY <2>2, <3>1, <1>4, AddAdd
  <2>5. id # p
    BY <2>3, <1>4
  <2> HIDE DEF id, Id
  <2>6. /\ h \in q.read_idx .. q.write_idx - 1 /\ h \in 0 .. BLK_CNT - 1
        /\ q.blk[h].part = 0 /\ len > 0 /\ Starts(q, p, h + len, Add(id, 1))
    BY <2>3, <2>5, NextStart DEF id
  <2>7. walk[h + len] = k - 1
    <3> HIDE DEF len, n
    <3>1. Starts(q, p, h + len, Id(n - (k - 1)))
      BY <2>4, <2>6
    <3> QED BY <1>7, <3>1
  <2>8. len \in 1 .. BLK_CNT /\ ~ (h >= q.write_idx) /\ h \in 0 .. 2 * BLK_CNT /\ ~ Before(q.ack_seq, q.blk[h].ack)
    BY <2>6, <1>4, QueueFields, SMTT(30)
  <2>9. walk[h] = Visit(walk, h)
    <3> HIDE DEF Visit
    <3> QED BY <2>8, <1>3
  <2>10. walk[h] = IF walk[h + len] = -1 THEN -1 ELSE walk[h + len] + 1
    BY <2>8, <2>9
  <2> HIDE DEF len, n
  <2> QED BY <2>7, <2>10
<1>8. n \in T
  <2>1. T \subseteq 0 .. n /\ n \in 0 .. n
    BY <1>4
  <2> HIDE DEF T, n
  <2> QED BY <1>4, <1>6, <1>7, <2>1, IntervalInduction
<1>9. walk[q.read_idx] = n
  <2>1. n - n = 0
    BY <1>4
  <2>2. Id(0) = q.read_seq
    BY <1>4, AddZero
  <2>3. Starts(q, p, q.read_idx, q.read_seq)
    BY DEF QueueInv
  <2> HIDE DEF n, Id
  <2> QED BY <1>8, <2>1, <2>2, <2>3
<1>10. SanityWalk(q) = n /\ n # -1
  BY <1>1, <1>9, <1>4
<1>11. Add(q.read_seq, n) = p
  BY <1>4, AddSub DEF Off
<1> QED BY <1>10, <1>11 DEF SanityCheck, SeqStart, SeqEnd

\* The check of an ack at login accepts every message of the queue up to the
\* last one the peer knows of.
LEMMA CheckAckAccepts ==
  ASSUME NEW q \in Queues, NEW p \in UInt, QueueInv(q, p), NEW a \in UInt, NEW b \in UInt,
         NEW g, NEW h, Starts(q, p, h, a), Starts(q, p, g, b), h <= g
  PROVE  CheckAckInQueue(a, q.read_seq, b)
<1>1. /\ Off(q, a) \in Nat /\ Off(q, b) \in Nat /\ Off(q, b) <= Off(q, p)
      /\ (g < h <=> Off(q, b) < Off(q, a))
  BY StartsOnce
<1>2. g \in Int /\ h \in Int
  BY QueueFields DEF Starts
<1>3. Off(q, a) <= Off(q, b)
  BY <1>1, <1>2
<1>4. Off(q, p) \in Nat /\ Off(q, p) < HalfRange
  <2>1. Off(q, p) \in Nat /\ Off(q, p) <= q.write_idx - q.read_idx
    BY QueueCount
  <2> QED BY <2>1, QueueFields, Widths
<1>5. ~ Before(a, q.read_seq)
  BY <1>1, <1>3, <1>4, Widths DEF Before, Off
<1>6. Sub(b, a) = Off(q, b) - Off(q, a)
  BY <1>3, QueueFields, SubSub DEF Off
<1>7. ~ Before(b, a)
  BY <1>6, <1>1, <1>3, <1>4, Widths DEF Before
<1> QED BY <1>5, <1>7 DEF CheckAckInQueue


=============================================================================
