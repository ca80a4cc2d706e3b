------------------------------ MODULE PTCPQueue ------------------------------
(***************************************************************************)
(* The persistent send queue of a TCP connection (tcpshm/ptcp_queue.h): a  *)
(* linear array of 8-byte blocks, mapped to a file, that holds every       *)
(* message the peer has not acknowledged yet.  A queue is a record of the  *)
(* class's fields and every operator is a method: it maps a queue to a     *)
(* queue.                                                                  *)
(*                                                                         *)
(* A message of len blocks is a header block followed by len - 1 blocks of *)
(* payload.  Its size in bytes is kept only as len.  A block also names    *)
(* the message it belongs to (id, the number of messages pushed before it) *)
(* and its place in it (part), which no code looks at: they say what the   *)
(* bytes of the block are.                                                 *)
(***************************************************************************)
EXTENDS UIntArith, Sequences

CONSTANT BLK_CNT

ASSUME BlkCntAssumption == BLK_CNT \in Nat \ {0} /\ BLK_CNT < HalfRange

\* A file that was just created, or cleared by Reset(), is all zero.
ZeroBlock == [id |-> 0, part |-> 0, len |-> 0, ack |-> 0]

ZeroQueue ==
  [blk |-> [i \in 0 .. BLK_CNT - 1 |-> ZeroBlock],
   write_idx |-> 0, read_idx |-> 0, send_idx |-> 0, read_seq |-> 0, ack_seq |-> 0]

\* Payload read as if it were a header: some size and no ack.
PayloadBlock(id, part) == [id |-> id, part |-> part, len |-> 1, ack |-> 0]

-----------------------------------------------------------------------------
(* Alloc() and Push().                                                     *)

AllocFails(q, len) ==
  LET avail == BLK_CNT - q.write_idx
  IN  len > avail /\ len > avail + q.read_idx

\* memmove of the unacknowledged blocks to the start of the array.
Moved(q) ==
  [i \in 0 .. BLK_CNT - 1 |->
     IF i < q.write_idx - q.read_idx THEN q.blk[i + q.read_idx] ELSE q.blk[i]]

\* Mutant: send_idx_ is not moved with the blocks.
CompactKeepsSend(q, len) ==
  IF len <= BLK_CNT - q.write_idx THEN q
  ELSE [q EXCEPT !.blk = Moved(q),
                 !.write_idx = @ - q.read_idx,
                 !.read_idx = 0]

Compact(q, len) ==
  IF len <= BLK_CNT - q.write_idx THEN q
  ELSE [q EXCEPT !.blk = Moved(q),
                 !.write_idx = @ - q.read_idx,
                 !.send_idx = @ - q.read_idx,
                 !.read_idx = 0]

\* Alloc() that does not fail, together with the user's writing message id
\* through the pointer it returns.
Alloc(q, len, id) ==
  LET c == Compact(q, len)
      w == c.write_idx
  IN  [c EXCEPT !.blk = [i \in 0 .. BLK_CNT - 1 |->
         IF i = w THEN [c.blk[i] EXCEPT !.id = id, !.part = 0, !.len = len]
         ELSE IF i \in w .. w + len - 1 THEN PayloadBlock(id, i - w)
         ELSE c.blk[i]]]

\* Mutant: the ack stamped on a message is that of the next one.
PushStampsNext(q) ==
  [q EXCEPT !.blk[q.write_idx].ack = Add(q.ack_seq, 1),
            !.write_idx = @ + q.blk[q.write_idx].len]

\* The header is found through write_idx again.
Push(q) ==
  [q EXCEPT !.blk[q.write_idx].ack = q.ack_seq,
            !.write_idx = @ + q.blk[q.write_idx].len]

-----------------------------------------------------------------------------
(* GetSendable() and Sendout().                                            *)

Pending(q) == q.write_idx - q.send_idx

Sendable(q, n) == [j \in 1 .. n |-> q.blk[q.send_idx + j - 1]]

\* Mutant: a block sent in part counts as sent.
SendoutRoundsUp(q, n) == [q EXCEPT !.send_idx = @ + n + 1]

Sendout(q, n) == [q EXCEPT !.send_idx = @ + n]

-----------------------------------------------------------------------------
(* Ack() and LoginAck().                                                   *)

\* read_idx after n turns of the loop in Ack().
SkipMessages(q, n) ==
  LET skip[k \in 0 .. n] ==
        IF k = 0 THEN q.read_idx
        ELSE LET i == skip[k - 1]
             IN  IF i \in 0 .. BLK_CNT - 1 THEN i + q.blk[i].len ELSE i
  IN  skip[n]

\* (int)(ack_seq - read_seq_num_) > 0
NewerAck(q, ack_seq) == ack_seq # q.read_seq /\ ~ Before(ack_seq, q.read_seq)

ReleaseTo(q, ack_seq) ==
  [q EXCEPT !.read_idx = SkipMessages(q, Sub(ack_seq, q.read_seq)),
            !.read_seq = ack_seq]

\* Mutant: rewind when all that was sent is acknowledged.
RewindSent(q) ==
  IF q.read_idx = q.send_idx
  THEN [q EXCEPT !.read_idx = 0, !.write_idx = 0, !.send_idx = 0]
  ELSE q

RewindEmpty(q) ==
  IF q.read_idx = q.write_idx
  THEN [q EXCEPT !.read_idx = 0, !.write_idx = 0, !.send_idx = 0]
  ELSE q

Ack(q, ack_seq) ==
  IF NewerAck(q, ack_seq) THEN RewindEmpty(ReleaseTo(q, ack_seq)) ELSE q

\* The queues a crash inside Ack() can leave in the file: between the two
\* stores of the loop, and between the three stores that rewind an empty queue.
TornAcks(q, ack_seq) ==
  LET half == [q EXCEPT !.read_idx = SkipMessages(q, 1)]
      done == ReleaseTo(q, ack_seq)
  IN  IF ~ NewerAck(q, ack_seq) THEN {}
      ELSE {half, done} \cup
           IF done.read_idx # done.write_idx THEN {}
           ELSE {[done EXCEPT !.send_idx = 0],
                 [done EXCEPT !.send_idx = 0, !.write_idx = 0]}

\* Mutant: what was sent on the last connection is not sent again.
LoginAckKeepsSend(q, ack_seq) == Ack(q, ack_seq)

LoginAck(q, ack_seq) ==
  LET acked == Ack(q, ack_seq)
  IN  [acked EXCEPT !.send_idx = acked.read_idx]

MyAckNext(q) == [q EXCEPT !.ack_seq = Add(@, 1)]

-----------------------------------------------------------------------------
(* SanityCheckAndGetSeq() and the check of an ack at login.                *)

\* The walk over the headers: how many messages there are from block i on, or
\* -1 when the check fails (an ack from the future, a walk past write_idx).
SanityWalk(q) ==
  LET walk[i \in 0 .. 2 * BLK_CNT] ==
        IF i >= q.write_idx THEN IF i = q.write_idx THEN 0 ELSE -1
        ELSE IF Before(q.ack_seq, q.blk[i].ack) \/ q.blk[i].len \notin 1 .. BLK_CNT THEN -1
        ELSE LET rest == walk[i + q.blk[i].len]
             IN  IF rest = -1 THEN -1 ELSE rest + 1
  IN  walk[q.read_idx]

SanityCheck(q) == SanityWalk(q) # -1

SeqStart(q) == q.read_seq

SeqEnd(q) == Add(q.read_seq, SanityWalk(q))


\* seq_start <= ack_seq <= seq_end, considering wrap-around.
CheckAckInQueue(ack_seq, seq_start, seq_end) ==
  ~ Before(ack_seq, seq_start) /\ ~ Before(seq_end, ack_seq)

=============================================================================
