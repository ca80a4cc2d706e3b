------------------------------- MODULE RecvBuf -------------------------------
(***************************************************************************)
(* The receive buffer of PTCPConnection (ptcp_conn.h): Front(), Pop() and  *)
(* DoRecv() on their three indices, with the buffer that is rewound, moved *)
(* and expanded, and with the header that is converted to host byte order  *)
(* once, wherever the stream was cut.  The peer sends messages and         *)
(* heartbeats; what it consumes of ours comes back as the ack_seq of both. *)
(*                                                                         *)
(* Bytes come in units: HDR of them are the 8 bytes of a MsgHeader, so a   *)
(* receive can end inside a header.  A unit knows which message it is part *)
(* of, its place there and whether its header is in host byte order.       *)
(* Bytes that are not between readidx and writeidx are never read; they    *)
(* are overwritten with Junk at every step.                                *)
(***************************************************************************)
EXTENDS UIntArith, Sequences

CONSTANTS
  HDR,         \* units of a MsgHeader
  InitSize,    \* TcpRecvBufInitSize, in units
  MaxSize,     \* TcpRecvBufMaxSize, in units
  StackSize,   \* sizeof(stackbuf), in units
  Sizes,       \* header.size of the messages the peer sends, in units
  PeerCap,     \* units in the peer's send queue (its TcpQueueSize)
  WireCap,     \* units that the kernel holds in flight
  Ids,         \* payloads, enough to tell the peer's messages apart
  SendCap,     \* messages in our send queue
  MaxReplies,  \* bound on the messages we send
  MaxCloses    \* bound on the disconnects not caused by the code itself

ASSUME RecvBufAssumption ==
  /\ HDR \in Nat \ {0} /\ InitSize \in Nat \ {0} /\ MaxSize \in Nat /\ StackSize \in Nat
  /\ MaxSize >= InitSize                               \* static_asserts
  /\ InitSize % HDR = 0 /\ MaxSize % HDR = 0
  /\ Sizes \subseteq Nat /\ \A s \in Sizes : s >= HDR
  /\ Ids \subseteq Nat \ {0}
  /\ {PeerCap, WireCap, SendCap, MaxReplies, MaxCloses} \subseteq Nat
  /\ WireCap >= HDR /\ MaxReplies < HalfRange

\* (size + 7) & -8.
RoundUp(size) == ((size + HDR - 1) \div HDR) * HDR

Least(a, b) == IF a < b THEN a ELSE b
Greatest(a, b) == IF a < b THEN b ELSE a

-----------------------------------------------------------------------------
(* Messages and bytes.                                                     *)

Message == [id : Ids, size : Sizes, ack : UInt]



\* HeartbeatMsg: msg_type 0 and a header alone.
HeartbeatMsg(ack) == [id |-> 0, size |-> HDR, ack |-> ack]
IsHeartbeat(m) == m.id = 0

NoMsg == [id |-> 0, size |-> 0, ack |-> 0]

\* The bytes of message m on the wire, in the byte order of the wire.
Bytes(m) == [i \in 1 .. RoundUp(m.size) |-> [msg |-> m, pos |-> i - 1, host |-> FALSE]]

Junk == [msg |-> NoMsg, pos |-> 0, host |-> FALSE]

\* Endian::Convert(): the bytes are swapped, and swapped back by a second call.
Convert(c) == [c EXCEPT !.host = ~ @]

\* MsgHeader::ConvertByteOrder() on the header at i.
ConvertByteOrder(m, i) ==
  [j \in DOMAIN m |-> IF j \in i .. i + HDR - 1 THEN Convert(m[j]) ELSE m[j]]

VARIABLES
  mem, size, w, n, r, \* recvbuf_, recvbuf_size_, writeidx_, nextmsg_idx_, readidx_
  up,        \* sockfd_ is open
  popped,    \* last_my_ack_ # MyAck(): Pop() since Front() last took its shortcut
  shown,     \* the message handed to the user's callback
  pend,      \* the peer's messages that our user has not popped, oldest first
  sentu,     \* units of pend written to this TCP connection
  wire,      \* units in flight on it
  posted,    \* our messages pushed
  acked,     \* ... of them acknowledged: read_seq_num_ of our queue
  peer_ack,  \* ... and popped by the peer: its MyAck()
  closes     \* disconnects so far

buf == <<mem, size, w, n, r>>
stream == <<pend, sentu, wire>>
ours == <<posted, acked, peer_ack>>
vars == <<buf, up, popped, shown, stream, ours, closes>>

EmptyBuf == [i \in 0 .. MaxSize - 1 |-> Junk]

\* After the first Open(); last_my_ack_ is 0 and MyAck() comes from the file.
Init ==
  /\ mem = EmptyBuf /\ size = InitSize
  /\ w = 0 /\ n = 0 /\ r = 0
  /\ up = TRUE /\ popped \in BOOLEAN /\ shown = NoMsg
  /\ pend = <<>> /\ sentu = 0 /\ wire = <<>>
  /\ posted = 0 /\ acked = 0 /\ peer_ack = 0
  /\ closes = 0

-----------------------------------------------------------------------------
(* The peer.                                                               *)

TotalUnits(s) ==
  LET sum[i \in 0 .. Len(s)] == IF i = 0 THEN 0 ELSE sum[i - 1] + RoundUp(s[i].size)
  IN  sum[Len(s)]

Flat(s) ==
  LET flat[i \in 0 .. Len(s)] == IF i = 0 THEN <<>> ELSE flat[i - 1] \o Bytes(s[i])
  IN  flat[Len(s)]

\* PushMore() at the peer: the message is stamped with the peer's MyAck() and
\* stays in its queue, with this ack, until we have popped it.
PeerPush(s) ==
  /\ TotalUnits(pend) + RoundUp(s) <= PeerCap
  /\ \E id \in Ids :
       LET used == {pend[i].id : i \in DOMAIN pend}
       IN  /\ id \notin used /\ \A j \in Ids \ used : id <= j
           /\ pend' = Append(pend, [id |-> id, size |-> s, ack |-> peer_ack])
  /\ UNCHANGED <<buf, up, popped, shown, sentu, wire, ours, closes>>

\* SendPending() at the peer: the kernel takes the blocks it has room for.
PeerSend ==
  LET fits == ((WireCap - Len(wire)) \div HDR) * HDR
      k == Least(fits, TotalUnits(pend) - sentu)
  IN  /\ up /\ k > 0
      /\ wire' = wire \o SubSeq(Flat(pend), sentu + 1, sentu + k)
      /\ sentu' = sentu + k
      /\ UNCHANGED <<buf, up, popped, shown, pend, ours, closes>>

\* SendHB() at the peer: only when nothing is pending.
PeerHB ==
  /\ up /\ sentu = TotalUnits(pend)
  /\ WireCap - Len(wire) >= HDR
  /\ wire' = wire \o Bytes(HeartbeatMsg(peer_ack))
  /\ UNCHANGED <<buf, up, popped, shown, pend, sentu, ours, closes>>

\* The peer's user pops one of our messages.
PeerPop ==
  /\ up /\ peer_ack # posted
  /\ peer_ack' = Add(peer_ack, 1)
  /\ UNCHANGED <<buf, up, popped, shown, stream, posted, acked, closes>>

-----------------------------------------------------------------------------
(* Front().                                                                *)

Buf == [mem |-> mem, size |-> size, w |-> w, n |-> n, r |-> r]

\* Mutant: the ack of the last header counts, whatever came before.
AckLast(seq, ack) == ack

\* PTCPQueue::Ack() on the sequence numbers of our queue: an ack that is not
\* newer is ignored.
Ack(seq, ack) == IF Before(ack, seq) THEN seq ELSE ack

\* Heartbeats at readidx_ are skipped first.
SkipHeartbeats(b) ==
  [b EXCEPT !.r = CHOOSE i \in b.r .. b.n :
                    /\ i = b.n \/ ~ IsHeartbeat(b.mem[i].msg)
                    /\ \A j \in b.r .. i - 1 : IsHeartbeat(b.mem[j].msg)]

\* The message whose header is at readidx_; NoMsg when the bytes there are not
\* a whole message with a header in host byte order.
MsgAtFront(b) ==
  LET m == b.mem[b.r].msg
      len == RoundUp(m.size)
  IN  IF /\ len > 0 /\ b.r + len <= b.n
         /\ \A j \in 0 .. len - 1 :
              b.mem[b.r + j] = [msg |-> m, pos |-> j, host |-> j < HDR]
      THEN m ELSE NoMsg

\* DoRecv() before the receive: an empty buffer is rewound.
Rewound(b) == IF b.r > 0 /\ b.r = b.w THEN [b EXCEPT !.w = 0, !.n = 0, !.r = 0] ELSE b

Writable(b) == b.size - b.w

\* Mutant: a full buffer with consumed bytes in front is not moved.
ExtraSizeNoMove(b) == IF b.r > 0 THEN 0 ELSE Least(StackSize, MaxSize - b.size)

\* What may be read beyond the end of the buffer, into stackbuf.
ExtraSize(b) ==
  LET allow_expand == (Writable(b) + b.r) * 2 < b.size
  IN  Least(StackSize, b.r + IF allow_expand THEN MaxSize - b.size ELSE 0)

\* mem with the bytes s at position i and up.
Put(m, i, s) == [j \in DOMAIN m |-> IF j \in i .. i + Len(s) - 1 THEN s[j - i + 1] ELSE m[j]]

\* Mutant: the bytes of stackbuf are put behind the old end.
MovedKeepsEnd(b, stackbuf) ==
  LET moved == [j \in DOMAIN b.mem |-> IF j < b.size - b.r THEN b.mem[j + b.r] ELSE Junk]
  IN  Put(moved, b.w - b.r, stackbuf)

\* The unread bytes at the front of the buffer, then the bytes of stackbuf.
Moved(b, stackbuf) ==
  LET moved == [j \in DOMAIN b.mem |-> IF j < b.size - b.r THEN b.mem[j + b.r] ELSE Junk]
  IN  Put(moved, b.size - b.r, stackbuf)

\* Mutant: the size of the expanded buffer is not limited.
NewBufSizeUnlimited(b, ret) == Greatest(b.size * 2, RoundUp(b.w - b.r + ret))

\* newbufsize.
NewBufSize(b, ret) == Least(MaxSize, Greatest(b.size * 2, RoundUp(b.w - b.r + ret)))

\* DoRecv() after a receive of the bytes s: in place, with a memmove, or with a
\* larger buffer.  The caller adds Len(s) to writeidx_.
DoRecv(b, s) ==
  LET ret == Len(s)
      here == Least(ret, Writable(b))
      read == [b EXCEPT !.mem = Put(@, b.w, SubSeq(s, 1, here))]
      expand == ret > Writable(b) + b.r
  IN  IF ret <= Writable(b) THEN read
      ELSE [mem |-> Moved(read, SubSeq(s, here + 1, ret)),
            size |-> IF expand THEN NewBufSize(b, ret) ELSE b.size,
            w |-> b.w - b.r, n |-> b.n - b.r, r |-> 0]

\* Mutant: the header of a message that comes in pieces is converted each time.
HeaderAgain(b, old) == ConvertByteOrder(b.mem, b.n)

\* The header at nextmsg_idx_ is converted unless an earlier receive had all of it.
HeaderConverted(b, old) == IF old - b.n < HDR THEN ConvertByteOrder(b.mem, b.n) ELSE b.mem

\* One iteration of the loop over the headers received.  old is old_writeidx.
ScanStep(s, old) ==
  LET unread == s.b.w - s.b.n
      m0 == HeaderConverted(s.b, old)
      head == m0[s.b.n].msg
      msg_size == RoundUp(head.size)
      skip == IsHeartbeat(head) /\ s.b.r = s.b.n
      acked1 == Ack(s.acked, head.ack)
      b1 == [s.b EXCEPT !.mem = m0]
      b2 == [mem |-> m0, size |-> s.b.size, w |-> s.b.w, n |-> s.b.n + msg_size,
             r |-> IF skip THEN s.b.r + msg_size ELSE s.b.r]
  IN  IF ~ s.go \/ unread < HDR THEN [s EXCEPT !.go = FALSE]
      ELSE IF msg_size > MaxSize THEN [b |-> b1, acked |-> acked1, up |-> FALSE, go |-> FALSE]
      ELSE IF unread < msg_size THEN [b |-> b1, acked |-> acked1, up |-> s.up, go |-> FALSE]
      ELSE [b |-> b2, acked |-> acked1, up |-> s.up, go |-> TRUE]

\* The whole loop; it ends after at most one iteration for each header.
Scan(b, old) ==
  LET s[i \in 0 .. MaxSize \div HDR + 1] ==
        IF i = 0 THEN [b |-> b, acked |-> acked, up |-> up, go |-> TRUE]
        ELSE CHOOSE t \in {ScanStep(u, old) : u \in {s[i - 1]}} : TRUE
  IN  s[MaxSize \div HDR + 1]

\* The buffer becomes b, without the bytes that nobody will read.
SetBuf(b) ==
  /\ mem' = [i \in DOMAIN b.mem |-> IF i \in b.r .. b.w - 1 THEN b.mem[i] ELSE Junk]
  /\ size' = b.size /\ w' = b.w /\ n' = b.n /\ r' = b.r

\* Front() returns a buffered message at once if the last one was popped.
FrontBuffered ==
  LET b == SkipHeartbeats(Buf)
  IN  /\ shown = NoMsg
      /\ b.r # b.n /\ popped
      /\ popped' = FALSE
      /\ SetBuf(b)
      /\ shown' = MsgAtFront(b)
      /\ UNCHANGED <<up, stream, ours, closes>>

\* What Front() makes of the next k units: the buffer, the acks and the socket.
Received(b, k) ==
  LET got == DoRecv(b, SubSeq(wire, 1, k))
  IN  IF k = 0 THEN [b |-> b, acked |-> acked, up |-> up, go |-> FALSE]
      ELSE Scan([got EXCEPT !.w = @ + k], got.w)

\* Otherwise it receives k units, if the socket has any and there is room, looks
\* at the headers received and returns the message at readidx_, if it is complete.
FrontRecv(k) ==
  /\ shown = NoMsg
  /\ \E b0 \in {SkipHeartbeats(Buf)} :
       /\ b0.r = b0.n \/ ~ popped
       /\ LET b == Rewound(b0)
              room == Writable(b) + ExtraSize(b)
          IN  /\ k \in IF up /\ room > 0 /\ wire # <<>> THEN 1 .. Least(Len(wire), room) ELSE {0}
              /\ \E done \in {Received(b, k)} :
                   /\ SetBuf(done.b)
                   /\ acked' = done.acked
                   /\ up' = done.up
                   /\ shown' = IF done.b.r # done.b.n /\ done.up = up THEN MsgAtFront(done.b) ELSE NoMsg
  /\ wire' = SubSeq(wire, k + 1, Len(wire))
  /\ UNCHANGED <<popped, pend, sentu, posted, peer_ack, closes>>

-----------------------------------------------------------------------------
(* The callback, and the life of the connection.                           *)

SendFull == Sub(posted, acked) >= SendCap

\* PTCPConnection::Pop() on the buffer, of message m.
Popped(b, m) == [b EXCEPT !.r = @ + RoundUp(m.size)]

\* The callback pops the message, then answers it if there is room.
Pop ==
  /\ shown # NoMsg
  /\ SetBuf(Popped(Buf, shown))
  /\ popped' = TRUE
  /\ shown' = NoMsg
  /\ pend' = Tail(pend)
  /\ sentu' = sentu - RoundUp(Head(pend).size)
  /\ posted' = IF SendFull \/ posted >= MaxReplies THEN posted ELSE Add(posted, 1)
  /\ UNCHANGED <<up, wire, acked, peer_ack, closes>>

\* The callback returns without Pop() and will be shown the message again.
Leave ==
  /\ shown # NoMsg
  /\ shown' = NoMsg
  /\ UNCHANGED <<buf, up, popped, stream, ours, closes>>

\* A socket error, a timeout, the peer's close or RequestClose().
Close ==
  /\ up /\ closes < MaxCloses
  /\ up' = FALSE
  /\ closes' = closes + 1
  /\ UNCHANGED <<buf, popped, shown, stream, ours>>

\* Mutant: Open() does not reset nextmsg_idx_ and readidx_.
OpenKeepsIndices ==
  /\ ~ up /\ shown = NoMsg
  /\ up' = TRUE
  /\ SetBuf([Buf EXCEPT !.w = r])
  /\ sentu' = 0 /\ wire' = <<>>
  /\ acked' = Ack(acked, peer_ack)
  /\ UNCHANGED <<popped, shown, pend, posted, peer_ack, closes>>

\* The next login and Open(): the indices start again, the buffer keeps its
\* size; the peer sends again what we have not popped.
Open ==
  /\ ~ up /\ shown = NoMsg
  /\ up' = TRUE
  /\ SetBuf([Buf EXCEPT !.w = 0, !.n = 0, !.r = 0])
  /\ sentu' = 0 /\ wire' = <<>>
  /\ acked' = Ack(acked, peer_ack)
  /\ UNCHANGED <<popped, shown, pend, posted, peer_ack, closes>>

-----------------------------------------------------------------------------
Front == FrontBuffered \/ \E k \in 0 .. WireCap : FrontRecv(k)

Next ==
  \/ \E s \in Sizes : PeerPush(s)
  \/ PeerSend \/ PeerHB \/ PeerPop
  \/ FrontBuffered \/ \E k \in 0 .. WireCap : FrontRecv(k)
  \/ Pop \/ Leave
  \/ Close \/ Open

Spec == Init /\ [][Next]_vars

\* Both polling loops run for ever, a callback that is shown messages again and
\* again pops again and again when it may, and a lost connection is restored.
Fairness ==
  /\ WF_vars(PeerSend) /\ WF_vars(PeerHB) /\ WF_vars(PeerPop)
  /\ WF_vars(Front) /\ SF_vars(Pop) /\ WF_vars(Pop \/ Leave) /\ WF_vars(Open)

FairSpec == Spec /\ Fairness

-----------------------------------------------------------------------------
(* Properties.                                                             *)

\* The range of every variable; the order of the indices within the buffer.
TypeOK ==
  /\ 0 <= r /\ r <= n /\ n <= w /\ w <= size
  /\ size \in InitSize .. MaxSize /\ size % HDR = 0
  /\ {up, popped} \subseteq BOOLEAN
  /\ shown \in Message \cup {NoMsg} /\ pend \in Seq(Message)
  /\ sentu \in 0 .. TotalUnits(pend) /\ Len(wire) <= WireCap
  /\ {posted, acked, peer_ack} \subseteq UInt
  /\ closes \in 0 .. MaxCloses

Unread == [i \in 1 .. w - r |-> mem[r + i - 1]]

\* The bytes of messages, as they were on the wire.
OnWire(s) ==
  LET data[i \in 0 .. Len(s)] ==
        IF i = 0 THEN <<>>
        ELSE IF IsHeartbeat(s[i].msg) THEN data[i - 1]
        ELSE Append(data[i - 1], [s[i] EXCEPT !.host = FALSE])
  IN  data[Len(s)]

\* No byte is lost, doubled or displaced by a rewind, a memmove, an expansion or
\* a reconnect: what is unread and what is in flight is exactly what the peer
\* has sent of the messages that were not popped.
Intact == OnWire(Unread \o wire) = SubSeq(Flat(pend), 1, sentu)

\* Each header is converted exactly once, as soon as all of it is there and
\* however many receives it and its message took; nothing else is converted.
HostOrder ==
  /\ n < w => mem[n].pos = 0
  /\ \A i \in r .. w - 1 :
       LET start == i - mem[i].pos
       IN  mem[i].host <=> mem[i].pos < HDR /\ start + HDR <= w /\ start <= n

\* The user is shown the peer's messages whole, once and in order.
Fifo == INSTANCE VarFifo WITH Msg <- Message, queue <- pend
ImplementsFifo == Fifo!Spec

\* No message is too large for the buffer; the connection is closed by one that is.
AllFit == \A i \in DOMAIN pend : RoundUp(pend[i].size) <= MaxSize

\* Messages that fit in the buffer do not get stuck in it, in the kernel or in
\* the peer's queue: Front() goes on reading and shows them.
Delivered == <>[](pend # <<>> /\ AllFit) => []<><<Pop>>_vars

\* What Front() acknowledges on the way, in complete and incomplete messages and
\* heartbeats, releases messages of ours that the peer's user has popped and no
\* others, and never moves back: messages that the peer sends again after a
\* reconnect still carry the ack_seq they were first pushed with.
ReleasesForward ==
  [][acked' # acked => Before(acked, acked') /\ ~ Before(peer_ack, acked')]_vars

=============================================================================
