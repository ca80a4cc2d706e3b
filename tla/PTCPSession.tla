----------------------------- MODULE PTCPSession -----------------------------
(***************************************************************************)
(* A client and a server that exchange messages over TCP connections and   *)
(* recover from disconnects and crashes: PTCPConnection (ptcp_conn.h) at   *)
(* both ends, the login handshake of TcpShmClient::Connect() and of        *)
(* TcpShmServer::HandleLogin(), and the persistent queues of PTCPQueue.    *)
(*                                                                         *)
(* Persistent: the two queue files and the client's .lastserver file.      *)
(* Lost in a crash: sockets, receive buffers, a message allocated and not  *)
(* pushed.  A TCP connection is a pair of streams of 8-byte blocks; the    *)
(* kernel takes as much as its buffers hold, delivers in order, and drops  *)
(* what is in flight when the connection is reset.                         *)
(*                                                                         *)
(* A receive delivers one block at a time.  A heartbeat is modelled by its *)
(* only effect, its ack_seq, and takes no room in the receive buffer.      *)
(* Time is left out: a timeout or a heartbeat may come at any moment.      *)
(***************************************************************************)
EXTENDS PTCPQueue

CONSTANTS
  Fds,           \* TCP connections that can exist at the same time
  WireCap,       \* blocks that the kernel holds in one direction
  RecvCap,       \* blocks that the receive buffer holds (TcpRecvBufMaxSize)
  MsgLens,       \* lengths of the messages users send, in blocks
  Senders,       \* endpoints whose user sends messages
  MaxPushes,     \* bound on the messages a user pushes; UIntMod: no bound
  MaxFailures,   \* budget of failures
  FailureCost,   \* 1: every failure uses up some of it; 0: it lasts for ever
  TwoThreads,    \* TRUE: the client's user sends in a thread of its own
  StalePoll,     \* TRUE: the server's polling thread may still hold a
                 \* connection that the control thread logs on again
  LateLogin      \* TRUE: the LoginMsg of a client that knew no server may
                 \* come after a later LoginMsg of this client was answered

C == "client"
S == "server"
Ends == {C, S}
Peer(e) == IF e = C THEN S ELSE C

NoFd == 0

ASSUME SessionAssumption ==
  /\ NoFd \notin Fds
  /\ MsgLens \subseteq 1 .. RecvCap
  /\ Senders \subseteq Ends
  /\ WireCap \in Nat \ {0} /\ MaxPushes \in 1 .. UIntMod
  /\ MaxFailures \in Nat /\ FailureCost \in {0, 1}
  /\ {TwoThreads, StalePoll, LateLogin} \subseteq BOOLEAN

\* Mutants: a heartbeat acknowledges nothing, or a message that is not popped yet.
HeartbeatNoAck(ack) == ZeroBlock

\* A heartbeat is a header alone, with msg_type 0.
HeartbeatMsg(ack) == [ZeroBlock EXCEPT !.ack = ack]
IsHeartbeat(b) == b.len = 0

VARIABLES
  file,       \* the queue of each endpoint, in its ptcp file
  last_server,\* the client's .lastserver file: does it name the server?
  sock,       \* sockfd_ is open (up) and fd_to_close_ (fd)
  inbox,      \* complete messages received and not popped, as block sequences
  part,       \* blocks received of an incomplete message
  alloced,    \* Alloc() without Push()
  mapped,     \* the client has mapped its queue file
  connecting, \* the client's fd while it is in Connect()
  login,      \* the server's HandleLogin() between SendLoginRsp() and Open()
  net,        \* the TCP connections
  backlog,    \* LoginMsgs under way to the server or not looked at yet
  pushed,     \* number of messages pushed since the queue was reset
  budget      \* failures to come

files == <<file, last_server>>
bufs == <<inbox, part, alloced>>
logins == <<mapped, connecting, login, backlog>>
vars == <<files, sock, bufs, logins, net, pushed, budget>>

NoLogin == [fd |-> NoFd, ack |-> 0]
NoRsp == [status |-> "none", ack |-> 0]
FreeNet == [out |-> [e \in Ends |-> <<>>], rsp |-> NoRsp, open |-> [e \in Ends |-> FALSE]]

Init ==
  /\ file = [e \in Ends |-> ZeroQueue]
  /\ last_server = FALSE
  /\ sock = [e \in Ends |-> [up |-> FALSE, fd |-> NoFd]]
  /\ inbox = [e \in Ends |-> <<>>]
  /\ part = [e \in Ends |-> <<>>]
  /\ alloced = [e \in Ends |-> FALSE]
  /\ mapped = FALSE
  /\ connecting = NoFd
  /\ login = NoLogin
  /\ net = [k \in Fds |-> FreeNet]
  /\ backlog = {}
  /\ pushed = [e \in Ends |-> 0]
  /\ budget = MaxFailures

Least(a, b) == IF a < b THEN a ELSE b

\* One endpoint closes its socket: what was sent to it is gone.
Closed(n, e) ==
  [n EXCEPT !.open[e] = FALSE,
            !.out[Peer(e)] = <<>>,
            !.rsp = IF e = C THEN NoRsp ELSE @]

Fail == budget > 0 /\ budget' = budget - FailureCost

\* A user's thread is between Alloc() and Push(): the polling functions of the
\* connection do not run, unless they run in another thread.
Sending(e) == alloced[e] /\ ~ (TwoThreads /\ e = C)

\* The connection is in the hands of a polling thread: PollTcp() of the client
\* until it closes the fd, PollTcp() of the server while the connection is live.
Polled(e) ==
  IF e = C THEN connecting = NoFd /\ sock[C].fd # NoFd
  ELSE sock[S].fd # NoFd \/ StalePoll

-----------------------------------------------------------------------------
(* Sending.                                                                *)

\* Blocks written to the socket of e; an end that is closed drops them.
Transmit(n, e, blocks) ==
  IF n.open[Peer(e)] THEN [n EXCEPT !.out[e] = @ \o blocks] ELSE n

\* What SendPending() on queue q and TCP connection n of endpoint e can come to.
\* The kernel takes what fits.  When it stops in the middle of a block (cut),
\* which counts as a failure, the connection is closed and the queue does not
\* learn what was sent.
SendPending(e, q, n) ==
  LET k == Least(Pending(q), WireCap - Len(n.out[e]))
      sent == Transmit(n, e, Sendable(q, k))
  IN  IF Pending(q) = 0 THEN {[q |-> q, n |-> n, up |-> TRUE, cut |-> FALSE]}
      ELSE IF ~ n.open[e] THEN {[q |-> q, n |-> n, up |-> FALSE, cut |-> FALSE]}
      ELSE {[q |-> Sendout(q, k), n |-> sent, up |-> TRUE, cut |-> FALSE]}
           \cup IF k < Pending(q) /\ budget > 0
                THEN {[q |-> q, n |-> sent, up |-> FALSE, cut |-> TRUE]} ELSE {}

CutBudget(r) == budget' = IF r.cut THEN budget - FailureCost ELSE budget

\* The outcome r of sending on the current connection of e.
Sent(e, r) ==
  /\ file' = [file EXCEPT ![e] = r.q]
  /\ net' = IF sock[e].up THEN [net EXCEPT ![sock[e].fd] = r.n] ELSE net
  /\ sock' = [sock EXCEPT ![e].up = @ /\ r.up]
  /\ CutBudget(r)

SendOutcomes(e, q) ==
  IF sock[e].up THEN SendPending(e, q, net[sock[e].fd])
  ELSE {[q |-> q, n |-> FreeNet, up |-> FALSE, cut |-> FALSE]}

\* Alloc() of a message of len blocks, filled in by the user; nullptr when
\* there is no room.  Users send through a connection that is mapped: the
\* server's only while it is live, the client's also while disconnected.
AllocMsg(e, len) ==
  /\ e \in Senders
  /\ IF e = C THEN mapped /\ connecting = NoFd ELSE sock[S].fd # NoFd
  /\ ~ alloced[e] /\ pushed[e] < MaxPushes
  /\ ~ AllocFails(file[e], len)
  /\ file' = [file EXCEPT ![e] = Alloc(file[e], len, pushed[e])]
  /\ alloced' = [alloced EXCEPT ![e] = TRUE]
  /\ UNCHANGED <<last_server, sock, inbox, part, logins, net, pushed, budget>>

\* PushMore(), and Push() which also sends.
PushMsg(e, more) ==
  /\ alloced[e]
  /\ LET q == Push(file[e])
     IN  IF more THEN /\ file' = [file EXCEPT ![e] = q]
                      /\ UNCHANGED <<sock, net, budget>>
         ELSE \E r \in SendOutcomes(e, q) : Sent(e, r)
  /\ pushed' = [pushed EXCEPT ![e] = Add(@, 1)]
  /\ alloced' = [alloced EXCEPT ![e] = FALSE]
  /\ UNCHANGED <<last_server, inbox, part, logins>>

\* SendHB() when the heartbeat is due: pending data goes first, and only when
\* there is none a heartbeat with the current ack.
SendHB(e) ==
  /\ Polled(e) /\ sock[e].up /\ ~ Sending(e)
  /\ LET q == file[e]
         n == net[sock[e].fd]
     IN  IF Pending(q) > 0
         THEN \E r \in SendOutcomes(e, q) : Sent(e, r)
         ELSE IF ~ n.open[e]
         THEN Sent(e, [q |-> q, n |-> n, up |-> FALSE, cut |-> FALSE])
         ELSE /\ Len(n.out[e]) < WireCap
              /\ Sent(e, [q |-> q, up |-> TRUE, cut |-> FALSE,
                          n |-> Transmit(n, e, <<HeartbeatMsg(q.ack_seq)>>)])
  /\ UNCHANGED <<last_server, bufs, logins, pushed>>

-----------------------------------------------------------------------------
(* Receiving.                                                              *)

\* Blocks in the receive buffer.
Buffered(e) ==
  LET sum[i \in 0 .. Len(inbox[e])] ==
        IF i = 0 THEN Len(part[e]) ELSE sum[i - 1] + Len(inbox[e][i])
  IN  sum[Len(inbox[e])]

\* Front() reads one block.  The ack of the message it belongs to is applied,
\* also while the message is incomplete.
Recv(e) ==
  LET k == sock[e].fd
      b == Head(net[k].out[Peer(e)])
      blocks == Append(part[e], b)
  IN  /\ Polled(e) /\ sock[e].up /\ ~ Sending(e)
      /\ net[k].out[Peer(e)] # <<>> /\ Buffered(e) < RecvCap
      /\ net' = [net EXCEPT ![k].out[Peer(e)] = Tail(@)]
      /\ IF IsHeartbeat(b)
         THEN /\ file' = [file EXCEPT ![e] = Ack(@, b.ack)]
              /\ UNCHANGED <<inbox, part>>
         ELSE /\ file' = [file EXCEPT ![e] = Ack(@, blocks[1].ack)]
              /\ IF Len(blocks) < blocks[1].len
                 THEN part' = [part EXCEPT ![e] = blocks] /\ UNCHANGED inbox
                 ELSE /\ part' = [part EXCEPT ![e] = <<>>]
                      /\ inbox' = [inbox EXCEPT ![e] = Append(@, blocks)]
      /\ UNCHANGED <<last_server, sock, alloced, logins, pushed, budget>>

\* The user's callback consumes the message that Front() returned.  Front()
\* also returns what was buffered before the connection was closed.
Pop(e) ==
  /\ Polled(e) /\ ~ Sending(e)
  /\ inbox[e] # <<>>
  /\ inbox' = [inbox EXCEPT ![e] = Tail(@)]
  /\ file' = [file EXCEPT ![e] = MyAckNext(@)]
  /\ UNCHANGED <<last_server, sock, part, alloced, logins, net, pushed, budget>>

-----------------------------------------------------------------------------
(* Closing.                                                                *)

\* DoRecv(), if the receive buffer has room, finds the peer's end closed.
RemoteClose(e) ==
  /\ Polled(e) /\ sock[e].up /\ ~ Sending(e)
  /\ ~ net[sock[e].fd].open[Peer(e)]
  /\ net[sock[e].fd].out[Peer(e)] = <<>> /\ Buffered(e) < RecvCap
  /\ sock' = [sock EXCEPT ![e].up = FALSE]
  /\ UNCHANGED <<files, bufs, logins, net, pushed, budget>>

\* RequestClose(), a timeout or a socket error.
Close(e) ==
  /\ Fail
  /\ sock[e].up
  /\ sock' = [sock EXCEPT ![e].up = FALSE]
  /\ UNCHANGED <<files, bufs, logins, net, pushed>>

\* TryCloseFd() and, at the server, the move out of the live connections.
TryCloseFd(e) ==
  /\ ~ sock[e].up /\ sock[e].fd # NoFd
  /\ ~ Sending(e) \/ (e = S /\ StalePoll)
  /\ net' = [net EXCEPT ![sock[e].fd] = Closed(@, e)]
  /\ sock' = [sock EXCEPT ![e].fd = NoFd]
  /\ UNCHANGED <<files, bufs, logins, pushed, budget>>

\* The network resets a connection.
NetReset(k) ==
  /\ Fail
  /\ net[k].open # [e \in Ends |-> FALSE]
  /\ net' = [net EXCEPT ![k] = FreeNet]
  /\ UNCHANGED <<files, sock, bufs, logins, pushed>>

-----------------------------------------------------------------------------
(* Login.                                                                  *)

InUse == {sock[C].fd, sock[S].fd, connecting, login.fd} \cup {m.fd : m \in backlog}

\* PTCPConnection::Open() on queue q with the peer's ack.
OpenOutcomes(e, k, q, ack) == SendPending(e, LoginAck(q, ack), net[k])

\* Mutant: Open() keeps the receive buffer of the last connection.
OpenedKeepsBuffer(e, k, r) ==
  /\ file' = [file EXCEPT ![e] = r.q]
  /\ sock' = [sock EXCEPT ![e] = [up |-> r.up, fd |-> k]]
  /\ CutBudget(r)
  /\ UNCHANGED <<inbox, part>>

Opened(e, k, r) ==
  /\ file' = [file EXCEPT ![e] = r.q]
  /\ sock' = [sock EXCEPT ![e] = [up |-> r.up, fd |-> k]]
  /\ inbox' = [inbox EXCEPT ![e] = <<>>]
  /\ part' = [part EXCEPT ![e] = <<>>]
  /\ CutBudget(r)

\* Connect() until the LoginMsg is sent: the last connection is closed first.
\* A client that knows no server yet maps no file and sends zeros.
Connect(k) ==
  /\ connecting = NoFd /\ ~ sock[C].up /\ ~ Sending(C)
  /\ k \notin InUse /\ net[k].open = [e \in Ends |-> FALSE]
  /\ last_server => SanityCheck(file[C])
  /\ LET q == IF last_server THEN file[C] ELSE ZeroQueue
     IN  backlog' = backlog \cup {[fd |-> k, known |-> last_server, ack |-> q.ack_seq,
                                   start |-> SeqStart(q), end |-> SeqEnd(q)]}
  /\ mapped' = (mapped \/ last_server)
  /\ connecting' = k
  /\ net' = [i \in Fds |->
               IF i = k THEN [FreeNet EXCEPT !.open = [e \in Ends |-> TRUE]]
               ELSE IF i = sock[C].fd THEN Closed(net[i], C) ELSE net[i]]
  /\ sock' = [sock EXCEPT ![C].fd = NoFd]
  /\ UNCHANGED <<files, bufs, login, pushed, budget>>

\* The rest of Connect(): the LoginRsp.  A client that knew no server records
\* its name, then maps and clears its queue.
RecvLoginRsp ==
  LET k == connecting
      rsp == net[k].rsp
      q == IF last_server THEN file[C] ELSE ZeroQueue
      read == [net EXCEPT ![k].rsp = NoRsp]
  IN  /\ k # NoFd /\ rsp.status # "none"
      /\ connecting' = NoFd
      /\ IF rsp.status # "ok"
         THEN /\ net' = [read EXCEPT ![k] = Closed(@, C)]
              /\ UNCHANGED <<files, sock, inbox, part, mapped, pushed, budget>>
         ELSE /\ last_server' = TRUE
              /\ mapped' = TRUE
              /\ pushed' = IF last_server THEN pushed ELSE [pushed EXCEPT ![C] = 0]
              /\ \E r \in OpenOutcomes(C, k, q, rsp.ack) :
                   /\ Opened(C, k, r)
                   /\ net' = [read EXCEPT ![k].out = r.n.out]
      /\ UNCHANGED <<alloced, login, backlog>>

\* Connect() fails while it waits for the LoginRsp.
ConnectFails ==
  /\ connecting # NoFd
  /\ net[connecting].rsp.status = "none"
  /\ IF net[connecting].open[S] THEN Fail ELSE UNCHANGED budget
  /\ net' = [net EXCEPT ![connecting] = Closed(@, C)]
  /\ connecting' = NoFd
  /\ UNCHANGED <<files, sock, bufs, mapped, login, backlog, pushed>>

\* m is from a client that knew no server and that left this connection, and
\* that was answered on a later one since.
LateFirst(m) ==
  /\ ~ m.known
  /\ \/ last_server
     \/ connecting \notin {NoFd, m.fd} /\ net[connecting].rsp.status = "ok"

\* Bound: within NewConnectionTimeout, the time a LoginMsg has to arrive, the
\* client's user does not pop half of all sequence numbers.
InTime(m) == m.known => ~ Before(file[C].ack_seq, m.ack)

\* HandleLogin() until the LoginRsp is sent.  PollCtl() reads the new connections
\* by slot and comes back to those that have nothing to read yet, so LoginMsgs of
\* different connections are handled in any order.
HandleLogin(m) ==
  LET q == IF m.known THEN file[S] ELSE ZeroQueue
      remote == IF m.known THEN m ELSE [m EXCEPT !.ack = 0, !.start = 0, !.end = 0]
      matches == /\ CheckAckInQueue(remote.ack, SeqStart(q), SeqEnd(q))
                 /\ CheckAckInQueue(q.ack_seq, remote.start, remote.end)
      Reply(status, ack) ==
        LET rsp == IF net[m.fd].open[C] THEN [status |-> status, ack |-> ack] ELSE NoRsp
            n == [net[m.fd] EXCEPT !.rsp = rsp]
        IN  net' = [net EXCEPT ![m.fd] = IF status = "ok" THEN n ELSE Closed(n, S)]
  IN  /\ login = NoLogin
      /\ net[m.fd].open[S]
      /\ InTime(m) /\ (LateLogin \/ ~ LateFirst(m))
      /\ backlog' = backlog \ {m}
      /\ IF sock[S].fd # NoFd
         THEN Reply("rejected", 0) /\ UNCHANGED <<file, login, pushed>>
         ELSE IF ~ SanityCheck(q)
         THEN Reply("corrupt", 0) /\ UNCHANGED <<file, login, pushed>>
         ELSE /\ file' = [file EXCEPT ![S] = q]
              /\ pushed' = IF m.known THEN pushed ELSE [pushed EXCEPT ![S] = 0]
              /\ IF ~ matches
                 THEN Reply("mismatch", q.ack_seq) /\ UNCHANGED login
                 ELSE \/ /\ Reply("ok", q.ack_seq)
                         /\ login' = [fd |-> m.fd, ack |-> remote.ack]
                      \/ /\ ~ net[m.fd].open[C]     \* SendLoginRsp() fails
                         /\ net' = [net EXCEPT ![m.fd] = Closed(@, S)]
                         /\ UNCHANGED login
      /\ UNCHANGED <<last_server, sock, bufs, mapped, connecting, budget>>

\* PollCtl() closes a new connection that is gone, or whose LoginMsg did not come
\* within NewConnectionTimeout: a failure if the client is still there.
DropLogin(m) ==
  /\ IF \A e \in Ends : net[m.fd].open[e] THEN Fail ELSE UNCHANGED budget
  /\ backlog' = backlog \ {m}
  /\ net' = [net EXCEPT ![m.fd] = Closed(@, S)]
  /\ UNCHANGED <<files, sock, bufs, mapped, connecting, login, pushed>>

\* The rest of HandleLogin(): Open() and the switch to live.
OpenLive ==
  /\ login # NoLogin
  /\ \E r \in OpenOutcomes(S, login.fd, file[S], login.ack) :
       /\ Opened(S, login.fd, r)
       /\ net' = [net EXCEPT ![login.fd] = r.n]
  /\ login' = NoLogin
  /\ UNCHANGED <<last_server, alloced, mapped, connecting, backlog, pushed>>

-----------------------------------------------------------------------------
(* Crashes.                                                                *)

\* The process of e dies; the kernel closes its sockets.
Dies(e, q) ==
  /\ Fail
  /\ file' = [file EXCEPT ![e] = q]
  /\ sock' = [sock EXCEPT ![e] = [up |-> FALSE, fd |-> NoFd]]
  /\ inbox' = [inbox EXCEPT ![e] = <<>>]
  /\ part' = [part EXCEPT ![e] = <<>>]
  /\ alloced' = [alloced EXCEPT ![e] = FALSE]
  /\ net' = [k \in Fds |-> IF net[k].open[e] THEN Closed(net[k], e) ELSE net[k]]
  /\ IF e = C THEN /\ mapped' = FALSE /\ connecting' = NoFd
                   /\ UNCHANGED <<login, backlog>>
              ELSE /\ login' = NoLogin /\ backlog' = {}
                   /\ UNCHANGED <<mapped, connecting>>
  /\ UNCHANGED <<last_server, pushed>>

Crash(e) == Dies(e, file[e])

\* A crash in the middle of the Ack() of a received block.
CrashInAck(e) ==
  /\ Polled(e) /\ sock[e].up /\ ~ Sending(e)
  /\ net[sock[e].fd].out[Peer(e)] # <<>>
  /\ LET b == Head(net[sock[e].fd].out[Peer(e)])
     IN  \E q \in TornAcks(file[e], b.ack) : Dies(e, q)

-----------------------------------------------------------------------------
Next ==
  \/ \E e \in Ends, len \in MsgLens : AllocMsg(e, len)
  \/ \E e \in Ends, more \in BOOLEAN : PushMsg(e, more)
  \/ \E e \in Ends : SendHB(e) \/ Recv(e) \/ Pop(e)
  \/ \E e \in Ends : RemoteClose(e) \/ Close(e) \/ TryCloseFd(e)
  \/ \E k \in Fds : NetReset(k) \/ Connect(k)
  \/ RecvLoginRsp \/ ConnectFails
  \/ \E m \in backlog : HandleLogin(m)
  \/ \E m \in backlog : DropLogin(m)
  \/ OpenLive
  \/ \E e \in Ends : Crash(e)

Spec == Init /\ [][Next]_vars

\* The specification in which a process may also die between two stores.
TornSpec == Init /\ [][Next \/ \E e \in Ends : CrashInAck(e)]_vars

\* The polling loops run for ever, a user who has allocated pushes, a callback
\* that is shown messages again and again pops again and again, and a client
\* that is disconnected connects again.  A user who sends without end does not
\* starve the polling functions: it runs out of room.  Connect() gives up by
\* itself only when the server's end is closed.
Fairness ==
  /\ \A e \in Ends :
       /\ WF_vars(SendHB(e)) /\ WF_vars(Recv(e)) /\ SF_vars(Pop(e))
       /\ WF_vars(RemoteClose(e)) /\ WF_vars(TryCloseFd(e))
       /\ WF_vars(\E more \in BOOLEAN : PushMsg(e, more))
  /\ WF_vars(\E k \in Fds : Connect(k))
  /\ WF_vars(RecvLoginRsp)
  /\ WF_vars(connecting # NoFd /\ ~ net[connecting].open[S] /\ ConnectFails)
  /\ WF_vars(\E m \in backlog : HandleLogin(m)) /\ WF_vars(OpenLive)
  /\ WF_vars(\E m \in backlog : ~ net[m.fd].open[C] /\ DropLogin(m))

FairSpec == Spec /\ Fairness

-----------------------------------------------------------------------------
(* Properties.                                                             *)

Blocks == [id : UInt, part : 0 .. BLK_CNT, len : 0 .. BLK_CNT, ack : UInt]

\* The range of every variable; a queue in a file is a queue.
TypeOK ==
  /\ file \in [Ends -> [blk : [0 .. BLK_CNT - 1 -> Blocks],
                        write_idx : 0 .. BLK_CNT, read_idx : 0 .. BLK_CNT,
                        send_idx : 0 .. BLK_CNT, read_seq : UInt, ack_seq : UInt]]
  /\ last_server \in BOOLEAN /\ mapped \in BOOLEAN
  /\ sock \in [Ends -> [up : BOOLEAN, fd : Fds \cup {NoFd}]]
  /\ \A e \in Ends : sock[e].up => sock[e].fd # NoFd
  /\ \A e \in Ends : part[e] \in Seq(Blocks) /\ inbox[e] \in Seq(Seq(Blocks))
  /\ alloced \in [Ends -> BOOLEAN]
  /\ connecting \in Fds \cup {NoFd} /\ login.fd \in Fds \cup {NoFd}
  /\ \A k \in Fds, e \in Ends : Len(net[k].out[e]) <= WireCap
  /\ pushed \in [Ends -> UInt] /\ budget \in 0 .. MaxFailures

\* The invariant stated at the fields of PTCPQueue: read_idx_ <= send_idx_ <=
\* write_idx_, through compaction, acknowledgements, logins and crashes.
IndexOrder ==
  \A e \in Ends : LET q == file[e]
                  IN  q.read_idx <= q.send_idx /\ q.send_idx <= q.write_idx

\* m is message number id, whole.
IsMessage(m, id) ==
  /\ Len(m) = m[1].len
  /\ \A j \in DOMAIN m : m[j].id = id /\ m[j].part = j - 1

\* Exactly once and in order: the messages waiting for the user are numbers
\* MyAck(), MyAck() + 1, ... of the peer's, each of them whole, although the
\* stream was cut anywhere and messages were sent again after a login.
InOrder ==
  \A e \in Ends : \A i \in DOMAIN inbox[e] :
    IsMessage(inbox[e][i], Add(file[e].ack_seq, i - 1))

\* The blocks between read_idx and write_idx are messages number read_seq up to
\* pushed - 1, whole and in order.
QueueIntact(e) ==
  LET q == file[e]
      Ends_(i) == q.blk[i].part + 1 = q.blk[i - q.blk[i].part].len
  IN  /\ q.read_idx = q.write_idx => pushed[e] = q.read_seq
      /\ \A i \in q.read_idx .. q.write_idx - 1 :
           LET b == q.blk[i]
           IN  /\ b.part \in 0 .. i - q.read_idx
               /\ LET h == q.blk[i - b.part]
                  IN  h.part = 0 /\ h.id = b.id /\ b.part < h.len
               /\ i = q.read_idx => b.id = q.read_seq
               /\ IF i + 1 < q.write_idx
                  THEN /\ q.blk[i + 1].part = IF Ends_(i) THEN 0 ELSE b.part + 1
                       /\ q.blk[i + 1].id = IF Ends_(i) THEN Add(b.id, 1) ELSE b.id
                  ELSE Ends_(i) /\ Add(b.id, 1) = pushed[e]

\* The two files agree: what was pushed since the queue was last cleared and not
\* yet popped by the peer is in the sender's file, whole, and the peer's MyAck()
\* is one that this file can go on from, at every moment at which a process may die.
FilesAgree ==
  \A e \in Ends :
    /\ QueueIntact(e)
    /\ CheckAckInQueue(file[Peer(e)].ack_seq, file[e].read_seq, pushed[e])

\* The messages in queue q.
Queued(q) == {q.blk[i].id : i \in q.read_idx .. q.write_idx - 1}

\* A message leaves its sender's file only after the peer's user has popped it.
Kept ==
  \A e \in Ends : \A id \in Queued(file[e]) \ Queued(file'[e]) :
    Before(id, file'[Peer(e)].ack_seq)

\* What the README promises: a message is kept until it is acknowledged.
KeptUntilAcked == [][Kept]_vars

\* The promise as the code keeps it: no message is lost, by an acknowledgement, a
\* login of any connection or a Reset(), once the client has recorded its server.
KeptOnceKnown == [][last_server => Kept]_vars

\* Recovery is automatic: no login is refused because the sequence numbers of
\* the two files do not match or because a file is corrupt, whatever crashed.
LoginsMatch ==
  /\ \A k \in Fds : net[k].rsp.status \notin {"mismatch", "corrupt"}
  /\ \A e \in Ends : SanityCheck(file[e])

\* Ack() and SanityCheckAndGetSeq() compare acknowledgements as signed numbers.
\* Each one that is in a queue or under way, also those that are sent again after
\* a crash, is one that its sender would not take for newer than its MyAck() now.
AcksRecent ==
  \A e \in Ends :
    /\ \A i \in file[e].read_idx .. file[e].write_idx - 1 :
         file[e].blk[i].part = 0 => ~ Before(file[e].ack_seq, file[e].blk[i].ack)
    /\ \A k \in Fds : \A j \in DOMAIN net[k].out[e] :
         IsHeartbeat(net[k].out[e][j]) => ~ Before(file[e].ack_seq, net[k].out[e][j].ack)

\* Once failures stop, a queue that is never emptied is drained by the peer's
\* user: reconnecting, resending and acknowledging make progress.
Delivered ==
  \A e \in Senders :
    <>[](file[e].read_seq # pushed[e]) => []<><<Pop(Peer(e))>>_vars

=============================================================================
