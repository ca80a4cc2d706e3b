-------------------------- MODULE PTCPSessionProofs --------------------------
(***************************************************************************)
(* Proofs about a session over TCP, for every size of the queues, of the   *)
(* receive buffers and of the kernel's, every set of connections and any   *)
(* number of failures.  One thread uses a connection at a time: a user     *)
(* sends where it polls, as the documents require (TwoThreads = FALSE),    *)
(* and no polling thread is still in a connection that is logged on again  *)
(* (StalePoll = FALSE), as in a server that polls from one loop.  The      *)
(* LoginMsgs of the client's connections are handled in any order, but the *)
(* first one, of a client that knew no server, does not come after a later *)
(* one was answered (LateLogin = FALSE): the server would clear a queue in *)
(* use, and what is proved here would not hold.                            *)
(***************************************************************************)
EXTENDS PTCPStreamProofs

-----------------------------------------------------------------------------
(* The inductive invariant.                                                *)

Statuses == {"none", "ok", "rejected", "corrupt", "mismatch"}

Conns ==
  [out : [Ends -> Seq(Blocks)], rsp : [status : Statuses, ack : UInt], open : [Ends -> BOOLEAN]]

LoginMsgs == [fd : Fds, known : BOOLEAN, ack : UInt, start : UInt, end : UInt]

\* The ranges that TypeOK leaves out.
MoreTypes ==
  /\ net \in [Fds -> Conns] /\ backlog \subseteq LoginMsgs
  /\ login \in [fd : Fds \cup {NoFd}, ack : UInt]
  /\ part \in [Ends -> Seq(Blocks)] /\ inbox \in [Ends -> Seq(Seq(Blocks))]

\* The connection that e reads, or will read when its login is complete.
Source(e) == IF sock[e].fd # NoFd THEN sock[e].fd ELSE IF e = C THEN connecting ELSE login.fd

\* What e has received on it: whole messages, and blocks of the next one.
Received(e) == IF sock[e].fd = NoFd THEN 0 ELSE Len(inbox[e])
Partial(e) == IF sock[e].fd = NoFd THEN <<>> ELSE part[e]

Flow(e) ==
  LET p == Peer(e)
      k == Source(p)
  IN  k # NoFd =>
        FlowOK(file[e], pushed[e], file[p].ack_seq, Received(p), Partial(p), net[k].out[e], sock[e].up /\ sock[e].fd = k, net[k].open[e])

\* Something that the peer sent may still reach e.
Heard(e) ==
  sock[e].up /\ (net[sock[e].fd].open[Peer(e)] \/ net[sock[e].fd].out[Peer(e)] # <<>>)

Acked(e) == AckedOK(file[e], pushed[e], file[Peer(e)].ack_seq, Heard(e))

QueuesInv ==
  \A e \in Ends :
    /\ QueueInv(file[e], pushed[e]) /\ SendInv(file[e])
    /\ alloced[e] => AllocInv(file[e], pushed[e])

\* What is in use in each phase of a connection.  A login is on with what the client
\* has consumed, or with less if the client has left the connection.
PhaseInv ==
  /\ ~ last_server => file[C] = ZeroQueue /\ pushed[C] = 0 /\ ~ mapped /\ sock[C].fd = NoFd
  /\ alloced[C] => mapped /\ connecting = NoFd
  /\ alloced[S] => sock[S].fd # NoFd
  /\ connecting # NoFd => sock[C].fd = NoFd
  /\ sock[S].fd # NoFd => login = NoLogin
  /\ login # NoLogin =>
       /\ login.fd # NoFd /\ Off(file[S], login.ack) <= Off(file[S], file[C].ack_seq)
       /\ \/ login.fd = Source(C) \/ net[login.fd].open[C] \/ net[login.fd].out[C] # <<>>
          => login.ack = file[C].ack_seq

\* The server is on the client's connection, on none, or on one that the client has
\* left and from which nothing comes: that of a LoginMsg that came late.
Barren ==
  /\ ~ net[Source(S)].open[C] /\ net[Source(S)].out[C] = <<>>
  /\ Received(S) = 0 /\ Partial(S) = <<>>

Settled == Source(S) \in {NoFd, Source(C)} \/ Barren

\* A client that is connected has no other peer; an end that has not opened a
\* connection has sent nothing on it.
PairInv ==
  /\ sock[C].fd # NoFd => Settled
  /\ \A e \in Ends : Source(e) # NoFd /\ net[Source(e)].open[Peer(e)] => net[Source(e)].open[e]
  /\ Source(C) = Source(S) /\ Source(S) # NoFd =>
       \A e \in Ends : sock[e].fd = NoFd =>
         /\ net[Source(S)].out[e] = <<>>
         /\ Received(Peer(e)) = 0 /\ Partial(Peer(e)) = <<>>

\* A LoginRsp is for the client's Connect(); without one that says ok, the server
\* sends nothing on its connection.
RspInv ==
  /\ \A k \in Fds : net[k].rsp.status # "none" =>
       /\ net[k].open[C] /\ k = connecting /\ \A m \in backlog : m.fd # k
       /\ net[k].rsp.status \notin {"mismatch", "corrupt"}
  /\ connecting # NoFd =>
       IF net[connecting].rsp.status = "ok"
       THEN net[connecting].rsp.ack = file[S].ack_seq /\ Settled
       ELSE /\ net[connecting].out[S] = <<>>
            /\ Source(S) = connecting => ~ net[connecting].open[S]

\* The LoginMsg of the client's Connect() says what is in the client's file.  Nothing
\* was sent on a connection whose LoginMsg was not handled yet.
BacklogInv ==
  /\ \A m, n \in backlog : m.fd = n.fd => m = n
  /\ \A m \in backlog :
       /\ m.fd = connecting =>
            /\ m.known = last_server /\ m.ack = file[C].ack_seq
            /\ m.start = file[C].read_seq /\ m.end = pushed[C]
       /\ m.known => last_server
       /\ \A e \in Ends : net[m.fd].out[e] = <<>>
       /\ m.fd # Source(S) /\ m.fd # sock[C].fd
       /\ net[m.fd].open[C] => m.fd = connecting

IInv ==
  /\ TypeOK /\ MoreTypes /\ QueuesInv /\ InOrder
  /\ PhaseInv /\ PairInv /\ RspInv /\ BacklogInv
  /\ \A e \in Ends : Acked(e) /\ Flow(e)

-----------------------------------------------------------------------------
(* Connections and the state.                                              *)

\* The parts of a connection.
LEMMA ConnFields ==
  ASSUME NEW n \in Conns, NEW e \in Ends
  PROVE  /\ n.out[e] \in Seq(Blocks) /\ n.open[e] \in BOOLEAN
         /\ n.out \in [Ends -> Seq(Blocks)] /\ n.open \in [Ends -> BOOLEAN]
         /\ n.rsp \in [status : Statuses, ack : UInt]
         /\ n.rsp.status \in Statuses /\ n.rsp.ack \in UInt
         /\ Len(n.out[e]) \in Nat
BY DEF Conns

\* What is left of a connection that one end closes.
LEMMA ClosedIs ==
  ASSUME NEW n \in Conns, NEW e \in Ends
  PROVE  LET c == Closed(n, e)
         IN  /\ c \in Conns
             /\ c.open[e] = FALSE /\ c.open[Peer(e)] = n.open[Peer(e)]
             /\ c.out[Peer(e)] = <<>> /\ c.out[e] = n.out[e]
             /\ c.rsp = IF e = C THEN NoRsp ELSE n.rsp
<1> DEFINE p == Peer(e)
           rsp == IF e = C THEN NoRsp ELSE n.rsp
<1>1. p \in Ends /\ p # e
  BY EndsAre
<1>2. rsp \in [status : Statuses, ack : UInt]
  BY Widths, ConnFields DEF NoRsp, Statuses
<1>3. Closed(n, e) = [n EXCEPT !.open[e] = FALSE, !.out[p] = <<>>, !.rsp = rsp]
  BY DEF Closed
<1> HIDE DEF p, rsp
<1> DEFINE out == [n.out EXCEPT ![p] = <<>>]
           open == [n.open EXCEPT ![e] = FALSE]
<1>4. <<>> \in Seq(Blocks)
  OBVIOUS
<1>5. out \in [Ends -> Seq(Blocks)] /\ out[p] = <<>> /\ out[e] = n.out[e]
  <2> HIDE DEF Ends
  <2> QED BY <1>1, <1>4, ConnFields
<1>6. open \in [Ends -> BOOLEAN] /\ open[e] = FALSE /\ open[p] = n.open[p]
  BY <1>1, ConnFields
<1>7. Closed(n, e) = [out |-> out, rsp |-> rsp, open |-> open]
  BY <1>3 DEF Conns
<1> HIDE DEF out, open
<1>8. Closed(n, e) \in Conns
  BY <1>2, <1>5, <1>6, <1>7 DEF Conns
<1> QED BY <1>5, <1>6, <1>7, <1>8 DEF p, rsp

\* The state of the connections when one of them changes.
LEMMA NetChanged ==
  ASSUME NEW f \in [Fds -> Conns], NEW k \in Fds, NEW n \in Conns
  PROVE  LET g == [f EXCEPT ![k] = n]
         IN  g \in [Fds -> Conns] /\ g[k] = n /\ \A j \in Fds \ {k} : g[j] = f[j]
OBVIOUS

\* A free connection.
LEMMA FreeNetIs ==
  /\ FreeNet \in Conns /\ FreeNet.rsp = NoRsp /\ NoRsp \in [status : Statuses, ack : UInt]
  /\ NoRsp.status = "none" /\ NoRsp.ack = 0
  /\ \A e \in Ends : FreeNet.out[e] = <<>> /\ FreeNet.open[e] = FALSE
BY Widths DEF FreeNet, NoRsp, Conns, Statuses

\* What TypeOK and MoreTypes say of one end.
LEMMA EndTypes ==
  ASSUME TypeOK, MoreTypes, NEW e \in Ends
  PROVE  /\ file[e] \in Queues /\ pushed[e] \in UInt /\ file[e].ack_seq \in UInt
         /\ sock[e] \in [up : BOOLEAN, fd : Fds \cup {NoFd}]
         /\ sock[e].up \in BOOLEAN /\ sock[e].fd \in Fds \cup {NoFd} /\ (sock[e].up => sock[e].fd # NoFd)
         /\ part[e] \in Seq(Blocks) /\ inbox[e] \in Seq(Seq(Blocks)) /\ Len(inbox[e]) \in Nat
         /\ Received(e) \in Nat /\ Partial(e) \in Seq(Blocks)
         /\ Source(e) \in Fds \cup {NoFd}
         /\ \A k \in Fds : net[k] \in Conns
<1>1. Queues = [blk : [0 .. BLK_CNT - 1 -> Blocks],
                write_idx : 0 .. BLK_CNT, read_idx : 0 .. BLK_CNT,
                send_idx : 0 .. BLK_CNT, read_seq : UInt, ack_seq : UInt]
  BY DEF Queues, Blocks, QBlocks
<1>2. file \in [Ends -> Queues]
  BY <1>1 DEF TypeOK
<1>3. file[e] \in Queues /\ pushed[e] \in UInt
  BY <1>2 DEF TypeOK
<1>4. /\ sock[e] \in [up : BOOLEAN, fd : Fds \cup {NoFd}]
      /\ (sock[e].up => sock[e].fd # NoFd)
  BY DEF TypeOK
<1>5. sock[e].up \in BOOLEAN /\ sock[e].fd \in Fds \cup {NoFd}
  BY <1>4
<1>6. part[e] \in Seq(Blocks) /\ inbox[e] \in Seq(Seq(Blocks))
  BY DEF MoreTypes
<1>7. Len(inbox[e]) \in Nat /\ Received(e) \in Nat /\ Partial(e) \in Seq(Blocks)
  BY <1>6 DEF Received, Partial
<1>8. Source(e) \in Fds \cup {NoFd}
  BY <1>5 DEF Source, MoreTypes, TypeOK
<1>9. \A k \in Fds : net[k] \in Conns
  BY DEF MoreTypes
<1> QED BY <1>3, <1>4, <1>5, <1>6, <1>7, <1>8, <1>9, QueueFields

\* The files have the types that TypeOK asks for when they are queues.
LEMMA FileTypes ==
  ASSUME NEW f \in [Ends -> Queues]
  PROVE  f \in [Ends -> [blk : [0 .. BLK_CNT - 1 -> Blocks],
                         write_idx : 0 .. BLK_CNT, read_idx : 0 .. BLK_CNT,
                         send_idx : 0 .. BLK_CNT, read_seq : UInt, ack_seq : UInt]]
BY DEF Queues, Blocks, QBlocks

-----------------------------------------------------------------------------
(* Steps that leave the queues as they are.                                *)

\* The queue of e has the same blocks as before.
SameQueue(e) ==
  /\ file'[e].blk = file[e].blk /\ file'[e].write_idx = file[e].write_idx
  /\ file'[e].read_idx = file[e].read_idx /\ file'[e].read_seq = file[e].read_seq
  /\ pushed'[e] = pushed[e]

\* The stream from e goes on as before, or its connection is reset and the blocks
\* in flight are lost.
LEMMA FlowKept ==
  ASSUME TypeOK, MoreTypes, QueuesInv, NEW e \in Ends, Flow(e), SameQueue(e),
         file'[Peer(e)].ack_seq = file[Peer(e)].ack_seq,
         sock'[e].up => sock[e].up /\ sock'[e].fd = sock[e].fd /\ file'[e].send_idx = file[e].send_idx,
         Source(Peer(e))' # NoFd =>
           /\ Source(Peer(e))' = Source(Peer(e))
           /\ Received(Peer(e))' = Received(Peer(e)) /\ Partial(Peer(e))' = Partial(Peer(e))
           /\ \/ net'[Source(Peer(e))].out[e] = net[Source(Peer(e))].out[e]
              \/ net'[Source(Peer(e))].out[e] = <<>> /\ ~ net'[Source(Peer(e))].open[e]
           /\ net'[Source(Peer(e))].open[e] => net[Source(Peer(e))].open[e]
  PROVE  Flow(e)'
<1> DEFINE p == Peer(e)
           k == Source(p)
           q == file[e]
           q2 == file'[e]
           r == pushed[e]
           have == file[p].ack_seq
           cnt == Received(p)
           prt == Partial(p)
           wire == net[k].out[e]
           live == sock[e].up /\ sock[e].fd = k
           live2 == sock'[e].up /\ sock'[e].fd = k
           open == net[k].open[e]
           open2 == net'[k].open[e]
<1> SUFFICES ASSUME Source(p)' # NoFd
             PROVE  FlowOK(q2, pushed'[e], file'[p].ack_seq, Received(p)', Partial(p)',
                           net'[Source(p)'].out[e], sock'[e].up /\ sock'[e].fd = Source(p)',
                           net'[Source(p)'].open[e])
  BY DEF Flow
<1>1. /\ Source(p)' = k /\ k # NoFd /\ Received(p)' = cnt /\ Partial(p)' = prt
      /\ net'[k].out[e] = wire \/ (net'[k].out[e] = <<>> /\ ~ open2)
      /\ open2 => open
  OBVIOUS
<1>2. p \in Ends
  BY EndsAre
<1>3. q \in Queues /\ r \in UInt /\ QueueInv(q, r)
  BY EndTypes DEF QueuesInv
<1>4. have \in UInt /\ cnt \in Nat /\ prt \in Seq(Blocks) /\ k \in Fds
  BY <1>1, <1>2, EndTypes
<1>5. wire \in Seq(Blocks)
  BY <1>4, EndTypes, ConnFields
<1>6. FlowOK(q, r, have, cnt, prt, wire, live, open)
  BY <1>1 DEF Flow
<1>7. live2 => live /\ q2.send_idx = q.send_idx
  OBVIOUS
<1>8. /\ q2.blk = q.blk /\ q2.write_idx = q.write_idx /\ q2.read_idx = q.read_idx
      /\ q2.read_seq = q.read_seq /\ pushed'[e] = r /\ file'[p].ack_seq = have
  BY DEF SameQueue
<1> HIDE DEF k, q, q2, r, have, cnt, prt, wire, live, live2, open, open2
<1>9. FlowOK(q2, r, have, cnt, prt, wire, live2, open2)
  BY <1>1, <1>6, <1>7, <1>8, FlowSame
<1>10. CASE net'[k].out[e] = wire
  BY <1>1, <1>8, <1>9, <1>10 DEF live2, open2
<1>11. CASE net'[k].out[e] = <<>> /\ ~ open2
  <2>1. FlowOK(q, r, have, cnt, prt, <<>>, live, open2)
    BY <1>3, <1>4, <1>5, <1>6, <1>11, FlowCut
  <2>2. FlowOK(q2, r, have, cnt, prt, <<>>, live2, open2)
    BY <2>1, <1>7, <1>8, FlowSame
  <2> QED BY <2>2, <1>1, <1>8, <1>11 DEF live2, open2
<1> QED BY <1>1, <1>10, <1>11

\* A queue whose blocks stay as they are and that sends on keeps what the peer has.
LEMMA AckedKept ==
  ASSUME TypeOK, MoreTypes, NEW e \in Ends, Acked(e), SameQueue(e), file'[e] \in Queues,
         file'[Peer(e)].ack_seq = file[Peer(e)].ack_seq,
         Heard(e)' => Heard(e) /\ file'[e].send_idx >= file[e].send_idx
  PROVE  Acked(e)'
<1> DEFINE q == file[e]
           q2 == file'[e]
           have == file[Peer(e)].ack_seq
           up == Heard(e)
           up2 == Heard(e)'
<1>1. AckedOK(q, pushed[e], have, up)
  BY DEF Acked
<1>2. q.send_idx \in Int /\ q2.send_idx \in Int
  BY EndTypes, QueueFields
<1>3. /\ q2.blk = q.blk /\ q2.write_idx = q.write_idx /\ q2.read_idx = q.read_idx
      /\ q2.read_seq = q.read_seq /\ pushed'[e] = pushed[e] /\ file'[Peer(e)].ack_seq = have
      /\ up2 => up /\ q2.send_idx >= q.send_idx
  BY DEF SameQueue
<1> HIDE DEF q, q2, have, up, up2
<1>4. AckedOK(q2, pushed[e], have, up2)
  BY <1>1, <1>2, <1>3, AckedSame
<1> QED BY <1>3, <1>4 DEF Acked, q2, up2

\* The part of the invariant that is about messages.
DataInv == QueuesInv /\ InOrder /\ \A e \in Ends : Acked(e) /\ Flow(e)

\* A step that changes no file, in which a socket may be closed, connections may
\* be reset and buffers cleared.
LEMMA QuietStep ==
  ASSUME TypeOK, MoreTypes, DataInv, UNCHANGED <<file, pushed>>,
         \A e \in Ends :
           /\ alloced'[e] => alloced[e]
           /\ inbox'[e] \in {inbox[e], <<>>}
           /\ sock'[e].up => sock[e].up /\ sock'[e].fd = sock[e].fd
           /\ Heard(e)' => Heard(e)
           /\ Source(e)' # NoFd =>
                /\ Source(e)' = Source(e)
                /\ Received(e)' = Received(e) /\ Partial(e)' = Partial(e)
                /\ \/ net'[Source(e)].out[Peer(e)] = net[Source(e)].out[Peer(e)]
                   \/ net'[Source(e)].out[Peer(e)] = <<>> /\ ~ net'[Source(e)].open[Peer(e)]
                /\ net'[Source(e)].open[Peer(e)] => net[Source(e)].open[Peer(e)]
  PROVE  DataInv'
<1>1. QueuesInv'
  BY DEF QueuesInv, DataInv
<1>2. InOrder'
  <2> SUFFICES ASSUME NEW e \in Ends, NEW i \in DOMAIN inbox'[e]
               PROVE  IsMessage(inbox'[e][i], Add(file[e].ack_seq, i - 1))
    BY DEF InOrder
  <2>1. inbox'[e] = inbox[e]
    OBVIOUS
  <2> QED BY <2>1 DEF InOrder, DataInv
<1>3. ASSUME NEW e \in Ends
      PROVE  Acked(e)' /\ Flow(e)'
  <2>1. Peer(e) \in Ends /\ Peer(Peer(e)) = e
    BY EndsAre
  <2>2. SameQueue(e) /\ file'[Peer(e)].ack_seq = file[Peer(e)].ack_seq
    BY DEF SameQueue
  <2>3. file'[e] \in Queues /\ file[e].send_idx \in Int /\ file'[e].send_idx = file[e].send_idx
    BY EndTypes, QueueFields
  <2>4. Acked(e)'
    BY <2>2, <2>3, AckedKept DEF DataInv
  <2>5. Flow(e)'
    BY <2>1, <2>2, <2>3, FlowKept DEF DataInv
  <2> QED BY <2>4, <2>5
<1> QED BY <1>1, <1>2, <1>3 DEF DataInv

-----------------------------------------------------------------------------
(* Closing.                                                                *)

\* A socket that is closed (sock.up) changes nothing else.
LEMMA DownKeeps ==
  ASSUME IInv, NEW e \in Ends, sock' = [sock EXCEPT ![e].up = FALSE], budget' \in 0 .. MaxFailures,
         UNCHANGED <<files, bufs, logins, net, pushed>>
  PROVE  IInv'
<1> USE DEF files, bufs, logins
<1>1. \A d \in Ends : sock'[d].fd = sock[d].fd /\ (sock'[d].up => sock[d].up) /\ sock'[d] \in [up : BOOLEAN, fd : Fds \cup {NoFd}]
  <2>1. sock \in [Ends -> [up : BOOLEAN, fd : Fds \cup {NoFd}]]
    BY DEF IInv, TypeOK
  <2> QED BY <2>1
<1>2. sock' \in [Ends -> [up : BOOLEAN, fd : Fds \cup {NoFd}]]
  BY DEF IInv, TypeOK
<1>3. TypeOK' /\ MoreTypes'
  BY <1>1, <1>2 DEF IInv, TypeOK, MoreTypes
<1>4. \A d \in Ends : /\ Source(d)' = Source(d) /\ Received(d)' = Received(d) /\ Partial(d)' = Partial(d)
                      /\ Heard(d)' => Heard(d)
  BY <1>1, EndsAre DEF Source, Received, Partial, Heard
<1>5. DataInv'
  <2>1. TypeOK /\ MoreTypes /\ DataInv
    BY DEF IInv, DataInv
  <2> QED BY <1>1, <1>4, <2>1, QuietStep
<1>6. PhaseInv'
  <2>1. Source(C)' = Source(C) /\ \A d \in Ends : sock'[d].fd = sock[d].fd
    BY <1>1, <1>4, EndsAre
  <2> QED BY <2>1, EndsAre DEF IInv, PhaseInv
<1>7. PairInv' /\ (Settled' = Settled)
  BY <1>1, <1>4, EndsAre DEF IInv, PairInv, Settled, Barren
<1>8. RspInv' /\ BacklogInv'
  BY <1>1, <1>4, <1>7, EndsAre DEF IInv, RspInv, BacklogInv
<1> QED BY <1>3, <1>5, <1>6, <1>7, <1>8 DEF IInv, DataInv

\* The budget after a failure.
LEMMA FailKeeps ==
  ASSUME TypeOK, Fail
  PROVE  budget' \in 0 .. MaxFailures
BY SessionAssumption DEF TypeOK, Fail

\* RequestClose(), timeouts and errors, and the peer's end found closed.
LEMMA CloseKeeps ==
  ASSUME IInv, NEW e \in Ends, RemoteClose(e) \/ Close(e)
  PROVE  IInv'
<1>1. CASE RemoteClose(e)
  <2>1. budget' \in 0 .. MaxFailures
    BY <1>1 DEF RemoteClose, IInv, TypeOK
  <2> QED BY <1>1, <2>1, DownKeeps DEF RemoteClose
<1>2. CASE Close(e)
  <2>1. budget' \in 0 .. MaxFailures
    BY <1>2, FailKeeps DEF Close, IInv
  <2> QED BY <1>2, <2>1, DownKeeps DEF Close
<1> QED BY <1>1, <1>2

\* Connections are only closed, and what is on the wire is only lost.
NetShrinks ==
  /\ net' \in [Fds -> Conns]
  /\ \A k \in Fds :
       /\ \A e \in Ends : /\ net'[k].open[e] => net[k].open[e]
                          /\ net'[k].out[e] \in {net[k].out[e], <<>>}
       /\ \/ net'[k].rsp = net[k].rsp
          \/ net'[k].rsp.status = "none" /\ ~ net'[k].open[C] /\ net'[k].out[S] = <<>>

\* The server stays where it is while connections are closed.
LEMMA SettledKept ==
  ASSUME TypeOK, MoreTypes, NetShrinks, Settled,
         Source(S)' # NoFd => /\ Source(S)' = Source(S)
                              /\ Received(S)' = Received(S) /\ Partial(S)' = Partial(S),
         Source(C)' = Source(C)
  PROVE  Settled'
<1>1. CASE Source(S)' = NoFd
  BY <1>1 DEF Settled
<1>2. CASE Source(S)' # NoFd
  <2>1. Source(S)' = Source(S) /\ Source(S) \in Fds /\ C \in Ends
    BY <1>2, EndTypes, EndsAre
  <2>2. /\ net'[Source(S)].open[C] => net[Source(S)].open[C]
        /\ net'[Source(S)].out[C] \in {net[Source(S)].out[C], <<>>}
    BY <2>1 DEF NetShrinks
  <2>3. Barren => Barren'
    BY <1>2, <2>1, <2>2 DEF Barren
  <2> QED BY <2>1, <2>3 DEF Settled
<1> QED BY <1>1, <1>2

\* What holds of a LoginMsg m.
LoginMsgInv(m) ==
  /\ m.fd = connecting =>
       /\ m.known = last_server /\ m.ack = file[C].ack_seq
       /\ m.start = file[C].read_seq /\ m.end = pushed[C]
  /\ m.known => last_server
  /\ \A e \in Ends : net[m.fd].out[e] = <<>>
  /\ m.fd # Source(S) /\ m.fd # sock[C].fd
  /\ net[m.fd].open[C] => m.fd = connecting

\* Where a LoginMsg comes from.
LEMMA BacklogFds ==
  ASSUME MoreTypes, NEW m \in backlog
  PROVE  m \in LoginMsgs /\ m.fd \in Fds /\ m.fd # NoFd
BY SessionAssumption DEF MoreTypes, LoginMsgs

\* The LoginMsgs, one by one.
LEMMA BacklogIs ==
  BacklogInv <=> /\ \A m, n \in backlog : m.fd = n.fd => m = n
                 /\ \A m \in backlog : LoginMsgInv(m)
BY DEF BacklogInv, LoginMsgInv

\* The logins under way when connections are closed.
LEMMA LoginsKept ==
  ASSUME TypeOK, MoreTypes, PhaseInv, RspInv, BacklogInv, NetShrinks, PairInv',
         file'[C] = file[C], file'[S] = file[S], last_server' = last_server, pushed' = pushed,
         connecting' \in {connecting, NoFd}, Source(S)' \in {Source(S), NoFd},
         sock'[C].fd \in {sock[C].fd, NoFd}, backlog' \subseteq backlog,
         Source(S)' # NoFd => /\ Source(S)' = Source(S)
                              /\ Received(S)' = Received(S) /\ Partial(S)' = Partial(S),
         connecting \in Fds /\ connecting' # connecting =>
           ~ net'[connecting].open[C] /\ net'[connecting].rsp.status = "none",
         \A k \in Fds : net'[k].rsp.status # "none" => net'[k].open[C]
  PROVE  RspInv' /\ BacklogInv'
<1>1. C \in Ends /\ S \in Ends /\ Peer(C) = S
  BY EndsAre
<1>2. RspInv'
  <2>1. ASSUME NEW k \in Fds, net'[k].rsp.status # "none"
        PROVE  /\ net'[k].open[C] /\ k = connecting' /\ \A m \in backlog' : m.fd # k
               /\ net'[k].rsp.status \notin {"mismatch", "corrupt"}
    <3>1. net'[k].rsp = net[k].rsp /\ net[k].rsp.status # "none" /\ net'[k].open[C]
      BY <2>1 DEF NetShrinks
    <3>2. /\ k = connecting /\ net[k].rsp.status \notin {"mismatch", "corrupt"}
          /\ \A m \in backlog : m.fd # k
      BY <3>1 DEF RspInv
    <3>3. connecting' = connecting
      BY <2>1, <3>2
    <3> QED BY <3>1, <3>2, <3>3
  <2>2. ASSUME connecting' # NoFd
        PROVE  IF net'[connecting'].rsp.status = "ok"
               THEN net'[connecting'].rsp.ack = file'[S].ack_seq /\ Settled'
               ELSE /\ net'[connecting'].out[S] = <<>>
                    /\ Source(S)' = connecting' => ~ net'[connecting'].open[S]
    <3>1. PICK k \in Fds : k = connecting /\ connecting' = k /\ k # NoFd
      BY <2>2 DEF TypeOK
    <3>2. sock[C].fd = NoFd /\ sock'[C].fd = NoFd
      BY <3>1 DEF PhaseInv
    <3>3. Source(C) = k /\ Source(C)' = k
      BY <3>1, <3>2 DEF Source
    <3>4. CASE net'[k].rsp.status = "ok"
      <4>1. net'[k].rsp = net[k].rsp /\ net[k].rsp.status = "ok"
        BY <3>4 DEF NetShrinks
      <4>2. net[k].rsp.ack = file[S].ack_seq /\ Settled
        BY <4>1, <3>1 DEF RspInv
      <4>3. Settled'
        BY <4>2, <3>3, SettledKept
      <4> QED BY <4>1, <4>2, <4>3, <3>1, <3>4
    <3>5. CASE net'[k].rsp.status # "ok" /\ net[k].rsp.status # "ok"
      <4>1. net[k].out[S] = <<>> /\ (Source(S) = k => ~ net[k].open[S])
        BY <3>1, <3>5 DEF RspInv
      <4>2. net'[k].out[S] = <<>> /\ (net'[k].open[S] => net[k].open[S])
        BY <4>1, <1>1 DEF NetShrinks
      <4>3. Source(S)' = k => Source(S) = k
        BY <3>1
      <4> QED BY <4>1, <4>2, <4>3, <3>1, <3>5
    <3>6. CASE net'[k].rsp.status # "ok" /\ net[k].rsp.status = "ok"
      <4>1. ~ net'[k].open[C] /\ net'[k].out[S] = <<>>
        BY <3>6 DEF NetShrinks
      <4>2. net'[k].open[S] => net'[k].open[C]
        BY <3>1, <3>3, <1>1 DEF PairInv
      <4> QED BY <4>1, <4>2, <3>1, <3>6
    <3> QED BY <3>4, <3>5, <3>6
  <2> QED BY <2>1, <2>2 DEF RspInv
<1>3. BacklogInv'
  <2>1. \A m, n \in backlog' : m.fd = n.fd => m = n
    BY DEF BacklogInv
  <2>2. ASSUME NEW m \in backlog'
        PROVE  LoginMsgInv(m)'
    <3>1. m \in backlog /\ m.fd \in Fds /\ m.fd # NoFd
      BY BacklogFds
    <3>2. LoginMsgInv(m)
      BY <3>1, BacklogIs
    <3>3. \A e \in Ends : net'[m.fd].out[e] = <<>> /\ (net'[m.fd].open[e] => net[m.fd].open[e])
      BY <3>1, <3>2 DEF NetShrinks, LoginMsgInv
    <3>4. m.fd # Source(S)' /\ m.fd # sock'[C].fd
      BY <3>1, <3>2 DEF LoginMsgInv
    <3>5. net'[m.fd].open[C] => m.fd = connecting'
      BY <3>1, <3>2, <3>3, <1>1 DEF LoginMsgInv
    <3>6. m.fd = connecting' => m.fd = connecting
      BY <3>1
    <3> QED BY <3>2, <3>3, <3>4, <3>5, <3>6 DEF LoginMsgInv
  <2>3. \A m \in backlog' : LoginMsgInv(m)'
    BY <2>2
  <2> QED BY <2>1, <2>3 DEF BacklogInv, LoginMsgInv
<1> QED BY <1>2, <1>3

\* A step that closes sockets and connections, clears buffers or gives up logins,
\* and leaves the files as they are.
ShrinkStep ==
  /\ NetShrinks /\ UNCHANGED <<files, pushed>>
  /\ sock' \in [Ends -> [up : BOOLEAN, fd : Fds \cup {NoFd}]] /\ alloced' \in [Ends -> BOOLEAN]
  /\ part' \in [Ends -> Seq(Blocks)] /\ inbox' \in [Ends -> Seq(Seq(Blocks))]
  /\ mapped' \in BOOLEAN /\ budget' \in 0 .. MaxFailures
  /\ \A e \in Ends :
       /\ alloced'[e] => alloced[e]
       /\ inbox'[e] \in {inbox[e], <<>>}
       /\ sock'[e].up => sock[e].up /\ sock'[e].fd = sock[e].fd
       /\ sock'[e].fd \in {sock[e].fd, NoFd}
       /\ Source(e)' # NoFd =>
            /\ Source(e)' = Source(e) /\ sock'[e].fd = sock[e].fd
            /\ inbox'[e] = inbox[e] /\ part'[e] = part[e]
            /\ \/ net'[Source(e)].out[Peer(e)] = net[Source(e)].out[Peer(e)]
               \/ ~ net'[Source(e)].open[Peer(e)]
            /\ \/ net'[Source(e)].open[e] = net[Source(e)].open[e]
               \/ ~ net'[Source(e)].open[Peer(e)]
  /\ mapped' => mapped
  /\ alloced'[C] => mapped' /\ connecting' = NoFd
  /\ alloced'[S] => sock'[S].fd # NoFd
  /\ connecting' \in {connecting, NoFd} /\ login' \in {login, NoLogin}
  /\ backlog' \subseteq backlog
  /\ connecting \in Fds /\ connecting' # connecting =>
       ~ net'[connecting].open[C] /\ net'[connecting].rsp.status = "none"
  /\ \A k \in Fds : net'[k].rsp.status # "none" => net'[k].open[C]

\* A step that only takes away keeps the invariant.
LEMMA ShrinkKeeps ==
  ASSUME IInv, ShrinkStep
  PROVE  IInv'
<1> USE DEF files
<1>0. /\ TypeOK /\ MoreTypes /\ DataInv /\ PhaseInv /\ PairInv /\ RspInv /\ BacklogInv
      /\ NetShrinks /\ UNCHANGED <<file, last_server, pushed>> /\ C \in Ends /\ S \in Ends
  BY EndsAre DEF IInv, DataInv, ShrinkStep
<1>1. login' \in [fd : Fds \cup {NoFd}, ack : UInt] /\ login'.fd \in {login.fd, NoFd} /\ login'.fd \in Fds \cup {NoFd}
  <2>1. NoLogin \in [fd : Fds \cup {NoFd}, ack : UInt] /\ NoLogin.fd = NoFd
    BY Widths DEF NoLogin
  <2>2. login \in [fd : Fds \cup {NoFd}, ack : UInt]
    BY <1>0 DEF MoreTypes
  <2> QED BY <2>1, <2>2 DEF ShrinkStep
<1>2. backlog' \subseteq LoginMsgs
  BY <1>0 DEF MoreTypes, ShrinkStep
<1>3. MoreTypes'
  BY <1>1, <1>2, <1>0 DEF MoreTypes, ShrinkStep, NetShrinks
<1>4. TypeOK'
  <2>1. \A e \in Ends : sock'[e].up => sock'[e].fd # NoFd
    BY <1>0 DEF TypeOK, ShrinkStep
  <2>2. \A k \in Fds, e \in Ends : Len(net'[k].out[e]) <= WireCap
    <3> TAKE k \in Fds, e \in Ends
    <3>1. net'[k].out[e] \in {net[k].out[e], <<>>}
      BY <1>0 DEF NetShrinks
    <3>2. Len(net[k].out[e]) <= WireCap
      BY <1>0 DEF TypeOK
    <3>3. Len(<<>>) <= WireCap
      BY SessionAssumption
    <3> QED BY <3>1, <3>2, <3>3
  <2>3. \A e \in Ends : part'[e] \in Seq(Blocks) /\ inbox'[e] \in Seq(Seq(Blocks))
    BY DEF ShrinkStep
  <2>4. connecting' \in Fds \cup {NoFd}
    BY <1>0 DEF ShrinkStep, TypeOK
  <2> QED BY <1>0, <1>1, <2>1, <2>2, <2>3, <2>4 DEF TypeOK, ShrinkStep
<1>5. \A e \in Ends : Heard(e)' => Heard(e)
  <2> SUFFICES ASSUME NEW e \in Ends, Heard(e)'
               PROVE  Heard(e)
    OBVIOUS
  <2>1. sock[e].up /\ sock'[e].fd = sock[e].fd /\ sock[e].fd \in Fds /\ Peer(e) \in Ends
    BY <1>0, EndTypes, EndsAre DEF Heard, ShrinkStep
  <2> DEFINE k == sock[e].fd
             p == Peer(e)
  <2>2. (net'[k].open[p] => net[k].open[p]) /\ net'[k].out[p] \in {net[k].out[p], <<>>}
    BY <2>1, <1>0 DEF NetShrinks
  <2> QED BY <2>1, <2>2 DEF Heard
<1>6. \A e \in Ends : Source(e)' # NoFd =>
        /\ Source(e)' = Source(e) /\ sock'[e].fd = sock[e].fd
        /\ Received(e)' = Received(e) /\ Partial(e)' = Partial(e)
        /\ \/ net'[Source(e)].out[Peer(e)] = net[Source(e)].out[Peer(e)]
           \/ net'[Source(e)].out[Peer(e)] = <<>> /\ ~ net'[Source(e)].open[Peer(e)]
        /\ net'[Source(e)].open[Peer(e)] => net[Source(e)].open[Peer(e)]
        /\ \/ net'[Source(e)].open[e] = net[Source(e)].open[e]
           \/ ~ net'[Source(e)].open[Peer(e)]
        /\ \A d \in Ends : net'[Source(e)].out[d] \in {net[Source(e)].out[d], <<>>}
  <2> SUFFICES ASSUME NEW e \in Ends, Source(e)' # NoFd
               PROVE  /\ Source(e)' = Source(e) /\ sock'[e].fd = sock[e].fd
                      /\ Received(e)' = Received(e) /\ Partial(e)' = Partial(e)
                      /\ \/ net'[Source(e)].out[Peer(e)] = net[Source(e)].out[Peer(e)]
                         \/ net'[Source(e)].out[Peer(e)] = <<>> /\ ~ net'[Source(e)].open[Peer(e)]
                      /\ net'[Source(e)].open[Peer(e)] => net[Source(e)].open[Peer(e)]
                      /\ \/ net'[Source(e)].open[e] = net[Source(e)].open[e]
                         \/ ~ net'[Source(e)].open[Peer(e)]
                      /\ \A d \in Ends : net'[Source(e)].out[d] \in {net[Source(e)].out[d], <<>>}
    OBVIOUS
  <2>1. /\ Source(e)' = Source(e) /\ sock'[e].fd = sock[e].fd
        /\ inbox'[e] = inbox[e] /\ part'[e] = part[e]
        /\ \/ net'[Source(e)].out[Peer(e)] = net[Source(e)].out[Peer(e)]
           \/ ~ net'[Source(e)].open[Peer(e)]
        /\ \/ net'[Source(e)].open[e] = net[Source(e)].open[e]
           \/ ~ net'[Source(e)].open[Peer(e)]
    BY DEF ShrinkStep
  <2>2. Source(e) \in Fds /\ Peer(e) \in Ends
    BY <2>1, <1>0, EndTypes, EndsAre
  <2>3. /\ net'[Source(e)].open[Peer(e)] => net[Source(e)].open[Peer(e)]
        /\ \A d \in Ends : net'[Source(e)].out[d] \in {net[Source(e)].out[d], <<>>}
    BY <2>2, <1>0 DEF NetShrinks
  <2>4. Received(e)' = Received(e) /\ Partial(e)' = Partial(e)
    BY <2>1 DEF Received, Partial
  <2> QED BY <2>1, <2>2, <2>3, <2>4
<1>7. DataInv'
  <2>1. \A e \in Ends : /\ alloced'[e] => alloced[e]
                        /\ inbox'[e] \in {inbox[e], <<>>}
                        /\ sock'[e].up => sock[e].up /\ sock'[e].fd = sock[e].fd
    BY DEF ShrinkStep
  <2> QED BY <2>1, <1>0, <1>5, <1>6, QuietStep
<1>8. PhaseInv'
  <2>1. ~ last_server' => file'[C] = ZeroQueue /\ pushed'[C] = 0 /\ ~ mapped' /\ sock'[C].fd = NoFd
    BY <1>0 DEF PhaseInv, ShrinkStep
  <2>2. (alloced'[C] => mapped' /\ connecting' = NoFd) /\ (alloced'[S] => sock'[S].fd # NoFd)
    BY DEF ShrinkStep
  <2>3. /\ connecting' # NoFd => sock'[C].fd = NoFd
        /\ sock'[S].fd # NoFd => login' = NoLogin
    BY <1>0 DEF PhaseInv, ShrinkStep
  <2>4. ASSUME login' # NoLogin
        PROVE  /\ login'.fd # NoFd /\ Off(file'[S], login'.ack) <= Off(file'[S], file'[C].ack_seq)
               /\ \/ login'.fd = Source(C)' \/ net'[login'.fd].open[C] \/ net'[login'.fd].out[C] # <<>>
                  => login'.ack = file'[C].ack_seq
    <3>1. login' = login /\ login.fd # NoFd /\ login.fd \in Fds
      BY <2>4, <1>0 DEF PhaseInv, ShrinkStep, TypeOK
    <3>2. /\ net'[login.fd].open[C] => net[login.fd].open[C]
          /\ net'[login.fd].out[C] \in {net[login.fd].out[C], <<>>}
      BY <3>1, <1>0 DEF NetShrinks
    <3>3. login.fd = Source(C)' => login.fd = Source(C)
      BY <3>1, <1>0, <1>6
    <3> QED BY <2>4, <3>1, <3>2, <3>3, <1>0 DEF PhaseInv
  <2> QED BY <2>1, <2>2, <2>3, <2>4 DEF PhaseInv
<1>9. Source(S)' \in {Source(S), NoFd}
  BY <1>0, <1>6
<1>10. PairInv'
  <2>1. ASSUME sock'[C].fd # NoFd PROVE Settled'
    <3>1. sock[C].fd # NoFd /\ sock'[C].fd = sock[C].fd
      BY <2>1, <1>0 DEF ShrinkStep
    <3>2. Source(C)' = Source(C) /\ Settled
      BY <3>1, <1>0 DEF Source, PairInv
    <3> QED BY <3>2, <1>0, <1>6, SettledKept
  <2>2. ASSUME NEW e \in Ends, Source(e)' # NoFd, net'[Source(e)'].open[Peer(e)]
        PROVE  net'[Source(e)'].open[e]
    BY <2>2, <1>0, <1>6 DEF PairInv
  <2>3. ASSUME Source(C)' = Source(S)', Source(S)' # NoFd, NEW e \in Ends, sock'[e].fd = NoFd
        PROVE  /\ net'[Source(S)'].out[e] = <<>>
               /\ Received(Peer(e))' = 0 /\ Partial(Peer(e))' = <<>>
    <3>1. /\ Source(C)' = Source(C) /\ Source(S)' = Source(S) /\ sock[e].fd = NoFd
          /\ Received(Peer(e))' = Received(Peer(e)) /\ Partial(Peer(e))' = Partial(Peer(e))
          /\ net'[Source(S)].out[e] \in {net[Source(S)].out[e], <<>>}
      BY <2>3, <1>0, <1>6, EndsAre
    <3> QED BY <3>1, <2>3, <1>0 DEF PairInv
  <2> QED BY <2>1, <2>2, <2>3 DEF PairInv
<1>11. RspInv' /\ BacklogInv'
  <2>1. /\ connecting' \in {connecting, NoFd} /\ sock'[C].fd \in {sock[C].fd, NoFd}
        /\ backlog' \subseteq backlog
        /\ connecting \in Fds /\ connecting' # connecting =>
             ~ net'[connecting].open[C] /\ net'[connecting].rsp.status = "none"
        /\ \A k \in Fds : net'[k].rsp.status # "none" => net'[k].open[C]
    BY <1>0 DEF ShrinkStep
  <2>2. Source(S)' # NoFd => /\ Source(S)' = Source(S)
                              /\ Received(S)' = Received(S) /\ Partial(S)' = Partial(S)
    BY <1>0, <1>6
  <2> QED BY <2>1, <2>2, <1>0, <1>9, <1>10, LoginsKept
<1> QED BY <1>3, <1>4, <1>7, <1>8, <1>10, <1>11 DEF IInv, DataInv

\* Parts of a step that closes something, from what it leaves unchanged.
LEMMA ShrinkTypes ==
  ASSUME IInv
  PROVE  /\ sock \in [Ends -> [up : BOOLEAN, fd : Fds \cup {NoFd}]] /\ alloced \in [Ends -> BOOLEAN]
         /\ part \in [Ends -> Seq(Blocks)] /\ inbox \in [Ends -> Seq(Seq(Blocks))]
         /\ mapped \in BOOLEAN /\ budget \in 0 .. MaxFailures /\ net \in [Fds -> Conns]
         /\ connecting \in Fds \cup {NoFd}
         /\ alloced[C] => mapped /\ connecting = NoFd
         /\ alloced[S] => sock[S].fd # NoFd
         /\ \A k \in Fds : net[k].rsp.status # "none" => net[k].open[C]
         /\ C \in Ends /\ S \in Ends
BY EndsAre DEF IInv, TypeOK, MoreTypes, PhaseInv, RspInv

\* The network resets a connection.
LEMMA NetResetKeeps ==
  ASSUME IInv, NEW k \in Fds, NetReset(k)
  PROVE  IInv'
<1> USE DEF files, bufs, logins
<1>1. UNCHANGED <<files, sock, bufs, logins, pushed>> /\ net' = [net EXCEPT ![k] = FreeNet]
  BY DEF NetReset
<1>2. \A e \in Ends : Source(e)' = Source(e) /\ (Source(e)' # NoFd => Source(e) \in Fds) /\ Peer(e) \in Ends
  <2>1. TypeOK /\ MoreTypes
    BY DEF IInv
  <2>2. \A e \in Ends : Source(e)' = Source(e)
    BY <1>1 DEF Source
  <2> QED BY <2>1, <2>2, EndTypes, EndsAre
<1>3. budget' \in 0 .. MaxFailures
  BY FailKeeps DEF IInv, NetReset
<1>4. net' \in [Fds -> Conns] /\ net'[k] = FreeNet /\ \A j \in Fds \ {k} : net'[j] = net[j]
  BY <1>1, ShrinkTypes, FreeNetIs, NetChanged
<1>5. \A j \in Fds : j = k \/ net'[j] = net[j]
  BY <1>4
<1>6. NetShrinks
  BY <1>4, <1>5, FreeNetIs, EndsAre DEF NetShrinks
<1>7. \A e \in Ends : Source(e)' # NoFd =>
            /\ \/ net'[Source(e)].out[Peer(e)] = net[Source(e)].out[Peer(e)]
               \/ ~ net'[Source(e)].open[Peer(e)]
            /\ \/ net'[Source(e)].open[e] = net[Source(e)].open[e]
               \/ ~ net'[Source(e)].open[Peer(e)]
  BY <1>2, <1>4, <1>5, FreeNetIs
<1>8. \A j \in Fds : net'[j].rsp.status # "none" => net'[j].open[C]
  BY <1>4, <1>5, FreeNetIs, ShrinkTypes
<1>9. ShrinkStep
  BY <1>1, <1>2, <1>3, <1>6, <1>7, <1>8, ShrinkTypes DEF ShrinkStep
<1> QED BY <1>9, ShrinkKeeps

\* Connection k changes to n, and no other connection changes.
NetBecomes(k, n) == net' = [net EXCEPT ![k] = n]

\* The connections when end e of connection k is closed.
LEMMA ClosedShrinks ==
  ASSUME IInv, NEW k \in Fds, NEW e \in Ends, NetBecomes(k, Closed(net[k], e))
  PROVE  /\ NetShrinks
         /\ ~ net'[k].open[e] /\ (e = C => net'[k].rsp.status = "none")
         /\ \A j \in Fds : /\ net'[j].rsp.status # "none" => net'[j].open[C]
                           /\ net'[j].out[e] = net[j].out[e]
                           /\ j # k => net'[j] = net[j]
                           /\ net'[j].open[Peer(e)] = net[j].open[Peer(e)]
<1> DEFINE c == Closed(net[k], e)
<1>1. net \in [Fds -> Conns] /\ \A j \in Fds : net[j].rsp.status # "none" => net[j].open[C]
  BY ShrinkTypes
<1>2. net[k] \in Conns
  BY <1>1
<1>3. /\ c \in Conns
      /\ c.open[e] = FALSE /\ c.open[Peer(e)] = net[k].open[Peer(e)]
      /\ c.out[Peer(e)] = <<>> /\ c.out[e] = net[k].out[e]
      /\ c.rsp = IF e = C THEN NoRsp ELSE net[k].rsp
  BY <1>2, ClosedIs
<1> HIDE DEF c
<1>4. net' \in [Fds -> Conns] /\ net'[k] = c /\ \A j \in Fds \ {k} : net'[j] = net[j]
  BY <1>1, <1>3, NetChanged DEF c, NetBecomes
<1>5. \A j \in Fds : j = k \/ net'[j] = net[j]
  BY <1>4
<1>6. \A d \in Ends : d = e \/ d = Peer(e)
  BY EndsAre
<1>7. /\ \A d \in Ends : c.open[d] => net[k].open[d]
      /\ \A d \in Ends : c.out[d] \in {net[k].out[d], <<>>}
      /\ c.rsp = net[k].rsp \/ (c.rsp.status = "none" /\ ~ c.open[C] /\ c.out[S] = <<>>)
  BY <1>3, <1>6, FreeNetIs, EndsAre
<1>8. NetShrinks
  BY <1>4, <1>5, <1>7 DEF NetShrinks
<1>9. c.rsp.status # "none" => c.open[C]
  <2>1. CASE e = C
    BY <2>1, <1>3, FreeNetIs
  <2>2. CASE e # C
    <3>1. Peer(e) = C
      BY <2>2, EndsAre
    <3> QED BY <3>1, <2>2, <1>1, <1>3
  <2> QED BY <2>1, <2>2
<1> QED BY <1>1, <1>3, <1>4, <1>5, <1>8, <1>9, FreeNetIs

\* PollCtl() drops a new connection.
LEMMA DropLoginKeeps ==
  ASSUME IInv, NEW m \in backlog, DropLogin(m)
  PROVE  IInv'
<1> USE DEF files, bufs, logins
<1>1. /\ UNCHANGED <<files, sock, bufs, mapped, connecting, login, pushed>> /\ backlog' = backlog \ {m}
      /\ net' = [net EXCEPT ![m.fd] = Closed(net[m.fd], S)]
  BY DEF DropLogin
<1>2. budget' \in 0 .. MaxFailures
  <2>1. CASE \A e \in Ends : net[m.fd].open[e]
    BY <2>1, FailKeeps DEF DropLogin, IInv
  <2>2. CASE ~ \A e \in Ends : net[m.fd].open[e]
    BY <2>2, ShrinkTypes DEF DropLogin
  <2> QED BY <2>1, <2>2
<1>3. m.fd \in Fds /\ LoginMsgInv(m) /\ m.fd # NoFd
  BY BacklogFds, BacklogIs DEF IInv
<1>4. /\ NetShrinks /\ ~ net'[m.fd].open[S]
      /\ \A j \in Fds : /\ net'[j].rsp.status # "none" => net'[j].open[C]
                        /\ net'[j].out[S] = net[j].out[S]
                        /\ j # m.fd => net'[j] = net[j]
                        /\ net'[j].open[C] = net[j].open[C]
  <2>1. NetBecomes(m.fd, Closed(net[m.fd], S))
    BY <1>1 DEF NetBecomes
  <2> QED BY <2>1, <1>3, ClosedShrinks, EndsAre
<1>5. \A e \in Ends : Source(e)' = Source(e) /\ Source(e) \in Fds \cup {NoFd}
  BY <1>1, EndTypes DEF Source, IInv
<1>6. ASSUME NEW d \in Ends, Source(d) # NoFd
      PROVE  /\ \/ net'[Source(d)].out[Peer(d)] = net[Source(d)].out[Peer(d)]
                \/ ~ net'[Source(d)].open[Peer(d)]
             /\ \/ net'[Source(d)].open[d] = net[Source(d)].open[d]
                \/ ~ net'[Source(d)].open[Peer(d)]
  <2>1. CASE d = S
    <3>1. Source(d) \in Fds /\ Source(d) # m.fd
      BY <2>1, <1>3, <1>5, <1>6 DEF LoginMsgInv
    <3> QED BY <3>1, <1>4
  <2>2. CASE d = C
    <3>1. Source(d) \in Fds
      BY <1>5, <1>6
    <3> QED BY <3>1, <2>2, <1>4, EndsAre
  <2> QED BY <2>1, <2>2, EndsAre
<1>7. ShrinkStep
  <2>1. \A k \in Fds : net'[k].rsp.status # "none" => net'[k].open[C]
    BY <1>4
  <2> QED BY <1>1, <1>2, <1>4, <1>5, <1>6, <2>1, ShrinkTypes DEF ShrinkStep
<1> QED BY <1>7, ShrinkKeeps

\* An end whose socket is gone reads nothing.
LEMMA NoSource ==
  ASSUME IInv, NEW e \in Ends, sock[e].fd # NoFd
  PROVE  (e = C => connecting = NoFd) /\ (e = S => login.fd = NoFd /\ login = NoLogin)
BY EndsAre DEF IInv, PhaseInv, NoLogin

\* TryCloseFd().
LEMMA TryCloseFdKeeps ==
  ASSUME IInv, ~ TwoThreads, ~ StalePoll, NEW e \in Ends, TryCloseFd(e)
  PROVE  IInv'
<1> USE DEF files, bufs, logins
<1>1. /\ UNCHANGED <<files, bufs, logins, pushed, budget>>
      /\ net' = [net EXCEPT ![sock[e].fd] = Closed(net[sock[e].fd], e)]
      /\ sock' = [sock EXCEPT ![e].fd = NoFd] /\ ~ sock[e].up /\ sock[e].fd # NoFd /\ ~ alloced[e]
  BY DEF TryCloseFd, Sending
<1>2. PICK k \in Fds : k = sock[e].fd
  BY <1>1, EndTypes DEF IInv
<1>3. /\ NetShrinks /\ ~ net'[k].open[e]
      /\ \A j \in Fds : /\ net'[j].rsp.status # "none" => net'[j].open[C]
                        /\ net'[j].out[e] = net[j].out[e]
                        /\ net'[j].open[Peer(e)] = net[j].open[Peer(e)]
  <2>1. NetBecomes(k, Closed(net[k], e))
    BY <1>1, <1>2 DEF NetBecomes
  <2> QED BY <2>1, ClosedShrinks
<1>4. /\ sock' \in [Ends -> [up : BOOLEAN, fd : Fds \cup {NoFd}]]
      /\ sock'[e].fd = NoFd /\ ~ sock'[e].up /\ sock'[Peer(e)] = sock[Peer(e)]
  BY <1>1, ShrinkTypes, EndsAre
<1>5. Source(e)' = NoFd /\ Source(Peer(e))' = Source(Peer(e)) /\ Source(Peer(e)) \in Fds \cup {NoFd} /\ Peer(e) \in Ends
  <2>1. Source(e)' = NoFd
    BY <1>1, <1>4, NoSource, EndsAre DEF Source
  <2>2. Source(Peer(e))' = Source(Peer(e))
    BY <1>1, <1>4 DEF Source
  <2> QED BY <2>1, <2>2, EndTypes, EndsAre DEF IInv
<1>6. \A d \in Ends : d = e \/ d = Peer(e)
  BY EndsAre
<1>7. ASSUME NEW d \in Ends
      PROVE  /\ sock'[d].up => sock[d].up /\ sock'[d].fd = sock[d].fd
             /\ sock'[d].fd \in {sock[d].fd, NoFd}
             /\ Source(d)' # NoFd =>
                  /\ Source(d)' = Source(d) /\ sock'[d].fd = sock[d].fd
                  /\ \/ net'[Source(d)].out[Peer(d)] = net[Source(d)].out[Peer(d)]
                     \/ ~ net'[Source(d)].open[Peer(d)]
                  /\ \/ net'[Source(d)].open[d] = net[Source(d)].open[d]
                     \/ ~ net'[Source(d)].open[Peer(d)]
  <2>1. CASE d = e
    BY <2>1, <1>4, <1>5
  <2>2. CASE d = Peer(e)
    <3>1. Peer(d) = e
      BY <2>2, EndsAre
    <3> QED BY <2>2, <3>1, <1>3, <1>4, <1>5
  <2> QED BY <2>1, <2>2, <1>6
<1>8. (alloced'[S] => sock'[S].fd # NoFd)
  <2>1. CASE e = S
    BY <2>1, <1>1
  <2>2. CASE e # S
    <3>1. Peer(e) = S
      BY <2>2, EndsAre
    <3> QED BY <3>1, <1>1, <1>4, ShrinkTypes
  <2> QED BY <2>1, <2>2
<1>9. ShrinkStep
  BY <1>1, <1>3, <1>4, <1>7, <1>8, ShrinkTypes DEF ShrinkStep
<1> QED BY <1>9, ShrinkKeeps

\* Connect() fails, or the client reads a LoginRsp that refuses it.
LEMMA GiveUpKeeps ==
  ASSUME IInv, connecting # NoFd, net' = [net EXCEPT ![connecting] = Closed(net[connecting], C)],
         connecting' = NoFd, budget' \in 0 .. MaxFailures,
         UNCHANGED <<files, sock, bufs, mapped, login, backlog, pushed>>
  PROVE  IInv'
<1> USE DEF files, bufs
<1>1. PICK k \in Fds : k = connecting
  BY ShrinkTypes
<1>2. /\ NetShrinks /\ ~ net'[k].open[C] /\ net'[k].rsp.status = "none"
      /\ \A j \in Fds : /\ net'[j].rsp.status # "none" => net'[j].open[C]
                        /\ net'[j].out[C] = net[j].out[C]
                        /\ net'[j].open[S] = net[j].open[S]
  <2>1. NetBecomes(k, Closed(net[k], C))
    BY <1>1 DEF NetBecomes
  <2> QED BY <2>1, ClosedShrinks, EndsAre
<1>3. sock[C].fd = NoFd
  BY DEF IInv, PhaseInv
<1>4. Source(C)' = NoFd /\ Source(S)' = Source(S) /\ Source(S) \in Fds \cup {NoFd}
  BY <1>3, EndTypes, EndsAre DEF Source, IInv
<1>5. ASSUME NEW d \in Ends
      PROVE  Source(d)' # NoFd =>
                  /\ Source(d)' = Source(d)
                  /\ net'[Source(d)].out[Peer(d)] = net[Source(d)].out[Peer(d)]
                  /\ net'[Source(d)].open[d] = net[Source(d)].open[d]
  <2>1. CASE d = C
    BY <2>1, <1>4
  <2>2. CASE d = S
    BY <2>2, <1>2, <1>4, EndsAre
  <2> QED BY <2>1, <2>2, EndsAre
<1>6. ShrinkStep
  BY <1>1, <1>2, <1>5, ShrinkTypes DEF ShrinkStep
<1> QED BY <1>6, ShrinkKeeps

\* A Connect() that fails keeps the invariant.
LEMMA ConnectFailsKeeps ==
  ASSUME IInv, ConnectFails
  PROVE  IInv'
<1>1. budget' \in 0 .. MaxFailures
  <2>1. CASE net[connecting].open[S]
    BY <2>1, FailKeeps DEF ConnectFails, IInv
  <2>2. CASE ~ net[connecting].open[S]
    BY <2>2, ShrinkTypes DEF ConnectFails
  <2> QED BY <2>1, <2>2
<1> QED BY <1>1, GiveUpKeeps DEF ConnectFails

\* A process dies.
LEMMA CrashKeeps ==
  ASSUME IInv, NEW e \in Ends, Crash(e)
  PROVE  IInv'
<1> USE DEF files, bufs
<1>1. /\ file' = [file EXCEPT ![e] = file[e]]
      /\ sock' = [sock EXCEPT ![e] = [up |-> FALSE, fd |-> NoFd]]
      /\ inbox' = [inbox EXCEPT ![e] = <<>>]
      /\ part' = [part EXCEPT ![e] = <<>>]
      /\ alloced' = [alloced EXCEPT ![e] = FALSE]
      /\ net' = [k \in Fds |-> IF net[k].open[e] THEN Closed(net[k], e) ELSE net[k]]
      /\ UNCHANGED <<last_server, pushed>>
  BY DEF Crash, Dies
<1>2. IF e = C THEN mapped' = FALSE /\ connecting' = NoFd /\ UNCHANGED <<login, backlog>>
      ELSE login' = NoLogin /\ backlog' = {} /\ UNCHANGED <<mapped, connecting>>
  BY DEF Crash, Dies
<1>3. budget' \in 0 .. MaxFailures
  BY FailKeeps DEF IInv, Crash, Dies
<1>4. file' = file
  <2>1. file \in [Ends -> Queues]
    BY EndTypes DEF IInv, TypeOK
  <2> QED BY <2>1, <1>1
<1>5. /\ sock' \in [Ends -> [up : BOOLEAN, fd : Fds \cup {NoFd}]]
      /\ sock'[e].fd = NoFd /\ ~ sock'[e].up /\ sock'[Peer(e)] = sock[Peer(e)]
  BY <1>1, ShrinkTypes, EndsAre
<1>6. /\ inbox' \in [Ends -> Seq(Seq(Blocks))] /\ inbox'[e] = <<>> /\ inbox'[Peer(e)] = inbox[Peer(e)]
      /\ part' \in [Ends -> Seq(Blocks)] /\ part'[Peer(e)] = part[Peer(e)]
      /\ alloced' \in [Ends -> BOOLEAN] /\ ~ alloced'[e] /\ alloced'[Peer(e)] = alloced[Peer(e)]
  <2>1. Peer(e) \in Ends /\ Peer(e) # e
    BY EndsAre
  <2>2. inbox' \in [Ends -> Seq(Seq(Blocks))] /\ inbox'[e] = <<>> /\ inbox'[Peer(e)] = inbox[Peer(e)]
    <3>1. <<>> \in Seq(Seq(Blocks)) /\ inbox \in [Ends -> Seq(Seq(Blocks))]
      BY ShrinkTypes
    <3> QED BY <1>1, <2>1, <3>1
  <2>3. part' \in [Ends -> Seq(Blocks)] /\ part'[Peer(e)] = part[Peer(e)]
    <3>1. <<>> \in Seq(Blocks) /\ part \in [Ends -> Seq(Blocks)]
      BY ShrinkTypes
    <3> QED BY <1>1, <2>1, <3>1
  <2>4. alloced' \in [Ends -> BOOLEAN] /\ ~ alloced'[e] /\ alloced'[Peer(e)] = alloced[Peer(e)]
    BY <1>1, <2>1, ShrinkTypes
  <2> QED BY <2>2, <2>3, <2>4
<1>7. Source(e)' = NoFd /\ Source(Peer(e))' = Source(Peer(e)) /\ Source(Peer(e)) \in Fds \cup {NoFd} /\ Peer(e) \in Ends
  <2>1. Source(e)' = NoFd
    BY <1>2, <1>5, EndsAre DEF Source, NoLogin
  <2>2. Source(Peer(e))' = Source(Peer(e))
    BY <1>2, <1>5, EndsAre DEF Source
  <2> QED BY <2>1, <2>2, EndTypes, EndsAre DEF IInv
<1>8. ASSUME NEW j \in Fds
      PROVE  /\ net'[j] \in Conns /\ ~ net'[j].open[e] /\ net'[j].out[e] = net[j].out[e]
             /\ net'[j].open[Peer(e)] = net[j].open[Peer(e)]
             /\ net'[j].out[Peer(e)] \in {net[j].out[Peer(e)], <<>>}
             /\ \/ net'[j].rsp = net[j].rsp
                \/ net'[j].rsp.status = "none" /\ ~ net'[j].open[C] /\ net'[j].out[S] = <<>>
             /\ net'[j].rsp.status # "none" => net'[j].open[C]
             /\ e = C => net'[j].rsp.status = "none"
  <2>1. net[j] \in Conns /\ (net[j].rsp.status # "none" => net[j].open[C])
    BY ShrinkTypes
  <2>2. net'[j] = IF net[j].open[e] THEN Closed(net[j], e) ELSE net[j]
    BY <1>1
  <2>3. CASE ~ net[j].open[e]
    BY <2>1, <2>2, <2>3
  <2>4. CASE net[j].open[e]
    <3> DEFINE c == Closed(net[j], e)
    <3>1. /\ c \in Conns
          /\ c.open[e] = FALSE /\ c.open[Peer(e)] = net[j].open[Peer(e)]
          /\ c.out[Peer(e)] = <<>> /\ c.out[e] = net[j].out[e]
          /\ c.rsp = IF e = C THEN NoRsp ELSE net[j].rsp
      BY <2>1, ClosedIs
    <3>2. net'[j] = c
      BY <2>2, <2>4
    <3> HIDE DEF c
    <3>3. (e = C /\ Peer(e) = S) \/ (e # C /\ Peer(e) = C)
      BY EndsAre
    <3> QED BY <2>1, <3>1, <3>2, <3>3, FreeNetIs
  <2> QED BY <2>3, <2>4
<1>9. \A d \in Ends : d = e \/ d = Peer(e)
  BY EndsAre
<1>10. NetShrinks
  <2>1. net' \in [Fds -> Conns]
    BY <1>1, <1>8
  <2>2. ASSUME NEW j \in Fds, NEW d \in Ends
        PROVE  (net'[j].open[d] => net[j].open[d]) /\ net'[j].out[d] \in {net[j].out[d], <<>>}
    BY <1>8, <1>9
  <2> QED BY <2>1, <2>2, <1>8 DEF NetShrinks
<1>11. ASSUME NEW d \in Ends
       PROVE  /\ alloced'[d] => alloced[d]
              /\ inbox'[d] \in {inbox[d], <<>>}
              /\ sock'[d].up => sock[d].up /\ sock'[d].fd = sock[d].fd
              /\ sock'[d].fd \in {sock[d].fd, NoFd}
              /\ Source(d)' # NoFd =>
                  /\ Source(d)' = Source(d) /\ sock'[d].fd = sock[d].fd
                  /\ inbox'[d] = inbox[d] /\ part'[d] = part[d]
                  /\ net'[Source(d)].out[Peer(d)] = net[Source(d)].out[Peer(d)]
                  /\ net'[Source(d)].open[d] = net[Source(d)].open[d]
  <2>1. CASE d = e
    BY <2>1, <1>5, <1>6, <1>7
  <2>2. CASE d = Peer(e)
    <3>1. Peer(d) = e
      BY <2>2, EndsAre
    <3> QED BY <2>2, <3>1, <1>5, <1>6, <1>7, <1>8
  <2> QED BY <2>1, <2>2, <1>9
<1>12. /\ mapped' \in BOOLEAN /\ (mapped' => mapped)
       /\ alloced'[C] => mapped' /\ connecting' = NoFd
       /\ alloced'[S] => sock'[S].fd # NoFd
       /\ connecting' \in {connecting, NoFd} /\ login' \in {login, NoLogin}
       /\ backlog' \subseteq backlog
       /\ connecting \in Fds /\ connecting' # connecting => e = C
  <2>1. CASE e = C
    <3>1. Peer(e) = S
      BY <2>1, EndsAre
    <3> QED BY <2>1, <3>1, <1>2, <1>5, <1>6, ShrinkTypes
  <2>2. CASE e = S
    <3>1. Peer(e) = C /\ e # C
      BY <2>2, EndsAre
    <3> QED BY <2>2, <3>1, <1>2, <1>5, <1>6, ShrinkTypes
  <2> QED BY <2>1, <2>2, EndsAre
<1>13. connecting \in Fds /\ connecting' # connecting =>
         ~ net'[connecting].open[C] /\ net'[connecting].rsp.status = "none"
  BY <1>8, <1>12
<1>14. ShrinkStep
  BY <1>1, <1>3, <1>4, <1>5, <1>6, <1>8, <1>10, <1>11, <1>12, <1>13 DEF ShrinkStep
<1> QED BY <1>14, ShrinkKeeps

-----------------------------------------------------------------------------
(* Steps on a connection, or on a queue, that open and close nothing.      *)

\* Endpoint e works on its queue, sends or receives.
WorkStep(e) ==
  /\ UNCHANGED <<last_server, logins>>
  /\ sock' \in [Ends -> [up : BOOLEAN, fd : Fds \cup {NoFd}]]
  /\ file' \in [Ends -> Queues] /\ pushed' \in [Ends -> UInt] /\ alloced' \in [Ends -> BOOLEAN]
  /\ part' \in [Ends -> Seq(Blocks)] /\ inbox' \in [Ends -> Seq(Seq(Blocks))]
  /\ budget' \in 0 .. MaxFailures /\ net' \in [Fds -> Conns]
  /\ file'[Peer(e)] = file[Peer(e)] /\ pushed'[Peer(e)] = pushed[Peer(e)]
  /\ \A d \in Ends :
       /\ sock'[d].fd = sock[d].fd /\ (sock'[d].up => sock[d].up)
       /\ alloced'[d] => alloced[d] \/ (d = C /\ mapped /\ connecting = NoFd) \/ (d = S /\ sock[S].fd # NoFd)
       /\ \/ inbox'[d] = inbox[d] /\ part'[d] = part[d]
          \/ d = e /\ sock[e].fd # NoFd /\ (inbox[e] # <<>> \/ net[sock[e].fd].out[Peer(e)] # <<>>)
  /\ \A k \in Fds, d \in Ends :
       /\ net'[k].open[d] = net[k].open[d] /\ net'[k].rsp = net[k].rsp
       /\ Len(net'[k].out[d]) <= WireCap
       /\ \/ net'[k].out[d] = net[k].out[d]
          \/ sock[e].fd = k /\ (IF d = e THEN net[k].open[e] ELSE net[k].out[d] # <<>>)
  /\ e = C => (sock[C].fd # NoFd \/ mapped) /\ connecting = NoFd
  /\ file'[e].ack_seq = file[e].ack_seq \/ (sock[e].fd # NoFd /\ inbox[e] # <<>>)
  /\ Off(file[Peer(e)], file[e].ack_seq) <= Off(file[Peer(e)], file'[e].ack_seq)
  /\ file'[e].read_seq = file[e].read_seq \/ sock[e].fd # NoFd

\* The rest of the invariant does not notice.
LEMMA WorkKeeps ==
  ASSUME IInv, NEW e \in Ends, WorkStep(e)
  PROVE  /\ TypeOK' /\ MoreTypes' /\ PhaseInv' /\ PairInv' /\ RspInv' /\ BacklogInv'
         /\ \A d \in Ends : Source(d)' = Source(d)
<1> USE DEF logins
<1>0. /\ TypeOK /\ MoreTypes /\ PhaseInv /\ PairInv /\ RspInv /\ BacklogInv
      /\ UNCHANGED <<last_server, mapped, connecting, login, backlog>>
  BY DEF IInv, WorkStep
<1>1. Peer(e) \in Ends /\ Peer(e) # e /\ Peer(Peer(e)) = e /\ C \in Ends /\ S \in Ends /\ \A d \in Ends : d = e \/ d = Peer(e)
  BY EndsAre
<1>2. \A d \in Ends : sock'[d].fd = sock[d].fd /\ (sock'[d].up => sock[d].up)
  BY DEF WorkStep
<1>3. \A d \in Ends : Source(d)' = Source(d)
  BY <1>0, <1>2 DEF Source
<1>4. MoreTypes'
  BY <1>0 DEF MoreTypes, WorkStep
<1>5. TypeOK'
  <2>1. \A d \in Ends : sock'[d].up => sock'[d].fd # NoFd
    BY <1>0, <1>2 DEF TypeOK
  <2>2. /\ \A k \in Fds, d \in Ends : Len(net'[k].out[d]) <= WireCap
        /\ \A d \in Ends : part'[d] \in Seq(Blocks) /\ inbox'[d] \in Seq(Seq(Blocks))
    BY DEF WorkStep
  <2>3. file' \in [Ends -> Queues]
    BY DEF WorkStep
  <2>4. file' \in [Ends -> [blk : [0 .. BLK_CNT - 1 -> Blocks],
                            write_idx : 0 .. BLK_CNT, read_idx : 0 .. BLK_CNT,
                            send_idx : 0 .. BLK_CNT, read_seq : UInt, ack_seq : UInt]]
    BY <2>3, FileTypes
  <2> QED BY <1>0, <2>1, <2>2, <2>4 DEF TypeOK, WorkStep
<1>6. /\ e = C => last_server /\ connecting = NoFd
      /\ e = S => file'[C] = file[C] /\ pushed'[C] = pushed[C]
  BY <1>0, EndsAre DEF PhaseInv, WorkStep
<1>7. ASSUME NEW k \in Fds, NEW d \in Ends
      PROVE  /\ net'[k].open[d] = net[k].open[d] /\ net'[k].rsp = net[k].rsp
             /\ \/ net'[k].out[d] = net[k].out[d]
                \/ sock[e].fd = k /\ (IF d = e THEN net[k].open[e] ELSE net[k].out[d] # <<>>)
  BY DEF WorkStep
<1>8. \A k \in Fds : net'[k].rsp = net[k].rsp
  BY <1>1, <1>7
<1>9. inbox[e] # <<>> => Len(inbox[e]) # 0
  <2>1. inbox[e] \in Seq(Seq(Blocks))
    BY <1>0 DEF MoreTypes
  <2> QED BY <2>1
\* A server on a barren connection stays there, and receives nothing.
<1>10. ASSUME Barren, Source(S) \notin {NoFd, Source(C)}
       PROVE  Barren' /\ (e = S => file'[S].ack_seq = file[S].ack_seq)
  <2>1. PICK k \in Fds : k = Source(S) /\ k # NoFd /\ k # Source(C)
    BY <1>10, <1>0, <1>1, EndTypes
  <2>2. /\ ~ net[k].open[C] /\ net[k].out[C] = <<>> /\ Received(S) = 0 /\ Partial(S) = <<>>
    BY <1>10, <2>1 DEF Barren
  <2>3. sock[C].fd # k
    BY <2>1 DEF Source
  <2>4. net'[k].open[C] = net[k].open[C] /\ net'[k].out[C] = net[k].out[C]
    BY <2>2, <2>3, <1>1, <1>7, EndsAre
  <2>5. CASE e = C \/ sock[S].fd = NoFd
    <3>1. inbox'[S] = inbox[S] /\ part'[S] = part[S]
      BY <2>5, EndsAre DEF WorkStep
    <3>2. e = S => file'[S].ack_seq = file[S].ack_seq
      BY <2>5, EndsAre DEF WorkStep
    <3> QED BY <3>1, <3>2, <2>1, <2>2, <2>4, <1>1, <1>2, <1>3 DEF Barren, Received, Partial
  <2>6. CASE e = S /\ sock[S].fd # NoFd
    <3>1. sock[S].fd = k /\ inbox[S] = <<>>
      BY <2>1, <2>2, <2>6, <1>9 DEF Source, Received
    <3>2. inbox'[S] = inbox[S] /\ part'[S] = part[S]
      BY <2>2, <2>6, <3>1, EndsAre DEF WorkStep
    <3>3. file'[S].ack_seq = file[S].ack_seq
      BY <2>6, <3>1, EndsAre DEF WorkStep
    <3> QED BY <3>2, <3>3, <2>1, <2>2, <2>4, <1>1, <1>2, <1>3 DEF Barren, Received, Partial
  <2> QED BY <2>5, <2>6, EndsAre
<1>11. Settled => Settled'
  BY <1>1, <1>3, <1>10 DEF Settled
<1>12. PhaseInv'
  <2>1. ~ last_server' => file'[C] = ZeroQueue /\ pushed'[C] = 0 /\ ~ mapped' /\ sock'[C].fd = NoFd
    <3>1. CASE e = C
      BY <3>1, <1>6, <1>0
    <3>2. CASE e = S
      BY <3>2, <1>6, <1>0, <1>1, <1>2 DEF PhaseInv
    <3> QED BY <3>1, <3>2, EndsAre
  <2>2. alloced'[C] => mapped' /\ connecting' = NoFd
    <3>1. alloced'[C] => alloced[C] \/ (mapped /\ connecting = NoFd)
      BY EndsAre DEF WorkStep
    <3> QED BY <3>1, <1>0 DEF PhaseInv
  <2>3. alloced'[S] => sock'[S].fd # NoFd
    <3>1. alloced'[S] => alloced[S] \/ sock[S].fd # NoFd
      BY EndsAre DEF WorkStep
    <3> QED BY <3>1, <1>0, <1>1, <1>2 DEF PhaseInv
  <2>4. ASSUME login # NoLogin
        PROVE  /\ login.fd # NoFd /\ Off(file'[S], login.ack) <= Off(file'[S], file'[C].ack_seq)
               /\ \/ login.fd = Source(C)' \/ net'[login.fd].open[C] \/ net'[login.fd].out[C] # <<>>
                  => login.ack = file'[C].ack_seq
    <3>1. /\ login.fd # NoFd /\ sock[S].fd = NoFd /\ Off(file[S], login.ack) <= Off(file[S], file[C].ack_seq)
          /\ \/ login.fd = Source(C) \/ net[login.fd].open[C] \/ net[login.fd].out[C] # <<>>
             => login.ack = file[C].ack_seq
      BY <2>4, <1>0 DEF PhaseInv
    <3>2. login.fd \in Fds /\ Source(S) = login.fd /\ login \in [fd : Fds \cup {NoFd}, ack : UInt]
      BY <3>1, <1>0, EndsAre DEF TypeOK, MoreTypes, Source
    <3>3. CASE e = S
      <4>1. file'[S].read_seq = file[S].read_seq /\ file'[C].ack_seq = file[C].ack_seq
        BY <3>1, <3>3, <1>6 DEF WorkStep
      <4>2. \A x : Off(file'[S], x) = Off(file[S], x)
        BY <4>1 DEF Off
      <4>3. sock[e].fd # login.fd
        BY <3>1, <3>3
      <4>4. net'[login.fd].open[C] = net[login.fd].open[C] /\ net'[login.fd].out[C] = net[login.fd].out[C]
        BY <4>3, <3>2, <1>1, <1>7
      <4> QED BY <3>1, <4>1, <4>2, <4>4, <1>1, <1>3
    <3>4. CASE e = C
      <4>1. Peer(C) = S /\ file'[S] = file[S] /\ Off(file[S], file[C].ack_seq) <= Off(file[S], file'[C].ack_seq)
        BY <3>4, EndsAre DEF WorkStep
      <4>2. /\ Off(file[S], login.ack) \in Int /\ Off(file[S], file[C].ack_seq) \in Int
            /\ Off(file[S], file'[C].ack_seq) \in Int
        <5>1. /\ login.ack \in UInt /\ file[S] \in Queues /\ file[C].ack_seq \in UInt
              /\ file'[C] \in Queues
          BY <3>2, <1>0, <1>1, EndTypes DEF WorkStep
        <5> QED BY <5>1, OffRange, QueueFields
      <4>3. Off(file'[S], login.ack) <= Off(file'[S], file'[C].ack_seq)
        BY <4>1, <4>2, <3>1
      <4>4. CASE file'[C].ack_seq = file[C].ack_seq
        <5>1. net'[login.fd].open[C] = net[login.fd].open[C]
          BY <3>2, <1>1, <1>7
        <5>2. net'[login.fd].out[C] = net[login.fd].out[C] \/ sock[C].fd = login.fd
          BY <3>2, <3>4, <1>1, <1>7
        <5>3. sock[C].fd = login.fd => login.fd = Source(C)
          BY <3>1 DEF Source
        <5> QED BY <3>1, <4>3, <4>4, <5>1, <5>2, <5>3, <1>1, <1>3
      <4>5. CASE file'[C].ack_seq # file[C].ack_seq
        <5>1. sock[C].fd # NoFd /\ Received(C) # 0 /\ Settled /\ Source(C) = sock[C].fd
          BY <3>4, <4>5, <1>0, <1>9 DEF WorkStep, Received, PairInv, Source
        <5>2. Source(S) # Source(C)
          BY <3>1, <3>2, <5>1, <1>0, <1>1, EndsAre DEF PairInv
        <5>3. Barren
          BY <3>1, <3>2, <5>1, <5>2 DEF Settled
        <5>4. Barren' /\ Source(S)' = login.fd
          BY <5>2, <5>3, <3>1, <3>2, <1>1, <1>3, <1>10
        <5> QED BY <3>1, <3>2, <4>3, <5>2, <5>4, <1>1, <1>3 DEF Barren
      <4> QED BY <4>4, <4>5
    <3> QED BY <3>3, <3>4, EndsAre
  <2> QED BY <2>1, <2>2, <2>3, <2>4, <1>0, <1>1, <1>2 DEF PhaseInv
<1>13. PairInv'
  <2>1. sock'[C].fd # NoFd => Settled'
    BY <1>0, <1>1, <1>2, <1>11 DEF PairInv
  <2>2. ASSUME NEW d \in Ends, Source(d)' # NoFd, net'[Source(d)'].open[Peer(d)]
        PROVE  net'[Source(d)'].open[d]
    <3>1. Source(d)' = Source(d) /\ Source(d) \in Fds /\ Peer(d) \in Ends
      BY <2>2, <1>0, <1>3, EndTypes, EndsAre
    <3>2. net'[Source(d)].open[Peer(d)] = net[Source(d)].open[Peer(d)] /\ net'[Source(d)].open[d] = net[Source(d)].open[d]
      BY <3>1, <1>7
    <3> QED BY <2>2, <3>1, <3>2, <1>0 DEF PairInv
  <2>3. ASSUME Source(C)' = Source(S)', Source(S)' # NoFd, NEW d \in Ends, sock'[d].fd = NoFd
        PROVE  /\ net'[Source(S)'].out[d] = <<>>
               /\ Received(Peer(d))' = 0 /\ Partial(Peer(d))' = <<>>
    <3>1. PICK k \in Fds : k = Source(S)
      BY <2>3, <1>0, <1>1, <1>3, EndTypes
    <3>2. /\ Source(C) = k /\ Source(S)' = k /\ k # NoFd /\ sock[d].fd = NoFd /\ Peer(d) \in Ends
          /\ Source(e) = k /\ Source(Peer(e)) = k
      BY <2>3, <3>1, <1>1, <1>2, <1>3, EndsAre
    <3>3. net[k].out[d] = <<>> /\ Received(Peer(d)) = 0 /\ Partial(Peer(d)) = <<>>
      BY <3>1, <3>2, <1>0 DEF PairInv
    <3>4. net'[k].out[d] = <<>>
      BY <3>2, <3>3, <1>7
    <3>5. CASE Peer(d) # e \/ sock[e].fd = NoFd
      <4>1. inbox'[Peer(d)] = inbox[Peer(d)] /\ part'[Peer(d)] = part[Peer(d)]
        BY <3>2, <3>5 DEF WorkStep
      <4> QED BY <4>1, <3>1, <3>2, <3>3, <3>4, <1>2 DEF Received, Partial
    <3>6. CASE Peer(d) = e /\ sock[e].fd # NoFd
      <4>1. sock[e].fd = k /\ d = Peer(e)
        BY <3>2, <3>6, EndsAre DEF Source
      <4>2. inbox[e] = <<>>
        BY <3>3, <3>6, <1>9 DEF Received
      <4>3. inbox'[e] = inbox[e] /\ part'[e] = part[e]
        BY <4>1, <4>2, <3>3, <1>1 DEF WorkStep
      <4> QED BY <4>3, <3>1, <3>2, <3>3, <3>4, <3>6, <1>2 DEF Received, Partial
    <3> QED BY <3>5, <3>6
  <2> QED BY <2>1, <2>2, <2>3 DEF PairInv
<1>14. RspInv'
  <2>1. ASSUME NEW k \in Fds, net'[k].rsp.status # "none"
        PROVE  /\ net'[k].open[C] /\ k = connecting' /\ \A m \in backlog' : m.fd # k
               /\ net'[k].rsp.status \notin {"mismatch", "corrupt"}
    <3>1. net'[k].rsp = net[k].rsp /\ net'[k].open[C] = net[k].open[C]
      BY <1>1, <1>7
    <3> QED BY <2>1, <3>1, <1>0 DEF RspInv
  <2>2. ASSUME connecting # NoFd
        PROVE  IF net'[connecting].rsp.status = "ok"
               THEN net'[connecting].rsp.ack = file'[S].ack_seq /\ Settled'
               ELSE /\ net'[connecting].out[S] = <<>>
                    /\ Source(S)' = connecting => ~ net'[connecting].open[S]
    <3>1. PICK k \in Fds : k = connecting /\ k # NoFd
      BY <2>2, <1>0 DEF TypeOK
    <3>2. net'[k].rsp = net[k].rsp /\ e = S /\ sock[C].fd = NoFd /\ Source(C) = k
      BY <3>1, <1>0, <1>6, <1>8, EndsAre DEF PhaseInv, Source
    <3>3. CASE net[k].rsp.status = "ok"
      <4>1. net[k].rsp.ack = file[S].ack_seq /\ Settled
        BY <3>1, <3>3, <1>0 DEF RspInv
      <4>2. file'[S].ack_seq = file[S].ack_seq
        <5>1. CASE Source(S) \in {NoFd, Source(C)}
          <6> SUFFICES ASSUME file'[S].ack_seq # file[S].ack_seq PROVE FALSE
            OBVIOUS
          <6>1. sock[S].fd # NoFd /\ inbox[S] # <<>>
            BY <3>2 DEF WorkStep
          <6>2. Source(S) = k
            BY <3>2, <5>1, <6>1 DEF Source
          <6>3. Received(S) = 0
            BY <3>1, <3>2, <6>2, <1>0, <1>1, EndsAre DEF PairInv
          <6> QED BY <3>2, <6>1, <6>3, <1>9 DEF Received
        <5>2. CASE Source(S) \notin {NoFd, Source(C)}
          BY <3>2, <4>1, <5>2, <1>10 DEF Settled
        <5> QED BY <5>1, <5>2
      <4> QED BY <3>1, <3>2, <3>3, <4>1, <4>2, <1>11
    <3>4. CASE net[k].rsp.status # "ok"
      <4>1. net[k].out[S] = <<>> /\ (Source(S) = k => ~ net[k].open[S])
        BY <3>1, <3>4, <1>0 DEF RspInv
      <4>2. net'[k].open[S] = net[k].open[S]
        BY <1>1, <1>7
      <4>3. sock[S].fd = k => ~ net[k].open[S]
        BY <3>1, <4>1 DEF Source
      <4>4. net'[k].out[S] = net[k].out[S]
        BY <3>2, <4>3, <1>1, <1>7
      <4> QED BY <3>1, <3>2, <3>4, <4>1, <4>2, <4>4, <1>1, <1>3
    <3> QED BY <3>3, <3>4
  <2> QED BY <2>1, <2>2, <1>0 DEF RspInv
<1>15. BacklogInv'
  <2>1. ASSUME NEW m \in backlog
        PROVE  LoginMsgInv(m)'
    <3>1. m.fd \in Fds /\ m.fd # NoFd /\ LoginMsgInv(m)
      BY <1>0, BacklogFds, BacklogIs
    <3>2. sock[e].fd # m.fd
      <4>1. CASE e = C
        BY <4>1, <3>1 DEF LoginMsgInv
      <4>2. CASE e = S
        BY <4>2, <3>1 DEF Source, LoginMsgInv
      <4> QED BY <4>1, <4>2, EndsAre
    <3>3. \A d \in Ends : net'[m.fd].out[d] = net[m.fd].out[d] /\ net'[m.fd].open[d] = net[m.fd].open[d]
      BY <3>1, <3>2, <1>7
    <3>4. m.fd = connecting => file'[C] = file[C] /\ pushed'[C] = pushed[C]
      BY <3>1, <1>6, EndsAre
    <3> QED BY <3>1, <3>3, <3>4, <1>0, <1>1, <1>2, <1>3 DEF LoginMsgInv
  <2>2. \A m, n \in backlog : m.fd = n.fd => m = n
    BY <1>0 DEF BacklogInv
  <2>3. \A m \in backlog : LoginMsgInv(m)'
    BY <2>1
  <2> QED BY <2>2, <2>3, <1>0 DEF BacklogInv, LoginMsgInv
<1> QED BY <1>3, <1>4, <1>5, <1>12, <1>13, <1>14, <1>15

-----------------------------------------------------------------------------
(* Sending.                                                                *)

\* Blocks written to a socket.
LEMMA TransmitIs ==
  ASSUME NEW n \in Conns, NEW e \in Ends, NEW blocks \in Seq(Blocks), NEW m \in Nat,
         Len(n.out[e]) + Len(blocks) <= m
  PROVE  LET t == Transmit(n, e, blocks)
         IN  /\ t \in Conns /\ t.open = n.open /\ t.rsp = n.rsp /\ t.out[Peer(e)] = n.out[Peer(e)]
             /\ t.out[e] = IF n.open[Peer(e)] THEN n.out[e] \o blocks ELSE n.out[e]
             /\ Len(t.out[e]) <= m
<1> DEFINE w == n.out[e] \o blocks
           out == [n.out EXCEPT ![e] = w]
<1>1. Peer(e) \in Ends /\ Peer(e) # e
  BY EndsAre
<1>2. n.out[e] \in Seq(Blocks) /\ n.out \in [Ends -> Seq(Blocks)] /\ Len(n.out[e]) \in Nat /\ Len(blocks) \in Nat
  BY ConnFields
<1>3. w \in Seq(Blocks) /\ Len(w) = Len(n.out[e]) + Len(blocks)
  BY <1>2, ConcatProperties
<1>4. CASE ~ n.open[Peer(e)]
  BY <1>2, <1>4 DEF Transmit
<1>5. CASE n.open[Peer(e)]
  <2> HIDE DEF w
  <2>1. Transmit(n, e, blocks) = [n EXCEPT !.out = out]
    BY <1>5 DEF Transmit, w, Conns
  <2>2. out \in [Ends -> Seq(Blocks)] /\ out[e] = w /\ out[Peer(e)] = n.out[Peer(e)]
    BY <1>1, <1>2, <1>3
  <2> HIDE DEF out
  <2>3. LET t == Transmit(n, e, blocks)
        IN  t \in Conns /\ t.open = n.open /\ t.rsp = n.rsp /\ t.out = out
    BY <2>1, <2>2 DEF Conns
  <2> QED BY <1>3, <1>5, <2>2, <2>3 DEF w
<1> QED BY <1>4, <1>5

\* Queue q and connection n of end e stay as they are, or k more blocks go out.
SendsBlocks(e, q, n, r) ==
  \/ r.q = q /\ r.n = n
  \/ /\ n.open[e]
     /\ \E k \in Nat :
          /\ k <= Pending(q) /\ (r.up => r.q.send_idx = q.send_idx + k)
          /\ n.open[Peer(e)] => r.n.out[e] = n.out[e] \o Sendable(q, k)
          /\ ~ n.open[Peer(e)] => r.n = n

\* What SendPending() can come to: the queue sends k more blocks and knows it, or
\* it does not and the connection is closed.
LEMMA SendPendingIs ==
  ASSUME NEW e \in Ends, NEW q \in Queues, SendInv(q), NEW n \in Conns, Len(n.out[e]) <= WireCap,
         NEW r \in SendPending(e, q, n)
  PROVE  /\ r.q \in Queues /\ r.q.blk = q.blk /\ r.q.write_idx = q.write_idx /\ r.q.read_idx = q.read_idx
         /\ r.q.read_seq = q.read_seq /\ r.q.ack_seq = q.ack_seq
         /\ SendInv(r.q) /\ r.q.send_idx >= q.send_idx
         /\ r.n \in Conns /\ r.n.open = n.open /\ r.n.rsp = n.rsp /\ r.n.out[Peer(e)] = n.out[Peer(e)]
         /\ Len(r.n.out[e]) <= WireCap
         /\ r.up \in BOOLEAN /\ r.cut \in BOOLEAN /\ (r.cut => budget > 0)
         /\ r.n = n \/ n.open[e]
         /\ SendsBlocks(e, q, n, r)
<1> DEFINE room == WireCap - Len(n.out[e])
           k == Least(Pending(q), room)
           sent == Transmit(n, e, Sendable(q, k))
<1>1. /\ q.read_idx \in Nat /\ q.write_idx \in Nat /\ q.send_idx \in Nat /\ q.read_idx <= q.send_idx
      /\ q.send_idx <= q.write_idx
  BY QueueFields DEF SendInv
<1>2. Pending(q) \in Nat /\ room \in Nat /\ WireCap \in Nat /\ Len(n.out[e]) \in Nat
  <2>1. Len(n.out[e]) \in Nat
    BY ConnFields
  <2>2. WireCap \in Nat
    BY SessionAssumption
  <2> QED BY <1>1, <2>1, <2>2 DEF Pending
<1>3. k \in Nat /\ k <= Pending(q) /\ k <= room /\ Len(n.out[e]) + k <= WireCap
  BY <1>2 DEF Least
<1> HIDE DEF k
<1>4. q.send_idx + k <= q.write_idx
  BY <1>1, <1>3 DEF Pending
<1>5. Sendable(q, k) \in Seq(Blocks) /\ Len(Sendable(q, k)) = k
  <2>1. \A j \in 1 .. k : q.blk[q.send_idx + j - 1] \in Blocks
    <3> TAKE j \in 1 .. k
    <3>1. q.send_idx + j - 1 \in 0 .. BLK_CNT - 1
      BY <1>1, <1>3, <1>4, QueueFields, Widths, SMTT(30)
    <3> QED BY <3>1, QueueFields, BlocksAre
  <2>2. Sendable(q, k) \in [1 .. k -> Blocks]
    BY <2>1 DEF Sendable
  <2> QED BY <2>2, <1>3
<1>6. /\ sent \in Conns /\ sent.open = n.open /\ sent.rsp = n.rsp /\ sent.out[Peer(e)] = n.out[Peer(e)]
      /\ sent.out[e] = IF n.open[Peer(e)] THEN n.out[e] \o Sendable(q, k) ELSE n.out[e]
      /\ Len(sent.out[e]) <= WireCap
  <2>1. Len(n.out[e]) + Len(Sendable(q, k)) <= WireCap
    BY <1>3, <1>5
  <2> QED BY <2>1, <1>2, <1>5, TransmitIs
<1>7. ~ n.open[Peer(e)] => sent = n
  BY DEF Transmit
<1>8. LET q2 == Sendout(q, k)
      IN  /\ q2 \in Queues /\ q2.send_idx = q.send_idx + k /\ q2.blk = q.blk
          /\ q2.write_idx = q.write_idx /\ q2.read_idx = q.read_idx
          /\ q2.read_seq = q.read_seq /\ q2.ack_seq = q.ack_seq
  BY <1>3, <1>4, SendoutIs
<1> DEFINE q2 == Sendout(q, k)
<1>9. /\ q2 \in Queues /\ q2.send_idx = q.send_idx + k /\ q2.blk = q.blk
      /\ q2.write_idx = q.write_idx /\ q2.read_idx = q.read_idx
      /\ q2.read_seq = q.read_seq /\ q2.ack_seq = q.ack_seq
  BY <1>8
<1> HIDE DEF sent, q2
<1>10. SendInv(q2) /\ q2.send_idx >= q.send_idx /\ q.send_idx >= q.send_idx
  BY <1>1, <1>3, <1>4, <1>9 DEF SendInv
<1>11. \/ r.q = q /\ r.n = n /\ r.up \in BOOLEAN /\ r.cut = FALSE
       \/ n.open[e] /\ r.q = q2 /\ r.n = sent /\ r.up = TRUE /\ r.cut = FALSE
       \/ n.open[e] /\ r.q = q /\ r.n = sent /\ r.up = FALSE /\ r.cut = TRUE /\ budget > 0
  <2> DEFINE stay == [q |-> q, n |-> n, up |-> TRUE, cut |-> FALSE]
             fall == [q |-> q, n |-> n, up |-> FALSE, cut |-> FALSE]
             all == [q |-> q2, n |-> sent, up |-> TRUE, cut |-> FALSE]
             some == [q |-> q, n |-> sent, up |-> FALSE, cut |-> TRUE]
  <2>1. SendPending(e, q, n) =
          IF Pending(q) = 0 THEN {stay}
          ELSE IF ~ n.open[e] THEN {fall}
          ELSE {all} \cup IF k < Pending(q) /\ budget > 0 THEN {some} ELSE {}
    BY DEF SendPending, sent, q2, k
  <2>2. /\ stay.q = q /\ stay.n = n /\ stay.up = TRUE /\ stay.cut = FALSE
        /\ fall.q = q /\ fall.n = n /\ fall.up = FALSE /\ fall.cut = FALSE
        /\ all.q = q2 /\ all.n = sent /\ all.up = TRUE /\ all.cut = FALSE
        /\ some.q = q /\ some.n = sent /\ some.up = FALSE /\ some.cut = TRUE
    OBVIOUS
  <2> HIDE DEF stay, fall, all, some
  <2>3. r = stay \/ r = fall \/ (n.open[e] /\ r = all) \/ (n.open[e] /\ r = some /\ budget > 0)
    BY <2>1
  <2>4. CASE r = stay
    BY <2>2, <2>4
  <2>5. CASE r = fall
    BY <2>2, <2>5
  <2>6. CASE n.open[e] /\ r = all
    BY <2>2, <2>6
  <2>7. CASE n.open[e] /\ r = some /\ budget > 0
    BY <2>2, <2>7
  <2> QED BY <2>3, <2>4, <2>5, <2>6, <2>7
<1>12. CASE r.q = q /\ r.n = n /\ r.up \in BOOLEAN /\ r.cut = FALSE
  <2>1. SendsBlocks(e, q, n, r)
    BY <1>12 DEF SendsBlocks
  <2> QED BY <2>1, <1>12, <1>10
<1>13. CASE n.open[e] /\ r.q = q2 /\ r.n = sent /\ r.up = TRUE /\ r.cut = FALSE
  <2>1. /\ k \in Nat /\ k <= Pending(q) /\ r.q.send_idx = q.send_idx + k
        /\ n.open[Peer(e)] => r.n.out[e] = n.out[e] \o Sendable(q, k)
        /\ ~ n.open[Peer(e)] => r.n = n
    BY <1>3, <1>6, <1>7, <1>9, <1>13
  <2>2. SendsBlocks(e, q, n, r)
    BY <2>1, <1>13 DEF SendsBlocks
  <2> QED BY <2>2, <1>6, <1>9, <1>10, <1>13
<1>14. CASE n.open[e] /\ r.q = q /\ r.n = sent /\ r.up = FALSE /\ r.cut = TRUE /\ budget > 0
  <2>1. /\ k \in Nat /\ k <= Pending(q) /\ ~ r.up
        /\ n.open[Peer(e)] => r.n.out[e] = n.out[e] \o Sendable(q, k)
        /\ ~ n.open[Peer(e)] => r.n = n
    BY <1>3, <1>6, <1>7, <1>14
  <2>2. SendsBlocks(e, q, n, r)
    BY <2>1, <1>14 DEF SendsBlocks
  <2> QED BY <2>2, <1>6, <1>10, <1>14
<1> QED BY <1>11, <1>12, <1>13, <1>14

\* The stream that an end is connected to goes on with what SendPending() sends.
LEMMA FlowSent ==
  ASSUME NEW e \in Ends, NEW q \in Queues, NEW p \in UInt, QueueInv(q, p), SendInv(q),
         NEW n \in Conns, Len(n.out[e]) <= WireCap, n.open[e] => n.open[Peer(e)],
         NEW have \in UInt, NEW cnt \in Nat, NEW prt \in Seq(Blocks),
         FlowOK(q, p, have, cnt, prt, n.out[e], TRUE, n.open[e]), NEW r \in SendPending(e, q, n)
  PROVE  FlowOK(r.q, p, have, cnt, prt, r.n.out[e], r.up, r.n.open[e])
<1> DEFINE q2 == r.q
           wire == n.out[e]
           up == TRUE
           open == n.open[e]
           up2 == r.up
           open2 == r.n.open[e]
<1>1. /\ q2 \in Queues /\ q2.blk = q.blk /\ q2.write_idx = q.write_idx /\ q2.read_idx = q.read_idx
      /\ q2.read_seq = q.read_seq /\ r.n.open = n.open
      /\ \/ q2 = q /\ r.n = n
         \/ /\ n.open[e]
            /\ \E k \in Nat :
                 /\ k <= Pending(q) /\ (r.up => q2.send_idx = q.send_idx + k)
                 /\ n.open[Peer(e)] => r.n.out[e] = wire \o Sendable(q, k)
                 /\ ~ n.open[Peer(e)] => r.n = n
  <2>1. /\ r.q \in Queues /\ r.q.blk = q.blk /\ r.q.write_idx = q.write_idx /\ r.q.read_idx = q.read_idx
        /\ r.q.read_seq = q.read_seq /\ r.n.open = n.open
    BY SendPendingIs
  <2>2. SendsBlocks(e, q, n, r)
    BY SendPendingIs
  <2> QED BY <2>1, <2>2 DEF SendsBlocks
<1>2. wire \in Seq(Blocks) /\ open \in BOOLEAN
  BY ConnFields
<1>3. FlowOK(q, p, have, cnt, prt, wire, up, open) /\ open2 = open
  BY <1>1
<1> HIDE DEF q2, wire, up, open, up2, open2
<1>4. CASE q2 = q /\ r.n = n
  <2>1. FlowOK(q2, p, have, cnt, prt, wire, up2, open2)
    <3>1. up2 => up /\ q2.send_idx = q.send_idx
      BY <1>4 DEF up
    <3> QED BY <1>1, <1>3, <3>1, FlowSame
  <2> QED BY <1>4, <2>1 DEF q2, wire, up2, open2
<1>5. CASE /\ n.open[e]
           /\ \E k \in Nat :
                /\ k <= Pending(q) /\ (r.up => q2.send_idx = q.send_idx + k)
                /\ n.open[Peer(e)] => r.n.out[e] = wire \o Sendable(q, k)
                /\ ~ n.open[Peer(e)] => r.n = n
  <2>1. PICK k \in Nat : /\ k <= Pending(q) /\ (r.up => q2.send_idx = q.send_idx + k)
                         /\ r.n.out[e] = wire \o Sendable(q, k)
    BY <1>5
  <2>2. open = TRUE
    BY <1>2, <1>5 DEF open
  <2>3. FlowOK(q, p, have, cnt, prt, wire, TRUE, TRUE)
    BY <1>3, <2>2 DEF up
  <2>4. up2 => q2.send_idx = q.send_idx + k
    BY <2>1 DEF up2
  <2>5. FlowOK(q2, p, have, cnt, prt, wire \o Sendable(q, k), up2, open2)
    BY <1>1, <1>2, <2>1, <2>3, <2>4, FlowSends
  <2> QED BY <2>1, <2>5 DEF q2, up2, open2
<1> QED BY <1>1, <1>4, <1>5

\* Nothing that an end hears of is new to it in such a step.
LEMMA HeardWork ==
  ASSUME TypeOK, MoreTypes, NEW e \in Ends, WorkStep(e), NEW d \in Ends
  PROVE  Heard(d)' => Heard(d)
<1> DEFINE k == sock[d].fd
           o == Peer(d)
<1> SUFFICES ASSUME Heard(d)'
             PROVE  Heard(d)
  OBVIOUS
<1>1. sock'[d].fd = k /\ (sock'[d].up => sock[d].up) /\ o \in Ends
  BY EndsAre DEF WorkStep
<1>2. sock'[d].up /\ (net'[k].open[o] \/ net'[k].out[o] # <<>>)
  BY <1>1 DEF Heard
<1>3. k \in Fds
  BY <1>1, <1>2, EndTypes
<1>4. net'[k].open[o] = net[k].open[o]
  BY <1>1, <1>3 DEF WorkStep
<1>5. net'[k].out[o] = net[k].out[o] \/ (IF o = e THEN net[k].open[e] ELSE net[k].out[o] # <<>>)
  BY <1>1, <1>3 DEF WorkStep
<1> QED BY <1>1, <1>2, <1>4, <1>5 DEF Heard

\* An end that consumes nothing has what it had.
LEMMA AckStays ==
  ASSUME TypeOK, MoreTypes, NEW e \in Ends, file'[e].ack_seq = file[e].ack_seq
  PROVE  Off(file[Peer(e)], file[e].ack_seq) <= Off(file[Peer(e)], file'[e].ack_seq)
<1>1. Peer(e) \in Ends
  BY EndsAre
<1>2. file[Peer(e)] \in Queues /\ file[e].ack_seq \in UInt
  BY <1>1, EndTypes
<1>3. Off(file[Peer(e)], file[e].ack_seq) \in Nat
  BY <1>2, OffRange
<1> QED BY <1>3

\* A step in which e changes its own queue and what it has sent keeps the
\* invariant when the streams of that queue go on.
LEMMA OutKeeps ==
  ASSUME IInv, NEW e \in Ends, WorkStep(e), UNCHANGED <<inbox, part>>,
         QueueInv(file'[e], pushed'[e]), SendInv(file'[e]),
         alloced'[e] => AllocInv(file'[e], pushed'[e]), alloced'[Peer(e)] => alloced[Peer(e)],
         file'[e].ack_seq = file[e].ack_seq, sock'[Peer(e)] = sock[Peer(e)],
         \A k \in Fds : net'[k].out[Peer(e)] = net[k].out[Peer(e)],
         AckedOK(file'[e], pushed'[e], file[Peer(e)].ack_seq, Heard(e)'),
         \A k \in Fds : k = Source(Peer(e)) =>
           FlowOK(file'[e], pushed'[e], file[Peer(e)].ack_seq, Received(Peer(e)), Partial(Peer(e)),
                  net'[k].out[e], sock'[e].up /\ sock[e].fd = k, net[k].open[e])
  PROVE  IInv'
<1> DEFINE p == Peer(e)
<1>0. TypeOK /\ MoreTypes /\ QueuesInv /\ InOrder /\ \A d \in Ends : Acked(d) /\ Flow(d)
  BY DEF IInv
<1>1. /\ TypeOK' /\ MoreTypes' /\ PhaseInv' /\ PairInv' /\ RspInv' /\ BacklogInv'
      /\ \A d \in Ends : Source(d)' = Source(d)
  BY WorkKeeps
<1>2. p \in Ends /\ p # e /\ Peer(p) = e /\ \A d \in Ends : d = e \/ d = p
  BY EndsAre
<1>3. /\ file'[p] = file[p] /\ pushed'[p] = pushed[p] /\ file' \in [Ends -> Queues]
      /\ \A d \in Ends : sock'[d].fd = sock[d].fd
      /\ \A k \in Fds, d \in Ends : net'[k].open[d] = net[k].open[d]
  BY DEF WorkStep
<1>4. QueuesInv'
  <2> SUFFICES ASSUME NEW d \in Ends
               PROVE  /\ QueueInv(file'[d], pushed'[d]) /\ SendInv(file'[d])
                      /\ alloced'[d] => AllocInv(file'[d], pushed'[d])
    BY DEF QueuesInv
  <2>1. CASE d = e
    BY <2>1
  <2>2. CASE d = p
    BY <2>2, <1>0, <1>2, <1>3 DEF QueuesInv
  <2> QED BY <2>1, <2>2, <1>2
<1>5. InOrder'
  <2> SUFFICES ASSUME NEW d \in Ends, NEW i \in DOMAIN inbox'[d]
               PROVE  IsMessage(inbox'[d][i], Add(file'[d].ack_seq, i - 1))
    BY DEF InOrder
  <2>1. file'[d].ack_seq = file[d].ack_seq
    BY <1>2, <1>3
  <2> QED BY <2>1, <1>0 DEF InOrder
<1>6. \A d \in Ends : Received(d)' = Received(d) /\ Partial(d)' = Partial(d)
  BY <1>3 DEF Received, Partial
<1>7. Acked(e)'
  BY <1>1, <1>2, <1>3 DEF Acked
<1>8. Acked(p)'
  <2>1. SameQueue(p) /\ file'[p] \in Queues /\ file'[Peer(p)].ack_seq = file[Peer(p)].ack_seq
    BY <1>2, <1>3 DEF SameQueue
  <2>2. file[p].send_idx \in Int
    BY <1>0, <1>2, EndTypes, QueueFields
  <2>3. Heard(p)' => Heard(p) /\ file'[p].send_idx >= file[p].send_idx
    BY <2>2, <1>0, <1>2, <1>3, HeardWork
  <2> QED BY <2>1, <2>3, <1>0, <1>1, <1>2, AckedKept
<1>9. Flow(e)'
  <2> SUFFICES ASSUME NEW k \in Fds, k = Source(p)', k # NoFd
               PROVE  FlowOK(file'[e], pushed'[e], file'[p].ack_seq, Received(p)', Partial(p)',
                             net'[k].out[e], sock'[e].up /\ sock'[e].fd = k, net'[k].open[e])
    <3>1. Source(p)' \in Fds \cup {NoFd}
      BY <1>0, <1>1, <1>2, EndTypes
    <3> QED BY <3>1 DEF Flow
  <2>1. k = Source(p)
    BY <1>1, <1>2
  <2>2. net'[k].open[e] = net[k].open[e]
    BY <1>3
  <2> HIDE DEF p
  <2> QED BY <2>1, <2>2, <1>2, <1>3, <1>6 DEF p
<1>10. Flow(p)'
  <2>1. SameQueue(p) /\ file'[Peer(p)].ack_seq = file[Peer(p)].ack_seq
    BY <1>2, <1>3 DEF SameQueue
  <2>2. sock'[p].up => sock[p].up /\ sock'[p].fd = sock[p].fd /\ file'[p].send_idx = file[p].send_idx
    BY <1>3
  <2>3. Source(e)' # NoFd =>
           /\ Source(e)' = Source(e)
           /\ Received(e)' = Received(e) /\ Partial(e)' = Partial(e)
           /\ net'[Source(e)].out[p] = net[Source(e)].out[p]
           /\ net'[Source(e)].open[p] => net[Source(e)].open[p]
    <3>1. Source(e) \in Fds \cup {NoFd}
      BY <1>0, EndTypes
    <3> QED BY <3>1, <1>1, <1>2, <1>3, <1>6
  <2> QED BY <2>1, <2>2, <2>3, <1>0, <1>1, <1>2, FlowKept
<1> QED BY <1>1, <1>2, <1>4, <1>5, <1>7, <1>8, <1>9, <1>10 DEF IInv

\* What Sent() does to the variables.
LEMMA SentIs ==
  ASSUME IInv, NEW e \in Ends, NEW r, Sent(e, r), r.q \in Queues, r.up \in BOOLEAN,
         r.cut \in BOOLEAN, r.cut => budget > 0,
         sock[e].up => /\ r.n \in Conns /\ Len(r.n.out[e]) <= WireCap
                       /\ r.n.open = net[sock[e].fd].open /\ r.n.rsp = net[sock[e].fd].rsp
                       /\ r.n.out[Peer(e)] = net[sock[e].fd].out[Peer(e)]
                       /\ r.n.out[e] = net[sock[e].fd].out[e] \/ net[sock[e].fd].open[e]
  PROVE  /\ file' \in [Ends -> Queues] /\ file'[e] = r.q /\ file'[Peer(e)] = file[Peer(e)]
         /\ sock' \in [Ends -> [up : BOOLEAN, fd : Fds \cup {NoFd}]]
         /\ sock'[e].up = (sock[e].up /\ r.up) /\ sock'[e].fd = sock[e].fd
         /\ sock'[Peer(e)] = sock[Peer(e)]
         /\ budget' \in 0 .. MaxFailures /\ net' \in [Fds -> Conns]
         /\ \A k \in Fds, d \in Ends :
              /\ net'[k].open[d] = net[k].open[d] /\ net'[k].rsp = net[k].rsp
              /\ Len(net'[k].out[d]) <= WireCap
              /\ net'[k].out[d] = net[k].out[d] \/ (sock[e].up /\ sock[e].fd = k /\ d = e /\ net[k].open[e])
         /\ sock[e].up => net'[sock[e].fd] = r.n
         /\ \A k \in Fds : (k = sock[e].fd /\ sock[e].up) \/ net'[k] = net[k]
<1> DEFINE p == Peer(e)
<1>0. TypeOK /\ MoreTypes
  BY DEF IInv
<1>1. p \in Ends /\ p # e /\ \A d \in Ends : d = e \/ d = p
  BY EndsAre
<1>2. file \in [Ends -> Queues]
  BY <1>0, EndTypes DEF TypeOK
<1>3. file' \in [Ends -> Queues] /\ file'[e] = r.q /\ file'[p] = file[p]
  <2>1. file' = [file EXCEPT ![e] = r.q]
    BY DEF Sent
  <2> QED BY <2>1, <1>1, <1>2
<1>4. /\ sock' \in [Ends -> [up : BOOLEAN, fd : Fds \cup {NoFd}]]
      /\ sock'[e].up = (sock[e].up /\ r.up) /\ sock'[e].fd = sock[e].fd
      /\ sock'[p] = sock[p]
  <2>1. sock \in [Ends -> [up : BOOLEAN, fd : Fds \cup {NoFd}]]
    BY <1>0 DEF TypeOK
  <2>2. sock' = [sock EXCEPT ![e].up = @ /\ r.up]
    BY DEF Sent
  <2> DEFINE v == sock[e].up /\ r.up
             x == [up |-> v, fd |-> sock[e].fd]
  <2>3. v \in BOOLEAN /\ sock[e] \in [up : BOOLEAN, fd : Fds \cup {NoFd}]
    BY <2>1
  <2>7. sock' = [sock EXCEPT ![e].up = v]
    BY <2>2
  <2> HIDE DEF v
  <2>8. [sock[e] EXCEPT !.up = v] = x
    BY <2>3
  <2>4. sock' = [sock EXCEPT ![e] = x]
    <3> HIDE DEF x
    <3> QED BY <2>7, <2>8
  <2>5. x \in [up : BOOLEAN, fd : Fds \cup {NoFd}] /\ x.up = v /\ x.fd = sock[e].fd
    BY <2>3
  <2> HIDE DEF x
  <2>6. sock'[e] = x /\ sock'[p] = sock[p] /\ sock' \in [Ends -> [up : BOOLEAN, fd : Fds \cup {NoFd}]]
    BY <2>1, <2>4, <2>5, <1>1
  <2> QED BY <2>5, <2>6 DEF v
<1>5. budget' \in 0 .. MaxFailures
  <2>1. budget \in 0 .. MaxFailures /\ MaxFailures \in Nat /\ FailureCost \in {0, 1}
    BY <1>0, SessionAssumption DEF TypeOK
  <2>2. budget' = IF r.cut THEN budget - FailureCost ELSE budget
    BY DEF Sent, CutBudget
  <2> QED BY <2>1, <2>2
<1>6. net \in [Fds -> Conns] /\ \A k \in Fds, d \in Ends : Len(net[k].out[d]) <= WireCap
  BY <1>0 DEF MoreTypes, TypeOK
<1>7. CASE ~ sock[e].up
  <2>1. net' = net
    BY <1>7 DEF Sent
  <2> QED BY <2>1, <1>3, <1>4, <1>5, <1>6, <1>7
<1>8. CASE sock[e].up
  <2>1. PICK j \in Fds : j = sock[e].fd
    BY <1>0, <1>8, EndTypes
  <2>2. net' = [net EXCEPT ![j] = r.n] /\ r.n \in Conns /\ net[j] \in Conns
    BY <1>6, <1>8, <2>1 DEF Sent
  <2>3. net' \in [Fds -> Conns] /\ net'[j] = r.n /\ \A k \in Fds \ {j} : net'[k] = net[k]
    BY <1>6, <2>2, NetChanged
  <2>4. ASSUME NEW k \in Fds, NEW d \in Ends
        PROVE  /\ net'[k].open[d] = net[k].open[d] /\ net'[k].rsp = net[k].rsp
               /\ Len(net'[k].out[d]) <= WireCap
               /\ net'[k].out[d] = net[k].out[d] \/ (sock[e].up /\ sock[e].fd = k /\ d = e /\ net[k].open[e])
    <3>1. CASE k # j
      BY <3>1, <2>3, <1>6
    <3>2. CASE k = j
      <4>1. net'[k] = r.n /\ r.n.open = net[k].open /\ r.n.rsp = net[k].rsp /\ Len(r.n.out[e]) <= WireCap
            /\ r.n.out[p] = net[k].out[p] /\ (r.n.out[e] = net[k].out[e] \/ net[k].open[e])
        BY <3>2, <2>1, <2>3, <1>8
      <4>2. CASE d = e
        BY <4>1, <4>2, <3>2, <2>1, <1>8
      <4>3. CASE d = p
        BY <4>1, <4>3, <1>6
      <4> QED BY <4>2, <4>3, <1>1
    <3> QED BY <3>1, <3>2
  <2>5. net'[sock[e].fd] = r.n /\ \A k \in Fds : (k = sock[e].fd /\ sock[e].up) \/ net'[k] = net[k]
    BY <2>1, <2>3, <1>8
  <2> QED BY <2>3, <2>4, <2>5, <1>3, <1>4, <1>5
<1> QED BY <1>7, <1>8

\* A connection may send what its queue q, the file's with maybe one more
\* message, has pending.
LEMMA SentKeeps ==
  ASSUME IInv, NEW e \in Ends, NEW q \in Queues, NEW p \in UInt, QueueInv(q, p), SendInv(q),
         q.ack_seq = file[e].ack_seq, q.read_seq = file[e].read_seq,
         AckedOK(q, p, file[Peer(e)].ack_seq, Heard(e)),
         \A cnt \in Nat, prt \in Seq(Blocks), wire \in Seq(Blocks), live \in BOOLEAN, open \in BOOLEAN :
           FlowOK(file[e], pushed[e], file[Peer(e)].ack_seq, cnt, prt, wire, live, open)
           => FlowOK(q, p, file[Peer(e)].ack_seq, cnt, prt, wire, live, open),
         NEW r \in SendOutcomes(e, q), Sent(e, r),
         pushed' = [pushed EXCEPT ![e] = p],
         alloced' \in [Ends -> BOOLEAN], ~ alloced'[e], alloced'[Peer(e)] => alloced[Peer(e)],
         e = C => (sock[C].fd # NoFd \/ mapped) /\ connecting = NoFd, UNCHANGED <<last_server, inbox, part, logins>>
  PROVE  IInv'
<1> DEFINE o == Peer(e)
<1>0. TypeOK /\ MoreTypes /\ QueuesInv /\ InOrder /\ PairInv /\ BacklogInv /\ Flow(e)
  BY DEF IInv
<1>1. o \in Ends /\ o # e /\ Peer(o) = e /\ \A d \in Ends : d = e \/ d = o
  BY EndsAre
<1>2. /\ r.q \in Queues /\ r.q.blk = q.blk /\ r.q.write_idx = q.write_idx /\ r.q.read_idx = q.read_idx
      /\ r.q.read_seq = q.read_seq /\ r.q.ack_seq = q.ack_seq
      /\ SendInv(r.q) /\ r.q.send_idx >= q.send_idx
      /\ r.up \in BOOLEAN /\ r.cut \in BOOLEAN /\ (r.cut => budget > 0)
      /\ sock[e].up => /\ r.n \in Conns /\ Len(r.n.out[e]) <= WireCap
                       /\ r.n.open = net[sock[e].fd].open /\ r.n.rsp = net[sock[e].fd].rsp
                       /\ r.n.out[Peer(e)] = net[sock[e].fd].out[Peer(e)]
                       /\ r.n.out[e] = net[sock[e].fd].out[e] \/ net[sock[e].fd].open[e]
  <2>1. CASE ~ sock[e].up
    <3>1. r = [q |-> q, n |-> FreeNet, up |-> FALSE, cut |-> FALSE]
      BY <2>1 DEF SendOutcomes
    <3>2. r.q = q /\ r.up = FALSE /\ r.cut = FALSE
      BY <3>1
    <3>3. q.send_idx \in Int
      BY QueueFields
    <3>4. q.send_idx >= q.send_idx
      BY <3>3
    <3> QED BY <2>1, <3>2, <3>4
  <2>2. CASE sock[e].up
    <3>1. PICK j \in Fds : j = sock[e].fd
      BY <1>0, <2>2, EndTypes
    <3>2. r \in SendPending(e, q, net[j]) /\ net[j] \in Conns /\ Len(net[j].out[e]) <= WireCap
      BY <1>0, <2>2, <3>1, EndTypes DEF SendOutcomes, TypeOK
    <3>3. /\ r.q \in Queues /\ r.q.blk = q.blk /\ r.q.write_idx = q.write_idx /\ r.q.read_idx = q.read_idx
          /\ r.q.read_seq = q.read_seq /\ r.q.ack_seq = q.ack_seq
          /\ SendInv(r.q) /\ r.q.send_idx >= q.send_idx
          /\ r.n \in Conns /\ r.n.open = net[j].open /\ r.n.rsp = net[j].rsp
          /\ r.n.out[Peer(e)] = net[j].out[Peer(e)] /\ Len(r.n.out[e]) <= WireCap
          /\ r.n.out[e] = net[j].out[e] \/ net[j].open[e]
          /\ r.up \in BOOLEAN /\ r.cut \in BOOLEAN /\ (r.cut => budget > 0)
      <4> HIDE DEF o
      <4> QED BY <3>2, SendPendingIs
    <3> QED BY <3>1, <3>3
  <2> QED BY <2>1, <2>2
<1>3. /\ file' \in [Ends -> Queues] /\ file'[e] = r.q /\ file'[o] = file[o]
      /\ sock' \in [Ends -> [up : BOOLEAN, fd : Fds \cup {NoFd}]]
      /\ sock'[e].up = (sock[e].up /\ r.up) /\ sock'[e].fd = sock[e].fd
      /\ sock'[o] = sock[o]
      /\ budget' \in 0 .. MaxFailures /\ net' \in [Fds -> Conns]
      /\ \A k \in Fds, d \in Ends :
           /\ net'[k].open[d] = net[k].open[d] /\ net'[k].rsp = net[k].rsp
           /\ Len(net'[k].out[d]) <= WireCap
           /\ net'[k].out[d] = net[k].out[d] \/ (sock[e].up /\ sock[e].fd = k /\ d = e /\ net[k].open[e])
      /\ sock[e].up => net'[sock[e].fd] = r.n
      /\ \A k \in Fds : (k = sock[e].fd /\ sock[e].up) \/ net'[k] = net[k]
  BY <1>2, SentIs
<1>4. pushed' \in [Ends -> UInt] /\ pushed'[e] = p /\ pushed'[o] = pushed[o]
  BY <1>0, <1>1 DEF TypeOK
<1>5. WorkStep(e)
  <2>1. \A d \in Ends : sock'[d].fd = sock[d].fd /\ (sock'[d].up => sock[d].up)
    BY <1>1, <1>3
  <2>2. \A d \in Ends : alloced'[d] => alloced[d]
    BY <1>1
  <2>3. part \in [Ends -> Seq(Blocks)] /\ inbox \in [Ends -> Seq(Seq(Blocks))]
    BY <1>0 DEF MoreTypes
  <2>4. file'[e].ack_seq = file[e].ack_seq /\ file'[e].read_seq = file[e].read_seq
    BY <1>2, <1>3
  <2>5. \A k \in Fds, d \in Ends :
           /\ net'[k].open[d] = net[k].open[d] /\ net'[k].rsp = net[k].rsp
           /\ Len(net'[k].out[d]) <= WireCap
           /\ \/ net'[k].out[d] = net[k].out[d]
              \/ sock[e].fd = k /\ (IF d = e THEN net[k].open[e] ELSE net[k].out[d] # <<>>)
    BY <1>3
  <2>6. \A d \in Ends : inbox'[d] = inbox[d] /\ part'[d] = part[d]
    OBVIOUS
  <2>7. /\ sock' \in [Ends -> [up : BOOLEAN, fd : Fds \cup {NoFd}]]
        /\ file' \in [Ends -> Queues] /\ pushed' \in [Ends -> UInt] /\ alloced' \in [Ends -> BOOLEAN]
        /\ part' \in [Ends -> Seq(Blocks)] /\ inbox' \in [Ends -> Seq(Seq(Blocks))]
        /\ budget' \in 0 .. MaxFailures /\ net' \in [Fds -> Conns]
        /\ file'[Peer(e)] = file[Peer(e)] /\ pushed'[Peer(e)] = pushed[Peer(e)]
    BY <2>3, <1>3, <1>4
  <2>8. Off(file[Peer(e)], file[e].ack_seq) <= Off(file[Peer(e)], file'[e].ack_seq)
    BY <2>4, <1>0, AckStays
  <2> QED BY <2>1, <2>2, <2>4, <2>5, <2>6, <2>7, <2>8 DEF WorkStep
<1>6. QueueInv(file'[e], p) /\ SendInv(file'[e]) /\ file'[e].ack_seq = file[e].ack_seq
  BY <1>2, <1>3, SameBlocks
<1> DEFINE have == file[o].ack_seq
           up == sock[e].up
           up2 == sock'[e].up
           heard == Heard(e)
           heard2 == Heard(e)'
           q2 == file'[e]
<1>7. have \in UInt /\ Received(o) \in Nat /\ Partial(o) \in Seq(Blocks) /\ up \in BOOLEAN /\ up2 \in BOOLEAN
  BY <1>0, <1>1, <1>3, EndTypes
<1>8. AckedOK(q2, p, have, heard2)
  <2>1. AckedOK(q, p, have, heard) /\ q.send_idx \in Int /\ q2.send_idx \in Int
    BY <1>2, <1>3, QueueFields
  <2>2. /\ q2.blk = q.blk /\ q2.write_idx = q.write_idx /\ q2.read_idx = q.read_idx
        /\ q2.read_seq = q.read_seq /\ (heard2 => heard /\ q2.send_idx >= q.send_idx)
    BY <1>0, <1>2, <1>3, <1>5, HeardWork
  <2> HIDE DEF have, heard, heard2, q2
  <2> QED BY <2>1, <2>2, AckedSame
<1>9. ASSUME NEW k \in Fds, k = Source(o)
      PROVE  FlowOK(q2, p, have, Received(o), Partial(o), net'[k].out[e],
                    up2 /\ sock[e].fd = k, net[k].open[e])
  <2> DEFINE live == up /\ sock[e].fd = k
             live2 == up2 /\ sock[e].fd = k
             open == net[k].open[e]
             wire == net[k].out[e]
             cnt == Received(o)
             prt == Partial(o)
  <2>1. k # NoFd /\ net[k] \in Conns
    BY <1>0, SessionAssumption, EndTypes
  <2>2. FlowOK(file[e], pushed[e], have, cnt, prt, wire, live, open)
    BY <1>0, <2>1, <1>9 DEF Flow
  <2>3. wire \in Seq(Blocks) /\ live \in BOOLEAN /\ live2 \in BOOLEAN /\ open \in BOOLEAN
    BY <2>1, <1>7, ConnFields
  <2> HIDE DEF wire, live, open, cnt, prt, have, up, q2
  <2>4. FlowOK(q, p, have, cnt, prt, wire, live, open)
    BY <2>2, <2>3, <1>7 DEF cnt, prt, have, up
  <2>5. CASE ~ (sock[e].up /\ sock[e].fd = k)
    <3>1. net'[k] = net[k] /\ ~ live2
      BY <2>5, <1>3
    <3>2. /\ q2.blk = q.blk /\ q2.write_idx = q.write_idx /\ q2.read_idx = q.read_idx
          /\ q2.read_seq = q.read_seq
      BY <1>2, <1>3 DEF q2
    <3>3. FlowOK(q2, p, have, cnt, prt, wire, live2, open)
      <4> HIDE DEF live2
      <4> QED BY <2>4, <3>1, <3>2, FlowSame
    <3> QED BY <3>1, <3>3 DEF wire, open, cnt, prt
  <2>6. CASE sock[e].up /\ sock[e].fd = k
    <3>1. live = TRUE /\ live2 = r.up /\ net'[k] = r.n
      BY <2>1, <2>6, <1>0, <1>2, <1>3, EndTypes DEF live, up
    <3>2. FlowOK(q, p, have, cnt, prt, net[k].out[e], TRUE, net[k].open[e])
      BY <2>4, <3>1 DEF wire, open
    <3>3. r \in SendPending(e, q, net[k]) /\ Len(net[k].out[e]) <= WireCap
      BY <2>6, <1>0 DEF SendOutcomes, TypeOK
    <3>4. net[k].open[e] => net[k].open[o]
      BY <1>0, <1>1, <1>9, <2>1 DEF PairInv
    <3>5. FlowOK(r.q, p, have, cnt, prt, r.n.out[e], r.up, r.n.open[e])
      BY <3>2, <3>3, <3>4, <2>1, <1>7, FlowSent DEF have, cnt, prt
    <3>6. r.n.open = net[k].open /\ q2 = r.q
      BY <2>6, <1>2, <1>3 DEF q2
    <3> HIDE DEF live2
    <3>7. FlowOK(q2, p, have, cnt, prt, net'[k].out[e], live2, net[k].open[e])
      BY <3>1, <3>5, <3>6
    <3> QED BY <3>7 DEF live2, cnt, prt
  <2> QED BY <2>5, <2>6
<1>10. \A k \in Fds : net'[k].out[o] = net[k].out[o]
  BY <1>1, <1>3
<1>11. UNCHANGED <<inbox, part>> /\ sock'[o] = sock[o] /\ pushed'[e] = p /\ ~ alloced'[e] /\ (alloced'[o] => alloced[o])
  BY <1>3, <1>4
<1> QED BY <1>5, <1>6, <1>8, <1>9, <1>10, <1>11, OutKeeps

\* Alloc() keeps the invariant.
LEMMA AllocMsgKeeps ==
  ASSUME IInv, NEW e \in Ends, NEW len \in MsgLens, AllocMsg(e, len)
  PROVE  IInv'
<1> USE DEF files, bufs, logins
<1> DEFINE o == Peer(e)
           q == file[e]
           q2 == Alloc(q, len, pushed[e])
           p == pushed[e]
           have == file[o].ack_seq
           up == sock[e].up
           heard == Heard(e)
<1>0. TypeOK /\ MoreTypes /\ QueuesInv /\ PhaseInv /\ Acked(e) /\ Flow(e)
  BY DEF IInv
<1>1. o \in Ends /\ o # e /\ Peer(o) = e /\ \A d \in Ends : d = e \/ d = o
  BY EndsAre
<1>2. q \in Queues /\ p \in UInt /\ have \in UInt /\ up \in BOOLEAN
  BY <1>0, <1>1, EndTypes
<1>3. QueueInv(q, p) /\ SendInv(q) /\ AckedOK(q, p, have, heard)
  BY <1>0 DEF QueuesInv, Acked
<1>4. len \in Nat \ {0} /\ ~ AllocFails(q, len)
  BY SessionAssumption DEF AllocMsg
<1>5. /\ q2 \in Queues /\ QueueInv(q2, p) /\ SendInv(q2) /\ AllocInv(q2, p)
      /\ q2.ack_seq = q.ack_seq /\ q2.read_seq = q.read_seq
      /\ AckedOK(q2, p, have, heard)
      /\ \A cnt \in Nat, prt \in Seq(Blocks), wire \in Seq(Blocks), live \in BOOLEAN, open \in BOOLEAN :
           FlowOK(q, p, have, cnt, prt, wire, live, open)
             => FlowOK(q2, p, have, cnt, prt, wire, live, open)
  <2> HIDE DEF q, p, have, up, heard
  <2> QED BY <1>2, <1>3, <1>4, AllocKeeps DEF p
<1> HIDE DEF q2
<1>6. file' = [file EXCEPT ![e] = q2] /\ alloced' = [alloced EXCEPT ![e] = TRUE]
  BY DEF AllocMsg, q2
<1>7. file \in [Ends -> Queues] /\ alloced \in [Ends -> BOOLEAN]
  BY <1>0, EndTypes DEF TypeOK
<1>8. file' \in [Ends -> Queues] /\ file'[e] = q2 /\ file'[o] = file[o]
  BY <1>1, <1>5, <1>6, <1>7
<1>9. alloced' \in [Ends -> BOOLEAN] /\ alloced'[e] = TRUE /\ alloced'[o] = alloced[o]
  BY <1>1, <1>6, <1>7
<1>10. UNCHANGED <<last_server, sock, inbox, part, mapped, connecting, login, backlog, net, pushed, budget>>
  BY DEF AllocMsg
<1>11. (e = C => mapped /\ connecting = NoFd) /\ (e = S => sock[S].fd # NoFd)
  BY EndsAre DEF AllocMsg
<1>12. WorkStep(e)
  <2>1. /\ sock \in [Ends -> [up : BOOLEAN, fd : Fds \cup {NoFd}]]
        /\ pushed \in [Ends -> UInt] /\ part \in [Ends -> Seq(Blocks)]
        /\ inbox \in [Ends -> Seq(Seq(Blocks))]
        /\ budget \in 0 .. MaxFailures /\ net \in [Fds -> Conns]
        /\ \A k \in Fds, d \in Ends : Len(net[k].out[d]) <= WireCap
    BY <1>0 DEF TypeOK, MoreTypes
  <2>2. \A d \in Ends : alloced'[d] => alloced[d] \/ (d = C /\ mapped /\ connecting = NoFd)
                                         \/ (d = S /\ sock[S].fd # NoFd)
    <3> TAKE d \in Ends
    <3>1. CASE d = e
      BY <3>1, <1>11, EndsAre
    <3>2. CASE d = o
      BY <3>2, <1>9
    <3> QED BY <3>1, <3>2, <1>1
  <2>3. file'[e].ack_seq = file[e].ack_seq /\ file'[e].read_seq = file[e].read_seq
    BY <1>5, <1>8
  <2>4. Off(file[Peer(e)], file[e].ack_seq) <= Off(file[Peer(e)], file'[e].ack_seq)
    BY <2>3, <1>0, AckStays
  <2> QED BY <2>1, <2>2, <2>3, <2>4, <1>8, <1>9, <1>10, <1>11 DEF WorkStep
<1>13. /\ AckedOK(file'[e], pushed'[e], file[o].ack_seq, Heard(e)')
       /\ QueueInv(file'[e], pushed'[e]) /\ SendInv(file'[e]) /\ AllocInv(file'[e], pushed'[e])
       /\ file'[e].ack_seq = file[e].ack_seq
  <2>1. Heard(e)' = heard
    BY <1>10 DEF Heard
  <2> HIDE DEF heard
  <2> QED BY <2>1, <1>5, <1>8, <1>10
<1>14. ASSUME NEW k \in Fds, k = Source(o)
       PROVE  FlowOK(file'[e], pushed'[e], file[o].ack_seq, Received(o), Partial(o),
                     net'[k].out[e], sock'[e].up /\ sock[e].fd = k, net[k].open[e])
  <2> DEFINE cnt == Received(o)
             prt == Partial(o)
             wire == net[k].out[e]
             live == up /\ sock[e].fd = k
             open == net[k].open[e]
  <2>1. k # NoFd /\ net[k] \in Conns
    BY <1>0, SessionAssumption, EndTypes
  <2>2. FlowOK(q, p, have, cnt, prt, wire, live, open)
    BY <1>0, <2>1, <1>14 DEF Flow
  <2>3. /\ wire \in Seq(Blocks) /\ live \in BOOLEAN /\ open \in BOOLEAN
        /\ cnt \in Nat /\ prt \in Seq(Blocks)
    BY <2>1, <1>0, <1>1, <1>2, ConnFields, EndTypes
  <2> HIDE DEF cnt, prt, wire, live, open, q, p, have, up
  <2>4. FlowOK(q2, p, have, cnt, prt, wire, live, open)
    BY <2>2, <2>3, <1>5
  <2> QED BY <2>4, <1>8, <1>10 DEF cnt, prt, wire, live, open, p, have, up
<1> QED BY <1>9, <1>10, <1>12, <1>13, <1>14, OutKeeps

\* Push() and PushMore() keep the invariant.
LEMMA PushMsgKeeps ==
  ASSUME IInv, NEW e \in Ends, NEW more \in BOOLEAN, PushMsg(e, more)
  PROVE  IInv'
<1> USE DEF files, bufs, logins
<1> DEFINE o == Peer(e)
           q == file[e]
           q2 == Push(q)
           p == pushed[e]
           p2 == Add(p, 1)
           have == file[o].ack_seq
           up == sock[e].up
           heard == Heard(e)
<1>0. TypeOK /\ MoreTypes /\ QueuesInv /\ PhaseInv /\ Acked(e) /\ Flow(e)
  BY DEF IInv
<1>1. o \in Ends /\ o # e /\ Peer(o) = e /\ \A d \in Ends : d = e \/ d = o
  BY EndsAre
<1>2. q \in Queues /\ p \in UInt /\ have \in UInt /\ up \in BOOLEAN
  BY <1>0, <1>1, EndTypes
<1>3. QueueInv(q, p) /\ SendInv(q) /\ AckedOK(q, p, have, heard) /\ AllocInv(q, p)
  BY <1>0 DEF QueuesInv, Acked, PushMsg
<1>4. /\ q2 \in Queues /\ p2 \in UInt /\ QueueInv(q2, p2) /\ SendInv(q2)
      /\ q2.ack_seq = q.ack_seq /\ q2.read_seq = q.read_seq
      /\ AckedOK(q2, p2, have, heard)
      /\ \A cnt \in Nat, prt \in Seq(Blocks), wire \in Seq(Blocks), live \in BOOLEAN, open \in BOOLEAN :
           FlowOK(q, p, have, cnt, prt, wire, live, open)
             => FlowOK(q2, p2, have, cnt, prt, wire, live, open)
  <2> HIDE DEF q, p, have, up, heard
  <2> QED BY <1>2, <1>3, PushKeeps
<1> HIDE DEF q2, p2
<1>5. /\ pushed' = [pushed EXCEPT ![e] = p2] /\ alloced' = [alloced EXCEPT ![e] = FALSE]
      /\ UNCHANGED <<last_server, inbox, part, mapped, connecting, login, backlog>>
      /\ alloced[e]
  BY DEF PushMsg, p2
<1>6. file \in [Ends -> Queues] /\ alloced \in [Ends -> BOOLEAN] /\ pushed \in [Ends -> UInt]
  BY <1>0, EndTypes DEF TypeOK
<1>7. alloced' \in [Ends -> BOOLEAN] /\ alloced'[e] = FALSE /\ alloced'[o] = alloced[o]
  BY <1>1, <1>5, <1>6
<1>8. e = C => (sock[C].fd # NoFd \/ mapped) /\ connecting = NoFd
  BY <1>0, <1>5 DEF PhaseInv
<1>9. CASE more
  <2>1. file' = [file EXCEPT ![e] = q2] /\ UNCHANGED <<sock, net, budget>>
    BY <1>9 DEF PushMsg, q2
  <2>2. file' \in [Ends -> Queues] /\ file'[e] = q2 /\ file'[o] = file[o]
    BY <1>1, <1>4, <1>6, <2>1
  <2>3. pushed' \in [Ends -> UInt] /\ pushed'[e] = p2 /\ pushed'[o] = pushed[o]
    BY <1>1, <1>4, <1>5, <1>6
  <2>4. WorkStep(e)
    <3>1. /\ sock \in [Ends -> [up : BOOLEAN, fd : Fds \cup {NoFd}]]
          /\ part \in [Ends -> Seq(Blocks)]
          /\ inbox \in [Ends -> Seq(Seq(Blocks))]
          /\ budget \in 0 .. MaxFailures /\ net \in [Fds -> Conns]
          /\ \A k \in Fds, d \in Ends : Len(net[k].out[d]) <= WireCap
      BY <1>0 DEF TypeOK, MoreTypes
    <3>2. \A d \in Ends : alloced'[d] => alloced[d]
      BY <1>1, <1>7
    <3>3. file'[e].ack_seq = file[e].ack_seq /\ file'[e].read_seq = file[e].read_seq
      BY <1>4, <2>2
    <3>4. Off(file[Peer(e)], file[e].ack_seq) <= Off(file[Peer(e)], file'[e].ack_seq)
      BY <3>3, <1>0, AckStays
    <3> QED BY <3>1, <3>2, <3>3, <3>4, <1>5, <1>7, <1>8, <2>1, <2>2, <2>3 DEF WorkStep
  <2>5. /\ AckedOK(file'[e], pushed'[e], file[o].ack_seq, Heard(e)')
        /\ QueueInv(file'[e], pushed'[e]) /\ SendInv(file'[e])
        /\ file'[e].ack_seq = file[e].ack_seq
    <3>1. Heard(e)' = heard
      BY <2>1 DEF Heard
    <3> HIDE DEF heard
    <3> QED BY <3>1, <1>4, <2>1, <2>2, <2>3
  <2>6. ASSUME NEW k \in Fds, k = Source(o)
        PROVE  FlowOK(file'[e], pushed'[e], file[o].ack_seq, Received(o), Partial(o),
                      net'[k].out[e], sock'[e].up /\ sock[e].fd = k, net[k].open[e])
    <3> DEFINE cnt == Received(o)
               prt == Partial(o)
               wire == net[k].out[e]
               live == up /\ sock[e].fd = k
               open == net[k].open[e]
    <3>1. k # NoFd /\ net[k] \in Conns
      BY <1>0, SessionAssumption, EndTypes
    <3>2. FlowOK(q, p, have, cnt, prt, wire, live, open)
      BY <1>0, <3>1, <2>6 DEF Flow
    <3>3. /\ wire \in Seq(Blocks) /\ live \in BOOLEAN /\ open \in BOOLEAN
          /\ cnt \in Nat /\ prt \in Seq(Blocks)
      BY <3>1, <1>0, <1>1, <1>2, ConnFields, EndTypes
    <3> HIDE DEF cnt, prt, wire, live, open, q, p, have, up
    <3>4. FlowOK(q2, p2, have, cnt, prt, wire, live, open)
      BY <3>2, <3>3, <1>4
    <3> QED BY <3>4, <2>1, <2>2, <2>3 DEF cnt, prt, wire, live, open, have, up
  <2> QED BY <1>5, <1>7, <2>1, <2>4, <2>5, <2>6, OutKeeps
<1>10. CASE ~ more
  <2>1. PICK r \in SendOutcomes(e, q2) : Sent(e, r)
    BY <1>10 DEF PushMsg, q2
  <2> HIDE DEF q, p, have, up, heard
  <2> QED BY <2>1, <1>4, <1>5, <1>7, <1>8, SentKeeps DEF q, p, have, heard
<1> QED BY <1>9, <1>10

\* A heartbeat is sent.
LEMMA HeartbeatKeeps ==
  ASSUME IInv, NEW e \in Ends, sock[e].up, net[sock[e].fd].open[e],
         Len(net[sock[e].fd].out[e]) < WireCap,
         Sent(e, [q |-> file[e], up |-> TRUE, cut |-> FALSE,
                  n |-> Transmit(net[sock[e].fd], e, <<HeartbeatMsg(file[e].ack_seq)>>)]),
         UNCHANGED <<last_server, bufs, logins, pushed>>
  PROVE  IInv'
<1> USE DEF files, bufs, logins
<1> DEFINE o == Peer(e)
           q == file[e]
           hb == HeartbeatMsg(q.ack_seq)
           p == pushed[e]
           have == file[o].ack_seq
           up == sock[e].up
           heard == Heard(e)
<1>0. TypeOK /\ MoreTypes /\ QueuesInv /\ PhaseInv /\ PairInv /\ Acked(e) /\ Flow(e)
  BY DEF IInv
<1>1. o \in Ends /\ o # e /\ Peer(o) = e /\ \A d \in Ends : d = e \/ d = o
  BY EndsAre
<1>2. q \in Queues /\ p \in UInt /\ have \in UInt /\ q.ack_seq \in UInt
  BY <1>0, <1>1, EndTypes
<1>3. hb \in Blocks /\ IsHeartbeat(hb) /\ <<hb>> \in Seq(Blocks) /\ Len(<<hb>>) = 1
  <2>1. hb = [id |-> 0, part |-> 0, len |-> 0, ack |-> q.ack_seq]
    BY DEF HeartbeatMsg, ZeroBlock
  <2>2. 0 \in UInt /\ 0 \in 0 .. BLK_CNT
    BY Widths
  <2>3. hb \in Blocks /\ hb.len = 0
    BY <2>1, <2>2, <1>2 DEF Blocks
  <2> HIDE DEF hb
  <2> QED BY <2>3 DEF IsHeartbeat
<1>4. PICK j \in Fds : j = sock[e].fd
  BY <1>0, EndTypes
<1> DEFINE n == net[j]
           n2 == Transmit(n, e, <<hb>>)
           r == [q |-> q, up |-> TRUE, cut |-> FALSE, n |-> n2]
<1>5. n \in Conns /\ Len(n.out[e]) \in Nat /\ WireCap \in Nat
  BY <1>0, SessionAssumption, EndTypes, ConnFields
<1>6. /\ n2 \in Conns /\ n2.open = n.open /\ n2.rsp = n.rsp /\ n2.out[o] = n.out[o]
      /\ n2.out[e] = IF n.open[o] THEN n.out[e] \o <<hb>> ELSE n.out[e]
      /\ Len(n2.out[e]) <= WireCap
  <2>1. Len(n.out[e]) + Len(<<hb>>) <= WireCap
    BY <1>3, <1>4, <1>5
  <2> HIDE DEF hb, n
  <2> QED BY <2>1, <1>3, <1>5, TransmitIs
<1>7. Sent(e, r)
  BY <1>4
<1> HIDE DEF n2, hb
<1>8. r.q = q /\ r.up = TRUE /\ r.cut = FALSE /\ r.n = n2
  OBVIOUS
<1> HIDE DEF r
<1>9. /\ file' \in [Ends -> Queues] /\ file'[e] = q /\ file'[o] = file[o]
      /\ sock' \in [Ends -> [up : BOOLEAN, fd : Fds \cup {NoFd}]]
      /\ sock'[e].up = (sock[e].up /\ r.up) /\ sock'[e].fd = sock[e].fd
      /\ sock'[o] = sock[o]
      /\ budget' \in 0 .. MaxFailures /\ net' \in [Fds -> Conns]
      /\ \A k \in Fds, d \in Ends :
           /\ net'[k].open[d] = net[k].open[d] /\ net'[k].rsp = net[k].rsp
           /\ Len(net'[k].out[d]) <= WireCap
           /\ net'[k].out[d] = net[k].out[d] \/ (sock[e].up /\ sock[e].fd = k /\ d = e /\ net[k].open[e])
      /\ net'[sock[e].fd] = n2
      /\ \A k \in Fds : (k = sock[e].fd /\ sock[e].up) \/ net'[k] = net[k]
  <2>1. r.q \in Queues /\ r.up \in BOOLEAN /\ r.cut \in BOOLEAN /\ ~ r.cut
    BY <1>2, <1>8
  <2>2. /\ r.n \in Conns /\ Len(r.n.out[e]) <= WireCap
        /\ r.n.open = net[sock[e].fd].open /\ r.n.rsp = net[sock[e].fd].rsp
        /\ r.n.out[Peer(e)] = net[sock[e].fd].out[Peer(e)]
    BY <1>4, <1>6, <1>8
  <2> QED BY <1>7, <1>8, <2>1, <2>2, SentIs
<1>10. WorkStep(e)
  <2>1. /\ part \in [Ends -> Seq(Blocks)] /\ inbox \in [Ends -> Seq(Seq(Blocks))]
        /\ pushed \in [Ends -> UInt] /\ alloced \in [Ends -> BOOLEAN]
    BY <1>0 DEF TypeOK, MoreTypes
  <2>2. \A d \in Ends : sock'[d].fd = sock[d].fd /\ (sock'[d].up => sock[d].up)
    BY <1>1, <1>9
  <2>3. \A k \in Fds, d \in Ends :
           /\ net'[k].open[d] = net[k].open[d] /\ net'[k].rsp = net[k].rsp
           /\ Len(net'[k].out[d]) <= WireCap
           /\ \/ net'[k].out[d] = net[k].out[d]
              \/ sock[e].fd = k /\ (IF d = e THEN net[k].open[e] ELSE net[k].out[d] # <<>>)
    BY <1>9
  <2>4. sock[e].fd # NoFd
    BY <1>4, SessionAssumption
  <2>5. e = C => connecting = NoFd
    BY <2>4, <1>0 DEF PhaseInv
  <2>6. file'[e].ack_seq = file[e].ack_seq /\ file'[e].read_seq = file[e].read_seq
    BY <1>9
  <2>7. Off(file[Peer(e)], file[e].ack_seq) <= Off(file[Peer(e)], file'[e].ack_seq)
    BY <2>6, <1>0, AckStays
  <2> QED BY <2>1, <2>2, <2>3, <2>4, <2>5, <2>6, <2>7, <1>9 DEF WorkStep
<1>11. /\ AckedOK(q, p, have, Heard(e)') /\ QueueInv(q, p) /\ SendInv(q)
       /\ (alloced'[e] => AllocInv(q, p)) /\ (alloced'[o] => alloced[o])
  <2>1. alloced' = alloced /\ q.send_idx \in Int /\ q.send_idx >= q.send_idx
    BY <1>2, QueueFields
  <2>2. Heard(e)' => heard
    BY <1>0, <1>10, HeardWork
  <2>3. AckedOK(q, p, have, heard)
    BY <1>0 DEF Acked
  <2>4. AckedOK(q, p, have, Heard(e)')
    <3> DEFINE heard2 == Heard(e)'
    <3>1. heard2 => heard /\ q.send_idx >= q.send_idx
      BY <2>1, <2>2
    <3> HIDE DEF heard, heard2
    <3>2. AckedOK(q, p, have, heard2)
      BY <2>1, <2>3, <3>1, AckedSame
    <3> QED BY <3>2 DEF heard2
  <2> QED BY <2>1, <2>4, <1>0 DEF QueuesInv
<1>12. ASSUME NEW k \in Fds, k = Source(o)
       PROVE  FlowOK(q, p, have, Received(o), Partial(o),
                     net'[k].out[e], sock'[e].up /\ sock[e].fd = k, net[k].open[e])
  <2> DEFINE cnt == Received(o)
             prt == Partial(o)
             wire == net[k].out[e]
             live == up /\ sock[e].fd = k
             open == net[k].open[e]
  <2>1. k # NoFd /\ net[k] \in Conns
    BY <1>0, SessionAssumption, EndTypes
  <2>2. FlowOK(q, p, have, cnt, prt, wire, live, open)
    BY <1>0, <2>1, <1>12 DEF Flow
  <2>3. wire \in Seq(Blocks) /\ cnt \in Nat /\ prt \in Seq(Blocks) /\ QueueInv(q, p)
    BY <2>1, <1>0, <1>1, <1>2, <1>11, ConnFields, EndTypes
  <2>4. sock'[e].up = up
    BY <1>8, <1>9
  <2> HIDE DEF cnt, prt, wire, live, open, q, p, have, up
  <2>5. CASE k # j
    <3>1. net'[k] = net[k]
      BY <2>5, <1>4, <1>9
    <3> QED BY <3>1, <2>2, <2>4 DEF cnt, prt, wire, live, open
  <2>6. CASE k = j
    <3>1. net[k].open[o]
      BY <2>6, <2>1, <1>0, <1>1, <1>4, <1>12 DEF PairInv
    <3>2. net'[k].out[e] = wire \o <<hb>>
      BY <2>6, <3>1, <1>4, <1>6, <1>9 DEF wire, n
    <3>3. FlowOK(q, p, have, cnt, prt, wire \o <<hb>>, live, open)
      BY <2>2, <2>3, <1>2, <1>3, FlowHeartbeat
    <3> QED BY <3>2, <3>3, <2>4 DEF cnt, prt, live, open
  <2> QED BY <2>5, <2>6
<1>13. UNCHANGED <<inbox, part>> /\ pushed'[e] = p /\ file'[e] = q /\ file'[e].ack_seq = file[e].ack_seq
  BY <1>9
<1>14. \A k \in Fds : net'[k].out[o] = net[k].out[o]
  BY <1>1, <1>9
<1>15. sock'[o] = sock[o]
  BY <1>9
<1> HIDE DEF q, p, have, heard, o
<1> QED BY <1>10, <1>11, <1>12, <1>13, <1>14, <1>15, OutKeeps DEF have, o

\* SendHB() keeps the invariant.
LEMMA SendHBKeeps ==
  ASSUME IInv, ~ TwoThreads, NEW e \in Ends, SendHB(e)
  PROVE  IInv'
<1> USE DEF files, bufs, logins
<1> DEFINE q == file[e]
           n == net[sock[e].fd]
<1>0. TypeOK /\ MoreTypes /\ QueuesInv /\ PhaseInv /\ Acked(e)
  BY DEF IInv
<1>1. sock[e].up /\ ~ alloced[e] /\ UNCHANGED <<last_server, bufs, logins, pushed>>
  BY <1>0 DEF SendHB, Sending
<1>2. PICK k \in Fds : k = sock[e].fd
  BY <1>0, <1>1, EndTypes
<1>3. k # NoFd /\ q \in Queues /\ pushed[e] \in UInt /\ net \in [Fds -> Conns]
  BY <1>0, <1>2, SessionAssumption, EndTypes DEF MoreTypes
<1>4. CASE Pending(q) > 0
  <2>1. PICK r \in SendOutcomes(e, q) : Sent(e, r)
    BY <1>4 DEF SendHB
  <2>2. QueueInv(q, pushed[e]) /\ SendInv(q)
    BY <1>0 DEF QueuesInv
  <2>3. AckedOK(q, pushed[e], file[Peer(e)].ack_seq, Heard(e))
    BY <1>0 DEF Acked
  <2>4. pushed' = [pushed EXCEPT ![e] = pushed[e]]
    BY <1>0, <1>1 DEF TypeOK
  <2>5. alloced' \in [Ends -> BOOLEAN] /\ ~ alloced'[e] /\ (alloced'[Peer(e)] => alloced[Peer(e)])
    BY <1>0, <1>1 DEF TypeOK
  <2>6. e = C => (sock[C].fd # NoFd \/ mapped) /\ connecting = NoFd
    BY <1>0, <1>2, <1>3 DEF PhaseInv
  <2> QED BY <2>1, <2>2, <2>3, <2>4, <2>5, <2>6, <1>1, <1>3, SentKeeps
<1>5. CASE ~ (Pending(q) > 0) /\ ~ n.open[e]
  <2> DEFINE r == [q |-> q, n |-> n, up |-> FALSE, cut |-> FALSE]
  <2>1. Sent(e, r)
    BY <1>5 DEF SendHB
  <2>2. r.q = q /\ r.n = n /\ r.up = FALSE /\ r.cut = FALSE
    OBVIOUS
  <2> HIDE DEF r
  <2>3. file' = [file EXCEPT ![e] = q] /\ net' = [net EXCEPT ![k] = n] /\ budget' = budget
    BY <2>1, <2>2, <1>1, <1>2 DEF Sent, CutBudget
  <2>4. file' = file /\ net' = net
    BY <2>3, <1>0, <1>2, <1>3 DEF TypeOK
  <2>5. sock' = [sock EXCEPT ![e].up = FALSE]
    <3>1. sock' = [sock EXCEPT ![e].up = sock[e].up /\ r.up]
      BY <2>1 DEF Sent
    <3>2. (sock[e].up /\ r.up) = FALSE
      BY <2>2
    <3> QED BY <3>1, <3>2
  <2>6. budget' \in 0 .. MaxFailures
    BY <2>3, <1>0 DEF TypeOK
  <2> QED BY <2>4, <2>5, <2>6, <1>1, DownKeeps
<1>6. CASE ~ (Pending(q) > 0) /\ n.open[e]
  <2>1. /\ Len(n.out[e]) < WireCap
        /\ Sent(e, [q |-> q, up |-> TRUE, cut |-> FALSE,
                    n |-> Transmit(n, e, <<HeartbeatMsg(q.ack_seq)>>)])
    BY <1>6 DEF SendHB
  <2> QED BY <2>1, <1>1, <1>6, HeartbeatKeeps
<1> QED BY <1>4, <1>5, <1>6

-----------------------------------------------------------------------------
(* Receiving.                                                              *)

\* An end that hears less has the same left to hear of.
LEMMA AckedLess ==
  ASSUME NEW q, NEW p, NEW have, NEW up, AckedOK(q, p, have, up), NEW up2, up2 => up
  PROVE  AckedOK(q, p, have, up2)
BY DEF AckedOK

\* A step in which e reads its stream or consumes a message keeps the invariant
\* when the streams in both directions go on.
LEMMA InKeeps ==
  ASSUME IInv, NEW e \in Ends, WorkStep(e), UNCHANGED <<sock, pushed, alloced>>, ~ alloced[e],
         sock[e].fd # NoFd,
         inbox'[Peer(e)] = inbox[Peer(e)], part'[Peer(e)] = part[Peer(e)],
         QueueInv(file'[e], pushed[e]), SendInv(file'[e]),
         \A k \in Fds : net'[k].out[e] = net[k].out[e],
         AckedOK(file'[e], pushed[e], file[Peer(e)].ack_seq, Heard(e)),
         \A k \in Fds : k = Source(Peer(e)) =>
           FlowOK(file'[e], pushed[e], file[Peer(e)].ack_seq, Received(Peer(e)), Partial(Peer(e)),
                  net[k].out[e], sock[e].up /\ sock[e].fd = k, net[k].open[e]),
         \A i \in DOMAIN inbox'[e] : IsMessage(inbox'[e][i], Add(file'[e].ack_seq, i - 1)),
         AckedOK(file[Peer(e)], pushed[Peer(e)], file'[e].ack_seq, Heard(Peer(e))),
         \A k \in Fds : k = sock[e].fd =>
           FlowOK(file[Peer(e)], pushed[Peer(e)], file'[e].ack_seq, Len(inbox'[e]), part'[e],
                  net'[k].out[Peer(e)],
                  sock[Peer(e)].up /\ sock[Peer(e)].fd = k, net[k].open[Peer(e)])
  PROVE  IInv'
<1> DEFINE o == Peer(e)
<1>0. TypeOK /\ MoreTypes /\ QueuesInv /\ InOrder /\ \A d \in Ends : Acked(d) /\ Flow(d)
  BY DEF IInv
<1>1. /\ TypeOK' /\ MoreTypes' /\ PhaseInv' /\ PairInv' /\ RspInv' /\ BacklogInv'
      /\ \A d \in Ends : Source(d)' = Source(d)
  BY WorkKeeps
<1>2. o \in Ends /\ o # e /\ Peer(o) = e /\ \A d \in Ends : d = e \/ d = o
  BY EndsAre
<1>3. /\ file'[o] = file[o] /\ file' \in [Ends -> Queues]
      /\ \A k \in Fds, d \in Ends : net'[k].open[d] = net[k].open[d]
  BY DEF WorkStep
<1>4. QueuesInv'
  <2> SUFFICES ASSUME NEW d \in Ends
               PROVE  /\ QueueInv(file'[d], pushed'[d]) /\ SendInv(file'[d])
                      /\ alloced'[d] => AllocInv(file'[d], pushed'[d])
    BY DEF QueuesInv
  <2>1. CASE d = e
    BY <2>1
  <2>2. CASE d = o
    BY <2>2, <1>0, <1>2, <1>3 DEF QueuesInv
  <2> QED BY <2>1, <2>2, <1>2
<1>5. InOrder'
  <2> SUFFICES ASSUME NEW d \in Ends, NEW i \in DOMAIN inbox'[d]
               PROVE  IsMessage(inbox'[d][i], Add(file'[d].ack_seq, i - 1))
    BY DEF InOrder
  <2>1. CASE d = e
    BY <2>1
  <2>2. CASE d = o
    BY <2>2, <1>0, <1>2, <1>3 DEF InOrder
  <2> QED BY <2>1, <2>2, <1>2
<1>6. /\ Received(o)' = Received(o) /\ Partial(o)' = Partial(o)
      /\ Received(e)' = Len(inbox'[e]) /\ Partial(e)' = part'[e] /\ Source(e) = sock[e].fd
  BY <1>2 DEF Received, Partial, Source
<1>7. Acked(e)' /\ Acked(o)'
  <2>0. (Heard(e)' => Heard(e)) /\ (Heard(o)' => Heard(o))
    BY <1>0, <1>2, HeardWork
  <2>1. Acked(e)'
    <3>1. AckedOK(file'[e], pushed[e], file[o].ack_seq, Heard(e)')
      BY <2>0, AckedLess
    <3> QED BY <3>1, <1>3 DEF Acked
  <2>2. Acked(o)'
    <3>1. AckedOK(file[o], pushed[o], file'[e].ack_seq, Heard(o)')
      BY <2>0, AckedLess
    <3> QED BY <3>1, <1>2, <1>3 DEF Acked
  <2> QED BY <2>1, <2>2
<1>8. Flow(e)'
  <2> SUFFICES ASSUME NEW k \in Fds, k = Source(o)', k # NoFd
               PROVE  FlowOK(file'[e], pushed'[e], file'[o].ack_seq, Received(o)', Partial(o)',
                             net'[k].out[e], sock'[e].up /\ sock'[e].fd = k, net'[k].open[e])
    <3>1. Source(o)' \in Fds \cup {NoFd}
      BY <1>0, <1>1, <1>2, EndTypes
    <3> QED BY <3>1 DEF Flow
  <2>1. k = Source(o)
    BY <1>1, <1>2
  <2>2. net'[k].open[e] = net[k].open[e] /\ net'[k].out[e] = net[k].out[e]
    BY <1>3
  <2> HIDE DEF o
  <2> QED BY <2>1, <2>2, <1>2, <1>3, <1>6 DEF o
<1>9. Flow(o)'
  <2> SUFFICES ASSUME NEW k \in Fds, k = Source(e)', k # NoFd
               PROVE  FlowOK(file'[o], pushed'[o], file'[e].ack_seq, Received(e)', Partial(e)',
                             net'[k].out[o], sock'[o].up /\ sock'[o].fd = k, net'[k].open[o])
    <3>1. Source(e)' \in Fds \cup {NoFd}
      BY <1>0, <1>1, <1>2, EndTypes
    <3> QED BY <3>1, <1>2 DEF Flow
  <2>1. k = sock[e].fd
    BY <1>1, <1>2, <1>6
  <2>2. net'[k].open[o] = net[k].open[o]
    BY <1>2, <1>3
  <2> HIDE DEF o
  <2> QED BY <2>1, <2>2, <1>2, <1>3, <1>6 DEF o
<1> QED BY <1>1, <1>2, <1>4, <1>5, <1>7, <1>8, <1>9 DEF IInv

\* The receiver holds fewer messages than there are numbers, and the queue counts on
\* over them.
LEMMA FlowCount ==
  ASSUME NEW q \in Queues, NEW p \in UInt, QueueInv(q, p), NEW have \in UInt, NEW cnt \in Nat,
         NEW prt \in Seq(Blocks), NEW wire \in Seq(Blocks), NEW live, NEW open,
         FlowOK(q, p, have, cnt, prt, wire, live, open)
  PROVE  cnt < UIntMod /\ Off(q, Add(have, cnt)) = Off(q, have) + cnt /\ Off(q, have) \in Nat
<1>1. PICK h \in Int, at \in [0 .. Len(wire) -> Int] : Stream(q, p, have, cnt, prt, wire, h, at)
  BY DEF FlowOK
<1>2. Add(have, cnt) \in UInt /\ Off(q, Add(have, cnt)) = Off(q, have) + cnt
  BY <1>1, StreamRange DEF Stream
<1> DEFINE a == Off(q, Add(have, cnt))
           b == Off(q, have)
<1>3. a \in Nat /\ a < UIntMod /\ b \in Nat /\ UIntMod \in Nat
  BY <1>2, OffRange
<1> HIDE DEF a, b
<1> QED BY <1>2, <1>3 DEF a, b

\* An end that hears of a peer with a message to consume, or from one that is
\* connected to the client, is on its connection.
LEMMA SamePair ==
  ASSUME TypeOK, MoreTypes, PairInv, NEW e \in Ends, sock[e].fd # NoFd, inbox[e] # <<>>, Heard(Peer(e))
  PROVE  sock[Peer(e)].up /\ sock[Peer(e)].fd = sock[e].fd
<1>1. C \in Ends /\ S \in Ends /\ Peer(C) = S /\ Peer(S) = C /\ (e = C \/ e = S)
  BY EndsAre
<1>2. sock[Peer(e)].up /\ sock[Peer(e)].fd # NoFd
  BY <1>1, EndTypes DEF Heard
<1>3. Settled /\ Source(C) = sock[C].fd /\ Source(S) = sock[S].fd /\ sock[S].fd # NoFd
  BY <1>1, <1>2 DEF PairInv, Source
<1>4. CASE e = C
  <2>1. ~ Barren
    BY <1>1, <1>3, <1>4 DEF Barren, Heard
  <2> QED BY <2>1, <1>1, <1>2, <1>3, <1>4 DEF Settled
<1>5. CASE e = S
  <2>1. Received(S) # 0
    BY <1>3, <1>5, EndTypes DEF Received
  <2>2. ~ Barren
    BY <2>1 DEF Barren
  <2> QED BY <2>2, <1>1, <1>2, <1>3, <1>5 DEF Settled
<1> QED BY <1>1, <1>4, <1>5

\* Pop() keeps the invariant.
LEMMA PopKeeps ==
  ASSUME IInv, ~ TwoThreads, ~ StalePoll, NEW e \in Ends, Pop(e)
  PROVE  IInv'
<1> USE DEF files, bufs, logins
<1> DEFINE o == Peer(e)
           q == file[e]
           q2 == MyAckNext(q)
           have == q.ack_seq
           cnt == Len(inbox[e])
<1>0. /\ TypeOK /\ MoreTypes /\ QueuesInv /\ InOrder /\ PhaseInv /\ PairInv
      /\ \A d \in Ends : Acked(d) /\ Flow(d)
  BY DEF IInv
<1>1. o \in Ends /\ o # e /\ Peer(o) = e /\ \A d \in Ends : d = e \/ d = o
  BY EndsAre
<1>2. sock[e].fd # NoFd /\ ~ alloced[e] /\ inbox[e] # <<>>
  BY <1>0, EndsAre DEF Pop, Polled, Sending
<1>3. /\ inbox' = [inbox EXCEPT ![e] = Tail(inbox[e])] /\ file' = [file EXCEPT ![e] = q2]
      /\ UNCHANGED <<last_server, sock, part, alloced, mapped, connecting, login, backlog, net, pushed, budget>>
  BY DEF Pop
<1>4. PICK k \in Fds : k = sock[e].fd
  BY <1>0, <1>2, EndTypes
<1>5. q \in Queues /\ pushed[e] \in UInt /\ have \in UInt /\ file[o] \in Queues /\ pushed[o] \in UInt
  BY <1>0, <1>1, EndTypes
<1>6. /\ q2 \in Queues /\ q2.ack_seq = Add(have, 1) /\ q2.blk = q.blk
      /\ q2.write_idx = q.write_idx /\ q2.read_idx = q.read_idx
      /\ q2.send_idx = q.send_idx /\ q2.read_seq = q.read_seq
  BY <1>5, MyAckNextIs
<1> HIDE DEF q2
<1>7. file \in [Ends -> Queues] /\ inbox \in [Ends -> Seq(Seq(Blocks))]
  BY <1>0, EndTypes DEF TypeOK, MoreTypes
<1>8. file' \in [Ends -> Queues] /\ file'[e] = q2 /\ file'[o] = file[o]
  BY <1>1, <1>3, <1>6, <1>7
<1>9. /\ inbox[e] \in Seq(Seq(Blocks)) /\ Tail(inbox[e]) \in Seq(Seq(Blocks))
      /\ cnt \in Nat \ {0} /\ Len(Tail(inbox[e])) = cnt - 1
      /\ \A i \in 1 .. cnt - 1 : Tail(inbox[e])[i] = inbox[e][i + 1]
  BY <1>2, <1>7
<1>10. /\ inbox' \in [Ends -> Seq(Seq(Blocks))] /\ inbox'[e] = Tail(inbox[e]) /\ inbox'[o] = inbox[o]
  BY <1>1, <1>3, <1>7, <1>9
<1>12. QueueInv(q2, pushed[e]) /\ SendInv(q2)
  <2>1. QueueInv(q, pushed[e]) /\ SendInv(q)
    BY <1>0 DEF QueuesInv
  <2>2. QueueInv(q2, pushed[e])
    BY <2>1, <1>6, SameBlocks
  <2> QED BY <2>1, <2>2, <1>6 DEF SendInv
<1>13. SameQueue(e) /\ file'[e] \in Queues /\ file'[e].send_idx = file[e].send_idx
  BY <1>3, <1>6, <1>8 DEF SameQueue
<1>14. AckedOK(q2, pushed[e], file[o].ack_seq, Heard(e))
  <2> DEFINE a == file[o].ack_seq
             u == Heard(e)
  <2>1. AckedOK(q, pushed[e], a, u) /\ q.send_idx \in Int /\ q2.send_idx \in Int /\ q2.send_idx >= q.send_idx
    BY <1>0, <1>5, <1>6, QueueFields DEF Acked
  <2> HIDE DEF a, u, q
  <2> QED BY <2>1, <1>6, AckedSame DEF a, u
<1>15. ASSUME NEW j \in Fds, j = Source(o)
       PROVE  FlowOK(q2, pushed[e], file[o].ack_seq, Received(o), Partial(o), net[j].out[e],
                     sock[e].up /\ sock[e].fd = j, net[j].open[e])
  <2> DEFINE a == file[o].ack_seq
             c == Received(o)
             t == Partial(o)
             w == net[j].out[e]
             live == sock[e].up /\ sock[e].fd = j
             open == net[j].open[e]
  <2>1. j # NoFd
    BY SessionAssumption
  <2>2. FlowOK(q, pushed[e], a, c, t, w, live, open)
    BY <2>1, <1>0, <1>15 DEF Flow
  <2> HIDE DEF a, c, t, w, live, open, q
  <2>3. FlowOK(q2, pushed[e], a, c, t, w, live, open)
    BY <2>2, <1>6, FlowSame
  <2> QED BY <2>3 DEF a, c, t, w, live, open
<1> DEFINE live == sock[o].up /\ sock[o].fd = k
           open == net[k].open[o]
           wire == net[k].out[o]
<1>16. wire \in Seq(Blocks) /\ part[e] \in Seq(Blocks) /\ QueueInv(file[o], pushed[o])
  BY <1>0, <1>1, EndTypes, ConnFields DEF QueuesInv
<1>17. FlowOK(file[o], pushed[o], have, cnt, part[e], wire, live, open)
  <2>1. Source(e) = k /\ k # NoFd /\ Received(e) = cnt /\ Partial(e) = part[e]
    BY <1>2, <1>4 DEF Source, Received, Partial
  <2>2. Flow(o)
    BY <1>0, <1>1
  <2> QED BY <2>1, <2>2, <1>1 DEF Flow
<1>18. PICK g \in Int : Starts(file[o], pushed[o], g, have)
  <2>1. Acked(o)
    BY <1>0, <1>1
  <2> QED BY <2>1, <1>1 DEF Acked, AckedOK
<1>19. /\ FlowOK(file[o], pushed[o], Add(have, 1), cnt - 1, part[e], wire, live, open)
       /\ AckedOK(file[o], pushed[o], Add(have, 1), live)
       /\ cnt < UIntMod
  <2> HIDE DEF live, open, wire, have, cnt
  <2>1. /\ FlowOK(file[o], pushed[o], Add(have, 1), cnt - 1, part[e], wire, live, open)
        /\ AckedOK(file[o], pushed[o], Add(have, 1), live)
    BY <1>5, <1>9, <1>16, <1>17, <1>18, FlowPops
  <2>2. cnt < UIntMod
    BY <1>5, <1>9, <1>16, <1>17, FlowCount
  <2> QED BY <2>1, <2>2
<1>24. Off(file[o], have) <= Off(file[o], Add(have, 1))
  <2> DEFINE next == Add(have, 1)
             x == Off(file[o], have)
             y == Off(file[o], next)
             z == Off(file[o], Add(have, cnt))
  <2> HIDE DEF live, open, wire, have, cnt
  <2>1. next \in UInt /\ cnt - 1 \in Nat /\ 1 + (cnt - 1) = cnt
    <3>1. 1 \in 0 .. UIntMod
      BY Widths
    <3>2. next \in UInt
      BY <3>1, <1>5, AddRange
    <3>3. cnt - 1 \in Nat /\ 1 + (cnt - 1) = cnt
      BY <1>9
    <3> QED BY <3>2, <3>3
  <2>2. Add(next, cnt - 1) = Add(have, cnt)
    BY <2>1, <1>5, <1>19, AddAdd
  <2>3. x \in Nat /\ z = x + cnt
    BY <1>5, <1>9, <1>16, <1>17, FlowCount
  <2> HIDE DEF next
  <2>4. y \in Nat /\ Off(file[o], Add(next, cnt - 1)) = y + (cnt - 1)
    BY <2>1, <1>5, <1>16, <1>19, FlowCount DEF next
  <2> HIDE DEF x, y, z
  <2>5. z = y + (cnt - 1)
    BY <2>2, <2>4 DEF z
  <2>6. x <= y
    BY <2>3, <2>4, <2>5, <1>9
  <2> QED BY <2>6 DEF x, y, next
<1>11. WorkStep(e)
  <2>1. /\ sock \in [Ends -> [up : BOOLEAN, fd : Fds \cup {NoFd}]]
        /\ pushed \in [Ends -> UInt] /\ part \in [Ends -> Seq(Blocks)]
        /\ alloced \in [Ends -> BOOLEAN]
        /\ budget \in 0 .. MaxFailures /\ net \in [Fds -> Conns]
        /\ \A i \in Fds, d \in Ends : Len(net[i].out[d]) <= WireCap
    BY <1>0 DEF TypeOK, MoreTypes
  <2>2. \A d \in Ends : \/ inbox'[d] = inbox[d] /\ part'[d] = part[d]
                        \/ d = e /\ sock[e].fd # NoFd /\ inbox[e] # <<>>
    BY <1>1, <1>2, <1>3, <1>10
  <2>3. file'[e].read_seq = file[e].read_seq
    BY <1>6, <1>8
  <2>4. Off(file[o], file[e].ack_seq) <= Off(file[o], file'[e].ack_seq)
    BY <1>6, <1>8, <1>24
  <2>5. e = C => connecting = NoFd
    BY <1>0, <1>2 DEF PhaseInv
  <2> QED BY <2>1, <2>2, <2>3, <2>4, <2>5, <1>2, <1>3, <1>8, <1>10 DEF WorkStep
<1>20. AckedOK(file[o], pushed[o], q2.ack_seq, Heard(o))
  <2>1. Heard(o) => live
    BY <1>0, <1>2, <1>4, SamePair
  <2> HIDE DEF live
  <2> QED BY <2>1, <1>6, <1>19, AckedLess
<1>21. ASSUME NEW i \in DOMAIN inbox'[e]
       PROVE  IsMessage(inbox'[e][i], Add(file'[e].ack_seq, i - 1))
  <2> HIDE DEF cnt, have
  <2>0. DOMAIN inbox'[e] = 1 .. cnt - 1
    <3>1. DOMAIN Tail(inbox[e]) = 1 .. Len(Tail(inbox[e]))
      BY <1>9
    <3> QED BY <3>1, <1>9, <1>10
  <2>1. i \in 1 .. cnt - 1 /\ i - 1 \in Nat /\ i + 1 \in 1 .. cnt /\ 1 + (i - 1) = i /\ (i + 1) - 1 = i
    BY <2>0, <1>9
  <2>2. i + 1 \in DOMAIN inbox[e]
    BY <2>1, <1>9 DEF cnt
  <2>3. IsMessage(inbox[e][i + 1], Add(have, (i + 1) - 1))
    BY <2>2, <1>0 DEF InOrder, have
  <2>4. 1 + (i - 1) < UIntMod
    BY <2>1, <1>9, <1>19, Widths
  <2>5. Add(Add(have, 1), i - 1) = Add(have, i)
    BY <2>1, <2>4, <1>5, AddAdd
  <2> QED BY <2>1, <2>3, <2>5, <1>6, <1>8, <1>9, <1>10
<1>22. /\ UNCHANGED <<sock, pushed, alloced>> /\ part'[o] = part[o] /\ part'[e] = part[e]
       /\ \A j \in Fds : net'[j].out[e] = net[j].out[e]
       /\ net'[k].out[o] = wire /\ Len(inbox'[e]) = cnt - 1
  BY <1>3, <1>9, <1>10
<1>23. \A j \in Fds : j = sock[e].fd =>
           FlowOK(file[o], pushed[o], file'[e].ack_seq, Len(inbox'[e]), part'[e],
                  net'[j].out[o], sock[o].up /\ sock[o].fd = j, net[j].open[o])
  <2> HIDE DEF cnt, have
  <2> QED BY <1>4, <1>6, <1>8, <1>19, <1>22
<1> HIDE DEF q, cnt, have, live, open, wire
<1> QED BY <1>2, <1>8, <1>10, <1>11, <1>12, <1>14, <1>15, <1>20, <1>21, <1>22, <1>23, InKeeps

\* The ack that Front() applies, of a heartbeat or of the message that a block
\* belongs to, is not beyond what the peer has consumed.
LEMMA RecvAck ==
  ASSUME IInv, AcksRecent, NEW e \in Ends, NEW k \in Fds, sock[e].up, k = sock[e].fd,
         net[k].out[Peer(e)] # <<>>
  PROVE  LET b == Head(net[k].out[Peer(e)])
             blocks == Append(part[e], b)
             a == IF IsHeartbeat(b) THEN b.ack ELSE blocks[1].ack
         IN  a \in UInt /\ ~ Before(file[Peer(e)].ack_seq, a)
<1> DEFINE o == Peer(e)
           have == file[e].ack_seq
           cnt == Len(inbox[e])
           prt == part[e]
           wire == net[k].out[o]
           b == Head(wire)
           blocks == Append(prt, b)
           a == IF IsHeartbeat(b) THEN b.ack ELSE blocks[1].ack
           live == sock[o].up /\ sock[o].fd = k
           open == net[k].open[o]
<1>0. /\ TypeOK /\ MoreTypes /\ QueuesInv
      /\ \A d \in Ends : Flow(d)
  BY DEF IInv
<1>1. o \in Ends /\ Peer(o) = e
  BY EndsAre
<1>4. k # NoFd /\ net[k] \in Conns /\ wire \in Seq(Blocks) /\ wire # <<>>
  BY <1>0, <1>1, SessionAssumption, EndTypes, ConnFields
<1>8. /\ have \in UInt /\ file[o] \in Queues /\ pushed[o] \in UInt
      /\ prt \in Seq(Blocks) /\ cnt \in Nat
  BY <1>0, <1>1, EndTypes
<1>9. QueueInv(file[o], pushed[o])
  BY <1>0, <1>1 DEF QueuesInv
<1>10. FlowOK(file[o], pushed[o], have, cnt, prt, wire, live, open)
  <2>1. Source(e) = k /\ Received(e) = cnt /\ Partial(e) = prt
    BY <1>4 DEF Source, Received, Partial
  <2>2. Flow(o)
    BY <1>0, <1>1
  <2> QED BY <2>1, <2>2, <1>1, <1>4 DEF Flow
<1> HIDE DEF live, open
<1>11. ASSUME ~ IsHeartbeat(b)
       PROVE  \E i \in file[o].read_idx .. file[o].write_idx - 1 :
                blocks[1] = file[o].blk[i] /\ file[o].blk[i].part = 0
  <2> HIDE DEF wire, prt, cnt, have
  <2> QED BY <1>4, <1>8, <1>9, <1>10, <1>11, FlowReadsBlock, SMTT(30)
<1>12. a \in UInt /\ ~ Before(file[o].ack_seq, a)
  <2>1. CASE IsHeartbeat(b)
    <3>1. a = b.ack /\ b = wire[1] /\ 1 \in DOMAIN wire /\ b \in Blocks
      BY <2>1, <1>4
    <3>2. IsHeartbeat(net[k].out[o][1]) => ~ Before(file[o].ack_seq, net[k].out[o][1].ack)
      BY <3>1, <1>1 DEF AcksRecent
    <3> QED BY <3>1, <3>2, <2>1 DEF Blocks
  <2>2. CASE ~ IsHeartbeat(b)
    <3>1. PICK i \in file[o].read_idx .. file[o].write_idx - 1 :
                   blocks[1] = file[o].blk[i] /\ file[o].blk[i].part = 0
      BY <1>11, <2>2
    <3>2. a = file[o].blk[i].ack /\ ~ Before(file[o].ack_seq, file[o].blk[i].ack)
      BY <2>2, <3>1, <1>1 DEF AcksRecent
    <3>3. file[o].blk[i].ack \in UInt
      BY <1>8, UsedBlock, QueueFields
    <3> QED BY <3>2, <3>3
  <2> QED BY <2>1, <2>2
<1> QED BY <1>12

\* Front() keeps the invariant.
LEMMA RecvKeeps ==
  ASSUME IInv, AcksRecent, ~ TwoThreads, NEW e \in Ends, Recv(e)
  PROVE  IInv'
<1> USE DEF files, bufs, logins
<1> DEFINE o == Peer(e)
           q == file[e]
           have == q.ack_seq
           cnt == Len(inbox[e])
           prt == part[e]
<1>0. /\ TypeOK /\ MoreTypes /\ QueuesInv /\ InOrder /\ PhaseInv /\ PairInv
      /\ \A d \in Ends : Acked(d) /\ Flow(d)
  BY DEF IInv
<1>1. o \in Ends /\ o # e /\ Peer(o) = e /\ \A d \in Ends : d = e \/ d = o
  BY EndsAre
<1>2. sock[e].up /\ ~ alloced[e]
  BY <1>0 DEF Recv, Sending
<1>3. PICK k \in Fds : k = sock[e].fd
  BY <1>0, <1>2, EndTypes
<1> DEFINE wire == net[k].out[o]
           b == Head(wire)
           blocks == Append(prt, b)
           a == IF IsHeartbeat(b) THEN b.ack ELSE blocks[1].ack
           q2 == Ack(q, a)
           live == sock[o].up /\ sock[o].fd = k
           open == net[k].open[o]
<1>4. k # NoFd /\ net[k] \in Conns /\ wire \in Seq(Blocks) /\ net \in [Fds -> Conns]
  BY <1>0, <1>1, SessionAssumption, EndTypes, ConnFields DEF MoreTypes
<1>5. /\ wire # <<>> /\ net' = [net EXCEPT ![k].out[o] = Tail(wire)]
      /\ UNCHANGED <<last_server, sock, alloced, mapped, connecting, login, backlog, pushed, budget>>
  BY <1>3 DEF Recv
<1>6. file' = [file EXCEPT ![e] = q2]
  BY <1>3 DEF Recv
<1>7. /\ IsHeartbeat(b) => inbox' = inbox /\ part' = part
      /\ ~ IsHeartbeat(b) =>
           IF Len(blocks) < blocks[1].len
           THEN part' = [part EXCEPT ![e] = blocks] /\ inbox' = inbox
           ELSE part' = [part EXCEPT ![e] = <<>>] /\ inbox' = [inbox EXCEPT ![e] = Append(inbox[e], blocks)]
  BY <1>3 DEF Recv
<1>8. /\ q \in Queues /\ pushed[e] \in UInt /\ have \in UInt /\ file[o] \in Queues /\ pushed[o] \in UInt
      /\ file[o].ack_seq \in UInt
      /\ prt \in Seq(Blocks) /\ inbox[e] \in Seq(Seq(Blocks)) /\ cnt \in Nat
  BY <1>0, <1>1, EndTypes
<1>9. QueueInv(file[o], pushed[o]) /\ QueueInv(q, pushed[e]) /\ SendInv(q)
  BY <1>0, <1>1 DEF QueuesInv
<1>10. FlowOK(file[o], pushed[o], have, cnt, prt, wire, live, open)
  <2>1. Source(e) = k /\ Received(e) = cnt /\ Partial(e) = prt
    BY <1>3, <1>4 DEF Source, Received, Partial
  <2>2. Flow(o)
    BY <1>0, <1>1
  <2> QED BY <2>1, <2>2, <1>1, <1>4 DEF Flow
<1> HIDE DEF live, open
<1>11. ASSUME ~ IsHeartbeat(b)
       PROVE  /\ blocks \in Seq(Blocks)
              /\ \E i \in file[o].read_idx .. file[o].write_idx - 1 :
                   blocks[1] = file[o].blk[i] /\ file[o].blk[i].part = 0
              /\ IF Len(blocks) < blocks[1].len
                 THEN FlowOK(file[o], pushed[o], have, cnt, blocks, Tail(wire), live, open)
                 ELSE /\ IsMessage(blocks, Add(have, cnt))
                      /\ FlowOK(file[o], pushed[o], have, cnt + 1, <<>>, Tail(wire), live, open)
  <2> HIDE DEF wire, prt, cnt, have
  <2> QED BY <1>4, <1>5, <1>8, <1>9, <1>10, <1>11, FlowReadsBlock
<1>12. a \in UInt /\ ~ Before(file[o].ack_seq, a)
  BY <1>2, <1>3, <1>5, RecvAck
<1> HIDE DEF a
<1>13. /\ q2 \in Queues /\ QueueInv(q2, pushed[e]) /\ SendInv(q2) /\ q2.ack_seq = have
       /\ AckedOK(q2, pushed[e], file[o].ack_seq, Heard(e))
       /\ \A c \in Nat, t \in Seq(Blocks), w \in Seq(Blocks), l \in BOOLEAN, x \in BOOLEAN :
            FlowOK(q, pushed[e], file[o].ack_seq, c, t, w, l, x)
              => FlowOK(q2, pushed[e], file[o].ack_seq, c, t, w, l, x)
  <2> DEFINE h == file[o].ack_seq
             p == pushed[e]
             up == Heard(e)
  <2>0. up
    BY <1>2, <1>3, <1>5 DEF Heard
  <2>1. PICK g \in Int : Starts(q, p, g, h) /\ g <= q.send_idx
    BY <2>0, <1>0 DEF Acked, AckedOK
  <2>2. /\ h \in UInt /\ p \in UInt /\ ~ Before(h, a) /\ a \in UInt /\ QueueInv(q, p) /\ q \in Queues /\ SendInv(q)
        /\ up \in BOOLEAN
    BY <2>0, <1>8, <1>9, <1>12 DEF Heard
  <2> HIDE DEF h, p, q, up
  <2>3. /\ q2 \in Queues /\ QueueInv(q2, p) /\ SendInv(q2) /\ q2.ack_seq = q.ack_seq
        /\ AckedOK(q2, p, h, up)
        /\ \A c \in Nat, t \in Seq(Blocks), w \in Seq(Blocks), l \in BOOLEAN, x \in BOOLEAN :
             FlowOK(q, p, h, c, t, w, l, x) => FlowOK(q2, p, h, c, t, w, l, x)
    <3> HIDE DEF o, have, cnt, prt, wire, b, blocks
    <3>1. LET z == Ack(q, a)
          IN  z \in Queues /\ QueueInv(z, p) /\ SendInv(z) /\ z.ack_seq = q.ack_seq
      BY <2>1, <2>2, AckKeeps
    <3>2. AckedOK(Ack(q, a), p, h, up)
      BY <2>1, <2>2, AckKeeps
    <3>3. \A c \in Nat, t \in Seq(Blocks), w \in Seq(Blocks), l \in BOOLEAN, x \in BOOLEAN :
             FlowOK(q, p, h, c, t, w, l, x) => FlowOK(Ack(q, a), p, h, c, t, w, l, x)
      BY <2>1, <2>2, AckKeeps
    <3> QED BY <3>1, <3>2, <3>3
  <2> QED BY <2>3 DEF h, p, up
<1> HIDE DEF q2
<1>14. file' \in [Ends -> Queues] /\ file'[e] = q2 /\ file'[o] = file[o]
  <2>1. file \in [Ends -> Queues]
    BY <1>0, EndTypes DEF TypeOK
  <2> QED BY <2>1, <1>1, <1>6, <1>13
<1>15. /\ net' \in [Fds -> Conns] /\ net'[k].out[o] = Tail(wire)
       /\ \A j \in Fds : net'[j].out[e] = net[j].out[e]
       /\ \A j \in Fds, d \in Ends :
            /\ net'[j].open[d] = net[j].open[d] /\ net'[j].rsp = net[j].rsp
            /\ Len(net'[j].out[d]) <= WireCap
            /\ net'[j].out[d] = net[j].out[d] \/ (sock[e].fd = j /\ net[j].out[d] # <<>>)
  <2> DEFINE n == net[k]
             t == Tail(wire)
             out == [n.out EXCEPT ![o] = t]
             n2 == [n EXCEPT !.out = out]
  <2>0. t \in Seq(Blocks) /\ Len(t) = Len(wire) - 1 /\ Len(wire) \in Nat
    BY <1>4, <1>5
  <2>1. net' = [net EXCEPT ![k] = n2]
    BY <1>4, <1>5
  <2>2. n.out \in [Ends -> Seq(Blocks)]
    BY <1>1, <1>4, ConnFields
  <2>3. out \in [Ends -> Seq(Blocks)] /\ out[o] = t /\ out[e] = n.out[e]
    <3> HIDE DEF t, n
    <3> QED BY <2>0, <2>2, <1>1
  <2> HIDE DEF out
  <2>4. n2 \in Conns /\ n2.out = out /\ n2.open = n.open /\ n2.rsp = n.rsp
    BY <2>3, <1>4 DEF Conns
  <2> HIDE DEF n2
  <2>5. net' \in [Fds -> Conns] /\ net'[k] = n2 /\ \A j \in Fds \ {k} : net'[j] = net[j]
    BY <1>4, <2>1, <2>4, NetChanged
  <2>6. \A j \in Fds, d \in Ends : Len(net[j].out[d]) <= WireCap
    BY <1>0 DEF TypeOK
  <2>7. WireCap \in Nat
    BY SessionAssumption
  <2>8. Len(t) <= WireCap
    BY <2>0, <2>6, <2>7, <1>1
  <2>9. ASSUME NEW j \in Fds, NEW d \in Ends
        PROVE  /\ net'[j].open[d] = net[j].open[d] /\ net'[j].rsp = net[j].rsp
               /\ Len(net'[j].out[d]) <= WireCap
               /\ net'[j].out[d] = net[j].out[d] \/ (sock[e].fd = j /\ net[j].out[d] # <<>>)
    <3>1. CASE j # k
      BY <3>1, <2>5, <2>6
    <3>2. CASE j = k /\ d = e
      BY <3>2, <2>3, <2>4, <2>5, <2>6
    <3>3. CASE j = k /\ d = o
      <4>1. net[j].out[d] # <<>> /\ sock[e].fd = j /\ net'[j].out[d] = t
        BY <3>3, <2>3, <2>4, <2>5, <1>3, <1>5
      <4> HIDE DEF t
      <4> QED BY <3>3, <4>1, <2>4, <2>5, <2>8
    <3> QED BY <3>1, <3>2, <3>3, <1>1
  <2>10. \A j \in Fds : net'[j].out[e] = net[j].out[e]
    BY <2>3, <2>4, <2>5
  <2> QED BY <2>3, <2>4, <2>5, <2>9, <2>10
<1>16. /\ part' \in [Ends -> Seq(Blocks)] /\ inbox' \in [Ends -> Seq(Seq(Blocks))]
       /\ inbox'[o] = inbox[o] /\ part'[o] = part[o]
       /\ \A i \in DOMAIN inbox'[e] : IsMessage(inbox'[e][i], Add(have, i - 1))
       /\ FlowOK(file[o], pushed[o], have, Len(inbox'[e]), part'[e], Tail(wire), live, open)
  <2>1. part \in [Ends -> Seq(Blocks)] /\ inbox \in [Ends -> Seq(Seq(Blocks))] /\ <<>> \in Seq(Blocks)
    BY <1>0 DEF MoreTypes
  <2>2. \A i \in DOMAIN inbox[e] : IsMessage(inbox[e][i], Add(have, i - 1))
    BY <1>0 DEF InOrder
  <2>3. CASE IsHeartbeat(b)
    <3>1. inbox' = inbox /\ part' = part
      BY <2>3, <1>7
    <3>2. FlowOK(file[o], pushed[o], have, cnt, prt, Tail(wire), live, open)
      <4> HIDE DEF have, cnt, prt, wire
      <4> QED BY <2>3, <1>4, <1>5, <1>8, <1>10, FlowReadsHeartbeat
    <3> QED BY <2>1, <2>2, <3>1, <3>2
  <2>4. CASE ~ IsHeartbeat(b) /\ Len(blocks) < blocks[1].len
    <3>1. part' = [part EXCEPT ![e] = blocks] /\ inbox' = inbox
      BY <2>4, <1>7
    <3>2. /\ blocks \in Seq(Blocks)
          /\ FlowOK(file[o], pushed[o], have, cnt, blocks, Tail(wire), live, open)
      BY <2>4, <1>11
    <3> HIDE DEF blocks
    <3>3. part' \in [Ends -> Seq(Blocks)] /\ part'[e] = blocks /\ part'[o] = part[o]
      BY <2>1, <3>1, <3>2, <1>1
    <3> QED BY <2>1, <2>2, <3>1, <3>2, <3>3
  <2>5. CASE ~ IsHeartbeat(b) /\ ~ (Len(blocks) < blocks[1].len)
    <3>1. part' = [part EXCEPT ![e] = <<>>] /\ inbox' = [inbox EXCEPT ![e] = Append(inbox[e], blocks)]
      BY <2>5, <1>7
    <3>2. /\ blocks \in Seq(Blocks) /\ IsMessage(blocks, Add(have, cnt))
          /\ FlowOK(file[o], pushed[o], have, cnt + 1, <<>>, Tail(wire), live, open)
      BY <2>5, <1>11
    <3> HIDE DEF blocks
    <3> DEFINE new == Append(inbox[e], blocks)
    <3>3. /\ new \in Seq(Seq(Blocks)) /\ Len(new) = cnt + 1 /\ DOMAIN new = 1 .. cnt + 1
          /\ new[cnt + 1] = blocks /\ \A i \in 1 .. cnt : new[i] = inbox[e][i]
      BY <3>2, <1>8
    <3> HIDE DEF new
    <3>4. part' \in [Ends -> Seq(Blocks)] /\ part'[e] = <<>> /\ part'[o] = part[o]
      BY <2>1, <3>1, <1>1
    <3>5. inbox' \in [Ends -> Seq(Seq(Blocks))] /\ inbox'[e] = new /\ inbox'[o] = inbox[o]
      BY <2>1, <3>1, <3>3, <1>1 DEF new
    <3>6. ASSUME NEW i \in DOMAIN new PROVE IsMessage(new[i], Add(have, i - 1))
      <4> HIDE DEF have
      <4>1. DOMAIN inbox[e] = 1 .. cnt
        BY <1>8
      <4> HIDE DEF cnt
      <4>2. i \in 1 .. cnt \/ i = cnt + 1
        BY <3>3, <1>8
      <4>3. CASE i \in 1 .. cnt
        BY <4>1, <4>3, <3>3, <2>2
      <4>4. CASE i = cnt + 1
        <5>1. i - 1 = cnt
          BY <4>4, <1>8
        <5> QED BY <4>4, <5>1, <3>2, <3>3
      <4> QED BY <4>2, <4>3, <4>4
    <3>7. FlowOK(file[o], pushed[o], have, Len(inbox'[e]), part'[e], Tail(wire), live, open)
      <4> HIDE DEF have, cnt
      <4> QED BY <3>2, <3>3, <3>4, <3>5
    <3> QED BY <3>4, <3>5, <3>6, <3>7
  <2> QED BY <2>3, <2>4, <2>5
<1>17. WorkStep(e)
  <2>1. /\ sock \in [Ends -> [up : BOOLEAN, fd : Fds \cup {NoFd}]]
        /\ pushed \in [Ends -> UInt] /\ alloced \in [Ends -> BOOLEAN]
        /\ budget \in 0 .. MaxFailures
    BY <1>0 DEF TypeOK
  <2>2. \A d \in Ends : \/ inbox'[d] = inbox[d] /\ part'[d] = part[d]
                        \/ d = e /\ sock[e].fd # NoFd /\ net[sock[e].fd].out[Peer(e)] # <<>>
    BY <1>1, <1>3, <1>4, <1>5, <1>16
  <2>3. file'[e].ack_seq = file[e].ack_seq
    BY <1>13, <1>14
  <2>4. sock[e].fd # NoFd
    BY <1>3, <1>4
  <2>5. \A j \in Fds, d \in Ends :
            /\ net'[j].open[d] = net[j].open[d] /\ net'[j].rsp = net[j].rsp
            /\ Len(net'[j].out[d]) <= WireCap
            /\ \/ net'[j].out[d] = net[j].out[d]
               \/ sock[e].fd = j /\ (IF d = e THEN net[j].open[e] ELSE net[j].out[d] # <<>>)
    BY <1>1, <1>15
  <2>6. net' \in [Fds -> Conns]
    BY <1>15
  <2>7. part' \in [Ends -> Seq(Blocks)] /\ inbox' \in [Ends -> Seq(Seq(Blocks))]
    BY <1>16
  <2>8. Off(file[Peer(e)], file[e].ack_seq) <= Off(file[Peer(e)], file'[e].ack_seq)
    BY <2>3, <1>0, AckStays
  <2>9. e = C => connecting = NoFd
    BY <2>4, <1>0 DEF PhaseInv
  <2> HIDE DEF blocks, b, wire, q, have, cnt, prt
  <2> QED BY <2>1, <2>2, <2>3, <2>4, <2>5, <2>6, <2>7, <2>8, <2>9, <1>5, <1>14 DEF WorkStep
<1>18. ASSUME NEW j \in Fds, j = Source(o)
       PROVE  FlowOK(q2, pushed[e], file[o].ack_seq, Received(o), Partial(o), net[j].out[e],
                     sock[e].up /\ sock[e].fd = j, net[j].open[e])
  <2> DEFINE h == file[o].ack_seq
             c == Received(o)
             t == Partial(o)
             w == net[j].out[e]
             l == sock[e].up /\ sock[e].fd = j
             y == net[j].open[e]
  <2>1. j # NoFd /\ net[j] \in Conns
    BY <1>0, SessionAssumption, EndTypes
  <2>2. FlowOK(q, pushed[e], h, c, t, w, l, y)
    BY <2>1, <1>0, <1>18 DEF Flow
  <2>3. /\ c \in Nat /\ t \in Seq(Blocks) /\ w \in Seq(Blocks) /\ l \in BOOLEAN /\ y \in BOOLEAN
    BY <2>1, <1>0, <1>1, EndTypes, ConnFields
  <2> HIDE DEF c, t, w, l, y
  <2> QED BY <2>2, <2>3, <1>13 DEF c, t, w, l, y
<1>19. AckedOK(file[o], pushed[o], have, Heard(o))
  <2>1. Acked(o)
    BY <1>0, <1>1
  <2> QED BY <2>1, <1>1 DEF Acked
<1>20. \A j \in Fds : j = sock[e].fd =>
           FlowOK(file[o], pushed[o], have, Len(inbox'[e]), part'[e],
                  net'[j].out[o], sock[o].up /\ sock[o].fd = j, net[j].open[o])
  <2>1. net'[k].out[o] = Tail(wire)
    BY <1>15
  <2> QED BY <2>1, <1>3, <1>16 DEF live, open
<1>21. UNCHANGED <<sock, pushed, alloced>> /\ inbox'[o] = inbox[o] /\ part'[o] = part[o]
       /\ \A j \in Fds : net'[j].out[e] = net[j].out[e]
  BY <1>5, <1>15, <1>16
<1>22. sock[e].fd # NoFd /\ file'[e] = q2 /\ file'[e].ack_seq = have
  BY <1>3, <1>4, <1>13, <1>14
<1>23. /\ \A i \in DOMAIN inbox'[e] : IsMessage(inbox'[e][i], Add(have, i - 1))
       /\ QueueInv(q2, pushed[e]) /\ SendInv(q2)
       /\ AckedOK(q2, pushed[e], file[o].ack_seq, Heard(e))
  BY <1>13, <1>16
<1> HIDE DEF blocks, b, wire, q, have, cnt, prt
<1> QED BY <1>2, <1>17, <1>18, <1>19, <1>20, <1>21, <1>22, <1>23, InKeeps

-----------------------------------------------------------------------------
(* Connect().                                                              *)

\* A queue as its peer sees it for the first time on a new connection.
LEMMA FlowStart ==
  ASSUME NEW q \in Queues, NEW p \in UInt, NEW have \in UInt, NEW up, AckedOK(q, p, have, up),
         NEW live, ~ live, NEW open
  PROVE  FlowOK(q, p, have, 0, <<>>, <<>>, live, open)
<1>1. PICK h \in Int : Starts(q, p, h, have)
  BY DEF AckedOK
<1> QED BY <1>1, FlowFresh

\* The queue that Connect() and the LoginRsp are about.
LEMMA ClientQueue ==
  ASSUME IInv
  PROVE  (IF last_server THEN file[C] ELSE ZeroQueue) = file[C]
BY DEF IInv, PhaseInv

\* The LoginMsg of Connect() tells the truth.
LEMMA LoginMsgIs ==
  ASSUME IInv, AcksRecent, NEW e \in Ends
  PROVE  /\ SanityCheck(file[e]) /\ SeqStart(file[e]) = file[e].read_seq /\ SeqEnd(file[e]) = pushed[e]
         /\ SanityWalk(file[e]) = Off(file[e], pushed[e])
<1>1. file[e] \in Queues /\ pushed[e] \in UInt /\ QueueInv(file[e], pushed[e])
  BY EndTypes DEF IInv, QueuesInv
<1>2. \A i \in file[e].read_idx .. file[e].write_idx - 1 :
         file[e].blk[i].part = 0 => ~ Before(file[e].ack_seq, file[e].blk[i].ack)
  BY DEF AcksRecent
<1> DEFINE q == file[e]
           p == pushed[e]
<1> HIDE DEF q, p
<1>3. SanityWalk(q) = Off(q, p) /\ SanityCheck(q) /\ SeqStart(q) = q.read_seq /\ SeqEnd(q) = p
  BY <1>1, <1>2, SanityWalkIs DEF q, p
<1> QED BY <1>3 DEF q, p

\* Connect() keeps the invariant.
LEMMA ConnectKeeps ==
  ASSUME IInv, AcksRecent, ~ TwoThreads, NEW k \in Fds, Connect(k)
  PROVE  IInv'
<1> USE DEF files, bufs, logins
<1> DEFINE q == file[C]
           p == pushed[C]
           old == sock[C].fd
           m == [fd |-> k, known |-> last_server, ack |-> q.ack_seq, start |-> q.read_seq, end |-> p]
           fresh == [FreeNet EXCEPT !.open = [e \in Ends |-> TRUE]]
<1>0. /\ TypeOK /\ MoreTypes /\ QueuesInv /\ InOrder /\ PhaseInv /\ PairInv /\ RspInv /\ BacklogInv
      /\ \A d \in Ends : Acked(d) /\ Flow(d)
  BY DEF IInv
<1>1. /\ connecting = NoFd /\ sock[C].up = FALSE /\ ~ alloced[C]
      /\ k \notin InUse /\ mapped' = (mapped \/ last_server) /\ connecting' = k
      /\ net' = [i \in Fds |-> IF i = k THEN fresh ELSE IF i = old THEN Closed(net[i], C) ELSE net[i]]
      /\ sock' = [sock EXCEPT ![C].fd = NoFd]
      /\ UNCHANGED <<file, last_server, inbox, part, alloced, login, pushed, budget>>
  BY <1>0, EndsAre, EndTypes DEF Connect, Sending
<1>2. backlog' = backlog \cup {m}
  <2>1. SeqStart(q) = q.read_seq /\ SeqEnd(q) = p
    BY EndsAre, LoginMsgIs
  <2>2. backlog' = backlog \cup {[fd |-> k, known |-> last_server, ack |-> q.ack_seq,
                                  start |-> SeqStart(q), end |-> SeqEnd(q)]}
    BY ClientQueue DEF Connect
  <2> QED BY <2>1, <2>2
<1>3. /\ k # NoFd /\ k # old /\ k # sock[S].fd /\ k # login.fd
      /\ \A x \in backlog : x.fd # k
  BY <1>1, SessionAssumption DEF InUse
<1>4. /\ q \in Queues /\ p \in UInt /\ q.ack_seq \in UInt /\ q.read_seq \in UInt /\ m \in LoginMsgs
      /\ m.fd = k /\ m.known = last_server /\ m.ack = q.ack_seq /\ m.start = q.read_seq /\ m.end = p
  <2>1. q \in Queues /\ p \in UInt /\ q.ack_seq \in UInt /\ q.read_seq \in UInt /\ last_server \in BOOLEAN
    BY <1>0, EndsAre, EndTypes, QueueFields DEF TypeOK
  <2> QED BY <2>1 DEF LoginMsgs
<1> HIDE DEF m
<1>5. backlog \subseteq LoginMsgs /\ backlog' \subseteq LoginMsgs /\ \A x \in backlog' : x \in backlog \/ x = m
  BY <1>0, <1>2, <1>4 DEF MoreTypes
<1>7. /\ fresh \in Conns /\ fresh.rsp = NoRsp
      /\ \A e \in Ends : fresh.open[e] = TRUE /\ fresh.out[e] = <<>>
  <2> DEFINE out == [e \in Ends |-> <<>>]
             open == [e \in Ends |-> TRUE]
             shut == [e \in Ends |-> FALSE]
  <2>3. FreeNet = [out |-> out, rsp |-> NoRsp, open |-> shut] /\ fresh = [FreeNet EXCEPT !.open = open]
    BY DEF FreeNet
  <2>2. /\ out \in [Ends -> Seq(Blocks)] /\ open \in [Ends -> BOOLEAN]
        /\ \A e \in Ends : open[e] = TRUE /\ out[e] = <<>>
    OBVIOUS
  <2> HIDE DEF out, open, shut, fresh
  <2>1. fresh = [out |-> out, rsp |-> NoRsp, open |-> open]
    BY <2>3
  <2> QED BY <2>1, <2>2, FreeNetIs DEF Conns
<1> HIDE DEF fresh
<1>8. /\ net' \in [Fds -> Conns] /\ net'[k] = fresh
      /\ old \in Fds => net'[old] = Closed(net[old], C)
      /\ \A j \in Fds \ {k, old} : net'[j] = net[j]
  <2>1. \A j \in Fds : net[j] \in Conns /\ Closed(net[j], C) \in Conns
    BY <1>0, EndsAre, EndTypes, ClosedIs
  <2> QED BY <2>1, <1>1, <1>3, <1>7
<1>9. \A j \in Fds \ {k} :
        /\ net'[j].out[C] = net[j].out[C] /\ net'[j].open[S] = net[j].open[S]
        /\ net'[j].open[C] => net[j].open[C]
        /\ net'[j].rsp.status # "none" => net'[j].rsp = net[j].rsp
        /\ net'[j].out[S] \in {net[j].out[S], <<>>}
  <2> TAKE j \in Fds \ {k}
  <2>1. CASE j = old
    <3> DEFINE c == Closed(net[j], C)
    <3>1. net[j] \in Conns /\ net'[j] = c
      BY <2>1, <1>0, <1>8, EndsAre, EndTypes
    <3>2. /\ c.open[C] = FALSE /\ c.open[S] = net[j].open[S] /\ c.out[S] = <<>> /\ c.out[C] = net[j].out[C]
          /\ c.rsp = NoRsp
      BY <3>1, EndsAre, ClosedIs
    <3> HIDE DEF c
    <3> QED BY <3>1, <3>2, FreeNetIs
  <2>2. CASE j # old
    BY <2>2, <1>8
  <2> QED BY <2>1, <2>2
<1>10. /\ sock' \in [Ends -> [up : BOOLEAN, fd : Fds \cup {NoFd}]]
       /\ sock'[C].up = FALSE /\ sock'[C].fd = NoFd /\ sock'[S] = sock[S]
  <2>1. sock \in [Ends -> [up : BOOLEAN, fd : Fds \cup {NoFd}]]
    BY <1>0 DEF TypeOK
  <2> QED BY <2>1, <1>1, EndsAre
<1>11. Source(C)' = k /\ Source(S)' = Source(S) /\ k # Source(S)
  BY <1>1, <1>3, <1>10, EndsAre DEF Source
<1>12. TypeOK'
  <2>1. \A j \in Fds, e \in Ends : Len(net'[j].out[e]) <= WireCap
    <3> TAKE j \in Fds, e \in Ends
    <3>1. Len(<<>>) <= WireCap
      BY SessionAssumption
    <3>2. Len(net[j].out[e]) <= WireCap
      BY <1>0 DEF TypeOK
    <3>3. net'[j].out[e] \in {net[j].out[e], <<>>}
      BY <1>7, <1>8, <1>9, EndsAre
    <3> QED BY <3>1, <3>2, <3>3
  <2>2. \A e \in Ends : sock'[e].up => sock'[e].fd # NoFd
    BY <1>0, <1>10, EndsAre DEF TypeOK
  <2> QED BY <2>1, <2>2, <1>0, <1>1, <1>10 DEF TypeOK
<1>13. MoreTypes'
  BY <1>0, <1>1, <1>5, <1>8 DEF MoreTypes
<1>14. PhaseInv'
  <2>1. ASSUME login # NoLogin, login.fd = k \/ net'[login.fd].open[C] \/ net'[login.fd].out[C] # <<>>
        PROVE  login.ack = file[C].ack_seq
    <3>1. login.fd \in Fds \ {k}
      BY <2>1, <1>0, <1>3 DEF PhaseInv, MoreTypes
    <3>2. net[login.fd].open[C] \/ net[login.fd].out[C] # <<>>
      BY <2>1, <3>1, <1>9
    <3> QED BY <2>1, <3>2, <1>0 DEF PhaseInv
  <2> QED BY <2>1, <1>0, <1>1, <1>10, <1>11 DEF PhaseInv
<1>15. PairInv'
  <2>1. ASSUME NEW e \in Ends, Source(e)' # NoFd, net'[Source(e)'].open[Peer(e)]
        PROVE  net'[Source(e)'].open[e]
    <3>1. CASE e = C
      BY <3>1, <1>7, <1>8, <1>11
    <3>2. CASE e = S
      <4>1. PICK j \in Fds : j = Source(S)
        BY <3>2, <2>1, <1>0, <1>11, EndsAre, EndTypes
      <4>2. j # k /\ net'[j].open[C]
        BY <4>1, <3>2, <2>1, <1>11, EndsAre
      <4>3. net[j].open[C] /\ net'[j].open[S] = net[j].open[S]
        BY <4>2, <1>9
      <4> QED BY <4>1, <4>3, <3>2, <2>1, <1>0, <1>11, EndsAre DEF PairInv
    <3> QED BY <3>1, <3>2, EndsAre
  <2> QED BY <2>1, <1>10, <1>11 DEF PairInv
<1>16. RspInv'
  <2>1. ASSUME NEW j \in Fds, net'[j].rsp.status # "none" PROVE FALSE
    <3>1. j # k
      BY <2>1, <1>7, <1>8, FreeNetIs
    <3>2. net[j].rsp.status # "none"
      BY <2>1, <3>1, <1>9
    <3> QED BY <3>2, <1>0, <1>1, SessionAssumption DEF RspInv
  <2>2. net'[k].rsp.status = "none" /\ net'[k].out[S] = <<>>
    BY <2>1, <1>7, <1>8, EndsAre
  <2>3. Source(S)' # k
    BY <1>11
  <2> QED BY <2>1, <2>2, <2>3, <1>1 DEF RspInv
<1>17. BacklogInv'
  <2>1. \A x, y \in backlog' : x.fd = y.fd => x = y
    BY <1>0, <1>3, <1>4, <1>5 DEF BacklogInv
  <2>2. ASSUME NEW x \in backlog'
        PROVE  LoginMsgInv(x)'
    <3>1. CASE x = m
      <4>1. \A e \in Ends : net'[k].out[e] = <<>>
        BY <1>7, <1>8
      <4> QED BY <3>1, <4>1, <1>1, <1>3, <1>4, <1>10, <1>11 DEF LoginMsgInv
    <3>2. CASE x \in backlog
      <4>1. LoginMsgInv(x) /\ x.fd \in Fds \ {k} /\ x.fd # NoFd
        BY <3>2, <1>0, <1>3, BacklogIs, BacklogFds
      <4>2. \A e \in Ends : net'[x.fd].out[e] = <<>>
        BY <4>1, <1>9, EndsAre DEF LoginMsgInv
      <4>3. ~ net'[x.fd].open[C]
        BY <4>1, <1>1, <1>9 DEF LoginMsgInv
      <4> QED BY <4>1, <4>2, <4>3, <1>1, <1>10, <1>11 DEF LoginMsgInv
    <3> QED BY <3>1, <3>2, <1>5
  <2>3. \A x \in backlog' : LoginMsgInv(x)'
    BY <2>2
  <2> QED BY <2>1, <2>3 DEF BacklogInv, LoginMsgInv
<1>18. QueuesInv' /\ InOrder'
  BY <1>0, <1>1 DEF QueuesInv, InOrder
<1> DEFINE have == file[S].ack_seq
<1>20. QueueInv(q, p) /\ have \in UInt
  BY <1>0, EndsAre, EndTypes DEF QueuesInv
<1>21. Acked(C)' /\ Acked(S)'
  <2>1. ~ Heard(C)'
    BY <1>10 DEF Heard
  <2>2. Heard(S)' => Heard(S)
    <3> SUFFICES ASSUME Heard(S)' PROVE Heard(S)
      OBVIOUS
    <3>1. sock[S].up /\ sock[S].fd \in Fds \ {k}
      BY <1>0, <1>3, <1>10, EndsAre, EndTypes DEF Heard
    <3> QED BY <3>1, <1>9, <1>10, EndsAre DEF Heard
  <2>3. AckedOK(q, p, have, Heard(C)) /\ AckedOK(file[S], pushed[S], file[C].ack_seq, Heard(S))
    BY <1>0, EndsAre DEF Acked
  <2>4. AckedOK(q, p, have, Heard(C)')
    BY <2>1, <2>3, AckedLess
  <2>5. AckedOK(file[S], pushed[S], file[C].ack_seq, Heard(S)')
    BY <2>2, <2>3, AckedLess
  <2> QED BY <2>4, <2>5, <1>1, EndsAre DEF Acked
<1>22. Flow(C)'
  <2> SUFFICES ASSUME NEW j \in Fds, j = Source(S)', j # NoFd
               PROVE  FlowOK(q, p, have, Received(S)', Partial(S)', net'[j].out[C],
                             sock'[C].up /\ sock'[C].fd = j, net'[j].open[C])
    <3>1. Source(S)' \in Fds \cup {NoFd}
      BY <1>0, <1>11, EndsAre, EndTypes
    <3> QED BY <3>1, <1>1, EndsAre DEF Flow
  <2> DEFINE cnt == Received(S)
             prt == Partial(S)
             wire == net[j].out[C]
             live == sock[C].up /\ sock[C].fd = j
             live2 == sock'[C].up /\ sock'[C].fd = j
             open == net[j].open[C]
             open2 == net'[j].open[C]
  <2>1. j = Source(S) /\ j # k
    BY <1>11
  <2>2. FlowOK(q, p, have, cnt, prt, wire, live, open)
    BY <2>1, <1>0, EndsAre DEF Flow
  <2>3. cnt \in Nat /\ prt \in Seq(Blocks) /\ wire \in Seq(Blocks)
    BY <1>0, EndsAre, EndTypes, ConnFields
  <2>4. ~ live2
    BY <1>10
  <2>5. Received(S)' = cnt /\ Partial(S)' = prt /\ net'[j].out[C] = wire
    BY <2>1, <1>1, <1>9, <1>10 DEF Received, Partial
  <2> HIDE DEF cnt, prt, wire, live, live2, open, open2, q, p, have
  <2>6. FlowOK(q, p, have, cnt, prt, wire, live2, open2)
    BY <2>2, <2>4, FlowSame
  <2> QED BY <2>5, <2>6 DEF live2, open2
<1>23. Flow(S)'
  <2> DEFINE q1 == file[S]
             p1 == pushed[S]
             h1 == file[C].ack_seq
             u1 == Heard(S)
             live == sock'[S].up /\ sock'[S].fd = k
             open == net'[k].open[S]
  <2>1. q1 \in Queues /\ p1 \in UInt /\ h1 \in UInt /\ AckedOK(q1, p1, h1, u1)
    BY <1>0, EndsAre, EndTypes DEF Acked
  <2>2. ~ live
    BY <1>3, <1>10
  <2>3. Received(C)' = 0 /\ Partial(C)' = <<>> /\ net'[k].out[S] = <<>>
    BY <1>7, <1>8, <1>10, EndsAre DEF Received, Partial
  <2> HIDE DEF q1, p1, h1, u1, live, open
  <2>4. FlowOK(q1, p1, h1, 0, <<>>, <<>>, live, open)
    BY <2>1, <2>2, FlowStart
  <2> QED BY <2>3, <2>4, <1>1, <1>11, EndsAre DEF Flow, q1, p1, h1, live, open
<1> QED BY <1>12, <1>13, <1>14, <1>15, <1>16, <1>17, <1>18, <1>21, <1>22, <1>23, EndsAre DEF IInv

-----------------------------------------------------------------------------
(* Open().                                                                 *)

\* The queue and the connection after Open() with the peer's ack.
LEMMA OpensIs ==
  ASSUME IInv, NEW e \in Ends, NEW k \in Fds,
         NEW a \in UInt, ~ Before(file[Peer(e)].ack_seq, a),
         NEW r \in SendPending(e, LoginAck(file[e], a), net[k])
  PROVE  LET q2 == LoginAck(file[e], a)
             have == file[Peer(e)].ack_seq
         IN  /\ q2 \in Queues /\ QueueInv(q2, pushed[e]) /\ SendInv(q2) /\ q2.ack_seq = file[e].ack_seq
             /\ \A on \in BOOLEAN : (on => a = have) => AckedOK(q2, pushed[e], have, on)
             /\ a = have => \A live \in BOOLEAN, open \in BOOLEAN :
                  FlowOK(q2, pushed[e], have, 0, <<>>, <<>>, live, open)
             /\ \A cnt \in Nat, prt \in Seq(Blocks), wire \in Seq(Blocks), live \in BOOLEAN, open \in BOOLEAN :
                  ~ live /\ FlowOK(file[e], pushed[e], have, cnt, prt, wire, live, open)
                    => FlowOK(q2, pushed[e], have, cnt, prt, wire, live, open)
             /\ r.q \in Queues /\ r.q.blk = q2.blk /\ r.q.write_idx = q2.write_idx
             /\ r.q.read_idx = q2.read_idx /\ r.q.read_seq = q2.read_seq /\ r.q.ack_seq = file[e].ack_seq
             /\ QueueInv(r.q, pushed[e]) /\ SendInv(r.q) /\ r.q.send_idx >= q2.send_idx
             /\ r.n \in Conns /\ r.n.open = net[k].open /\ r.n.rsp = net[k].rsp
             /\ r.n.out[Peer(e)] = net[k].out[Peer(e)] /\ Len(r.n.out[e]) <= WireCap
             /\ r.n.out[e] = net[k].out[e] \/ net[k].open[e]
             /\ r.up \in BOOLEAN /\ r.cut \in BOOLEAN /\ (r.cut => budget > 0)
<1> DEFINE q == file[e]
           p == pushed[e]
           have == file[Peer(e)].ack_seq
           up == Heard(e)
           q2 == LoginAck(q, a)
<1>0. TypeOK /\ MoreTypes /\ QueuesInv /\ Acked(e)
  BY DEF IInv
<1>1. /\ q \in Queues /\ p \in UInt /\ have \in UInt /\ QueueInv(q, p) /\ AckedOK(q, p, have, up)
      /\ net[k] \in Conns /\ Len(net[k].out[e]) <= WireCap /\ ~ Before(have, a)
  BY <1>0, EndsAre, EndTypes DEF QueuesInv, Acked, TypeOK
<1>2. r \in SendPending(e, q2, net[k])
  OBVIOUS
<1> HIDE DEF q, p, have, up
<1>3. /\ q2 \in Queues /\ QueueInv(q2, p) /\ SendInv(q2) /\ q2.ack_seq = q.ack_seq
      /\ \A on \in BOOLEAN : (on => a = have) => AckedOK(q2, p, have, on)
      /\ a = have => \A live \in BOOLEAN, open \in BOOLEAN : FlowOK(q2, p, have, 0, <<>>, <<>>, live, open)
      /\ \A cnt \in Nat, prt \in Seq(Blocks), wire \in Seq(Blocks), live \in BOOLEAN, open \in BOOLEAN :
           ~ live /\ FlowOK(q, p, have, cnt, prt, wire, live, open)
             => FlowOK(q2, p, have, cnt, prt, wire, live, open)
  BY <1>1, LoginAckOpens
<1> HIDE DEF q2
<1>4. /\ r.q \in Queues /\ r.q.blk = q2.blk /\ r.q.write_idx = q2.write_idx
      /\ r.q.read_idx = q2.read_idx /\ r.q.read_seq = q2.read_seq /\ r.q.ack_seq = q2.ack_seq
      /\ SendInv(r.q) /\ r.q.send_idx >= q2.send_idx
      /\ r.n \in Conns /\ r.n.open = net[k].open /\ r.n.rsp = net[k].rsp
      /\ r.n.out[Peer(e)] = net[k].out[Peer(e)] /\ Len(r.n.out[e]) <= WireCap
      /\ r.up \in BOOLEAN /\ r.cut \in BOOLEAN /\ (r.cut => budget > 0)
  BY <1>1, <1>2, <1>3, SendPendingIs
<1>6. r.n.out[e] = net[k].out[e] \/ net[k].open[e]
  <2>1. r.n = net[k] \/ net[k].open[e]
    BY <1>1, <1>2, <1>3, SendPendingIs
  <2> QED BY <2>1
<1>5. QueueInv(r.q, p)
  BY <1>3, <1>4, SameBlocks
<1> QED BY <1>3, <1>4, <1>5, <1>6 DEF q, p, have, up, q2

\* Open() keeps the streams: that of the end that opens starts again at what its
\* peer has consumed.
LEMMA OpensKeep ==
  ASSUME IInv, NEW e \in Ends, NEW k \in Fds, k = Source(e), sock[e].fd = NoFd, ~ alloced[e],
         NEW a \in UInt, ~ Before(file[Peer(e)].ack_seq, a),
         k = Source(Peer(e)) \/ net[k].open[Peer(e)] \/ net[k].out[Peer(e)] # <<>>
           => a = file[Peer(e)].ack_seq,
         NEW r \in SendPending(e, LoginAck(file[e], a), net[k]),
         file' = [file EXCEPT ![e] = r.q],
         sock' = [sock EXCEPT ![e] = [up |-> r.up, fd |-> k]],
         inbox' = [inbox EXCEPT ![e] = <<>>], part' = [part EXCEPT ![e] = <<>>],
         UNCHANGED <<alloced, pushed>>,
         Source(Peer(e))' = Source(Peer(e)),
         net'[k].out = r.n.out, net'[k].open = net[k].open, \A j \in Fds \ {k} : net'[j] = net[j]
  PROVE  /\ DataInv'
         /\ file' \in [Ends -> Queues] /\ file'[e] = r.q /\ file'[Peer(e)] = file[Peer(e)]
         /\ \A d \in Ends : file'[d].ack_seq = file[d].ack_seq
         /\ sock' \in [Ends -> [up : BOOLEAN, fd : Fds \cup {NoFd}]]
         /\ sock'[e].fd = k /\ sock'[Peer(e)] = sock[Peer(e)]
         /\ \A d \in Ends : sock'[d].up => sock'[d].fd # NoFd
         /\ part' \in [Ends -> Seq(Blocks)] /\ inbox' \in [Ends -> Seq(Seq(Blocks))]
         /\ \A d \in Ends : Source(d)' = Source(d) /\ Received(d)' = Received(d) /\ Partial(d)' = Partial(d)
         /\ Received(e)' = 0 /\ Partial(e)' = <<>>
<1> DEFINE o == Peer(e)
           p == pushed[e]
           have == file[o].ack_seq
           q2 == LoginAck(file[e], a)
           new == [up |-> r.up, fd |-> k]
<1>0. TypeOK /\ MoreTypes /\ QueuesInv /\ InOrder /\ PairInv /\ \A d \in Ends : Acked(d) /\ Flow(d)
  BY DEF IInv
<1>1. o \in Ends /\ o # e /\ Peer(o) = e /\ \A d \in Ends : d = e \/ d = o
  BY EndsAre
<1>2. /\ q2 \in Queues /\ QueueInv(q2, p) /\ SendInv(q2)
      /\ \A on \in BOOLEAN : (on => a = have) => AckedOK(q2, p, have, on)
      /\ a = have => \A live \in BOOLEAN, open \in BOOLEAN : FlowOK(q2, p, have, 0, <<>>, <<>>, live, open)
      /\ \A cnt \in Nat, prt \in Seq(Blocks), wire \in Seq(Blocks), live \in BOOLEAN, open \in BOOLEAN :
           ~ live /\ FlowOK(file[e], p, have, cnt, prt, wire, live, open)
             => FlowOK(q2, p, have, cnt, prt, wire, live, open)
      /\ r.q \in Queues /\ r.q.blk = q2.blk /\ r.q.write_idx = q2.write_idx
      /\ r.q.read_idx = q2.read_idx /\ r.q.read_seq = q2.read_seq /\ r.q.ack_seq = file[e].ack_seq
      /\ QueueInv(r.q, p) /\ SendInv(r.q) /\ r.q.send_idx >= q2.send_idx
      /\ r.n \in Conns /\ r.n.open = net[k].open /\ r.n.out[o] = net[k].out[o]
      /\ r.n.out[e] = net[k].out[e] \/ net[k].open[e]
      /\ r.up \in BOOLEAN
  BY OpensIs
<1>3. k # NoFd /\ net[k] \in Conns /\ p \in UInt /\ have \in UInt
  BY <1>0, <1>1, SessionAssumption, EndTypes
<1>4. r \in SendPending(e, q2, net[k])
  OBVIOUS
<1> HIDE DEF q2
<1>5. file' \in [Ends -> Queues] /\ file'[e] = r.q /\ file'[o] = file[o]
  <2>1. file \in [Ends -> Queues]
    BY <1>0, EndTypes DEF TypeOK
  <2> QED BY <2>1, <1>1, <1>2
<1>6. /\ sock' \in [Ends -> [up : BOOLEAN, fd : Fds \cup {NoFd}]]
      /\ sock'[e].up = r.up /\ sock'[e].fd = k /\ sock'[o] = sock[o]
  <2>1. sock \in [Ends -> [up : BOOLEAN, fd : Fds \cup {NoFd}]] /\ sock' = [sock EXCEPT ![e] = new]
    BY <1>0 DEF TypeOK
  <2>2. new \in [up : BOOLEAN, fd : Fds \cup {NoFd}] /\ new.up = r.up /\ new.fd = k
    BY <1>2
  <2> HIDE DEF new
  <2> QED BY <2>1, <2>2, <1>1
<1>7. \A d \in Ends : sock'[d].up => sock'[d].fd # NoFd
  BY <1>0, <1>1, <1>3, <1>6 DEF TypeOK
<1>8. /\ part' \in [Ends -> Seq(Blocks)] /\ inbox' \in [Ends -> Seq(Seq(Blocks))]
      /\ inbox'[e] = <<>> /\ part'[e] = <<>> /\ inbox'[o] = inbox[o] /\ part'[o] = part[o]
  <2>1. /\ part \in [Ends -> Seq(Blocks)] /\ inbox \in [Ends -> Seq(Seq(Blocks))]
        /\ <<>> \in Seq(Blocks) /\ <<>> \in Seq(Seq(Blocks))
    BY <1>0 DEF MoreTypes
  <2> QED BY <2>1, <1>1
<1>9. /\ Received(e)' = 0 /\ Partial(e)' = <<>> /\ Received(e) = 0 /\ Partial(e) = <<>>
      /\ Received(o)' = Received(o) /\ Partial(o)' = Partial(o)
  BY <1>3, <1>6, <1>8 DEF Received, Partial
<1>10. Source(e)' = k
  BY <1>3, <1>6 DEF Source
<1>11. QueuesInv'
  <2> SUFFICES ASSUME NEW d \in Ends
               PROVE  /\ QueueInv(file'[d], pushed'[d]) /\ SendInv(file'[d])
                      /\ alloced'[d] => AllocInv(file'[d], pushed'[d])
    BY DEF QueuesInv
  <2>1. CASE d = e
    BY <2>1, <1>2, <1>5
  <2>2. CASE d = o
    BY <2>2, <1>0, <1>5 DEF QueuesInv
  <2> QED BY <2>1, <2>2, <1>1
<1>12. InOrder'
  <2> SUFFICES ASSUME NEW d \in Ends, NEW i \in DOMAIN inbox'[d]
               PROVE  IsMessage(inbox'[d][i], Add(file'[d].ack_seq, i - 1))
    BY DEF InOrder
  <2>1. d = o
    BY <1>1, <1>8
  <2> QED BY <2>1, <1>0, <1>5, <1>8 DEF InOrder
<1>13. Acked(e)'
  <2> DEFINE on == Heard(e)'
  <2>1. on \in BOOLEAN /\ (on => a = have)
    <3>1. Heard(e)' => net[k].open[o] \/ net[k].out[o] # <<>>
      BY <1>2, <1>6 DEF Heard
    <3>2. Heard(e)' \in BOOLEAN
      BY <1>2, <1>6 DEF Heard
    <3> QED BY <3>1, <3>2
  <2>2. AckedOK(q2, p, have, on)
    BY <2>1, <1>2
  <2>3. q2.send_idx \in Int /\ r.q.send_idx \in Int
    BY <1>2, QueueFields
  <2> HIDE DEF on, have, p
  <2>4. AckedOK(r.q, p, have, on)
    BY <2>2, <2>3, <1>2, AckedSame
  <2> QED BY <2>4, <1>5 DEF Acked, on, have, p
<1>14. Acked(o)'
  <2>1. SameQueue(o) /\ file'[o] \in Queues /\ file'[Peer(o)].ack_seq = file[Peer(o)].ack_seq
    BY <1>1, <1>2, <1>5 DEF SameQueue
  <2>2. file[o].send_idx \in Int
    BY <1>0, <1>1, EndTypes, QueueFields
  <2>5. Heard(o)' => Heard(o)
    <3> SUFFICES ASSUME Heard(o)' PROVE Heard(o)
      OBVIOUS
    <3> DEFINE j == sock[o].fd
    <3>1. sock[o].up /\ j \in Fds /\ sock'[o].fd = j
      BY <1>0, <1>1, <1>6, EndTypes DEF Heard
    <3>2. net'[j].open[e] = net[j].open[e] /\ (net'[j].out[e] = net[j].out[e] \/ net[j].open[e])
      BY <3>1, <1>2
    <3> HIDE DEF o, j
    <3>3. net'[j].open[e] \/ net'[j].out[e] # <<>>
      BY <3>1, <1>1 DEF Heard
    <3> QED BY <3>1, <3>2, <3>3, <1>1 DEF Heard, j
  <2>3. Heard(o)' => Heard(o) /\ file'[o].send_idx >= file[o].send_idx
    BY <2>2, <2>5, <1>5
  <2>4. Acked(o)
    BY <1>0, <1>1
  <2> HIDE DEF o
  <2> QED BY <2>1, <2>3, <2>4, <1>0, <1>1, AckedKept
<1>15. Flow(o)'
  <2>1. SameQueue(o) /\ file'[Peer(o)].ack_seq = file[Peer(o)].ack_seq
    BY <1>1, <1>2, <1>5 DEF SameQueue
  <2>2. sock'[o].up => sock[o].up /\ sock'[o].fd = sock[o].fd /\ file'[o].send_idx = file[o].send_idx
    BY <1>5, <1>6
  <2>3. /\ Source(Peer(o))' = Source(Peer(o))
        /\ Received(Peer(o))' = Received(Peer(o)) /\ Partial(Peer(o))' = Partial(Peer(o))
        /\ net'[Source(Peer(o))].out[o] = net[Source(Peer(o))].out[o]
        /\ net'[Source(Peer(o))].open[o] => net[Source(Peer(o))].open[o]
    BY <1>1, <1>2, <1>9, <1>10
  <2>4. Flow(o)
    BY <1>0, <1>1
  <2> HIDE DEF o
  <2> QED BY <2>1, <2>2, <2>3, <2>4, <1>0, <1>1, FlowKept
<1>16. Flow(e)'
  <2> SUFFICES ASSUME NEW j \in Fds, j = Source(o), j # NoFd
               PROVE  FlowOK(r.q, p, have, Received(o), Partial(o), net'[j].out[e],
                             sock'[e].up /\ sock'[e].fd = j, net'[j].open[e])
    <3>1. Source(o) \in Fds \cup {NoFd}
      BY <1>0, <1>1, EndTypes
    <3> QED BY <3>1, <1>5, <1>9 DEF Flow
  <2> DEFINE cnt == Received(o)
             prt == Partial(o)
             wire == net[j].out[e]
             open == net[j].open[e]
             live == sock[e].up /\ sock[e].fd = j
             live2 == sock'[e].up /\ sock'[e].fd = j
  <2>1. /\ cnt \in Nat /\ prt \in Seq(Blocks) /\ wire \in Seq(Blocks) /\ open \in BOOLEAN
        /\ live \in BOOLEAN /\ ~ live
    BY <1>0, <1>1, EndTypes, ConnFields
  <2>2. CASE j # k
    <3>1. FlowOK(file[e], p, have, cnt, prt, wire, live, open)
      BY <1>0 DEF Flow
    <3>2. ~ live2 /\ net'[j] = net[j]
      BY <2>2, <1>6
    <3> HIDE DEF cnt, prt, wire, open, live, live2, have, p
    <3>3. FlowOK(q2, p, have, cnt, prt, wire, live, open)
      BY <2>1, <3>1, <1>2
    <3>4. FlowOK(r.q, p, have, cnt, prt, wire, live2, open)
      BY <3>2, <3>3, <1>2, FlowSame
    <3> QED BY <3>2, <3>4 DEF cnt, prt, wire, open, live2
  <2>3. CASE j = k
    <3>11. a = have
      BY <2>3
    <3>1. wire = <<>> /\ cnt = 0 /\ prt = <<>>
      <4>1. Source(C) = Source(S) /\ Source(S) = k
        BY <2>3, <1>1, EndsAre
      <4> QED BY <4>1, <2>3, <1>0, <1>1, <1>3 DEF PairInv
    <3>2. net[k].open[e] => net[k].open[o]
      BY <2>3, <1>0, <1>1, <1>3 DEF PairInv
    <3> DEFINE tt == TRUE
               c0 == 0
               p0 == <<>>
               oo == net[k].open[e]
    <3>3. tt \in BOOLEAN /\ oo \in BOOLEAN
      BY <1>3, ConnFields
    <3>4. FlowOK(q2, p, have, 0, <<>>, <<>>, tt, oo)
      <4> HIDE DEF tt, oo
      <4> QED BY <3>3, <3>11, <1>2
    <3>5. FlowOK(q2, p, have, cnt, prt, net[k].out[e], TRUE, net[k].open[e])
      BY <3>1, <3>4, <2>3
    <3>6. Len(net[k].out[e]) <= WireCap
      BY <1>0 DEF TypeOK
    <3>7. FlowOK(r.q, p, have, cnt, prt, r.n.out[e], r.up, r.n.open[e])
      <4> HIDE DEF cnt, prt, have, p
      <4> QED BY <3>2, <3>5, <3>6, <2>1, <1>2, <1>3, <1>4, FlowSent
    <3>8. live2 = r.up
      BY <2>3, <1>2, <1>6
    <3> HIDE DEF live2
    <3>9. net'[j].out[e] = r.n.out[e] /\ net'[j].open[e] = r.n.open[e]
      BY <2>3, <1>2
    <3>10. FlowOK(r.q, p, have, cnt, prt, net'[j].out[e], live2, net'[j].open[e])
      BY <3>7, <3>8, <3>9
    <3> QED BY <3>10 DEF live2, cnt, prt
  <2> QED BY <2>2, <2>3
<1>17. DataInv'
  BY <1>1, <1>11, <1>12, <1>13, <1>14, <1>15, <1>16 DEF DataInv
<1>18. \A d \in Ends : Source(d)' = Source(d) /\ Received(d)' = Received(d) /\ Partial(d)' = Partial(d)
  BY <1>1, <1>9, <1>10
<1>19. \A d \in Ends : file'[d].ack_seq = file[d].ack_seq
  BY <1>1, <1>2, <1>5
<1> QED BY <1>5, <1>6, <1>7, <1>8, <1>9, <1>17, <1>18, <1>19

\* The budget after a send that may be cut.
LEMMA CutKeeps ==
  ASSUME TypeOK, NEW r, r.cut => budget > 0, CutBudget(r)
  PROVE  budget' \in 0 .. MaxFailures
BY SessionAssumption DEF TypeOK, CutBudget

\* Numbers that are less than half of the range after r compare as their distances
\* from it do.
LEMMA NotBehind ==
  ASSUME NEW r \in UInt, NEW have \in UInt, NEW a \in UInt, Sub(have, r) < HalfRange, Sub(a, r) < HalfRange
  PROVE  ~ Before(have, a) <=> Sub(a, r) <= Sub(have, r)
BY Widths DEF Sub, Before

\* What the peer has consumed is less than half of the range ahead of the queue.
LEMMA AckedOff ==
  ASSUME IInv, NEW e \in Ends
  PROVE  LET q == file[e]
             have == file[Peer(e)].ack_seq
         IN  /\ Off(q, have) \in Nat /\ Off(q, pushed[e]) \in Nat /\ Off(q, have) <= Off(q, pushed[e])
             /\ Off(q, pushed[e]) < HalfRange
             /\ \A a \in UInt : Off(q, a) \in Nat
             /\ \A a \in UInt : Off(q, a) < HalfRange => (~ Before(have, a) <=> Off(q, a) <= Off(q, have))
<1> DEFINE q == file[e]
           p == pushed[e]
           have == file[Peer(e)].ack_seq
<1>1. q \in Queues /\ p \in UInt /\ have \in UInt /\ QueueInv(q, p)
  BY EndsAre, EndTypes DEF IInv, QueuesInv
<1>2. PICK h \in Int : Starts(q, p, h, have)
  BY DEF IInv, Acked, AckedOK
<1> HIDE DEF q, p, have
<1>3. Off(q, have) \in Nat /\ Off(q, have) <= Off(q, p)
  BY <1>1, <1>2, StartsOnce
<1>4. Off(q, p) \in Nat /\ Off(q, p) <= q.write_idx - q.read_idx
  BY <1>1, QueueCount
<1>5. q.write_idx - q.read_idx <= BLK_CNT /\ BLK_CNT < HalfRange /\ BLK_CNT \in Nat /\ HalfRange \in Nat
      /\ q.write_idx - q.read_idx \in Int /\ q.read_seq \in UInt
  BY <1>1, QueueFields, Widths
<1>6. Off(q, p) < HalfRange /\ Off(q, have) < HalfRange
  BY <1>3, <1>4, <1>5
<1>7. \A a \in UInt : Off(q, a) \in Nat
  BY <1>1, OffRange
<1>8. \A a \in UInt : Off(q, a) < HalfRange => (~ Before(have, a) <=> Off(q, a) <= Off(q, have))
  BY <1>1, <1>5, <1>6, NotBehind DEF Off
<1> QED BY <1>3, <1>4, <1>6, <1>7, <1>8 DEF q, p, have

\* Nothing is before itself.
LEMMA NotBeforeSelf ==
  ASSUME NEW a \in UInt
  PROVE  ~ Before(a, a)
BY Widths DEF Sub, Before

\* The server's Open() keeps the invariant.
LEMMA OpenLiveKeeps ==
  ASSUME IInv, OpenLive
  PROVE  IInv'
<1> USE DEF files, bufs, logins
<1> DEFINE k == login.fd
           a == login.ack
<1>0. /\ TypeOK /\ MoreTypes /\ QueuesInv /\ InOrder /\ PhaseInv /\ PairInv /\ RspInv /\ BacklogInv
      /\ \A d \in Ends : Acked(d) /\ Flow(d)
  BY DEF IInv
<1>1. /\ login # NoLogin /\ login' = NoLogin
      /\ UNCHANGED <<last_server, alloced, mapped, connecting, backlog, pushed>>
  BY DEF OpenLive
<1>2. /\ sock[S].fd = NoFd /\ k \in Fds /\ k # NoFd /\ alloced[S] = FALSE
      /\ Source(S) = k /\ a \in UInt /\ Off(file[S], a) <= Off(file[S], file[C].ack_seq)
      /\ k = Source(C) \/ net[k].open[C] \/ net[k].out[C] # <<>> => a = file[C].ack_seq
  <2>1. /\ sock[S].fd = NoFd /\ k # NoFd /\ ~ alloced[S] /\ Off(file[S], a) <= Off(file[S], file[C].ack_seq)
        /\ k = Source(C) \/ net[k].open[C] \/ net[k].out[C] # <<>> => a = file[C].ack_seq
    BY <1>0, <1>1 DEF PhaseInv
  <2>2. k \in Fds /\ alloced[S] \in BOOLEAN /\ a \in UInt
    BY <2>1, <1>0, EndsAre DEF TypeOK, MoreTypes
  <2> QED BY <2>1, <2>2, EndsAre DEF Source
<1>19. ~ Before(file[C].ack_seq, a)
  <2>1. /\ Off(file[S], file[C].ack_seq) \in Nat /\ Off(file[S], pushed[S]) \in Nat
        /\ Off(file[S], file[C].ack_seq) <= Off(file[S], pushed[S])
        /\ Off(file[S], pushed[S]) < HalfRange /\ Off(file[S], a) \in Nat
        /\ Off(file[S], a) < HalfRange => (~ Before(file[C].ack_seq, a) <=> Off(file[S], a) <= Off(file[S], file[C].ack_seq))
    BY <1>2, EndsAre, AckedOff
  <2>2. HalfRange \in Nat
    BY Widths
  <2> QED BY <2>1, <2>2, <1>2
<1> HIDE DEF a
<1>3. PICK r \in SendPending(S, LoginAck(file[S], a), net[k]) :
        Opened(S, k, r) /\ net' = [net EXCEPT ![k] = r.n]
  BY <1>2 DEF OpenLive, OpenOutcomes, a
<1>4. Peer(S) = C /\ Peer(C) = S /\ C \in Ends /\ S \in Ends /\ C # S
  BY EndsAre
<1>5. /\ r.n \in Conns /\ r.n.open = net[k].open /\ r.n.rsp = net[k].rsp
      /\ r.n.out[C] = net[k].out[C] /\ Len(r.n.out[S]) <= WireCap
      /\ (r.cut => budget > 0) /\ (r.n.out[S] = net[k].out[S] \/ net[k].open[S])
  BY <1>2, <1>3, <1>4, <1>19, OpensIs
<1>6. /\ net' \in [Fds -> Conns] /\ net'[k] = r.n /\ \A j \in Fds \ {k} : net'[j] = net[j]
  <2>1. net \in [Fds -> Conns]
    BY <1>0 DEF MoreTypes
  <2> QED BY <2>1, <1>2, <1>3, <1>5, NetChanged
<1>7. /\ file' = [file EXCEPT ![S] = r.q] /\ sock' = [sock EXCEPT ![S] = [up |-> r.up, fd |-> k]]
      /\ inbox' = [inbox EXCEPT ![S] = <<>>] /\ part' = [part EXCEPT ![S] = <<>>]
      /\ CutBudget(r)
  BY <1>3 DEF Opened
<1>9. Source(C)' = Source(C)
  <2>1. sock'[C] = sock[C]
    BY <1>0, <1>4, <1>7 DEF TypeOK
  <2> QED BY <2>1, <1>1 DEF Source
<1>11. /\ DataInv'
       /\ file' \in [Ends -> Queues] /\ file'[C] = file[C]
       /\ \A d \in Ends : file'[d].ack_seq = file[d].ack_seq
       /\ sock' \in [Ends -> [up : BOOLEAN, fd : Fds \cup {NoFd}]]
       /\ sock'[S].fd = k /\ sock'[C] = sock[C]
       /\ \A d \in Ends : sock'[d].up => sock'[d].fd # NoFd
       /\ part' \in [Ends -> Seq(Blocks)] /\ inbox' \in [Ends -> Seq(Seq(Blocks))]
       /\ \A d \in Ends : Source(d)' = Source(d) /\ Received(d)' = Received(d) /\ Partial(d)' = Partial(d)
       /\ Received(S)' = 0 /\ Partial(S)' = <<>>
  <2>1. net'[k].out = r.n.out /\ net'[k].open = net[k].open
    BY <1>5, <1>6
  <2> HIDE DEF k
  <2> QED BY <2>1, <1>1, <1>2, <1>3, <1>4, <1>6, <1>7, <1>9, <1>19, OpensKeep
<1>12. \A j \in Fds : net'[j].open = net[j].open /\ net'[j].rsp = net[j].rsp /\ net'[j].out[C] = net[j].out[C]
  BY <1>5, <1>6
<1>13. TypeOK'
  <2>1. \A j \in Fds, e \in Ends : Len(net'[j].out[e]) <= WireCap
    <3> TAKE j \in Fds, e \in Ends
    <3>1. Len(net[j].out[e]) <= WireCap
      BY <1>0 DEF TypeOK
    <3>2. CASE j = k /\ e = S
      BY <3>2, <1>5, <1>6
    <3>3. CASE j # k \/ e = C
      BY <3>1, <3>3, <1>6, <1>12
    <3> QED BY <3>2, <3>3, EndsAre
  <2>2. budget' \in 0 .. MaxFailures
    BY <1>0, <1>5, <1>7, CutKeeps
  <2>3. NoLogin.fd = NoFd
    BY DEF NoLogin
  <2> QED BY <2>1, <2>2, <2>3, <1>0, <1>1, <1>11, FileTypes DEF TypeOK
<1>14. MoreTypes'
  <2>1. NoLogin \in [fd : Fds \cup {NoFd}, ack : UInt]
    BY Widths DEF NoLogin
  <2> QED BY <2>1, <1>0, <1>1, <1>6, <1>11 DEF MoreTypes
<1>15. PhaseInv'
  BY <1>0, <1>1, <1>2, <1>11 DEF PhaseInv
<1>20. Settled => Settled'
  <2>1. Source(C)' = Source(C) /\ Source(S)' = k /\ Received(S)' = 0 /\ Partial(S)' = <<>>
    BY <1>2, <1>4, <1>11
  <2>2. net'[k].open[C] = net[k].open[C] /\ net'[k].out[C] = net[k].out[C]
    BY <1>2, <1>12
  <2> HIDE DEF k
  <2> QED BY <2>1, <2>2, <1>2 DEF Settled, Barren
<1>16. PairInv'
  <2>1. Source(C)' = Source(C) /\ Source(S)' = k
    BY <1>2, <1>4, <1>11
  <2>2. sock'[C].fd # NoFd => Settled'
    BY <1>0, <1>11, <1>20 DEF PairInv
  <2>3. ASSUME NEW e \in Ends, Source(e)' # NoFd, net'[Source(e)'].open[Peer(e)]
        PROVE  net'[Source(e)'].open[e]
    <3>1. PICK j \in Fds : j = Source(e)
      BY <2>3, <1>0, <1>11, EndTypes
    <3>2. net'[j].open = net[j].open /\ Source(e)' = j
      BY <3>1, <1>11, <1>12
    <3> QED BY <2>3, <3>1, <3>2, <1>0 DEF PairInv
  <2>4. ASSUME Source(C)' = Source(S)', NEW e \in Ends, sock'[e].fd = NoFd
        PROVE  /\ net'[k].out[e] = <<>>
               /\ Received(Peer(e))' = 0 /\ Partial(Peer(e))' = <<>>
    <3>1. e = C /\ sock[C].fd = NoFd
      BY <2>4, <1>2, <1>11, EndsAre
    <3>2. net[k].out[C] = <<>>
      BY <3>1, <2>1, <2>4, <1>0, <1>2, <1>4 DEF PairInv
    <3> QED BY <3>1, <3>2, <1>2, <1>4, <1>11, <1>12
  <2> QED BY <2>1, <2>2, <2>3, <2>4 DEF PairInv
<1>17. RspInv'
  <2>1. connecting \in Fds \cup {NoFd} /\ Source(S)' = Source(S) /\ file'[S].ack_seq = file[S].ack_seq
    BY <1>0, <1>4, <1>11 DEF TypeOK
  <2>2. \A j \in Fds : net'[j].rsp.status # "none" =>
           /\ net'[j].open[C] /\ j = connecting' /\ \A m \in backlog' : m.fd # j
           /\ net'[j].rsp.status \notin {"mismatch", "corrupt"}
    BY <1>0, <1>1, <1>12 DEF RspInv
  <2>3. ASSUME connecting # NoFd
        PROVE  IF net'[connecting].rsp.status = "ok"
               THEN net'[connecting].rsp.ack = file'[S].ack_seq /\ Settled'
               ELSE /\ net'[connecting].out[S] = <<>>
                    /\ Source(S)' = connecting => ~ net'[connecting].open[S]
    <3>1. net'[connecting].open = net[connecting].open /\ net'[connecting].rsp = net[connecting].rsp
      BY <2>1, <2>3, <1>12
    <3>2. CASE net[connecting].rsp.status = "ok"
      BY <2>1, <2>3, <3>1, <3>2, <1>0, <1>20 DEF RspInv
    <3>3. CASE net[connecting].rsp.status # "ok"
      <4>1. net[connecting].out[S] = <<>> /\ (Source(S) = connecting => ~ net[connecting].open[S])
        BY <2>3, <3>3, <1>0 DEF RspInv
      <4>2. net'[connecting].out[S] = <<>>
        BY <2>1, <2>3, <4>1, <1>2, <1>5, <1>6
      <4> QED BY <2>1, <3>1, <3>3, <4>1, <4>2
    <3> QED BY <3>2, <3>3
  <2> QED BY <2>2, <2>3, <1>1 DEF RspInv
<1>18. BacklogInv'
  <2>1. ASSUME NEW m \in backlog
        PROVE  LoginMsgInv(m)'
    <3>1. m.fd \in Fds /\ LoginMsgInv(m)
      BY <1>0, BacklogFds, BacklogIs
    <3>2. m.fd # k
      BY <3>1, <1>2 DEF LoginMsgInv
    <3>3. net'[m.fd] = net[m.fd]
      BY <3>1, <3>2, <1>6
    <3>4. Source(S)' = Source(S)
      BY <1>4, <1>11
    <3> QED BY <3>1, <3>3, <3>4, <1>1, <1>11 DEF LoginMsgInv
  <2>2. \A m \in backlog' : LoginMsgInv(m)'
    BY <2>1, <1>1
  <2>3. \A m, n \in backlog' : m.fd = n.fd => m = n
    BY <1>0, <1>1 DEF BacklogInv
  <2> QED BY <2>2, <2>3 DEF BacklogInv, LoginMsgInv
<1> QED BY <1>11, <1>13, <1>14, <1>15, <1>16, <1>17, <1>18 DEF IInv, DataInv

\* The client's Open(): what becomes of its queue and of the connection.
LEMMA LoggedInIs ==
  ASSUME IInv, RecvLoginRsp, net[connecting].rsp.status = "ok"
  PROVE  /\ connecting # NoFd /\ connecting \in Fds
         /\ UNCHANGED <<alloced, pushed>>
         /\ \E r \in SendPending(C, LoginAck(file[C], file[S].ack_seq), net[connecting]) :
              /\ Opened(C, connecting, r)
              /\ net' \in [Fds -> Conns] /\ net'[connecting].out = r.n.out
              /\ net'[connecting].open = net[connecting].open /\ net'[connecting].rsp = NoRsp
              /\ \A j \in Fds \ {connecting} : net'[j] = net[j]
<1> USE DEF files, bufs, logins
<1> DEFINE k == connecting
           read == [net EXCEPT ![k].rsp = NoRsp]
<1>0. /\ TypeOK /\ MoreTypes /\ QueuesInv /\ InOrder /\ PhaseInv /\ PairInv /\ RspInv /\ BacklogInv
      /\ \A d \in Ends : Acked(d) /\ Flow(d)
  BY DEF IInv
<1>1. /\ k # NoFd /\ k \in Fds /\ connecting' = NoFd /\ last_server' = TRUE /\ mapped' = TRUE
      /\ UNCHANGED <<alloced, login, backlog>>
  BY <1>0 DEF RecvLoginRsp, TypeOK
<1>2. /\ sock[C].fd = NoFd /\ alloced[C] = FALSE /\ Source(C) = k
      /\ net[k].rsp.ack = file[S].ack_seq /\ Settled /\ file[S].ack_seq \in UInt
      /\ \A m \in backlog : m.fd # k
  <2>1. sock[C].fd = NoFd /\ ~ alloced[C]
    BY <1>0, <1>1 DEF PhaseInv
  <2>2. net[k].rsp.ack = file[S].ack_seq /\ Settled /\ \A m \in backlog : m.fd # k
    BY <1>0, <1>1 DEF RspInv
  <2>3. alloced[C] \in BOOLEAN /\ file[S].ack_seq \in UInt
    BY <1>0, EndsAre, EndTypes DEF TypeOK
  <2> QED BY <2>1, <2>2, <2>3 DEF Source
<1>3. PICK r \in SendPending(C, LoginAck(file[C], file[S].ack_seq), net[k]) :
        Opened(C, k, r) /\ net' = [read EXCEPT ![k].out = r.n.out]
  BY <1>2, ClientQueue DEF RecvLoginRsp, OpenOutcomes
<1>4. Peer(S) = C /\ Peer(C) = S /\ C \in Ends /\ S \in Ends /\ C # S
  BY EndsAre
<1>5. /\ r.n \in Conns /\ r.n.open = net[k].open
      /\ r.n.out[S] = net[k].out[S] /\ Len(r.n.out[C]) <= WireCap
      /\ (r.cut => budget > 0)
  BY <1>1, <1>2, <1>3, <1>4, NotBeforeSelf, OpensIs
<1>6. /\ net' \in [Fds -> Conns] /\ net'[k].out = r.n.out /\ net'[k].open = net[k].open /\ net'[k].rsp = NoRsp
      /\ \A j \in Fds \ {k} : net'[j] = net[j]
  <2> DEFINE a == [net[k] EXCEPT !.rsp = NoRsp]
             out == r.n.out
             b == [out |-> out, rsp |-> NoRsp, open |-> net[k].open]
  <2>1. net \in [Fds -> Conns] /\ net[k] \in Conns
    BY <1>0, <1>1 DEF MoreTypes
  <2>2. out \in [Ends -> Seq(Blocks)] /\ net[k].open \in [Ends -> BOOLEAN]
    BY <2>1, <1>4, <1>5, ConnFields
  <2>3. read = [net EXCEPT ![k] = a]
    BY <2>1, <1>1
  <2>4. a = [out |-> net[k].out, rsp |-> NoRsp, open |-> net[k].open]
    BY <2>1 DEF Conns
  <2> HIDE DEF out, a
  <2>5. b \in Conns /\ b.out = out /\ b.rsp = NoRsp /\ b.open = net[k].open
    BY <2>2, FreeNetIs DEF Conns
  <2>6. [a EXCEPT !.out = out] = b
    BY <2>4
  <2> HIDE DEF b
  <2>7. read[k] = a /\ read \in [Fds -> Conns \cup {a}] /\ \A j \in Fds \ {k} : read[j] = net[j]
    BY <2>1, <2>3, <1>1
  <2> HIDE DEF read
  <2>8. net' = [read EXCEPT ![k] = b]
    BY <2>6, <2>7, <1>1, <1>3 DEF out
  <2>9. net'[k] = b /\ \A j \in Fds \ {k} : net'[j] = net[j]
    BY <2>7, <2>8, <1>1
  <2>10. net' \in [Fds -> Conns]
    BY <2>1, <2>5, <2>7, <2>8, <2>9, <1>1
  <2> QED BY <2>5, <2>9, <2>10 DEF out
<1>7. /\ file' = [file EXCEPT ![C] = r.q] /\ sock' = [sock EXCEPT ![C] = [up |-> r.up, fd |-> k]]
      /\ inbox' = [inbox EXCEPT ![C] = <<>>] /\ part' = [part EXCEPT ![C] = <<>>]
      /\ CutBudget(r)
  BY <1>3 DEF Opened
<1>8. pushed' = pushed
  <2>1. pushed' = IF last_server THEN pushed ELSE [pushed EXCEPT ![C] = 0]
    BY DEF RecvLoginRsp
  <2>2. pushed \in [Ends -> UInt] /\ (~ last_server => pushed[C] = 0)
    BY <1>0 DEF TypeOK, PhaseInv
  <2> QED BY <2>1, <2>2
<1> QED BY <1>1, <1>3, <1>6, <1>8

\* The client's Open() keeps the invariant.
LEMMA LoggedInKeeps ==
  ASSUME IInv, RecvLoginRsp, net[connecting].rsp.status = "ok"
  PROVE  IInv'
<1> USE DEF files, bufs, logins
<1> DEFINE k == connecting
<1>0. /\ TypeOK /\ MoreTypes /\ QueuesInv /\ InOrder /\ PhaseInv /\ PairInv /\ RspInv /\ BacklogInv
      /\ \A d \in Ends : Acked(d) /\ Flow(d)
  BY DEF IInv
<1>1. /\ k # NoFd /\ k \in Fds /\ connecting' = NoFd /\ last_server' = TRUE /\ mapped' = TRUE
      /\ UNCHANGED <<alloced, login, backlog>>
  BY <1>0 DEF RecvLoginRsp, TypeOK
<1>2. /\ sock[C].fd = NoFd /\ alloced[C] = FALSE /\ Source(C) = k
      /\ net[k].rsp.ack = file[S].ack_seq /\ Settled /\ file[S].ack_seq \in UInt
      /\ \A m \in backlog : m.fd # k
  <2>1. sock[C].fd = NoFd /\ ~ alloced[C]
    BY <1>0, <1>1 DEF PhaseInv
  <2>2. net[k].rsp.ack = file[S].ack_seq /\ Settled /\ \A m \in backlog : m.fd # k
    BY <1>0, <1>1 DEF RspInv
  <2>3. alloced[C] \in BOOLEAN /\ file[S].ack_seq \in UInt
    BY <1>0, EndsAre, EndTypes DEF TypeOK
  <2> QED BY <2>1, <2>2, <2>3 DEF Source
<1>3. PICK r \in SendPending(C, LoginAck(file[C], file[S].ack_seq), net[k]) :
        /\ Opened(C, k, r)
        /\ net' \in [Fds -> Conns] /\ net'[k].out = r.n.out /\ net'[k].open = net[k].open /\ net'[k].rsp = NoRsp
        /\ \A j \in Fds \ {k} : net'[j] = net[j]
  BY LoggedInIs
<1>4. Peer(S) = C /\ Peer(C) = S /\ C \in Ends /\ S \in Ends /\ C # S
  BY EndsAre
<1>5. /\ r.n \in Conns /\ r.n.open = net[k].open
      /\ r.n.out[S] = net[k].out[S] /\ Len(r.n.out[C]) <= WireCap
      /\ (r.cut => budget > 0)
  BY <1>1, <1>2, <1>3, <1>4, NotBeforeSelf, OpensIs
<1>6. /\ net' \in [Fds -> Conns] /\ net'[k].out = r.n.out /\ net'[k].open = net[k].open /\ net'[k].rsp = NoRsp
      /\ \A j \in Fds \ {k} : net'[j] = net[j]
  BY <1>3
<1>7. /\ file' = [file EXCEPT ![C] = r.q] /\ sock' = [sock EXCEPT ![C] = [up |-> r.up, fd |-> k]]
      /\ inbox' = [inbox EXCEPT ![C] = <<>>] /\ part' = [part EXCEPT ![C] = <<>>]
      /\ CutBudget(r)
  BY <1>3 DEF Opened
<1>8. pushed' = pushed
  BY LoggedInIs
<1>9. Source(S)' = Source(S)
  <2>1. sock'[S] = sock[S]
    BY <1>0, <1>4, <1>7 DEF TypeOK
  <2> QED BY <2>1, <1>1, <1>4 DEF Source
<1>11. /\ DataInv'
       /\ file' \in [Ends -> Queues] /\ file'[S] = file[S]
       /\ \A d \in Ends : file'[d].ack_seq = file[d].ack_seq
       /\ sock' \in [Ends -> [up : BOOLEAN, fd : Fds \cup {NoFd}]]
       /\ sock'[C].fd = k /\ sock'[S] = sock[S]
       /\ \A d \in Ends : sock'[d].up => sock'[d].fd # NoFd
       /\ part' \in [Ends -> Seq(Blocks)] /\ inbox' \in [Ends -> Seq(Seq(Blocks))]
       /\ \A d \in Ends : Source(d)' = Source(d) /\ Received(d)' = Received(d) /\ Partial(d)' = Partial(d)
       /\ Received(C)' = 0 /\ Partial(C)' = <<>>
  <2>1. k \in Fds /\ k = Source(C) /\ sock[C].fd = NoFd /\ ~ alloced[C]
    BY <1>1, <1>2
  <2>2. UNCHANGED <<alloced, pushed>>
    BY <1>1, <1>8
  <2>3. /\ net'[k].out = r.n.out /\ net'[k].open = net[k].open
        /\ \A j \in Fds \ {k} : net'[j] = net[j]
    BY <1>6
  <2>4. file[Peer(C)].ack_seq \in UInt /\ ~ Before(file[Peer(C)].ack_seq, file[Peer(C)].ack_seq)
    BY <1>2, <1>4, NotBeforeSelf
  <2> HIDE DEF k
  <2>5. r \in SendPending(C, LoginAck(file[C], file[Peer(C)].ack_seq), net[k])
    BY <1>4
  <2>6. Source(Peer(C))' = Source(Peer(C))
    BY <1>4, <1>9
  <2>7. DataInv'
    BY <2>1, <2>2, <2>3, <2>4, <2>5, <2>6, <1>4, <1>7, OpensKeep
  <2>8. /\ file' \in [Ends -> Queues] /\ file'[S] = file[S]
        /\ sock' \in [Ends -> [up : BOOLEAN, fd : Fds \cup {NoFd}]]
        /\ sock'[C].fd = k /\ sock'[S] = sock[S]
    BY <2>1, <2>2, <2>3, <2>4, <2>5, <2>6, <1>4, <1>7, OpensKeep
  <2>9. \A d \in Ends : file'[d].ack_seq = file[d].ack_seq
    BY <2>1, <2>2, <2>3, <2>4, <2>5, <2>6, <1>4, <1>7, OpensKeep
  <2>10. \A d \in Ends : sock'[d].up => sock'[d].fd # NoFd
    BY <2>1, <2>2, <2>3, <2>4, <2>5, <2>6, <1>4, <1>7, OpensKeep
  <2>11. part' \in [Ends -> Seq(Blocks)] /\ inbox' \in [Ends -> Seq(Seq(Blocks))]
    BY <2>1, <2>2, <2>3, <2>4, <2>5, <2>6, <1>4, <1>7, OpensKeep
  <2>12. Received(C)' = 0 /\ Partial(C)' = <<>>
    <3>1. inbox'[C] = <<>> /\ part'[C] = <<>>
      BY <1>0, <1>4, <1>7 DEF MoreTypes
    <3> QED BY <3>1 DEF Received, Partial
  <2>13. Source(C)' = Source(C) /\ Received(C)' = Received(C) /\ Partial(C)' = Partial(C)
    BY <2>1, <2>8, <2>12, <1>1 DEF Source, Received, Partial
  <2>14. Received(S)' = Received(S) /\ Partial(S)' = Partial(S)
    <3>1. inbox'[S] = inbox[S] /\ part'[S] = part[S]
      BY <1>0, <1>4, <1>7 DEF MoreTypes
    <3> QED BY <3>1, <2>8 DEF Received, Partial
  <2> QED BY <2>7, <2>8, <2>9, <2>10, <2>11, <2>12, <2>13, <2>14, <1>9, EndsAre
<1>12. \A j \in Fds : net'[j].open = net[j].open /\ net'[j].out[S] = net[j].out[S]
  BY <1>5, <1>6
<1>13. TypeOK'
  <2>1. \A j \in Fds, e \in Ends : Len(net'[j].out[e]) <= WireCap
    <3> TAKE j \in Fds, e \in Ends
    <3>1. Len(net[j].out[e]) <= WireCap
      BY <1>0 DEF TypeOK
    <3>2. CASE j = k /\ e = C
      BY <3>2, <1>5, <1>6
    <3>3. CASE j # k \/ e = S
      BY <3>1, <3>3, <1>6, <1>12
    <3> QED BY <3>2, <3>3, EndsAre
  <2>2. budget' \in 0 .. MaxFailures
    BY <1>0, <1>5, <1>7, CutKeeps
  <2> QED BY <2>1, <2>2, <1>0, <1>1, <1>8, <1>11, FileTypes DEF TypeOK
<1>14. MoreTypes'
  BY <1>0, <1>1, <1>6, <1>11 DEF MoreTypes
<1>15. PhaseInv'
  <2>1. Source(C)' = Source(C) /\ file'[C].ack_seq = file[C].ack_seq /\ file'[S] = file[S]
    BY <1>4, <1>11
  <2>2. ASSUME login # NoLogin
        PROVE  /\ login.fd # NoFd /\ Off(file[S], login.ack) <= Off(file[S], file'[C].ack_seq)
               /\ \/ login.fd = Source(C)' \/ net'[login.fd].open[C] \/ net'[login.fd].out[C] # <<>>
                  => login.ack = file'[C].ack_seq
    <3>1. /\ login.fd # NoFd /\ Off(file[S], login.ack) <= Off(file[S], file[C].ack_seq)
          /\ \/ login.fd = Source(C) \/ net[login.fd].open[C] \/ net[login.fd].out[C] # <<>>
             => login.ack = file[C].ack_seq
      BY <2>2, <1>0 DEF PhaseInv
    <3>2. login.fd \in Fds
      BY <3>1, <1>0 DEF MoreTypes
    <3>3. login.fd = k \/ net'[login.fd] = net[login.fd]
      BY <3>2, <1>6
    <3> QED BY <2>1, <3>1, <3>3, <1>2
  <2> QED BY <2>1, <2>2, <1>0, <1>1, <1>2, <1>4, <1>11 DEF PhaseInv
<1>16. PairInv'
  <2>1. Source(C)' = k /\ Source(S)' = Source(S)
    BY <1>2, <1>4, <1>11
  <2>2. Settled'
    <3>1. CASE Source(S) \in {NoFd, k}
      BY <2>1, <3>1 DEF Settled
    <3>2. CASE Source(S) \notin {NoFd, k}
      <4>1. Source(S) \in Fds \ {k} /\ Received(S)' = Received(S) /\ Partial(S)' = Partial(S)
        BY <3>2, <1>0, <1>4, <1>11, EndTypes
      <4>2. net'[Source(S)] = net[Source(S)]
        BY <4>1, <1>6
      <4>3. Barren
        BY <3>2, <1>2 DEF Settled
      <4> QED BY <2>1, <4>1, <4>2, <4>3 DEF Settled, Barren
    <3> QED BY <3>1, <3>2
  <2>3. ASSUME NEW e \in Ends, Source(e)' # NoFd, net'[Source(e)'].open[Peer(e)]
        PROVE  net'[Source(e)'].open[e]
    <3>1. PICK j \in Fds : j = Source(e)
      BY <2>3, <1>0, <1>11, EndTypes
    <3>2. net'[j].open = net[j].open /\ Source(e)' = j
      BY <3>1, <1>11, <1>12
    <3> QED BY <2>3, <3>1, <3>2, <1>0 DEF PairInv
  <2>4. ASSUME Source(C)' = Source(S)', NEW e \in Ends, sock'[e].fd = NoFd
        PROVE  /\ net'[k].out[e] = <<>>
               /\ Received(Peer(e))' = 0 /\ Partial(Peer(e))' = <<>>
    <3>1. e = S /\ sock[S].fd = NoFd
      BY <2>4, <1>1, <1>11, EndsAre
    <3>2. net[k].out[S] = <<>>
      BY <3>1, <2>1, <2>4, <1>0, <1>1, <1>2, <1>4 DEF PairInv
    <3> QED BY <3>1, <3>2, <1>1, <1>4, <1>11, <1>12
  <2> QED BY <2>1, <2>2, <2>3, <2>4 DEF PairInv
<1>17. RspInv'
  <2>1. ASSUME NEW j \in Fds PROVE net'[j].rsp.status = "none"
    <3>1. CASE j = k
      BY <3>1, <1>6, FreeNetIs
    <3>2. CASE j # k
      BY <3>2, <1>0, <1>6 DEF RspInv
    <3> QED BY <3>1, <3>2
  <2> QED BY <2>1, <1>1 DEF RspInv
<1>18. BacklogInv'
  <2>1. ASSUME NEW m \in backlog
        PROVE  LoginMsgInv(m)'
    <3>1. m.fd \in Fds \ {k} /\ m.fd # NoFd /\ LoginMsgInv(m)
      BY <1>0, <1>2, BacklogFds, BacklogIs
    <3>2. net'[m.fd] = net[m.fd] /\ Source(S)' = Source(S) /\ sock'[C].fd = k
      BY <3>1, <1>4, <1>6, <1>11
    <3> QED BY <3>1, <3>2, <1>1 DEF LoginMsgInv
  <2>2. \A m \in backlog' : LoginMsgInv(m)'
    BY <2>1, <1>1
  <2>3. \A m, n \in backlog' : m.fd = n.fd => m = n
    BY <1>0, <1>1 DEF BacklogInv
  <2> QED BY <2>2, <2>3 DEF BacklogInv, LoginMsgInv
<1> QED BY <1>11, <1>13, <1>14, <1>15, <1>16, <1>17, <1>18 DEF IInv, DataInv

\* A LoginRsp that refuses the client: the new connection is closed.
LEMMA RefusedIs ==
  ASSUME IInv, RecvLoginRsp, net[connecting].rsp.status # "ok"
  PROVE  /\ connecting # NoFd /\ connecting' = NoFd /\ net' = [net EXCEPT ![connecting] = Closed(net[connecting], C)]
         /\ UNCHANGED <<file, last_server, sock, inbox, part, mapped, pushed, budget, alloced, login, backlog>>
         /\ budget \in 0 .. MaxFailures
<1> USE DEF files, bufs, logins
<1> DEFINE k == connecting
           read == [net EXCEPT ![k].rsp = NoRsp]
           a == [net[k] EXCEPT !.rsp = NoRsp]
<1>1. /\ k # NoFd /\ connecting' = NoFd /\ net' = [read EXCEPT ![k] = Closed(@, C)]
      /\ UNCHANGED <<file, last_server, sock, inbox, part, mapped, pushed, budget, alloced, login, backlog>>
  BY DEF RecvLoginRsp
<1>2. k \in Fds /\ budget \in 0 .. MaxFailures /\ net \in [Fds -> Conns] /\ net[k] \in Conns
  BY <1>1 DEF IInv, TypeOK, MoreTypes
<1>3. Closed(a, C) = Closed(net[k], C)
  <2>0. net[k] \in Conns
    BY <1>2
  <2>1. a = [out |-> net[k].out, rsp |-> NoRsp, open |-> net[k].open]
    BY <2>0 DEF Conns
  <2>2. net[k] = [out |-> net[k].out, rsp |-> net[k].rsp, open |-> net[k].open]
    BY <1>2 DEF Conns
  <2> QED BY <2>1, <2>2 DEF Closed
<1>4. net' = [net EXCEPT ![k] = Closed(net[k], C)]
  <2>1. read = [net EXCEPT ![k] = a]
    BY <1>2
  <2> HIDE DEF a
  <2> QED BY <1>1, <1>2, <1>3, <2>1
<1> QED BY <1>1, <1>2, <1>4

\* The LoginRsp of Connect() keeps the invariant.
LEMMA RecvLoginRspKeeps ==
  ASSUME IInv, RecvLoginRsp
  PROVE  IInv'
<1>1. CASE net[connecting].rsp.status = "ok"
  BY <1>1, LoggedInKeeps
<1>2. CASE net[connecting].rsp.status # "ok"
  <2>1. UNCHANGED <<files, sock, bufs, mapped, login, backlog, pushed>>
    BY <1>2, RefusedIs DEF files, bufs
  <2>2. /\ connecting # NoFd /\ net' = [net EXCEPT ![connecting] = Closed(net[connecting], C)]
        /\ connecting' = NoFd /\ budget' \in 0 .. MaxFailures
    BY <1>2, RefusedIs
  <2> QED BY <2>1, <2>2, GiveUpKeeps
<1> QED BY <1>1, <1>2

-----------------------------------------------------------------------------
(* HandleLogin().                                                          *)

\* A LoginMsg and its connection.
LEMMA LoginIs ==
  ASSUME IInv, NEW m \in backlog
  PROVE  /\ m \in LoginMsgs /\ m.fd \in Fds /\ m.fd # NoFd /\ m.known \in BOOLEAN
         /\ net[m.fd] \in Conns /\ net[m.fd].rsp.status = "none"
         /\ \A e \in Ends : net[m.fd].out[e] = <<>>
         /\ m.fd # Source(S) /\ m.fd # sock[C].fd
         /\ net[m.fd].open[C] => m.fd = connecting
         /\ m.known => last_server
         /\ m.fd = connecting =>
              /\ m.known = last_server /\ m.ack = file[C].ack_seq
              /\ m.start = file[C].read_seq /\ m.end = pushed[C]
         /\ Source(C) = m.fd => connecting = m.fd /\ sock[C].fd = NoFd
<1>1. MoreTypes /\ RspInv /\ BacklogInv
  BY DEF IInv
<1>2. m \in LoginMsgs /\ m.fd \in Fds /\ m.fd # NoFd /\ LoginMsgInv(m)
  BY <1>1, BacklogFds, BacklogIs
<1>3. net[m.fd] \in Conns /\ m.known \in BOOLEAN
  BY <1>1, <1>2 DEF MoreTypes, LoginMsgs
<1>4. net[m.fd].rsp.status = "none"
  BY <1>1, <1>2 DEF RspInv
<1>5. Source(C) = m.fd => connecting = m.fd /\ sock[C].fd = NoFd
  BY <1>2 DEF Source, LoginMsgInv
<1> QED BY <1>2, <1>3, <1>4, <1>5 DEF LoginMsgInv

\* What HandleLogin() does to the connection of LoginMsg m, which becomes n, when it
\* refuses or accepts the login or finds the client gone.
AnswerStep(m, n) ==
  /\ backlog' = backlog \ {m} /\ login = NoLogin
  /\ n \in Conns /\ NetBecomes(m.fd, n)
  /\ \A e \in Ends : n.out[e] = <<>>
  /\ n.open[C] = net[m.fd].open[C]
  /\ n.open[S] => net[m.fd].open[S]
  /\ n.rsp.status # "none" => n.open[C] /\ n.rsp.status \notin {"mismatch", "corrupt"}
  /\ n.rsp.status = "ok" => n.rsp.ack = file[S].ack_seq /\ login' # NoLogin
  /\ \/ login' = NoLogin
     \/ /\ sock[S].fd = NoFd /\ n.open[S] /\ (n.open[C] => n.rsp.status = "ok")
        /\ \E a \in UInt : /\ login' = [fd |-> m.fd, ack |-> a]
                           /\ Off(file'[S], a) <= Off(file'[S], file[C].ack_seq)
                           /\ m.fd = connecting => a = file[C].ack_seq
  /\ file' \in [Ends -> Queues] /\ file'[C] = file[C] /\ file'[S].ack_seq = file[S].ack_seq
  /\ pushed' \in [Ends -> UInt] /\ pushed'[C] = pushed[C]
  /\ UNCHANGED <<last_server, sock, inbox, part, alloced, mapped, connecting, budget>>

\* Who reads what after an answer.
LEMMA AnswerIs ==
  ASSUME IInv, NEW m \in backlog, NEW n, AnswerStep(m, n)
  PROVE  /\ net' \in [Fds -> Conns] /\ net'[m.fd] = n /\ \A j \in Fds \ {m.fd} : net'[j] = net[j]
         /\ login' = NoLogin \/ (login'.fd = m.fd /\ login' # NoLogin /\ sock[S].fd = NoFd /\ n.open[S])
         /\ login' \in [fd : Fds \cup {NoFd}, ack : UInt]
         /\ Source(C)' = Source(C)
         /\ login' = NoLogin => Source(S)' = Source(S)
         /\ login' # NoLogin => Source(S)' = m.fd /\ Received(S) = 0 /\ Partial(S) = <<>>
         /\ \A e \in Ends : Received(e)' = Received(e) /\ Partial(e)' = Partial(e)
<1> DEFINE k == m.fd
<1>1. k \in Fds /\ k # NoFd
  BY LoginIs
<1>2. n \in Conns /\ net' = [net EXCEPT ![k] = n] /\ login = NoLogin
      /\ UNCHANGED <<last_server, sock, inbox, part, alloced, mapped, connecting, budget>>
  BY DEF AnswerStep, NetBecomes
<1>3. net \in [Fds -> Conns]
  BY DEF IInv, MoreTypes
<1>4. NoLogin.fd = NoFd /\ NoLogin \in [fd : Fds \cup {NoFd}, ack : UInt]
  BY Widths DEF NoLogin
<1>5. \/ login' = NoLogin
      \/ sock[S].fd = NoFd /\ n.open[S] /\ \E a \in UInt : login' = [fd |-> k, ack |-> a]
  BY DEF AnswerStep
<1> HIDE DEF k
<1>6. net' \in [Fds -> Conns] /\ net'[k] = n /\ \A j \in Fds \ {k} : net'[j] = net[j]
  BY <1>1, <1>2, <1>3, NetChanged
<1>7. /\ login' = NoLogin \/ (login'.fd = k /\ login' # NoLogin /\ sock[S].fd = NoFd /\ n.open[S])
      /\ login' \in [fd : Fds \cup {NoFd}, ack : UInt]
  BY <1>1, <1>4, <1>5
<1>8. C \in Ends /\ S \in Ends /\ C # S
  BY EndsAre
<1>9. Source(C)' = Source(C) /\ \A e \in Ends : Received(e)' = Received(e) /\ Partial(e)' = Partial(e)
  BY <1>2 DEF Source, Received, Partial
<1>10. /\ login' = NoLogin => Source(S)' = Source(S)
       /\ login' # NoLogin => Source(S)' = k /\ Received(S) = 0 /\ Partial(S) = <<>>
  BY <1>2, <1>7, <1>8 DEF Source, Received, Partial
<1> QED BY <1>6, <1>7, <1>9, <1>10 DEF k

\* The LoginMsgs that are left once m is handled.
LEMMA OthersKept ==
  ASSUME IInv, NEW m \in backlog, NEW n, AnswerStep(m, n)
  PROVE  BacklogInv'
<1>1. BacklogInv /\ MoreTypes
  BY DEF IInv
<1>2. /\ backlog' = backlog \ {m} /\ file'[C] = file[C] /\ pushed'[C] = pushed[C]
      /\ UNCHANGED <<last_server, sock, connecting>>
  BY DEF AnswerStep
<1>3. Source(S)' \in {Source(S), m.fd} /\ \A j \in Fds \ {m.fd} : net'[j] = net[j]
  BY AnswerIs
<1>4. ASSUME NEW l \in backlog' PROVE LoginMsgInv(l)'
  <2>1. l \in backlog /\ l # m
    BY <1>2, <1>4
  <2>2. l.fd # m.fd /\ l.fd \in Fds /\ LoginMsgInv(l)
    BY <2>1, <1>1, BacklogIs, BacklogFds
  <2>3. net'[l.fd] = net[l.fd]
    BY <2>2, <1>3
  <2> QED BY <2>2, <2>3, <1>2, <1>3 DEF LoginMsgInv
<1>5. \A l, o \in backlog' : l.fd = o.fd => l = o
  BY <1>1, <1>2, BacklogIs
<1> QED BY <1>4, <1>5 DEF BacklogInv, LoginMsgInv

\* Where the server is after an answer, if the client's connection is another one.
LEMMA AnswerSettles ==
  ASSUME IInv, NEW m \in backlog, NEW n, AnswerStep(m, n), m.fd # connecting, Settled
  PROVE  Settled'
<1> DEFINE k == m.fd
<1>1. /\ k \in Fds /\ k # Source(S) /\ (net[k].open[C] => k = connecting)
      /\ net[k].out[C] = <<>>
  BY LoginIs, EndsAre
<1>2. /\ net'[k] = n /\ \A j \in Fds \ {k} : net'[j] = net[j]
      /\ Source(C)' = Source(C)
      /\ login' = NoLogin => Source(S)' = Source(S)
      /\ login' # NoLogin => Source(S)' = k /\ Received(S) = 0 /\ Partial(S) = <<>>
      /\ Received(S)' = Received(S) /\ Partial(S)' = Partial(S)
  BY AnswerIs, EndsAre
<1>3. n.open[C] = net[k].open[C] /\ n.out[C] = <<>>
  BY EndsAre DEF AnswerStep
<1> HIDE DEF k
<1>4. CASE login' = NoLogin /\ Source(S) \in Fds
  BY <1>1, <1>2, <1>4 DEF Settled, Barren
<1>5. CASE login' = NoLogin /\ Source(S) \notin Fds
  <2>1. Source(S) = NoFd
    BY <1>5, EndsAre, EndTypes DEF IInv
  <2> QED BY <2>1, <1>2, <1>5 DEF Settled
<1>6. CASE login' # NoLogin
  BY <1>1, <1>2, <1>3, <1>6 DEF Settled, Barren, k
<1> QED BY <1>4, <1>5, <1>6

\* The connections and the logins after an answer.
LEMMA AnswerKeeps ==
  ASSUME IInv, NEW m \in backlog, NEW n, AnswerStep(m, n)
  PROVE  TypeOK' /\ MoreTypes' /\ PhaseInv' /\ PairInv' /\ RspInv' /\ BacklogInv'
<1> DEFINE k == m.fd
<1>0. /\ TypeOK /\ MoreTypes /\ PhaseInv /\ PairInv /\ RspInv /\ BacklogInv
  BY DEF IInv
<1>1. /\ backlog' = backlog \ {m} /\ login = NoLogin /\ n \in Conns
      /\ n.open[C] = net[k].open[C] /\ (n.open[S] => net[k].open[S])
      /\ n.rsp.status # "none" => n.open[C] /\ n.rsp.status \notin {"mismatch", "corrupt"}
      /\ n.rsp.status = "ok" => n.rsp.ack = file[S].ack_seq /\ login' # NoLogin
      /\ file' \in [Ends -> Queues] /\ file'[C] = file[C] /\ file'[S].ack_seq = file[S].ack_seq
      /\ pushed' \in [Ends -> UInt] /\ pushed'[C] = pushed[C]
      /\ UNCHANGED <<last_server, sock, inbox, part, alloced, mapped, connecting, budget>>
  BY DEF AnswerStep
<1>2. \A e \in Ends : n.out[e] = <<>>
  BY DEF AnswerStep
<1>3. login' # NoLogin =>
        /\ n.open[C] => n.rsp.status = "ok"
        /\ Off(file'[S], login'.ack) <= Off(file'[S], file[C].ack_seq)
        /\ k = connecting => login'.ack = file[C].ack_seq
  BY DEF AnswerStep
<1>4. /\ k \in Fds /\ k # NoFd /\ k # Source(S) /\ k # sock[C].fd /\ (net[k].open[C] => k = connecting)
      /\ net[k].rsp.status = "none"
      /\ Source(C) = k => connecting = k /\ sock[C].fd = NoFd
  BY LoginIs
<1>5. C \in Ends /\ S \in Ends /\ C # S /\ Peer(C) = S /\ Peer(S) = C /\ \A e \in Ends : e = C \/ e = S
  BY EndsAre
<1>6. /\ net' \in [Fds -> Conns] /\ net'[k] = n /\ \A j \in Fds \ {k} : net'[j] = net[j]
      /\ login' = NoLogin \/ (login'.fd = k /\ login' # NoLogin /\ sock[S].fd = NoFd /\ n.open[S])
      /\ login' \in [fd : Fds \cup {NoFd}, ack : UInt]
  BY AnswerIs
<1>7. /\ Source(C)' = Source(C)
      /\ login' = NoLogin => Source(S)' = Source(S)
      /\ login' # NoLogin => Source(S)' = k /\ Received(S) = 0 /\ Partial(S) = <<>>
      /\ \A e \in Ends : Received(e)' = Received(e) /\ Partial(e)' = Partial(e)
  BY AnswerIs
<1>8. \A l \in backlog' : l \in backlog /\ l.fd # k
  BY <1>0, <1>1, BacklogIs
<1>9. k # connecting /\ Settled => Settled'
  BY AnswerSettles
<1> HIDE DEF k
<1>10. BacklogInv'
  BY OthersKept
<1>11. TypeOK'
  <2>1. \A j \in Fds, e \in Ends : Len(net'[j].out[e]) <= WireCap
    <3> TAKE j \in Fds, e \in Ends
    <3>1. Len(<<>>) <= WireCap /\ Len(net[j].out[e]) <= WireCap
      BY <1>0, SessionAssumption DEF TypeOK
    <3> QED BY <3>1, <1>2, <1>6
  <2>2. login'.fd \in Fds \cup {NoFd}
    BY <1>6
  <2> QED BY <2>1, <2>2, <1>0, <1>1, FileTypes DEF TypeOK
<1>12. MoreTypes'
  BY <1>0, <1>1, <1>6 DEF MoreTypes
<1>13. PhaseInv'
  <2>1. sock[S].fd # NoFd => login' = NoLogin
    BY <1>6
  <2>2. ASSUME login' # NoLogin
        PROVE  /\ login'.fd # NoFd /\ Off(file'[S], login'.ack) <= Off(file'[S], file'[C].ack_seq)
               /\ \/ login'.fd = Source(C)' \/ net'[login'.fd].open[C] \/ net'[login'.fd].out[C] # <<>>
                  => login'.ack = file'[C].ack_seq
    <3>1. login'.fd = k /\ net'[k] = n /\ n.out[C] = <<>>
      BY <2>2, <1>2, <1>5, <1>6
    <3>2. k = Source(C)' \/ n.open[C] => k = connecting
      BY <1>1, <1>4, <1>7
    <3> QED BY <2>2, <3>1, <3>2, <1>1, <1>3, <1>4
  <2> QED BY <2>1, <2>2, <1>0, <1>1 DEF PhaseInv
<1>14. PairInv'
  <2>1. ASSUME NEW e \in Ends, Source(e)' # NoFd, net'[Source(e)'].open[Peer(e)]
        PROVE  net'[Source(e)'].open[e]
    <3>1. CASE e = C
      <4>1. PICK j \in Fds : j = Source(C)
        BY <3>1, <2>1, <1>0, <1>7, EndTypes
      <4>2. net[j].open[S] => net[j].open[C]
        BY <4>1, <3>1, <2>1, <1>0, <1>5, <1>7 DEF PairInv
      <4>3. CASE j = k
        BY <4>1, <4>2, <4>3, <3>1, <2>1, <1>1, <1>5, <1>6, <1>7
      <4>4. CASE j # k
        BY <4>1, <4>2, <4>4, <3>1, <2>1, <1>5, <1>6, <1>7
      <4> QED BY <4>3, <4>4
    <3>2. CASE e = S /\ login' = NoLogin
      <4>1. PICK j \in Fds : j = Source(S)
        BY <3>2, <2>1, <1>0, <1>7, EndTypes
      <4>2. Source(S)' = j /\ j # k /\ net'[j] = net[j]
        BY <4>1, <3>2, <1>4, <1>6, <1>7
      <4> QED BY <4>1, <4>2, <3>2, <2>1, <1>0 DEF PairInv
    <3>3. CASE e = S /\ login' # NoLogin
      BY <3>3, <1>6, <1>7
    <3> QED BY <3>1, <3>2, <3>3, <1>5
  <2>2. ASSUME Source(C)' = Source(S)', Source(S)' # NoFd, NEW e \in Ends, sock'[e].fd = NoFd
        PROVE  /\ net'[Source(S)'].out[e] = <<>>
               /\ Received(Peer(e))' = 0 /\ Partial(Peer(e))' = <<>>
    <3>1. CASE login' = NoLogin
      <4>1. PICK j \in Fds : j = Source(S)
        BY <3>1, <2>2, <1>0, <1>5, <1>7, EndTypes
      <4>2. Source(S)' = j /\ j # k /\ net'[j] = net[j] /\ Source(C) = j
        BY <4>1, <3>1, <2>2, <1>4, <1>6, <1>7
      <4>3. sock[e].fd = NoFd /\ j # NoFd
        BY <4>2, <2>2, <1>1
      <4>4. net[j].out[e] = <<>> /\ Received(Peer(e)) = 0 /\ Partial(Peer(e)) = <<>>
        BY <4>1, <4>2, <4>3, <1>0 DEF PairInv
      <4> QED BY <4>2, <4>4, <1>5, <1>7
    <3>2. CASE login' # NoLogin
      <4>1. Source(S)' = k /\ Source(C) = k /\ sock[C].fd = NoFd /\ sock[S].fd = NoFd
        BY <3>2, <2>2, <1>4, <1>6, <1>7
      <4>2. \A d \in Ends : Received(d) = 0 /\ Partial(d) = <<>>
        BY <4>1, <1>5 DEF Received, Partial
      <4> QED BY <4>1, <4>2, <1>2, <1>5, <1>6, <1>7
    <3> QED BY <3>1, <3>2
  <2>3. ASSUME sock'[C].fd # NoFd PROVE Settled'
    <3>1. sock[C].fd # NoFd
      BY <2>3, <1>1
    <3>2. Settled /\ connecting = NoFd
      BY <3>1, <1>0 DEF PairInv, PhaseInv
    <3> QED BY <3>2, <1>4, <1>9
  <2> QED BY <2>1, <2>2, <2>3 DEF PairInv
<1>15. RspInv'
  <2>1. ASSUME NEW j \in Fds, net'[j].rsp.status # "none"
        PROVE  /\ net'[j].open[C] /\ j = connecting /\ \A l \in backlog' : l.fd # j
               /\ net'[j].rsp.status \notin {"mismatch", "corrupt"}
    <3>1. CASE j = k
      <4>1. n.rsp.status # "none" /\ n.open[C]
        BY <3>1, <2>1, <1>1, <1>6
      <4> QED BY <3>1, <4>1, <1>1, <1>4, <1>6, <1>8
    <3>2. CASE j # k
      <4>1. net'[j] = net[j]
        BY <3>2, <1>6
      <4> QED BY <4>1, <2>1, <1>0, <1>8 DEF RspInv
    <3> QED BY <3>1, <3>2
  <2>2. ASSUME connecting # NoFd
        PROVE  IF net'[connecting].rsp.status = "ok"
               THEN net'[connecting].rsp.ack = file'[S].ack_seq /\ Settled'
               ELSE /\ net'[connecting].out[S] = <<>>
                    /\ Source(S)' = connecting => ~ net'[connecting].open[S]
    <3>1. connecting \in Fds /\ sock[C].fd = NoFd /\ Source(C) = connecting
      BY <2>2, <1>0 DEF TypeOK, PhaseInv, Source
    <3>2. CASE connecting = k
      <4>1. net'[connecting] = n
        BY <3>2, <1>6
      <4>2. CASE n.rsp.status = "ok"
        <5>1. Source(S)' = Source(C)'
          BY <4>2, <3>1, <3>2, <1>1, <1>7
        <5> QED BY <4>1, <4>2, <5>1, <1>1 DEF Settled
      <4>3. CASE n.rsp.status # "ok"
        <5>1. ASSUME Source(S)' = connecting PROVE ~ n.open[S]
          <6>1. login' # NoLogin
            BY <5>1, <3>2, <1>4, <1>7
          <6>2. ~ n.open[C]
            BY <6>1, <4>3, <1>3
          <6>3. net[k].open[S] => net[k].open[C]
            BY <3>1, <3>2, <2>2, <1>0, <1>5 DEF PairInv
          <6> QED BY <6>2, <6>3, <1>1
        <5> QED BY <4>1, <4>3, <5>1, <1>2, <1>5
      <4> QED BY <4>2, <4>3
    <3>3. CASE connecting # k
      <4>1. net'[connecting] = net[connecting]
        BY <3>1, <3>3, <1>6
      <4>2. CASE net[connecting].rsp.status = "ok"
        <5>1. net[connecting].rsp.ack = file[S].ack_seq /\ Settled
          BY <4>2, <2>2, <1>0 DEF RspInv
        <5> QED BY <4>1, <4>2, <5>1, <3>3, <1>1, <1>9
      <4>3. CASE net[connecting].rsp.status # "ok"
        <5>1. net[connecting].out[S] = <<>> /\ (Source(S) = connecting => ~ net[connecting].open[S])
          BY <4>3, <2>2, <1>0 DEF RspInv
        <5>2. Source(S)' = connecting => Source(S) = connecting
          BY <3>3, <1>7
        <5> QED BY <4>1, <4>3, <5>1, <5>2
      <4> QED BY <4>2, <4>3
    <3> QED BY <3>2, <3>3
  <2> QED BY <2>1, <2>2, <1>1 DEF RspInv
<1> QED BY <1>10, <1>11, <1>12, <1>13, <1>14, <1>15

\* A client that knows no server has consumed nothing, and nothing of its queue
\* has been consumed.
LEMMA FreshClient ==
  ASSUME IInv, ~ last_server
  PROVE  file[C] = ZeroQueue /\ pushed[C] = 0 /\ file[C].ack_seq = 0 /\ file[S].ack_seq = 0
<1>1. file[C] = ZeroQueue /\ pushed[C] = 0 /\ Acked(C)
  BY EndsAre DEF IInv, PhaseInv
<1>2. ZeroQueue.read_idx = 0 /\ ZeroQueue.write_idx = 0 /\ ZeroQueue.ack_seq = 0
  BY DEF ZeroQueue
<1> DEFINE have == file[S].ack_seq
           up == Heard(C)
<1>3. AckedOK(ZeroQueue, 0, have, up)
  BY <1>1, EndsAre DEF Acked
<1> HIDE DEF have, up, ZeroQueue
<1>4. PICK h \in Int : Starts(ZeroQueue, 0, h, have)
  BY <1>3 DEF AckedOK
<1>5. have = 0
  BY <1>2, <1>4 DEF Starts
<1> QED BY <1>1, <1>2, <1>5 DEF have

\* The queue that HandleLogin() opens for the server: the one in the file, or an
\* empty one when the LoginMsg is of a client that knows no server.  The check of
\* its headers passes, and what the client has consumed is in it.
LEMMA LoginQueue ==
  ASSUME IInv, AcksRecent, NEW known \in BOOLEAN, known \/ ~ last_server
  PROVE  LET q == IF known THEN file[S] ELSE ZeroQueue
             p == IF known THEN pushed[S] ELSE 0
         IN  /\ q \in Queues /\ p \in UInt /\ QueueInv(q, p) /\ SendInv(q) /\ q.ack_seq = file[S].ack_seq
             /\ SanityCheck(q) /\ SeqStart(q) = q.read_seq /\ SeqEnd(q) = p
             /\ \E h \in Int : Starts(q, p, h, file[C].ack_seq)
             /\ CheckAckInQueue(file[C].ack_seq, SeqStart(q), SeqEnd(q))
<1> DEFINE q == IF known THEN file[S] ELSE ZeroQueue
           p == IF known THEN pushed[S] ELSE 0
           have == file[C].ack_seq
<1>0. TypeOK /\ MoreTypes /\ QueuesInv /\ Acked(S)
  BY EndsAre DEF IInv, TypeOK
<1>1. /\ q \in Queues /\ p \in UInt /\ QueueInv(q, p) /\ SendInv(q) /\ q.ack_seq = file[S].ack_seq
      /\ SanityCheck(q) /\ SeqStart(q) = q.read_seq /\ SeqEnd(q) = p
      /\ \E h \in Int : Starts(q, p, h, have)
  <2>1. CASE known
    <3>1. q = file[S] /\ p = pushed[S]
      BY <2>1
    <3>2. \E h \in Int : Starts(file[S], pushed[S], h, have)
      BY <1>0, EndsAre DEF Acked, AckedOK
    <3>3. file[S] \in Queues /\ pushed[S] \in UInt /\ QueueInv(file[S], pushed[S]) /\ SendInv(file[S])
      BY <1>0, EndsAre, EndTypes DEF QueuesInv
    <3>4. SanityCheck(file[S]) /\ SeqStart(file[S]) = file[S].read_seq /\ SeqEnd(file[S]) = pushed[S]
      BY EndsAre, LoginMsgIs
    <3> HIDE DEF q, p
    <3> QED BY <3>1, <3>2, <3>3, <3>4
  <2>2. CASE ~ known
    <3>1. q = ZeroQueue /\ p = 0 /\ have = 0 /\ file[S].ack_seq = 0
      BY <2>2, FreshClient
    <3> DEFINE z == ZeroQueue
               zero == 0
    <3>2. /\ z \in Queues /\ QueueInv(z, zero) /\ SendInv(z) /\ zero \in UInt
      BY ZeroQueueInv, Widths
    <3>3. z.read_idx = 0 /\ z.write_idx = 0 /\ z.ack_seq = 0
      BY DEF ZeroQueue
    <3> HIDE DEF z, zero
    <3>4. \A i \in z.read_idx .. z.write_idx - 1 : z.blk[i].part = 0 => ~ Before(z.ack_seq, z.blk[i].ack)
      BY <3>3
    <3>5. SanityCheck(z) /\ SeqStart(z) = z.read_seq /\ SeqEnd(z) = zero
      BY <3>2, <3>4, SanityWalkIs
    <3>6. Starts(z, zero, z.write_idx, zero) /\ z.write_idx \in Int
      BY <3>2, <3>3, StartsEnd
    <3> QED BY <3>1, <3>2, <3>3, <3>5, <3>6 DEF z, zero
  <2> QED BY <2>1, <2>2
<1>2. have \in UInt
  BY <1>0, EndsAre, EndTypes
<1> HIDE DEF q, p, have
<1>3. CheckAckInQueue(have, SeqStart(q), SeqEnd(q))
  <2>1. PICK h \in Int : Starts(q, p, h, have)
    BY <1>1
  <2>2. q.write_idx \in Int /\ h <= q.write_idx /\ q.read_idx <= q.write_idx
    BY <2>1, <1>1, QueueFields DEF Starts, SendInv
  <2>3. Starts(q, p, q.write_idx, p)
    BY <2>2, <1>1, StartsEnd
  <2> QED BY <2>1, <2>2, <2>3, <1>1, <1>2, CheckAckAccepts
<1> QED BY <1>1, <1>3 DEF q, p, have

\* The sequence numbers of a LoginMsg that HandleLogin() looks at.
Remote(m) == IF m.known THEN m ELSE [m EXCEPT !.ack = 0, !.start = 0, !.end = 0]

\* They are the message's own, or zeros.
LEMMA RemoteIs ==
  ASSUME NEW m \in LoginMsgs
  PROVE  /\ m.known => Remote(m) = m
         /\ ~ m.known => Remote(m).ack = 0 /\ Remote(m).start = 0 /\ Remote(m).end = 0
         /\ Remote(m).ack \in UInt
<1>1. m = [fd |-> m.fd, known |-> m.known, ack |-> m.ack, start |-> m.start, end |-> m.end] /\ m.ack \in UInt
  BY DEF LoginMsgs
<1>2. m.known => Remote(m) = m
  BY DEF Remote
<1>3. ~ m.known => Remote(m).ack = 0 /\ Remote(m).start = 0 /\ Remote(m).end = 0
  BY <1>1 DEF Remote
<1> QED BY <1>1, <1>2, <1>3, Widths

\* The LoginMsg of a client that is still there matches the server's file.
LEMMA LoginMatches ==
  ASSUME IInv, NEW m \in backlog, m.fd = connecting
  PROVE  /\ Remote(m).ack = file[C].ack_seq
         /\ CheckAckInQueue(file[S].ack_seq, Remote(m).start, Remote(m).end)
<1> DEFINE remote == Remote(m)
           q == file[C]
           p == pushed[C]
           have == file[S].ack_seq
           up == Heard(C)
<1>0. TypeOK /\ MoreTypes /\ QueuesInv /\ Acked(C) /\ last_server \in BOOLEAN
  BY EndsAre DEF IInv, TypeOK
<1>1. /\ m \in LoginMsgs /\ m.known = last_server /\ m.ack = q.ack_seq /\ m.start = q.read_seq
      /\ m.end = p
  BY LoginIs
<1>2. q \in Queues /\ p \in UInt /\ have \in UInt /\ QueueInv(q, p) /\ SendInv(q)
  BY <1>0, EndsAre, EndTypes DEF QueuesInv
<1>3. AckedOK(q, p, have, up)
  BY <1>0, EndsAre DEF Acked
<1>4. CASE last_server
  <2>1. remote = m
    BY <1>1, <1>4, RemoteIs
  <2> HIDE DEF remote, q, p, have, up
  <2>2. PICK h \in Int : Starts(q, p, h, have)
    BY <1>3 DEF AckedOK
  <2>3. q.write_idx \in Int /\ h <= q.write_idx /\ q.read_idx <= q.write_idx
    BY <2>2, <1>2, QueueFields DEF Starts, SendInv
  <2>4. Starts(q, p, q.write_idx, p)
    BY <2>3, <1>2, StartsEnd
  <2>5. CheckAckInQueue(have, q.read_seq, p)
    BY <2>2, <2>3, <2>4, <1>2, CheckAckAccepts
  <2> QED BY <2>1, <2>5, <1>1 DEF remote, q, have
<1>5. CASE ~ last_server
  <2>1. q.ack_seq = 0 /\ have = 0
    BY <1>5, FreshClient
  <2>2. remote.ack = 0 /\ remote.start = 0 /\ remote.end = 0
    BY <1>1, <1>5, RemoteIs
  <2>3. CheckAckInQueue(0, 0, 0)
    BY Widths DEF CheckAckInQueue, Before, Sub
  <2> HIDE DEF remote
  <2> QED BY <2>1, <2>2, <2>3 DEF remote
<1> QED BY <1>0, <1>4, <1>5

\* A LoginMsg that matches and is not too old acknowledges no more than the client
\* has consumed, and exactly that if the client is still there.
LEMMA LoginAckFits ==
  ASSUME IInv, NEW m \in backlog, m.known \/ ~ last_server, InTime(m),
         NEW q, q = IF m.known THEN file[S] ELSE ZeroQueue,
         SeqStart(q) = q.read_seq, CheckAckInQueue(Remote(m).ack, SeqStart(q), SeqEnd(q))
  PROVE  /\ Remote(m).ack \in UInt
         /\ Off(q, Remote(m).ack) <= Off(q, file[C].ack_seq)
         /\ m.fd = connecting => Remote(m).ack = file[C].ack_seq
<1> DEFINE a == Remote(m).ack
           have == file[C].ack_seq
<1>1. m \in LoginMsgs /\ a \in UInt /\ m.known \in BOOLEAN
  BY LoginIs, RemoteIs
<1>2. m.fd = connecting => a = have
  BY LoginMatches
<1>3. CASE m.known
  <2>1. q = file[S] /\ a = m.ack /\ ~ Before(have, a)
    BY <1>1, <1>3, RemoteIs DEF InTime
  <2>2. ~ Before(a, q.read_seq)
    BY DEF CheckAckInQueue
  <2>3. q.read_seq \in UInt
    BY <2>1, EndsAre, EndTypes, QueueFields DEF IInv
  <2>4. Off(q, a) < HalfRange
    <3> HIDE DEF a
    <3>1. Off(q, a) \in Nat /\ HalfRange \in Nat
      BY <2>3, <1>1, SubRange, Widths DEF Off
    <3> QED BY <2>2, <3>1 DEF Before, Off
  <2>5. Off(file[S], a) < HalfRange => (~ Before(have, a) <=> Off(file[S], a) <= Off(file[S], have))
    BY <1>1, EndsAre, AckedOff
  <2> QED BY <2>1, <2>4, <2>5, <1>1, <1>2
<1>4. CASE ~ m.known
  <2>1. a = 0 /\ have = 0
    BY <1>1, <1>4, RemoteIs, FreshClient
  <2>2. q \in Queues /\ have \in UInt
    BY <2>1, <1>4, ZeroQueueInv, Widths
  <2>3. Off(q, have) \in Nat
    BY <2>2, OffRange
  <2>4. Off(q, have) <= Off(q, have)
    BY <2>3
  <2> QED BY <2>1, <2>4, <1>1, <1>2
<1> QED BY <1>1, <1>3, <1>4

\* A login that is refused because the client is connected already.
LEMMA RejectedKeeps ==
  ASSUME IInv, NEW m \in backlog, NEW n, AnswerStep(m, n), login' = NoLogin, ~ n.open[S],
         UNCHANGED <<file, pushed>>
  PROVE  IInv'
<1> DEFINE k == m.fd
<1>0. TypeOK /\ MoreTypes /\ DataInv
  BY DEF IInv, DataInv
<1>1. TypeOK' /\ MoreTypes' /\ PhaseInv' /\ PairInv' /\ RspInv' /\ BacklogInv'
  BY AnswerKeeps
<1>2. UNCHANGED <<sock, inbox, part, alloced, connecting>>
  BY DEF AnswerStep
<1>3. \A e \in Ends : n.out[e] = <<>>
  BY DEF AnswerStep
<1>4. k \in Fds /\ k # NoFd /\ k # Source(S) /\ k # sock[C].fd /\ \A e \in Ends : net[k].out[e] = <<>>
  BY LoginIs
<1>5. /\ net'[k] = n /\ \A j \in Fds \ {k} : net'[j] = net[j]
      /\ \A e \in Ends : Received(e)' = Received(e) /\ Partial(e)' = Partial(e)
      /\ Source(C)' = Source(C) /\ Source(S)' = Source(S)
  BY AnswerIs
<1> HIDE DEF k
<1>6. \A e \in Ends : Source(e)' = Source(e)
  BY <1>5, EndsAre
<1>7. ASSUME NEW e \in Ends, Source(e)' # NoFd
      PROVE  /\ \/ net'[Source(e)].out[Peer(e)] = net[Source(e)].out[Peer(e)]
                \/ net'[Source(e)].out[Peer(e)] = <<>> /\ ~ net'[Source(e)].open[Peer(e)]
             /\ net'[Source(e)].open[Peer(e)] => net[Source(e)].open[Peer(e)]
  <2>1. PICK j \in Fds : j = Source(e)
    BY <1>0, <1>6, <1>7, EndTypes
  <2>2. CASE j # k
    BY <2>1, <2>2, <1>5
  <2>3. CASE j = k
    <3>1. e = C /\ Peer(e) = S /\ S \in Ends
      BY <2>1, <2>3, <1>4, EndsAre
    <3> QED BY <2>1, <2>3, <3>1, <1>3, <1>4, <1>5
  <2> QED BY <2>2, <2>3
<1>8. ASSUME NEW e \in Ends, Heard(e)' PROVE Heard(e)
  <2>1. sock[e].fd \in Fds /\ sock[e].fd # NoFd
    BY <1>0, <1>2, <1>8, EndTypes DEF Heard
  <2>2. sock[e].fd # k
    BY <2>1, <1>4, EndsAre DEF Source
  <2>3. net'[sock[e].fd] = net[sock[e].fd]
    BY <2>1, <2>2, <1>5
  <2> QED BY <2>3, <1>2, <1>8 DEF Heard
<1>9. DataInv'
  BY <1>0, <1>2, <1>5, <1>6, <1>7, <1>8, QuietStep
<1> QED BY <1>1, <1>9 DEF IInv, DataInv

\* A login that is accepted, or refused, or whose client is found gone, when no
\* connection of the client is live.
LEMMA AcceptedKeeps ==
  ASSUME IInv, NEW m \in backlog, NEW n, AnswerStep(m, n), sock[S].fd = NoFd,
         NEW q \in Queues, NEW p \in UInt, QueueInv(q, p), SendInv(q), file'[S] = q, pushed'[S] = p,
         NEW g \in Int, Starts(q, p, g, file[C].ack_seq),
         \/ q = file[S] /\ p = pushed[S]
         \/ sock[C].fd = NoFd /\ (connecting # NoFd => net[connecting].out[S] = <<>>)
  PROVE  IInv'
<1> DEFINE k == m.fd
<1>0. TypeOK /\ MoreTypes /\ QueuesInv /\ InOrder /\ PhaseInv /\ Acked(C) /\ Acked(S) /\ Flow(S)
  BY EndsAre DEF IInv
<1>1. TypeOK' /\ MoreTypes' /\ PhaseInv' /\ PairInv' /\ RspInv' /\ BacklogInv'
  BY AnswerKeeps
<1>2. /\ login = NoLogin
      /\ file'[C] = file[C] /\ file'[S].ack_seq = file[S].ack_seq /\ pushed'[C] = pushed[C]
      /\ UNCHANGED <<sock, inbox, part, alloced, connecting>>
      /\ n.open[S] => net[k].open[S]
  BY DEF AnswerStep
<1>3. \A e \in Ends : n.out[e] = <<>>
  BY DEF AnswerStep
<1>4. k \in Fds /\ k # NoFd /\ k # sock[C].fd /\ \A e \in Ends : net[k].out[e] = <<>>
  BY LoginIs
<1>5. /\ net'[k] = n /\ \A j \in Fds \ {k} : net'[j] = net[j]
      /\ \A e \in Ends : Received(e)' = Received(e) /\ Partial(e)' = Partial(e)
      /\ Source(C)' = Source(C)
      /\ login' = NoLogin => Source(S)' = Source(S)
      /\ login' # NoLogin => Source(S)' = k
  BY AnswerIs
<1>6. C \in Ends /\ S \in Ends /\ C # S /\ Peer(C) = S /\ Peer(S) = C /\ \A e \in Ends : e = C \/ e = S
  BY EndsAre
<1> HIDE DEF k
<1>7. /\ Source(S)' \in {NoFd, k} /\ Received(S) = 0 /\ Partial(S) = <<>>
  <2>1. NoLogin.fd = NoFd
    BY DEF NoLogin
  <2>2. Source(S) = NoFd
    BY <2>1, <1>2, <1>6 DEF Source
  <2> QED BY <2>2, <1>5, <1>6 DEF Received, Partial
<1>8. ~ sock[S].up /\ ~ alloced[S]
  BY <1>0, <1>6 DEF TypeOK, PhaseInv
<1>9. QueuesInv'
  BY <1>0, <1>2, <1>6, <1>8 DEF QueuesInv
<1>10. InOrder'
  <2> SUFFICES ASSUME NEW d \in Ends, NEW i \in DOMAIN inbox[d]
               PROVE  IsMessage(inbox[d][i], Add(file'[d].ack_seq, i - 1))
    BY <1>2 DEF InOrder
  <2>1. file'[d].ack_seq = file[d].ack_seq
    BY <1>2, <1>6
  <2> QED BY <2>1, <1>0 DEF InOrder
<1>11. Acked(C)'
  <2>1. SameQueue(C) /\ file'[C] \in Queues /\ file'[Peer(C)].ack_seq = file[Peer(C)].ack_seq
    BY <1>0, <1>2, <1>6, EndTypes DEF SameQueue
  <2>2. ASSUME Heard(C)' PROVE Heard(C) /\ file'[C].send_idx >= file[C].send_idx
    <3>1. sock[C].fd \in Fds /\ sock[C].fd # NoFd
      BY <2>2, <1>0, <1>2, <1>6, EndTypes DEF Heard
    <3>2. net'[sock[C].fd] = net[sock[C].fd]
      BY <3>1, <1>4, <1>5
    <3>3. file'[C].send_idx >= file[C].send_idx
      BY <1>0, <1>2, <1>6, EndTypes, QueueFields
    <3> QED BY <3>2, <3>3, <2>2, <1>2 DEF Heard
  <2> QED BY <2>1, <2>2, <1>0, <1>6, AckedKept
<1>12. AckedOK(q, p, file[C].ack_seq, FALSE)
  BY DEF AckedOK
<1>13. Acked(S)'
  <2> DEFINE up == Heard(S)'
  <2>1. ~ up
    BY <1>2, <1>8 DEF Heard
  <2> HIDE DEF up
  <2>2. AckedOK(q, p, file[C].ack_seq, up)
    BY <2>1 DEF AckedOK
  <2> QED BY <2>2, <1>2, <1>6 DEF Acked, up
<1>14. Flow(C)'
  <2> DEFINE q1 == file'[C]
             p1 == pushed'[C]
             have == file'[S].ack_seq
             up == Heard(C)'
             j == Source(S)'
             live == sock'[C].up /\ sock'[C].fd = j
             open == net'[j].open[C]
  <2>1. q1 \in Queues /\ p1 \in UInt /\ have \in UInt
    BY <1>0, <1>2, <1>6, EndTypes
  <2>2. AckedOK(q1, p1, have, up)
    BY <1>6, <1>11 DEF Acked
  <2>3. j # NoFd => j = k /\ ~ live /\ net'[j].out[C] = <<>>
    BY <1>2, <1>3, <1>4, <1>5, <1>6, <1>7
  <2>4. Received(S)' = 0 /\ Partial(S)' = <<>>
    BY <1>5, <1>6, <1>7
  <2> HIDE DEF q1, p1, have, up, live, open
  <2>5. ~ live => FlowOK(q1, p1, have, 0, <<>>, <<>>, live, open)
    BY <2>1, <2>2, FlowStart
  <2> QED BY <2>3, <2>4, <2>5, <1>6 DEF Flow, q1, p1, have, live, open
<1>15. Flow(S)'
  <2>1. CASE q = file[S] /\ p = pushed[S]
    <3>1. SameQueue(S) /\ file'[Peer(S)].ack_seq = file[Peer(S)].ack_seq
      BY <2>1, <1>2, <1>6 DEF SameQueue
    <3>2. ~ sock'[S].up
      BY <1>2, <1>8
    <3>3. ASSUME Source(C)' # NoFd
          PROVE  /\ net'[Source(C)].out[S] = net[Source(C)].out[S]
                 /\ net'[Source(C)].open[S] => net[Source(C)].open[S]
      <4>1. Source(C) \in Fds
        BY <3>3, <1>0, <1>5, <1>6, EndTypes
      <4>2. CASE Source(C) = k
        BY <4>2, <1>2, <1>3, <1>4, <1>5, <1>6
      <4>3. CASE Source(C) # k
        BY <4>1, <4>3, <1>5
      <4> QED BY <4>2, <4>3
    <3> QED BY <3>1, <3>2, <3>3, <1>0, <1>5, <1>6, FlowKept
  <2>2. CASE sock[C].fd = NoFd /\ (connecting # NoFd => net[connecting].out[S] = <<>>)
    <3> DEFINE have == file[C].ack_seq
               j == Source(C)'
               live == sock'[S].up /\ sock'[S].fd = j
               open == net'[j].open[S]
    <3>1. j = connecting /\ j \in Fds \cup {NoFd}
      BY <2>2, <1>0, <1>5 DEF Source, TypeOK
    <3>2. ~ live /\ have \in UInt
      BY <1>0, <1>2, <1>6, <1>8, EndTypes
    <3>3. j # NoFd => net'[j].out[S] = <<>>
      BY <2>2, <3>1, <1>3, <1>5, <1>6
    <3>4. Received(C)' = 0 /\ Partial(C)' = <<>>
      BY <2>2, <1>5, <1>6 DEF Received, Partial
    <3>5. file'[Peer(S)].ack_seq = have /\ Peer(S) = C
      BY <1>2, <1>6
    <3> HIDE DEF have, live, open
    <3>6. FlowOK(q, p, have, 0, <<>>, <<>>, live, open)
      BY <3>2, <1>12, FlowStart DEF have
    <3> QED BY <3>3, <3>4, <3>5, <3>6, <1>6 DEF Flow, live, open
  <2> QED BY <2>1, <2>2
<1> QED BY <1>1, <1>6, <1>9, <1>10, <1>11, <1>13, <1>14, <1>15 DEF IInv

\* A connection with another LoginRsp.
LEMMA ReplyIs ==
  ASSUME NEW n \in Conns, NEW rsp \in [status : Statuses, ack : UInt]
  PROVE  LET r == [n EXCEPT !.rsp = rsp]
         IN  r \in Conns /\ r.rsp = rsp /\ r.open = n.open /\ r.out = n.out
<1>1. [n EXCEPT !.rsp = rsp] = [out |-> n.out, rsp |-> rsp, open |-> n.open]
  BY DEF Conns
<1>2. n.out \in [Ends -> Seq(Blocks)] /\ n.open \in [Ends -> BOOLEAN]
  BY DEF Conns
<1> QED BY <1>1, <1>2 DEF Conns

\* A connection that the server closes.
LEMMA ServerCloses ==
  ASSUME NEW n \in Conns
  PROVE  LET c == Closed(n, S)
         IN  /\ c \in Conns /\ c.open[S] = FALSE /\ c.open[C] = n.open[C] /\ c.rsp = n.rsp
             /\ c.out[C] = <<>> /\ c.out[S] = n.out[S]
<1> DEFINE e == S
<1>1. e \in Ends /\ Peer(e) = C /\ e # C
  BY EndsAre
<1> HIDE DEF e
<1>2. LET c == Closed(n, e)
      IN  /\ c \in Conns /\ c.open[e] = FALSE /\ c.open[C] = n.open[C] /\ c.rsp = n.rsp
          /\ c.out[C] = <<>> /\ c.out[e] = n.out[e]
  BY <1>1, ClosedIs
<1> QED BY <1>2 DEF e

\* HandleLogin() until the LoginRsp is sent: it tells a client that is there that the
\* login is refused only when the client is connected already, and opens the file,
\* or clears it for a client that knows no server.
LEMMA HandleLoginIs ==
  ASSUME IInv, AcksRecent, ~ LateLogin, NEW m \in backlog, HandleLogin(m)
  PROVE  /\ m.known \/ ~ last_server
         /\ \E n :
              /\ AnswerStep(m, n)
              /\ \/ UNCHANGED <<file, pushed>> /\ login' = NoLogin /\ ~ n.open[S]
                 \/ /\ sock[S].fd = NoFd
                    /\ file'[S] = IF m.known THEN file[S] ELSE ZeroQueue
                    /\ pushed'[S] = IF m.known THEN pushed[S] ELSE 0
<1> USE DEF bufs
<1> DEFINE k == m.fd
           q == IF m.known THEN file[S] ELSE ZeroQueue
           p == IF m.known THEN pushed[S] ELSE 0
           Rsp(status, ack) == IF net[k].open[C] THEN [status |-> status, ack |-> ack] ELSE NoRsp
           With(status, ack) == [net[k] EXCEPT !.rsp = Rsp(status, ack)]
           matches == /\ CheckAckInQueue(Remote(m).ack, SeqStart(q), SeqEnd(q))
                      /\ CheckAckInQueue(q.ack_seq, Remote(m).start, Remote(m).end)
<1>0. TypeOK /\ MoreTypes /\ PhaseInv
  BY DEF IInv
<1>1. /\ login = NoLogin /\ net[k].open[S] /\ backlog' = backlog \ {m} /\ InTime(m) /\ ~ LateFirst(m)
      /\ UNCHANGED <<last_server, sock, inbox, part, alloced, mapped, connecting, budget>>
  BY DEF HandleLogin
<1>2. /\ k \in Fds /\ k # NoFd /\ m.known \in BOOLEAN /\ m \in LoginMsgs
      /\ net[k].open[C] => k = connecting
      /\ \A e \in Ends : net[k].out[e] = <<>>
      /\ net[k].rsp.status = "none"
  BY LoginIs
<1>3. net[k] \in Conns /\ net \in [Fds -> Conns]
  BY <1>0, <1>2 DEF MoreTypes
<1>4. C \in Ends /\ S \in Ends /\ C # S /\ Peer(C) = S /\ Peer(S) = C /\ \A e \in Ends : e = C \/ e = S
  BY EndsAre
<1>5. ASSUME NEW status \in Statuses, NEW ack \in UInt
      PROVE  /\ Rsp(status, ack) \in [status : Statuses, ack : UInt]
             /\ net[k].open[C] => Rsp(status, ack).status = status /\ Rsp(status, ack).ack = ack
             /\ ~ net[k].open[C] => Rsp(status, ack).status = "none"
  BY FreeNetIs
<1>6. ASSUME NEW status \in Statuses, NEW ack \in UInt
      PROVE  LET n == With(status, ack)
             IN  n \in Conns /\ n.rsp = Rsp(status, ack) /\ n.open = net[k].open /\ n.out = net[k].out
  <2> DEFINE rsp == Rsp(status, ack)
  <2>1. rsp \in [status : Statuses, ack : UInt]
    BY <1>5
  <2> HIDE DEF rsp
  <2> QED BY <2>1, <1>3, ReplyIs DEF rsp
<1>7. /\ file \in [Ends -> Queues] /\ pushed \in [Ends -> UInt] /\ file[S].ack_seq \in UInt
      /\ "rejected" \in Statuses /\ "ok" \in Statuses /\ "mismatch" \in Statuses /\ 0 \in UInt
  <2>1. file \in [Ends -> Queues]
    BY <1>0, EndTypes DEF TypeOK
  <2>2. file[S].ack_seq \in UInt
    BY <1>0, <1>4, EndTypes
  <2>3. pushed \in [Ends -> UInt]
    BY <1>0 DEF TypeOK
  <2> QED BY <2>1, <2>2, <2>3, Widths DEF Statuses
<1>8. m.known \/ ~ last_server
  BY <1>1 DEF LateFirst
\* The server refuses the login: what becomes of the connection.
<1>9. ASSUME NEW status \in Statuses, NEW ack \in UInt, status # "ok",
             net[k].open[C] => status \notin {"mismatch", "corrupt"},
             net' = [net EXCEPT ![k] = Closed(With(status, ack), S)], login' = login,
             file' \in [Ends -> Queues], file'[C] = file[C], file'[S].ack_seq = file[S].ack_seq,
             pushed' \in [Ends -> UInt], pushed'[C] = pushed[C]
      PROVE  \E n : AnswerStep(m, n) /\ login' = NoLogin /\ ~ n.open[S]
  <2> DEFINE a == With(status, ack)
             rsp == Rsp(status, ack)
             n == Closed(a, S)
  <2>1. net' = [net EXCEPT ![k] = n]
    BY <1>9
  <2>2. a \in Conns /\ a.rsp = rsp /\ a.open = net[k].open /\ a.out = net[k].out
    BY <1>6, <1>7
  <2>3. /\ rsp.status # "ok"
        /\ rsp.status # "none" => net[k].open[C] /\ rsp.status \notin {"mismatch", "corrupt"}
    BY <1>5, <1>9
  <2> HIDE DEF a, rsp, Rsp, With
  <2>4. /\ n \in Conns /\ n.open[S] = FALSE /\ n.open[C] = net[k].open[C] /\ n.rsp = rsp
        /\ n.out[C] = <<>> /\ n.out[S] = net[k].out[S]
    BY <2>2, ServerCloses
  <2> HIDE DEF n
  <2>5. \A e \in Ends : n.out[e] = <<>>
    BY <2>4, <1>2, <1>4
  <2>6. NetBecomes(m.fd, n)
    BY <2>1 DEF NetBecomes
  <2>7. login' = NoLogin
    BY <1>1, <1>9
  <2>8. /\ n.rsp.status # "none" => n.open[C] /\ n.rsp.status \notin {"mismatch", "corrupt"}
        /\ n.rsp.status # "ok"
    BY <2>3, <2>4
  <2> HIDE DEF q, p, matches
  <2>9. AnswerStep(m, n)
    BY <2>4, <2>5, <2>6, <2>7, <2>8, <1>1, <1>9 DEF AnswerStep
  <2> QED BY <2>4, <2>7, <2>9
<1>10. CASE sock[S].fd # NoFd
  <2>1. net' = [net EXCEPT ![k] = Closed(With("rejected", 0), S)] /\ UNCHANGED <<file, login, pushed>>
    BY <1>10 DEF HandleLogin
  <2> HIDE DEF Rsp, With, q, p, matches
  <2>2. \E n : AnswerStep(m, n) /\ login' = NoLogin /\ ~ n.open[S]
    BY <2>1, <1>7, <1>9
  <2> QED BY <2>1, <2>2, <1>8
<1>11. CASE sock[S].fd = NoFd
  <2>1. /\ q \in Queues /\ p \in UInt /\ q.ack_seq = file[S].ack_seq
        /\ SanityCheck(q) /\ SeqStart(q) = q.read_seq
        /\ CheckAckInQueue(file[C].ack_seq, SeqStart(q), SeqEnd(q))
    BY <1>2, <1>8, LoginQueue
  <2>2. net[k].open[C] => matches
    <3>1. k = connecting =>
            /\ Remote(m).ack = file[C].ack_seq
            /\ CheckAckInQueue(file[S].ack_seq, Remote(m).start, Remote(m).end)
      BY LoginMatches
    <3> QED BY <2>1, <3>1, <1>2
  <2>3. /\ file' = [file EXCEPT ![S] = q]
        /\ pushed' = IF m.known THEN pushed ELSE [pushed EXCEPT ![S] = 0]
        /\ IF ~ matches
           THEN net' = [net EXCEPT ![k] = Closed(With("mismatch", q.ack_seq), S)] /\ login' = login
           ELSE \/ net' = [net EXCEPT ![k] = With("ok", q.ack_seq)] /\ login' = [fd |-> k, ack |-> Remote(m).ack]
                \/ ~ net[k].open[C] /\ net' = [net EXCEPT ![k] = Closed(net[k], S)] /\ login' = login
    <3>1. sock[S].fd = NoFd /\ SanityCheck(q)
      BY <2>1, <1>11
    <3> QED BY <3>1 DEF HandleLogin, Remote
  <2>4. /\ file' \in [Ends -> Queues] /\ file'[C] = file[C] /\ file'[S] = q
        /\ pushed' \in [Ends -> UInt] /\ pushed'[C] = pushed[C] /\ pushed'[S] = p
    <3> HIDE DEF q, matches
    <3> QED BY <2>1, <2>3, <1>2, <1>4, <1>7
  <2>5. \E n : AnswerStep(m, n)
    <3>1. CASE ~ matches
      <4> DEFINE ack == q.ack_seq
      <4>1. ack \in UInt /\ ~ net[k].open[C] /\ file'[S].ack_seq = file[S].ack_seq
        BY <2>1, <2>2, <2>4, <3>1, <1>7
      <4>2. net' = [net EXCEPT ![k] = Closed(With("mismatch", ack), S)] /\ login' = login
        BY <2>3, <3>1
      <4> HIDE DEF ack, Rsp, With, q, p, matches
      <4> QED BY <4>1, <4>2, <2>4, <1>7, <1>9
    <3>2. CASE matches /\ net' = [net EXCEPT ![k] = With("ok", q.ack_seq)] /\ login' = [fd |-> k, ack |-> Remote(m).ack]
      <4> DEFINE ack == q.ack_seq
                 n == With("ok", ack)
                 rsp == Rsp("ok", ack)
      <4>1. ack \in UInt /\ ack = file[S].ack_seq
        BY <2>1, <1>7
      <4>2. /\ Remote(m).ack \in UInt /\ Off(q, Remote(m).ack) <= Off(q, file[C].ack_seq)
            /\ k = connecting => Remote(m).ack = file[C].ack_seq
        <5>1. q = IF m.known THEN file[S] ELSE ZeroQueue
          OBVIOUS
        <5>2. SeqStart(q) = q.read_seq /\ CheckAckInQueue(Remote(m).ack, SeqStart(q), SeqEnd(q))
          BY <2>1, <3>2
        <5> HIDE DEF q
        <5> QED BY <5>1, <5>2, <1>1, <1>8, LoginAckFits
      <4> HIDE DEF ack
      <4>3. n \in Conns /\ n.rsp = rsp /\ n.open = net[k].open /\ n.out = net[k].out
        BY <4>1, <1>6, <1>7
      <4>4. /\ rsp.status \in {"none", "ok"} /\ (rsp.status # "none" => net[k].open[C])
            /\ rsp.status = "ok" => rsp.ack = ack
            /\ net[k].open[C] => rsp.status = "ok"
        BY <4>1, <1>5, <1>7
      <4>5. NetBecomes(m.fd, n)
        BY <3>2 DEF NetBecomes, ack
      <4>6. login' = [fd |-> m.fd, ack |-> Remote(m).ack] /\ login' # NoLogin
        BY <3>2, <1>2 DEF NoLogin
      <4> HIDE DEF n, rsp, Rsp, With
      <4>7. \A e \in Ends : n.out[e] = <<>>
        BY <4>3, <1>2
      <4>8. /\ n.rsp.status # "none" => n.open[C] /\ n.rsp.status \notin {"mismatch", "corrupt"}
            /\ n.rsp.status = "ok" => n.rsp.ack = file[S].ack_seq /\ login' # NoLogin
            /\ n.open[C] => n.rsp.status = "ok"
        BY <4>1, <4>3, <4>4, <4>6
      <4>9. n.open[C] = net[k].open[C] /\ n.open[S]
        BY <4>3, <1>1
      <4>10. file'[S].ack_seq = file[S].ack_seq /\ file'[S] = q
        BY <2>1, <2>4
      <4> HIDE DEF q, p, matches
      <4>11. \E a \in UInt : /\ login' = [fd |-> m.fd, ack |-> a]
                             /\ Off(file'[S], a) <= Off(file'[S], file[C].ack_seq)
                             /\ m.fd = connecting => a = file[C].ack_seq
        BY <4>2, <4>6, <4>10
      <4>12. AnswerStep(m, n)
        BY <4>3, <4>5, <4>7, <4>8, <4>9, <4>10, <4>11, <2>4, <1>1, <1>11 DEF AnswerStep
      <4> QED BY <4>12
    <3>3. CASE ~ net[k].open[C] /\ net' = [net EXCEPT ![k] = Closed(net[k], S)] /\ login' = login
      <4> DEFINE n == Closed(net[k], S)
      <4>1. /\ n \in Conns /\ n.open[S] = FALSE /\ n.open[C] = net[k].open[C] /\ n.rsp = net[k].rsp
            /\ n.out[C] = <<>> /\ n.out[S] = net[k].out[S]
        BY <1>3, ServerCloses
      <4>2. NetBecomes(m.fd, n)
        BY <3>3 DEF NetBecomes
      <4> HIDE DEF n
      <4>3. \A e \in Ends : n.out[e] = <<>>
        BY <4>1, <1>2, <1>4
      <4>4. n.rsp.status = "none"
        BY <4>1, <1>2
      <4>5. file'[S].ack_seq = file[S].ack_seq
        BY <2>1, <2>4
      <4> HIDE DEF q, p, matches, Rsp, With
      <4>6. AnswerStep(m, n)
        BY <4>1, <4>2, <4>3, <4>4, <4>5, <3>3, <2>4, <1>1 DEF AnswerStep
      <4> QED BY <4>6
    <3> HIDE DEF matches, q, p, Rsp, With
    <3> QED BY <2>3, <3>1, <3>2, <3>3
  <2> HIDE DEF q, p, matches, Rsp, With
  <2>6. PICK n : AnswerStep(m, n)
    BY <2>5
  <2> QED BY <2>4, <2>6, <1>2, <1>8, <1>11 DEF q, p
<1> QED BY <1>10, <1>11

\* HandleLogin() until the LoginRsp is sent keeps the invariant.
LEMMA HandleLoginKeeps ==
  ASSUME IInv, AcksRecent, ~ LateLogin, NEW m \in backlog, HandleLogin(m)
  PROVE  IInv'
<1>1. m.known \/ ~ last_server
  BY HandleLoginIs
<1>2. PICK n :
        /\ AnswerStep(m, n)
        /\ \/ UNCHANGED <<file, pushed>> /\ login' = NoLogin /\ ~ n.open[S]
           \/ /\ sock[S].fd = NoFd
              /\ file'[S] = IF m.known THEN file[S] ELSE ZeroQueue
              /\ pushed'[S] = IF m.known THEN pushed[S] ELSE 0
  BY HandleLoginIs
<1>3. CASE UNCHANGED <<file, pushed>> /\ login' = NoLogin /\ ~ n.open[S]
  BY <1>2, <1>3, RejectedKeeps
<1>4. CASE /\ sock[S].fd = NoFd
           /\ file'[S] = IF m.known THEN file[S] ELSE ZeroQueue
           /\ pushed'[S] = IF m.known THEN pushed[S] ELSE 0
  <2> DEFINE q == IF m.known THEN file[S] ELSE ZeroQueue
             p == IF m.known THEN pushed[S] ELSE 0
  <2>0. m.known \in BOOLEAN /\ m.fd # NoFd /\ net[m.fd].rsp.status = "none"
    BY LoginIs
  <2>1. /\ q \in Queues /\ p \in UInt /\ QueueInv(q, p) /\ SendInv(q)
        /\ \E h \in Int : Starts(q, p, h, file[C].ack_seq)
    BY <2>0, <1>1, LoginQueue
  <2>2. file'[S] = q /\ pushed'[S] = p
    BY <1>4
  <2>3. \/ q = file[S] /\ p = pushed[S]
        \/ sock[C].fd = NoFd /\ (connecting # NoFd => net[connecting].out[S] = <<>>)
    <3>1. CASE m.known
      BY <3>1
    <3>2. CASE ~ m.known
      <4>1. sock[C].fd = NoFd
        BY <3>2, <1>1 DEF IInv, PhaseInv
      <4>2. ~ LateFirst(m)
        BY DEF HandleLogin
      <4>3. connecting # NoFd => net[connecting].rsp.status # "ok"
        BY <4>2, <3>2, <2>0 DEF LateFirst
      <4>4. connecting # NoFd => net[connecting].out[S] = <<>>
        BY <4>3 DEF IInv, RspInv
      <4> QED BY <4>1, <4>4
    <3> QED BY <3>1, <3>2, <2>0
  <2> HIDE DEF q, p
  <2>4. PICK g \in Int : Starts(q, p, g, file[C].ack_seq)
    BY <2>1
  <2> QED BY <2>1, <2>2, <2>3, <2>4, <1>2, <1>4, AcceptedKeeps
<1> QED BY <1>2, <1>3, <1>4

-----------------------------------------------------------------------------
(* The invariant of the specification.                                     *)

\* Queues, buffers and connections at the start.
LEMMA InitHolds ==
  ASSUME Init
  PROVE  IInv
<1> DEFINE z == ZeroQueue
           zero == 0
<1>1. /\ \A e \in Ends : /\ file[e] = z /\ sock[e] = [up |-> FALSE, fd |-> NoFd] /\ inbox[e] = <<>>
                         /\ part[e] = <<>> /\ alloced[e] = FALSE /\ pushed[e] = zero
      /\ ~ last_server /\ ~ mapped /\ connecting = NoFd /\ login = NoLogin /\ backlog = {}
      /\ \A k \in Fds : net[k] = FreeNet
      /\ budget = MaxFailures
  BY DEF Init
<1>2. z \in Queues /\ QueueInv(z, zero) /\ SendInv(z) /\ zero \in UInt
  BY ZeroQueueInv, Widths
<1>3. z.ack_seq = zero /\ z.read_idx = 0 /\ z.write_idx = 0 /\ z.send_idx = 0
  BY DEF ZeroQueue
<1> HIDE DEF z
<1>4. NoLogin.fd = NoFd /\ NoLogin \in [fd : Fds \cup {NoFd}, ack : UInt]
  BY Widths DEF NoLogin
<1>5. TypeOK
  <2>1. file \in [Ends -> Queues]
    BY <1>2 DEF Init, z
  <2>2. sock \in [Ends -> [up : BOOLEAN, fd : Fds \cup {NoFd}]] /\ \A e \in Ends : sock[e].up => sock[e].fd # NoFd
    BY DEF Init
  <2>3. alloced \in [Ends -> BOOLEAN] /\ pushed \in [Ends -> UInt]
    BY Widths DEF Init
  <2>4. \A k \in Fds, e \in Ends : Len(net[k].out[e]) <= WireCap
    BY <1>1, FreeNetIs, SessionAssumption
  <2>5. \A e \in Ends : part[e] \in Seq(Blocks) /\ inbox[e] \in Seq(Seq(Blocks))
    <3>1. <<>> \in Seq(Blocks) /\ <<>> \in Seq(Seq(Blocks))
      OBVIOUS
    <3> QED BY <3>1, <1>1
  <2>6. last_server \in BOOLEAN /\ mapped \in BOOLEAN /\ connecting \in Fds \cup {NoFd}
        /\ login.fd \in Fds \cup {NoFd} /\ budget \in 0 .. MaxFailures
    <3>1. last_server \in BOOLEAN /\ mapped \in BOOLEAN
      BY DEF Init
    <3>2. budget \in 0 .. MaxFailures
      BY SessionAssumption DEF Init
    <3>3. connecting \in Fds \cup {NoFd} /\ login.fd \in Fds \cup {NoFd}
      BY <1>4 DEF Init
    <3> QED BY <3>1, <3>2, <3>3
  <2> QED BY <2>1, <2>2, <2>3, <2>4, <2>5, <2>6, FileTypes DEF TypeOK
<1>6. MoreTypes
  BY <1>1, <1>4, FreeNetIs DEF MoreTypes, Init
<1>7. QueuesInv
  BY <1>1, <1>2 DEF QueuesInv
<1>8. InOrder
  BY <1>1 DEF InOrder
<1>9. C \in Ends /\ S \in Ends
  BY EndsAre
<1>10. \A e \in Ends : sock[e].fd = NoFd /\ ~ sock[e].up /\ Source(e) = NoFd
  BY <1>1, <1>4 DEF Source
<1>11. PhaseInv
  BY <1>1, <1>9, <1>10 DEF PhaseInv, z
<1>12. PairInv
  BY <1>9, <1>10 DEF PairInv
<1>13. RspInv
  BY <1>1, FreeNetIs DEF RspInv
<1>14. BacklogInv
  BY <1>1 DEF BacklogInv
<1>15. ASSUME NEW e \in Ends PROVE Acked(e) /\ Flow(e)
  <2>1. Peer(e) \in Ends
    BY EndsAre
  <2>2. Flow(e)
    BY <2>1, <1>10 DEF Flow
  <2>4. Starts(z, zero, 0, zero)
    BY <1>3 DEF Starts
  <2> DEFINE up == Heard(e)
  <2>5. AckedOK(z, zero, zero, up)
    <3>1. ~ up
      BY <1>10 DEF Heard
    <3> HIDE DEF up
    <3> QED BY <3>1, <2>4 DEF AckedOK
  <2>6. file[e] = z /\ pushed[e] = zero /\ file[Peer(e)].ack_seq = zero
    BY <2>1, <1>1, <1>3
  <2>7. Acked(e)
    BY <2>5, <2>6 DEF Acked
  <2> QED BY <2>2, <2>7
<1> QED BY <1>5, <1>6, <1>7, <1>8, <1>11, <1>12, <1>13, <1>14, <1>15 DEF IInv

\* Every step keeps the invariant.
LEMMA NextKeeps ==
  ASSUME IInv, AcksRecent, ~ TwoThreads, ~ StalePoll, ~ LateLogin, Next
  PROVE  IInv'
<1>1. ASSUME NEW e \in Ends, NEW len \in MsgLens, AllocMsg(e, len) PROVE IInv'
  BY <1>1, AllocMsgKeeps
<1>2. ASSUME NEW e \in Ends, NEW more \in BOOLEAN, PushMsg(e, more) PROVE IInv'
  BY <1>2, PushMsgKeeps
<1>3. ASSUME NEW e \in Ends, SendHB(e) \/ Recv(e) \/ Pop(e) PROVE IInv'
  BY <1>3, SendHBKeeps, RecvKeeps, PopKeeps
<1>4. ASSUME NEW e \in Ends, RemoteClose(e) \/ Close(e) \/ TryCloseFd(e) PROVE IInv'
  BY <1>4, CloseKeeps, TryCloseFdKeeps
<1>5. ASSUME NEW k \in Fds, NetReset(k) \/ Connect(k) PROVE IInv'
  BY <1>5, NetResetKeeps, ConnectKeeps
<1>6. CASE RecvLoginRsp \/ ConnectFails
  BY <1>6, RecvLoginRspKeeps, ConnectFailsKeeps
<1>7. ASSUME NEW m \in backlog, HandleLogin(m) \/ DropLogin(m) PROVE IInv'
  BY <1>7, HandleLoginKeeps, DropLoginKeeps
<1>8. ASSUME NEW e \in Ends, Crash(e) PROVE IInv'
  BY <1>8, CrashKeeps
<1> QED BY <1>1, <1>2, <1>3, <1>4, <1>5, <1>6, <1>7, <1>8, OpenLiveKeeps DEF Next

\* A step that changes nothing.
LEMMA StutterKeeps ==
  ASSUME IInv, UNCHANGED vars
  PROVE  IInv'
<1> USE DEF vars, files, bufs, logins
<1>1. \A e \in Ends : Source(e)' = Source(e) /\ Received(e)' = Received(e) /\ Partial(e)' = Partial(e)
  BY DEF Source, Received, Partial
<1>2. TypeOK' /\ MoreTypes'
  BY DEF IInv, TypeOK, MoreTypes
<1>3. QueuesInv' /\ InOrder'
  BY DEF IInv, QueuesInv, InOrder
<1>4. Settled' = Settled
  BY <1>1, EndsAre DEF Settled, Barren
<1>5. PhaseInv' /\ PairInv'
  BY <1>1, <1>4, EndsAre DEF IInv, PhaseInv, PairInv
<1>6. RspInv' /\ BacklogInv'
  BY <1>1, <1>4, EndsAre DEF IInv, RspInv, BacklogInv
<1>7. ASSUME NEW e \in Ends PROVE Acked(e)' /\ Flow(e)'
  BY <1>1, EndsAre DEF IInv, Acked, Flow, Heard
<1> QED BY <1>2, <1>3, <1>5, <1>6, <1>7 DEF IInv

\* The inductive invariant holds as long as no acknowledgement becomes half of the
\* range of sequence numbers old before it is read, however long the session is.
THEOREM RecentInvariant ==
  ASSUME ~ TwoThreads, ~ StalePoll, ~ LateLogin
  PROVE  Spec /\ []AcksRecent => []IInv
<1>1. Init => IInv
  BY InitHolds
<1>2. IInv /\ AcksRecent /\ [Next]_vars => IInv'
  BY NextKeeps, StutterKeeps
<1> QED BY <1>1, <1>2, PTL DEF Spec

=============================================================================
