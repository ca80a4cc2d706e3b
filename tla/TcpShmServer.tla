---------------------------- MODULE TcpShmServer ----------------------------
(***************************************************************************)
(* The control thread of a server (TcpShmServer::PollCtl() and             *)
(* HandleLogin(), tcpshm/tcpshm_server.h) and the thread that polls one    *)
(* connection group, which share the group's array without a lock.         *)
(*                                                                         *)
(* The server owns a fixed pool of connections.  grp.conns is an array of  *)
(* pointers to them, in which the live connections come first and a        *)
(* connection keeps the name of the client that used it first.  A login    *)
(* looks the name up, and a connection changes sides by being swapped with *)
(* its neighbour at live_cnt.                                              *)
(*                                                                         *)
(* One group is modelled: a login touches only the group the user chose    *)
(* for it, the others only take their turn in PollCtl().  What happens on  *)
(* a connection while it is live is PTCPSession's and SPSCVarQueue's part; *)
(* here it just closes at some moment.                                     *)
(***************************************************************************)
EXTENDS Integers, FiniteSets

CONSTANTS
  N,                  \* connections in the group
  MaxNewConnections,
  Names,              \* names of clients
  Fds,                \* sockets that can exist at the same time
  FileErrors          \* TRUE: OpenFile() may fail

ASSUME ServerAssumption ==
  /\ N \in Nat \ {0} /\ MaxNewConnections \in Nat \ {0}
  /\ FileErrors \in BOOLEAN

Slots == 0 .. N - 1
NewSlots == 0 .. MaxNewConnections - 1
Pool == Slots              \* a connection is known by its first place

CONSTANTS NoFd, NoName, NoConn, Invalid
ASSUME NoneAssumption ==
  NoFd \notin Fds /\ NoName \notin Names /\ Invalid \notin Names /\ NoConn \notin Pool
  /\ Invalid # NoName

VARIABLES
  listening,   \* listenfd_ is open
  sock,        \* the clients' sockets: where they are and the LoginMsg in them
  new_conns,   \* new_conns_: the fd of each, and whether its time is up
  avail_idx,
  conns,       \* grp.conns
  live_cnt,    \* grp.live_cnt
  name,        \* remote_name_ of each connection
  mapped,      \* its files are mapped
  up, fd,      \* its sockfd_ is valid, its fd_to_close_
  ctl,         \* the control thread: phase of PollCtl() and loop index
  swap,        \* the std::swap() it is in
  poll         \* the polling thread: loop index, whether the loop's test has let
               \* it in, and the connection it serves

clientVars == <<sock>>
newVars == <<new_conns, avail_idx>>
grpVars == <<conns, live_cnt>>
connVars == <<name, mapped, up, fd>>
vars == <<listening, sock, newVars, grpVars, connVars, ctl, swap, poll>>

FreeSock == [at |-> "free", msg |-> NoName, gone |-> FALSE]
NoConnYet == [fd |-> NoFd, expired |-> FALSE]
NoSwap == [i |-> 0, j |-> 0, tmp |-> NoConn, half |-> FALSE]
Idle == [at |-> "idle", i |-> 0]
NotPolling == [i |-> 0, in |-> FALSE, at |-> NoConn]

Init ==
  /\ listening = TRUE
  /\ sock = [f \in Fds |-> FreeSock]
  /\ new_conns = [i \in NewSlots |-> NoConnYet]
  /\ avail_idx = 0
  /\ conns = [i \in Slots |-> i]
  /\ live_cnt = 0
  /\ name = [c \in Pool |-> NoName]
  /\ mapped = [c \in Pool |-> FALSE]
  /\ up = [c \in Pool |-> FALSE]
  /\ fd = [c \in Pool |-> NoFd]
  /\ ctl = Idle
  /\ swap = NoSwap
  /\ poll = NotPolling

-----------------------------------------------------------------------------
(* Clients.                                                                *)

ClientConnect(f) ==
  /\ listening /\ sock[f].at = "free"
  /\ sock' = [sock EXCEPT ![f].at = "queued"]
  /\ UNCHANGED <<listening, newVars, grpVars, connVars, ctl, swap, poll>>

\* A LoginMsg, or something else: part of one, or no client name.
ClientSend(f, m) ==
  /\ sock[f].at # "free" /\ ~ sock[f].gone /\ sock[f].msg = NoName
  /\ sock' = [sock EXCEPT ![f].msg = m]
  /\ UNCHANGED <<listening, newVars, grpVars, connVars, ctl, swap, poll>>

\* A client that leaves before its LoginMsg; later that is ConnClose() or an
\* error of SendLoginRsp().
ClientClose(f) ==
  /\ sock[f].at # "free" /\ ~ sock[f].gone /\ sock[f].msg = NoName
  /\ sock' = [sock EXCEPT ![f].gone = TRUE]
  /\ UNCHANGED <<listening, newVars, grpVars, connVars, ctl, swap, poll>>

\* NewConnectionTimeout has passed since the accept; it decides only while the
\* client has said nothing.
Expire(i) ==
  /\ new_conns[i].fd # NoFd /\ ~ new_conns[i].expired
  /\ sock[new_conns[i].fd].msg = NoName
  /\ new_conns' = [new_conns EXCEPT ![i].expired = TRUE]
  /\ UNCHANGED <<listening, sock, avail_idx, grpVars, connVars, ctl, swap, poll>>

\* Close() of a live connection: an error, a timeout, the remote end or
\* RequestClose(); TryCloseFd() comes later.
ConnClose(c) ==
  /\ up[c]
  /\ up' = [up EXCEPT ![c] = FALSE]
  /\ UNCHANGED <<listening, sock, newVars, grpVars, name, mapped, fd, ctl, swap, poll>>

-----------------------------------------------------------------------------
(* PollCtl().                                                              *)

\* The accept of at most one connection, at the start of PollCtl().
Accept ==
  /\ listening /\ ctl = Idle
  /\ ctl' = [at |-> "visit", i |-> 0]
  /\ IF avail_idx # MaxNewConnections /\ \E f \in Fds : sock[f].at = "queued"
     THEN \E f \in Fds :
            /\ sock[f].at = "queued"
            /\ sock' = [sock EXCEPT ![f].at = "open"]
            /\ new_conns' = [new_conns EXCEPT ![avail_idx] = [fd |-> f, expired |-> FALSE]]
            /\ avail_idx' = MaxNewConnections
     ELSE UNCHANGED <<sock, newVars>>
  /\ UNCHANGED <<listening, grpVars, connVars, swap, poll>>

Visiting(i) == ctl = [at |-> "visit", i |-> i] /\ swap = NoSwap

NextVisit ==
  ctl' = IF ctl.i + 1 < MaxNewConnections THEN [ctl EXCEPT !.i = @ + 1]
         ELSE [at |-> "sweep", i |-> 0]

\* A free slot, or one whose client has said nothing yet.
SkipNew(i) ==
  /\ Visiting(i)
  /\ LET f == new_conns[i].fd
     IN  IF f = NoFd THEN avail_idx' = i
         ELSE /\ sock[f].msg = NoName /\ ~ sock[f].gone /\ ~ new_conns[i].expired
              /\ UNCHANGED avail_idx
  /\ NextVisit
  /\ UNCHANGED <<listening, sock, new_conns, grpVars, connVars, swap, poll>>

\* The end of a visit: the fd is closed unless a connection has taken it.
DropNew(i) ==
  /\ sock' = [sock EXCEPT ![new_conns[i].fd] = FreeSock]
  /\ new_conns' = [new_conns EXCEPT ![i] = NoConnYet]
  /\ avail_idx' = i
  /\ NextVisit

\* Mutant: a silent client is never timed out.
CloseNewNoTimeout(i) ==
  /\ Visiting(i) /\ new_conns[i].fd # NoFd
  /\ LET s == sock[new_conns[i].fd]
     IN  (s.msg = NoName /\ s.gone) \/ s.msg = Invalid
  /\ DropNew(i)
  /\ UNCHANGED <<listening, grpVars, connVars, swap, poll>>

\* Closed by the client, timed out, or no valid LoginMsg.
CloseNew(i) ==
  /\ Visiting(i) /\ new_conns[i].fd # NoFd
  /\ LET s == sock[new_conns[i].fd]
     IN  \/ s.msg = NoName /\ (s.gone \/ new_conns[i].expired)
         \/ s.msg = Invalid
  /\ DropNew(i)
  /\ UNCHANGED <<listening, grpVars, connVars, swap, poll>>

LoginAt(i) == Visiting(i) /\ new_conns[i].fd # NoFd /\ sock[new_conns[i].fd].msg \in Names

\* Mutant: an unused connection is preferred to the client's own.
LookupUnused(client) ==
  LET unused == {i \in Slots : name[conns[i]] = NoName}
      own == {i \in Slots : name[conns[i]] = client}
      fits == IF unused # {} THEN unused ELSE own
  IN  IF fits = {} THEN N ELSE CHOOSE i \in fits : \A j \in fits : i <= j

\* The first slot whose connection is unused or has the client's name; N when
\* there is none ("Max client cnt exceeded").
Lookup(client) ==
  LET fits == {i \in Slots : name[conns[i]] \in {NoName, client}}
  IN  IF fits = {} THEN N ELSE CHOOSE i \in fits : \A j \in fits : i <= j

\* HandleLogin() that is refused before the lookup (the SHM probe fails, or
\* OnNewConnection() rejects), or finds no connection.
LoginRefused(i) ==
  /\ LoginAt(i)
  /\ DropNew(i)
  /\ UNCHANGED <<listening, grpVars, connVars, swap, poll>>

\* Mutant: a login that fails releases the name.
LoginFailsReleases(i) ==
  LET c == conns[Lookup(sock[new_conns[i].fd].msg)]
  IN  /\ LoginAt(i) /\ Lookup(sock[new_conns[i].fd].msg) \in live_cnt .. N - 1
      /\ name' = [name EXCEPT ![c] = NoName]
      /\ DropNew(i)
      /\ UNCHANGED <<listening, grpVars, mapped, up, fd, swap, poll>>

\* HandleLogin() that finds the client's connection, and claims it if it is
\* unused, and then fails: the client is live already, its files cannot be
\* opened (mapped stays), the sequence numbers do not match or SendLoginRsp()
\* fails.
LoginFails(i) ==
  LET client == sock[new_conns[i].fd].msg
      s == Lookup(client)
      c == conns[s]
  IN  /\ LoginAt(i) /\ s # N
      /\ name' = [name EXCEPT ![c] = client]
      /\ \/ s < live_cnt /\ UNCHANGED mapped
         \/ s >= live_cnt /\ FileErrors /\ UNCHANGED mapped
         \/ s >= live_cnt /\ mapped' = [mapped EXCEPT ![c] = TRUE]
      /\ DropNew(i)
      /\ UNCHANGED <<listening, grpVars, up, fd, swap, poll>>

\* Mutants: a login that does not swap, one that swaps with the first slot
\* and one that leaves the fd to PollCtl() as well.
LoginOkTo(i, j, swapping, moved) ==
  LET f == new_conns[i].fd
      s == Lookup(sock[f].msg)
      c == conns[s]
  IN  /\ LoginAt(i) /\ s # N /\ s >= live_cnt
      /\ name' = [name EXCEPT ![c] = sock[f].msg]
      /\ mapped' = [mapped EXCEPT ![c] = TRUE]
      /\ up' = [up EXCEPT ![c] = TRUE]
      /\ fd' = [fd EXCEPT ![c] = f]
      /\ new_conns' = [new_conns EXCEPT ![i] = IF moved THEN NoConnYet ELSE @]
      /\ avail_idx' = i
      /\ live_cnt' = live_cnt + 1
      /\ swap' = IF swapping THEN [i |-> s, j |-> j, tmp |-> c, half |-> FALSE] ELSE NoSwap
      /\ NextVisit
      /\ UNCHANGED <<listening, sock, conns, poll>>

LoginOkNoSwap(i) == LoginOkTo(i, live_cnt, FALSE, TRUE)

LoginOkToFront(i) == LoginOkTo(i, 0, TRUE, TRUE)

LoginOkKeepsFd(i) == LoginOkTo(i, live_cnt, TRUE, FALSE)

\* HandleLogin() that succeeds: Open(), live_cnt++ and the start of std::swap().
LoginOk(i) ==
  LET f == new_conns[i].fd
      s == Lookup(sock[f].msg)
      c == conns[s]
  IN  /\ LoginAt(i) /\ s # N /\ s >= live_cnt
      /\ name' = [name EXCEPT ![c] = sock[f].msg]
      /\ mapped' = [mapped EXCEPT ![c] = TRUE]
      /\ up' = [up EXCEPT ![c] = TRUE]
      /\ fd' = [fd EXCEPT ![c] = f]
      /\ new_conns' = [new_conns EXCEPT ![i] = NoConnYet]
      /\ avail_idx' = i
      /\ live_cnt' = live_cnt + 1
      /\ swap' = [i |-> s, j |-> live_cnt, tmp |-> c, half |-> FALSE]
      /\ NextVisit
      /\ UNCHANGED <<listening, sock, conns, poll>>

\* The two stores of std::swap(conns[i], conns[j]).
SwapFirst ==
  /\ swap # NoSwap /\ ~ swap.half
  /\ conns' = [conns EXCEPT ![swap.i] = conns[swap.j]]
  /\ swap' = [swap EXCEPT !.half = TRUE]
  /\ UNCHANGED <<listening, sock, newVars, live_cnt, connVars, ctl, poll>>

\* Mutant: half a swap.
SwapSecondMissing ==
  /\ swap # NoSwap /\ swap.half
  /\ swap' = NoSwap
  /\ UNCHANGED <<listening, sock, newVars, grpVars, connVars, ctl, poll>>

SwapSecond ==
  /\ swap # NoSwap /\ swap.half
  /\ conns' = [conns EXCEPT ![swap.j] = swap.tmp]
  /\ swap' = NoSwap
  /\ UNCHANGED <<listening, sock, newVars, live_cnt, connVars, ctl, poll>>

\* Mutant: live_cnt is lowered, and once more where the swap reads it.
SweepCountsTwice ==
  LET c == conns[ctl.i]
  IN  /\ ctl.at = "sweep" /\ swap = NoSwap
      /\ IF ctl.i >= live_cnt
         THEN ctl' = Idle /\ UNCHANGED <<sock, live_cnt, fd, swap>>
         ELSE IF ~ up[c] /\ fd[c] # NoFd
         THEN /\ sock' = [sock EXCEPT ![fd[c]] = FreeSock]
              /\ fd' = [fd EXCEPT ![c] = NoFd]
              /\ live_cnt' = live_cnt - 2
              /\ swap' = [i |-> ctl.i, j |-> live_cnt - 2, tmp |-> c, half |-> FALSE]
              /\ UNCHANGED ctl
         ELSE ctl' = [ctl EXCEPT !.i = @ + 1] /\ UNCHANGED <<sock, live_cnt, fd, swap>>
      /\ UNCHANGED <<listening, newVars, conns, name, mapped, up, poll>>

\* The loop over the live connections: one that is closed gives back its fd and
\* is swapped with the last live one, which is looked at next.
Sweep ==
  LET c == conns[ctl.i]
  IN  /\ ctl.at = "sweep" /\ swap = NoSwap
      /\ IF ctl.i >= live_cnt
         THEN ctl' = Idle /\ UNCHANGED <<sock, live_cnt, fd, swap>>
         ELSE IF ~ up[c] /\ fd[c] # NoFd
         THEN /\ sock' = [sock EXCEPT ![fd[c]] = FreeSock]
              /\ fd' = [fd EXCEPT ![c] = NoFd]
              /\ live_cnt' = live_cnt - 1
              /\ swap' = [i |-> ctl.i, j |-> live_cnt - 1, tmp |-> c, half |-> FALSE]
              /\ UNCHANGED ctl
         ELSE ctl' = [ctl EXCEPT !.i = @ + 1] /\ UNCHANGED <<sock, live_cnt, fd, swap>>
      /\ UNCHANGED <<listening, newVars, conns, name, mapped, up, poll>>

-----------------------------------------------------------------------------
(* PollTcp() and PollShm().                                                *)

\* Mutants: a loop bound off by one, either way.
PollTestTooFar ==
  /\ ~ poll.in
  /\ poll' = IF poll.i <= live_cnt THEN [poll EXCEPT !.in = TRUE] ELSE NotPolling
  /\ UNCHANGED <<listening, sock, newVars, grpVars, connVars, ctl, swap>>

PollTestTooShort ==
  /\ ~ poll.in
  /\ poll' = IF poll.i + 1 < live_cnt THEN [poll EXCEPT !.in = TRUE] ELSE NotPolling
  /\ UNCHANGED <<listening, sock, newVars, grpVars, connVars, ctl, swap>>

\* i < grp.live_cnt; a pass over all connections ends when it fails.
PollTest ==
  /\ ~ poll.in
  /\ poll' = IF poll.i < live_cnt THEN [poll EXCEPT !.in = TRUE] ELSE NotPolling
  /\ UNCHANGED <<listening, sock, newVars, grpVars, connVars, ctl, swap>>

\* conn = *grp.conns[i], whatever has become of live_cnt.
PollVisit ==
  /\ poll.in /\ poll.at = NoConn
  /\ poll' = [poll EXCEPT !.at = conns[poll.i]]
  /\ UNCHANGED <<listening, sock, newVars, grpVars, connVars, ctl, swap>>

\* TcpFront() or ShmFront() and the callback are done.
PollDone ==
  /\ poll.at # NoConn
  /\ poll' = [NotPolling EXCEPT !.i = poll.i + 1]
  /\ UNCHANGED <<listening, sock, newVars, grpVars, connVars, ctl, swap>>

-----------------------------------------------------------------------------
(* Stop() and Start(), when no thread polls.                               *)

Stop ==
  /\ listening /\ ctl = Idle /\ poll = NotPolling
  /\ listening' = FALSE
  /\ sock' = [f \in Fds |-> FreeSock]
  /\ new_conns' = [i \in NewSlots |-> NoConnYet]
  /\ avail_idx' = 0
  /\ live_cnt' = 0
  /\ name' = [c \in Pool |-> NoName]
  /\ mapped' = [c \in Pool |-> FALSE]
  /\ up' = [c \in Pool |-> FALSE]
  /\ fd' = [c \in Pool |-> NoFd]
  /\ UNCHANGED <<conns, ctl, swap, poll>>

Start ==
  /\ ~ listening
  /\ listening' = TRUE
  /\ UNCHANGED <<sock, newVars, grpVars, connVars, ctl, swap, poll>>

-----------------------------------------------------------------------------
Clients ==
  \/ \E f \in Fds : ClientConnect(f) \/ ClientClose(f)
  \/ \E f \in Fds, m \in Names \cup {Invalid} : ClientSend(f, m)
  \/ \E c \in Pool : ConnClose(c)

VisitNew(i) == SkipNew(i) \/ CloseNew(i) \/ LoginRefused(i) \/ LoginFails(i) \/ LoginOk(i)

Swap == SwapFirst \/ SwapSecond

PollCtl == Accept \/ (\E i \in NewSlots : VisitNew(i)) \/ Swap \/ Sweep

Poll == PollTest \/ PollVisit \/ PollDone

Next ==
  \/ Clients
  \/ \E i \in NewSlots : Expire(i)
  \/ PollCtl
  \/ Poll
  \/ Stop \/ Start

Spec == Init /\ [][Next]_vars

\* The control and the polling loops run for ever and time passes.
Fairness ==
  /\ WF_vars(PollCtl) /\ WF_vars(Poll)
  /\ \A i \in NewSlots : WF_vars(Expire(i))

FairSpec == Spec /\ Fairness

-----------------------------------------------------------------------------
(* Properties.                                                             *)

\* The range of every variable.
TypeOK ==
  /\ listening \in BOOLEAN
  /\ sock \in [Fds -> [at : {"free", "queued", "open"},
                       msg : Names \cup {NoName, Invalid}, gone : BOOLEAN]]
  /\ new_conns \in [NewSlots -> [fd : Fds \cup {NoFd}, expired : BOOLEAN]]
  /\ avail_idx \in 0 .. MaxNewConnections
  /\ conns \in [Slots -> Pool] /\ live_cnt \in 0 .. N
  /\ name \in [Pool -> Names \cup {NoName}]
  /\ mapped \in [Pool -> BOOLEAN] /\ up \in [Pool -> BOOLEAN]
  /\ fd \in [Pool -> Fds \cup {NoFd}]
  /\ ctl \in [at : {"idle", "visit", "sweep"}, i : 0 .. N + MaxNewConnections]
  /\ swap \in [i : Slots, j : Slots, tmp : Pool \cup {NoConn}, half : BOOLEAN]
  /\ poll \in [i : 0 .. N, in : BOOLEAN, at : Pool \cup {NoConn}]

\* The array once the std::swap() in progress is over.
Settled ==
  IF swap = NoSwap THEN conns
  ELSE [conns EXCEPT ![swap.i] = IF swap.half THEN @ ELSE conns[swap.j],
                     ![swap.j] = swap.tmp]

\* Every connection of the pool has exactly one place in the array, whatever
\* was swapped: none is lost or doubled.
Placed == \A i, j \in Slots : Settled[i] = Settled[j] => i = j

\* The connections before live_cnt are those that own a socket.
LivePrefix == \A i \in Slots : i < live_cnt <=> fd[Settled[i]] # NoFd

\* The named connections come first, so that a lookup that stops at an unused
\* connection has passed all the others.
NamedPrefix ==
  \A i, j \in Slots : i < j /\ name[Settled[j]] # NoName => name[Settled[i]] # NoName

\* A client's name belongs to one connection, and so does its queue file: two
\* connections on one file would each overwrite what the other wrote.
NameUnique == \A c, d \in Pool : name[c] = name[d] /\ name[c] # NoName => c = d

\* An accepted socket has one owner, a slot of new_conns_ or a connection: none
\* is leaked, closed twice, or closed for another client that was given its
\* number; Accept() never overwrites a slot in use.
Owners(f) ==
  {<<"new", i>> : i \in {k \in NewSlots : new_conns[k].fd = f}}
    \cup {<<"conn", c>> : c \in {d \in Pool : fd[d] = f}}

SocketsOwned ==
  \A f \in Fds : Cardinality(Owners(f)) = IF sock[f].at = "open" THEN 1 ELSE 0

\* The polling thread, whose test of live_cnt and whose load of conns[i] may fall
\* into any step of the control thread, visits no connection that no client has
\* claimed: its remote name and user data are those of a client.
PolledIsClaimed == poll.at # NoConn => name[poll.at] # NoName

\* PollShm() dereferences the queue of every connection it visits.
PolledIsMapped == poll.at # NoConn => mapped[poll.at]

\* A live connection never moves to a later place of the array: a pass of the
\* polling thread, once no swap is half done, does not meet it a second time.
MovesForward ==
  [][\A i, j \in Slots : (i < live_cnt /\ j < live_cnt' /\ Settled[i] = Settled'[j]) => j <= i]_vars

\* The polling thread may miss a live connection that is being swapped, but not
\* for ever ("those're all fine").
Served == \A c \in Pool : <>[](fd[c] # NoFd) => []<>(poll.at = c)

\* As long as clients wait, one after the other is accepted, although there are
\* only MaxNewConnections slots and a client may say nothing at all.
AcceptsGoOn ==
  <>[](\E f \in Fds : sock[f].at = "queued") => []<><<Accept /\ newVars' # newVars>>_vars

\* What the loops know about their indices, and the stores of std::swap() about
\* each other.
ControlInv ==
  /\ ctl.at = "visit" => ctl.i < MaxNewConnections
  /\ ctl.at = "sweep" => ctl.i <= N
  /\ ctl.at = "idle" => swap = NoSwap
  /\ poll.in => poll.i < N
  /\ poll.at # NoConn => poll.in
  /\ swap # NoSwap => swap.tmp \in Pool /\ (swap.half \/ swap.tmp = conns[swap.i])

\* No connection of the pool is missing from the array.
Filled == \A c \in Pool : \E i \in Slots : Settled[i] = c

\* A connection that is live, being swapped or being polled has been claimed by
\* a client, and a claimed one is mapped unless OpenFile() failed.
Claimed ==
  /\ \A c \in Pool : fd[c] # NoFd => name[c] # NoName
  /\ swap # NoSwap =>
       /\ name[swap.tmp] # NoName
       /\ name[conns[swap.i]] # NoName
       /\ name[conns[swap.j]] # NoName
  /\ poll.at # NoConn => name[poll.at] # NoName
  /\ poll.in => name[conns[poll.i]] # NoName
  /\ FileErrors \/ \A c \in Pool : name[c] # NoName => mapped[c]

\* The inductive invariant from which the safety properties are proved.
IInv ==
  /\ TypeOK /\ ControlInv
  /\ Placed /\ Filled /\ LivePrefix /\ NamedPrefix /\ NameUnique
  /\ Claimed

=============================================================================
