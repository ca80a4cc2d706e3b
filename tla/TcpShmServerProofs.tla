------------------------- MODULE TcpShmServerProofs -------------------------
(***************************************************************************)
(* Proofs about the server's connection group, for every number of         *)
(* connections, of new connections, of clients and of sockets.             *)
(***************************************************************************)
EXTENDS TcpShmServer, FiniteSetTheorems, WellFoundedInduction, TLAPS

-----------------------------------------------------------------------------
(* The lookup of a client's connection.                                    *)

\* A set of places in an array that is not empty has a least element: among the
\* intervals from 0 to one of its elements one is minimal.
LEMMA HasLeast ==
  ASSUME NEW n \in Nat, NEW T \in SUBSET (0 .. n - 1), T # {}
  PROVE  \E x \in T : \A y \in T : x <= y
<1> DEFINE S == 0 .. n - 1
           F == {0 .. x : x \in T}
<1>1. FiniteSubsetsOf(S) = SUBSET S
  <2>1. IsFiniteSet(S)
    <3>1. 0 \in Int /\ n - 1 \in Int
      OBVIOUS
    <3> QED BY <3>1, FS_Interval
  <2> HIDE DEF S
  <2> QED BY <2>1, FS_FiniteSubsetsOfFinite
<1>2. F \subseteq SUBSET S /\ F # {}
  <2>1. \A x \in T : 0 .. x \in SUBSET S
    OBVIOUS
  <2>2. PICK x \in T : TRUE
    OBVIOUS
  <2>3. 0 .. x \in F
    OBVIOUS
  <2> QED BY <2>1, <2>3
<1>3. PICK A \in F : \A B \in F : ~ (<<B, A>> \in StrictSubsetOrdering(S))
  <2> HIDE DEF F, S
  <2> QED BY <1>1, <1>2, FS_StrictSubsetOrderingWellFounded, WFMin
<1>4. PICK x \in T : A = 0 .. x
  OBVIOUS
<1>5. ASSUME NEW y \in T, y < x PROVE FALSE
  <2>1. 0 .. y \in F /\ 0 .. y \subseteq A /\ x \in A /\ x \notin 0 .. y
    BY <1>4, <1>5
  <2>2. A \in SUBSET S /\ 0 .. y \in SUBSET S
    BY <1>2, <2>1
  <2>3. <<0 .. y, A>> \in StrictSubsetOrdering(S)
    <3> HIDE DEF S
    <3> QED BY <2>1, <2>2 DEF StrictSubsetOrdering
  <2> QED BY <1>3, <2>1, <2>3
<1> QED BY <1>5

\* HandleLogin()'s loop ends at the first connection that is unused or has the
\* client's name, or past the array.
LEMMA LookupOK ==
  ASSUME NEW client, Lookup(client) # N
  PROVE  /\ Lookup(client) \in Slots
         /\ name[conns[Lookup(client)]] \in {NoName, client}
         /\ \A j \in Slots : j < Lookup(client) => name[conns[j]] \notin {NoName, client}
<1> DEFINE fits == {i \in Slots : name[conns[i]] \in {NoName, client}}
           first == CHOOSE i \in fits : \A j \in fits : i <= j
<1>1. fits # {} /\ Lookup(client) = first
  BY DEF Lookup
<1>2. fits \in SUBSET (0 .. N - 1) /\ N \in Nat
  BY ServerAssumption DEF Slots
<1>3. \E i \in fits : \A j \in fits : i <= j
  <2> HIDE DEF fits
  <2> QED BY <1>1, <1>2, HasLeast
<1>4. first \in fits /\ \A j \in fits : first <= j
  <2> HIDE DEF fits
  <2> QED BY <1>3
<1>5. \A j \in Slots : j < first => j \notin fits
  <2> HIDE DEF fits, first
  <2> QED BY <1>2, <1>4 DEF Slots
<1> HIDE DEF first
<1> QED BY <1>1, <1>4, <1>5

-----------------------------------------------------------------------------
(* The array and its settled form.                                         *)

\* The constants, as the provers need them.
LEMMA Numbers == N \in Nat /\ N > 0 /\ MaxNewConnections \in Nat /\ MaxNewConnections > 0
BY ServerAssumption

\* The places of the array and the connections of the pool are the same numbers.
LEMMA Places == Slots = 0 .. N - 1 /\ Pool = Slots /\ 0 \in Slots
BY ServerAssumption DEF Slots, Pool

\* No connection, no client and no socket are none of them.
LEMMA Nones == NoConn \notin Pool /\ NoName \notin Names /\ NoFd \notin Fds
BY NoneAssumption

\* With no swap in progress the array is as it stands; in the middle of one the
\* two places hold what std::swap() will leave there.
LEMMA SettledIs ==
  ASSUME TypeOK
  PROVE  /\ swap = NoSwap => Settled = conns
         /\ Settled \in [Slots -> Pool \cup {NoConn}]
         /\ swap # NoSwap => \A k \in Slots : Settled[k] =
              IF k = swap.j THEN swap.tmp
              ELSE IF k = swap.i /\ ~ swap.half THEN conns[swap.j]
              ELSE conns[k]
BY DEF TypeOK, Settled

\* A step that leaves the array, the sockets and the names alone.
LEMMA Untouched ==
  ASSUME IInv, UNCHANGED <<grpVars, name, mapped, fd, swap>>,
         TypeOK', ControlInv', poll'.at # NoConn => name[poll'.at] # NoName,
         poll'.in => name[conns[poll'.i]] # NoName
  PROVE  IInv'
<1>1. Settled' = Settled
  BY DEF Settled, grpVars
<1>2. Placed' /\ Filled' /\ LivePrefix' /\ NamedPrefix' /\ NameUnique'
  BY <1>1 DEF IInv, Placed, Filled, LivePrefix, NamedPrefix, NameUnique, grpVars
<1>3. Claimed'
  BY DEF IInv, Claimed, grpVars
<1> QED BY <1>2, <1>3 DEF IInv

\* The raw array, also in the middle of a swap: what the polling thread finds
\* before live_cnt has been claimed.
LEMMA PolledClaimed ==
  ASSUME IInv, NEW k \in Slots, k < live_cnt
  PROVE  conns[k] \in Pool /\ name[conns[k]] # NoName
<1> USE DEF IInv
<1>1. conns[k] \in Pool
  BY DEF TypeOK
<1>2. CASE swap = NoSwap
  BY <1>1, <1>2, SettledIs DEF LivePrefix, Claimed
<1>3. CASE swap # NoSwap /\ k \in {swap.i, swap.j}
  BY <1>1, <1>3 DEF Claimed
<1>4. CASE swap # NoSwap /\ k \notin {swap.i, swap.j}
  <2>1. Settled[k] = conns[k]
    BY <1>4, SettledIs
  <2> QED BY <1>1, <2>1 DEF LivePrefix, Claimed
<1> QED BY <1>2, <1>3, <1>4

\* The sets of values that TypeOK gives to sock, to a slot of new_conns and to
\* ctl.
SockType == [at : {"free", "queued", "open"},
             msg : Names \cup {NoName, Invalid}, gone : BOOLEAN]
NewType == [fd : Fds \cup {NoFd}, expired : BOOLEAN]
CtlType == [at : {"idle", "visit", "sweep"}, i : 0 .. N + MaxNewConnections]

-----------------------------------------------------------------------------
(* One lemma for each group of actions.                                    *)

\* A new server.
LEMMA InitIInv == Init => IInv
<1> SUFFICES ASSUME Init PROVE IInv
  OBVIOUS
<1>1. TypeOK
  BY Numbers, Places DEF Init, TypeOK, FreeSock, NoConnYet, Idle, NoSwap, NotPolling, NewSlots
<1>2. Settled = conns
  BY DEF Init, Settled
<1>3. ControlInv
  BY DEF Init, ControlInv, Idle, NotPolling
<1>4. Placed /\ Filled /\ LivePrefix /\ NamedPrefix /\ NameUnique
  BY <1>2, Places DEF Init, Placed, Filled, LivePrefix, NamedPrefix, NameUnique
<1>5. Claimed
  BY Zenon DEF Init, Claimed, NotPolling
<1> QED BY <1>1, <1>3, <1>4, <1>5 DEF IInv

\* Clients and the passing of time.
LEMMA ClientsIInv ==
  ASSUME IInv, Clients \/ \E i \in NewSlots : Expire(i)
  PROVE  IInv'
<1> DEFINE Others == /\ UNCHANGED <<listening, avail_idx, grpVars, name, mapped, fd, ctl, swap, poll>>
                     /\ sock' \in [Fds -> SockType]
                     /\ new_conns' \in [NewSlots -> NewType]
                     /\ up' \in [Pool -> BOOLEAN]
<1>1. SUFFICES Others
  <2>1. TypeOK'
    BY <1>1 DEF IInv, TypeOK, SockType, NewType, grpVars
  <2>2. ControlInv'
    BY <1>1 DEF IInv, ControlInv, grpVars
  <2>3. /\ poll'.at # NoConn => name[poll'.at] # NoName
        /\ poll'.in => name[conns[poll'.i]] # NoName
    BY <1>1 DEF IInv, Claimed
  <2> HIDE DEF IInv
  <2> QED BY <1>1, <2>1, <2>2, <2>3, Untouched
<1> USE DEF IInv, newVars, connVars, SockType, NewType
<1>2. ASSUME NEW f \in Fds, ClientConnect(f) PROVE Others
  BY SMTT(30), <1>2 DEF ClientConnect, TypeOK
<1>3. ASSUME NEW f \in Fds, ClientClose(f) PROVE Others
  <2>1. [sock[f] EXCEPT !.gone = TRUE] \in SockType
    <3>1. sock[f] \in SockType
      BY DEF TypeOK
    <3> QED BY <3>1, Zenon
  <2> QED BY <1>3, <2>1 DEF ClientClose, TypeOK
<1>4. ASSUME NEW f \in Fds, NEW m \in Names \cup {Invalid}, ClientSend(f, m) PROVE Others
  BY <1>4 DEF ClientSend, TypeOK
<1>5. ASSUME NEW c \in Pool, ConnClose(c) PROVE Others
  BY <1>5 DEF ConnClose, TypeOK
<1>6. ASSUME NEW i \in NewSlots, Expire(i) PROVE Others
  <2>1. [new_conns[i] EXCEPT !.expired = TRUE] \in NewType
    <3>1. new_conns[i] \in NewType
      BY DEF TypeOK
    <3> QED BY <3>1, Zenon
  <2> QED BY <1>6, <2>1 DEF Expire, TypeOK
<1> QED BY <1>2, <1>3, <1>4, <1>5, <1>6 DEF Clients

\* The loop over the new connections goes on or gives way to the sweep.
LEMMA NextVisitOK ==
  ASSUME TypeOK, NEW i \in NewSlots, Visiting(i), NextVisit
  PROVE  /\ ctl' \in CtlType
         /\ ctl'.at = "visit" => ctl'.i < MaxNewConnections
         /\ ctl'.at = "sweep" => ctl'.i <= N
         /\ ctl'.at # "idle"
<1>1. ctl = [at |-> "visit", i |-> i] /\ i \in 0 .. MaxNewConnections - 1
  BY DEF Visiting, NewSlots
<1>2. CASE i + 1 < MaxNewConnections
  <2>1. ctl' = [at |-> "visit", i |-> i + 1]
    BY <1>1, <1>2 DEF NextVisit
  <2> QED BY <1>1, <1>2, <2>1, Numbers DEF CtlType
<1>3. CASE ~ (i + 1 < MaxNewConnections)
  <2>1. ctl' = [at |-> "sweep", i |-> 0]
    BY <1>1, <1>3 DEF NextVisit
  <2> QED BY <2>1, Numbers DEF CtlType
<1> QED BY <1>2, <1>3

\* The end of a visit that leaves the new connection closed.
LEMMA DropNewOK ==
  ASSUME TypeOK, NEW i \in NewSlots, Visiting(i), new_conns[i].fd # NoFd, DropNew(i)
  PROVE  /\ sock' \in [Fds -> SockType]
         /\ new_conns' \in [NewSlots -> NewType]
         /\ avail_idx' \in 0 .. MaxNewConnections
<1>1. FreeSock \in SockType /\ NoConnYet \in NewType
  BY DEF FreeSock, NoConnYet, SockType, NewType
<1>2. new_conns \in [NewSlots -> NewType] /\ sock \in [Fds -> SockType]
  BY DEF TypeOK, NewType, SockType
<1>3. sock' = [sock EXCEPT ![new_conns[i].fd] = FreeSock]
      /\ new_conns' = [new_conns EXCEPT ![i] = NoConnYet] /\ avail_idx' = i
  BY DEF DropNew
<1>4. i \in 0 .. MaxNewConnections
  BY Numbers DEF NewSlots
<1> QED BY <1>1, <1>2, <1>3, <1>4

\* The steps of PollCtl() and of the polling thread that do not touch the array.
LEMMA ControlIInv ==
  ASSUME IInv,
         \/ Accept \/ Start
         \/ \E i \in NewSlots : SkipNew(i) \/ CloseNew(i) \/ LoginRefused(i)
  PROVE  IInv'
<1> DEFINE Others == /\ UNCHANGED <<grpVars, name, mapped, up, fd, swap, poll>>
                     /\ listening' \in BOOLEAN
                     /\ sock' \in [Fds -> SockType]
                     /\ new_conns' \in [NewSlots -> NewType]
                     /\ avail_idx' \in 0 .. MaxNewConnections
                     /\ ctl' \in CtlType
                     /\ ctl'.at = "visit" => ctl'.i < MaxNewConnections
                     /\ ctl'.at = "sweep" => ctl'.i <= N
                     /\ ctl'.at = "idle" => swap = NoSwap
<1>1. SUFFICES Others
  <2>1. TypeOK'
    BY <1>1 DEF IInv, TypeOK, SockType, NewType, CtlType, grpVars
  <2>2. ControlInv'
    BY <1>1 DEF IInv, ControlInv, grpVars
  <2>3. /\ poll'.at # NoConn => name[poll'.at] # NoName
        /\ poll'.in => name[conns[poll'.i]] # NoName
    BY <1>1 DEF IInv, Claimed
  <2> HIDE DEF IInv
  <2> QED BY <1>1, <2>1, <2>2, <2>3, Untouched
<1>2. /\ TypeOK /\ listening \in BOOLEAN /\ sock \in [Fds -> SockType]
      /\ new_conns \in [NewSlots -> NewType] /\ avail_idx \in 0 .. MaxNewConnections
  BY DEF IInv, TypeOK, SockType, NewType
<1>3. CASE Accept
  <2>1. ctl' = [at |-> "visit", i |-> 0] /\ ctl' \in CtlType
    BY <1>3, Numbers DEF Accept, CtlType
  <2>2. CASE UNCHANGED <<sock, newVars>>
    BY <1>2, <1>3, <2>1, <2>2, Numbers DEF Accept, newVars, connVars
  <2>3. ASSUME NEW f \in Fds, avail_idx # MaxNewConnections,
               sock' = [sock EXCEPT ![f].at = "open"],
               new_conns' = [new_conns EXCEPT ![avail_idx] = [fd |-> f, expired |-> FALSE]],
               avail_idx' = MaxNewConnections
        PROVE  Others
    <3>1. [sock[f] EXCEPT !.at = "open"] \in SockType
      BY <1>2 DEF SockType
    <3>2. [fd |-> f, expired |-> FALSE] \in NewType
      BY DEF NewType
    <3>3. sock' \in [Fds -> SockType] /\ new_conns' \in [NewSlots -> NewType]
      BY <1>2, <2>3, <3>1, <3>2
    <3> QED BY <1>2, <1>3, <2>1, <2>3, <3>3, Numbers DEF Accept, newVars, connVars
  <2> QED BY <1>3, <2>2, <2>3 DEF Accept
<1>4. CASE Start
  BY <1>2, <1>4 DEF Start, IInv, TypeOK, ControlInv, CtlType, newVars, connVars
<1>5. ASSUME NEW i \in NewSlots, SkipNew(i) PROVE Others
  <2>1. avail_idx' \in 0 .. MaxNewConnections
    BY <1>2, <1>5, Numbers DEF SkipNew, NewSlots
  <2> QED BY <1>2, <1>5, <2>1, NextVisitOK DEF SkipNew, newVars, connVars
<1>6. ASSUME NEW i \in NewSlots, Visiting(i), new_conns[i].fd # NoFd, DropNew(i),
             UNCHANGED <<listening, grpVars, connVars, swap, poll>>
      PROVE  Others
  BY <1>2, <1>6, NextVisitOK, DropNewOK DEF DropNew, connVars
<1>7. ASSUME NEW i \in NewSlots, CloseNew(i) PROVE Others
  BY <1>6, <1>7 DEF CloseNew
<1>8. ASSUME NEW i \in NewSlots, LoginRefused(i) PROVE Others
  BY <1>6, <1>8 DEF LoginRefused, LoginAt
<1> QED BY <1>3, <1>4, <1>5, <1>7, <1>8

\* The polling thread.
LEMMA PollIInv ==
  ASSUME IInv, Poll
  PROVE  IInv'
<1> USE DEF IInv
<1>1. UNCHANGED <<listening, sock, newVars, grpVars, connVars, ctl, swap>>
  BY DEF Poll, PollTest, PollVisit, PollDone
<1>2. /\ poll' \in [i : 0 .. N, in : BOOLEAN, at : Pool \cup {NoConn}]
      /\ poll'.at # NoConn => poll'.in /\ name[poll'.at] # NoName
      /\ poll'.in => poll'.i < N /\ name[conns[poll'.i]] # NoName
  <2>1. poll \in [i : 0 .. N, in : BOOLEAN, at : Pool \cup {NoConn}] /\ live_cnt \in 0 .. N
    BY DEF TypeOK
  <2>2. /\ poll.at # NoConn => poll.in /\ name[poll.at] # NoName
        /\ poll.in => poll.i < N /\ name[conns[poll.i]] # NoName
    BY DEF ControlInv, Claimed
  <2>3. CASE PollTest /\ poll.i < live_cnt
    <3>1. poll.i \in Slots /\ poll' = [poll EXCEPT !.in = TRUE]
      BY <2>1, <2>3, Numbers, Places DEF PollTest
    <3>2. name[conns[poll.i]] # NoName
      <4> HIDE DEF IInv
      <4> QED BY <2>3, <3>1, PolledClaimed
    <3>3. poll'.i = poll.i /\ poll'.at = poll.at /\ poll'.in = TRUE
      BY <2>1, <3>1
    <3>4. poll.at = NoConn
      BY <2>2, <2>3 DEF PollTest
    <3>5. poll' \in [i : 0 .. N, in : BOOLEAN, at : Pool \cup {NoConn}]
      BY <2>1, <3>1
    <3>6. poll.i < N
      BY <2>1, <2>3, Numbers
    <3> QED BY <3>2, <3>3, <3>4, <3>5, <3>6
  <2>4. CASE PollTest /\ ~ (poll.i < live_cnt)
    BY <2>4, Numbers DEF PollTest, NotPolling
  <2>5. CASE PollVisit
    <3>1. poll.in /\ poll' = [poll EXCEPT !.at = conns[poll.i]]
      BY <2>5 DEF PollVisit
    <3>2. poll.i \in Slots /\ conns[poll.i] \in Pool
      BY <2>1, <2>2, <3>1, Numbers, Places DEF TypeOK
    <3>3. poll'.i = poll.i /\ poll'.in = poll.in /\ poll'.at = conns[poll.i]
      BY <2>1, <3>1
    <3> QED BY <2>1, <2>2, <3>1, <3>2, <3>3
  <2>6. CASE PollDone
    <3>1. poll.i < N /\ poll' = [i |-> poll.i + 1, in |-> FALSE, at |-> NoConn]
      BY <2>2, <2>6 DEF PollDone, NotPolling
    <3> QED BY <2>1, <3>1, Numbers
  <2> QED BY <2>3, <2>4, <2>5, <2>6 DEF Poll
<1>3. TypeOK'
  BY <1>1, <1>2 DEF TypeOK, newVars, grpVars, connVars
<1>4. ControlInv'
  BY <1>1, <1>2 DEF ControlInv, grpVars
<1> HIDE DEF IInv
<1> QED BY <1>1, <1>2, <1>3, <1>4, Untouched DEF connVars

\* The two stores of a swap bring the array to its settled form and leave that
\* as it was.
LEMMA SwapStores ==
  ASSUME IInv, Swap
  PROVE  /\ swap # NoSwap
         /\ UNCHANGED <<listening, sock, newVars, live_cnt, connVars, ctl, poll>>
         /\ conns' \in [Slots -> Pool]
         /\ swap' \in [i : Slots, j : Slots, tmp : Pool \cup {NoConn}, half : BOOLEAN]
         /\ swap' # NoSwap => swap'.tmp \in Pool /\ swap'.half = TRUE
         /\ Settled' = Settled
         /\ swap' # NoSwap => /\ name[swap'.tmp] # NoName
                              /\ name[conns'[swap'.i]] # NoName
                              /\ name[conns'[swap'.j]] # NoName
<1> USE DEF IInv
<1>1. /\ swap # NoSwap /\ swap.i \in Slots /\ swap.j \in Slots /\ swap.tmp \in Pool
      /\ conns \in [Slots -> Pool] /\ swap.half \in BOOLEAN
      /\ swap \in [i : Slots, j : Slots, tmp : Pool \cup {NoConn}, half : BOOLEAN]
  BY DEF Swap, SwapFirst, SwapSecond, TypeOK, ControlInv
<1>2. UNCHANGED <<listening, sock, newVars, live_cnt, connVars, ctl, poll>>
  BY DEF Swap, SwapFirst, SwapSecond
<1>3. /\ conns' \in [Slots -> Pool]
      /\ swap' \in [i : Slots, j : Slots, tmp : Pool \cup {NoConn}, half : BOOLEAN]
      /\ swap' # NoSwap => swap'.tmp \in Pool /\ swap'.half = TRUE
      /\ Settled' = Settled
      /\ swap' # NoSwap => /\ name[swap'.tmp] # NoName
                           /\ name[conns'[swap'.i]] # NoName
                           /\ name[conns'[swap'.j]] # NoName
  <2>1. CASE SwapFirst
    <3>1. conns' = [conns EXCEPT ![swap.i] = conns[swap.j]] /\ ~ swap.half
          /\ swap' = [swap EXCEPT !.half = TRUE]
      BY <2>1 DEF SwapFirst
    <3>2. conns' \in [Slots -> Pool]
      BY <1>1, <3>1
    <3>3. /\ swap'.i = swap.i /\ swap'.j = swap.j /\ swap'.tmp = swap.tmp /\ swap'.half = TRUE
          /\ swap' \in [i : Slots, j : Slots, tmp : Pool \cup {NoConn}, half : BOOLEAN]
      BY <1>1, <3>1, Zenon
    <3>4. swap' # NoSwap
      BY <1>1, <3>3, Nones DEF NoSwap
    <3>5. Settled' = Settled
      <4>1. Settled = [conns EXCEPT ![swap.i] = conns[swap.j], ![swap.j] = swap.tmp]
        BY <1>1, <3>1 DEF Settled
      <4>2. Settled' = [conns' EXCEPT ![swap.j] = swap.tmp]
        BY <1>1, <3>2, <3>3, <3>4 DEF Settled
      <4> QED BY <1>1, <3>1, <4>1, <4>2
    <3>6. /\ name[swap.tmp] # NoName /\ name[conns[swap.i]] # NoName
          /\ name[conns[swap.j]] # NoName
      BY <1>1 DEF Claimed
    <3> QED BY <1>1, <3>1, <3>2, <3>3, <3>5, <3>6
  <2>2. CASE SwapSecond
    <3>1. conns' = [conns EXCEPT ![swap.j] = swap.tmp] /\ swap.half /\ swap' = NoSwap
      BY <2>2 DEF SwapSecond
    <3>2. conns' \in [Slots -> Pool]
      BY <1>1, <3>1
    <3>3. Settled = [conns EXCEPT ![swap.i] = conns[swap.i], ![swap.j] = swap.tmp]
      BY <1>1, <3>1 DEF Settled
    <3>4. Settled' = conns'
      BY <3>1 DEF Settled
    <3>5. Settled' = Settled
      BY <1>1, <3>1, <3>3, <3>4
    <3>6. NoSwap \in [i : Slots, j : Slots, tmp : Pool \cup {NoConn}, half : BOOLEAN]
      BY Places DEF NoSwap
    <3> QED BY <3>1, <3>2, <3>5, <3>6
  <2> QED BY <2>1, <2>2 DEF Swap
<1> QED BY <1>1, <1>2, <1>3

\* So they keep the invariant.
LEMMA SwapIInv ==
  ASSUME IInv, Swap
  PROVE  IInv'
<1>1. swap # NoSwap
  BY SwapStores
<1>2. UNCHANGED <<listening, sock, newVars, live_cnt, connVars, ctl, poll>>
  BY SwapStores
<1>3. /\ conns' \in [Slots -> Pool]
      /\ swap' \in [i : Slots, j : Slots, tmp : Pool \cup {NoConn}, half : BOOLEAN]
      /\ swap' # NoSwap => swap'.tmp \in Pool /\ swap'.half = TRUE
      /\ Settled' = Settled
      /\ swap' # NoSwap => /\ name[swap'.tmp] # NoName
                           /\ name[conns'[swap'.i]] # NoName
                           /\ name[conns'[swap'.j]] # NoName
  BY SwapStores
<1> USE DEF IInv
<1>4. TypeOK'
  BY <1>2, <1>3 DEF TypeOK, newVars, connVars
<1>5. ControlInv'
  <2>1. ctl.at # "idle"
    BY <1>1 DEF ControlInv
  <2> QED BY <1>2, <1>3, <2>1 DEF ControlInv
<1>6. Placed' /\ Filled' /\ LivePrefix' /\ NamedPrefix' /\ NameUnique'
  BY <1>2, <1>3 DEF Placed, Filled, LivePrefix, NamedPrefix, NameUnique, connVars
<1>7. Claimed'
  <2>1. poll.in => name[conns'[poll.i]] # NoName
    <3> SUFFICES ASSUME poll.in PROVE name[conns'[poll.i]] # NoName
      OBVIOUS
    <3>1. /\ poll.i \in Slots /\ conns \in [Slots -> Pool] /\ swap.i \in Slots /\ swap.j \in Slots
          /\ name[conns[poll.i]] # NoName /\ name[swap.tmp] # NoName
          /\ name[conns[swap.j]] # NoName
      <4>1. poll.i \in 0 .. N /\ poll.i < N
        BY DEF TypeOK, ControlInv
      <4>2. poll.i \in Slots
        BY <4>1, Numbers, Places
      <4>3. conns \in [Slots -> Pool] /\ swap.i \in Slots /\ swap.j \in Slots
        BY DEF TypeOK
      <4> QED BY <1>1, <4>2, <4>3 DEF Claimed
    <3>2. CASE SwapFirst
      BY <3>1, <3>2 DEF SwapFirst
    <3>3. CASE SwapSecond
      BY <3>1, <3>3 DEF SwapSecond
    <3> QED BY <3>2, <3>3 DEF Swap
  <2> QED BY <1>2, <1>3, <2>1 DEF Claimed, connVars
<1> QED BY <1>4, <1>5, <1>6, <1>7

\* An assignment to one element of an array.
LEMMA Assigned ==
  ASSUME NEW D, NEW R, NEW f \in [D -> R], NEW x \in D, NEW v \in R
  PROVE  /\ [f EXCEPT ![x] = v] \in [D -> R]
         /\ [f EXCEPT ![x] = v][x] = v
         /\ \A y \in D : y # x => [f EXCEPT ![x] = v][y] = f[y]
OBVIOUS

\* Naming the connection that Lookup() found keeps the named ones in front and
\* the names unique: no connection behind it has the client's name.
LEMMA ClaimKeeps ==
  ASSUME IInv, swap = NoSwap, NEW client \in Names,
         NEW s, s = Lookup(client), s # N, NEW c, c = conns[s],
         name' = [name EXCEPT ![c] = client]
  PROVE  /\ name' \in [Pool -> Names \cup {NoName}]
         /\ \A d \in Pool : name[d] # NoName => name'[d] # NoName
         /\ \A d \in Pool : d # c => name'[d] = name[d]
         /\ s \in Slots /\ c \in Pool
         /\ \A i \in Slots : i <= s => name'[conns[i]] # NoName
         /\ \A i \in Slots : i > s => name'[conns[i]] = name[conns[i]]
         /\ NameUnique'
<1>1. /\ s \in Slots /\ name[c] \in {NoName, client}
      /\ \A j \in Slots : j < s => name[conns[j]] \notin {NoName, client}
  BY LookupOK
<1>2. /\ conns \in [Slots -> Pool] /\ name \in [Pool -> Names \cup {NoName}]
  BY DEF IInv, TypeOK
<1>3. \A i, j \in Slots : conns[i] = conns[j] => i = j
  BY SettledIs DEF IInv, Placed
<1>4. \A d \in Pool : \E i \in Slots : conns[i] = d
  BY SettledIs DEF IInv, Filled
<1>5. \A i, j \in Slots : i < j /\ name[conns[j]] # NoName => name[conns[i]] # NoName
  BY SettledIs DEF IInv, NamedPrefix
<1>6. c \in Pool /\ s \in Int /\ client # NoName
  BY <1>1, <1>2, Nones, Places
<1>7. name' \in [Pool -> Names \cup {NoName}] /\ name'[c] = client
      /\ \A d \in Pool : d # c => name'[d] = name[d]
  <2>1. client \in Names \cup {NoName}
    OBVIOUS
  <2> QED BY <1>2, <1>6, <2>1, Assigned
<1>8. \A d \in Pool : name[d] = client => d = c
  <2> SUFFICES ASSUME NEW d \in Pool, name[d] = client PROVE d = c
    OBVIOUS
  <2>1. PICK j \in Slots : conns[j] = d
    BY <1>4
  <2>2. ~ (j < s)
    BY <1>1, <2>1
  <2>3. CASE s < j
    <3>1. name[c] # NoName
      BY <1>1, <1>5, <1>6, <2>1, <2>3
    <3>2. name[c] = name[d]
      BY <1>1, <3>1
    <3> QED BY <1>6, <3>1, <3>2 DEF IInv, NameUnique
  <2> QED BY <1>1, <1>6, <2>1, <2>2, <2>3, Places, Numbers
<1>9. NameUnique'
  <2> SUFFICES ASSUME NEW x \in Pool, NEW y \in Pool, name'[x] = name'[y], name'[x] # NoName
               PROVE  x = y
    BY DEF NameUnique
  <2> QED BY <1>7, <1>8 DEF IInv, NameUnique
<1>10. \A i \in Slots : i <= s => name'[conns[i]] # NoName
  <2> SUFFICES ASSUME NEW i \in Slots, i <= s PROVE name'[conns[i]] # NoName
    OBVIOUS
  <2>1. CASE i = s
    BY <1>6, <1>7, <2>1
  <2>2. CASE i < s
    BY <1>1, <1>2, <1>3, <1>6, <1>7, <2>2
  <2> QED BY <1>6, <2>1, <2>2, Places, Numbers
<1>11. \A i \in Slots : i > s => name'[conns[i]] = name[conns[i]]
  <2>1. \A i \in Slots : i > s => conns[i] \in Pool /\ conns[i] # c
    BY <1>1, <1>2, <1>3, <1>6
  <2> QED BY <1>7, <2>1
<1> QED BY <1>1, <1>6, <1>7, <1>9, <1>10, <1>11

\* A login that claims a connection and fails.
LEMMA LoginFailsIInv ==
  ASSUME IInv, NEW i \in NewSlots, LoginFails(i)
  PROVE  IInv'
<1> DEFINE client == sock[new_conns[i].fd].msg
           s == Lookup(client)
           c == conns[s]
<1>1. /\ LoginAt(i) /\ s # N /\ name' = [name EXCEPT ![c] = client] /\ DropNew(i)
      /\ \/ s < live_cnt /\ UNCHANGED mapped
         \/ s >= live_cnt /\ FileErrors /\ UNCHANGED mapped
         \/ s >= live_cnt /\ mapped' = [mapped EXCEPT ![c] = TRUE]
      /\ UNCHANGED <<listening, grpVars, up, fd, swap, poll>>
  BY DEF LoginFails
<1>2. Visiting(i) /\ swap = NoSwap /\ client \in Names /\ new_conns[i].fd # NoFd
  BY <1>1 DEF LoginAt, Visiting
<1> HIDE DEF client, s, c
<1>3. /\ name' \in [Pool -> Names \cup {NoName}]
      /\ \A d \in Pool : name[d] # NoName => name'[d] # NoName
      /\ \A d \in Pool : d # c => name'[d] = name[d]
      /\ s \in Slots /\ c \in Pool
      /\ \A k \in Slots : k <= s => name'[conns[k]] # NoName
      /\ \A k \in Slots : k > s => name'[conns[k]] = name[conns[k]]
      /\ NameUnique'
  BY <1>1, <1>2, ClaimKeeps DEF s, c
<1>4. Settled = conns /\ Settled' = conns /\ conns \in [Slots -> Pool]
  BY <1>1, <1>2 DEF Settled, grpVars, IInv, TypeOK
<1>5. mapped' \in [Pool -> BOOLEAN]
      /\ \A d \in Pool : mapped[d] => mapped'[d]
  <2>1. mapped \in [Pool -> BOOLEAN]
    BY DEF IInv, TypeOK
  <2>2. CASE mapped' = [mapped EXCEPT ![c] = TRUE]
    BY <1>3, <2>1, <2>2, Assigned
  <2> QED BY <1>1, <2>1, <2>2
<1>6. TypeOK'
  <2>1. TypeOK
    BY DEF IInv
  <2>2. /\ sock' \in [Fds -> SockType] /\ new_conns' \in [NewSlots -> NewType]
        /\ avail_idx' \in 0 .. MaxNewConnections /\ ctl' \in CtlType
    BY <1>1, <1>2, <2>1, DropNewOK, NextVisitOK DEF DropNew
  <2> QED BY <1>1, <1>3, <1>5, <2>1, <2>2 DEF TypeOK, SockType, NewType, CtlType, grpVars
<1>7. ControlInv'
  <2>1. TypeOK /\ NextVisit
    BY <1>1 DEF IInv, DropNew
  <2>2. /\ ctl'.at = "visit" => ctl'.i < MaxNewConnections
        /\ ctl'.at = "sweep" => ctl'.i <= N
    BY <1>2, <2>1, NextVisitOK
  <2> QED BY <1>1, <1>2, <2>2 DEF IInv, ControlInv, grpVars
<1>8. Placed' /\ Filled' /\ LivePrefix'
  BY <1>1, <1>4 DEF IInv, Placed, Filled, LivePrefix, grpVars
<1>9. NamedPrefix'
  <2> SUFFICES ASSUME NEW k \in Slots, NEW j \in Slots, k < j, name'[conns[j]] # NoName
               PROVE  name'[conns[k]] # NoName
    BY <1>4 DEF NamedPrefix
  <2>1. CASE k <= s
    BY <1>3, <2>1
  <2>2. CASE k > s
    <3>1. j > s
      BY <1>3, <2>2, Places
    <3>2. name[conns[k]] # NoName
      BY <1>3, <1>4, <3>1 DEF IInv, NamedPrefix
    <3> QED BY <1>3, <1>4, <3>2
  <2> QED BY <1>3, <2>1, <2>2, Places
<1>10. Claimed'
  <2>1. (\A d \in Pool : fd[d] # NoFd => name[d] # NoName)
        /\ (poll.at # NoConn => poll.at \in Pool /\ name[poll.at] # NoName)
        /\ (poll.in => conns[poll.i] \in Pool /\ name[conns[poll.i]] # NoName)
    <3>1. poll.in => poll.i \in Slots
      BY Numbers, Places DEF IInv, TypeOK, ControlInv
    <3> QED BY <3>1 DEF IInv, Claimed, TypeOK
  <2>2. (\A d \in Pool : fd'[d] # NoFd => name'[d] # NoName)
        /\ (poll'.at # NoConn => name'[poll'.at] # NoName)
        /\ (poll'.in => name'[conns'[poll'.i]] # NoName)
    BY <1>1, <1>3, <2>1 DEF grpVars
  <2>3. ASSUME ~ FileErrors, NEW d \in Pool, name'[d] # NoName PROVE mapped'[d]
    <3>1. \A x \in Pool : name[x] # NoName => mapped[x]
      BY <2>3 DEF IInv, Claimed
    <3>2. CASE d # c
      BY <1>3, <1>5, <2>3, <3>1, <3>2
    <3>3. CASE d = c /\ s < live_cnt
      <4>1. fd[c] # NoFd
        BY <1>3, <1>4, <3>3 DEF IInv, LivePrefix, c
      <4> QED BY <1>3, <1>5, <2>1, <3>1, <3>3, <4>1
    <3>4. CASE d = c /\ ~ (s < live_cnt)
      <4>1. mapped' = [mapped EXCEPT ![c] = TRUE] /\ mapped \in [Pool -> BOOLEAN]
        BY <1>1, <2>3, <3>4 DEF IInv, TypeOK
      <4> QED BY <1>3, <3>4, <4>1, Assigned
    <3> QED BY <3>2, <3>3, <3>4
  <2> QED BY <1>1, <1>2, <2>2, <2>3 DEF Claimed
<1> QED BY <1>3, <1>6, <1>7, <1>8, <1>9, <1>10 DEF IInv

\* A swap that begins: in its settled form the array has two places exchanged
\* and is still a permutation of the pool.
LEMMA SwapBegins ==
  ASSUME TypeOK, Placed, Filled, swap = NoSwap, NEW a \in Slots, NEW b \in Slots,
         conns' = conns, swap' = [i |-> a, j |-> b, tmp |-> conns[a], half |-> FALSE]
  PROVE  /\ swap' # NoSwap
         /\ swap' \in [i : Slots, j : Slots, tmp : Pool \cup {NoConn}, half : BOOLEAN]
         /\ swap'.tmp \in Pool /\ swap'.tmp = conns'[swap'.i]
         /\ \A k \in Slots : Settled'[k] =
              IF k = b THEN conns[a] ELSE IF k = a THEN conns[b] ELSE conns[k]
         /\ Placed' /\ Filled'
<1>1. conns \in [Slots -> Pool] /\ conns[a] \in Pool
  BY DEF TypeOK
<1>2. /\ swap'.i = a /\ swap'.j = b /\ swap'.tmp = conns[a] /\ swap'.half = FALSE
      /\ swap' \in [i : Slots, j : Slots, tmp : Pool \cup {NoConn}, half : BOOLEAN]
  BY <1>1
<1>3. swap' # NoSwap
  BY <1>1, <1>2, Nones DEF NoSwap
<1>4. Settled' = [conns EXCEPT ![a] = conns[b], ![b] = conns[a]]
  BY <1>2, <1>3 DEF Settled
<1>5. \A k \in Slots : Settled'[k] =
        IF k = b THEN conns[a] ELSE IF k = a THEN conns[b] ELSE conns[k]
  BY <1>1, <1>4
<1>6. \A x, y \in Slots : conns[x] = conns[y] => x = y
  BY SettledIs DEF Placed
<1>7. Placed'
  BY <1>1, <1>5, <1>6 DEF Placed
<1>8. Filled'
  <2> SUFFICES ASSUME NEW d \in Pool PROVE \E k \in Slots : Settled'[k] = d
    BY DEF Filled
  <2>1. PICK x \in Slots : conns[x] = d
    BY SettledIs DEF Filled
  <2> QED BY <1>5, <2>1
<1> QED BY <1>1, <1>2, <1>3, <1>5, <1>7, <1>8

\* A login that succeeds: the client's connection changes places with the first
\* one that is not live, all of them up to its old place being claimed.
LEMMA LoginOkIInv ==
  ASSUME IInv, NEW i \in NewSlots, LoginOk(i)
  PROVE  IInv'
<1> DEFINE f == new_conns[i].fd
           client == sock[f].msg
           s == Lookup(client)
           c == conns[s]
<1>1. /\ LoginAt(i) /\ s # N /\ s >= live_cnt
      /\ name' = [name EXCEPT ![c] = client]
      /\ mapped' = [mapped EXCEPT ![c] = TRUE]
      /\ up' = [up EXCEPT ![c] = TRUE]
      /\ fd' = [fd EXCEPT ![c] = f]
      /\ new_conns' = [new_conns EXCEPT ![i] = NoConnYet]
      /\ avail_idx' = i
      /\ live_cnt' = live_cnt + 1
      /\ swap' = [i |-> s, j |-> live_cnt, tmp |-> c, half |-> FALSE]
      /\ NextVisit
      /\ UNCHANGED <<listening, sock, conns, poll>>
  BY DEF LoginOk
<1>2. Visiting(i) /\ swap = NoSwap /\ client \in Names /\ f # NoFd
  BY <1>1 DEF LoginAt, Visiting
<1>3. /\ TypeOK /\ conns \in [Slots -> Pool] /\ live_cnt \in 0 .. N
      /\ new_conns \in [NewSlots -> NewType] /\ fd \in [Pool -> Fds \cup {NoFd}]
      /\ mapped \in [Pool -> BOOLEAN] /\ up \in [Pool -> BOOLEAN]
  BY DEF IInv, TypeOK, NewType
<1>4. f \in Fds \cup {NoFd}
  BY <1>3 DEF NewType
<1> HIDE DEF client, s, c, f
<1>5. /\ name' \in [Pool -> Names \cup {NoName}]
      /\ \A d \in Pool : name[d] # NoName => name'[d] # NoName
      /\ \A d \in Pool : d # c => name'[d] = name[d]
      /\ s \in Slots /\ c \in Pool
      /\ \A k \in Slots : k <= s => name'[conns[k]] # NoName
      /\ \A k \in Slots : k > s => name'[conns[k]] = name[conns[k]]
      /\ NameUnique'
  BY <1>1, <1>2, ClaimKeeps DEF s, c
<1>6. live_cnt \in Slots /\ live_cnt <= s /\ live_cnt' \in 0 .. N
  <2>1. s # N /\ s >= live_cnt /\ live_cnt' = live_cnt + 1
    BY <1>1
  <2>2. live_cnt \in 0 .. N /\ s \in Slots
    BY <1>3, <1>5
  <2> QED BY <2>1, <2>2, Places, Numbers
<1>7. /\ swap' # NoSwap
      /\ swap' \in [i : Slots, j : Slots, tmp : Pool \cup {NoConn}, half : BOOLEAN]
      /\ swap'.tmp \in Pool /\ swap'.tmp = conns'[swap'.i]
      /\ \A k \in Slots : Settled'[k] =
           IF k = live_cnt THEN c ELSE IF k = s THEN conns[live_cnt] ELSE conns[k]
      /\ Placed' /\ Filled'
  <2>1. swap' = [i |-> s, j |-> live_cnt, tmp |-> conns[s], half |-> FALSE] /\ conns' = conns
    BY <1>1 DEF c
  <2>2. Placed /\ Filled /\ c = conns[s]
    BY DEF IInv, c
  <2> QED BY <1>2, <1>3, <1>5, <1>6, <2>1, <2>2, SwapBegins
<1>8. /\ mapped' \in [Pool -> BOOLEAN] /\ mapped'[c] = TRUE
      /\ \A d \in Pool : d # c => mapped'[d] = mapped[d]
      /\ up' \in [Pool -> BOOLEAN]
      /\ fd' \in [Pool -> Fds \cup {NoFd}] /\ fd'[c] = f
      /\ \A d \in Pool : d # c => fd'[d] = fd[d]
  <2>1. mapped' \in [Pool -> BOOLEAN] /\ mapped'[c] = TRUE
        /\ \A d \in Pool : d # c => mapped'[d] = mapped[d]
    BY <1>1, <1>3, <1>5, Assigned
  <2>2. up' \in [Pool -> BOOLEAN]
    BY <1>1, <1>3, <1>5, Assigned
  <2>3. fd' \in [Pool -> Fds \cup {NoFd}] /\ fd'[c] = f
        /\ \A d \in Pool : d # c => fd'[d] = fd[d]
    BY <1>1, <1>3, <1>4, <1>5, Assigned
  <2> QED BY <2>1, <2>2, <2>3
<1>9. TypeOK'
  <2>1. NoConnYet \in NewType
    BY DEF NoConnYet, NewType
  <2>2. new_conns' \in [NewSlots -> NewType]
    BY <1>1, <1>3, <2>1, Assigned
  <2>3. avail_idx' \in 0 .. MaxNewConnections /\ ctl' \in CtlType
    BY <1>1, <1>2, <1>3, NextVisitOK, Numbers DEF NewSlots
  <2> QED BY <1>1, <1>3, <1>5, <1>6, <1>7, <1>8, <2>2, <2>3 DEF TypeOK, NewType, CtlType
<1>10. ControlInv'
  <2>1. /\ ctl'.at = "visit" => ctl'.i < MaxNewConnections
        /\ ctl'.at = "sweep" => ctl'.i <= N
        /\ ctl'.at # "idle"
    BY <1>1, <1>2, <1>3, NextVisitOK
  <2> QED BY <1>1, <1>7, <2>1 DEF IInv, ControlInv
<1>11. \A x, y \in Slots : conns[x] = conns[y] => x = y
  BY <1>2, <1>3, SettledIs DEF IInv, Placed
<1>12. LivePrefix'
  <2> SUFFICES ASSUME NEW k \in Slots
               PROVE  k < live_cnt + 1 <=> fd'[Settled'[k]] # NoFd
    BY <1>1 DEF LivePrefix
  <2>1. \A x \in Slots : x < live_cnt <=> fd[conns[x]] # NoFd
    BY <1>2, <1>3, SettledIs DEF IInv, LivePrefix
  <2>2. \A x \in Slots : x # s => conns[x] \in Pool /\ conns[x] # c
    BY <1>3, <1>5, <1>11 DEF c
  <2>3. CASE k = live_cnt
    BY <1>2, <1>6, <1>7, <1>8, <2>3, Places
  <2>4. CASE k = s /\ k # live_cnt
    BY <1>3, <1>6, <1>7, <1>8, <2>1, <2>2, <2>4, Places
  <2>5. CASE k # s /\ k # live_cnt
    BY <1>3, <1>6, <1>7, <1>8, <2>1, <2>2, <2>5, Places
  <2> QED BY <2>3, <2>4, <2>5
<1>13. NamedPrefix'
  <2> SUFFICES ASSUME NEW k \in Slots, NEW j \in Slots, k < j, name'[Settled'[j]] # NoName
               PROVE  name'[Settled'[k]] # NoName
    BY DEF NamedPrefix
  <2>1. CASE k <= s
    <3>1. Settled'[k] \in {c, conns[live_cnt], conns[k]} /\ c = conns[s]
      BY <1>7 DEF c
    <3> QED BY <1>5, <1>6, <2>1, <3>1, Places
  <2>2. CASE k > s
    <3>1. j > s /\ Settled'[k] = conns[k] /\ Settled'[j] = conns[j]
      BY <1>5, <1>6, <1>7, <2>2, Places
    <3>2. name[conns[k]] # NoName
      BY <1>2, <1>3, <1>5, <3>1, SettledIs DEF IInv, NamedPrefix
    <3> QED BY <1>3, <1>5, <3>1, <3>2
  <2> QED BY <1>5, <2>1, <2>2, Places
<1>14. Claimed'
  <2>1. (\A d \in Pool : fd[d] # NoFd => name[d] # NoName)
        /\ (poll.at # NoConn => poll.at \in Pool /\ name[poll.at] # NoName)
        /\ (poll.in => conns[poll.i] \in Pool /\ name[conns[poll.i]] # NoName)
    <3>1. poll.in => poll.i \in Slots
      BY Numbers, Places DEF IInv, TypeOK, ControlInv
    <3> QED BY <3>1 DEF IInv, Claimed, TypeOK
  <2>2. name'[c] # NoName /\ name'[conns[live_cnt]] # NoName
    BY <1>5, <1>6, Places DEF c
  <2>3. (\A d \in Pool : fd'[d] # NoFd => name'[d] # NoName)
        /\ (poll'.at # NoConn => name'[poll'.at] # NoName)
        /\ (poll'.in => name'[conns'[poll'.i]] # NoName)
    BY <1>1, <1>5, <1>8, <2>1, <2>2
  <2>4. /\ name'[swap'.tmp] # NoName /\ name'[conns'[swap'.i]] # NoName
        /\ name'[conns'[swap'.j]] # NoName
    BY <1>1, <2>2 DEF c
  <2>5. ASSUME ~ FileErrors, NEW d \in Pool, name'[d] # NoName PROVE mapped'[d]
    <3>1. \A x \in Pool : name[x] # NoName => mapped[x]
      BY <2>5 DEF IInv, Claimed
    <3> QED BY <1>5, <1>8, <2>5, <3>1
  <2> QED BY <2>3, <2>4, <2>5 DEF Claimed
<1> QED BY <1>5, <1>7, <1>9, <1>10, <1>12, <1>13, <1>14 DEF IInv

\* The sweep: a closed connection changes places with the last live one.
LEMMA SweepIInv ==
  ASSUME IInv, Sweep
  PROVE  IInv'
<1> DEFINE c == conns[ctl.i]
           last == live_cnt - 1
<1>1. /\ TypeOK /\ conns \in [Slots -> Pool] /\ live_cnt \in 0 .. N
      /\ fd \in [Pool -> Fds \cup {NoFd}] /\ sock \in [Fds -> SockType] /\ ctl \in CtlType
  BY DEF IInv, TypeOK, SockType, CtlType
<1>2. /\ ctl.at = "sweep" /\ swap = NoSwap
      /\ UNCHANGED <<listening, newVars, conns, name, mapped, up, poll>>
  BY DEF Sweep
<1>3. CASE UNCHANGED <<sock, live_cnt, fd, swap>>
  <2>1. /\ ctl' \in CtlType
        /\ ctl'.at = "sweep" => ctl'.i <= N
        /\ ctl'.at # "visit"
    <3>1. CASE ctl' = Idle
      BY <3>1, Numbers DEF Idle, CtlType
    <3>2. CASE ctl.i < live_cnt /\ ctl' = [ctl EXCEPT !.i = @ + 1]
      <4>1. ctl.i + 1 \in 0 .. N + MaxNewConnections /\ ctl.i + 1 <= N
        BY <1>1, <3>2, Numbers DEF CtlType
      <4> QED BY <1>1, <1>2, <3>2, <4>1 DEF CtlType
    <3>3. CASE ctl' = ctl
      BY <1>1, <1>2, <3>3 DEF IInv, ControlInv
    <3>4. ctl.i \in Int /\ live_cnt \in Int
      BY <1>1, Numbers DEF CtlType
    <3> QED BY <3>1, <3>2, <3>3, <3>4 DEF Sweep
  <2>2. TypeOK'
    BY <1>1, <1>2, <1>3, <2>1 DEF TypeOK, CtlType, newVars
  <2>3. ControlInv'
    BY <1>2, <1>3, <2>1 DEF IInv, ControlInv
  <2>4. /\ poll'.at # NoConn => name[poll'.at] # NoName
        /\ poll'.in => name[conns[poll'.i]] # NoName
    BY <1>2 DEF IInv, Claimed
  <2> QED BY <1>2, <1>3, <2>2, <2>3, <2>4, Untouched DEF grpVars
<1>4. CASE /\ ctl.i < live_cnt /\ ~ up[c] /\ fd[c] # NoFd
           /\ sock' = [sock EXCEPT ![fd[c]] = FreeSock]
           /\ fd' = [fd EXCEPT ![c] = NoFd]
           /\ live_cnt' = last
           /\ swap' = [i |-> ctl.i, j |-> last, tmp |-> c, half |-> FALSE]
           /\ ctl' = ctl
  <2>1. /\ ctl.i \in Slots /\ last \in Slots /\ ctl.i <= last /\ live_cnt' \in 0 .. N
        /\ c \in Pool /\ fd[c] \in Fds
    <3>1. ctl.i \in Slots /\ last \in Slots /\ ctl.i <= last /\ live_cnt' \in 0 .. N
      BY <1>1, <1>4, Places, Numbers DEF CtlType
    <3> QED BY <1>1, <1>4, <3>1
  <2>2. /\ swap' # NoSwap
        /\ swap' \in [i : Slots, j : Slots, tmp : Pool \cup {NoConn}, half : BOOLEAN]
        /\ swap'.tmp \in Pool /\ swap'.tmp = conns'[swap'.i]
        /\ \A k \in Slots : Settled'[k] =
             IF k = last THEN c ELSE IF k = ctl.i THEN conns[last] ELSE conns[k]
        /\ Placed' /\ Filled'
    <3>1. Placed /\ Filled /\ conns' = conns
      BY <1>2 DEF IInv
    <3> HIDE DEF last
    <3> QED BY <1>1, <1>2, <1>4, <2>1, <3>1, SwapBegins
  <2>3. /\ fd' \in [Pool -> Fds \cup {NoFd}] /\ fd'[c] = NoFd
        /\ \A d \in Pool : d # c => fd'[d] = fd[d]
    <3> HIDE DEF c
    <3> QED BY <1>1, <1>4, <2>1, Assigned
  <2>4. sock' \in [Fds -> SockType]
    <3>1. FreeSock \in SockType
      BY DEF FreeSock, SockType
    <3> HIDE DEF c
    <3> QED BY <1>1, <1>4, <2>1, <3>1, Assigned
  <2>5. TypeOK'
    BY <1>1, <1>2, <1>4, <2>1, <2>2, <2>3, <2>4 DEF TypeOK, SockType, newVars
  <2>6. ControlInv'
    BY <1>2, <1>4, <2>2 DEF IInv, ControlInv
  <2>7. \A x \in Slots : x <= last <=> fd[conns[x]] # NoFd
    <3>1. \A x \in Slots : x < live_cnt <=> fd[conns[x]] # NoFd
      BY <1>1, <1>2, SettledIs DEF IInv, LivePrefix
    <3>2. \A x \in Slots : x <= last <=> x < live_cnt
      BY <1>1, Places, Numbers
    <3> QED BY <3>1, <3>2
  <2>8. \A x \in Slots : x # ctl.i => conns[x] \in Pool /\ conns[x] # c
    BY <1>1, <1>2, <2>1, SettledIs DEF IInv, Placed
  <2>9. LivePrefix'
    <3> SUFFICES ASSUME NEW k \in Slots
                 PROVE  k < last <=> fd'[Settled'[k]] # NoFd
      BY <1>4 DEF LivePrefix
    <3> HIDE DEF last, c
    <3>1. CASE k = last
      BY <2>1, <2>2, <2>3, <3>1, Places
    <3>2. CASE k = ctl.i /\ k # last
      <4>1. Settled'[k] = conns[last] /\ last # ctl.i /\ k < last
        BY <2>1, <2>2, <3>2, Places
      <4> QED BY <2>1, <2>3, <2>7, <2>8, <4>1, Places
    <3>3. CASE k # ctl.i /\ k # last
      <4>1. Settled'[k] = conns[k]
        BY <2>2, <3>3
      <4>2. fd'[conns[k]] = fd[conns[k]]
        BY <2>3, <2>8, <3>3
      <4>3. k < last <=> k <= last
        BY <2>1, <3>3, Places
      <4> QED BY <2>7, <4>1, <4>2, <4>3
    <3> QED BY <3>1, <3>2, <3>3
  <2>10. \A x \in Slots : x <= last => name[conns[x]] # NoName
    BY <1>1, <2>7 DEF IInv, Claimed
  <2>11. NamedPrefix'
    <3> SUFFICES ASSUME NEW k \in Slots, NEW j \in Slots, k < j, name[Settled'[j]] # NoName
                 PROVE  name[Settled'[k]] # NoName
      BY <1>2 DEF NamedPrefix
    <3>1. CASE k <= last
      <4>1. Settled'[k] \in {conns[ctl.i], conns[last], conns[k]}
        BY <2>2
      <4> QED BY <2>1, <2>10, <3>1, <4>1, Places
    <3>2. CASE k > last
      <4>1. Settled'[k] = conns[k] /\ Settled'[j] = conns[j]
        BY <2>1, <2>2, <3>2, Places
      <4> QED BY <1>1, <1>2, <4>1, SettledIs DEF IInv, NamedPrefix
    <3> QED BY <2>1, <3>1, <3>2, Places
  <2>12. NameUnique'
    BY <1>2 DEF IInv, NameUnique
  <2>13. Claimed'
    <3>1. /\ \A d \in Pool : fd'[d] # NoFd => name'[d] # NoName
      BY <1>2, <2>3 DEF IInv, Claimed
    <3>2. /\ name'[swap'.tmp] # NoName /\ name'[conns'[swap'.i]] # NoName
          /\ name'[conns'[swap'.j]] # NoName
      BY <1>2, <1>4, <2>1, <2>10, Places
    <3>3. /\ poll'.at # NoConn => name'[poll'.at] # NoName
          /\ poll'.in => name'[conns'[poll'.i]] # NoName
          /\ FileErrors \/ \A d \in Pool : name'[d] # NoName => mapped'[d]
      BY <1>2 DEF IInv, Claimed
    <3> QED BY <3>1, <3>2, <3>3 DEF Claimed
  <2> QED BY <2>2, <2>5, <2>6, <2>9, <2>11, <2>12, <2>13 DEF IInv
<1>5. ctl.i \in Int /\ live_cnt \in Int
  BY <1>1, Numbers DEF CtlType
<1> QED BY <1>3, <1>4, <1>5 DEF Sweep

\* Stop(): every connection is released, in the place where it is.
LEMMA StopIInv ==
  ASSUME IInv, Stop
  PROVE  IInv'
<1>1. swap = NoSwap /\ conns \in [Slots -> Pool] /\ TypeOK
  BY DEF Stop, IInv, ControlInv, TypeOK, Idle
<1>2. Settled = conns /\ Settled' = conns
  BY <1>1 DEF Stop, Settled
<1>3. TypeOK'
  <2>1. FreeSock \in SockType /\ NoConnYet \in NewType
    BY DEF FreeSock, NoConnYet, SockType, NewType
  <2>2. /\ sock' \in [Fds -> SockType] /\ new_conns' \in [NewSlots -> NewType]
        /\ avail_idx' \in 0 .. MaxNewConnections /\ live_cnt' \in 0 .. N
    BY <2>1, Numbers DEF Stop
  <2>3. /\ listening' \in BOOLEAN
        /\ name' \in [Pool -> Names \cup {NoName}] /\ mapped' \in [Pool -> BOOLEAN]
        /\ up' \in [Pool -> BOOLEAN] /\ fd' \in [Pool -> Fds \cup {NoFd}]
    BY Zenon DEF Stop
  <2> QED BY <1>1, <2>2, <2>3 DEF Stop, TypeOK, SockType, NewType
<1>4. ControlInv'
  BY <1>1 DEF IInv, ControlInv, Stop
<1>5. Placed' /\ Filled'
  BY <1>2 DEF IInv, Placed, Filled
<1>6. LivePrefix' /\ NamedPrefix' /\ NameUnique'
  BY <1>1, <1>2, Places DEF Stop, LivePrefix, NamedPrefix, NameUnique
<1>7. Claimed'
  BY <1>1, Zenon DEF Stop, Claimed, NotPolling
<1> QED BY <1>3, <1>4, <1>5, <1>6, <1>7 DEF IInv

-----------------------------------------------------------------------------
(* The theorems.                                                           *)

\* Every step keeps the invariant.
LEMMA NextIInv ==
  ASSUME IInv, [Next]_vars
  PROVE  IInv'
<1>1. CASE UNCHANGED vars
  <2>1. Settled' = Settled
    BY <1>1 DEF Settled, vars, grpVars
  <2>2. TypeOK' /\ ControlInv'
    BY <1>1 DEF IInv, TypeOK, ControlInv, vars, newVars, grpVars, connVars
  <2>3. /\ poll'.at # NoConn => name[poll'.at] # NoName
        /\ poll'.in => name[conns[poll'.i]] # NoName
    BY <1>1 DEF IInv, Claimed, vars
  <2> QED BY <1>1, <2>2, <2>3, Untouched DEF vars, connVars
<1>2. ASSUME NEW i \in NewSlots, VisitNew(i) PROVE IInv'
  BY <1>2, ControlIInv, LoginFailsIInv, LoginOkIInv DEF VisitNew
<1>3. CASE PollCtl
  BY <1>2, <1>3, ControlIInv, SwapIInv, SweepIInv DEF PollCtl
<1> QED BY <1>1, <1>3, ClientsIInv, PollIInv, StopIInv, ControlIInv DEF Next

\* IInv holds in every state of the server.
THEOREM InvariantHolds == Spec => []IInv
<1>1. Init => IInv
  BY InitIInv
<1>2. IInv /\ [Next]_vars => IInv'
  BY NextIInv
<1> QED BY <1>1, <1>2, PTL DEF Spec

\* The variables of the server keep their types: no index of a loop or of
\* avail_idx_ leaves its array, whatever PollCtl() and the polling thread do.
THEOREM TypeCorrect == Spec => []TypeOK
<1>1. IInv => TypeOK
  BY DEF IInv
<1> QED BY <1>1, InvariantHolds, PTL

\* HandleLogin() never gives one client two connections, so that no two map the
\* same queue file.
THEOREM OneConnectionPerName == Spec => []NameUnique
<1>1. IInv => NameUnique
  BY DEF IInv
<1> QED BY <1>1, InvariantHolds, PTL

\* The array is a permutation of the pool with the live connections first and
\* the claimed ones first, through every swap of PollCtl().
THEOREM GroupInOrder == Spec => [](Placed /\ LivePrefix /\ NamedPrefix)
<1>1. IInv => Placed /\ LivePrefix /\ NamedPrefix
  BY DEF IInv
<1> QED BY <1>1, InvariantHolds, PTL

\* The polling thread never visits a connection that no client has claimed, with
\* the test of live_cnt, the load of conns[i] and the two stores of std::swap()
\* interleaved in any order, and OpenFile() failing at any login.
THEOREM PollsClaimed == Spec => []PolledIsClaimed
<1>1. IInv => PolledIsClaimed
  BY DEF IInv, Claimed, PolledIsClaimed
<1> QED BY <1>1, InvariantHolds, PTL

\* If OpenFile() never fails, PollShm() never visits a connection without a
\* queue, also between live_cnt++ and the stores of std::swap().
THEOREM PollsMapped == ASSUME FileErrors = FALSE PROVE Spec => []PolledIsMapped
<1>1. IInv => PolledIsMapped
  BY DEF IInv, TypeOK, Claimed, PolledIsMapped
<1> QED BY <1>1, InvariantHolds, PTL

\* No connection of the pool is lost or doubled in the array by a swap.
THEOREM PlacedOnce == Spec => []Placed
<1>1. IInv => Placed
  BY DEF IInv
<1> QED BY <1>1, InvariantHolds, PTL

\* A lookup that stops at an unused connection has passed all the claimed ones.
THEOREM ClaimedFirst == Spec => []NamedPrefix
<1>1. IInv => NamedPrefix
  BY DEF IInv
<1> QED BY <1>1, InvariantHolds, PTL

-----------------------------------------------------------------------------
(* Who owns a socket.                                                      *)

\* Each accepted socket is in one place, and avail_idx_ is a place without one.
OneOwner ==
  /\ \A i \in NewSlots : new_conns[i].fd # NoFd => sock[new_conns[i].fd].at = "open"
  /\ \A c \in Pool : fd[c] # NoFd => sock[fd[c]].at = "open"
  /\ \A f \in Fds : sock[f].at = "open" =>
       (\E i \in NewSlots : new_conns[i].fd = f) \/ (\E c \in Pool : fd[c] = f)
  /\ \A i, j \in NewSlots : new_conns[i].fd # NoFd /\ new_conns[i].fd = new_conns[j].fd => i = j
  /\ \A c, d \in Pool : fd[c] # NoFd /\ fd[c] = fd[d] => c = d
  /\ \A i \in NewSlots, c \in Pool : fd[c] # NoFd => new_conns[i].fd # fd[c]
  /\ avail_idx # MaxNewConnections => new_conns[avail_idx].fd = NoFd


\* The types that matter for it.
LEMMA OwnerTypes ==
  ASSUME IInv
  PROVE  /\ sock \in [Fds -> SockType] /\ new_conns \in [NewSlots -> NewType]
         /\ \A i \in NewSlots : new_conns[i].fd \in Fds \cup {NoFd}
         /\ fd \in [Pool -> Fds \cup {NoFd}] /\ conns \in [Slots -> Pool]
         /\ NewSlots = 0 .. MaxNewConnections - 1 /\ avail_idx \in 0 .. MaxNewConnections
         /\ NoFd \notin Fds
BY Nones DEF IInv, TypeOK, SockType, NewType, NewSlots

\* A step that moves no socket keeps the owners.
LEMMA OwnersKept ==
  ASSUME IInv, OneOwner, UNCHANGED fd,
         \A i \in NewSlots : new_conns'[i].fd = new_conns[i].fd,
         \A f \in Fds : sock'[f].at = "open" <=> sock[f].at = "open",
         \/ UNCHANGED avail_idx
         \/ avail_idx' \in NewSlots /\ new_conns[avail_idx'].fd = NoFd
  PROVE  OneOwner'
<1>1. avail_idx' # MaxNewConnections => new_conns'[avail_idx'].fd = NoFd
  BY OwnerTypes, Numbers DEF OneOwner
<1> QED BY <1>1, OwnerTypes DEF OneOwner

\* DropNew(): the socket that is closed is only in the slot that is cleared.
LEMMA DropNewOwners ==
  ASSUME IInv, OneOwner, NEW i \in NewSlots, new_conns[i].fd # NoFd, DropNew(i), UNCHANGED fd
  PROVE  OneOwner'
<1>1. PICK f \in Fds : f = new_conns[i].fd
  BY OwnerTypes
<1>2. /\ sock' = [sock EXCEPT ![f] = FreeSock]
      /\ new_conns' = [new_conns EXCEPT ![i] = NoConnYet]
      /\ avail_idx' = i
  BY <1>1 DEF DropNew
<1>3. /\ new_conns'[i].fd = NoFd /\ \A j \in NewSlots : j # i => new_conns'[j] = new_conns[j]
      /\ sock'[f].at # "open" /\ \A g \in Fds : g # f => sock'[g] = sock[g]
  BY <1>1, <1>2, OwnerTypes DEF NoConnYet, FreeSock
<1>4. /\ \A j \in NewSlots : j # i => new_conns[j].fd # f
      /\ \A c \in Pool : fd[c] # f
  BY <1>1, OwnerTypes DEF OneOwner
<1> QED BY <1>1, <1>2, <1>3, <1>4, OwnerTypes DEF OneOwner

\* Accept() puts the socket into a slot that was free.
LEMMA AcceptOwners ==
  ASSUME IInv, OneOwner, Accept
  PROVE  OneOwner'
<1>1. CASE UNCHANGED <<sock, newVars>>
  BY <1>1, OwnersKept DEF Accept, newVars, connVars
<1>2. CASE avail_idx # MaxNewConnections /\ \E f \in Fds : sock[f].at = "queued"
  <2>1. PICK f \in Fds : /\ sock[f].at = "queued"
                         /\ sock' = [sock EXCEPT ![f].at = "open"]
                         /\ new_conns' = [new_conns EXCEPT ![avail_idx] = [fd |-> f, expired |-> FALSE]]
                         /\ avail_idx' = MaxNewConnections /\ UNCHANGED fd
    BY <1>2 DEF Accept, connVars
  <2>2. PICK i \in NewSlots : i = avail_idx /\ new_conns[i].fd = NoFd
    BY <1>2, OwnerTypes, Numbers DEF OneOwner
  <2>3. /\ new_conns'[i].fd = f /\ \A j \in NewSlots : j # i => new_conns'[j] = new_conns[j]
    BY <2>1, <2>2, OwnerTypes
  <2>4. sock'[f].at = "open" /\ \A g \in Fds : g # f => sock'[g] = sock[g]
    BY <2>1, OwnerTypes DEF SockType
  <2>5. /\ \A j \in NewSlots : new_conns[j].fd # f
        /\ \A c \in Pool : fd[c] # f
    BY <2>1, OwnerTypes DEF OneOwner
  <2> QED BY <2>1, <2>2, <2>3, <2>4, <2>5, OwnerTypes DEF OneOwner
<1> QED BY <1>1, <1>2 DEF Accept

\* A login that succeeds hands the socket from its slot to a connection that had
\* none.
LEMMA LoginOkOwners ==
  ASSUME IInv, OneOwner, NEW i \in NewSlots, LoginOk(i)
  PROVE  OneOwner'
<1>1. PICK f \in Fds : f = new_conns[i].fd
  BY OwnerTypes DEF LoginOk, LoginAt
<1>2. PICK s \in Slots : s = Lookup(sock[f].msg) /\ s >= live_cnt
  BY <1>1, LookupOK DEF LoginOk
<1>3. PICK c \in Pool : c = conns[s] /\ fd[c] = NoFd
  <2>1. Settled = conns /\ LivePrefix
    BY DEF LoginOk, LoginAt, Visiting, Settled, IInv
  <2>2. live_cnt \in Int /\ s \in Int /\ ~ (s < live_cnt)
    BY <1>2, Places, Numbers DEF IInv, TypeOK
  <2>3. ~ (fd[conns[s]] # NoFd)
    BY <2>1, <2>2 DEF LivePrefix
  <2> QED BY <2>3, OwnerTypes
<1>4. /\ fd' = [fd EXCEPT ![c] = f]
      /\ new_conns' = [new_conns EXCEPT ![i] = NoConnYet]
      /\ avail_idx' = i /\ UNCHANGED sock
  BY <1>1, <1>2, <1>3 DEF LoginOk
<1>5. /\ new_conns'[i].fd = NoFd /\ \A j \in NewSlots : j # i => new_conns'[j] = new_conns[j]
      /\ fd'[c] = f /\ \A d \in Pool : d # c => fd'[d] = fd[d]
  BY <1>4, OwnerTypes DEF NoConnYet
<1>6. /\ \A j \in NewSlots : j # i => new_conns[j].fd # f
      /\ \A d \in Pool : fd[d] # f
      /\ sock[f].at = "open"
  BY <1>1, OwnerTypes DEF OneOwner
<1>7. ASSUME NEW g \in Fds, sock'[g].at = "open"
      PROVE  (\E j \in NewSlots : new_conns'[j].fd = g) \/ (\E d \in Pool : fd'[d] = g)
  <2>1. CASE g = f
    BY <1>5, <2>1
  <2>2. CASE g # f
    <3>1. (\E j \in NewSlots : new_conns[j].fd = g) \/ (\E d \in Pool : fd[d] = g)
      BY <1>4, <1>7 DEF OneOwner
    <3> QED BY <1>1, <1>3, <1>5, <2>2, <3>1, OwnerTypes
  <2> QED BY <2>1, <2>2
<1>8. \A j \in NewSlots, d \in Pool : fd'[d] # NoFd => new_conns'[j].fd # fd'[d]
  BY <1>5, <1>6, OwnerTypes DEF OneOwner
<1>9. /\ \A j, k \in NewSlots : new_conns'[j].fd # NoFd /\ new_conns'[j].fd = new_conns'[k].fd => j = k
      /\ \A d, e \in Pool : fd'[d] # NoFd /\ fd'[d] = fd'[e] => d = e
  BY <1>5, <1>6, OwnerTypes DEF OneOwner
<1> QED BY <1>4, <1>5, <1>6, <1>7, <1>8, <1>9, OwnerTypes DEF OneOwner

\* The sweep closes a socket that only this connection had.
LEMMA SweepOwners ==
  ASSUME IInv, OneOwner, Sweep
  PROVE  OneOwner'
<1>1. CASE UNCHANGED <<sock, fd>>
  BY <1>1, OwnersKept DEF Sweep, newVars
<1>2. CASE ctl.i < live_cnt /\ fd[conns[ctl.i]] # NoFd /\ ~ up[conns[ctl.i]]
  <2>1. ctl.i \in Slots
    BY <1>2, Places, Numbers DEF IInv, TypeOK
  <2>2. PICK c \in Pool : c = conns[ctl.i] /\ fd[c] # NoFd
    BY <1>2, <2>1, OwnerTypes
  <2>3. PICK f \in Fds : f = fd[c]
    BY <2>2, OwnerTypes
  <2>4. /\ sock' = [sock EXCEPT ![f] = FreeSock] /\ fd' = [fd EXCEPT ![c] = NoFd]
        /\ UNCHANGED <<new_conns, avail_idx>>
    <3>1. ctl.i \in Int /\ live_cnt \in Int /\ ~ (ctl.i >= live_cnt)
      BY <1>2, <2>1, Places, Numbers DEF IInv, TypeOK
    <3> QED BY <1>2, <2>2, <2>3, <3>1 DEF Sweep, newVars
  <2>5. /\ sock'[f].at # "open" /\ \A g \in Fds : g # f => sock'[g] = sock[g]
        /\ fd'[c] = NoFd /\ \A d \in Pool : d # c => fd'[d] = fd[d]
    BY <2>4, OwnerTypes DEF FreeSock
  <2>6. /\ \A j \in NewSlots : new_conns[j].fd # f
        /\ \A d \in Pool : d # c => fd[d] # f
    BY <2>2, <2>3, OwnerTypes DEF OneOwner
  <2> QED BY <2>2, <2>3, <2>4, <2>5, <2>6, OwnerTypes DEF OneOwner
<1>3. ctl.i \in Int /\ live_cnt \in Int
  BY Numbers DEF IInv, TypeOK
<1> QED BY <1>1, <1>2, <1>3 DEF Sweep

\* Every step keeps one owner for each socket.
LEMMA NextOwners ==
  ASSUME IInv, OneOwner, [Next]_vars
  PROVE  OneOwner'
<1>1. CASE UNCHANGED <<sock, newVars, fd>>
  BY <1>1, OwnersKept DEF newVars
<1>2. CASE Clients
  <2>1. ASSUME NEW f \in Fds, ClientConnect(f) PROVE OneOwner'
    <3>1. /\ sock[f].at = "free" /\ sock' = [sock EXCEPT ![f].at = "queued"]
          /\ UNCHANGED <<new_conns, avail_idx, fd>>
      BY <2>1 DEF ClientConnect, newVars, connVars
    <3>2. \A g \in Fds : sock'[g].at = "open" <=> sock[g].at = "open"
      BY <3>1, OwnerTypes DEF SockType
    <3> QED BY <3>1, <3>2, OwnersKept
  <2>2. ASSUME NEW f \in Fds, NEW m, ClientSend(f, m) \/ ClientClose(f) PROVE OneOwner'
    <3>1. /\ \/ sock' = [sock EXCEPT ![f].msg = m]
             \/ sock' = [sock EXCEPT ![f].gone = TRUE]
          /\ UNCHANGED <<new_conns, avail_idx, fd>>
      BY <2>2 DEF ClientSend, ClientClose, newVars, connVars
    <3>2. \A g \in Fds : sock'[g].at = "open" <=> sock[g].at = "open"
      BY <3>1, OwnerTypes DEF SockType
    <3> QED BY <3>1, <3>2, OwnersKept
  <2>3. ASSUME NEW c \in Pool, ConnClose(c) PROVE OneOwner'
    BY <2>3, <1>1 DEF ConnClose
  <2> QED BY <1>2, <2>1, <2>2, <2>3 DEF Clients
<1>3. ASSUME NEW i \in NewSlots, Expire(i) PROVE OneOwner'
  <2>1. \A j \in NewSlots : new_conns'[j].fd = new_conns[j].fd
    BY <1>3, OwnerTypes DEF Expire, NewType
  <2> QED BY <1>3, <2>1, OwnersKept DEF Expire, connVars
<1>4. ASSUME NEW i \in NewSlots, VisitNew(i) PROVE OneOwner'
  <2>1. CASE SkipNew(i)
    <3>1. /\ UNCHANGED <<sock, new_conns, fd>>
          /\ \/ UNCHANGED avail_idx
             \/ avail_idx' = i /\ new_conns[i].fd = NoFd
      BY <2>1 DEF SkipNew, connVars
    <3> QED BY <3>1, OwnersKept
  <2>2. CASE CloseNew(i) \/ LoginRefused(i) \/ LoginFails(i)
    <3>1. new_conns[i].fd # NoFd /\ DropNew(i) /\ UNCHANGED fd
      BY <2>2 DEF CloseNew, LoginRefused, LoginFails, LoginAt, connVars
    <3> QED BY <3>1, DropNewOwners
  <2>3. CASE LoginOk(i)
    BY <2>3, LoginOkOwners
  <2> QED BY <1>4, <2>1, <2>2, <2>3 DEF VisitNew
<1>5. CASE Swap \/ Poll \/ Start
  BY <1>1, <1>5 DEF Swap, SwapFirst, SwapSecond, Poll, PollTest, PollVisit, PollDone, Start, connVars
<1>6. CASE Stop
  <2>1. /\ \A f \in Fds : sock'[f].at # "open"
        /\ \A i \in NewSlots : new_conns'[i].fd = NoFd
        /\ \A c \in Pool : fd'[c] = NoFd
        /\ avail_idx' = 0
    BY <1>6 DEF Stop, FreeSock, NoConnYet
  <2> QED BY <2>1, OwnerTypes, Numbers DEF OneOwner
<1> QED
  BY <1>1, <1>2, <1>3, <1>4, <1>5, <1>6, AcceptOwners, SweepOwners
  DEF Next, PollCtl, vars, connVars

\* One owner is a set of owners with one element.
LEMMA OwnersCounted ==
  ASSUME IInv, OneOwner
  PROVE  SocketsOwned
<1> SUFFICES ASSUME NEW f \in Fds
             PROVE  Cardinality(Owners(f)) = IF sock[f].at = "open" THEN 1 ELSE 0
  BY DEF SocketsOwned
<1>1. CASE sock[f].at # "open"
  <2>1. Owners(f) = {}
    BY <1>1, OwnerTypes DEF Owners, OneOwner
  <2> QED BY <1>1, <2>1, FS_EmptySet
<1>2. CASE sock[f].at = "open"
  <2>1. \E x : Owners(f) = {x}
    <3>1. CASE \E i \in NewSlots : new_conns[i].fd = f
      <4>1. PICK i \in NewSlots : new_conns[i].fd = f
        BY <3>1
      <4>2. /\ \A j \in NewSlots : new_conns[j].fd = f => j = i
            /\ \A c \in Pool : fd[c] # f
        BY <4>1, OwnerTypes DEF OneOwner
      <4>3. Owners(f) = {<<"new", i>>}
        BY <4>1, <4>2 DEF Owners
      <4> QED BY <4>3
    <3>2. CASE \E c \in Pool : fd[c] = f
      <4>1. PICK c \in Pool : fd[c] = f
        BY <3>2
      <4>2. /\ \A d \in Pool : fd[d] = f => d = c
            /\ \A i \in NewSlots : new_conns[i].fd # f
        BY <4>1, OwnerTypes DEF OneOwner
      <4>3. Owners(f) = {<<"conn", c>>}
        BY <4>1, <4>2 DEF Owners
      <4> QED BY <4>3
    <3> QED BY <1>2, <3>1, <3>2 DEF OneOwner
  <2> QED BY <1>2, <2>1, FS_Singleton
<1> QED BY <1>1, <1>2

\* No accepted socket is leaked, closed twice or closed for another client: from
\* accept() to close() it belongs to one slot of new_conns_ or to one connection,
\* and Accept() never overwrites a slot that has one.
THEOREM SocketsHaveOneOwner == Spec => []SocketsOwned
<1>1. Init => OneOwner
  BY Numbers DEF Init, OneOwner, FreeSock, NoConnYet, NewSlots
<1>2. IInv /\ OneOwner /\ [Next]_vars => OneOwner'
  BY NextOwners
<1>3. IInv /\ OneOwner => SocketsOwned
  BY OwnersCounted
<1> QED BY <1>1, <1>2, <1>3, InvariantHolds, PTL DEF Spec

-----------------------------------------------------------------------------
(* Where a live connection moves.                                          *)

\* What MovesForward says of one step.
Forward ==
  \A i, j \in Slots :
    i < live_cnt /\ j < live_cnt' /\ Settled[i] = Settled'[j] => j <= i

\* A step that keeps the settled array keeps every connection in its place.
LEMMA StaysForward ==
  ASSUME IInv, Settled' = Settled
  PROVE  Forward
BY Places DEF IInv, Placed, Forward

\* A login that succeeds puts a connection that was not live behind the live
\* ones.
LEMMA LoginOkForward ==
  ASSUME IInv, NEW i \in NewSlots, LoginOk(i)
  PROVE  Forward
<1> DEFINE s == Lookup(sock[new_conns[i].fd].msg)
<1>1. /\ s # N /\ s >= live_cnt /\ live_cnt' = live_cnt + 1 /\ conns' = conns
      /\ swap = NoSwap
      /\ swap' = [i |-> s, j |-> live_cnt, tmp |-> conns[s], half |-> FALSE]
  BY DEF LoginOk, LoginAt, Visiting
<1>2. TypeOK /\ Placed /\ Filled /\ live_cnt \in 0 .. N
  BY DEF IInv, TypeOK
<1>3. s \in Slots
  BY <1>1, LookupOK
<1> HIDE DEF s
<1>4. live_cnt \in Slots
  BY <1>1, <1>2, <1>3, Places, Numbers
<1>5. \A k \in Slots : Settled'[k] =
        IF k = live_cnt THEN conns[s] ELSE IF k = s THEN conns[live_cnt] ELSE conns[k]
  BY <1>1, <1>2, <1>3, <1>4, SwapBegins
<1>6. Settled = conns /\ \A x, y \in Slots : conns[x] = conns[y] => x = y
  BY <1>1, <1>2, SettledIs DEF Placed
<1> QED
  <2> SUFFICES ASSUME NEW x \in Slots, NEW y \in Slots, x < live_cnt, y < live_cnt + 1,
                      conns[x] = Settled'[y]
               PROVE  y <= x
    BY <1>1, <1>6 DEF Forward
  <2>1. y # live_cnt
    BY <1>1, <1>3, <1>4, <1>5, <1>6, Places
  <2>2. y # s
    BY <1>1, <1>3, <1>4, <2>1, Places
  <2> QED BY <1>5, <1>6, <2>1, <2>2, Places

\* The sweep moves only the last live connection, to the place of the one that
\* was closed.
LEMMA SweepForward ==
  ASSUME IInv, Sweep
  PROVE  Forward
<1> DEFINE last == live_cnt - 1
<1>1. CASE UNCHANGED swap
  BY <1>1, StaysForward DEF Sweep, Settled
<1>2. CASE /\ ctl.i < live_cnt /\ live_cnt' = last
           /\ swap' = [i |-> ctl.i, j |-> last, tmp |-> conns[ctl.i], half |-> FALSE]
  <2>1. TypeOK /\ Placed /\ Filled /\ live_cnt \in 0 .. N /\ ctl \in CtlType
        /\ swap = NoSwap /\ conns' = conns
    BY DEF IInv, TypeOK, CtlType, Sweep
  <2>2. ctl.i \in Slots /\ last \in Slots /\ ctl.i <= last
    BY <1>2, <2>1, Places, Numbers DEF CtlType
  <2>3. \A k \in Slots : Settled'[k] =
          IF k = last THEN conns[ctl.i] ELSE IF k = ctl.i THEN conns[last] ELSE conns[k]
    <3> HIDE DEF last
    <3> QED BY <1>2, <2>1, <2>2, SwapBegins
  <2>4. Settled = conns /\ \A x, y \in Slots : conns[x] = conns[y] => x = y
    BY <2>1, SettledIs DEF Placed
  <2> SUFFICES ASSUME NEW x \in Slots, NEW y \in Slots, x < live_cnt, y < last,
                      conns[x] = Settled'[y]
               PROVE  y <= x
    BY <1>2, <2>4 DEF Forward
  <2>5. CASE y = ctl.i
    <3>1. x = last
      BY <2>2, <2>3, <2>4, <2>5, Places
    <3> QED BY <2>2, <2>5, <3>1
  <2>6. CASE y # ctl.i
    <3>1. y = x
      BY <2>2, <2>3, <2>4, <2>6, Places
    <3> QED BY <3>1, Places
  <2> QED BY <2>5, <2>6
<1>3. ctl.i \in Int /\ live_cnt \in Int
  BY Numbers DEF IInv, TypeOK
<1> QED BY <1>1, <1>2, <1>3 DEF Sweep

\* No step of PollCtl() moves a live connection to a later place of the array: a
\* login puts the new one behind the live ones, the sweep brings the last one to
\* the front.
THEOREM LiveMovesForward == Spec => MovesForward
<1>1. ASSUME IInv, Next PROVE Forward
  <2>1. ASSUME UNCHANGED <<conns, swap>> PROVE Forward
    <3>1. Settled' = Settled
      BY <2>1 DEF Settled
    <3> QED BY <1>1, <3>1, StaysForward
  <2>2. CASE Clients \/ (\E i \in NewSlots : Expire(i)) \/ Poll \/ Stop \/ Start \/ Accept
    <3>1. UNCHANGED <<conns, swap>>
      BY <2>2 DEF Clients, ClientConnect, ClientClose, ClientSend, ConnClose, Expire,
                  Poll, PollTest, PollVisit, PollDone, Stop, Start, Accept, grpVars
    <3> QED BY <2>1, <3>1
  <2>3. ASSUME NEW i \in NewSlots, VisitNew(i) PROVE Forward
    <3>1. CASE SkipNew(i) \/ CloseNew(i) \/ LoginRefused(i) \/ LoginFails(i)
      <4>1. UNCHANGED <<conns, swap>>
        BY <3>1 DEF SkipNew, CloseNew, LoginRefused, LoginFails, grpVars
      <4> QED BY <2>1, <4>1
    <3>2. CASE LoginOk(i)
      BY <1>1, <3>2, LoginOkForward
    <3> QED BY <2>3, <3>1, <3>2 DEF VisitNew
  <2>4. CASE Swap
    <3>1. Settled' = Settled
      BY <1>1, <2>4, SwapStores DEF IInv
    <3> QED BY <1>1, <3>1, StaysForward
  <2>5. CASE Sweep
    BY <1>1, <2>5, SweepForward
  <2> QED BY <1>1, <2>2, <2>3, <2>4, <2>5 DEF Next, PollCtl
<1>2. IInv /\ [Next]_vars => [Forward]_vars
  BY <1>1
<1>3. MovesForward <=> [][Forward]_vars
  BY DEF MovesForward, Forward
<1> QED BY <1>2, <1>3, InvariantHolds, PTL DEF Spec

=============================================================================
