------------------------------ MODULE ShmSession ------------------------------
(***************************************************************************)
(* A client and a server that exchange messages through shared memory: the *)
(* login over TCP with the probe that shows that both see the same shared  *)
(* memory, the two rings of each pair of names, and disconnects, timeouts, *)
(* crashes and restarts of either side, the server possibly under another  *)
(* name.                                                                   *)
(*                                                                         *)
(* A ring is what SPSCVarQueue was shown to implement, a FIFO of messages. *)
(* The rings and the client's .lastserver file survive the processes.      *)
(* Every system call of the login is a step of its own as far as the other *)
(* side can see it; while the server probes, its control thread does       *)
(* nothing else.  Time is left out: a wait may end at any moment.          *)
(***************************************************************************)
EXTENDS Naturals, Sequences

CONSTANTS
  Names,        \* the names that the server may be started with
  NoName,       \* an empty name
  Fds,          \* TCP connections that can exist at the same time
  Values,       \* messages
  RingCap,      \* messages that a ring holds
  MaxFailures,  \* budget of failures
  QuietServer   \* TRUE: the server's user only answers the client's messages

C == "client"
S == "server"
Ends == {C, S}
Peer(e) == IF e = C THEN S ELSE C

NoFd == 0

ASSUME ShmSessionAssumption ==
  /\ NoName \notin Names /\ NoFd \notin Fds
  /\ RingCap \in Nat \ {0} /\ MaxFailures \in Nat
  /\ QuietServer \in BOOLEAN

VARIABLES
  shared,       \* the two processes see the same shared memory
  rings,        \* for each server name, the ring that each end sends on
  probes,       \* the probe of each connection: its file, and what is in its ack
  last_server,  \* the client's .lastserver file
  cl,           \* the client: where Connect() is (pc), its socket (fd)
  mapped,       \* the server name in the rings that the client has mapped
  srv,          \* the name of the running server, or NoName
  login,        \* HandleLogin(): where it is (pc), its socket, the client's last_server
  live,         \* the socket of the connection that is logged on
  heard,        \* the server's user has had a message since the logon
  net,          \* the TCP connections
  owed,         \* messages pushed and not popped since the connection is new
  budget        \* failures to come

memory == <<rings, owed>>
client == <<last_server, cl, mapped>>
server == <<srv, login, live, heard>>
vars == <<shared, memory, probes, client, server, net, budget>>

NoLogin == [pc |-> "free", fd |-> NoFd, last |-> NoName]
Free == [open |-> [e \in Ends |-> FALSE], out |-> [e \in Ends |-> <<>>]]
EmptyRings == [e \in Ends |-> <<>>]

Init ==
  /\ shared \in BOOLEAN
  /\ rings = [s \in Names |-> EmptyRings]
  /\ owed = rings
  /\ probes = [k \in Fds |-> "none"]
  /\ last_server = NoName
  /\ cl = [pc |-> "closed", fd |-> NoFd]
  /\ mapped = NoName
  /\ srv \in Names
  /\ login = NoLogin /\ live = NoFd /\ heard = FALSE
  /\ net = [k \in Fds |-> Free]
  /\ budget = MaxFailures

Fail == budget > 0 /\ budget' = budget - 1

-----------------------------------------------------------------------------
(* TCP.                                                                    *)

LoginMsg(last) == [type |-> "login", ok |-> TRUE, name |-> last]
ShmProbeReqMsg == [type |-> "probe_req", ok |-> TRUE, name |-> NoName]
ShmProbeRspMsg(ok) == [type |-> "probe_rsp", ok |-> ok, name |-> NoName]
LoginRspMsg(ok) == [type |-> "login_rsp", ok |-> ok, name |-> srv]

\* e sends m; a closed end drops it.
Sent(n, e, m) == IF n.open[Peer(e)] THEN [n EXCEPT !.out[e] = Append(@, m)] ELSE n

\* e has read a message.
Read(n, e) == [n EXCEPT !.out[Peer(e)] = Tail(@)]

\* e closes its end: what was sent to it is gone.
Closed(n, e) == [n EXCEPT !.open[e] = FALSE, !.out[Peer(e)] = <<>>]

\* The next message for e on k is of this type.
Has(k, e, type) ==
  /\ k # NoFd /\ net[k].out[Peer(e)] # <<>>
  /\ Head(net[k].out[Peer(e)]).type = type

\* e will read nothing more on k.
AtEnd(k, e) == ~ net[k].open[Peer(e)] /\ net[k].out[Peer(e)] = <<>>

-----------------------------------------------------------------------------
(* TcpShmClient.                                                           *)

\* Connect() until the LoginMsg is sent.
Connect(k) ==
  /\ cl.pc = "closed" /\ srv # NoName
  /\ net[k] = Free
  /\ net' = [net EXCEPT ![k] = [open |-> [e \in Ends |-> TRUE],
                                out |-> [EmptyRings EXCEPT ![C] = <<LoginMsg(last_server)>>]]]
  /\ cl' = [pc |-> "login", fd |-> k]
  /\ UNCHANGED <<shared, memory, probes, last_server, mapped, server, budget>>

\* Connect() fails, or the client dies, before the LoginMsg is sent: the server
\* has a connection on which nothing will come.
SendFails(k) ==
  /\ Fail
  /\ cl.pc = "closed" /\ srv # NoName
  /\ net[k] = Free
  /\ net' = [net EXCEPT ![k].open[S] = TRUE]
  /\ UNCHANGED <<shared, memory, probes, client, server>>

\* my_mmap_existing() finds the probe of k, in the memory this end sees.
ProbeExists(k) == shared /\ probes[k] # "none"

\* RecvLoginRsp() gets a ShmProbeReq first: the probe is mapped if it exists,
\* its token is compared and its ack written, and the outcome is reported.
HandleShmProbe ==
  LET k == cl.fd
      ok == ProbeExists(k)
  IN  /\ cl.pc = "login" /\ Has(k, C, "probe_req")
      /\ probes' = IF ok THEN [probes EXCEPT ![k] = "acked"] ELSE probes
      /\ net' = [net EXCEPT ![k] = Sent(Read(@, C), C, ShmProbeRspMsg(ok))]
      /\ UNCHANGED <<shared, memory, client, server, budget>>

\* OpenFile() maps the rings of this server unless some are mapped.
OpenFile(name) == IF mapped = NoName THEN name ELSE mapped

\* Mutant: the rings of the last server stay mapped.
RecvLoginRspKeepsMapping ==
  LET k == cl.fd
      rsp == Head(net[k].out[S])
  IN  /\ cl.pc = "login" /\ Has(k, C, "login_rsp")
      /\ IF ~ rsp.ok
         THEN /\ net' = [net EXCEPT ![k] = Closed(@, C)]
              /\ cl' = [pc |-> "closed", fd |-> NoFd]
              /\ UNCHANGED <<last_server, mapped>>
         ELSE /\ net' = [net EXCEPT ![k] = Read(@, C)]
              /\ last_server' = rsp.name
              /\ cl' = [cl EXCEPT !.pc = IF rsp.name = last_server THEN "open" ELSE "named"]
              /\ mapped' = OpenFile(rsp.name)
      /\ UNCHANGED <<shared, memory, probes, server, budget>>

\* The LoginRsp: a new server's name is recorded after the rings of the old one
\* are unmapped.
RecvLoginRsp ==
  LET k == cl.fd
      rsp == Head(net[k].out[S])
  IN  /\ cl.pc = "login" /\ Has(k, C, "login_rsp")
      /\ IF ~ rsp.ok
         THEN /\ net' = [net EXCEPT ![k] = Closed(@, C)]
              /\ cl' = [pc |-> "closed", fd |-> NoFd]
              /\ UNCHANGED <<last_server, mapped>>
         ELSE /\ net' = [net EXCEPT ![k] = Read(@, C)]
              /\ last_server' = rsp.name
              /\ IF rsp.name = last_server
                 THEN cl' = [cl EXCEPT !.pc = "open"] /\ mapped' = OpenFile(rsp.name)
                 ELSE cl' = [cl EXCEPT !.pc = "named"] /\ mapped' = NoName
      /\ UNCHANGED <<shared, memory, probes, server, budget>>

\* A new server's rings are mapped and cleared, the one to send on first.
ResetRing ==
  /\ cl.pc \in {"named", "clear"}
  /\ mapped' = OpenFile(last_server)
  /\ rings' = [rings EXCEPT ![mapped'][IF cl.pc = "named" THEN C ELSE S] = <<>>]
  /\ cl' = [cl EXCEPT !.pc = IF @ = "named" THEN "clear" ELSE "open"]
  /\ UNCHANGED <<shared, probes, last_server, server, net, owed, budget>>

\* Connect() fails while it waits for an answer.
ConnectFails ==
  /\ cl.pc = "login"
  /\ IF AtEnd(cl.fd, C) THEN UNCHANGED budget ELSE Fail
  /\ net' = [net EXCEPT ![cl.fd] = Closed(@, C)]
  /\ cl' = [pc |-> "closed", fd |-> NoFd]
  /\ UNCHANGED <<shared, memory, probes, last_server, mapped, server>>

\* PollTcp() finds the connection closed by the server, by its user or by a timeout.
ClientClose ==
  /\ cl.pc = "open"
  /\ IF AtEnd(cl.fd, C) THEN UNCHANGED budget ELSE Fail
  /\ net' = [net EXCEPT ![cl.fd] = Closed(@, C)]
  /\ cl' = [pc |-> "closed", fd |-> NoFd]
  /\ UNCHANGED <<shared, memory, probes, last_server, mapped, server>>

\* The client dies, or Stop()s and later starts again.
ClientCrash ==
  /\ Fail
  /\ cl' = [pc |-> "closed", fd |-> NoFd]
  /\ mapped' = NoName
  /\ net' = [k \in Fds |-> IF k = cl.fd THEN Closed(net[k], C) ELSE net[k]]
  /\ UNCHANGED <<shared, memory, probes, last_server, server>>

-----------------------------------------------------------------------------
(* TcpShmServer.                                                           *)

\* PollCtl() reads a LoginMsg and VerifyShmProbe() creates the probe.
StartProbe(k) ==
  /\ srv # NoName /\ login = NoLogin
  /\ Has(k, S, "login")
  /\ login' = [pc |-> "probe", fd |-> k, last |-> Head(net[k].out[C]).name]
  /\ probes' = [probes EXCEPT ![k] = "wait"]
  /\ net' = [net EXCEPT ![k] = Sent(Read(@, S), S, ShmProbeReqMsg)]
  /\ UNCHANGED <<shared, memory, client, srv, live, heard, budget>>

\* A new connection that ended without a LoginMsg is closed.
DropNew(k) ==
  /\ srv # NoName /\ login = NoLogin /\ k # live
  /\ net[k].open[S] /\ AtEnd(k, S)
  /\ net' = [net EXCEPT ![k] = Closed(@, S)]
  /\ UNCHANGED <<shared, memory, probes, client, server, budget>>

\* The login is refused and the connection closed by PollCtl(); the LoginRsp
\* still reaches the client.
Refuse(n) == Closed(Sent(n, S, LoginRspMsg(FALSE)), S)

\* The wait for the ShmProbeRsp ends without one.
ProbeTimeout ==
  LET k == login.fd
  IN  /\ login.pc = "probe" /\ ~ Has(k, S, "probe_rsp")
      /\ IF AtEnd(k, S) THEN UNCHANGED budget ELSE Fail
      /\ probes' = [probes EXCEPT ![k] = "none"]
      /\ net' = [net EXCEPT ![k] = Refuse(@)]
      /\ login' = NoLogin
      /\ UNCHANGED <<shared, memory, client, srv, live, heard>>

\* Mutant: the response is believed without a look at the memory.
ProbeAcceptedAlways(k) == TRUE

\* RecvAndCheckShmProbeRsp(): the response and the shared memory both say so.
ProbeAccepted(k) == Head(net[k].out[C]).ok /\ probes[k] = "acked"

\* Mutant: the server leaves it to the client to clear the rings.
ResetByClient(last) == FALSE

\* HandleLogin() clears the rings unless the client names this server.
ResetsRings(last) == last # srv

\* The ShmProbeRsp and the rest of HandleLogin() until the LoginRsp is sent.
HandleLogin ==
  LET k == login.fd
      new == login.last # srv
      n == Read(net[k], S)
      accepted == ProbeAccepted(k) /\ live = NoFd     \* else "Already loggned on"
  IN  /\ login.pc = "probe" /\ Has(k, S, "probe_rsp")
      /\ probes' = [probes EXCEPT ![k] = "none"]
      /\ IF ~ accepted
         THEN /\ net' = [net EXCEPT ![k] = Refuse(n)]
              /\ login' = NoLogin
              /\ UNCHANGED memory
         ELSE /\ rings' = IF ResetsRings(login.last) THEN [rings EXCEPT ![srv] = EmptyRings] ELSE rings
              /\ owed' = IF new THEN [owed EXCEPT ![srv] = EmptyRings] ELSE owed
              /\ \/ /\ net' = [net EXCEPT ![k] = Sent(n, S, LoginRspMsg(TRUE))]
                    /\ login' = [login EXCEPT !.pc = "rsp"]
                 \/ /\ ~ n.open[C]                    \* SendLoginRsp() fails
                    /\ net' = [net EXCEPT ![k] = Closed(n, S)]
                    /\ login' = NoLogin
      /\ UNCHANGED <<shared, client, srv, live, heard, budget>>

\* Open() and the switch to live.
OpenLive ==
  /\ login.pc = "rsp"
  /\ live' = login.fd
  /\ heard' = FALSE
  /\ login' = NoLogin
  /\ UNCHANGED <<shared, memory, probes, client, srv, net, budget>>

\* Mutant: a connection that was closed stays among the live ones.
SweepKeepsLive ==
  /\ live # NoFd /\ login = NoLogin
  /\ net[live].open[S]
  /\ IF AtEnd(live, S) THEN UNCHANGED budget ELSE Fail
  /\ net' = [net EXCEPT ![live] = Closed(@, S)]
  /\ UNCHANGED <<shared, memory, probes, client, server>>

\* PollCtl() finds a live connection closed by the client, by its user or by a
\* timeout.
Sweep ==
  /\ live # NoFd /\ login = NoLogin
  /\ IF AtEnd(live, S) THEN UNCHANGED budget ELSE Fail
  /\ net' = [net EXCEPT ![live] = Closed(@, S)]
  /\ live' = NoFd
  /\ UNCHANGED <<shared, memory, probes, client, srv, login, heard>>

\* The server dies or is stopped; a probe that it had made stays behind.
ServerCrash ==
  /\ Fail
  /\ srv # NoName
  /\ srv' = NoName
  /\ login' = NoLogin /\ live' = NoFd /\ heard' = FALSE
  /\ net' = [k \in Fds |-> Closed(net[k], S)]
  /\ UNCHANGED <<shared, memory, probes, client>>

Start(name) ==
  /\ srv = NoName
  /\ srv' = name
  /\ UNCHANGED <<shared, memory, probes, client, login, live, heard, net, budget>>

-----------------------------------------------------------------------------
(* The users.                                                              *)

\* The rings that e uses: the client's as long as they are mapped and it is not
\* in Connect(), the server's while the connection is live.
Using(e) ==
  IF e = C THEN IF cl.pc \in {"closed", "open"} THEN mapped ELSE NoName
  ELSE IF live # NoFd THEN srv ELSE NoName

\* Alloc() and Push(); no message when the ring is full.
PushMsg(e, v) ==
  LET s == Using(e)
  IN  /\ s # NoName
      /\ e = S /\ QuietServer => heard
      /\ Len(rings[s][e]) < RingCap
      /\ rings' = [rings EXCEPT ![s][e] = Append(@, v)]
      /\ owed' = [owed EXCEPT ![s][e] = Append(@, v)]
      /\ UNCHANGED <<shared, probes, client, server, net, budget>>

\* PollShm() shows a message and the callback pops it.
PopMsg(e) ==
  LET s == Using(e)
  IN  /\ s # NoName /\ rings[s][Peer(e)] # <<>>
      /\ rings' = [rings EXCEPT ![s][Peer(e)] = Tail(@)]
      /\ owed' = [owed EXCEPT ![s][Peer(e)] = IF @ = <<>> THEN @ ELSE Tail(@)]
      /\ heard' = (heard \/ e = S)
      /\ UNCHANGED <<shared, probes, client, srv, login, live, net, budget>>

-----------------------------------------------------------------------------
Next ==
  \/ \E k \in Fds : Connect(k) \/ SendFails(k) \/ StartProbe(k) \/ DropNew(k)
  \/ HandleShmProbe \/ RecvLoginRsp \/ ResetRing
  \/ ConnectFails \/ ClientClose \/ ClientCrash
  \/ ProbeTimeout \/ HandleLogin \/ OpenLive
  \/ Sweep \/ ServerCrash
  \/ \E name \in Names : Start(name)
  \/ \E e \in Ends : PopMsg(e) \/ \E v \in Values : PushMsg(e, v)

Spec == Init /\ [][Next]_vars

\* Both sides poll for ever, a client that is disconnected connects again and a
\* server that died is started again.  A wait ends by itself only when the other
\* end is closed.  Users need not do anything.
Fairness ==
  /\ WF_vars(\E k \in Fds : Connect(k))
  /\ WF_vars(HandleShmProbe) /\ WF_vars(RecvLoginRsp) /\ WF_vars(ResetRing)
  /\ WF_vars(cl.fd # NoFd /\ AtEnd(cl.fd, C) /\ (ConnectFails \/ ClientClose))
  /\ WF_vars(login.fd # NoFd /\ AtEnd(login.fd, S) /\ ProbeTimeout)
  /\ SF_vars(live # NoFd /\ AtEnd(live, S) /\ Sweep)
  /\ \A k \in Fds : SF_vars(StartProbe(k)) /\ SF_vars(DropNew(k))
  /\ WF_vars(HandleLogin) /\ WF_vars(OpenLive)
  /\ WF_vars(\E name \in Names : Start(name))

FairSpec == Spec /\ Fairness

-----------------------------------------------------------------------------
(* Properties.                                                             *)

\* The range of every variable.
TypeOK ==
  /\ shared \in BOOLEAN /\ heard \in BOOLEAN
  /\ rings \in [Names -> [Ends -> Seq(Values)]]
  /\ \A s \in Names, e \in Ends : Len(rings[s][e]) <= RingCap
  /\ probes \in [Fds -> {"none", "wait", "acked"}]
  /\ {last_server, mapped, srv, login.last} \subseteq Names \cup {NoName}
  /\ cl \in [pc : {"closed", "login", "named", "clear", "open"}, fd : Fds \cup {NoFd}]
  /\ cl.pc = "closed" <=> cl.fd = NoFd
  /\ login.pc \in {"free", "probe", "rsp"} /\ login.fd \in Fds \cup {NoFd}
  /\ live \in Fds \cup {NoFd}
  /\ live # NoFd => net[live].open[S]
  /\ budget \in 0 .. MaxFailures

\* No login over shared memory succeeds unless both ends see the same memory,
\* whatever probes earlier logins and crashes have left behind.
SharedOnly == live # NoFd \/ mapped # NoName => shared

\* Two ends that are connected use the rings of the same pair of names, also
\* after the server came back under another name.
SameRings == cl.pc = "open" /\ live = cl.fd => mapped = srv

\* Since the two names are connected, every message that was pushed is in its
\* ring until it is popped, and nothing else is: no login, crash or second
\* clearing of the rings loses a message or brings back an old one.
NothingLost == \A s \in Names : rings[s] = owed[s]

Linked == cl.pc = "open" /\ live = cl.fd

\* Once failures stop, a client and a server on one host are connected, and stay
\* so: no login hangs in a probe or is refused for ever.
Recovers == shared => <>[]Linked

=============================================================================
