--------------------------- MODULE ShmSessionProofs ---------------------------
(***************************************************************************)
(* Proofs about ShmSession for any number of sockets, any names, messages, *)
(* ring capacity and failures: the types, SharedOnly, SameRings and, when  *)
(* the server's user only answers, NothingLost.                            *)
(***************************************************************************)
EXTENDS ShmSession, TLAPS

Msgs == [type : {"login", "probe_req", "probe_rsp", "login_rsp"},
         ok : BOOLEAN, name : Names \cup {NoName}]

Pipes == [open : [Ends -> BOOLEAN], out : [Ends -> Seq(Msgs)]]

\* Nothing is under way to an end that is closed.
Conns == {n \in Pipes : \A e \in Ends : ~ n.open[e] => n.out[Peer(e)] = <<>>}

\* The messages in q.
Contents(q) == {q[i] : i \in DOMAIN q}

\* m is the answer to a login that succeeded.
Granted(m) == m.type = "login_rsp" /\ m.ok

\* What TypeOK leaves out.
MoreTypes ==
  /\ net \in [Fds -> Conns]
  /\ owed \in [Names -> [Ends -> Seq(Values)]]
  /\ login \in [pc : {"free", "probe", "rsp"}, fd : Fds \cup {NoFd},
                last : Names \cup {NoName}]

\* An end of a connection is open exactly as long as its process has the socket,
\* the server's only while there is a server.
SocketInv ==
  /\ \A k \in Fds : net[k].open[C] => cl.fd = k
  /\ cl.fd # NoFd => net[cl.fd].open[C]
  /\ \A k \in Fds : net[k].open[S] => srv # NoName
  /\ live # NoFd => srv # NoName
  /\ login.pc = "free" <=> login.fd = NoFd
  /\ login.fd # NoFd => srv # NoName /\ net[login.fd].open[S]
  /\ login.fd # NoFd => login.fd # live
  /\ login.pc = "rsp" => live = NoFd

\* A LoginMsg is the first message of a connection, and the server has done
\* nothing with the connection before it reads it.
LoginInv ==
  \A k \in Fds : \A m \in Contents(net[k].out[C]) :
    m.type = "login" =>
      /\ Len(net[k].out[C]) = 1 /\ net[k].out[S] = <<>>
      /\ k # live /\ k # login.fd

\* Whatever follows from an acknowledged probe is seen only with shared memory.
SharedInv ==
  /\ \A k \in Fds : probes[k] = "acked" => shared
  /\ login.pc = "rsp" \/ live # NoFd \/ mapped # NoName => shared
  /\ cl.pc \in {"named", "clear", "open"} => shared
  /\ \A k \in Fds : \A m \in Contents(net[k].out[S]) : Granted(m) => shared

\* The name that the client learns, and the rings that it maps by it.
NameInv ==
  /\ \A k \in Fds : \A m \in Contents(net[k].out[S]) :
       Granted(m) => m.name # NoName /\ (net[k].open[S] => m.name = srv)
  /\ mapped \in {NoName, last_server}
  /\ cl.pc \in {"named", "clear", "open"} =>
       last_server # NoName /\ (net[cl.fd].open[S] => last_server = srv)
  /\ cl.pc \in {"clear", "open"} => mapped # NoName

\* A login under way carries the name that the client has in its file.
LastInv ==
  cl.pc = "login" =>
    /\ \A m \in Contents(net[cl.fd].out[C]) : m.type = "login" => m.name = last_server
    /\ login.fd = cl.fd => login.last = last_server

\* The client clears the rings of s, or will when it reads the answer to its login.
WillClear(s) ==
  \/ cl.pc \in {"named", "clear"} /\ s = last_server
  \/ /\ cl.pc = "login" /\ s # last_server
     /\ \E m \in Contents(net[cl.fd].out[S]) : Granted(m) /\ m.name = s

\* Rings that are about to be cleared are empty, and nobody can push on them: the
\* client is in Connect(), and the server's user has had nothing to answer.
ClearInv ==
  \A s \in Names : WillClear(s) =>
    rings[s] = EmptyRings /\ (live # NoFd /\ srv = s => ~ heard)

\* Without QuietServer the last part does not hold: see the run shm_reset.
IInv ==
  /\ TypeOK /\ MoreTypes /\ SocketInv /\ LoginInv /\ SharedInv /\ NameInv /\ LastInv
  /\ QuietServer => NothingLost /\ ClearInv

-----------------------------------------------------------------------------
(* Ends, messages and connections.                                         *)

\* There are two ends, each the other's peer.
LEMMA EndsAre ==
  /\ Ends = {C, S} /\ C # S
  /\ Peer(C) = S /\ Peer(S) = C
BY DEF Ends, C, S, Peer

\* What a message sent adds to a queue, and what is left when one is read.
LEMMA ContentsOf ==
  ASSUME NEW T, NEW q \in Seq(T)
  PROVE  /\ Contents(<<>>) = {}
         /\ \A m \in T : Contents(Append(q, m)) = Contents(q) \cup {m}
         /\ \A m \in T : Contents(<<m>>) = {m}
         /\ q # <<>> => /\ Contents(Tail(q)) \subseteq Contents(q)
                       /\ Head(q) \in Contents(q)
         /\ Contents(q) \subseteq T
<1>1. Contents(<<>>) = {}
  BY DEF Contents
<1>2. ASSUME NEW m \in T
      PROVE  Contents(Append(q, m)) = Contents(q) \cup {m}
  <2>1. \A x \in Contents(q) : x \in Contents(Append(q, m))
    BY DEF Contents
  <2>2. m \in Contents(Append(q, m))
    <3>1. Len(q) + 1 \in DOMAIN Append(q, m) /\ Append(q, m)[Len(q) + 1] = m
      OBVIOUS
    <3>2. QED
      BY <3>1 DEF Contents
  <2>3. \A x \in Contents(Append(q, m)) : x \in Contents(q) \/ x = m
    BY DEF Contents
  <2>4. QED
    BY <2>1, <2>2, <2>3
<1>3. ASSUME NEW m \in T
      PROVE  Contents(<<m>>) = {m}
  BY DEF Contents
<1>4. ASSUME q # <<>>
      PROVE  /\ Contents(Tail(q)) \subseteq Contents(q)
             /\ Head(q) \in Contents(q)
  <2>1. \A i \in DOMAIN Tail(q) : i + 1 \in DOMAIN q /\ Tail(q)[i] = q[i + 1]
    BY <1>4
  <2>2. 1 \in DOMAIN q /\ Head(q) = q[1]
    BY <1>4
  <2>3. QED
    BY <2>1, <2>2 DEF Contents
<1>5. Contents(q) \subseteq T
  BY DEF Contents
<1>6. QED
  BY <1>1, <1>2, <1>3, <1>4, <1>5

\* Every message that is sent is a message.
LEMMA MsgsAre ==
  /\ \A s \in Names \cup {NoName} : LoginMsg(s) \in Msgs /\ LoginMsg(s).type = "login" /\ LoginMsg(s).name = s
  /\ ShmProbeReqMsg \in Msgs /\ ShmProbeReqMsg.type = "probe_req"
  /\ \A ok \in BOOLEAN : ShmProbeRspMsg(ok) \in Msgs /\ ShmProbeRspMsg(ok).type = "probe_rsp"
  /\ srv \in Names \cup {NoName} =>
       \A ok \in BOOLEAN : /\ LoginRspMsg(ok) \in Msgs /\ LoginRspMsg(ok).type = "login_rsp"
                           /\ LoginRspMsg(ok).ok = ok /\ LoginRspMsg(ok).name = srv
BY DEF Msgs, LoginMsg, ShmProbeReqMsg, ShmProbeRspMsg, LoginRspMsg

\* A function with one value replaced.
LEMMA ExceptOK ==
  ASSUME NEW D, NEW R, NEW f \in [D -> R], NEW x \in D, NEW y \in R
  PROVE  [f EXCEPT ![x] = y] \in [D -> R]
OBVIOUS

\* A connection with its queues or its ends replaced.
LEMMA ConnIs ==
  ASSUME NEW n \in Pipes
  PROVE  /\ \A q \in [Ends -> Seq(Msgs)] :
              /\ [n EXCEPT !.out = q] \in Pipes
              /\ [n EXCEPT !.out = q].open = n.open /\ [n EXCEPT !.out = q].out = q
         /\ n.open \in [Ends -> BOOLEAN] /\ n.out \in [Ends -> Seq(Msgs)]
BY DEF Pipes

\* A message that is sent goes to the other end, if that is open.
LEMMA SentOK ==
  ASSUME NEW n \in Conns, NEW e \in Ends, NEW m \in Msgs
  PROVE  /\ Sent(n, e, m) \in Conns
         /\ Sent(n, e, m).open = n.open
         /\ Sent(n, e, m).out[Peer(e)] = n.out[Peer(e)]
         /\ Contents(Sent(n, e, m).out[e]) \subseteq Contents(n.out[e]) \cup {m}
<1>1. /\ n \in Pipes /\ n.out[e] \in Seq(Msgs)
      /\ e # Peer(e) /\ Peer(e) \in Ends /\ \A x \in Ends : x = e \/ x = Peer(e)
      /\ Peer(Peer(e)) = e
  BY EndsAre DEF Conns, Pipes
<1>2. CASE n.open[Peer(e)]
  <2>1. /\ Sent(n, e, m).open = n.open
        /\ Sent(n, e, m).out = [n.out EXCEPT ![e] = Append(@, m)]
        /\ Sent(n, e, m) \in Pipes
    <3>1. Append(n.out[e], m) \in Seq(Msgs)
      BY <1>1
    <3>2. [n.out EXCEPT ![e] = Append(@, m)] \in [Ends -> Seq(Msgs)]
      BY <1>1, <3>1, ExceptOK DEF Pipes
    <3>3. QED
      BY <1>1, <1>2, <3>2, ConnIs DEF Sent
  <2>2. Sent(n, e, m).out[e] = Append(n.out[e], m)
    BY <1>1, <2>1 DEF Pipes
  <2>3. Sent(n, e, m).out[Peer(e)] = n.out[Peer(e)]
    BY <1>1, <2>1 DEF Pipes
  <2>4. Sent(n, e, m) \in Conns
    BY <1>1, <1>2, <2>1, <2>3 DEF Conns
  <2>5. QED
    BY <1>1, <2>1, <2>2, <2>3, <2>4, ContentsOf
<1>3. CASE ~ n.open[Peer(e)]
  BY <1>3, EndsAre DEF Sent
<1>4. QED
  BY <1>2, <1>3

\* A message that is read leaves the queue it was in and nothing else changes.
LEMMA ReadOK ==
  ASSUME NEW n \in Conns, NEW e \in Ends, n.out[Peer(e)] # <<>>
  PROVE  /\ Read(n, e) \in Conns
         /\ Read(n, e).open = n.open
         /\ Read(n, e).out[e] = n.out[e]
         /\ Contents(Read(n, e).out[Peer(e)]) \subseteq Contents(n.out[Peer(e)])
         /\ Len(n.out[Peer(e)]) = 1 => Contents(Read(n, e).out[Peer(e)]) = {}
         /\ Head(n.out[Peer(e)]) \in Contents(n.out[Peer(e)])
         /\ Head(n.out[Peer(e)]) \in Msgs
         /\ n.open[e]
<1>1. /\ n \in Pipes /\ n.out[Peer(e)] \in Seq(Msgs)
      /\ e # Peer(e) /\ Peer(e) \in Ends /\ \A x \in Ends : x = e \/ x = Peer(e)
      /\ Peer(Peer(e)) = e
  BY EndsAre DEF Conns, Pipes
<1>2. /\ Read(n, e).open = n.open
      /\ Read(n, e).out = [n.out EXCEPT ![Peer(e)] = Tail(@)]
      /\ Read(n, e) \in Pipes
  <2>1. Tail(n.out[Peer(e)]) \in Seq(Msgs)
    BY <1>1
  <2>2. [n.out EXCEPT ![Peer(e)] = Tail(@)] \in [Ends -> Seq(Msgs)]
    BY <1>1, <2>1, ExceptOK DEF Pipes
  <2>3. QED
    BY <1>1, <2>2, ConnIs DEF Read
<1>3. Read(n, e).out[Peer(e)] = Tail(n.out[Peer(e)]) /\ Read(n, e).out[e] = n.out[e]
  BY <1>1, <1>2 DEF Pipes
<1>4. n.open[e] /\ Read(n, e) \in Conns
  BY <1>1, <1>2, <1>3 DEF Conns
<1>5. ASSUME Len(n.out[Peer(e)]) = 1
      PROVE  Contents(Tail(n.out[Peer(e)])) = {}
  BY <1>1, <1>5 DEF Contents
<1>6. QED
  BY <1>1, <1>2, <1>3, <1>4, <1>5, ContentsOf

\* An end that is closed gets nothing more; what it sent stays.
LEMMA ClosedOK ==
  ASSUME NEW n \in Conns, NEW e \in Ends
  PROVE  /\ Closed(n, e) \in Conns
         /\ Closed(n, e).open[e] = FALSE
         /\ Closed(n, e).open[Peer(e)] = n.open[Peer(e)]
         /\ Closed(n, e).out[Peer(e)] = <<>> /\ Contents(Closed(n, e).out[Peer(e)]) = {}
         /\ Closed(n, e).out[e] = n.out[e]
<1>1. /\ n \in Pipes /\ Peer(Peer(e)) = e
      /\ e # Peer(e) /\ Peer(e) \in Ends /\ \A x \in Ends : x = e \/ x = Peer(e)
  BY EndsAre DEF Conns
<1>2. /\ Closed(n, e).open = [n.open EXCEPT ![e] = FALSE]
      /\ Closed(n, e).out = [n.out EXCEPT ![Peer(e)] = <<>>]
      /\ Closed(n, e) \in Pipes
  <2>1. /\ [n.open EXCEPT ![e] = FALSE] \in [Ends -> BOOLEAN]
        /\ [n.out EXCEPT ![Peer(e)] = <<>>] \in [Ends -> Seq(Msgs)]
    BY <1>1, ConnIs, ExceptOK
  <2> DEFINE o == [n.open EXCEPT ![e] = FALSE]
             n1 == [n EXCEPT !.open = o]
             q == [n.out EXCEPT ![Peer(e)] = <<>>]
  <2>2. Closed(n, e) = [n1 EXCEPT !.out = [n1.out EXCEPT ![Peer(e)] = <<>>]]
    BY DEF Closed
  <2>3. n1 \in Pipes /\ n1.open = o /\ n1.out = n.out
    <3>1. o \in [Ends -> BOOLEAN]
      BY <2>1
    <3> HIDE DEF o
    <3>2. QED
      BY <1>1, <3>1 DEF Pipes
  <2>4. q \in [Ends -> Seq(Msgs)] /\ Closed(n, e) = [n1 EXCEPT !.out = q]
    BY <2>1, <2>2, <2>3
  <2> HIDE DEF n1, q
  <2>5. Closed(n, e).open = n1.open /\ Closed(n, e).out = q /\ Closed(n, e) \in Pipes
    <3>1. q \in [Ends -> Seq(Msgs)] /\ n1 \in Pipes
      BY <2>3, <2>4
    <3>2. /\ [n1 EXCEPT !.out = q] \in Pipes
          /\ [n1 EXCEPT !.out = q].open = n1.open /\ [n1 EXCEPT !.out = q].out = q
      BY <3>1, ConnIs
    <3>3. QED
      BY <2>4, <3>2
  <2>6. QED
    BY <2>3, <2>5 DEF q
<1>3. /\ Closed(n, e).open[e] = FALSE
      /\ Closed(n, e).open[Peer(e)] = n.open[Peer(e)]
      /\ Closed(n, e).out[Peer(e)] = <<>>
      /\ Closed(n, e).out[e] = n.out[e]
  BY <1>1, <1>2 DEF Pipes
<1>4. Contents(<<>>) = {}
  BY DEF Contents
<1>5. Closed(n, e) \in Conns
  BY <1>1, <1>2, <1>3 DEF Conns
<1>6. QED
  BY <1>3, <1>4, <1>5

-----------------------------------------------------------------------------
(* Every action preserves IInv.                                            *)

\* One connection is replaced by another.
LEMMA NetIs ==
  ASSUME MoreTypes, NEW k \in Fds, NEW n \in Conns, net' = [net EXCEPT ![k] = n]
  PROVE  /\ net' \in [Fds -> Conns]
         /\ net'[k] = n
         /\ \A j \in Fds : j # k => net'[j] = net[j]
BY DEF MoreTypes

\* The ranges of what names sockets and servers.
LEMMA Ranges ==
  ASSUME IInv
  PROVE  /\ NoFd \notin Fds /\ NoName \notin Names
         /\ {cl.fd, login.fd, live} \subseteq Fds \cup {NoFd}
         /\ {last_server, mapped, srv, login.last} \subseteq Names \cup {NoName}
         /\ cl.pc = "closed" <=> cl.fd = NoFd
         /\ live # NoFd => net[live].open[S]
         /\ \A k \in Fds : net[k] \in Conns
BY ShmSessionAssumption DEF IInv, TypeOK, MoreTypes

\* A step that grants no login and opens no connection: at most probes, the
\* server's sockets and who is logged on change, and the server's user hears
\* nothing.
GrantsNothing ==
  /\ UNCHANGED <<shared, rings, owed, last_server, cl, mapped>>
  /\ net' \in [Fds -> Conns] /\ probes' \in [Fds -> {"none", "wait", "acked"}]
  /\ srv' \in Names \cup {NoName} /\ heard' \in BOOLEAN
  /\ live' \in Fds \cup {NoFd} /\ budget' \in 0 .. MaxFailures
  /\ login' \in [pc : {"free", "probe", "rsp"}, fd : Fds \cup {NoFd},
                 last : Names \cup {NoName}]
  /\ \A k \in Fds : probes'[k] = "acked" => shared
  /\ \A k \in Fds :
       /\ net'[k].open[C] = net[k].open[C]
       /\ net'[k].open[S] => net[k].open[S] /\ srv' = srv
       /\ \A m \in Contents(net'[k].out[S]) : Granted(m) => m \in Contents(net[k].out[S])
       /\ \A m \in Contents(net'[k].out[C]) : m.type = "login" =>
            net'[k].out = net[k].out /\ k # live' /\ k # login'.fd
  /\ live' # NoFd => net'[live'].open[S] /\ shared /\ (heard' => live # NoFd /\ heard)
  /\ login'.pc = "free" <=> login'.fd = NoFd
  /\ login'.fd # NoFd => net'[login'.fd].open[S] /\ login'.fd # live'
  /\ login'.pc = "rsp" => live' = NoFd /\ shared
  /\ cl.pc = "login" /\ login'.fd = cl.fd => login'.last = last_server

\* Such a step preserves IInv.
LEMMA GrantsNothingOK ==
  ASSUME IInv, GrantsNothing
  PROVE  IInv'
<1>1. TypeOK'
  BY DEF IInv, TypeOK, GrantsNothing
<1>2. MoreTypes'
  BY DEF IInv, MoreTypes, GrantsNothing
<1>3. SocketInv'
  BY Ranges DEF IInv, SocketInv, GrantsNothing
<1>4. SharedInv'
  BY DEF IInv, SharedInv, GrantsNothing
<1>5. NameInv'
  BY Ranges DEF IInv, NameInv, GrantsNothing
<1>6. LastInv'
  BY Ranges DEF IInv, LastInv, GrantsNothing
<1>7. QuietServer => NothingLost' /\ ClearInv'
  <2>1. ASSUME NEW s \in Names, WillClear(s)'
        PROVE  WillClear(s)
    BY <2>1, Ranges DEF WillClear, GrantsNothing
  <2>2. ASSUME live' # NoFd, heard'
        PROVE  live # NoFd /\ heard /\ srv' = srv
    BY <2>2 DEF GrantsNothing
  <2>3. QED
    BY <2>1, <2>2 DEF IInv, NothingLost, ClearInv, GrantsNothing
<1>8. LoginInv'
  BY DEF IInv, LoginInv, GrantsNothing
<1>9. QED
  BY <1>1, <1>2, <1>3, <1>4, <1>5, <1>6, <1>7, <1>8 DEF IInv

\* The start of Connect() preserves IInv: the socket was free.
LEMMA ConnectOK ==
  ASSUME IInv, NEW k \in Fds, Connect(k)
  PROVE  IInv'
<1> DEFINE m == LoginMsg(last_server)
           n == [open |-> [e \in Ends |-> TRUE], out |-> [EmptyRings EXCEPT ![C] = <<m>>]]
<1>1. m \in Msgs /\ m.type = "login" /\ m.name = last_server
  BY MsgsAre DEF IInv, TypeOK
<1> HIDE DEF m
<1>2. /\ n \in Conns /\ n.open[C] /\ n.open[S]
      /\ n.out[C] = <<m>> /\ n.out[S] = <<>>
  <2>1. <<m>> \in Seq(Msgs) /\ EmptyRings \in [Ends -> Seq(Msgs)]
    BY <1>1 DEF EmptyRings
  <2>2. [EmptyRings EXCEPT ![C] = <<m>>] \in [Ends -> Seq(Msgs)]
    BY <2>1, EndsAre, ExceptOK
  <2>3. [e \in Ends |-> TRUE] \in [Ends -> BOOLEAN]
    OBVIOUS
  <2>4. n \in Conns
    BY <2>2, <2>3 DEF Conns, Pipes
  <2>5. QED
    BY <2>4, EndsAre DEF EmptyRings
<1>3. Contents(n.out[C]) = {m} /\ Contents(n.out[S]) = {}
  BY <1>1, <1>2 DEF Contents
<1>4. net' = [net EXCEPT ![k] = n]
  BY DEF Connect, m
<1>5. ~ net[k].open[C] /\ ~ net[k].open[S]
  BY EndsAre DEF Connect, Free
<1> HIDE DEF n
<1>6. /\ net' \in [Fds -> Conns]
      /\ net'[k] = n
      /\ \A j \in Fds : j # k => net'[j] = net[j]
  BY <1>2, <1>4, NetIs DEF IInv
<1>7. cl' = [pc |-> "login", fd |-> k] /\ cl.pc = "closed" /\ srv # NoName
  BY DEF Connect
<1>8. UNCHANGED <<shared, rings, owed, probes, last_server, mapped, srv, login, live, heard, budget>>
  BY DEF Connect, memory, server
<1>9. /\ cl.fd = NoFd /\ k # NoFd /\ live # k /\ login.fd # k
      /\ login.fd \in Fds \cup {NoFd} /\ NoFd \notin Fds
  BY <1>5, <1>7, ShmSessionAssumption DEF IInv, TypeOK, SocketInv
<1>10. TypeOK'
  BY <1>2, <1>6, <1>7, <1>8, <1>9 DEF IInv, TypeOK
<1>11. MoreTypes'
  BY <1>6, <1>8 DEF IInv, MoreTypes
<1>12. SocketInv'
  BY <1>2, <1>6, <1>7, <1>8, <1>9 DEF IInv, SocketInv
<1>13. SharedInv'
  BY <1>3, <1>6, <1>7, <1>8, <1>9 DEF IInv, SharedInv
<1>14. NameInv'
  BY <1>3, <1>6, <1>7, <1>8, <1>9 DEF IInv, NameInv
<1>15. LastInv'
  BY <1>1, <1>3, <1>6, <1>7, <1>8, <1>9 DEF IInv, LastInv
<1>16. QuietServer => NothingLost' /\ ClearInv'
  BY <1>3, <1>6, <1>7, <1>8, <1>9 DEF IInv, NothingLost, ClearInv, WillClear
<1>17. LoginInv'
  BY <1>2, <1>3, <1>6, <1>8, <1>9 DEF IInv, LoginInv
<1>18. QED
  BY <1>10, <1>11, <1>12, <1>13, <1>14, <1>15, <1>16, <1>17 DEF IInv

\* Fail and a step that needs no failure leave a budget.
LEMMA BudgetOK ==
  ASSUME IInv, UNCHANGED budget \/ Fail
  PROVE  budget' \in 0 .. MaxFailures
BY ShmSessionAssumption DEF IInv, TypeOK, Fail

\* A message that is there can be read.
LEMMA HasOK ==
  ASSUME IInv, NEW k \in Fds \cup {NoFd}, NEW e \in Ends, NEW type, Has(k, e, type)
  PROVE  /\ k \in Fds /\ net[k] \in Conns /\ net[k].out[Peer(e)] # <<>>
         /\ Head(net[k].out[Peer(e)]).type = type
         /\ Head(net[k].out[Peer(e)]) \in Contents(net[k].out[Peer(e)])
         /\ Head(net[k].out[Peer(e)]) \in Msgs
         /\ net[k].open[e]
<1>1. k \in Fds /\ net[k] \in Conns /\ net[k].out[Peer(e)] # <<>>
  BY Ranges DEF Has
<1>2. QED
  BY <1>1, ReadOK DEF Has

\* VerifyShmProbe() sends the request; the login has the name in the LoginMsg.
LEMMA StartProbeOK ==
  ASSUME IInv, NEW k \in Fds, StartProbe(k)
  PROVE  IInv'
<1> DEFINE m == Head(net[k].out[C])
           n1 == Read(net[k], S)
           n == Sent(n1, S, ShmProbeReqMsg)
<1>1. /\ m.type = "login" /\ m \in Contents(net[k].out[C]) /\ m \in Msgs
      /\ net[k] \in Conns /\ net[k].out[C] # <<>> /\ net[k].open[S]
  BY HasOK, EndsAre DEF StartProbe
<1>2. m.name \in Names \cup {NoName}
  BY <1>1 DEF Msgs
<1>3. /\ n1 \in Conns /\ n1.open = net[k].open
      /\ n1.out[S] = net[k].out[S] /\ Contents(n1.out[C]) = {}
  <2>1. Len(net[k].out[C]) = 1
    BY <1>1 DEF IInv, LoginInv
  <2>2. S \in Ends /\ Peer(S) = C
    BY EndsAre
  <2>3. /\ n1 \in Conns /\ n1.open = net[k].open /\ n1.out[S] = net[k].out[S]
        /\ Len(net[k].out[Peer(S)]) = 1 => Contents(n1.out[Peer(S)]) = {}
    BY <1>1, <2>2, ReadOK
  <2> HIDE DEF n1
  <2>4. QED
    BY <2>1, <2>2, <2>3
<1> HIDE DEF n1
<1>4. /\ n \in Conns /\ n.open = net[k].open
      /\ Contents(n.out[S]) \subseteq Contents(net[k].out[S]) \cup {ShmProbeReqMsg}
      /\ Contents(n.out[C]) = {}
  <2>1. ShmProbeReqMsg \in Msgs /\ S \in Ends /\ Peer(S) = C
    BY EndsAre, MsgsAre
  <2>2. QED
    BY <1>3, <2>1, SentOK
<1>5. net' = [net EXCEPT ![k] = n]
  BY DEF StartProbe, n1
<1> HIDE DEF n
<1>6. /\ net' \in [Fds -> Conns] /\ net'[k] = n
      /\ \A j \in Fds : j # k => net'[j] = net[j]
  BY <1>4, <1>5, NetIs DEF IInv
<1>7. /\ login' = [pc |-> "probe", fd |-> k, last |-> m.name]
      /\ probes' = [probes EXCEPT ![k] = "wait"]
      /\ UNCHANGED <<shared, rings, owed, last_server, cl, mapped, srv, live, heard, budget>>
  BY DEF StartProbe, memory, client
<1> HIDE DEF m
<1>8. /\ cl.pc = "login" /\ k = cl.fd => m.name = last_server
      /\ k # live /\ login.fd = NoFd
      /\ \A j \in Fds : \A x \in Contents(net[j].out[C]) : x.type = "login" => j # live
  BY <1>1 DEF IInv, LastInv, LoginInv, StartProbe, NoLogin
<1>9. ~ Granted(ShmProbeReqMsg)
  BY MsgsAre DEF Granted
<1>10. GrantsNothing
  <2>1. srv \in Names \cup {NoName} /\ live \in Fds \cup {NoFd} /\ heard \in BOOLEAN
    BY DEF IInv, TypeOK
  <2>2. QED
    BY <1>1, <1>2, <1>4, <1>6, <1>7, <1>8, <1>9, <2>1, BudgetOK, Ranges
    DEF GrantsNothing, IInv, SharedInv, TypeOK
<1>11. QED
  BY <1>10, GrantsNothingOK

\* The server closes a connection, with a refusal or without.
LEMMA RefuseOK ==
  ASSUME NEW n \in Conns, srv \in Names \cup {NoName}
  PROVE  \A r \in {Closed(n, S), Refuse(n)} :
           /\ r \in Conns /\ r.open[C] = n.open[C] /\ ~ r.open[S]
           /\ \A m \in Contents(r.out[S]) : Granted(m) => m \in Contents(n.out[S])
           /\ Contents(r.out[C]) = {}
<1> DEFINE m == LoginRspMsg(FALSE)
           n1 == Sent(n, S, m)
<1>1. m \in Msgs /\ ~ Granted(m) /\ S \in Ends /\ Peer(S) = C
  BY MsgsAre, EndsAre DEF Granted
<1> HIDE DEF m
<1>2. /\ n1 \in Conns /\ n1.open = n.open
      /\ \A x \in Contents(n1.out[S]) : Granted(x) => x \in Contents(n.out[S])
  BY <1>1, SentOK
<1>3. Refuse(n) = Closed(n1, S)
  BY DEF Refuse, m
<1> HIDE DEF n1
<1>4. \A x \in Conns : LET r == Closed(x, S)
                      IN  /\ r \in Conns /\ r.open[C] = x.open[C] /\ ~ r.open[S]
                          /\ r.out[S] = x.out[S] /\ Contents(r.out[C]) = {}
  BY <1>1, ClosedOK
<1>5. QED
  BY <1>2, <1>3, <1>4

\* PollCtl() closes a connection without a LoginMsg: nobody had it.
LEMMA DropNewOK ==
  ASSUME IInv, NEW k \in Fds, DropNew(k)
  PROVE  IInv'
<1> DEFINE n == Closed(net[k], S)
<1>1. /\ n \in Conns /\ n.open[C] = net[k].open[C] /\ ~ n.open[S]
      /\ \A m \in Contents(n.out[S]) : Granted(m) => m \in Contents(net[k].out[S])
      /\ Contents(n.out[C]) = {}
  BY Ranges, RefuseOK
<1>2. net' = [net EXCEPT ![k] = n]
  BY DEF DropNew
<1> HIDE DEF n
<1>3. /\ net' \in [Fds -> Conns] /\ net'[k] = n
      /\ \A j \in Fds : j # k => net'[j] = net[j]
  BY <1>1, <1>2, NetIs DEF IInv
<1>4. /\ UNCHANGED <<shared, rings, owed, probes, last_server, cl, mapped, srv, login, live, heard, budget>>
      /\ k # live /\ login.fd = NoFd
  BY DEF DropNew, memory, client, server, NoLogin
<1>5. GrantsNothing
  BY <1>1, <1>3, <1>4, BudgetOK, Ranges
  DEF GrantsNothing, IInv, SharedInv, TypeOK, MoreTypes, SocketInv, LastInv, LoginInv
<1>6. QED
  BY <1>5, GrantsNothingOK

\* The client answers the probe: what it finds in the memory is what is shared.
LEMMA HandleShmProbeOK ==
  ASSUME IInv, HandleShmProbe
  PROVE  IInv'
<1>1. PICK k \in Fds : k = cl.fd /\ net[k] \in Conns /\ net[k].out[S] # <<>>
  BY HasOK, EndsAre, Ranges DEF HandleShmProbe
<1> DEFINE m == ShmProbeRspMsg(ProbeExists(k))
           n1 == Read(net[k], C)
           n == Sent(n1, C, m)
<1>2. m \in Msgs /\ m.type = "probe_rsp" /\ C \in Ends /\ S \in Ends /\ Peer(C) = S
  BY MsgsAre, EndsAre DEF ProbeExists
<1> HIDE DEF m
<1>3. /\ n1 \in Conns /\ n1.open = net[k].open
      /\ n1.out[C] = net[k].out[C] /\ Contents(n1.out[S]) \subseteq Contents(net[k].out[S])
  BY <1>1, <1>2, ReadOK
<1> HIDE DEF n1
<1>4. /\ n \in Conns /\ n.open = net[k].open
      /\ Contents(n.out[S]) \subseteq Contents(net[k].out[S])
      /\ Contents(n.out[C]) \subseteq Contents(net[k].out[C]) \cup {m}
  <2>1. /\ n \in Conns /\ n.open = n1.open /\ n.out[Peer(C)] = n1.out[Peer(C)]
        /\ Contents(n.out[C]) \subseteq Contents(n1.out[C]) \cup {m}
    BY <1>2, <1>3, SentOK
  <2> HIDE DEF n
  <2>2. QED
    BY <1>2, <1>3, <2>1
<1>5. net' = [net EXCEPT ![k] = n]
  BY <1>1 DEF HandleShmProbe, n1, m
<1> HIDE DEF n
<1>6. /\ net' \in [Fds -> Conns] /\ net'[k] = n
      /\ \A j \in Fds : j # k => net'[j] = net[j]
  BY <1>1, <1>4, <1>5, NetIs DEF IInv
<1>7. /\ UNCHANGED <<shared, rings, owed, last_server, cl, mapped, srv, login, live, heard, budget>>
      /\ probes' = IF ProbeExists(k) THEN [probes EXCEPT ![k] = "acked"] ELSE probes
  BY <1>1 DEF HandleShmProbe, memory, client, server
<1>8. /\ probes' \in [Fds -> {"none", "wait", "acked"}]
      /\ \A j \in Fds : probes'[j] = "acked" => shared
  BY <1>1, <1>7 DEF ProbeExists, IInv, TypeOK, SharedInv
<1>9. \A x \in Contents(net[k].out[C]) : x.type # "login"
  BY <1>1 DEF IInv, LoginInv
<1>10. GrantsNothing
  <2>1. ASSUME NEW j \in Fds
        PROVE  /\ net'[j].open = net[j].open
               /\ Contents(net'[j].out[S]) \subseteq Contents(net[j].out[S])
               /\ \A x \in Contents(net'[j].out[C]) : x.type = "login" =>
                    net'[j].out = net[j].out /\ j # live /\ j # login.fd
    BY <1>2, <1>4, <1>6, <1>9 DEF IInv, LoginInv
  <2>2. QED
    BY <2>1, <1>6, <1>7, <1>8, BudgetOK, Ranges
    DEF GrantsNothing, IInv, SharedInv, TypeOK, MoreTypes, SocketInv, LastInv
<1>11. QED
  BY <1>10, GrantsNothingOK

\* A login that gets no answer to its probe ends with a refusal.
LEMMA ProbeTimeoutOK ==
  ASSUME IInv, ProbeTimeout
  PROVE  IInv'
<1>1. PICK k \in Fds : k = login.fd /\ k # live
  BY Ranges DEF ProbeTimeout, IInv, SocketInv
<1> DEFINE n == Refuse(net[k])
<1>2. /\ n \in Conns /\ n.open[C] = net[k].open[C] /\ ~ n.open[S]
      /\ \A m \in Contents(n.out[S]) : Granted(m) => m \in Contents(net[k].out[S])
      /\ Contents(n.out[C]) = {}
  BY <1>1, Ranges, RefuseOK
<1>3. net' = [net EXCEPT ![k] = n]
  BY <1>1 DEF ProbeTimeout
<1> HIDE DEF n
<1>4. /\ net' \in [Fds -> Conns] /\ net'[k] = n
      /\ \A j \in Fds : j # k => net'[j] = net[j]
  BY <1>1, <1>2, <1>3, NetIs DEF IInv
<1>5. /\ UNCHANGED <<shared, rings, owed, last_server, cl, mapped, srv, live, heard>>
      /\ probes' = [probes EXCEPT ![k] = "none"] /\ login' = NoLogin
      /\ UNCHANGED budget \/ Fail
  BY <1>1 DEF ProbeTimeout, memory, client
<1>6. GrantsNothing
  BY <1>1, <1>2, <1>4, <1>5, BudgetOK, Ranges
  DEF GrantsNothing, IInv, SharedInv, TypeOK, MoreTypes, SocketInv, LoginInv, NoLogin
<1>7. QED
  BY <1>6, GrantsNothingOK

\* The switch to live: the login was granted over shared memory, and the user has
\* had no message yet.
LEMMA OpenLiveOK ==
  ASSUME IInv, OpenLive
  PROVE  IInv'
<1>1. PICK k \in Fds : k = login.fd /\ login.pc = "rsp" /\ net[k].open[S] /\ live = NoFd /\ shared
  BY Ranges DEF OpenLive, IInv, SocketInv, SharedInv
<1>2. /\ UNCHANGED <<shared, rings, owed, probes, last_server, cl, mapped, srv, net, budget>>
      /\ live' = k /\ heard' = FALSE /\ login' = NoLogin
  BY <1>1 DEF OpenLive, memory, client
<1>3. \A j \in Fds : \A x \in Contents(net[j].out[C]) : x.type = "login" => j # k
  BY <1>1 DEF IInv, LoginInv
<1>4. GrantsNothing
  BY <1>1, <1>2, <1>3, BudgetOK, Ranges
  DEF GrantsNothing, IInv, SharedInv, TypeOK, MoreTypes, NoLogin
<1>5. QED
  BY <1>4, GrantsNothingOK

\* PollCtl() closes a connection that is logged on.
LEMMA SweepOK ==
  ASSUME IInv, Sweep
  PROVE  IInv'
<1>1. PICK k \in Fds : k = live
  BY Ranges DEF Sweep
<1> DEFINE n == Closed(net[k], S)
<1>2. /\ n \in Conns /\ n.open[C] = net[k].open[C] /\ ~ n.open[S]
      /\ \A m \in Contents(n.out[S]) : Granted(m) => m \in Contents(net[k].out[S])
      /\ Contents(n.out[C]) = {}
  BY Ranges, RefuseOK
<1>3. net' = [net EXCEPT ![k] = n]
  BY <1>1 DEF Sweep
<1> HIDE DEF n
<1>4. /\ net' \in [Fds -> Conns] /\ net'[k] = n
      /\ \A j \in Fds : j # k => net'[j] = net[j]
  BY <1>2, <1>3, NetIs DEF IInv
<1>5. /\ UNCHANGED <<shared, rings, owed, probes, last_server, cl, mapped, srv, login, heard>>
      /\ live' = NoFd /\ login.fd = NoFd
      /\ UNCHANGED budget \/ Fail
  BY DEF Sweep, memory, client, NoLogin
<1>6. GrantsNothing
  BY <1>2, <1>4, <1>5, BudgetOK, Ranges
  DEF GrantsNothing, IInv, SharedInv, TypeOK, MoreTypes, SocketInv, LoginInv, LastInv
<1>7. QED
  BY <1>6, GrantsNothingOK

\* The server dies and all its sockets are closed.
LEMMA ServerCrashOK ==
  ASSUME IInv, ServerCrash
  PROVE  IInv'
<1>1. ASSUME NEW k \in Fds
      PROVE  /\ net'[k] \in Conns /\ net'[k].open[C] = net[k].open[C] /\ ~ net'[k].open[S]
             /\ \A m \in Contents(net'[k].out[S]) : Granted(m) => m \in Contents(net[k].out[S])
             /\ Contents(net'[k].out[C]) = {}
  <2>1. net'[k] = Closed(net[k], S)
    BY DEF ServerCrash
  <2>2. QED
    BY <2>1, Ranges, RefuseOK
<1>2. net' \in [Fds -> Conns]
  <2>1. net' = [k \in Fds |-> net'[k]]
    BY DEF ServerCrash
  <2>2. QED
    BY <1>1, <2>1
<1>3. /\ UNCHANGED <<shared, rings, owed, probes, last_server, cl, mapped>>
      /\ srv' = NoName /\ login' = NoLogin /\ live' = NoFd /\ heard' = FALSE
      /\ UNCHANGED budget \/ Fail
  BY DEF ServerCrash, memory, client
<1>4. GrantsNothing
  BY <1>1, <1>2, <1>3, BudgetOK, Ranges
  DEF GrantsNothing, IInv, SharedInv, TypeOK, NoLogin
<1>5. QED
  BY <1>4, GrantsNothingOK

\* A server that is started has no connection yet.
LEMMA StartOK ==
  ASSUME IInv, NEW name \in Names, Start(name)
  PROVE  IInv'
<1>1. /\ UNCHANGED <<shared, rings, owed, probes, last_server, cl, mapped, login, live, heard, net, budget>>
      /\ srv' = name /\ srv = NoName
  BY DEF Start, memory, client
<1>2. live = NoFd /\ login.fd = NoFd /\ \A k \in Fds : ~ net[k].open[S]
  BY <1>1 DEF IInv, SocketInv
<1>3. GrantsNothing
  BY <1>1, <1>2, BudgetOK, Ranges
  DEF GrantsNothing, IInv, SharedInv, TypeOK, MoreTypes, SocketInv, LoginInv, LastInv
<1>4. QED
  BY <1>3, GrantsNothingOK

\* The client closes its socket, if it has one, and may lose what it has mapped.
ClientLeaves ==
  /\ UNCHANGED <<shared, rings, owed, probes, last_server, srv, login, live, heard>>
  /\ cl' = [pc |-> "closed", fd |-> NoFd]
  /\ mapped' \in {mapped, NoName}
  /\ budget' \in 0 .. MaxFailures
  /\ net' \in [Fds -> Conns]
  /\ \A k \in Fds : net'[k] = IF k = cl.fd THEN Closed(net[k], C) ELSE net[k]

\* Such a step preserves IInv.
LEMMA ClientLeavesOK ==
  ASSUME IInv, ClientLeaves
  PROVE  IInv'
<1>1. ASSUME NEW k \in Fds
      PROVE  /\ net'[k].open[S] = net[k].open[S]
             /\ net'[k].out[C] = net[k].out[C]
             /\ net'[k].out[S] \in {net[k].out[S], <<>>}
             /\ ~ net'[k].open[C]
  <2>1. CASE k = cl.fd
    <3>1. C \in Ends /\ Peer(C) = S /\ net[k] \in Conns /\ net'[k] = Closed(net[k], C)
      BY <2>1, EndsAre, Ranges DEF ClientLeaves
    <3> DEFINE n == Closed(net[k], C)
    <3>2. /\ n.open[C] = FALSE /\ n.open[Peer(C)] = net[k].open[Peer(C)]
          /\ n.out[Peer(C)] = <<>> /\ n.out[C] = net[k].out[C]
      BY <3>1, ClosedOK
    <3> HIDE DEF n
    <3>3. net'[k] = n
      BY <3>1 DEF n
    <3>4. QED
      BY <3>1, <3>2, <3>3
  <2>2. CASE k # cl.fd
    BY <2>2 DEF ClientLeaves, IInv, SocketInv
  <2>3. QED
    BY <2>1, <2>2
<1>2. \A k \in Fds : Contents(net'[k].out[S]) \subseteq Contents(net[k].out[S])
  BY <1>1 DEF Contents
<1>3. TypeOK'
  BY <1>1 DEF IInv, TypeOK, ClientLeaves
<1>4. MoreTypes'
  BY DEF IInv, MoreTypes, ClientLeaves
<1>5. SocketInv'
  BY <1>1, Ranges DEF IInv, SocketInv, ClientLeaves
<1>6. LoginInv'
  BY <1>1, Ranges DEF IInv, LoginInv, ClientLeaves
<1>7. SharedInv'
  BY <1>2 DEF IInv, SharedInv, ClientLeaves
<1>8. NameInv'
  BY <1>1, <1>2 DEF IInv, NameInv, ClientLeaves
<1>9. LastInv'
  BY DEF LastInv, ClientLeaves
<1>10. QuietServer => NothingLost' /\ ClearInv'
  BY DEF IInv, NothingLost, ClearInv, WillClear, ClientLeaves
<1>11. QED
  BY <1>3, <1>4, <1>5, <1>6, <1>7, <1>8, <1>9, <1>10 DEF IInv

\* Connect() gives up, and a connection is closed by the client.
LEMMA ClientCloseOK ==
  ASSUME IInv, ConnectFails \/ ClientClose
  PROVE  IInv'
<1>1. PICK k \in Fds : k = cl.fd
  BY Ranges DEF ConnectFails, ClientClose
<1>2. Closed(net[k], C) \in Conns
  BY Ranges, EndsAre, ClosedOK
<1>3. net' = [net EXCEPT ![k] = Closed(net[k], C)]
  BY <1>1 DEF ConnectFails, ClientClose
<1>4. /\ net' \in [Fds -> Conns] /\ net'[k] = Closed(net[k], C)
      /\ \A j \in Fds : j # k => net'[j] = net[j]
  BY <1>2, <1>3, NetIs DEF IInv
<1>5. /\ UNCHANGED <<shared, rings, owed, probes, last_server, mapped, srv, login, live, heard>>
      /\ cl' = [pc |-> "closed", fd |-> NoFd]
      /\ UNCHANGED budget \/ Fail
  BY DEF ConnectFails, ClientClose, memory, server
<1>6. QED
  BY <1>1, <1>4, <1>5, BudgetOK, ClientLeavesOK DEF ClientLeaves

\* The client dies.
LEMMA ClientCrashOK ==
  ASSUME IInv, ClientCrash
  PROVE  IInv'
<1>1. /\ UNCHANGED <<shared, rings, owed, probes, last_server, srv, login, live, heard>>
      /\ cl' = [pc |-> "closed", fd |-> NoFd] /\ mapped' = NoName
      /\ UNCHANGED budget \/ Fail
      /\ net' = [k \in Fds |-> IF k = cl.fd THEN Closed(net[k], C) ELSE net[k]]
  BY DEF ClientCrash, memory, server
<1>2. \A k \in Fds : Closed(net[k], C) \in Conns /\ net[k] \in Conns
  BY Ranges, EndsAre, ClosedOK
<1>3. net' \in [Fds -> Conns]
  BY <1>1, <1>2
<1>4. QED
  BY <1>1, <1>3, BudgetOK, ClientLeavesOK DEF ClientLeaves

\* A connection that the client closes at once is open for the server alone.
LEMMA SendFailsOK ==
  ASSUME IInv, NEW k \in Fds, SendFails(k)
  PROVE  IInv'
<1>1. /\ UNCHANGED <<shared, rings, owed, probes, last_server, cl, mapped, srv, login, live, heard>>
      /\ cl.pc = "closed" /\ srv # NoName /\ net[k] = Free
      /\ net' = [net EXCEPT ![k].open[S] = TRUE]
      /\ UNCHANGED budget \/ Fail
  BY DEF SendFails, memory, client, server
<1> DEFINE n == [Free EXCEPT !.open[S] = TRUE]
<1>2. /\ n \in Conns /\ ~ n.open[C] /\ n.open[S]
      /\ n.out[C] = <<>> /\ n.out[S] = <<>>
  <2> DEFINE o == [Free.open EXCEPT ![S] = TRUE]
  <2>1. Free \in Pipes /\ Free.open = [e \in Ends |-> FALSE] /\ Free.out = [e \in Ends |-> <<>>]
    <3>1. /\ [e \in Ends |-> FALSE] \in [Ends -> BOOLEAN]
          /\ [e \in Ends |-> <<>>] \in [Ends -> Seq(Msgs)]
      OBVIOUS
    <3>2. QED
      BY <3>1 DEF Free, Pipes
  <2>2. o \in [Ends -> BOOLEAN] /\ o[S] /\ ~ o[C]
    BY <2>1, EndsAre
  <2>3. n = [Free EXCEPT !.open = o]
    OBVIOUS
  <2> HIDE DEF o, n
  <2>4. n \in Pipes /\ n.open = o /\ n.out = Free.out
    <3>1. \A f \in Pipes : [f EXCEPT !.open = o] \in Pipes /\ [f EXCEPT !.open = o].open = o
                           /\ [f EXCEPT !.open = o].out = f.out
      BY <2>2 DEF Pipes
    <3>2. QED
      BY <2>1, <2>3, <3>1
  <2>5. QED
    BY <2>1, <2>2, <2>4, EndsAre DEF Conns
<1>3. Contents(n.out[C]) = {} /\ Contents(n.out[S]) = {}
  BY <1>2 DEF Contents
<1>4. net' = [net EXCEPT ![k] = n]
  BY <1>1
<1>5. ~ net[k].open[S]
  BY <1>1, EndsAre DEF Free
<1> HIDE DEF n
<1>6. /\ net' \in [Fds -> Conns] /\ net'[k] = n
      /\ \A j \in Fds : j # k => net'[j] = net[j]
  BY <1>2, <1>4, NetIs DEF IInv
<1>7. cl.fd = NoFd /\ k # NoFd /\ live # k /\ login.fd # k
  BY <1>1, <1>5, Ranges DEF IInv, SocketInv
<1>8. TypeOK'
  BY <1>1, <1>2, <1>6, <1>7, BudgetOK DEF IInv, TypeOK
<1>9. MoreTypes'
  BY <1>1, <1>6 DEF IInv, MoreTypes
<1>10. SocketInv'
  BY <1>1, <1>2, <1>6, <1>7, Ranges DEF IInv, SocketInv
<1>11. LoginInv'
  BY <1>1, <1>3, <1>6 DEF IInv, LoginInv
<1>12. SharedInv'
  BY <1>1, <1>3, <1>6 DEF IInv, SharedInv
<1>13. NameInv'
  BY <1>1, <1>3, <1>6 DEF IInv, NameInv
<1>14. LastInv'
  BY <1>1 DEF LastInv
<1>15. QuietServer => NothingLost' /\ ClearInv'
  BY <1>1 DEF IInv, NothingLost, ClearInv, WillClear
<1>16. QED
  BY <1>8, <1>9, <1>10, <1>11, <1>12, <1>13, <1>14, <1>15 DEF IInv

\* The client reads the answer to its login.  A refusal closes the connection; the
\* name in a grant is the server's, whose rings are then empty if it is new.
LEMMA RecvLoginRspOK ==
  ASSUME IInv, RecvLoginRsp
  PROVE  IInv'
<1>1. PICK k \in Fds : k = cl.fd /\ net[k] \in Conns /\ net[k].out[S] # <<>>
  BY HasOK, EndsAre, Ranges DEF RecvLoginRsp
<1>2. PICK rsp \in Msgs : /\ rsp = Head(net[k].out[S]) /\ rsp \in Contents(net[k].out[S])
                          /\ rsp.type = "login_rsp"
  BY <1>1, HasOK, EndsAre, Ranges DEF RecvLoginRsp
<1>3. /\ UNCHANGED <<shared, rings, owed, probes, srv, login, live, heard, budget>>
      /\ cl.pc = "login"
  BY DEF RecvLoginRsp, memory, server
<1>4. CASE ~ rsp.ok
  <2>1. Closed(net[k], C) \in Conns
    BY <1>1, EndsAre, ClosedOK
  <2>2. /\ net' = [net EXCEPT ![k] = Closed(net[k], C)]
        /\ cl' = [pc |-> "closed", fd |-> NoFd]
        /\ UNCHANGED <<last_server, mapped>>
    BY <1>1, <1>2, <1>4 DEF RecvLoginRsp
  <2>3. /\ net' \in [Fds -> Conns] /\ net'[k] = Closed(net[k], C)
        /\ \A j \in Fds : j # k => net'[j] = net[j]
    BY <2>1, <2>2, NetIs DEF IInv
  <2>4. QED
    BY <1>1, <1>3, <2>2, <2>3, BudgetOK, ClientLeavesOK DEF ClientLeaves
<1>5. CASE rsp.ok
  <2> DEFINE n == Read(net[k], C)
  <2>1. C \in Ends /\ Peer(C) = S
    BY EndsAre
  <2>2. /\ n \in Conns /\ n.open = net[k].open /\ n.out[C] = net[k].out[C]
        /\ Contents(n.out[Peer(C)]) \subseteq Contents(net[k].out[Peer(C)])
    BY <1>1, <2>1, ReadOK
  <2>3. /\ net' = [net EXCEPT ![k] = n] /\ last_server' = rsp.name
        /\ cl' = [cl EXCEPT !.pc = IF rsp.name = last_server THEN "open" ELSE "named"]
        /\ mapped' = IF rsp.name = last_server THEN OpenFile(rsp.name) ELSE NoName
    BY <1>1, <1>2, <1>5 DEF RecvLoginRsp
  <2> HIDE DEF n
  <2>4. /\ net' \in [Fds -> Conns] /\ net'[k] = n
        /\ \A j \in Fds : j # k => net'[j] = net[j]
    BY <2>2, <2>3, NetIs DEF IInv
  <2>5. ASSUME NEW j \in Fds
        PROVE  /\ net'[j].open = net[j].open /\ net'[j].out[C] = net[j].out[C]
               /\ Contents(net'[j].out[S]) \subseteq Contents(net[j].out[S])
    BY <2>1, <2>2, <2>4
  <2>6. /\ rsp.name \in Names /\ shared
        /\ net[k].open[S] => rsp.name = srv
    BY <1>2, <1>5 DEF Granted, IInv, SharedInv, NameInv, Msgs
  <2>7. /\ cl' \in [pc : {"closed", "login", "named", "clear", "open"}, fd : Fds \cup {NoFd}]
        /\ cl'.fd = k /\ k # NoFd
        /\ rsp.name = last_server => cl'.pc = "open"
        /\ rsp.name # last_server => cl'.pc = "named"
    BY <1>1, <2>3, Ranges DEF IInv, TypeOK
  <2>8. /\ mapped' \in {NoName, rsp.name} /\ rsp.name # NoName
        /\ rsp.name = last_server => mapped' # NoName
    BY <2>3, <2>6, Ranges DEF OpenFile, IInv, NameInv
  <2>9. TypeOK'
    BY <1>3, <2>3, <2>5, <2>6, <2>7, <2>8 DEF IInv, TypeOK
  <2>10. MoreTypes'
    BY <1>3, <2>4 DEF IInv, MoreTypes
  <2>11. SocketInv'
    BY <1>1, <1>3, <2>5, <2>7, Ranges DEF IInv, SocketInv
  <2>12. LoginInv'
    <3>1. \A x \in Contents(net[k].out[C]) : x.type # "login"
      BY <1>1 DEF IInv, LoginInv
    <3>2. QED
      BY <1>3, <2>4, <2>5, <3>1 DEF IInv, LoginInv
  <2>13. SharedInv'
    BY <1>3, <2>5, <2>6 DEF IInv, SharedInv
  <2>14. NameInv'
    BY <1>3, <2>3, <2>5, <2>6, <2>7, <2>8 DEF IInv, NameInv
  <2>15. LastInv'
    BY <2>7 DEF LastInv
  <2>16. QuietServer => NothingLost' /\ ClearInv'
    <3>1. ASSUME NEW s \in Names, WillClear(s)'
          PROVE  WillClear(s)
      <4>1. cl'.pc = "named" /\ s = rsp.name /\ s # last_server
        BY <2>3, <2>7, <3>1 DEF WillClear
      <4>2. QED
        BY <1>1, <1>2, <1>3, <1>5, <4>1 DEF WillClear, Granted
    <3>2. QED
      BY <1>3, <3>1 DEF IInv, NothingLost, ClearInv
  <2>17. QED
    BY <2>9, <2>10, <2>11, <2>12, <2>13, <2>14, <2>15, <2>16 DEF IInv
<1>6. QED
  BY <1>4, <1>5

\* The rings that the client clears are empty already, when the server's user has
\* only answered: the clearing loses nothing.
LEMMA ResetRingOK ==
  ASSUME IInv, ResetRing
  PROVE  IInv'
<1>1. /\ UNCHANGED <<shared, probes, last_server, srv, login, live, heard, net, owed, budget>>
      /\ cl.pc \in {"named", "clear"}
      /\ cl' = [cl EXCEPT !.pc = IF @ = "named" THEN "clear" ELSE "open"]
  BY DEF ResetRing, server
<1>2. last_server \in Names /\ mapped' = last_server
  BY <1>1, Ranges DEF ResetRing, OpenFile, IInv, NameInv
<1>3. PICK e \in Ends : rings' = [rings EXCEPT ![last_server][e] = <<>>]
  BY <1>2, EndsAre DEF ResetRing
<1>4. /\ cl' \in [pc : {"closed", "login", "named", "clear", "open"}, fd : Fds \cup {NoFd}]
      /\ cl'.fd = cl.fd /\ cl'.pc \in {"clear", "open"}
      /\ cl'.pc = "clear" => cl.pc = "named"
  BY <1>1 DEF IInv, TypeOK
<1>5. /\ rings' \in [Names -> [Ends -> Seq(Values)]]
      /\ \A s \in Names, x \in Ends : rings'[s][x] \in {rings[s][x], <<>>}
  BY <1>2, <1>3 DEF IInv, TypeOK
<1>6. TypeOK'
  <2>1. \A s \in Names, x \in Ends : Len(rings'[s][x]) <= RingCap
    BY <1>5, ShmSessionAssumption DEF IInv, TypeOK
  <2>2. QED
    BY <1>1, <1>2, <1>4, <1>5, <2>1 DEF IInv, TypeOK
<1>7. MoreTypes'
  BY <1>1 DEF IInv, MoreTypes
<1>8. SocketInv'
  BY <1>1, <1>4 DEF IInv, SocketInv
<1>9. LoginInv'
  BY <1>1 DEF IInv, LoginInv
<1>10. SharedInv'
  BY <1>1, <1>4 DEF IInv, SharedInv
<1>11. NameInv'
  BY <1>1, <1>2, <1>4, Ranges DEF IInv, NameInv
<1>12. LastInv'
  BY <1>4 DEF LastInv
<1>13. ASSUME QuietServer
       PROVE  NothingLost' /\ ClearInv'
  <2>1. rings[last_server] = EmptyRings
    BY <1>1, <1>2, <1>13 DEF IInv, ClearInv, WillClear
  <2>2. rings' = rings
    BY <1>2, <1>3, <2>1 DEF EmptyRings, IInv, TypeOK
  <2>3. ASSUME NEW s \in Names, WillClear(s)'
        PROVE  WillClear(s)
    BY <1>1, <1>4, <2>3 DEF WillClear
  <2>4. QED
    BY <1>1, <1>13, <2>2, <2>3 DEF IInv, NothingLost, ClearInv
<1>14. QED
  BY <1>6, <1>7, <1>8, <1>9, <1>10, <1>11, <1>12, <1>13 DEF IInv

\* HandleLogin() grants a login only after a probe that was acknowledged, and it
\* clears the rings before it tells the client that the server is new to it.
LEMMA HandleLoginOK ==
  ASSUME IInv, HandleLogin
  PROVE  IInv'
<1>1. PICK k \in Fds : /\ k = login.fd /\ net[k] \in Conns /\ net[k].out[C] # <<>>
                       /\ net[k].open[S] /\ k # live /\ srv \in Names
                       /\ Head(net[k].out[C]) \in Contents(net[k].out[C])
                       /\ Head(net[k].out[C]).type = "probe_rsp"
  <2>1. /\ login.fd \in Fds /\ net[login.fd] \in Conns /\ net[login.fd].out[C] # <<>>
        /\ Head(net[login.fd].out[C]) \in Contents(net[login.fd].out[C])
        /\ Head(net[login.fd].out[C]).type = "probe_rsp"
    BY HasOK, EndsAre, Ranges DEF HandleLogin
  <2>2. net[login.fd].open[S] /\ login.fd # live /\ srv \in Names
    BY <2>1, Ranges DEF IInv, SocketInv
  <2>3. QED
    BY <2>1, <2>2
<1> DEFINE n == Read(net[k], S)
           accepted == ProbeAccepted(k) /\ live = NoFd
<1>2. S \in Ends /\ C \in Ends /\ Peer(S) = C
  BY EndsAre
<1>3. \A x \in Contents(net[k].out[C]) : x.type # "login"
  BY <1>1 DEF IInv, LoginInv
<1>4. /\ n \in Conns /\ n.open = net[k].open /\ n.out[S] = net[k].out[S]
      /\ \A x \in Contents(n.out[C]) : x.type # "login"
  <2>1. /\ n \in Conns /\ n.open = net[k].open /\ n.out[S] = net[k].out[S]
        /\ Contents(n.out[Peer(S)]) \subseteq Contents(net[k].out[Peer(S)])
    BY <1>1, <1>2, ReadOK
  <2> HIDE DEF n
  <2>2. QED
    BY <1>2, <1>3, <2>1
<1>5. /\ UNCHANGED <<shared, last_server, cl, mapped, srv, live, heard, budget>>
      /\ probes' = [probes EXCEPT ![k] = "none"]
      /\ login.pc = "probe"
      /\ IF ~ accepted
         THEN /\ net' = [net EXCEPT ![k] = Refuse(n)]
              /\ login' = NoLogin
              /\ UNCHANGED <<rings, owed>>
         ELSE /\ rings' = IF login.last # srv THEN [rings EXCEPT ![srv] = EmptyRings] ELSE rings
              /\ owed' = IF login.last # srv THEN [owed EXCEPT ![srv] = EmptyRings] ELSE owed
              /\ \/ /\ net' = [net EXCEPT ![k] = Sent(n, S, LoginRspMsg(TRUE))]
                    /\ login' = [login EXCEPT !.pc = "rsp"]
                 \/ /\ net' = [net EXCEPT ![k] = Closed(n, S)]
                    /\ login' = NoLogin
  BY <1>1 DEF HandleLogin, ResetsRings, memory, client
<1> HIDE DEF n
<1>6. CASE ~ accepted
  <2> DEFINE r == Refuse(n)
  <2>1. /\ r \in Conns /\ r.open[C] = n.open[C] /\ ~ r.open[S]
        /\ \A m \in Contents(r.out[S]) : Granted(m) => m \in Contents(n.out[S])
        /\ Contents(r.out[C]) = {}
    BY <1>1, <1>4, RefuseOK
  <2>2. net' = [net EXCEPT ![k] = r] /\ login' = NoLogin /\ UNCHANGED <<rings, owed>>
    BY <1>5, <1>6
  <2> HIDE DEF r
  <2>3. /\ net' \in [Fds -> Conns] /\ net'[k] = r
        /\ \A j \in Fds : j # k => net'[j] = net[j]
    BY <2>1, <2>2, NetIs DEF IInv
  <2>4. GrantsNothing
    BY <1>1, <1>4, <1>5, <2>1, <2>2, <2>3, BudgetOK, Ranges
    DEF GrantsNothing, IInv, SharedInv, TypeOK, SocketInv, LoginInv, NoLogin
  <2>5. QED
    BY <2>4, GrantsNothingOK
<1>7. CASE accepted
  <2>1. shared /\ live = NoFd
    BY <1>7 DEF ProbeAccepted, IInv, SharedInv
  <2>2. PICK r \in Conns :
          /\ net' = [net EXCEPT ![k] = r]
          /\ r.open[C] = net[k].open[C]
          /\ \A x \in Contents(r.out[C]) : x.type # "login"
          /\ \A m \in Contents(r.out[S]) :
               Granted(m) => m \in Contents(net[k].out[S]) \/ m.name = srv
          /\ \/ r.open[S] /\ login' = [login EXCEPT !.pc = "rsp"]
             \/ ~ r.open[S] /\ login' = NoLogin
    <3>1. CASE /\ net' = [net EXCEPT ![k] = Sent(n, S, LoginRspMsg(TRUE))]
               /\ login' = [login EXCEPT !.pc = "rsp"]
      <4> DEFINE m == LoginRspMsg(TRUE)
                 r == Sent(n, S, m)
      <4>1. m \in Msgs /\ m.name = srv
        BY <1>1, MsgsAre
      <4> HIDE DEF m
      <4>2. /\ r \in Conns /\ r.open = n.open /\ r.out[Peer(S)] = n.out[Peer(S)]
            /\ Contents(r.out[S]) \subseteq Contents(n.out[S]) \cup {m}
        BY <1>2, <1>4, <4>1, SentOK
      <4>3. net' = [net EXCEPT ![k] = r]
        BY <3>1 DEF m
      <4> HIDE DEF r
      <4>4. QED
        BY <1>1, <1>2, <1>4, <3>1, <4>1, <4>2, <4>3
    <3>2. CASE net' = [net EXCEPT ![k] = Closed(n, S)] /\ login' = NoLogin
      <4> DEFINE r == Closed(n, S)
      <4>1. /\ r \in Conns /\ r.open[C] = n.open[C] /\ ~ r.open[S]
            /\ \A m \in Contents(r.out[S]) : Granted(m) => m \in Contents(n.out[S])
            /\ Contents(r.out[C]) = {}
        BY <1>1, <1>4, RefuseOK
      <4> HIDE DEF r
      <4>2. net' = [net EXCEPT ![k] = r]
        BY <3>2 DEF r
      <4>3. QED
        BY <1>4, <3>2, <4>1, <4>2
    <3>3. QED
      BY <1>5, <1>7, <3>1, <3>2
  <2>3. /\ net' \in [Fds -> Conns] /\ net'[k] = r
        /\ \A j \in Fds : j # k => net'[j] = net[j]
    BY <2>2, NetIs DEF IInv
  <2>4. /\ login' \in [pc : {"free", "probe", "rsp"}, fd : Fds \cup {NoFd},
                       last : Names \cup {NoName}]
        /\ login'.pc = "free" <=> login'.fd = NoFd
        /\ login'.fd # NoFd => login'.fd = k /\ r.open[S] /\ login'.last = login.last
    BY <1>1, <2>2, Ranges DEF IInv, MoreTypes, NoLogin
  <2>5. /\ rings' \in [Names -> [Ends -> Seq(Values)]]
        /\ owed' \in [Names -> [Ends -> Seq(Values)]]
        /\ \A s \in Names : rings'[s] \in {rings[s], EmptyRings}
        /\ \A s \in Names : rings[s] = owed[s] => rings'[s] = owed'[s]
        /\ login.last # srv => rings'[srv] = EmptyRings
    <3>1. EmptyRings \in [Ends -> Seq(Values)]
      BY DEF EmptyRings
    <3>2. /\ rings \in [Names -> [Ends -> Seq(Values)]]
          /\ owed \in [Names -> [Ends -> Seq(Values)]]
      BY DEF IInv, TypeOK, MoreTypes
    <3>3. CASE login.last # srv
      <4>1. rings' = [rings EXCEPT ![srv] = EmptyRings] /\ owed' = [owed EXCEPT ![srv] = EmptyRings]
        BY <1>5, <1>7, <3>3
      <4>2. QED
        BY <1>1, <3>1, <3>2, <4>1
    <3>4. CASE login.last = srv
      BY <1>5, <1>7, <3>2, <3>4
    <3>5. QED
      BY <3>3, <3>4
  <2>6. TypeOK'
    <3>1. \A s \in Names, x \in Ends : Len(rings'[s][x]) <= RingCap
      <4>1. \A x \in Ends : Len(EmptyRings[x]) = 0
        BY DEF EmptyRings
      <4>2. /\ RingCap \in Nat
            /\ \A s \in Names, x \in Ends : Len(rings[s][x]) <= RingCap
        BY ShmSessionAssumption DEF IInv, TypeOK
      <4>3. ASSUME NEW s \in Names, NEW x \in Ends
            PROVE  Len(rings'[s][x]) <= RingCap
        <5>1. rings'[s] = rings[s] \/ rings'[s] = EmptyRings
          BY <2>5
        <5>2. Len(EmptyRings[x]) <= RingCap
          BY <4>1, <4>2
        <5>3. QED
          BY <4>2, <5>1, <5>2
      <4>4. QED
        BY <4>3
    <3>2. probes' \in [Fds -> {"none", "wait", "acked"}]
      BY <1>5 DEF IInv, TypeOK
    <3>3. QED
      BY <1>5, <2>1, <2>4, <2>5, <3>1, <3>2 DEF IInv, TypeOK
  <2>7. MoreTypes'
    BY <2>3, <2>4, <2>5 DEF MoreTypes
  <2>8. SocketInv'
    BY <1>1, <1>5, <2>1, <2>2, <2>3, <2>4, Ranges DEF IInv, SocketInv
  <2>9. LoginInv'
    BY <1>5, <2>1, <2>2, <2>3, <2>4, Ranges DEF IInv, LoginInv
  <2>10. SharedInv'
    BY <1>5, <2>1 DEF IInv, SharedInv, TypeOK
  <2>11. NameInv'
    BY <1>1, <1>5, <2>2, <2>3, Ranges DEF IInv, NameInv
  <2>12. LastInv'
    BY <1>1, <1>5, <2>2, <2>3, <2>4, Ranges DEF IInv, LastInv
  <2>13. QuietServer => NothingLost' /\ ClearInv'
    <3>1. ASSUME NEW s \in Names, WillClear(s)'
          PROVE  WillClear(s) \/ (s = srv /\ login.last # srv)
      <4>1. CASE cl.pc = "login" /\ cl.fd = k
        <5>1. login.last = last_server
          BY <1>1, <4>1 DEF IInv, LastInv
        <5>2. QED
          BY <1>5, <2>2, <2>3, <3>1, <4>1, <5>1 DEF WillClear
      <4>2. CASE cl.pc = "login" /\ cl.fd # k
        BY <1>5, <2>3, <3>1, <4>2, Ranges DEF WillClear
      <4>3. CASE cl.pc # "login"
        BY <1>5, <3>1, <4>3 DEF WillClear
      <4>4. QED
        BY <4>1, <4>2, <4>3
    <3>2. QED
      BY <1>1, <1>5, <2>1, <2>5, <3>1 DEF IInv, NothingLost, ClearInv
  <2>14. QED
    BY <2>6, <2>7, <2>8, <2>9, <2>10, <2>11, <2>12, <2>13 DEF IInv
<1>8. QED
  BY <1>6, <1>7

\* The rings that an end uses are those of a server, and while the client is about
\* to clear the rings of that server only the server may use them.
LEMMA UsingOK ==
  ASSUME IInv, NEW e \in Ends, Using(e) # NoName
  PROVE  /\ Using(e) \in Names
         /\ e = C => \A s \in Names : ~ WillClear(s)
         /\ e = S => live # NoFd /\ Using(e) = srv
BY Ranges, EndsAre DEF Using, WillClear

\* A message is not taken from rings that are about to be cleared: they are empty.
LEMMA PopMsgOK ==
  ASSUME IInv, NEW e \in Ends, PopMsg(e)
  PROVE  IInv'
<1>1. PICK p \in Ends : p = Peer(e)
  BY EndsAre
<1>2. PICK s \in Names : /\ s = Using(e) /\ rings[s][p] # <<>>
                         /\ rings' = [rings EXCEPT ![s][p] = Tail(@)]
                         /\ owed' = [owed EXCEPT ![s][p] = IF @ = <<>> THEN @ ELSE Tail(@)]
  BY <1>1, UsingOK DEF PopMsg
<1>3. /\ UNCHANGED <<shared, probes, last_server, cl, mapped, srv, login, live, net, budget>>
      /\ heard' = (heard \/ e = S)
  BY DEF PopMsg, client
<1>4. /\ rings \in [Names -> [Ends -> Seq(Values)]]
      /\ owed \in [Names -> [Ends -> Seq(Values)]]
      /\ RingCap \in Nat
      /\ \A x \in Names, y \in Ends : Len(rings[x][y]) <= RingCap
  BY ShmSessionAssumption DEF IInv, TypeOK, MoreTypes
<1>5. /\ Tail(rings[s][p]) \in Seq(Values) /\ Len(Tail(rings[s][p])) <= RingCap
      /\ owed[s][p] # <<>> => Tail(owed[s][p]) \in Seq(Values)
  <2>1. rings[s][p] \in Seq(Values) /\ owed[s][p] \in Seq(Values) /\ Len(rings[s][p]) <= RingCap
    BY <1>4
  <2>2. QED
    BY <1>2, <1>4, <2>1
<1>6. /\ rings' \in [Names -> [Ends -> Seq(Values)]]
      /\ owed' \in [Names -> [Ends -> Seq(Values)]]
      /\ \A x \in Names, y \in Ends : Len(rings'[x][y]) <= RingCap
      /\ \A x \in Names : x # s => rings'[x] = rings[x] /\ owed'[x] = owed[x]
      /\ rings[s] = owed[s] => rings'[s] = owed'[s]
  <2>1. PICK t \in Seq(Values) : t = IF owed[s][p] = <<>> THEN owed[s][p] ELSE Tail(owed[s][p])
    BY <1>4, <1>5
  <2>2. PICK q \in Seq(Values) : q = Tail(rings[s][p]) /\ Len(q) <= RingCap
    BY <1>5
  <2>3. rings' = [rings EXCEPT ![s][p] = q] /\ owed' = [owed EXCEPT ![s][p] = t]
    BY <1>2, <2>1, <2>2
  <2>4. rings[s] = owed[s] => q = t
    BY <1>2, <2>1, <2>2
  <2>5. QED
    BY <1>4, <2>2, <2>3, <2>4
<1>7. TypeOK'
  <2>1. heard' \in BOOLEAN
    BY <1>3
  <2>2. QED
    BY <1>3, <1>6, <2>1 DEF IInv, TypeOK
<1>8. MoreTypes'
  BY <1>3, <1>6 DEF IInv, MoreTypes
<1>9. SocketInv' /\ LoginInv' /\ SharedInv' /\ NameInv' /\ LastInv'
  BY <1>3 DEF IInv, SocketInv, LoginInv, SharedInv, NameInv, LastInv
<1>10. ASSUME QuietServer
       PROVE  NothingLost' /\ ClearInv'
  <2>1. ASSUME NEW x \in Names, WillClear(x)'
        PROVE  /\ rings'[x] = EmptyRings
               /\ live' # NoFd /\ srv' = x => ~ heard'
    <3>1. /\ WillClear(x) /\ rings[x] = EmptyRings
          /\ live # NoFd /\ srv = x => ~ heard
      BY <1>3, <1>10, <2>1 DEF WillClear, IInv, ClearInv
    <3>2. x # s
      BY <1>2, <3>1 DEF EmptyRings
    <3>3. e # C
      BY <1>2, <3>1, UsingOK, Ranges
    <3>4. e = S /\ srv = s
      BY <1>2, <3>3, UsingOK, EndsAre, Ranges
    <3>5. QED
      BY <1>3, <1>6, <3>1, <3>2, <3>4
  <2>2. QED
    BY <1>6, <1>10, <2>1 DEF IInv, NothingLost, ClearInv
<1>11. QED
  BY <1>7, <1>8, <1>9, <1>10 DEF IInv

\* A message is not put into rings that are about to be cleared: the client is in
\* Connect(), and the server's user has nothing to answer.
LEMMA PushMsgOK ==
  ASSUME IInv, NEW e \in Ends, NEW v \in Values, PushMsg(e, v)
  PROVE  IInv'
<1>1. PICK s \in Names : /\ s = Using(e)
                         /\ Len(rings[s][e]) < RingCap
                         /\ rings' = [rings EXCEPT ![s][e] = Append(@, v)]
                         /\ owed' = [owed EXCEPT ![s][e] = Append(@, v)]
  BY UsingOK DEF PushMsg
<1>2. /\ UNCHANGED <<shared, probes, last_server, cl, mapped, srv, login, live, heard, net, budget>>
      /\ e = S /\ QuietServer => heard
  BY DEF PushMsg, client, server
<1>3. /\ rings \in [Names -> [Ends -> Seq(Values)]]
      /\ owed \in [Names -> [Ends -> Seq(Values)]]
      /\ RingCap \in Nat
      /\ \A x \in Names, y \in Ends : Len(rings[x][y]) <= RingCap
  BY ShmSessionAssumption DEF IInv, TypeOK, MoreTypes
<1>4. /\ Append(rings[s][e], v) \in Seq(Values) /\ Len(Append(rings[s][e], v)) <= RingCap
      /\ Append(owed[s][e], v) \in Seq(Values)
  <2>1. rings[s][e] \in Seq(Values) /\ owed[s][e] \in Seq(Values)
    BY <1>3
  <2>2. QED
    BY <1>1, <1>3, <2>1
<1>5. /\ rings' \in [Names -> [Ends -> Seq(Values)]]
      /\ owed' \in [Names -> [Ends -> Seq(Values)]]
      /\ \A x \in Names, y \in Ends : Len(rings'[x][y]) <= RingCap
      /\ \A x \in Names : x # s => rings'[x] = rings[x] /\ owed'[x] = owed[x]
      /\ rings[s] = owed[s] => rings'[s] = owed'[s]
  <2>1. PICK q \in Seq(Values) : q = Append(rings[s][e], v) /\ Len(q) <= RingCap
    BY <1>4
  <2>2. PICK t \in Seq(Values) : t = Append(owed[s][e], v)
    BY <1>4
  <2>3. rings' = [rings EXCEPT ![s][e] = q] /\ owed' = [owed EXCEPT ![s][e] = t]
    BY <1>1, <2>1, <2>2
  <2>4. rings[s] = owed[s] => q = t
    BY <2>1, <2>2
  <2>5. QED
    BY <1>3, <2>1, <2>3, <2>4
<1>6. TypeOK'
  BY <1>2, <1>5 DEF IInv, TypeOK
<1>7. MoreTypes'
  BY <1>2, <1>5 DEF IInv, MoreTypes
<1>8. SocketInv' /\ LoginInv' /\ SharedInv' /\ NameInv' /\ LastInv'
  BY <1>2 DEF IInv, SocketInv, LoginInv, SharedInv, NameInv, LastInv
<1>9. ASSUME QuietServer
      PROVE  NothingLost' /\ ClearInv'
  <2>1. ASSUME NEW x \in Names, WillClear(x)'
        PROVE  /\ rings'[x] = EmptyRings
               /\ live' # NoFd /\ srv' = x => ~ heard'
    <3>1. /\ WillClear(x) /\ rings[x] = EmptyRings
          /\ live # NoFd /\ srv = x => ~ heard
      BY <1>2, <1>9, <2>1 DEF WillClear, IInv, ClearInv
    <3>2. e # C
      BY <1>1, <3>1, UsingOK, Ranges
    <3>3. e = S /\ srv = s /\ live # NoFd
      BY <1>1, <3>2, UsingOK, EndsAre, Ranges
    <3>4. x # s
      BY <1>2, <1>9, <3>1, <3>3
    <3>5. QED
      BY <1>2, <1>5, <3>1, <3>4
  <2>2. QED
    BY <1>5, <1>9, <2>1 DEF IInv, NothingLost, ClearInv
<1>10. QED
  BY <1>6, <1>7, <1>8, <1>9 DEF IInv

-----------------------------------------------------------------------------
(* The theorems.                                                           *)

\* IInv holds at the start: no socket, nothing in the rings.
LEMMA InitOK ==
  ASSUME Init
  PROVE  IInv
<1>1. Free \in Conns
  <2>1. /\ [e \in Ends |-> FALSE] \in [Ends -> BOOLEAN]
        /\ [e \in Ends |-> <<>>] \in [Ends -> Seq(Msgs)]
    OBVIOUS
  <2>2. Free \in Pipes
    BY <2>1 DEF Free, Pipes
  <2>3. QED
    BY <2>2, EndsAre DEF Conns, Free
<1>2. /\ ~ Free.open[C] /\ ~ Free.open[S]
      /\ Contents(Free.out[C]) = {} /\ Contents(Free.out[S]) = {}
  <2>1. ~ Free.open[C] /\ ~ Free.open[S] /\ Free.out[C] = <<>> /\ Free.out[S] = <<>>
    BY EndsAre DEF Free
  <2>2. Contents(<<>>) = {}
    BY DEF Contents
  <2>3. QED
    BY <2>1, <2>2
<1>3. net \in [Fds -> Conns] /\ \A k \in Fds : net[k] = Free
  BY <1>1 DEF Init
<1>4. /\ EmptyRings \in [Ends -> Seq(Values)]
      /\ \A e \in Ends : Len(EmptyRings[e]) = 0
  BY DEF EmptyRings
<1>5. TypeOK
  <2>1. /\ rings \in [Names -> [Ends -> Seq(Values)]]
        /\ \A s \in Names, e \in Ends : Len(rings[s][e]) <= RingCap
    BY <1>4, ShmSessionAssumption DEF Init
  <2>2. budget \in 0 .. MaxFailures
    BY ShmSessionAssumption DEF Init
  <2>3. QED
    BY <2>1, <2>2, ShmSessionAssumption DEF Init, TypeOK, NoLogin
<1>6. MoreTypes
  BY <1>3, <1>4 DEF Init, MoreTypes, NoLogin
<1>7. SocketInv
  BY <1>2, <1>3 DEF Init, SocketInv, NoLogin
<1>8. LoginInv
  BY <1>2, <1>3 DEF LoginInv
<1>9. SharedInv
  BY <1>2, <1>3 DEF Init, SharedInv, NoLogin
<1>10. NameInv
  BY <1>2, <1>3 DEF Init, NameInv
<1>11. LastInv
  BY DEF Init, LastInv
<1>12. NothingLost /\ ClearInv
  BY DEF Init, NothingLost, ClearInv, WillClear
<1>13. QED
  BY <1>5, <1>6, <1>7, <1>8, <1>9, <1>10, <1>11, <1>12 DEF IInv

\* The inductive invariant: what the parts of IInv say of the sockets, the probes,
\* the names and the rings holds throughout, whatever fails and restarts.
THEOREM SessionInvariant == Spec => []IInv
<1>1. Init => IInv
  BY InitOK
<1>2. IInv /\ [Next]_vars => IInv'
  <2> SUFFICES ASSUME IInv, [Next]_vars
               PROVE  IInv'
    OBVIOUS
  <2>1. ASSUME NEW k \in Fds, Connect(k)
        PROVE  IInv'
    BY <2>1, ConnectOK
  <2>2. ASSUME NEW k \in Fds, SendFails(k)
        PROVE  IInv'
    BY <2>2, SendFailsOK
  <2>3. ASSUME NEW k \in Fds, StartProbe(k)
        PROVE  IInv'
    BY <2>3, StartProbeOK
  <2>4. ASSUME NEW k \in Fds, DropNew(k)
        PROVE  IInv'
    BY <2>4, DropNewOK
  <2>5. CASE HandleShmProbe
    BY <2>5, HandleShmProbeOK
  <2>6. CASE RecvLoginRsp
    BY <2>6, RecvLoginRspOK
  <2>7. CASE ResetRing
    BY <2>7, ResetRingOK
  <2>8. CASE ConnectFails \/ ClientClose
    BY <2>8, ClientCloseOK
  <2>9. CASE ClientCrash
    BY <2>9, ClientCrashOK
  <2>10. CASE ProbeTimeout
    BY <2>10, ProbeTimeoutOK
  <2>11. CASE HandleLogin
    BY <2>11, HandleLoginOK
  <2>12. CASE OpenLive
    BY <2>12, OpenLiveOK
  <2>13. CASE Sweep
    BY <2>13, SweepOK
  <2>14. CASE ServerCrash
    BY <2>14, ServerCrashOK
  <2>15. ASSUME NEW name \in Names, Start(name)
         PROVE  IInv'
    BY <2>15, StartOK
  <2>16. ASSUME NEW e \in Ends, PopMsg(e)
         PROVE  IInv'
    BY <2>16, PopMsgOK
  <2>17. ASSUME NEW e \in Ends, NEW v \in Values, PushMsg(e, v)
         PROVE  IInv'
    BY <2>17, PushMsgOK
  <2>18. CASE UNCHANGED vars
    BY <2>18 DEF vars, memory, client, server, IInv, TypeOK, MoreTypes, SocketInv, LoginInv,
                 SharedInv, NameInv, LastInv, NothingLost, ClearInv, WillClear
  <2>19. QED
    BY <2>1, <2>2, <2>3, <2>4, <2>5, <2>6, <2>7, <2>8, <2>9, <2>10, <2>11, <2>12,
       <2>13, <2>14, <2>15, <2>16, <2>17, <2>18 DEF Next
<1>3. QED
  BY <1>1, <1>2, PTL DEF Spec

\* Every variable stays in its range; in particular a ring never holds more than
\* fits, and the connection that is logged on is open at the server.
THEOREM SessionTypes == Spec => []TypeOK
<1>1. IInv => TypeOK
  BY DEF IInv
<1>2. QED
  BY <1>1, SessionInvariant, PTL

\* VerifyShmProbe() and HandleShmProbe() let nobody log on, and no ring be mapped,
\* unless the two processes see the same memory.
THEOREM SessionSharedOnly == Spec => []SharedOnly
<1>1. IInv => SharedOnly
  BY DEF IInv, SharedInv, SharedOnly
<1>2. QED
  BY <1>1, SessionInvariant, PTL

\* A client and a server that are connected have mapped the same rings, although
\* the client keeps rings mapped and the server may come back under another name.
THEOREM SessionSameRings == Spec => []SameRings
<1>1. IInv => SameRings
  BY Ranges DEF IInv, NameInv, SameRings
<1>2. QED
  BY <1>1, SessionInvariant, PTL

\* When the server's user only answers the client, neither of the two places that
\* clear the rings of a new pair of names ever discards a message or leaves an old
\* one, for any number of crashes, refused logins and stale connections.
THEOREM SessionNothingLost ==
  ASSUME QuietServer
  PROVE  Spec => []NothingLost
<1>1. IInv => NothingLost
  BY DEF IInv
<1>2. QED
  BY <1>1, SessionInvariant, PTL

=============================================================================
