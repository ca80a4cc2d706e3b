# TLA+ models of tcpshm

This directory holds TLA+ specifications of
[tcpshm](../src/README.md), the TLC configurations that check them on small
instances, and TLAPS proofs about the shared-memory ring, the receive buffer, the
server's connection groups, and the sessions over TCP and over shared memory.
`PROJECT.json` maps every definition to the source lines it models and lists runs, mutants,
findings, hazards and theorems.

## 1. The system

tcpshm moves messages between one server and many clients, over TCP or over
shared memory, and recovers by itself when a connection or a process dies.

| Component | State | Operations |
|---|---|---|
| `SPSCVarQueue` (spsc_varq.h) | a ring of 64-byte blocks, `write_idx`, `read_idx`, `read_idx_cach`, all in a shared-memory file | `Alloc`, `Push` by the writing process; `Front`, `Pop`, `WaitForData` by the reading one |
| `PTCPQueue` (ptcp_queue.h) | a linear array of 8-byte blocks, `write_idx_`, `send_idx_`, `read_idx_`, `read_seq_num_`, `ack_seq_num_`, in a mapped file | `Alloc`, `Push`, `GetSendable`, `Sendout`, `Ack`, `LoginAck`, `SanityCheckAndGetSeq` |
| `PTCPConnection` (ptcp_conn.h) | a `PTCPQueue`, `sockfd_`, `fd_to_close_`, the receive buffer with three indices, three times | `Open`, `Push`, `PushMore`, `SendHB`, `SendPending`, `Front`, `Pop`, `Close`, `TryCloseFd`, `DoRecv` |
| `TcpShmConnection` (tcpshm_conn.h) | a `PTCPConnection`, two rings, the remote name | dispatch to one transport, `OpenFile`, `GetSeq`, `Reset`, `Release` |
| `TcpShmServer` (tcpshm_server.h) | connection groups (an array of pointers, `live_cnt`), `new_conns_`, `avail_idx_`, the listening socket | `Start`, `Stop`, `PollCtl` (accept, `HandleLogin`, sweep of closed connections), `PollTcp`, `PollShm` |
| `TcpShmClient` (tcpshm_client.h) | one connection, the `.lastserver` file | `Connect`, `PollTcp`, `PollShm`, `Stop` |
| SHM probe (server and client) | a probe file with a token and an ack word | `VerifyShmProbe`, `HandleShmProbe` |

How they interact.  Users poll: the library creates no thread.  A server has a
control thread (`PollCtl`) and one polling thread per group; they share the
group's array of pointers and `live_cnt` without a lock.  A client and a server
share only TCP streams or the two rings.  Every message that goes out over TCP
stays in the sender's `PTCPQueue` until its sequence number is acknowledged by
the `ack_seq` of a message or a heartbeat; at login the two ends compare
sequence numbers and send again what the other has not consumed.

What is hard.  Two processes access a ring without locks and either can die
between any two stores.  Indices and sequence numbers wrap around.  A TCP stream
can be cut in the middle of a block, and a login response can be lost when one
end already counts as logged on.  Queue files are updated by several stores.
The control thread swaps pointers while a polling thread reads them.  What must
eventually happen (a message delivered, a full queue drained, a waiting client
accepted) depends on several loops.  The hazards are listed, at their lines, in
`PROJECT.json`.

What makes each component correct:

* ring: a FIFO of whole messages that never overruns and never overwrites what
  is unread, whatever crashes; a message is eventually read, a refusal is
  temporary;
* TCP queue and session: `read_idx_ <= send_idx_ <= write_idx_`; every message
  reaches the peer's user exactly once and in order; every login succeeds
  without help; once failures stop, everything is delivered;
* receive buffer: no byte is lost or displaced, each header is converted once,
  the user is shown the peer's messages in order, and reading never stops while
  messages or acks that fit are to come;
* login over shared memory: only ends that see the same memory are connected,
  both use the rings of the same pair of names, nothing that was pushed since is
  lost and nothing older comes back; once failures stop the two are connected;
* server: each connection has one place in the array, live ones first, named
  ones first, one connection per name; every socket has one owner; live
  connections are polled, waiting clients are accepted.

## 2. Modules

| Module | Models |
|---|---|
| `UIntArith` | unsigned integers of a parametric width (`2 * HalfRange` values) and the signed test `(int)(a - b) < 0` |
| `VarFifo` | the abstract promise of the ring: a FIFO of messages |
| `SPSCVarQueue` | the ring, one action per access to memory the other side can see |
| `SPSCVarQueueProofs` | its TLAPS proofs, the refinement of `VarFifo` included |
| `PTCPQueue` | the persistent queue, each method an operator on a record of the class's fields |
| `PTCPQueueProofs` | TLAPS proofs of what each method does to a queue |
| `PTCPSession` | a client and a server over TCP: two queues, connections, login, closing, crashes |
| `PTCPStreamProofs` | TLAPS proofs about the stream of blocks from a queue to its receiver |
| `PTCPSessionProofs` | the inductive invariant of the session, kept by every action |
| `PTCPAckProofs` | what it implies, and why acknowledgements do not get too old |
| `RecvBuf` | the receive buffer of `PTCPConnection`: `Front()`, `Pop()`, `DoRecv()` on bytes; implements `VarFifo` |
| `RecvBufProofs` | its TLAPS proofs, the refinement included |
| `ShmSession` | a client and a server over shared memory: login, probe, two rings for each pair of names, crashes, servers of several names |
| `ShmSessionProofs` | its TLAPS proofs |
| `TcpShmServer` | control thread and polling thread on one connection group |
| `TcpShmServerProofs` | its TLAPS proofs |
| `MCSPSCVarQueue`, `MCPTCPSession`, `MCRecvBuf`, `MCShmSession`, `MCTcpShmServer` | constants for TLC |

`PTCPSession` uses `PTCPQueue`; it takes the receive buffer as a queue of blocks
that holds `RecvCap` of them, and `RecvBuf` shows on bytes that the buffer is
one.  `ShmSession` takes a ring as a FIFO of messages, which is what
`SPSCVarQueue` is shown to implement.

### SPSCVarQueue

The variables `blk`, `write_idx`, `read_idx_cach` and `read_idx` are the fields
of the class; `wpc`, `wsize`, `rpc`, `rw`, `shown` are the locals of the two
processes.  `Alloc` is the function up to the space check, `AllocMarker`,
`AllocBump` and `AllocHeader` its three stores, `Fill` the user's writing
through the pointer (payload lies where later headers may be, so it is part of
memory), `Push` the release store and the notification.  `Front`, `FrontSize`
and `FrontRewind` are the reader's accesses, `ReadMsg` the callback, `Leave` a
callback that does not pop.  `WaitForData` and `WaitCheck` are the loop around
`write_idx.wait()`.  A crash resets a side's locals and leaves the file.
`hidden` is used only with `WeakRewind = TRUE`: the marker store that the
relaxed store of the index does not order.

The refinement: `Contents` walks over the headers in memory from `read_idx` to
`write_idx`; with `queue <- Contents` every step is a step of `VarFifo` or a
stutter.

### PTCPQueue and PTCPSession

A queue is a record; `Alloc` (with `Compact`), `Push`, `Sendout`, `Ack`
(`ReleaseTo`, `RewindEmpty`), `LoginAck`, `SanityCheck` and `CheckAckInQueue`
are its methods.  A block also says which message it belongs to and which part
of it, as a stand-in for its bytes.  `TornAcks` are the queues a death between
two stores of `Ack` leaves in the file.

In `PTCPSession`, `file` and `last_server` survive a crash; sockets, receive
buffers and unfinished calls do not.  `net` holds the TCP connections: two
streams of blocks of capacity `WireCap`, a login response, who still has it
open.  `AllocMsg`, `PushMsg`, `SendHB`, `Recv`, `Pop`, `RemoteClose`, `Close`,
`TryCloseFd` are the methods of `PTCPConnection` for either end; a send that
the kernel cuts inside a block closes the connection without counting what was
sent.  `Connect`, `RecvLoginRsp`, `ConnectFails` are `TcpShmClient::Connect()`
before and after it waits; `HandleLogin` and `OpenLive` are
`TcpShmServer::HandleLogin()` up to the response and after it, because a
polling thread can run between them (`StalePoll`).  `backlog` is a set: TCP gives no
order between two connections, and `PollCtl()` reads the new ones by slot and comes
back to those that have nothing to read yet, so a `LoginMsg` that the client gave up
may be handled before or after those of its later connections.  `DropLogin` closes
any of them.

Two limits on that order.  `InTime` is a bound on time: a `LoginMsg` is closed after
`NewConnectionTimeout`, and meanwhile the client's user does not pop half of all
sequence numbers.  `LateFirst`, with `LateLogin = FALSE`, excludes one order that the
code does not exclude: the first `LoginMsg` of a client that knew no server, sent on
a connection that the client gave up, is read after a later login of that client was
answered.  `HandleLogin()` then calls `Reset()` on a queue in use, and as the client
knows its server by now, its next login is refused as a mismatch, for ever.  With
`LateLogin = TRUE`, `MaxFailures = 2` and the invariant `LoginsMatch` in
ptcp_first_login.cfg TLC shows it in 17 steps; the runs and the theorems about
`PTCPSession` assume `LateLogin = FALSE`.

`pushed` counts from the last `Reset()`, so `FilesAgree` compares the two files and
says nothing of what a `Reset()` discards.  That is what `Kept` is about: a message
leaves its sender's file only if the other end's user has popped it.  The README of
the repository promises it without exception (`KeptUntilAcked`, which run
`ptcp_first_login` refutes); `KeptOnceKnown`, from the moment on at which the client
has recorded its server, is what the code keeps.

Abstractions: a receive delivers one block (several at once are several steps
of one thread, nothing else of that thread runs in between that could tell);
heartbeats take no room in the receive buffer, they are dropped as they come;
time is left out, so a timeout is a `Close` and a heartbeat is always due.
A `Close` by timeout or by the user, a reset by the network, a crash and a cut
send are failures, limited by `MaxFailures` when `FailureCost = 1`.

### RecvBuf

`mem`, `size`, `w`, `n`, `r` are `recvbuf_`, `recvbuf_size_`, `writeidx_`,
`nextmsg_idx_` and `readidx_`.  A byte is a record of the message it belongs to,
its place there and whether it is in host byte order; `HDR` of these units stand
for the 8 bytes of a header, so that a receive can end inside one.  Bytes outside
`r .. w - 1` are replaced by `Junk` at every step: code that read one would show
it.  `FrontBuffered` is `Front()` when it returns a buffered message, `FrontRecv(k)`
when it receives `k` units: `Rewound`, `ExtraSize` and `DoRecv` (in place,
memmove, expansion) and then `Scan`, the loop over the headers, with the
conversion of each header, its ack, the message that is too large and the
heartbeats.  `popped` stands for `last_my_ack_ != MyAck()`.  `Pop` is the callback
of server.cpp, which pops and then answers if there is room; `Leave` a callback
that does not pop.

The peer (`PeerPush`, `PeerSend`, `PeerHB`, `PeerPop`) is a `PTCPConnection`
reduced to what it sends: `pend` are its messages that were not popped here,
`sentu` says how much of them is on this TCP connection, `wire` is in flight.  Our
own sends are reduced to sequence numbers (`posted`, `acked`, `peer_ack`).  After
`Close` and `Open` the peer starts again at its oldest message, as `LoginAck()`
makes it.  The mapping to `VarFifo` is `queue <- pend`, `shown <- shown`: what the
callback is handed must be the oldest message, whole and in host order.

### ShmSession

`rings` holds, for each name the server may have, the ring that each end sends
on; they and `last_server` survive both processes.  `cl.pc` is where `Connect()`
is: `login` while it waits, `named` after a new server's name is in the file,
`clear` between the two `memset`s of `Reset()`, `open`.  `login` is where
`HandleLogin()` is: `probe` while it waits for the `ShmProbeRsp`, `rsp` after the
`LoginRsp` is sent and before the connection is live.  A probe is `none`, `wait`
(its ack word is 0) or `acked`; its token is that of its connection.  `shared`
says whether the two processes see the same memory, which never changes.
`owed` is what the documents promise: the messages pushed and not popped since
the server took the client for new.

`Connect`, `SendFails`, `HandleShmProbe`, `RecvLoginRsp`, `ResetRing`, `ConnectFails`,
`ClientClose`, `ClientCrash` are the client's, `StartProbe`, `ProbeTimeout`,
`HandleLogin`, `OpenLive`, `DropNew`, `Sweep`, `ServerCrash`, `Start` the server's.
The control thread does nothing else between `StartProbe` and the answer or the
timeout.  A `Stop()` has the effect of a crash, and so has a client whose
`OpenFile()` fails after it recorded the name.  A refusal for another reason
(`OnNewConnection()`, a file error, a full group) is in `TcpShmServer`.

### TcpShmServer

`conns`, `live_cnt`, `new_conns`, `avail_idx` are the fields; `name`, `mapped`,
`up`, `fd` those of each connection of the pool.  `ctl` says where `PollCtl()`
is: `Accept`, then a visit of each new connection (`SkipNew`, `CloseNew`,
`LoginRefused`, `LoginFails`, `LoginOk`), then `Sweep` over the live ones.  The
two stores of `std::swap` are `SwapFirst` and `SwapSecond`, and `live_cnt`
changes before them, as in the code.  `PollTest`, the read of `live_cnt`,
`PollVisit`, the read of `conns[i]`, and `PollDone` are the loop of `PollTcp()` and
`PollShm()`.  Clients connect, send a login or garbage, and
leave.

## 3. Runs

`recv_buf` and `ptcp_session` take two to three minutes, the others about one or less.  Violation runs state
what a comment or a document of the repository says and show where the code does
otherwise.

| Run | Checks | Shows |
|---|---|---|
| `spsc_fifo` | `TypeOK`, `NoOverrun`, `NoClobber`, `ImplementsFifo`, `ReaderProgress`, `FullIsTemporary` | 3 blocks, messages of 1 and 2 blocks, two payloads, 12 index values: the indices wrap around the range and the ring rewinds; the reader pops, also after a sleep; a refused writer gets room; 45,000 states |
| `spsc_weak_rewind` (violation) | `ShownIsOldest` | a marker that becomes visible late |
| `ptcp_session` | `TypeOK`, `IndexOrder`, `InOrder`, `FilesAgree`, `LoginsMatch`, `AcksRecent`, `KeptOnceKnown` | server to client, unlimited failures of every kind, logins of two connections in any order, sequence numbers that wrap around (6 values, unlimited pushes), messages of 1 and 2 blocks in a queue of 2, so that compaction, partial sends and full buffers happen; 2,179,000 states |
| `ptcp_live` | `InOrder`, `FilesAgree`, `LoginsMatch`, `KeptOnceKnown`, `Delivered` | both ends send, one failure anywhere; 198,000 states |
| `ptcp_first_login` (violation) | `KeptUntilAcked` | one lost connection: the server pushes to a client whose first `LoginRsp` is lost, and clears its queue at the next login |
| `ptcp_torn_ack` (violation) | `LoginsMatch` | a death between two stores of `Ack()` |
| `ptcp_stale_poll` (violation) | `InOrder` | a message consumed between `GetSeq` and `Open` of a login is consumed twice |
| `recv_buf` | `TypeOK`, `Intact`, `HostOrder`, `ImplementsFifo`, `Delivered`, `ReleasesForward` | messages of 2 and 3 blocks and one that is too large, a buffer that grows from 3 blocks to 4, a stack buffer of less than 2, receives cut at every unit, one disconnect; 155,000 states |
| `shm_session` | `TypeOK`, `SharedOnly`, `SameRings`, `NothingLost`, `Recovers` | two server names, two TCP connections at a time, three failures anywhere, ends that share memory and ends that do not; 178,000 states |
| `shm_reset` (violation) | `NothingLost` | without any failure, a server that pushes first loses the message to the client's `Reset()` |
| `server_groups` | `TypeOK`, `Placed`, `LivePrefix`, `NamedPrefix`, `NameUnique`, `SocketsOwned`, `PolledIsClaimed`, `MovesForward`, `Served`, `AcceptsGoOn` | 2 connections, 2 slots for new ones, 2 clients, 2 sockets, files that cannot be opened, restarts; no symmetry, because of liveness; 293,000 states |
| `server_unmapped` (violation) | `PolledIsMapped` | with a file that could not be opened, the order of `live_cnt++` and swap shows it to `PollShm()` |

Why the bounds are enough.  The ring's behaviour depends on the position of the
indices relative to the end of the array and to the end of the index range;
with 3 blocks and 12 indices every combination occurs, and the proofs cover the
safety of all other sizes, here and in the other modules that have them.  `HalfRange = 3` gives sequence numbers 0 to 5 and a signed test
that is right for differences below 3, more than the two messages a queue of
two blocks holds.  Two slots of `new_conns_` can be full and can hold two logins of
one name at once; the proofs cover more connections, slots, clients and sockets.

`ReleasesForward` of `recv_buf`: the acks of several headers in one receive, of
headers read again after a reconnection and of heartbeats only ever release more of
our own queue.  What no property covers is a callback that does not `Pop()` until an
ack comes: once the receive buffer is full, `DoRecv()` reads nothing, and both wait
for ever.  The fairness of `Pop` excludes such a callback.

In `recv_buf` a buffer of 6 units may grow once more than half of it is unread,
which one message that is not popped achieves, the growth to 8 is limited by `MaxSize` and not by doubling,
and `StackSize = 3` ends some receives before the room does; with `PeerCap = 12`
two or three messages are under way, so that heartbeats and headers meet every
index.  In `shm_session` three failures allow a lost answer, a crash of the
client in `Connect()` and a restart of the server under the other name in one
behaviour, which is what it takes to go from A to B and back.  With one kind of
message a ring is its length; that the order is kept is the ring's own property.

`shm_session` is for a server whose user answers and does not speak first
(`QuietServer`); `shm_reset` shows what happens otherwise.  With `QuietServer`,
the server pushes only after it has popped a message of this logon, which the
client can have pushed only after its `Reset()`.

Two more variants have no run of their own.  In `PTCPSession`, `TwoThreads = TRUE` lets
the client poll between `Alloc()` and `Push()`, as client.cpp does and
doc/interface.md forbids; in ptcp_stale_poll.cfg with `StalePoll = FALSE` it
violates `FilesAgree`, because an ack that empties the queue moves `write_idx_`.
In `SPSCVarQueue`, `Sizes = {57, 121}` with `BLK_CNT = 4` and `HalfRange = 8`
violates `FullIsTemporary`: a message longer than half of the ring can be refused
by an empty ring for ever.

In `ptcp_live` each end pushes 2 messages (`MaxPushes`).  Without that bound
TLC finds that `SanityCheckAndGetSeq()` takes a message for "too new" when half
the sequence range of the peer's messages (2^31 in the code) was consumed while
it stayed unacknowledged; that is outside the range the code is meant for, and
is listed as a hazard.  `AcksRecent` is the condition that fails then; with one
sender it holds although the sequence numbers wrap around.

Fairness.  Users are required to poll for ever, and the specification gives
weak fairness to each polling function.  Strong fairness is used where a user's
own steps may disable a polling step again and again: the callback that pops
(`Pop` of PTCPSession, the reader's steps of the ring), since the callback may
run without popping or a process may crash, but not each time.  No fairness is
given to failures, to `Alloc`, or to `Connect()` giving up on a server that
still holds the connection.  `TcpShmServer` has weak fairness of the two loops
and of the passing of time.  In `RecvBuf` `Front()` and the peer's polling are
weakly fair, `Pop` strongly (a callback may leave a message, but not each time it
is shown one), and a lost connection is opened again.  In `ShmSession` no fairness
is given to users, failures or timeouts, except of waits for an end that is
closed; a client that is disconnected connects again and a dead server is started
again.  `Sweep`, `StartProbe` and `DropNew` are strongly fair: `PollCtl()` visits
every new and every live connection in each pass, but while it is in a probe of
one of them all the others wait.

Deadlock is checked in every run: the polling loops always have a step.

## 4. Proofs

`SPSCVarQueueProofs` proves, for every `BLK_CNT`, every index width that
`BLK_CNT` divides, every set of sizes and payloads, and the order of stores the
code intends (`WeakRewind = FALSE`):

* `InvariantHolds`: `Spec => []IInv`;
* `TypeCorrect`: `Spec => []TypeOK`;
* `RingNeverOverrun`: `Spec => []NoOverrun`;
* `RingSegmented`: `Spec => []Segmented`;
* `PublishedBlocksKept`: `Spec => NoClobber`;
* `RingImplementsFifo`: `Spec => ImplementsFifo`;
* `RingShowsOldest`: `Spec => []ShownIsOldest`, the property that run
  `spsc_weak_rewind` refutes when the marker of a rewind is seen late.

Assumptions (`SPSCAssumption`): sizes fit in a `uint16_t` with their header, the
ring divides the index range, and a ring plus a message is at most half of it,
as 2^32 is against any ring that can be mapped.

The argument.  `NoOverrun` alone is not inductive: `Pop()` and the rewind in
`Front()` advance `read_idx` by what a header in memory says, and only the
content of memory keeps them from passing `write_idx`.  `IInv` adds

* `WriterInv`, what the writer knows between two stores (the header it wrote is
  there, its message fits before the end of the array);
* `Segmented`: there is a set `H` of indices, with `read_idx` and `write_idx` in
  it, such that from each the step its header gives leads to the next.  A reader
  in the middle of `Front()` stands on one and its old copy of `write_idx` is
  another, so that the comparison after the rewind is exact.

The set `H` takes the place of an induction over the walk: publishing adds an
element (`SegmentedExtended`), popping removes one (`SegmentedShrunk`), and a
store to blocks that are not published changes nothing (`SegmentedKept`, with
`WriterStoreKeeps`).  The arithmetic lemmas relate the block of an index to
wrap-around (`SlotAdd`, `SlotDistinct`, `SlotNext`), and `SpaceCheck` shows that
the signed comparison decides whether the blocks fit.

The refinement mapping, `Contents`, walks from `read_idx` along the headers in
memory to `write_idx`.  The proof writes the walk as `WalkOver(m, w)`, a function of
a memory and an index; `WalkTurn` shows, by induction over an interval (`UpTo`),
that the recursion is well defined and gives a sequence of messages.  Three lemmas then
say how a step changes it:

* `WalkKept`: a walk sees only the blocks between its start and `write_idx`, so a
  store to any other block, which is all the writer does before it publishes, leaves
  the contents alone (`ContentsKept`);
* `WalkExtended`: publishing one more segment appends what stands there, a message for
  `Push()` and nothing for a rewind marker, provided the old walk ends exactly at the
  old `write_idx`.  `Hops` derives that from the set `H` of `Segmented`;
* `ContentsShrunk`, `Foremost`: the walk starts with what stands at `read_idx`, and
  advancing `read_idx` over it takes only that away.

Two invariants go beyond `IInv`: `Shows`, that between `Front()` and `Pop()`
`read_idx` stands on a published message that is the one handed out, and `Written`, that
the payload the writer is about to publish is in its blocks.  TLC checked both on the
bounds of `spsc_fifo` before they were proved.

`TcpShmServerProofs` proves, for every number of connections, of slots for new
connections, of clients and of sockets:

* `InvariantHolds`: `Spec => []IInv`;
* `TypeCorrect`: `Spec => []TypeOK`;
* `OneConnectionPerName`: `Spec => []NameUnique`;
* `GroupInOrder`: `Spec => [](Placed /\ LivePrefix /\ NamedPrefix)`, and
  `PlacedOnce` and `ClaimedFirst` for two of its parts;
* `SocketsHaveOneOwner`: `Spec => []SocketsOwned`;
* `PollsClaimed`: `Spec => []PolledIsClaimed`;
* `PollsMapped`: `Spec => []PolledIsMapped` if `FileErrors = FALSE`, the
  counterpart of the run `server_unmapped`;
* `LiveMovesForward`: `Spec => MovesForward`.

Assumptions: `ServerAssumption` (the group and `new_conns_` have at least one
place) and `NoneAssumption` (the
values that stand for "none" are none of the others).

The argument.  The properties speak of the settled array, what `conns` will be
when the two stores of `std::swap()` are done; the stores leave it unchanged
(`SwapStores`), so each property need only be shown where a swap begins
(`SwapBegins`, for a login and for the sweep).  They support each other, and
`IInv` adds what they lack:

* `ControlInv`: the bounds of the loops' indices and what the first store of a
  swap leaves for the second;
* `Filled`: every connection of the pool is in the array.  `NameUnique` is kept
  because the lookup in `HandleLogin()` stops at the first unused connection;
  that it passed every named one follows from `NamedPrefix` only if every
  connection has a place;
* `Claimed`: live, swapped and polled connections have been claimed, which is
  what makes them mapped, and what keeps `NamedPrefix` when they change places.

The lookup returns the first place that fits.  That there is a first one is
`HasLeast`, from the well-foundedness of the strict order on finite subsets.

`SocketsOwned` has an invariant of its own, `OneOwner`, proved on top of `IInv`:
between two steps of a login the socket is in a slot of `new_conns_` and not yet
in a connection, and it says which of the two holds it at each step.

`ShmSessionProofs` proves, for any names, sockets, ring capacity, message set and
number of failures:

* `SessionInvariant`: `Spec => []IInv`;
* `SessionTypes`: `Spec => []TypeOK`;
* `SessionSharedOnly`: `Spec => []SharedOnly`;
* `SessionSameRings`: `Spec => []SameRings`;
* `SessionNothingLost`: `Spec => []NothingLost` if `QuietServer`, the counterpart
  of the run `shm_reset`.

The properties speak of ends that are connected; how they became so is in what is
under way.  `IInv` therefore says of every message in a TCP connection what must
be true for it to be there: a `LoginMsg` is the first of its connection
(`LoginInv`); a probe that is acked, an answer that grants a login and a login past
its probe exist only if memory is shared (`SharedInv`); a granting answer carries
the name of the running server and the rings it has mapped (`NameInv`); and while
an answer may still make a client clear its rings, neither end has used them
(`ClearInv`, with `LastInv` about the `.lastserver` file).  `SocketInv` says who has
each socket open, which is what makes stale connections harmless.

The session over TCP is proved in four modules, for every size of the queues, of
the receive buffer and of the kernel's buffers, every set of message lengths and
of connections and any number of failures.  One thread uses a connection at a time:
`~TwoThreads` is the rule of doc/interface.md for users, and `~StalePoll` says that no
polling thread of the server is still in a connection that `PollCtl()` logs on
again.  A server that polls everything from one loop satisfies the second; with a
thread per group the code does not ensure it, which is the finding of the run
`ptcp_stale_poll`, so the theorems do not cover that race.  The third hypothesis,
`~LateLogin`, excludes the late first `LoginMsg` described with the module; all other
orders of `LoginMsg`s are covered.  Under these three `PTCPSessionProofs` proves

* `RecentInvariant`: `Spec /\ []AcksRecent => []IInv`,

and `PTCPAckProofs`, with `MaxPushes < HalfRange` in addition,

* `SessionInvariant`: `Spec => [](IInv /\ CountsInv /\ AcksRecent)`;
* `SessionTypes`, `SessionIndexOrder`, `SessionInOrder`, `SessionFilesAgree`,
  `SessionLoginsMatch`, `SessionAcksRecent`: each of these properties;
* `SessionKeepsMessages`: `Spec => KeptOnceKnown`;
* `SessionWrapsAround`: all of them without the bound on the pushes, so with sequence
  numbers that wrap around, for behaviours in which `AcksRecent` holds.

In the code `MaxPushes < HalfRange` says that fewer than 2^31 messages are pushed in
each direction since the queue file was made, and `AcksRecent` that no header still
carries an acknowledgement 2^31 messages old.  One of the two is needed, as the
hazard at ptcp_queue.h:102 describes.  The other assumptions are those of
`PTCPQueue` and `SessionAssumption`: `BLK_CNT` less than half of the range of sequence
numbers, messages that fit into the receive buffer, a value `NoFd` that is no
connection.

The argument, module by module.

* `PTCPQueueProofs`.  `QueueInv(q, p)` says that the blocks from `read_idx` to
  `write_idx` are the messages from `read_seq` to `p - 1`, whole and in order.  It is
  stated with `Starts(q, p, h, id)`, "message `id` starts at block `h`", so that no
  recursion over the blocks is needed; where the code walks (`ReleaseTo`), the
  lemmas use `IntervalInduction`, induction over an interval stated for sets.
  Releasing and compacting move blocks (`Moves`, `Shrinks`), and `AckShrinks`,
  `LoginAckIs` and `PushInv` say what is left.  `AckWindow` is the arithmetic:
  the signed comparison tells newer from stale acknowledgements in the window.
* `PTCPStreamProofs`.  `FlowOK` ties the two ends together: what the receiver holds
  of a message in parts, followed by what is on the wire, is a piece of the
  sender's queue that starts where the receiver's `MyAck()` says and ends at
  `send_idx` (`Path` gives the block for each place of the wire, skipping
  heartbeats).  `AckedOK` says that what the peer has consumed is a message
  boundary of the queue, not beyond what was sent.  Lemmas say what sending,
  receiving, acknowledging and popping do to both.
* `PTCPSessionProofs`.  `IInv` is the types, the queues (`QueuesInv`), `InOrder`,
  `Acked` and `Flow` for each direction, and what the phases of a login guarantee:
  an end that has not opened a connection has sent nothing on it (`PairInv`), a
  `LoginRsp` and the `LoginMsg` of the client's current `Connect()` tell the sequence
  numbers that are still in the files (`RspInv`, `BacklogInv`), a queue is not cleared
  while it is used (`PhaseInv`).  Of the `LoginMsg`s of connections the client has left,
  which the server may handle in any order, only the little that stays true is said:
  the server that answers one is on a connection from which nothing comes (`Barren`),
  so a client that is connected finds the server on the same connection, on none or on
  such a one (`Settled`), and what it was told to have acknowledged may be less than
  the client has consumed, which matters only as long as the server can still hear
  something (`Heard`).  None of the properties is inductive without these: `InOrder` after a
  login depends on the stream that starts then, which starts at the
  acknowledgement in the `LoginMsg`, which was right when it was sent.  Actions that
  only take away (closing, resets, crashes, a `Connect()` that gives up) are one
  lemma, `ShrinkKeeps`; those of one end on its connection go through `WorkKeeps`;
  `Open()` at either end is `OpensKeep`; the answers of `HandleLogin()` are
  `AnswerKeeps`.
* `PTCPAckProofs`.  `CountsInv` says that no end has consumed more than was pushed for
  it and that no header or heartbeat announces more than its sender has consumed.
  Below half of the range these are plain comparisons of integers, and they
  imply `AcksRecent`, so the two inductions support each other.  For `KeptOnceKnown`,
  `DropsBefore` says of every way to take messages from a queue (`Ack()`, `LoginAck()`)
  that only those before the acknowledgement go; `AcksRecent`, `RspInv` and
  `BacklogInv` say that no acknowledgement is ahead of what the peer has consumed
  (`AckDrops`), and `NextKept` puts the actions together: the one that clears a queue,
  the first login, happens only before the client knows the server.

`RecvBufProofs` proves, for every size of a header, of the buffer and its limit, of
`stackbuf`, of the messages and of each receive, and any number of disconnects:

* `RecvInvariant`: `Spec => []IInv`;
* `RecvTypeOK`, `RecvIntact`, `RecvHostOrder`: each of these properties;
* `RecvImplementsFifo`: `Spec => ImplementsFifo`.

Assumptions: `RecvBufAssumption` (the `static_assert`s on the buffer sizes, a message is
at least its header, the kernel's buffer holds one header) and `HalfRangeAssumption`.

The argument.  `Stream`, also called the view, is what is unread in the buffer, what is
in flight and what the peer has not sent yet, as one sequence of bytes.  The cuts
between the three parts move with every step, the sequence itself hardly changes:
sending, receiving, the memmove and the expansion of `DoRecv()` leave it alone, a
heartbeat inserts into it, a conversion flips the order of one header, `Pop()` and the
skipping of heartbeats take from its front.  `IInv` says of it

* `Chain`: it consists of whole messages, one after the other, from a start on;
* `Match`: without the heartbeats it is `Flat(pend)`, byte by byte.  `Counts` is the
  witness: the function that says how many of the first `i` bytes belong to messages;
* `Bound`: `nextmsg_idx_` is at the end of a message;
* `Host`, `Partial`: the headers before `nextmsg_idx_` are converted, and the one at
  it exactly if it is complete, while its message is not;
* `Shown`: what the callback was given starts the stream.

`Intact` and `HostOrder` are not inductive.  `Front()` goes through the headers with the
sizes it reads there and decides by `old_writeidx`, the end of what was there before the
receive, whether the first header is converted already; that a size it reads is the size
of a message, and that the header it stands on was converted exactly if it was
complete before, are `Chain`, `Bound`, `Host` and `Partial`.  Inside `Front()` the same
statements, with `old_writeidx` for the end of what was looked at, are the invariant
`Loop` of `ScanStep`; `LoopStep` shows it is kept by an iteration and
`EnoughIterations` that the model's number of iterations lets the loop end.  `Framed`
and the lemmas on views (`ConvertedView`, `AdvanceView`, `RewoundView`,
`ReceivedBytes`, `SkipSettles`) say what each piece of `Front()` does to the stream.
The recursive functions of the model (`Flat`, `OnWire`, the loop itself) are treated
with two lemmas about intervals, `UpTo` (induction, for a set) and `Recursion` (a
function with given first value and step exists), so no induction principle with an
operator parameter is needed.  TLC checked `IInv` on the bounds of `recv_buf` before
it was proved.

Only model-checked: liveness (`ReaderProgress`, `FullIsTemporary`, `Delivered`,
`Served`, `AcceptsGoOn`, `Recovers`), which the prover does not
handle.

## 5. Not modelled

* Over TCP, a client that moves from one server to another; on either
  transport, a client object that changes to the other one without `Stop()`.
* A crash inside the memmove of `PTCPQueue::Alloc()`, or inside `Push()`: the
  file can then hold any mix of old and new blocks.  The same kind of tear in
  `Ack()` is modelled.
* Several groups: which one a client is put in is the user's choice.
* System calls that fail in `Start()`, and the Windows variants of os.h.
* Clocks; the messages and the printing of the example programs; vendored
  libraries.
* `atomic::wait` between two processes, which the standard library does not
  promise to support; the model is the wait inside one process.

## 6. Plan

1. (done) The ring: model, refinement of `VarFifo`, liveness, proofs.
2. (done) The persistent queue and the session over TCP.
3. (done) The server's groups and threads.
4. (done) `RecvBuf`: `DoRecv()`, `Front()` and `Pop()` on byte indices.
5. (done) `ShmSession`: the probe, the login and the rings over shared memory.
6. (done) Proofs for `TcpShmServer`, from one inductive invariant about the
   settled array, and one more for the owners of sockets.
7. (done) Proofs for `ShmSession`.
8. (done) Proofs for `PTCPQueue` and `PTCPSession`.
9. (done) Proofs for `RecvBuf`, from one invariant about the stream of bytes.
10. (done) Proof that the ring implements `VarFifo`.
