# A verification project for the servers of cppworkspace

The repository is a workspace of C and C++ network programming. Its own core
logic is in six servers, in which threads, the kernel and clients share contexts,
buffers, lists, counters and events: `CIOCPServer`, `CTcpServer` and `CUdpServer`
(`src/5's IO Model/IOCP_Server`), the two echo servers `iocpserver.cpp` and
`iocp_server.cpp` (`src/5's IO Model/io_iocp`), and `CLibEvent`
(`src/libevent_server/Server`). This project models them in TLA+, checks small
instances with TLC and proves theorems about the models with TLAPS. "Line n"
below is a line of `CIOCPServer.cpp` (GBK encoded) unless another file is named.

## 1. Inventory

| part | state | operations | what is hard |
|---|---|---|---|
| CIOCPServer, accept pool and start/stop | `m_pPendingAccepts` and its count, `m_hAcceptEvent`, `m_hRepostEvent`, `m_nRepostCount`, `m_bServerStarted`, `m_bShutDown`, the port | `Start`, `Shutdown`, `_ListenThreadProc`, `_WorkerThreadProc`, `InsertPendingAccept`, `RemovePendingAccept`, `PostAccept` | events and counts kept apart; an event that is reset in two places; unlocked reads; a walk of a list without its lock; a second `Start` |
| CIOCPServer, connections | `CIOCPContext` (socket, `bClosing`, `nOutstandingRecv`, `nOutstandingSend`), free lists, `m_pConnectionList`, `m_nCurrentConnection` | `AllocateContext`, `ReleaseContext`, `AllocateBuffer`, `ReleaseBuffer`, `AddAConnection`, `CloseAConnection`, `CloseAllConnections`, `PostRecv`, `PostSend`, `HandleIO`, the callbacks of `CMyServer` | several workers handle one connection; the decision to release is taken outside the lock; calls that fail half way |
| CIOCPServer, order of reads | `nReadSequence`, `nCurrentReadSequence`, `pOutOfOrderReads` | `GetNextReadBuffer`, the read loop of `HandleIO` | packets handled in any order; no lock; 32-bit numbers that wrap |
| CTcpServer (`TcpServer.cpp`) with CWebServer | stacks of accept, receive and send contexts, a map of sockets with their times, the suspended threads | `InitServer`, `StartServer`, `PauseServer`, `StopServer`, `SendFile`, `SendData`, the threads, `CloseClientSocket`, `ConnectTimeOutCheck` | a context used after its return to the pool; socket handles reused between a check and a close; a stop that waits for threads |
| CUdpServer (`UdpServer.cpp`) | a stack of contexts, the posted receives | `InitServer`, `StartServer`, `PauseServer`, `StopServer`, the threads, `IssueReceiveOperation`, `IssueSendOperation` | receives lost on an error; buffers that shrink; a stop that waits for threads |
| ordered echo (`iocpserver.cpp`) | `SOCKET_OBJ`: `OutstandingOps`, `OutOfOrderSends`, `IoCountIssued`, `LastSendIssued` | `HandleIo`, `DoSends`, `InsertPendingSend`, `PostRecv`, `PostSend`, `FreeSocketObj` | echo in order while packets come in any order; counting outside the lock |
| scalable echo (`iocp_server.cpp`), connections | `gPendingSendList`, `gOutstandingSends`, the counts of a `SOCKET_OBJ` | `HandleIo`, `ProcessPendingOperations`, `PostRecv`, `PostSend` | a limit that is tested and raised in two steps; a free without a lock |
| scalable echo, accepts | `PendingAccepts`, `gFreeBufferList`, `RepostCount`, two events | the loop of `main`, `PostAccept`, `HandleIo` for accepts | two lists on one link; a lost wakeup; a sweep for silent clients |
| CLibEvent (`LibEvent.cpp`) | a free list of `Conn`s for each worker, their bufferevents | `StartServer`, `StopServer`, `DoAccept`, `DoRead`, `DoError`, `CloseConn`, `GetFreeConn`, `PutFreeConn` | a free list shared between threads without a lock; events that are live before and after the connection |
| IOCP test client, thread synchronisation, IPC, socket and I/O model examples, design patterns | local | demonstrations | - |
| libevent, libev, Microsoft samples, Ice calculator | - | third-party or generated code | - |

How the parts of `CIOCPServer` interact: the owner calls `Start`, which creates
the listening socket, the port and the listening thread; that thread records
and posts the first accepts, creates the workers and then waits on two events.
A worker that has handled an accept increments `m_nRepostCount` and sets
`m_hRepostEvent`; the network sets `m_hAcceptEvent` when a client waits in the
listen queue; `Shutdown` sets the flag and the same event and joins the thread.
An accept that completed with data becomes a connection: the worker allocates a
context, lists it, and posts the reads, whose completions come back to any
worker. The callbacks of the derived class `CMyServer` echo what is read with
`SendText`. `CTcpServer` and `CUdpServer` have the same roles with pools that are
stacks, an application thread that starts, pauses and stops them and, for TCP, a
timer. In `iocp_server.cpp` the main thread plays the listening thread. In
`CLibEvent` the listening thread and the workers meet in the free lists and in the
bufferevents.

What makes each part correct:

* accept pools - the list and its count agree, the pool stays bounded, an accept
  that can complete can be found in the list, no request for another accept is
  lost, waiting clients are served, the stop returns;
* connections - nobody uses a released context, each context is released once
  its connection is closed and idle, the counts of outstanding I/O and the
  lists are exact, the limits hold;
* order - data is delivered or echoed in the order of arrival, once, and what
  has arrived is delivered;
* pools - a context, buffer, `Conn` or handle has one owner, and is closed or
  released once; connections are closed for a cause of their own;
* stopping - nobody waits for a thread that nothing will wake.

The hazards of the code, each at its line and with the properties that guard
against it, are listed in `PROJECT.json` under `hazards`.

## 2. Modules

| module | models | role |
|---|---|---|
| `AcceptPool` | `Start`, `Shutdown`, `_ListenThreadProc`, the accept side of the workers | state machine |
| `ConnectionLifecycle` | contexts, buffers, `HandleIO`, `CloseAllConnections`, `CMyServer` | state machine |
| `ReadOrder` | `GetNextReadBuffer` and the read loop | state machine |
| `TcpServer` | `CTcpServer` from `InitServer` to `StopServer`; `CWebServer` | state machine |
| `UdpServer` | `CUdpServer` from `InitServer` to `StopServer` | state machine |
| `OrderedEcho` | a connection of `iocpserver.cpp` | state machine |
| `ScalableEcho` | the connections of `iocp_server.cpp` | state machine |
| `AcceptList` | the accepts of `iocp_server.cpp` | state machine |
| `LibEvent` | `CLibEvent` from `StartServer` to `StopServer` | state machine |
| `InOrderStream` | what a connection promises its user | abstract specification, implemented by `ReadOrder` and by `OrderedEcho` |
| `CIOCPServer_proofs` (of `AcceptPool` and of `ReadOrder`), `AcceptList_proofs`, `ConnectionLifecycle_proofs`, `LibEvent_proofs`, `TcpServer_proofs`, `UdpServer_proofs`, `OrderedEcho_proofs`, `ScalableEcho_proofs` | - | theorems and their proofs |
| `MC...` | - | instances for TLC (symmetry, view) |

A definition preceded by the comment "Mutant:" is a plausible mistake in the
definition that follows it. It is not used by the specifications; `PROJECT.json`
says which property detects it when it replaces the original.

### AcceptPool

The variables keep the names of the members. `io[b]` is the state of the
overlapped accept of buffer `b`: recorded, posted, connected (a client that has
sent nothing), completed ("data", "zero", "error"), or dead (it will never be
dequeued). `pending` is the set of nodes of `m_pPendingAccepts`; the order of the
list only matters for the walk of the timeout branch, where `WalkTo` allows every
order. Every access to shared state that the code does not put inside a critical
section with its neighbours is a step of its own: `Shutdown` is three steps,
recording and posting an accept are two, `WSAWaitForMultipleEvents`, the test of
`m_bShutDown`, `WSAEnumNetworkEvents` and the exchange of the repost count are one
each, and so are the worker's increment and its `SetEvent`. The results of
`AcceptEx` (success, immediate failure), of `AllocateBuffer` (a buffer or `NULL`),
and the behaviour of the clients are nondeterministic. A second `Start` finds the
events, the count and the list as the first session left them, which is why the
checks run two sessions.

### ConnectionLifecycle

A critical section is one step, everything else is its own step. The program
counter of a worker follows `HandleIO`: "add", "keepalive", "send", "count",
"sendDone", "reads" for an accept, "closing", "notify", "unlist", "close", "test",
"release", "finish" for a read or a write. `CloseAConnection` takes the list lock
and then the lock of the context, so it is two steps. `CloseAllConnections` holds
the list lock throughout and locks one context at a time. A buffer the code drops
after a failed call is "leaked". The use of a released context is the action
`Misuse` (or `AllocateContext` handing out one that is still named, or a walk over
one that was released) and ends the behaviour: what the process does afterwards
is undefined. The history variable `raced` records that a worker found both counts
zero (`TestOutstanding`) while another worker had not done with the same context.

### ReadOrder and InOrderStream

A read is its position in the order of posting; the code sees the position modulo
`SeqModulus`. `Compare`, `Insert`, `CheckHead`, `Pop`, `DeliverRead`, `Advance` are
the unlocked steps of the loop. The bodies of `Insert` and `Pop` are one step each;
what two workers do inside them at once is not modelled, and nothing is claimed from
the moment a worker dequeues a read while another is busy with one (the history
variable `overlapped`). The module declares nothing that `AcceptPool`
declares, so that one module can hold the theorems about both: its workers are
`IOWorkers`, its specification is `ReadsSpec`. `InOrderStream` has two actions, `Arrive` and
`Deliver`, and the fairness that what arrived is delivered; with the identity as
refinement mapping `ReadOrder` implements it until two workers overlap
(`ImplementsStream`).

### TcpServer

`sock[s]` is the state of a handle, which the operating system hands out again once
it is closed; the code knows a connection by its handle only. The history fields
`live` say whether a handle still denotes the connection it denoted when an
operation was posted on it, and `wronged` records that a connection was closed
without a cause of its own. The pools are stacks, as in `ContextStack.cpp`, because
the order decides who gets a context that was just released: the error paths of
`CompleteReceive` (`ReleaseFirst`) give the context back and then read its socket.
`CloseClientSocket` is two steps, the erasure under the lock and `closesocket`
outside it. `ConnectTimeOutCheck` runs under the lock and is one step. Its `iIdleTime`
is one variable for all entries: on a handle that is already closed `getsockopt` fails
and the time of an entry before it is used again, so such an entry may be kept.
`CompleteAccept` lists the socket, sets its options, issues a read and an accept in
four steps. The completion port is a queue; several workers take from it.
The application's thread calls `StartServer`, `PauseServer` (which works only while
the server does not run and suspends the listening thread once more), `SendFile`
(the look-up and `TransmitFile` are two steps) and `StopServer`, whose steps clear
the flag, wake and join the listening thread, post a packet for each worker, join
the workers, and release what is left.

### UdpServer

A context is a number and the pool a stack. A datagram is its length, because
`SetSendParameters` shortens the buffer of a context to what it sends and nothing
restores it: a datagram is then sent back in several pieces or rejected as too
large. `IssueReceiveOperation` and `IssueSendOperation` are two steps each (the
context, the call), and each may fail. The application's thread is as in `TcpServer`.

### OrderedEcho

The model follows `HandleIo` of `iocpserver.cpp` for one connection. `SockCritSec`
is a variable, since the worker that accepts does not take it, the path of a
failed operation does not take it, and `OutstandingOps` is incremented after the
call in `PostRecv` and `PostSend`. A freed `SOCKET_OBJ` or send buffer that is
touched (`misuse`) ends the behaviour. `wire` is what was sent; with
`delivered <- wire` the connection implements `InOrderStream` (`EchoesStream`).

### ScalableEcho and AcceptList

The two halves of `HandleIo` of `iocp_server.cpp`. In `ScalableEcho` a connection has
one `BUFFER_OBJ`, whose state says where it stands. The limit of `gMaxSends` is
tested (`TestSends`), the send posted and counted (`IncrementSends`) in separate
steps. On the error path the `SOCKET_OBJ` is freed before the `BUFFER_OBJ`, as in lines
887-910 (`TestOther`, `FreeSocketObj`, `FreeBufferObj`). In `AcceptList` the lists are modelled by the links they share, so that what
follows a failed accept, which stays in `PendingAccepts` and goes to the free list,
is modelled too: a buffer handed out twice, or a walk without end (`"hung"`).
`TakeRepost` and `ResetRepost` are the exchange of `RepostCount` and the `ResetEvent`
after it. Winsock records `FD_ACCEPT` for the first client that finds no accept, and
again when an `AcceptEx` has taken a client and others still wait (`ClientArrives`,
`ClientTaken`); clients are taken in the order of their arrival.

### LibEvent

`head`, `tail` and `next` are the list of a worker; a `NULL` is neither a client nor a
`Conn`. `GetFreeConn` is two steps on the
listening thread and `PutFreeConn` two on the worker. `bufev[c]` has what the code
relies on in libevent, checked against the vendored source: enabled events fire
also before a socket is set (the timeout of line 106 of `LibEvent.cpp`),
`bufferevent_setfd` waits for a running callback and keeps the events enabled
(`bufferevent_sock.c`, lines 620-637), an event loop without events ends
(`event.c`, line 1596) and so does one whose `select` fails on a closed socket. The
contents of packets are abstracted: `DoRead` ends in every way it can. A client is
its number in the order of acceptance; handles are not reused.

## 3. Runs

| run | expected | question | distinct states |
|---|---|---|---|
| `AcceptPool_live` | pass | two sessions: count, bound, record and reposts; does `Shutdown` return? | 620 679 |
| `Lifecycle_one` | pass | one worker and a shutdown: is what is closed released in the end? | 53 970 |
| `Lifecycle_two` | pass | two workers and a shutdown: counts of reads and sends, connection list, what can go wrong with a release | 1 047 911 |
| `ReadOrder_two` | pass | two workers: is the reordering an ordered stream until both are busy at once? | 79 806 |
| `ReadOrder_race` | violation | is it one also when they are? | |
| `TcpServer_two` | pass | two workers, timer, application: handles, contexts and the stop | 2 801 980 |
| `TcpServer_cause` | violation | is a connection closed only for a cause of its own? | |
| `UdpServer_two` | pass | two workers, one fault: pool, posted receives and the stop | 1 139 594 |
| `OrderedEcho_two` | pass | two workers, one fault: order, count, free | 580 054 |
| `ScalableEcho_two` | pass | two connections, two workers, one fault: limit, count, free | 733 455 |
| `AcceptList_two` | pass | two workers and the main thread, one fault: count, lists, waiting clients | 1 568 857 |
| `LibEvent_one` | pass | four clients on three `Conn`s: free list, clients that go | 1 143 159 |

What the passing runs show:

* **AcceptPool_live.** `m_nPendingAcceptCount` is the length of the list
  (`PendingCountExact`); the posting loop reads it without the lock and still
  never exceeds `m_nMaxAccepts`, except by the initial accepts that a later
  session adds to what the earlier ones left (`PendingBounded`); an accept that can
  complete is always in the list (`OutstandingRecorded`); a repost that a worker
  counted is always signalled, about to be, or about to be taken
  (`NoLostRepost`, in the first session: a later one may begin with a count left
  from the previous one and no event). The event that `Shutdown` sets can be
  reset by the `WSAEnumNetworkEvents` of a round under way; the 60 s timeout makes
  the thread look at `m_bShutDown` again, so `Shutdown` still returns
  (`ShutdownCompletes`). The theorems extend all but the last to any number of
  workers, buffers and sessions.
* **Lifecycle_one.** A connection that is closed while reads are outstanding is
  released in the end (or a released context is used), whatever the walk of
  `CloseAllConnections` does meanwhile. The run has one worker to
  keep the check of liveness small.
* **Lifecycle_two.** With two workers, and up to the first use of a released
  context, `nOutstandingRecv` is exact (`PostRecv` counts inside the lock),
  `nOutstandingSend` is exact up to the increments under way (`PostSend` counts after
  `WSASend`, so the count may be -1 for a moment), the list and its count agree
  although `CloseAllConnections` clears both under the workers, and the list holds
  at most `m_nMaxConnections + 1` connections: one more than the limit, because line
  470 tests with `<=`, but never two more. A released context is used, and
  `OnlyRacesMisuse` says through which two races only. One is the walk of
  `CloseAllConnections` (`WalkOvertaken`): it closes a connection and leaves its lock
  (line 542); a worker dequeues the last aborted read, finds both counts zero and
  releases the context; line 544 then reads the `pNext` of a context in the free list,
  of one that was given back to the heap, or of the next connection. The other is a
  worker that tests the counts (line 1045 and others) while a second one has dequeued
  an operation of the same connection, which is no longer counted (`raced`). Operations
  on their way are never the cause: a mutant that tests the reads only is detected.
* **ReadOrder_two.** With the two workers of the code, for every order in which packets
  are dequeued and whichever worker dequeues each, `GetNextReadBuffer` delivers in order
  (`InOrderAlone`), leaves nothing that is due (`NoStall`) and implements
  `InOrderStream` (`ImplementsStream`), until a worker dequeues a read while the other is
  busy with one; if that never happens, with its liveness.
* **TcpServer_two.** With a handle that is used for two connections in turn, and until
  `ReleaseResource` begins its walk, the map holds open connections only, and a worker
  that closes a handle is the only one to do so and does so before the handle is
  handed out again (`HandlesClosedOnce`). Nothing is claimed of the walk itself, see
  below. No context is in its pool twice
  or while it is in use (`PoolExclusive`), although one error path uses a context
  that it has already released; and `StopServer` is never left waiting for a thread
  that nothing can wake, unless `PauseServer` was called before (`StopNotStuck`).
* **UdpServer_two.** No context is in the pool twice or while it is in use
  (`PoolExact`). Every receive is replaced; a receive that cannot be posted is
  missing from then on, and a failed send posts one more (`ReceivesKept`).
  `StopServer` returns, unless `PauseServer` was called before.
* **OrderedEcho_two.** The echo is an ordered stream although packets reach the
  workers in any order, and `OutstandingOps`, corrected by the increments under way, is
  the number of operations, both through every failure. As long as no call failed
  (`faulted`) and no packet of the connection was handled during its accept (`early`), the
  connection is not freed while an operation or a worker needs it (`OutlivesUse`), and
  it is freed in the end, with everything echoed (`EchoedAndFreed`). Neither condition
  can be dropped, see below.
* **ScalableEcho_two.** `gOutstandingSends` passes `gMaxSends` by less than the number
  of workers (`SendsBounded`, proved for every instance) and counts the outstanding
  sends plus those that failed, which nothing takes off it. A connection is freed only
  when no operation of it is left; that nobody uses it then, and it is freed once, holds
  unless two workers were busy with it (`overlap`). Without a fault all is sent and freed.
* **AcceptList_two.** `PendingAcceptCount` is the number of outstanding accepts plus
  those that ever failed; until one fails both lists are exact and end. A client
  waits only if `gMaxAccepts` accepts are counted, or a call failed, or `ResetEvent`
  (line 1585 of `iocp_server.cpp`) undid the signal of a worker. That rests on
  `FD_ACCEPT` being recorded again after `AcceptEx`: if it only told of clients as they
  arrive, a burst longer than `BURST_ACCEPT_COUNT` would be forgotten half way.
* **LibEvent_one.** The list without a lock is correct for one taker and one
  giver: in every interleaving it holds exactly the `Conn`s that are not handed out
  (`FreeListExact`), until a `Conn` is closed that no client had or that `DoAccept`
  had not finished with. Even then `head` never becomes `NULL` (`TypeOK`). A client
  that goes is noticed (`GoneIsNoticed`), also on a `Conn` that is used again, while
  the worker's loop runs.

What the violations show (each is a `findings` entry, with the line of the
repository it contradicts):

* **ReadOrder_race.** Two workers run the loop of lines 1240-1249 at once and deliver
  out of order.
* **TcpServer_cause.** `CompleteAccept` lists the socket (`TcpServer.cpp`, line 692)
  before it sets the idle time (line 724). The timer, which runs every second,
  reads 0 in between and closes the new connection as timed out. The same
  property is also at stake in two other places of the model: an aborted operation
  that is dequeued after its handle was given to a new connection, and
  `ReleaseFirst`, whose context may name another worker's socket when it is read.

Statements that TLC refutes and that have no run, because the code does not promise
them or the properties above exclude them explicitly:

* a silent client goes away (line 902: one event per minute keeps the check from
  running), and the listen queue drains (lines 1074-1087: a failed accept is not
  replaced);
* no use of a released context: `OnlyRacesMisuse` names the two ways to one (line 544, and
  line 1045 and others, which test outside the lock);
* no handle is closed twice: `ReleaseResource` (`TcpServer.cpp`, line 402) closes the
  sockets of the map without the lock and leaves them listed, and the timer, killed
  only afterwards, closes them once more (`ReleaseSocket`, then `ConnectTimeOutCheck`);
* a `SOCKET_OBJ` of `iocpserver.cpp` outlives its accept: without any fault, the end of
  the stream of a client that sent nothing more can be handled by the second worker
  while the first one is still posting receives (line 803); it frees the object under
  it. With a fault, a failed send (line 697) is freed and stays the head of
  `OutOfOrderSends`;
* only larger datagrams are too large for `CUdpServer` (`UdpContext.cpp`, line 46: the
  buffer was shortened by an earlier send);
* at most `gMaxSends` sends are outstanding (`iocp_server.cpp`, line 351), and the limit
  is per socket, as the usage text of line 86 has it: the counter is global;
* every completed accept of `iocp_server.cpp` is replaced: see `AcceptList_two`; the
  comment of line 853 says "For completed accepts, another AcceptEx is posted.";
* a worker of `CLibEvent` serves its clients until `StopServer`: `LoopEnds` is possible
  as soon as every `Conn` has been used once or has timed out.

### Bounds

| bound | value | why it is enough |
|---|---|---|
| `Workers`, `IOWorkers` | 2 (1 in `AcceptPool_live`, `Lifecycle_one` and `LibEvent_one`) | `MAX_THREAD` is 2; the runs with one worker check liveness of large state spaces; the main program of `LibEvent` has one |
| `Buffers` | 3 (2 in `Lifecycle_one`) | more than the pool may hold; `HeapAlloc` may fail before they are used up. With two a connection has two reads, or a read and a send, in flight |
| `MaxAccepts`, `InitialAccepts` | 1 or 2 | the limit is reached, and exceeded by a mutant |
| `AcceptBatch`, `Burst` | 2 | as many as or more than the limit lets through, so that the other conjunct of the loop decides |
| `MaxBacklog`, `MaxRepost` | 1, 0 | a client waits while accepts are handled; clients stop connecting above `MaxRepost` uncollected reposts |
| `MaxStarts` | 2 | a second session over what the first one left |
| `Contexts`, `MaxConnections` | 2 and 0 (1 in `Lifecycle_one`) | `<=` admits one connection, so the full server is reached with two; with the limit 1 the shutdown walks over two connections |
| `InitialReads` | 2 (4 in `ReadOrder_two`, 3 in `ReadOrder_race`) | more than one read of a connection in flight; with four a read is parked before, between and behind others |
| `MaxSends` | 0 (`<=`) or 1 | one outstanding send reaches the limit, and two workers pass it |
| `MaxFreeContexts` | 1 | both ways out of `ReleaseContext` |
| `MaxReads` | 6 (4 in `ReadOrder_race`) | reads are posted again after the first ones |
| `SeqModulus` | 6 (8 in `ReadOrder_race`, 16 in `OrderedEcho_two`) | at least `MaxReads`, and more than the chunks: no wrap |
| `Sockets`, `MaxClients` | 1 (2 in `TcpServer_cause`) and 2 | the handle of the first client is used again for the second |
| `AcceptContexts`, `ReceiveContexts`, `SendContexts` | 2, 2, 1 | a handler takes the next context before it gives its own back |
| `MaxPostAccepts` | 1 | the semaphore reaches its maximum |
| `MaxPost`, `PoolSize`, `MaxContexts` | 1, 2, 5 | the pool grows up to all contexts that can be in use at once |
| `MaxLen`, `MaxDatagrams` | 2, 2 | a short datagram shortens the buffer that the next one meets |
| `OverlappedCount`, `MaxData` | 2, 2 (1 in `ScalableEcho`) | receives overtake each other; with the first chunk two or three are echoed |
| `MayFail` | TRUE, once | every call and operation fails in some behaviour; a second fault adds no new path |
| `MaxClients` of `AcceptList` | 3 | more clients than accepts |
| `ConnNum`, `MaxClients` of `LibEvent` | 2, 4 | the fourth client gets a `Conn` for the second time |
| `MaxUnused` | 1 | one timeout of an unused `Conn` upsets the list |

In `TcpServer` a client stays silent for twenty minutes (`TwentyMinutesPass`) only while
no worker is handling a packet: no handler takes that long.

`TcpServer_two` uses the view `WithoutWronged`: the history variable `wronged` is read
by `ClosedForCause` only, which this run does not check. Symmetry is used where no
liveness is checked, over sets whose members only differ by name.

`CHECK_DEADLOCK` is off everywhere because the system really may stop: the owner
need not start the server again, clients need not connect, and the bounds end the
reads and the accepts.

### Fairness

`AcceptPool!FairSpec`: weak fairness of the listening thread and of every worker
(the scheduler runs a thread that can run), of the ageing of a silent client (the
clock moves) and of the two last steps of `Shutdown` (its caller does not stop in
the middle). Clients and `Start` owe nothing.
`ConnectionLifecycle!FairSpec`: weak fairness of the workers and of completion (an
aborted operation completes), and strong fairness of dequeuing each packet, because
the completion port is a queue that passes over no packet for ever.
A shutdown is owed by nobody, but the walk of `CloseAllConnections`, which holds the
list lock, goes on once it has begun.
`ReadOrder!ReadsFairSpec`: weak fairness of the workers.
`OrderedEcho` and `ScalableEcho`: weak fairness of the kernel (what can complete
completes) and of each worker. Clients owe nothing: they need not connect, send or end
a connection.
`UdpServer`: weak fairness of the threads taken together, which is less than the
scheduler gives and suffices.
`LibEvent`: weak fairness of `DoAccept` and of `CloseConn` once begun, strong fairness
of the event of a client that has gone: `select` reports it in every round.
`TcpServer` and `AcceptList` have safety properties only; `StopNotStuck` and
`NoClientStranded` describe states in which nothing would happen any more.

## 4. Proofs

The theorems hold for every value of the constants allowed by the `ASSUME` of
the module they extend.

### CIOCPServer_proofs: the accepts

`AcceptPool` and `ReadOrder` share no state; their theorems are in one module.
`ConstantsAssumption` of `AcceptPool`: finite sets of buffers and workers, natural bounds,
and `InitialAccepts <= MaxAccepts` (the constructor sets 10 and 100).

* `AcceptPoolTypes` - `Spec => []TypeOK`.
* `PendingCount` and `NoAcceptEscapes` - `[]PendingCountExact`,
  `[]OutstandingRecorded`. Neither is inductive. A worker frees a buffer two steps
  after it was dequeued, so one has to know that a buffer that is handled is
  completed, is held by that worker only and is out of the list (`HandledInv`);
  recording a free buffer raises the count by one only if free buffers are not in
  the list (`FreeInv`); the buffer the listening thread is about to post is recorded
  and in the list (`ListenerInv`). Their conjunction with the two properties and the
  type invariant is `IInv`.
* `PendingAcceptsBounded` - `[]PendingBounded`. The initial loop counts against the
  number of the session and the index of the loop, the later loop against the
  test it has just made (`Bound`, `BoundInv`).
* `RepostsNotLost` - `[]NoLostRepost`. Before the workers are created no repost can
  be counted (`QuietInv`), and the property is kept by every step of the
  first session (`RepostInv`).

### AcceptList_proofs

`ConstantsAssumption` asks for a finite set of buffers and positive limits; the workers
may be infinitely many, calls may fail, and `InitialAccepts` may exceed `MaxAccepts`, as
the first loop is not bounded by it.

* `TypeCorrect`, `AcceptsStayCounted` - `[]TypeOK`, `[]AcceptsCounted`, also after accepts
  have failed. A buffer in a worker's hand is in no other hand, and the buffer the main
  thread prepares is nobody else's (`HandsInv`): dequeuing leaves `Outstanding` as it is,
  `CountDown` and `HandleError` take exactly one buffer out of it.
* `ListsStayExact` - `[]ListsExact`. `IsList(next, head, R)` says that the links from `head`
  form a chain without repetition through exactly the buffers of `R` that ends in
  `NULL`. `ListInv` says this of both lists, with `R` the free buffers for one and, for the
  other, the buffers to be listed and possibly some that were lost. The lemmas
  on lists are proved for any links: a link outside the list does not matter
  (`ListFrame`), pushing (`ListPush`), popping (`ListPop`) and taking out the i-th buffer
  (`ChainDrop`). `WalkIsChain` shows what the recursive function `Walk` computes on a chain,
  by the least place where it could differ; with it `RemoveFromList` shows that
  `RemovePendingAccept` takes out the buffer it was given, and `ListedIsList` that `Ends` and
  `Listed` mean what they say.
* `NobodyStranded` - `[]NoClientStranded`, for every limit and burst. Clients that wait
  while no accept is posted and `FD_ACCEPT` is not set (`Unheard`) have `gMaxAccepts` counted
  accepts before them, or somebody has still to post an accept or to ask for one
  (`Hope`, `ServeInv`); and a request that was counted has been signalled or will be, unless
  `ResetEvent` undid it (`SignalInv`).

TLC checked the parts of `IInv` with the bounds of `AcceptList_two`.

### CIOCPServer_proofs: the reads

One assumption beyond `ReadsAssumption`, stated in the theorems:
`NoWrap` (`MaxReads <= SeqModulus`). It cannot be dropped: line 627 compares the numbers
with `<` also after a wrap, so that a read numbered 0 is parked before the last one of the
previous round. A connection has to make 2^32 reads to get there. The number of workers
is arbitrary. The theorems speak of a behaviour up to the first overlap of two workers
(`overlapped`); `ReadOrder_race` shows that they cannot say more.

* `ReadsInOrder`, `ReadsDoNotStall`, `ParkedReadsSorted` - `[]InOrderAlone`, `[]NoStall`
  and that the parked list is sorted, for any number of reads in flight. The inductive
  invariant is `ReadsInvAlone`, that is `~overlapped => ReadsInv`. `ReadsInv` says that at
  most one worker is busy (`SoleBusy`); that the reads queued,
  parked and held by it are different ones, none of them delivered yet; that
  `nCurrentReadSequence` is the number of the next one (of the one just delivered
  while the worker is about to advance it); that the parked list is strictly
  sorted; that a worker past the test of the head leaves nothing due in it; and that
  this is what the next worker finds, whichever it is (`HandOver`). The lemmas on
  `Insertion` show that it keeps a sorted list sorted and adds exactly one element.
* `ReadOrderRefinesStream` - `ReadsSpec => StreamUntilOverlap`: until the overlap every step
  delivers the next read or leaves the stream alone.

### ConnectionLifecycle_proofs

`ConstantsAssumption` asks for finite sets of buffers and workers; the contexts may be
infinitely many.

* `TypeCorrect`, `RecvCountsExact`, `SendCountsExact`, `ConnectionListStaysExact` -
  `[]TypeOK`, `[]RecvCountExact`, `[]SendCountExact`, `[]ConnectionListExact`, for any number
  of workers, with and without `CloseAllConnections`. The inductive invariant `IInv` has a
  part that survives misuse, `Core`: the types, the fields a worker has at each place
  (`ShapeInv`), and that a buffer in a worker's hand is in no other hand and not posted
  (`HeldInv`). The other part, `Guarded`, holds as long as no released context was used:
  a context just allocated is known to one worker and has no operation (`NewInv`), the list
  is without repetition and agrees with its count (`ListInv`), the connections
  `CloseAllConnections` has still to close are in use and not closing (`CloseInv`,
  `Ahead`), and the counts are exact (`CountInv`).
* `OnlyTwoRacesMisuse` - `OnlyRacesMisuse`, for any number of workers, with and
  without a shutdown. `SoleInv` adds to `IInv` that every context a worker needs, or an
  operation is posted on, is in use, and that a context that is about to be released is
  needed by no other worker and by no operation. It holds as long as no context was
  misused and no test was `raced`. The walk changes none of that, it only closes
  sockets. The worker's test of the counts covers the operations on their way because
  `CountInv` is exact: an operation that is not counted is in another worker's hand,
  and then the test is `raced`.
* `NamedContextsAreLive` - `[]NamedIsLive`, from the same invariant: until then the context
  of every worker in the middle of `HandleIO`, and of every operation on its way, is in
  use.

TLC checked `IInv`, and `SoleInv` until the first race, with the bounds of `Lifecycle_two`
before they were proved.

### TcpServer_proofs

`ConstantsAssumption` asks for finite sets of contexts and workers.

* `TypeCorrect`, `PoolStaysExclusive` - `[]TypeOK`, `[]PoolExclusive`. A context has one
  owner: its pool, the kernel, the port or a worker (`OwnInv`, made of `PoolInv`, `PortInv`,
  `HoldInv`); every `GetContext`, post, completion, dequeue and `ReleaseContext` passes it
  on. `ShapeInv` says which fields a worker has at each place.
* `NoHandleClosedTwice` - `[]HandlesClosedOnce`, which is about the time until
  `ReleaseResource` walks the map. Until `ReleaseResource` every open handle is
  accounted for exactly once: by the map, by a context of an accept, or by the worker that
  took it out of the map and closes it (`HandleInv`).
* `StopIsNotStuck` - `[]StopNotStuck`. At `joinWorkers` the number of workers that have not
  ended is at most the number of `NULL` packets: a worker ends only by taking one, or by
  leaving its loop without one (`StopInv`).

TLC checked `IInv` with the bounds of `TcpServer_two`.

### UdpServer_proofs

`ConstantsAssumption` asks for a finite set of workers, of which the application thread is
not one.

* `TypeCorrect`, `PoolStaysExact` - `[]TypeOK`, `[]PoolExact`. The invariant says that a
  context in the hands of a thread is marked so and is in one hand only (`OwnInv`), what a
  thread holds at each place (`PlaceInv`), that posted receives have contexts of their own
  (`KernelInv`), when the flags are set (`ControlInv`), and that the stack holds each
  context marked as pooled once (`PoolInv`).
* `ReceivesStayPosted` - `[]ReceivesKept`. The property speaks of the time after
  `InitServer` has posted its receives; `CountInv` also counts, while it posts them, those
  still due: receives posted or completed, plus those a worker or the application owes,
  are the number due so far, plus `extra`, less `missed`.

### OrderedEcho_proofs

`ConstantsAssumption` asks for a finite set of workers; the number of overlapped
receives, of chunks and of workers is arbitrary, and calls may fail. There are three
inductive invariants, each on top of the first.

* `TypeCorrect`, `OpsStayCounted` - `[]TypeOK`, `[]OpsCounted`. The count is a sum of
  cardinalities, so a completion must not put a packet on the port that is there
  already. `IInv` therefore follows each number: receives are numbered in the order of
  posting and what has completed is below what has not (`Numbered`); a number is in one
  packet, one worker's hand, one place of `OutOfOrderSends` or on the wire, except that
  the send being counted is still the head of the list (`Distinct`); a send is in flight
  or in a packet, once (`Flying`). `LockInv` and `ShapeInv` say where workers hold
  `SockCritSec` and what they have at each place, `StartInv` that nothing else happens
  until the accept is handled.
* `EchoRefinesStream` - `Spec => EchoesStream` under `NoWrap` (`MaxData + 1 < SeqModulus`, a
  connection with fewer than 2^32 chunks), with any number of workers and every failure.
  `PostRecv` draws a number before the call, so a receive that fails leaves a gap in the
  numbers and from then on the number of a receive and the chunk it gets differ by one.
  `GapInv` says that there is a gap (or the next number takes its place): data
  below it has the number of its chunk, nothing has the number of the gap itself. As
  the echo is contiguous it never gets past the gap. `LastInv` says that
  `LastSendIssued` is the length of the echo, unless a send failed: then the head of the
  list is a freed buffer for ever, or nothing was ever posted (`Barren`).
* `NothingUsedAfterFree` - `[]OutlivesUse`. `Clear` holds as long as no call failed and no
  packet overtook the accept: a worker that accepts is alone; a worker that will free
  the connection is alone with it and `OutstandingOps` is 0 (`Quiet`), from the test at the
  end of `HandleIo` on, across `LeaveCriticalSection` and `closesocket`, to
  `FreeSocketObj`. That the test is right rests on `OpsCounted`: at that point no increment
  is still to come.

TLC checked `IInv`, `LastInv`, `GapInv`, `OpenInv` and `ClearInv` with the bounds of
`OrderedEcho_two`.

### ScalableEcho_proofs

* `SendsStayBounded` - `[]SendsBounded`, for any finite set of workers, any
  connections and any limit. The property is not inductive: a worker that has
  tested the limit posts its send and counts it later. `SendsBounded` therefore counts
  the workers between test and count as one more send each, and the inductive
  invariant `BoundInv` adds `Shape`, the places of the workers and the range of the counter.
  A worker that tests finds the counter below the limit, and at most all other
  workers are between test and count.
* `TypeCorrect`, `SendsStayCounted`, `FreedStaysIdle` - `[]TypeOK`, `[]SendsCounted`,
  `[]IdleWhenFreed`. `IInv` says that the one buffer of a connection is in one worker's hand
  at most (`Own`), that the pending list holds the pending buffers, each once (`Queued`),
  that the holder of a lock is where it says (`LockInv`), that each count of a connection is
  its operations on their way less the ones posted and not yet counted (`RecvInv`,
  `SendInv`, `SendsInv`), that a connection that is freed, or about to be, has no
  operation left: its buffer is free, or the worker on the error path frees it next
  (`FreeInv`), and that without an overlap the worker that may free a connection is
  alone with it (`AloneInv`). `SendsCounted` counts the sends that completed with an error
  as outstanding for ever, since the code never takes them off.

TLC checked `IInv` with three workers and two connections.

### LibEvent_proofs

`ConstantsAssumption` asks for positive numbers of workers and of `Conn`s, natural bounds,
and a `NULL` that is neither a client nor a `Conn`.

* `TypeCorrect` - `[]TypeOK`. That `head` never becomes `NULL`, also once a `Conn` was
  closed that no client had and is in the list twice, needs `LinkInv`: head, tail and
  links of a worker are its own `Conn`s, only the link of the tail may be `NULL`, and
  the head that `GetFreeConn` found different from the tail has a link.
* `FreeListStaysExact` - `[]FreeListExact`: the list without a lock, with `DoAccept` taking at
  one end while the worker puts at the other. Two parts make it inductive. `UseInv`: a
  `Conn` that a thread uses was handed out, no two threads use one, and a `Conn` in the
  list has no events that a socket could raise, so that nothing is put into the list
  that is still in it. `ListInv`: from `head` the links form a chain without repetition
  that ends at `tail` and has exactly the `Conn`s that are not handed out (`IsList`); a
  `Conn` that was linked and is not yet the tail is behind it and still counts as
  handed out.
* The lemmas on lists hold for any links: those behind the tail do not matter
  (`ListFrame`), taking the head (`ListTake`), putting behind the tail (`ListPut`).
  `ListConnIsList` shows that the recursive function `ListConn`, in which the property is
  stated, walks such a chain (`ListConnWalks`, by the least place where it could differ).

TLC checked `LinkInv` and `UseInv` with the bounds of `LibEvent_one`, and with two workers of
two `Conn`s each.

### What is only model-checked

Every safety invariant that a passing run checks is also proved for all values of the
constants (`InOrderAlone`, `NoStall` and the safety part of `ImplementsStream`, which is
`StreamUntilOverlap`, and `EchoesStream` for no wrap: the runs have this bound too). Liveness under fairness (`ShutdownCompletes`,
`ClosedIsReleased`, `EchoedAndFreed`, `SentAndFreed`, `StopCompletes`, `GoneIsNoticed`, the
fairness part of `ImplementsStream`) is out of the prover's reach, as are `ENABLED` and
induction over data: these stay with TLC.

## 5. Not modelled

Of `CIOCPServer`: `Start` over workers that outlived the previous session; the
results of the wait that cannot occur before a quit packet is posted
(`WSA_WAIT_FAILED`, an index above 1, lines 939-943); the contents, addresses and
sizes of buffers; `CMyServer`'s output.

Of `CTcpServer` and `CUdpServer`: an `InitServer` or `StartServer` that fails half way;
a second `InitServer`, which finds pools that think they are initialised and uses
their `NULL` stacks; which contexts `DestroyContextPool` deletes.

Of `iocpserver.cpp`: the listening sockets and the UDP branches. Of `CLibEvent`: a
`StartServer` that fails, the contents of packets and the output.

Disagreements between code and comments that were met and have no run of their own,
because the step is in the model and the property would restate it:

* lines 910-916 close the socket of a client whose accept may have completed since
  the test of its connect time (`ListenerWalkKick`);
* a request whose `AcceptEx` fails stays recorded for ever (lines 849, 953);
* the workers are waited for 5 s only (line 887), and the port and the pools are
  freed whether or not they have ended;
* the limit on connections admits one more than `m_nMaxConnections` (line 470);
* the buffer of a failed `PostRecv` or `PostSend` is dropped (lines 1167, 1254, 1321);
* a connection closed with nothing outstanding (lines 1135, 1150, 1169, 1256) is never
  released, because only a completion leads to `ReleaseContext`;
* `CloseAllConnections` reads `pNext` of a context after it has unlocked it (line 544);
* `AllocateContext` initialises a critical section in the result of `HeapAlloc` before
  it is tested (line 343).

Of the repository: the test client, the single-threaded examples of IPC, sockets,
I/O models, threads and design patterns, which have no evolving shared state or
show one primitive each, and the vendored and generated code. The repository has
about 70 000 lines of implementation, most of them libevent, libev, Microsoft's and
other people's samples and generated code. The six servers are about 5 000 lines;
nearly every part of them that changes state is in a module. A model of libevent
would be a project about libevent; here it is an environment, described by what
the servers use of it.

## 6. Plan

1. Done: the modules and runs above and the proofs of every safety property they check.
2. The listening side of `iocpserver.cpp`; the handshakes of `linux_thread_syn.cpp` and
   `win32_thread_syn.cpp`.
3. A composition of `AcceptPool` with `ConnectionLifecycle`: workers that outlive the
   5 s of the shutdown and use freed pools.
4. What two workers may rely on although they misuse contexts: whether a lock around
   the tests of lines 1045 and following would make `NamedIsLive` hold without its
   condition.
