------------------------------ MODULE UdpServer ------------------------------
(***************************************************************************)
(* CUdpServer with its pool of CUdpContexts: an echo server that keeps     *)
(* m_iMaxPostReceiveNumbs receives posted on one UDP socket.  A worker     *)
(* that gets a datagram posts another receive, echoes the datagram and     *)
(* releases the context; the thread of the application initialises,        *)
(* starts, pauses and stops the server.                                    *)
(*                                                                         *)
(* A context is a number, in the order of creation; the pool is a stack.   *)
(* A datagram is its length.  SetSendParameters shortens the buffer of a   *)
(* context to what it sends, and ReleaseContext does not restore it.       *)
(***************************************************************************)
EXTENDS Integers, Sequences, FiniteSets

CONSTANTS
  Workers,
  MaxPost,       \* m_iMaxPostReceiveNumbs
  PoolSize,      \* contexts created by InitContextPool
  MaxContexts,   \* bound: contexts that can be created, enough for all uses
  MaxLen,        \* MAX_UDP_CONTEXT_BUFSIZE
  MaxDatagrams,  \* bound: datagrams that arrive
  MaxPauses,     \* bound: calls of PauseServer
  MayFail        \* may calls and operations fail?  Bound: once.

ASSUME ConstantsAssumption ==
  /\ {MaxPost, PoolSize, MaxContexts, MaxLen} \subseteq Nat \ {0}
  /\ PoolSize <= MaxContexts /\ {MaxDatagrams, MaxPauses} \subseteq Nat
  /\ MayFail \in BOOLEAN /\ IsFiniteSet(Workers) /\ "app" \notin Workers

Contexts == 1..MaxContexts
Threads == Workers \cup {"app"}

VARIABLES
  m_bServerRunning,
  ctx,         \* where each context is
  len,         \* m_struRevBuf.len
  bytes,       \* NumTransferred of its completed receive
  stack,       \* m_pUdpContextStack
  created,     \* size of m_pUdpManageContextStack
  receives,    \* contexts of the posted receives, oldest first
  events,      \* is m_hPostReceiveEvent signalled?
  nulls,       \* NULL packets on the completion port
  suspended,   \* suspend count of the listening thread
  resumed,     \* the workers have been resumed
  listener,    \* the listening thread: its place
  th,          \* the other threads: place and local variables
  datagrams, pauses,
  extra,       \* history: receives posted because a send failed
  missed,      \* history: receives that could not be posted
  failed       \* history: a call or an operation failed

pool == <<ctx, len, bytes, stack, created>>
control == <<m_bServerRunning, events, nulls, suspended, resumed, listener,
             pauses>>
history == <<extra, missed, failed>>
vars == <<pool, receives, control, th, datagrams, history>>

\* c and n: context and length of the packet in hand; d: the context being
\* posted; left: what IssueSendOperation has still to send; i: loop counter;
\* ret: where IssueReceiveOperation returns to.
Thread(l) == [pc |-> l, c |-> 0, n |-> 0, d |-> 0, left |-> 0, i |-> 0,
              ret |-> "none"]

Become(t, r) == th' = [th EXCEPT ![t] = r]
Goto(t, l) ==
  Become(t, IF l = "get" THEN Thread("get") ELSE [th[t] EXCEPT !.pc = l])
CanFail == MayFail /\ ~failed

\* The state after the first part of InitServer: socket, port, suspended
\* threads and the pool; it goes on with PostReceiveOperation.
Init ==
  /\ m_bServerRunning = FALSE
  /\ ctx = [c \in Contexts |-> IF c <= PoolSize THEN "pool" ELSE "none"]
  /\ len = [c \in Contexts |-> MaxLen] /\ bytes = [c \in Contexts |-> 0]
  /\ stack = [c \in 1..PoolSize |-> c] /\ created = PoolSize
  /\ receives = <<>> /\ events = FALSE /\ nulls = 0
  /\ suspended = 1 /\ resumed = FALSE /\ listener = "start"
  /\ th = [t \in Threads |-> Thread(IF t = "app" THEN "init" ELSE "get")]
  /\ datagrams = 0 /\ pauses = 0
  /\ extra = 0 /\ missed = 0
  /\ failed = FALSE

-----------------------------------------------------------------------------
(* The pool.                                                               *)

\* GetContext: from the stack, or a new one.
GetContext(c) ==
  \/ /\ stack # <<>> /\ c = stack[Len(stack)]
     /\ stack' = SubSeq(stack, 1, Len(stack) - 1) /\ UNCHANGED created
  \/ /\ stack = <<>> /\ created < MaxContexts
     /\ c = created + 1 /\ created' = c /\ UNCHANGED stack

ReleaseContext(c) ==
  /\ stack' = Append(stack, c) /\ ctx' = [ctx EXCEPT ![c] = "pool"]
  /\ UNCHANGED len

-----------------------------------------------------------------------------
(* The network and the kernel.  Of the states of a context, "recv" and     *)
(* "send" belong to the kernel and the ones in Packets are queued on the   *)
(* completion port.                                                        *)

Packets == {"data", "zero", "recvErr", "sent", "sendErr"}

\* A datagram goes to the oldest receive; one longer than its buffer
\* completes it with ERROR_MORE_DATA, and is reported as too large.
DatagramArrives ==
  LET c == Head(receives) IN
  /\ datagrams < MaxDatagrams /\ receives # <<>>
  /\ datagrams' = datagrams + 1 /\ receives' = Tail(receives)
  /\ \E n \in 0..MaxLen :
       /\ bytes' = [bytes EXCEPT ![c] = IF n > len[c] THEN 0 ELSE n]
       /\ ctx' = [ctx EXCEPT ![c] = IF n > len[c] THEN "recvErr"
                                    ELSE IF n = 0 THEN "zero" ELSE "data"]
  /\ UNCHANGED <<len, stack, created, control, th, extra, missed,
                 failed>>

\* Another error, as ERROR_PORT_UNREACHABLE.
ReceiveFails ==
  /\ CanFail /\ receives # <<>> /\ receives' = Tail(receives)
  /\ ctx' = [ctx EXCEPT ![Head(receives)] = "recvErr"] /\ failed' = TRUE
  /\ UNCHANGED <<len, bytes, stack, created, control, th, datagrams, extra, missed>>

SendCompletes(c) ==
  /\ ctx[c] = "send"
  /\ \/ ctx' = [ctx EXCEPT ![c] = "sent"] /\ UNCHANGED failed
     \/ CanFail /\ ctx' = [ctx EXCEPT ![c] = "sendErr"] /\ failed' = TRUE
  /\ UNCHANGED <<bytes, len, stack, created, receives, control, th, datagrams,
                 extra, missed>>

-----------------------------------------------------------------------------
(* IssueReceiveOperation, called by InitServer and by the workers.         *)

IssueGetContext(t) ==
  /\ th[t].pc = "issue"
  /\ \E c \in Contexts :
       /\ GetContext(c) /\ ctx' = [ctx EXCEPT ![c] = "mine"]
       /\ Become(t, [th[t] EXCEPT !.pc = "recvFrom", !.d = c])
  /\ UNCHANGED <<bytes, len, receives, control, datagrams, history>>

\* WSARecvFrom: if it fails the context is released, but lost after
\* WSAECONNRESET, and the callers ignore the result.
IssueRecvFrom(t) ==
  LET d == th[t].d
      done == [th[t] EXCEPT !.pc = th[t].ret, !.d = 0]
  IN
  /\ th[t].pc = "recvFrom"
  /\ Become(t, IF th[t].ret = "get" THEN Thread("get") ELSE done)
  /\ \/ /\ ctx' = [ctx EXCEPT ![d] = "recv"] /\ receives' = Append(receives, d)
        /\ UNCHANGED <<len, stack, missed, failed>>
     \/ /\ CanFail /\ failed' = TRUE /\ missed' = missed + 1
        /\ ReleaseContext(d) /\ UNCHANGED receives
     \/ /\ CanFail /\ failed' = TRUE /\ missed' = missed + 1
        /\ ctx' = [ctx EXCEPT ![d] = "lost"]
        /\ UNCHANGED <<len, stack, receives>>
  /\ UNCHANGED <<bytes, created, control, datagrams, extra>>

-----------------------------------------------------------------------------
(* WorkThread.                                                             *)

\* GetQueuedCompletionStatus.
Dequeue(w, c) ==
  /\ th[w].pc = "get" /\ resumed /\ ctx[c] \in Packets
  /\ ctx' = [ctx EXCEPT ![c] = "mine"]
  /\ Become(w, [Thread(ctx[c]) EXCEPT !.c = c, !.n = bytes[c]])
  /\ bytes' = [bytes EXCEPT ![c] = 0]
  /\ UNCHANGED <<len, stack, created, receives, control, datagrams, history>>

DequeueNull(w) ==
  /\ th[w].pc = "get" /\ resumed /\ nulls > 0 /\ nulls' = nulls - 1
  /\ Goto(w, "end")
  /\ UNCHANGED <<pool, receives, m_bServerRunning, events, suspended, resumed,
                 listener, pauses, datagrams, history>>

\* Mutant: after an error no receive is posted.
HandleShortNoIssue(w) ==
  /\ th[w].pc \in {"zero", "recvErr", "sendErr"}
  /\ ReleaseContext(th[w].c)
  /\ extra' = IF th[w].pc = "sendErr" THEN extra + 1 ELSE extra
  /\ Become(w, [Thread(IF th[w].pc = "zero" THEN "issue" ELSE "get")
                  EXCEPT !.ret = "get"])
  /\ UNCHANGED <<bytes, created, receives, control, datagrams, missed, failed>>

\* An empty datagram or an error, be it of a receive or of a send: the
\* context is released and a receive posted.
HandleShort(w) ==
  /\ th[w].pc \in {"zero", "recvErr", "sendErr"}
  /\ ReleaseContext(th[w].c)
  /\ extra' = IF th[w].pc = "sendErr" THEN extra + 1 ELSE extra
  /\ Become(w, [Thread("issue") EXCEPT !.ret = "get"])
  /\ UNCHANGED <<bytes, created, receives, control, datagrams, missed, failed>>

\* CompleteReceive: a receive is posted, ...
CompleteReceive(w) ==
  /\ th[w].pc = "data"
  /\ Become(w, [th[w] EXCEPT !.pc = "issue", !.ret = "echo",
                             !.left = th[w].n, !.n = 0])
  /\ UNCHANGED <<pool, receives, control, datagrams, history>>

\* Mutant: the buffer keeps one byte less.
SetSendParametersOneLess(d, left) ==
  LET size == IF left <= len[d] THEN left ELSE len[d] IN
  len' = [len EXCEPT ![d] = size - 1]

\* SetSendParameters: what does not fit is left for another send.
SetSendParameters(d, left) ==
  LET size == IF left <= len[d] THEN left ELSE len[d] IN
  len' = [len EXCEPT ![d] = size]

\* ... then IssueSendOperation sends the datagram in one or more pieces, ...
EchoGetContext(w) ==
  /\ th[w].pc = "echo"
  /\ \E c \in Contexts :
       /\ GetContext(c) /\ ctx' = [ctx EXCEPT ![c] = "mine"]
       /\ SetSendParameters(c, th[w].left)
       /\ Become(w, [th[w] EXCEPT !.pc = "sendTo", !.d = c,
                                  !.left = @ - len'[c]])
  /\ UNCHANGED <<bytes, receives, control, datagrams, extra, missed,
                 failed>>

EchoSendTo(w) ==
  LET d == th[w].d IN
  /\ th[w].pc = "sendTo"
  /\ \/ /\ ctx' = [ctx EXCEPT ![d] = "send"]
        /\ Become(w, [th[w] EXCEPT !.d = 0,
                        !.pc = IF th[w].left # 0 THEN "echo" ELSE "release"])
        /\ UNCHANGED <<len, stack, failed>>
     \/ /\ CanFail /\ failed' = TRUE /\ ReleaseContext(d)
        /\ Become(w, [th[w] EXCEPT !.pc = "release", !.d = 0])
  /\ UNCHANGED <<bytes, created, receives, control, datagrams, extra, missed>>

\* Mutant: the context is released by the sender and by the receiver.
ReleaseTwice(w) ==
  /\ th[w].pc \in {"release", "sent"}
  /\ stack' = stack \o <<th[w].c, th[w].c>>
  /\ ctx' = [ctx EXCEPT ![th[w].c] = "pool"]
  /\ Goto(w, "get")
  /\ UNCHANGED <<bytes, len, created, receives, control, datagrams, history>>

\* ... and the context is released, as by CompleteSend.
Release(w) ==
  /\ th[w].pc \in {"release", "sent"}
  /\ ReleaseContext(th[w].c) /\ Goto(w, "get")
  /\ UNCHANGED <<bytes, created, receives, control, datagrams, history>>

-----------------------------------------------------------------------------
(* ListenThread: the events are signalled by StopServer only, so it never  *)
(* gets to post receives (place "post").                                   *)

ListenStep ==
  /\ suspended = 0
  /\ \/ /\ listener = "start" /\ UNCHANGED events
        /\ listener' = IF m_bServerRunning THEN "wait" ELSE "end"
     \/ /\ listener = "wait" /\ events /\ events' = FALSE
        /\ listener' = IF m_bServerRunning THEN "post" ELSE "end"
  /\ UNCHANGED <<pool, receives, m_bServerRunning, nulls, suspended, resumed,
                 pauses, th, datagrams, history>>

-----------------------------------------------------------------------------
(* The application's thread.                                               *)

\* PostReceiveOperation, the end of InitServer.
InitPost ==
  /\ th["app"].pc = "init"
  /\ Become("app", IF th["app"].i < MaxPost
                   THEN [th["app"] EXCEPT !.pc = "issue", !.ret = "init",
                                          !.i = @ + 1]
                   ELSE Thread("ready"))
  /\ UNCHANGED <<pool, receives, control, datagrams, history>>

Resume ==
  /\ m_bServerRunning' = TRUE /\ resumed' = TRUE
  /\ suspended' = IF suspended > 0 THEN suspended - 1 ELSE 0

StartServer ==
  /\ th["app"].pc = "ready" /\ Goto("app", "up") /\ Resume
  /\ UNCHANGED <<pool, receives, events, nulls, listener, pauses, datagrams,
                 history>>

\* PauseServer: refuses while the server runs; otherwise it suspends the
\* listening thread once more (and no worker).
PauseServer ==
  /\ th["app"].pc = "ready" /\ pauses < MaxPauses
  /\ pauses' = pauses + 1 /\ suspended' = suspended + 1
  /\ UNCHANGED <<pool, receives, m_bServerRunning, events, nulls, resumed,
                 listener, th, datagrams, history>>

\* StopServer starts a server that does not run, ...
StopServer ==
  /\ th["app"].pc \in {"ready", "up"} /\ Goto("app", "stop")
  /\ \/ th["app"].pc = "ready" /\ Resume
     \/ th["app"].pc = "up" /\ UNCHANGED <<m_bServerRunning, resumed, suspended>>
  /\ UNCHANGED <<pool, receives, events, nulls, listener, pauses, datagrams,
                 history>>

\* ... tells the threads to end, ...
StopRunning ==
  /\ th["app"].pc = "stop" /\ Goto("app", "setEvents")
  /\ m_bServerRunning' = FALSE /\ nulls' = nulls + 1
  /\ UNCHANGED <<pool, receives, events, suspended, resumed, listener, pauses,
                 datagrams, history>>

StopSetEvents ==
  /\ th["app"].pc = "setEvents" /\ Goto("app", "joinListener")
  /\ events' = TRUE
  /\ UNCHANGED <<pool, receives, m_bServerRunning, nulls, suspended, resumed,
                 listener, pauses, datagrams, history>>

\* Mutant: the first NULL packet is taken into account.
StopPostNullsOneLess ==
  /\ th["app"].pc = "joinListener" /\ listener = "end"
  /\ Goto("app", "joinWorkers")
  /\ nulls' = nulls + Cardinality(Workers) - 2
  /\ UNCHANGED <<pool, receives, m_bServerRunning, events, suspended, resumed,
                 listener, pauses, datagrams, history>>

\* ... waits for the listening thread, posts a NULL packet for each worker,
StopPostNulls ==
  /\ th["app"].pc = "joinListener" /\ listener = "end"
  /\ Goto("app", "joinWorkers")
  /\ nulls' = nulls + Cardinality(Workers)
  /\ UNCHANGED <<pool, receives, m_bServerRunning, events, suspended, resumed,
                 listener, pauses, datagrams, history>>

\* ... waits for the workers and releases the resources.  The pool is
\* destroyed here too; the behaviour ends.
StopRelease ==
  /\ th["app"].pc = "joinWorkers" /\ \A w \in Workers : th[w].pc = "end"
  /\ Goto("app", "done") /\ receives' = <<>>
  /\ UNCHANGED <<pool, control, datagrams, history>>

-----------------------------------------------------------------------------
Work(w) ==
  \/ \E c \in Contexts : Dequeue(w, c)
  \/ DequeueNull(w) \/ HandleShort(w) \/ CompleteReceive(w)
  \/ EchoGetContext(w) \/ EchoSendTo(w) \/ Release(w)
  \/ IssueGetContext(w) \/ IssueRecvFrom(w)

Stopping == StopRunning \/ StopSetEvents \/ StopPostNulls \/ StopRelease

App ==
  \/ InitPost \/ IssueGetContext("app") \/ IssueRecvFrom("app")
  \/ StartServer \/ PauseServer \/ StopServer \/ Stopping

Next ==
  \/ DatagramArrives \/ ReceiveFails \/ \E c \in Contexts : SendCompletes(c)
  \/ ListenStep \/ App \/ \E w \in Workers : Work(w)

Spec == Init /\ [][Next]_vars

\* As long as a thread of the server can go on, one of them does.  This is less
\* than what the scheduler of the system gives to every thread.
FairSpec ==
  Spec /\ WF_vars(ListenStep \/ Stopping \/ \E w \in Workers : Work(w))

-----------------------------------------------------------------------------
\* The variables stay in their ranges; ListenThread does not post receives.
TypeOK ==
  /\ m_bServerRunning \in BOOLEAN /\ events \in BOOLEAN /\ nulls \in Nat
  /\ ctx \in [Contexts -> Packets \cup {"none", "pool", "recv", "send",
                                        "mine", "lost"}]
  /\ len \in [Contexts -> 1..MaxLen] /\ bytes \in [Contexts -> 0..MaxLen]
  /\ stack \in Seq(Contexts) /\ created \in Contexts
  /\ receives \in Seq(Contexts)
  /\ suspended \in Nat /\ resumed \in BOOLEAN
  /\ listener \in {"start", "wait", "end"}
  /\ th \in [Threads ->
       [pc : Packets \cup {"init", "ready", "up", "stop", "setEvents",
                           "joinListener", "joinWorkers", "done", "get",
                           "issue", "recvFrom", "echo", "sendTo", "release",
                           "end"},
        c : 0..MaxContexts, n : 0..MaxLen, d : 0..MaxContexts,
        left : 0..MaxLen, i : 0..MaxPost,
        ret : {"none", "init", "get", "echo"}]]
  /\ datagrams \in 0..MaxDatagrams /\ pauses \in 0..MaxPauses
  /\ extra \in Nat /\ missed \in Nat
  /\ failed \in BOOLEAN

\* No context is in the pool twice, and none that is in use.
PoolExact ==
  /\ \A j, k \in DOMAIN stack : stack[j] = stack[k] => j = k
  /\ {stack[j] : j \in DOMAIN stack} = {c \in Contexts : ctx[c] = "pool"}

Receiving == {c \in Contexts : ctx[c] \in {"recv", "data", "zero", "recvErr"}}

\* Workers that still have to replace the receive they took.
Owing == {w \in Workers : th[w].pc \in {"data", "zero", "recvErr", "issue",
                                        "recvFrom"}}

\* Once the server is initialised, the receives that are posted, completed
\* or about to be replaced are m_iMaxPostReceiveNumbs, plus one for each
\* send that failed, less one for each receive that could not be posted.
ReceivesKept ==
  th["app"].pc \notin {"init", "issue", "recvFrom"} =>
    Cardinality(Receiving) + Cardinality(Owing) = MaxPost + extra - missed

\* StopServer does not wait for ever, if PauseServer was never called.
StopCompletes ==
  []<>(\/ th["app"].pc \notin {"stop", "setEvents", "joinListener", "joinWorkers"}
       \/ pauses > 0)
=============================================================================
