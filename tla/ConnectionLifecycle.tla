------------------------ MODULE ConnectionLifecycle -------------------------
(***************************************************************************)
(* The life of a CIOCPContext in CIOCPServer: allocated by the worker that *)
(* handles a completed accept, listed, used by every worker that dequeues  *)
(* a read or a write of the connection, closed, and released to the pool   *)
(* when its counts of outstanding I/O say that nobody needs it any more.   *)
(*                                                                         *)
(* A critical section is one step; every access to a context outside one   *)
(* is a step of its own, because HandleIO tests bClosing and the two       *)
(* counts after it has left pContext->Lock.                                *)
(*                                                                         *)
(* A buffer b is one CIOCPBuffer posted on context b.key:                  *)
(*   "free", "pending" (overlapped, in the kernel), "data" / "zero" /      *)
(*   "error" (completed, its packet queued), "held" (a worker handles it), *)
(*   "leaked" (dropped by the code: no variable names it any more).        *)
(* Which buffer a read delivers is the subject of ReadOrder: here every    *)
(* completed read makes one callback, which echoes the data (CMyServer).   *)
(***************************************************************************)
EXTENDS Integers, Sequences, FiniteSets

CONSTANTS
  Contexts,        \* the CIOCPContext objects the heap can hold
  Buffers,         \* the CIOCPBuffer objects the heap can hold
  Workers,         \* MAX_THREAD worker threads
  NULL,
  InitialReads,    \* m_nInitialReads
  MaxConnections,  \* m_nMaxConnections
  MaxFreeContexts, \* m_nMaxFreeContexts
  MaxSends,        \* m_nMaxSends
  WithShutdown,    \* does the listening thread call CloseAllConnections?
  MaxAccepted      \* bound: accepts that complete

ASSUME ConstantsAssumption ==
  /\ NULL \notin Contexts \cup Buffers
  /\ IsFiniteSet(Buffers) /\ IsFiniteSet(Workers)
  /\ InitialReads > 0
  /\ {InitialReads, MaxConnections, MaxFreeContexts, MaxSends, MaxAccepted}
       \subseteq Nat
  /\ WithShutdown \in BOOLEAN

VARIABLES
  mem,       \* mem[c]: "heap" (not allocated), "pooled" (in the free list), "live"
  ctx,       \* the fields of each context
  buf,       \* the state, operation and completion key of each buffer
  wk,        \* the locals of each worker thread
  list,      \* m_pConnectionList, the head first
  m_nCurrentConnection,
  closePc, closeAt,   \* CloseAllConnections; not "off": it holds the list lock
  accepted,  \* accepts completed so far
  misuse,    \* a thread has used a context after its release
  raced      \* history: a worker found both counts zero while another one
             \* was still using the context

vars == <<mem, ctx, buf, wk, list, m_nCurrentConnection, closePc, closeAt,
          accepted, misuse, raced>>
conns == <<list, m_nCurrentConnection, closePc, closeAt>>

Completed == {"data", "zero", "error"}

ZeroContext == [s |-> "none", bClosing |-> FALSE, nOutstandingRecv |-> 0,
                nOutstandingSend |-> 0, bNotifyCloseOrError |-> FALSE]
FreeBuffer  == [st |-> "free", op |-> "none", key |-> NULL]
IdleWorker  == [pc |-> "get", c |-> NULL, b |-> NULL, ret |-> "done", n |-> 0]

Free   == {b \in Buffers : buf[b].st = "free"}
Pooled == {c \in Contexts : mem[c] = "pooled"}

\* The operations of kind op on c that are posted and not yet dequeued.
Outstanding(c, op) ==
  {b \in Buffers : /\ buf[b].key = c /\ buf[b].op = op
                   /\ buf[b].st \in {"pending"} \cup Completed}

Init ==
  /\ mem = [c \in Contexts |-> "heap"]
  /\ ctx = [c \in Contexts |-> ZeroContext]
  /\ buf = [b \in Buffers |-> FreeBuffer]
  /\ wk = [w \in Workers |-> IdleWorker]
  /\ list = <<>> /\ m_nCurrentConnection = 0
  /\ closePc = "off" /\ closeAt = NULL
  /\ accepted = 0 /\ misuse = FALSE /\ raced = FALSE

-----------------------------------------------------------------------------
(* Helpers: the program counter of a worker, buffers, the connection list. *)

Goto(w, pc)      == wk' = [wk EXCEPT ![w].pc = pc]
GotoClose(w, ret) == wk' = [wk EXCEPT ![w].pc = "unlist", ![w].ret = ret]
Return(w)        == wk' = [wk EXCEPT ![w] = IdleWorker]

\* ReleaseBuffer on the buffer of the worker; the accept handler has none.
ReleaseBuffer(w) ==
  buf' = IF wk[w].b = NULL THEN buf ELSE [buf EXCEPT ![wk[w].b] = FreeBuffer]

ListLockFree == closePc \in {"off", "done"}

At(w, pc) == wk[w].pc = pc /\ mem[wk[w].c] = "live"

\* The places from which a worker goes on to use its context.
ContextPcs == {"add", "keepalive", "send", "count", "sendDone", "closing",
               "notify", "unlist", "close", "test", "release"}

NeedsContext(w) ==
  wk[w].pc \in ContextPcs \/ (wk[w].pc = "reads" /\ wk[w].n > 0)

\* A worker in the middle of HandleIO, an operation not yet dequeued or the
\* walk of CloseAllConnections, about to read pNext, still names c.
Referenced(c) ==
  \/ \E w \in Workers : NeedsContext(w) /\ wk[w].c = c
  \/ \E b \in Buffers : buf[b].key = c /\ buf[b].st \in {"pending"} \cup Completed
  \/ closePc = "next" /\ closeAt = c

-----------------------------------------------------------------------------
(* HandleIO on a completed accept.                                         *)

\* AllocateContext(pBuffer->sClient), from the pool before the heap.  Handing
\* out a context that is still referenced mixes two connections up.
AllocateContext(w) ==
  /\ wk[w].pc = "get" /\ accepted < MaxAccepted
  /\ \E c \in IF Pooled # {} THEN Pooled
                             ELSE {x \in Contexts : mem[x] = "heap"} :
       /\ misuse' = Referenced(c)
       /\ mem' = [mem EXCEPT ![c] = "live"]
       /\ ctx' = [ctx EXCEPT ![c].s = "open", ![c].bNotifyCloseOrError = FALSE]
       /\ wk' = [wk EXCEPT ![w].pc = "add", ![w].c = c, ![w].ret = "reads"]
  /\ accepted' = accepted + 1
  /\ UNCHANGED <<buf, conns, raced>>

\* A full server closes the connection and releases the context at once.
AddAConnection(w) ==
  /\ At(w, "add") /\ ListLockFree
  /\ IF m_nCurrentConnection <= MaxConnections
       THEN /\ list' = <<wk[w].c>> \o list
            /\ m_nCurrentConnection' = m_nCurrentConnection + 1
            /\ Goto(w, "keepalive")
       ELSE /\ GotoClose(w, "release")
            /\ UNCHANGED <<list, m_nCurrentConnection>>
  /\ UNCHANGED <<mem, ctx, buf, closePc, closeAt, accepted, misuse, raced>>

\* setsockopt and WSAIoctl; when one fails the connection is closed and the
\* handler is done with it.
KeepAlive(w) ==
  /\ At(w, "keepalive")
  /\ \/ ctx[wk[w].c].s = "open" /\ Goto(w, "send")
     \/ GotoClose(w, "done")
  /\ UNCHANGED <<mem, ctx, buf, conns, accepted, misuse, raced>>

\* SendText from a callback, up to WSASend: AllocateBuffer, the limit on the
\* outstanding sends, the send.  A buffer that is not sent is dropped.  The
\* counter is not incremented yet.
SendText(w) ==
  LET c == wk[w].c IN
  /\ At(w, "send")
  /\ \/ /\ Free = {}
        /\ Goto(w, "sendDone") /\ UNCHANGED buf
     \/ \E b \in Free :
          /\ buf' = [buf EXCEPT ![b] = [FreeBuffer EXCEPT !.st = "leaked"]]
          /\ Goto(w, "sendDone")
     \/ \E b \in Free :
          /\ ctx[c].nOutstandingSend <= MaxSends /\ ctx[c].s = "open"
          /\ buf' = [buf EXCEPT ![b] =
                       [st |-> "pending", op |-> "write", key |-> c]]
          /\ Goto(w, "count")
  /\ UNCHANGED <<mem, ctx, conns, accepted, misuse, raced>>

\* Mutant: the send is not counted.
CountSendSkipped(w) ==
  /\ At(w, "count")
  /\ Goto(w, "sendDone")
  /\ UNCHANGED <<mem, ctx, buf, conns, accepted, misuse, raced>>

\* The rest of PostSend: the increment, under pContext->Lock.
CountSend(w) ==
  /\ At(w, "count")
  /\ ctx' = [ctx EXCEPT ![wk[w].c].nOutstandingSend = @ + 1]
  /\ Goto(w, "sendDone")
  /\ UNCHANGED <<mem, buf, conns, accepted, misuse, raced>>

\* The callback returns: the accept handler goes on to post its reads, a read
\* handler releases the buffer it has delivered and posts one read.
SendDone(w) ==
  /\ At(w, "sendDone")
  /\ ReleaseBuffer(w)
  /\ wk' = [wk EXCEPT ![w].pc = "reads", ![w].b = NULL,
              ![w].n = IF wk[w].ret = "reads" THEN InitialReads ELSE 1]
  /\ UNCHANGED <<mem, ctx, conns, accepted, misuse, raced>>

\* Mutant: the read is counted before WSARecv is known to have succeeded.
PostRecvCountsFailure(w) ==
  LET c == wk[w].c IN
  \E b \in Free :
    /\ ctx' = [ctx EXCEPT ![c].nOutstandingRecv = @ + 1]
    /\ \/ /\ ctx[c].s = "open"
          /\ buf' = [buf EXCEPT ![b] =
                       [st |-> "pending", op |-> "read", key |-> c]]
          /\ wk' = [wk EXCEPT ![w].n = @ - 1]
       \/ /\ buf' = [buf EXCEPT ![b] = [FreeBuffer EXCEPT !.st = "leaked"]]
          /\ GotoClose(w, "done")

\* PostRecv, all of it under pContext->Lock.  A buffer whose WSARecv fails is
\* dropped and the connection closed.
PostRecv(w) ==
  LET c == wk[w].c IN
  \E b \in Free :
    \/ /\ ctx[c].s = "open"
       /\ buf' = [buf EXCEPT ![b] = [st |-> "pending", op |-> "read", key |-> c]]
       /\ ctx' = [ctx EXCEPT ![c].nOutstandingRecv = @ + 1]
       /\ wk' = [wk EXCEPT ![w].n = @ - 1]
    \/ /\ buf' = [buf EXCEPT ![b] = [FreeBuffer EXCEPT !.st = "leaked"]]
       /\ GotoClose(w, "done")
       /\ UNCHANGED ctx

\* Mutant: the loop runs once too often.
PostReadsOneMore(w) ==
  /\ wk[w].n >= 0 /\ At(w, "reads")
  /\ \/ PostRecv(w)
     \/ /\ Free = {}
        /\ IF wk[w].ret = "reads" THEN wk' = [wk EXCEPT ![w].n = @ - 1]
                                  ELSE GotoClose(w, "done")
        /\ UNCHANGED <<ctx, buf>>
  /\ UNCHANGED <<mem, conns, accepted, misuse, raced>>

\* The loop over m_nInitialReads, or the single read that follows a delivery.
\* A NULL buffer uses up a round of the loop, but closes the connection when
\* a delivered read cannot be followed by another.
PostReads(w) ==
  /\ wk[w].n > 0 /\ At(w, "reads")
  /\ \/ PostRecv(w)
     \/ /\ Free = {}
        /\ IF wk[w].ret = "reads" THEN wk' = [wk EXCEPT ![w].n = @ - 1]
                                  ELSE GotoClose(w, "done")
        /\ UNCHANGED <<ctx, buf>>
  /\ UNCHANGED <<mem, conns, accepted, misuse, raced>>

PostReadsDone(w) ==
  /\ wk[w].pc = "reads" /\ wk[w].n = 0
  /\ Return(w)
  /\ UNCHANGED <<mem, ctx, buf, conns, accepted, misuse, raced>>

-----------------------------------------------------------------------------
(* HandleIO on a completed read or write.                                  *)

\* Step 1: the packet is dequeued and its count decremented under the lock.
\* ret remembers how the operation ended.
Dequeue(w, b) ==
  LET c == buf[b].key IN
  /\ wk[w].pc = "get" /\ buf[b].st \in Completed /\ mem[c] = "live"
  /\ \/ /\ buf[b].op = "read"
        /\ ctx' = [ctx EXCEPT ![c].nOutstandingRecv = @ - 1]
     \/ /\ buf[b].op # "read"
        /\ ctx' = [ctx EXCEPT ![c].nOutstandingSend = @ - 1]
  /\ buf' = [buf EXCEPT ![b].st = "held"]
  /\ wk' = [wk EXCEPT ![w] = [IdleWorker EXCEPT !.pc = "closing", !.c = c,
                                !.b = b, !.ret = buf[b].st]]
  /\ UNCHANGED <<mem, conns, accepted, misuse, raced>>

\* Mutant: a worker that finds the connection closed leaves it to the one that
\* closed it.
CheckClosingLeavesIt(w) ==
  LET k == wk[w] IN
  /\ At(w, "closing")
  /\ Goto(w, CASE ctx[k.c].bClosing -> "finish"
               [] ~ctx[k.c].bClosing /\ k.ret # "data" -> "notify"
               [] ~ctx[k.c].bClosing /\ k.ret = "data" ->
                    IF buf[k.b].op = "read" THEN "send" ELSE "finish")
  /\ UNCHANGED <<mem, ctx, buf, conns, accepted, misuse, raced>>

\* Step 2: is the connection closed already?  If not, an error or an end of
\* stream leads to the notification, a read to its callback, and a write is
\* done with.
CheckClosing(w) ==
  LET k == wk[w] IN
  /\ At(w, "closing")
  /\ Goto(w, CASE ctx[k.c].bClosing -> "test"
               [] ~ctx[k.c].bClosing /\ k.ret # "data" -> "notify"
               [] ~ctx[k.c].bClosing /\ k.ret = "data" ->
                    IF buf[k.b].op = "read" THEN "send" ELSE "finish")
  /\ UNCHANGED <<mem, ctx, buf, conns, accepted, misuse, raced>>

\* NotifyConnectionError or NotifyConnectionClosing.
Notify(w) ==
  /\ At(w, "notify")
  /\ ctx' = [ctx EXCEPT ![wk[w].c].bNotifyCloseOrError = TRUE]
  /\ GotoClose(w, "test")
  /\ UNCHANGED <<mem, buf, conns, accepted, misuse, raced>>

\* CloseAConnection, first half: out of the list, under the list lock.
Unlist(w) ==
  LET c == wk[w].c IN
  /\ At(w, "unlist") /\ ListLockFree
  /\ \/ /\ \E j \in DOMAIN list :
             /\ list[j] = c
             /\ list' = SubSeq(list, 1, j - 1) \o SubSeq(list, j + 1, Len(list))
        /\ m_nCurrentConnection' = m_nCurrentConnection - 1
     \/ /\ \A j \in DOMAIN list : list[j] # c
        /\ UNCHANGED <<list, m_nCurrentConnection>>
  /\ Goto(w, "close")
  /\ UNCHANGED <<mem, ctx, buf, closePc, closeAt, accepted, misuse, raced>>

CloseSocket(c) ==
  ctx' = [ctx EXCEPT ![c].s = "invalid", ![c].bClosing = TRUE]

\* CloseAConnection, second half, under pContext->Lock.
CloseAConnection(w) ==
  /\ At(w, "close")
  /\ CloseSocket(wk[w].c)
  /\ IF wk[w].ret = "done" THEN Return(w) ELSE Goto(w, wk[w].ret)
  /\ UNCHANGED <<mem, buf, conns, accepted, misuse, raced>>

\* Another worker is between its dequeue and its last use of the context.
UsedByOthers(w) == \E v \in Workers \ {w} : NeedsContext(v) /\ wk[v].c = wk[w].c

\* Mutant: only the reads are tested.
TestOutstandingReads(w) ==
  LET last == ctx[wk[w].c].nOutstandingRecv = 0 IN
  /\ At(w, "test")
  /\ Goto(w, IF last THEN "release" ELSE "finish")
  /\ raced' = (raced \/ (last /\ UsedByOthers(w)))
  /\ UNCHANGED <<mem, ctx, buf, conns, accepted, misuse>>

\* Is it the last outstanding operation?  Read without the lock; an operation
\* that another worker has dequeued is not counted any more.
TestOutstanding(w) ==
  LET last == /\ ctx[wk[w].c].nOutstandingRecv = 0
              /\ ctx[wk[w].c].nOutstandingSend = 0
  IN
  /\ At(w, "test")
  /\ Goto(w, IF last THEN "release" ELSE "finish")
  /\ raced' = (raced \/ (last /\ UsedByOthers(w)))
  /\ UNCHANGED <<mem, ctx, buf, conns, accepted, misuse>>

ReleaseContext(w) ==
  /\ At(w, "release")
  /\ mem' = [mem EXCEPT ![wk[w].c] =
               IF Cardinality(Pooled) < MaxFreeContexts THEN "pooled" ELSE "heap"]
  /\ ctx' = [ctx EXCEPT ![wk[w].c] = ZeroContext]
  /\ Goto(w, "finish")
  /\ UNCHANGED <<buf, conns, accepted, misuse, raced>>

\* ReleaseBuffer(pBuffer) and back to the completion port.
Finish(w) ==
  /\ wk[w].pc = "finish"
  /\ ReleaseBuffer(w) /\ Return(w)
  /\ UNCHANGED <<mem, ctx, conns, accepted, misuse, raced>>

-----------------------------------------------------------------------------
(* CloseAllConnections, called by the listening thread when it shuts down: *)
(* a walk over the list that locks one context at a time.                  *)

CloseAllBegin ==
  /\ WithShutdown /\ closePc = "off"
  /\ IF list = <<>> THEN closePc' = "done" /\ closeAt' = NULL
                    ELSE closePc' = "lock" /\ closeAt' = Head(list)
  /\ UNCHANGED <<mem, ctx, buf, wk, list, m_nCurrentConnection, accepted,
                 misuse, raced>>

CloseAllOne ==
  /\ closePc = "lock" /\ mem[closeAt] = "live"
  /\ CloseSocket(closeAt)
  /\ closePc' = "next"
  /\ UNCHANGED <<mem, buf, wk, list, m_nCurrentConnection, closeAt, accepted,
                 misuse, raced>>

\* Mutant: the list is cleared and its count is not.
CloseAllKeepsCount ==
  LET rest == {j \in DOMAIN list : j > 1 /\ list[j - 1] = closeAt} IN
  /\ closePc = "next"
  /\ IF mem[closeAt] = "live" /\ rest # {}
       THEN /\ closeAt' = list[CHOOSE j \in rest : TRUE] /\ closePc' = "lock"
            /\ UNCHANGED list
       ELSE /\ closeAt' = NULL /\ closePc' = "done"
            /\ list' = <<>>
  /\ misuse' = (mem[closeAt] # "live")
  /\ UNCHANGED <<mem, ctx, buf, wk, m_nCurrentConnection, accepted, raced>>

\* pContext = pContext->pNext, after the context was unlocked.  If a worker
\* has released it meanwhile, the link is that of the free list and the walk
\* never returns to the connections that follow.
CloseAllNext ==
  LET rest == {j \in DOMAIN list : j > 1 /\ list[j - 1] = closeAt} IN
  /\ closePc = "next"
  /\ IF mem[closeAt] = "live" /\ rest # {}
       THEN /\ closeAt' = list[CHOOSE j \in rest : TRUE] /\ closePc' = "lock"
            /\ UNCHANGED <<list, m_nCurrentConnection>>
       ELSE /\ closeAt' = NULL /\ closePc' = "done"
            /\ list' = <<>> /\ m_nCurrentConnection' = 0
  /\ misuse' = (mem[closeAt] # "live")
  /\ UNCHANGED <<mem, ctx, buf, wk, accepted, raced>>

-----------------------------------------------------------------------------
(* The network: an operation ends.  On a closed socket it is aborted.      *)

Complete(b) ==
  /\ buf[b].st = "pending"
  /\ \E r \in IF ctx[buf[b].key].s = "open" THEN Completed ELSE {"error"} :
       buf' = [buf EXCEPT ![b].st = r]
  /\ UNCHANGED <<mem, ctx, wk, conns, accepted, misuse, raced>>

-----------------------------------------------------------------------------
(* A thread reaches for a context that has been released.  The pooled      *)
(* memory is zeroed and may be another connection's by the time it is      *)
(* used, or it was given back to the heap; the behaviour ends here.        *)

Misuse(w) ==
  /\ \/ NeedsContext(w) /\ mem[wk[w].c] # "live"
     \/ /\ wk[w].pc = "get"
        /\ \E b \in Buffers : buf[b].st \in Completed /\ mem[buf[b].key] # "live"
  /\ misuse' = TRUE
  /\ UNCHANGED <<mem, ctx, buf, wk, conns, accepted, raced>>

-----------------------------------------------------------------------------
HandleAccept(w) ==
  \/ AllocateContext(w) \/ AddAConnection(w) \/ KeepAlive(w)
  \/ PostReads(w) \/ PostReadsDone(w)

HandleIO(w) ==
  \/ \E b \in Buffers : Dequeue(w, b)
  \/ CheckClosing(w) \/ Notify(w) \/ SendText(w) \/ CountSend(w) \/ SendDone(w)
  \/ Unlist(w) \/ CloseAConnection(w) \/ TestOutstanding(w)
  \/ ReleaseContext(w) \/ Finish(w)

CloseAll == CloseAllBegin \/ CloseAllOne \/ CloseAllNext

Next ==
  /\ ~misuse
  /\ \/ \E w \in Workers : HandleAccept(w) \/ HandleIO(w) \/ Misuse(w)
     \/ CloseAll
     \/ \E b \in Buffers : Complete(b)

Spec == Init /\ [][Next]_vars

\* The threads are scheduled, the network ends what was aborted, and the
\* completion port is a queue: no packet is passed over for ever.  Nobody owes
\* a shutdown, but one that has begun goes on.
FairSpec ==
  /\ Spec
  /\ WF_vars(~misuse /\ (CloseAllOne \/ CloseAllNext))
  /\ \A w \in Workers : WF_vars(~misuse /\ HandleIO(w))
                        /\ WF_vars(~misuse /\ (KeepAlive(w) \/ AddAConnection(w)
                                     \/ PostReads(w) \/ PostReadsDone(w)))
  /\ \A b \in Buffers :
       /\ WF_vars(~misuse /\ Complete(b))
       /\ SF_vars(~misuse /\ \E w \in Workers : Dequeue(w, b))

-----------------------------------------------------------------------------
\* The fields of a context, the states of a buffer and the locals of a worker
\* keep their types; a count may go below zero.
TypeOK ==
  /\ mem \in [Contexts -> {"heap", "pooled", "live"}]
  /\ ctx \in [Contexts ->
       [s : {"none", "open", "invalid"}, bClosing : BOOLEAN,
        nOutstandingRecv : Int, nOutstandingSend : Int,
        bNotifyCloseOrError : BOOLEAN]]
  /\ buf \in [Buffers ->
       [st : {"free", "pending", "held", "leaked"} \cup Completed,
        op : {"none", "read", "write"}, key : Contexts \cup {NULL}]]
  /\ wk \in [Workers ->
       [pc : ContextPcs \cup {"get", "reads", "finish"},
        c : Contexts \cup {NULL}, b : Buffers \cup {NULL},
        ret : Completed \cup {"done", "reads", "release", "test"}, n : Nat]]
  /\ list \in Seq(Contexts) /\ m_nCurrentConnection \in Int
  /\ closePc \in {"off", "lock", "next", "done"}
  /\ closeAt \in Contexts \cup {NULL}
  /\ accepted \in 0..MaxAccepted /\ misuse \in BOOLEAN /\ raced \in BOOLEAN

\* CloseAllConnections has left the lock of a context, which was released
\* before it reads pNext.
WalkOvertaken == closePc = "next" /\ mem[closeAt] # "live"

\* The first use of a released context, be it to decrement its counts, to close
\* it, to post on it, to release it a second time or to hand it out while it is
\* still named, has one of two causes: a walk that was overtaken, or a worker
\* that took the counts for zero while another had not done with the context.
\* An operation on its way never is: the counts do cover those.
OnlyRacesMisuse == [][~misuse /\ misuse' => WalkOvertaken \/ raced]_vars

\* Until then nothing that names a context outlives it: the context of every
\* worker in the middle of HandleIO and of every operation on its way is in use.
NamedIsLive ==
  ~misuse /\ ~raced =>
    /\ \A w \in Workers : NeedsContext(w) => mem[wk[w].c] = "live"
    /\ \A b \in Buffers :
         buf[b].st \in {"pending"} \cup Completed => mem[buf[b].key] = "live"

\* nOutstandingSend of a context in use is the number of sends posted on it
\* that no worker has dequeued, less those that PostSend has not counted yet:
\* it may be negative for a while, but it does not drift.
SendCountExact ==
  ~misuse => \A c \in Contexts : mem[c] = "live" =>
    ctx[c].nOutstandingSend
      + Cardinality({w \in Workers : wk[w].pc = "count" /\ wk[w].c = c})
      = Cardinality(Outstanding(c, "write"))

\* nOutstandingRecv of a context in use is exactly the number of reads posted
\* on it that no worker has dequeued.
RecvCountExact ==
  ~misuse => \A c \in Contexts : mem[c] = "live" =>
    ctx[c].nOutstandingRecv = Cardinality(Outstanding(c, "read"))

\* m_nCurrentConnection is the length of m_pConnectionList, no connection is
\* listed twice, and a listed connection is never in the free list while no
\* walk over the list is under way.  However many workers accept at once, the
\* list never holds more than one connection above m_nMaxConnections, which
\* is what the test admits.
ConnectionListExact ==
  ~misuse =>
    /\ m_nCurrentConnection = Len(list)
    /\ m_nCurrentConnection <= MaxConnections + 1
    /\ \A j, k \in DOMAIN list : list[j] = list[k] => j = k
    /\ ListLockFree => \A j \in DOMAIN list : mem[list[j]] = "live"

\* A connection that is closed with operations outstanding is released once
\* the last of them has been dequeued.
ClosedIsReleased ==
  \A c \in Contexts :
    (mem[c] = "live" /\ ctx[c].bClosing /\ Outstanding(c, "read") # {})
      ~> (mem[c] # "live" \/ misuse)
=============================================================================
