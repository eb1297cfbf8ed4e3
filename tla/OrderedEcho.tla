----------------------------- MODULE OrderedEcho -----------------------------
(***************************************************************************)
(* One TCP connection of the echo server io_iocp/iocpserver/iocpserver.cpp. *)
(* A worker accepts it, echoes the data that came with it and posts        *)
(* gOverlappedCount receives; the receives complete in the order of        *)
(* posting, but their packets reach the workers in any order.  HandleIo    *)
(* numbers the receives, keeps what came too early in OutOfOrderSends, and *)
(* DoSends echoes the head of that list as long as it is next in order.    *)
(*                                                                         *)
(* Receive k carries chunk k of the client's data, chunk 0 came with the   *)
(* accept; the code knows k modulo the range of ULONG.  SockCritSec is     *)
(* held through HandleIo, but not by the worker that accepts, nor on the   *)
(* path of a failed operation, nor when OutstandingOps is incremented.     *)
(* The use of freed memory (misuse) ends the behaviour.                    *)
(***************************************************************************)
EXTENDS Integers, Sequences, FiniteSets

CONSTANTS
  Workers, NULL,
  OverlappedCount,  \* gOverlappedCount
  SeqModulus,       \* the range of ULONG, 2^32 in the code
  MaxData,          \* bound: chunks the client sends after the first
  MayFail           \* may calls fail and the client reset the connection?

ASSUME ConstantsAssumption ==
  /\ IsFiniteSet(Workers) /\ NULL \notin Workers
  /\ OverlappedCount \in Nat \ {0} /\ SeqModulus \in Nat \ {0}
  /\ MaxData \in Nat /\ MayFail \in BOOLEAN

VARIABLES
  s, bClosing, OutstandingOps, LastSendIssued,
  issued,           \* receives numbered so far; IoCountIssued is 1 more
  OutOfOrderSends,  \* the list of send buffers, each by its chunk
  SockCritSec,      \* its owner
  freed,            \* FreeSocketObj has run to its end
  freedSends,       \* chunks whose send buffer was freed
  peer,             \* "open", "fin" or "reset"
  arrived,          \* chunks received so far
  recvs, sends,     \* operations the kernel works on
  queue,            \* packets on the completion port
  wire,             \* history: the chunks of the sends issued
  wk,               \* the workers: place, packet and local variables
  i,                \* the loop counter of the worker that accepts
  faulted,          \* history: a call failed or the connection was reset
  early,            \* history: a packet was dequeued during the accept
  misuse            \* freed memory was used

life == <<s, bClosing, freed>>
sendList == <<LastSendIssued, OutOfOrderSends, freedSends>>
recvVars == <<issued, recvs, i>>
sendVars == <<sends, wire>>
netVars == <<peer, arrived, queue>>
history == <<faulted, early, misuse>>
vars == <<life, OutstandingOps, SockCritSec, sendList, recvVars, sendVars,
          netVars, wk, history>>

Order(k) == k % SeqModulus

Packet(o, n, b) == [op |-> o, k |-> n, ok |-> b]

\* err is HandleIo's error, cleanup its bCleanupSocket, ret says where
\* DoSends returns to.
Idle == [pc |-> "get", op |-> "none", k |-> 0, ret |-> "none",
         err |-> FALSE, cleanup |-> FALSE]

Become(w, r) == wk' = [wk EXCEPT ![w] = r]
Goto(w, l) == Become(w, IF l = "get" THEN Idle ELSE [wk[w] EXCEPT !.pc = l])

Init ==
  /\ s = "none" /\ bClosing = FALSE /\ freed = FALSE
  /\ OutstandingOps = 0 /\ SockCritSec = NULL
  /\ LastSendIssued = 0 /\ OutOfOrderSends = <<>> /\ freedSends = {}
  /\ issued = 0 /\ recvs = <<>> /\ i = 0
  /\ sends = {} /\ wire = <<>>
  /\ peer = "open" /\ arrived = 0 /\ queue = {}
  /\ wk = [w \in Workers |-> Idle]
  /\ faulted = FALSE /\ early = FALSE /\ misuse = FALSE

-----------------------------------------------------------------------------
(* The client and the kernel.                                              *)

\* The client connects and sends chunk 0: the AcceptEx completes.
ClientConnects ==
  /\ arrived = 0
  /\ arrived' = 1 /\ queue' = {Packet("accept", 0, TRUE)}
  /\ UNCHANGED <<life, OutstandingOps, SockCritSec, sendList, recvVars,
                 sendVars, peer, wk, history>>

\* The client closes its side; data it sent before is delivered first.
ClientCloses ==
  /\ arrived > 0 /\ peer = "open" /\ peer' = "fin"
  /\ UNCHANGED <<life, OutstandingOps, SockCritSec, sendList, recvVars,
                 sendVars, arrived, queue, wk, history>>

ClientResets ==
  /\ MayFail /\ ~faulted /\ arrived > 0 /\ peer # "reset"
  /\ peer' = "reset" /\ faulted' = TRUE
  /\ UNCHANGED <<life, OutstandingOps, SockCritSec, sendList, recvVars,
                 sendVars, arrived, queue, wk, early, misuse>>

\* The oldest receive completes: with the next chunk, with 0 bytes (the
\* packet of an operation "zero"), or with an error.
ReceiveCompletes ==
  /\ recvs # <<>> /\ recvs' = Tail(recvs)
  /\ \/ /\ s = "open" /\ peer = "open" /\ arrived <= MaxData
        /\ arrived' = arrived + 1
        /\ queue' = queue \cup {Packet("read", Head(recvs), TRUE)}
     \/ /\ s = "open" /\ peer = "fin"
        /\ queue' = queue \cup {Packet("zero", Head(recvs), TRUE)}
        /\ UNCHANGED arrived
     \/ /\ s = "closed" \/ peer = "reset"
        /\ queue' = queue \cup {Packet("read", Head(recvs), FALSE)}
        /\ UNCHANGED arrived
  /\ UNCHANGED <<life, OutstandingOps, SockCritSec, sendList, issued, i,
                 sendVars, peer, wk, history>>

SendCompletes(k) ==
  /\ k \in sends /\ sends' = sends \ {k}
  /\ \E b \in BOOLEAN :
       /\ s = "open" /\ peer # "reset" => b
       /\ queue' = queue \cup {Packet("write", k, b)}
  /\ UNCHANGED <<life, OutstandingOps, SockCritSec, sendList, recvVars, wire,
                 peer, arrived, wk, history>>

-----------------------------------------------------------------------------
(* Posting an operation: the call is made under SockCritSec, the count is  *)
(* incremented after it was left, at the label more.                       *)

\* Bound: of the calls on an open connection at most one fails before the
\* client resets it or a worker closes it.
CallFails == (MayFail /\ ~faulted) \/ peer = "reset" \/ s = "closed"

\* PostRecv: the receive gets the next number and is posted.
IssueRecv(w, more) ==
  /\ s = "open"
  /\ recvs' = Append(recvs, issued + 1) /\ issued' = issued + 1
  /\ Goto(w, more)

\* PostSend: LastSendIssued advances and the send is posted.
IssueSend(w, k, more) ==
  /\ s = "open"
  /\ LastSendIssued' = (LastSendIssued + 1) % SeqModulus
  /\ sends' = sends \cup {k} /\ wire' = Append(wire, k)
  /\ Goto(w, more)

-----------------------------------------------------------------------------
(* The worker that handles the accept; the lock of the connection is only  *)
(* held inside PostSend and PostRecv.                                      *)

Accepting(w) == wk[w].pc \in {"accept", "asend", "asendCount", "arecv",
                              "arecvCount", "aerr", "aflag"}

\* GetQueuedCompletionStatus.
Dequeue(w, p) ==
  /\ wk[w].pc = "get" /\ p \in queue
  /\ queue' = queue \ {p}
  /\ Become(w, [Idle EXCEPT !.op = p.op, !.k = p.k,
                  !.pc = IF p.op = "accept" THEN "accept"
                         ELSE IF p.ok THEN "enter" ELSE "error"])
  /\ early' = (early \/ \E v \in Workers : Accepting(v))
  /\ UNCHANGED <<life, OutstandingOps, SockCritSec, sendList, recvVars,
                 sendVars, peer, arrived, faulted, misuse>>

\* GetSocketObj and CreateIoCompletionPort; if that fails HandleIo returns.
Associate(w) ==
  /\ wk[w].pc = "accept"
  /\ s' = "open"
  /\ \/ Goto(w, "asend") /\ UNCHANGED faulted
     \/ MayFail /\ Goto(w, "get") /\ faulted' = TRUE
  /\ UNCHANGED <<bClosing, freed, OutstandingOps, SockCritSec, sendList,
                 recvVars, sendVars, netVars, early, misuse>>

\* The data that came with the accept is echoed.
AcceptSend(w) ==
  /\ wk[w].pc = "asend" /\ SockCritSec = NULL
  /\ \/ IssueSend(w, 0, "asendCount") /\ UNCHANGED faulted
     \/ /\ CallFails /\ faulted' = TRUE /\ Goto(w, "aerr")
        /\ LastSendIssued' = (LastSendIssued + 1) % SeqModulus
        /\ UNCHANGED sendVars
  /\ UNCHANGED <<life, OutstandingOps, SockCritSec, OutOfOrderSends,
                 freedSends, recvVars, netVars, early, misuse>>

\* Mutant: one receive more.
AcceptRecvOneMore(w) ==
  /\ wk[w].pc = "arecv" /\ ~freed
  /\ \/ /\ i <= OverlappedCount /\ SockCritSec = NULL /\ i' = i + 1
        /\ IssueRecv(w, "arecvCount")
     \/ /\ i > OverlappedCount /\ Goto(w, "get") /\ UNCHANGED recvVars
  /\ UNCHANGED <<life, OutstandingOps, SockCritSec, sendList, sendVars,
                 netVars, history>>

\* One of the gOverlappedCount receives; after the last the AcceptEx is
\* posted again, which is no concern of this connection.
AcceptRecv(w) ==
  /\ wk[w].pc = "arecv" /\ ~freed
  /\ \/ /\ i < OverlappedCount /\ SockCritSec = NULL /\ i' = i + 1
        /\ \/ IssueRecv(w, "arecvCount") /\ UNCHANGED faulted
           \/ /\ CallFails /\ faulted' = TRUE /\ Goto(w, "aerr")
              /\ issued' = issued + 1 /\ UNCHANGED recvs
     \/ /\ i = OverlappedCount /\ Goto(w, "get")
        /\ UNCHANGED <<recvVars, faulted>>
  /\ UNCHANGED <<life, OutstandingOps, SockCritSec, sendList, sendVars,
                 netVars, early, misuse>>

\* InterlockedIncrement at the end of PostSend and PostRecv.
AcceptCount(w) ==
  /\ wk[w].pc \in {"asendCount", "arecvCount"} /\ ~freed
  /\ OutstandingOps' = OutstandingOps + 1
  /\ Goto(w, "arecv")
  /\ UNCHANGED <<life, SockCritSec, sendList, recvVars, sendVars, netVars,
                 history>>

\* A call failed: the connection is closed if it has no operation ...
AcceptFailed(w) ==
  /\ wk[w].pc = "aerr" /\ ~freed
  /\ Goto(w, IF OutstandingOps = 0 THEN "close" ELSE "aflag")
  /\ UNCHANGED <<life, OutstandingOps, SockCritSec, sendList, recvVars,
                 sendVars, netVars, history>>

\* ... and left to the worker of its last operation otherwise.
AcceptFlag(w) ==
  /\ wk[w].pc = "aflag" /\ ~freed
  /\ bClosing' = TRUE /\ Goto(w, "get")
  /\ UNCHANGED <<s, freed, OutstandingOps, SockCritSec, sendList, recvVars,
                 sendVars, netVars, history>>

-----------------------------------------------------------------------------
(* HandleIo for a receive or a send of the connection.                     *)

\* Mutant: the buffer goes to the end of the list.
InsertPendingSendAtEnd(k, list) == Append(list, k)

\* InsertPendingSend: before the first buffer with a larger number.
InsertPendingSend(k, list) ==
  LET later == {j \in DOMAIN list : Order(k) < Order(list[j])}
      n == IF later = {} THEN Len(list)
           ELSE (CHOOSE j \in later : \A h \in later : j <= h) - 1
  IN SubSeq(list, 1, n) \o <<k>> \o SubSeq(list, n + 1, Len(list))

\* The list is read and its head is a buffer that was freed.
ReadsFreedSend(w) ==
  /\ OutOfOrderSends # <<>> /\ Head(OutOfOrderSends) \in freedSends
  /\ \/ wk[w].pc \in {"sends", "sendCount"}
     \/ wk[w].pc = "enter" /\ wk[w].op = "read" /\ SockCritSec = NULL

\* EnterCriticalSection and the first part of each branch, up to DoSends:
\* the data is put into the list, the connection is marked, or the buffer
\* of the send is freed (it left the list when it was sent).
Enter(w) ==
  /\ wk[w].pc = "enter" /\ ~freed /\ ~ReadsFreedSend(w)
  /\ SockCritSec = NULL /\ SockCritSec' = w
  /\ \/ /\ wk[w].op = "read"
        /\ OutOfOrderSends' = InsertPendingSend(wk[w].k, OutOfOrderSends)
        /\ Become(w, [wk[w] EXCEPT !.pc = "sends", !.ret = "repost"])
        /\ UNCHANGED bClosing
     \/ /\ wk[w].op = "zero" /\ bClosing' = TRUE
        /\ Become(w, [wk[w] EXCEPT !.pc = "sends", !.ret = "zero"])
        /\ UNCHANGED OutOfOrderSends
     \/ /\ wk[w].op = "write"
        /\ Become(w, [wk[w] EXCEPT !.pc = "sends", !.ret = "tail"])
        /\ UNCHANGED <<OutOfOrderSends, bClosing>>
  /\ UNCHANGED <<s, freed, OutstandingOps, LastSendIssued, freedSends,
                 recvVars, sendVars, netVars, history>>

\* Mutant: whatever is in the list is sent.
NextIsAny == OutOfOrderSends # <<>>

NextIsDue ==
  OutOfOrderSends # <<>> /\ Order(Head(OutOfOrderSends)) = LastSendIssued

\* What HandleIo does when DoSends returns an error: the receive is not
\* posted again; after the last DoSends the connection is cleaned up.
SendsFailed(r) ==
  IF r.ret = "leave" THEN [r EXCEPT !.pc = "leave", !.cleanup = TRUE]
  ELSE [r EXCEPT !.pc = IF r.ret = "repost" THEN "tail" ELSE r.ret,
                 !.err = TRUE]

\* DoSends, a round of its loop: the head of the list is sent if it is next.
\* When the send fails its buffer is freed but stays the head of the list.
DoSends(w) ==
  /\ wk[w].pc = "sends" /\ ~freed /\ ~ReadsFreedSend(w)
  /\ \/ /\ NextIsDue /\ IssueSend(w, Head(OutOfOrderSends), "sendCount")
        /\ UNCHANGED <<freedSends, faulted>>
     \/ /\ NextIsDue /\ CallFails /\ faulted' = TRUE
        /\ LastSendIssued' = (LastSendIssued + 1) % SeqModulus
        /\ freedSends' = freedSends \cup {Head(OutOfOrderSends)}
        /\ Become(w, SendsFailed(wk[w]))
        /\ UNCHANGED sendVars
     \/ /\ ~NextIsDue /\ Goto(w, wk[w].ret)
        /\ UNCHANGED <<LastSendIssued, freedSends, sendVars, faulted>>
  /\ UNCHANGED <<life, OutstandingOps, SockCritSec, OutOfOrderSends, recvVars,
                 netVars, early, misuse>>

\* The count is incremented, and sendobj->next becomes the head.
SendCount(w) ==
  /\ wk[w].pc = "sendCount" /\ ~freed /\ ~ReadsFreedSend(w)
  /\ OutstandingOps' = OutstandingOps + 1
  /\ OutOfOrderSends' = Tail(OutOfOrderSends)
  /\ Goto(w, "sends")
  /\ UNCHANGED <<life, SockCritSec, LastSendIssued, freedSends, recvVars,
                 sendVars, netVars, history>>

\* The buffer of the receive is posted again.
RepostRecv(w) ==
  /\ wk[w].pc = "repost" /\ ~freed
  /\ \/ IssueRecv(w, "recvCount") /\ UNCHANGED faulted
     \/ /\ CallFails /\ faulted' = TRUE
        /\ Become(w, [wk[w] EXCEPT !.pc = "tail", !.err = TRUE])
        /\ issued' = issued + 1 /\ UNCHANGED recvs
  /\ UNCHANGED <<life, OutstandingOps, SockCritSec, sendList, i, sendVars,
                 netVars, early, misuse>>

RecvCount(w) ==
  /\ wk[w].pc = "recvCount" /\ ~freed
  /\ OutstandingOps' = OutstandingOps + 1
  /\ Goto(w, "tail")
  /\ UNCHANGED <<life, SockCritSec, sendList, recvVars, sendVars, netVars,
                 history>>

\* After a receive of 0 bytes: was it the last operation?  (The count still
\* includes it.)
ZeroTest(w) ==
  /\ wk[w].pc = "zero" /\ ~freed
  /\ Become(w, [wk[w] EXCEPT !.pc = "tail", !.cleanup =
                  OutstandingOps = 0 /\ OutOfOrderSends = <<>>])
  /\ UNCHANGED <<life, OutstandingOps, SockCritSec, sendList, recvVars,
                 sendVars, netVars, history>>

\* Mutant: DoSends does not run again.
HandleIoTailNoSends(w) ==
  /\ wk[w].pc = "tail" /\ ~freed
  /\ bClosing' = (bClosing \/ wk[w].err)
  /\ OutstandingOps' = OutstandingOps - 1
  /\ Become(w, [wk[w] EXCEPT !.pc = "leave", !.cleanup = bClosing'])
  /\ UNCHANGED <<s, freed, SockCritSec, sendList, recvVars, sendVars, netVars,
                 history>>

\* Mutant: the operation is taken off the count only when it is the last.
HandleIoTailLastOnly(w) ==
  /\ wk[w].pc = "tail" /\ ~freed
  /\ bClosing' = (bClosing \/ wk[w].err)
  /\ OutstandingOps' = IF OutstandingOps = 1 THEN 0 ELSE OutstandingOps
  /\ Become(w, IF OutstandingOps' = 0 /\ bClosing' /\ OutOfOrderSends = <<>>
                 THEN [wk[w] EXCEPT !.pc = "leave", !.cleanup = TRUE]
                 ELSE [wk[w] EXCEPT !.pc = "sends", !.ret = "leave"])
  /\ UNCHANGED <<s, freed, SockCritSec, sendList, recvVars, sendVars, netVars,
                 history>>

\* The end of HandleIo: the operation is taken off the count; the connection
\* is cleaned up if it was the last of a closing connection, otherwise
\* DoSends runs once more.
HandleIoTail(w) ==
  /\ wk[w].pc = "tail" /\ ~freed
  /\ bClosing' = (bClosing \/ wk[w].err)
  /\ OutstandingOps' = OutstandingOps - 1
  /\ Become(w, IF OutstandingOps' = 0 /\ bClosing' /\ OutOfOrderSends = <<>>
                 THEN [wk[w] EXCEPT !.pc = "leave", !.cleanup = TRUE]
                 ELSE [wk[w] EXCEPT !.pc = "sends", !.ret = "leave"])
  /\ UNCHANGED <<s, freed, SockCritSec, sendList, recvVars, sendVars, netVars,
                 history>>

Leave(w) ==
  /\ wk[w].pc = "leave" /\ ~freed
  /\ SockCritSec' = NULL
  /\ Goto(w, IF wk[w].cleanup THEN "close" ELSE "get")
  /\ UNCHANGED <<life, OutstandingOps, sendList, recvVars, sendVars, netVars,
                 history>>

\* An operation completed with an error: its buffer is freed (which matters
\* to others while it is in the list) and it is taken off the count, without
\* the lock.
HandleIoError(w) ==
  /\ wk[w].pc = "error" /\ ~freed
  /\ freedSends' = freedSends \cup
       {k \in {wk[w].k} : wk[w].op = "write" /\
                          \E j \in DOMAIN OutOfOrderSends : OutOfOrderSends[j] = k}
  /\ OutstandingOps' = OutstandingOps - 1
  /\ Goto(w, IF OutstandingOps' = 0 THEN "free" ELSE "get")
  /\ UNCHANGED <<life, SockCritSec, LastSendIssued, OutOfOrderSends, recvVars,
                 sendVars, netVars, history>>

\* closesocket, before FreeSocketObj.
CloseSocket(w) ==
  /\ wk[w].pc = "close" /\ ~freed
  /\ s' = "closed" /\ Goto(w, "free")
  /\ UNCHANGED <<bClosing, freed, OutstandingOps, SockCritSec, sendList,
                 recvVars, sendVars, netVars, history>>

\* FreeSocketObj: does nothing while operations are counted.
FreeSocketObj(w) ==
  /\ wk[w].pc = "free" /\ ~freed /\ Goto(w, "get")
  /\ \/ OutstandingOps # 0 /\ UNCHANGED <<s, freed>>
     \/ OutstandingOps = 0 /\ s' = "closed" /\ freed' = TRUE
  /\ UNCHANGED <<bClosing, OutstandingOps, SockCritSec, sendList, recvVars,
                 sendVars, netVars, history>>

\* A worker goes on with a freed SOCKET_OBJ, or reads a freed send buffer
\* through the list.
UseFreed(w) ==
  /\ (freed /\ wk[w].pc # "get") \/ ReadsFreedSend(w)
  /\ misuse' = TRUE
  /\ UNCHANGED <<life, OutstandingOps, SockCritSec, sendList, recvVars,
                 sendVars, netVars, wk, faulted, early>>

-----------------------------------------------------------------------------
Work(w) ==
  \/ \E p \in queue : Dequeue(w, p)
  \/ Associate(w) \/ AcceptSend(w) \/ AcceptRecv(w) \/ AcceptCount(w)
  \/ AcceptFailed(w) \/ AcceptFlag(w)
  \/ Enter(w) \/ DoSends(w) \/ SendCount(w) \/ RepostRecv(w) \/ RecvCount(w)
  \/ ZeroTest(w) \/ HandleIoTail(w) \/ Leave(w)
  \/ HandleIoError(w) \/ CloseSocket(w) \/ FreeSocketObj(w) \/ UseFreed(w)

Kernel == ReceiveCompletes \/ \E k \in sends : SendCompletes(k)

Client == ClientConnects \/ ClientCloses \/ ClientResets

Next == ~misuse /\ (Client \/ Kernel \/ \E w \in Workers : Work(w))

Spec == Init /\ [][Next]_vars

\* A worker thread with something to do is eventually scheduled, and the
\* kernel completes what it can complete.
FairSpec ==
  /\ Spec
  /\ WF_vars(~misuse /\ Kernel)
  /\ \A w \in Workers : WF_vars(~misuse /\ Work(w))

-----------------------------------------------------------------------------
\* The variables stay in their ranges.
TypeOK ==
  /\ s \in {"none", "open", "closed"} /\ bClosing \in BOOLEAN
  /\ OutstandingOps \in Int /\ LastSendIssued \in 0..(SeqModulus - 1)
  /\ issued \in Nat /\ i \in 0..OverlappedCount
  /\ OutOfOrderSends \in Seq(Nat) /\ SockCritSec \in Workers \cup {NULL}
  /\ freed \in BOOLEAN /\ freedSends \subseteq Nat
  /\ peer \in {"open", "fin", "reset"} /\ arrived \in 0..(MaxData + 1)
  /\ recvs \in Seq(Nat) /\ sends \subseteq Nat /\ wire \in Seq(Nat)
  /\ queue \subseteq [op : {"accept", "read", "zero", "write"}, k : Nat,
                      ok : BOOLEAN]
  /\ wk \in [Workers ->
       [pc : {"get", "accept", "asend", "asendCount", "arecv", "arecvCount",
              "aerr", "aflag", "enter", "error", "sends", "sendCount",
              "repost", "recvCount", "zero", "tail", "leave", "close", "free"},
        op : {"none", "accept", "read", "zero", "write"}, k : Nat,
        ret : {"none", "repost", "zero", "tail", "leave"},
        err : BOOLEAN, cleanup : BOOLEAN]]
  /\ faulted \in BOOLEAN /\ early \in BOOLEAN /\ misuse \in BOOLEAN

\* Packets of operations that OutstandingOps still includes.
InHand ==
  {w \in Workers :
     \/ wk[w].pc \in {"enter", "error", "repost", "recvCount", "zero", "tail"}
     \/ wk[w].pc \in {"sends", "sendCount"} /\ wk[w].ret # "leave"}

\* Operations that were posted and are not counted yet.
Uncounted == {w \in Workers : wk[w].pc \in {"asendCount", "arecvCount",
                                         "sendCount", "recvCount"}}

\* OutstandingOps counts the operations of the connection: those the kernel
\* works on, those whose packet is queued and those a worker has in hand,
\* except the ones whose increment is still to come - through every failure.
OpsCounted ==
  OutstandingOps + Cardinality(Uncounted) =
    Len(recvs) + Cardinality(sends) + Cardinality(InHand)
    + Cardinality({p \in queue : p.op # "accept"})

\* As long as no call failed and no packet was handled while the accept was, the
\* SOCKET_OBJ and the send buffers outlive their use.  Both conditions matter:
\* a send that failed is freed and stays in OutOfOrderSends, and, without any
\* fault, the end of the stream that another worker handles during the accept
\* frees the SOCKET_OBJ under the worker that accepts.
OutlivesUse == ~faulted /\ ~early =>
  /\ ~misuse
  /\ freed => recvs = <<>> /\ sends = {} /\ queue = {}
              /\ \A w \in Workers : wk[w].pc = "get"

Stream == INSTANCE InOrderStream WITH
            arrived <- arrived, delivered <- wire, MaxReads <- MaxData + 1

\* The echo is the ordered stream of the chunks that arrived: in the order in
\* which they were received, none twice, none left out.
EchoesStream == Stream!StreamSafety

\* Again and again everything that was received has been echoed and, if the
\* client has closed the connection, the SOCKET_OBJ has been freed; unless a
\* call failed, a packet overtook the accept or memory was misused.
EchoedAndFreed ==
  []<>(\/ Len(wire) = arrived /\ (peer = "fin" => freed)
       \/ faulted \/ early \/ misuse)
=============================================================================
