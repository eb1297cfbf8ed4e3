---------------------------- MODULE ScalableEcho -----------------------------
(***************************************************************************)
(* The connections of the echo server io_iocp/iocp_server/iocp_server.cpp. *)
(* What was received waits in gPendingSendList until fewer than gMaxSends  *)
(* sends of all connections are outstanding; every worker that has handled *)
(* a packet posts what it can.  A connection has one BUFFER_OBJ, in turn   *)
(* that of its accept, its send, its receive, its next send ...; so the    *)
(* state of the buffer says where the connection stands.                   *)
(*                                                                         *)
(* The counts of a SOCKET_OBJ are Interlocked, its SockCritSec is held     *)
(* from the call in PostSend and PostRecv to the increments after it, and  *)
(* the tests that end the connection hold no lock.  A freed SOCKET_OBJ is  *)
(* given to the next connection: its use (misuse) ends the behaviour.  The *)
(* listening socket is in module AcceptList.                               *)
(***************************************************************************)
EXTENDS Integers, Sequences, FiniteSets

CONSTANTS
  Workers, Conns, NULL,
  MaxSends,   \* gMaxSends
  MaxData,    \* bound: chunks a client sends after the first
  MayFail     \* may calls fail and clients reset their connections?

ASSUME ConstantsAssumption ==
  /\ NULL \notin Workers \cup Conns /\ IsFiniteSet(Workers)
  /\ MaxSends \in Nat \ {0} /\ MaxData \in Nat /\ MayFail \in BOOLEAN

VARIABLES
  bClosing, OutstandingRecv, OutstandingSend,
  SockCritSec,        \* its owner, for each connection
  open,               \* the socket handle is open
  freed,              \* FreeSocketObj has been called
  buf,                \* the state of the connection's buffer
  gPendingSendList, gOutstandingSends,
  peer, chunks,       \* each client, and the chunks received from it
  wk,                 \* the workers: place and local variables
  leaked,             \* history: sends that completed with an error
  failed,             \* history: a call failed
  overlap,            \* history: two workers were busy with one connection
  misuse              \* a freed SOCKET_OBJ was used

counts == <<OutstandingRecv, OutstandingSend>>
life == <<bClosing, open, freed>>
clients == <<peer, chunks>>
history == <<leaked, failed, overlap, misuse>>
vars == <<counts, SockCritSec, life, buf, gPendingSendList,
          gOutstandingSends, clients, wk, history>>

\* c is HandleIo's sockobj, p the connection of ProcessPendingOperations'
\* sendobj, cleanup is bCleanupSocket.
Idle == [pc |-> "get", c |-> NULL, p |-> NULL, cleanup |-> FALSE]

Become(w, r) == wk' = [wk EXCEPT ![w] = r]
Goto(w, l) == Become(w, IF l = "get" THEN Idle ELSE [wk[w] EXCEPT !.pc = l])

Init ==
  /\ bClosing = [c \in Conns |-> FALSE]
  /\ OutstandingRecv = [c \in Conns |-> 0]
  /\ OutstandingSend = [c \in Conns |-> 0]
  /\ SockCritSec = [c \in Conns |-> NULL]
  /\ open = [c \in Conns |-> FALSE] /\ freed = [c \in Conns |-> FALSE]
  /\ buf = [c \in Conns |-> "accept"]
  /\ gPendingSendList = <<>> /\ gOutstandingSends = 0
  /\ peer = [c \in Conns |-> "none"] /\ chunks = [c \in Conns |-> 0]
  /\ wk = [w \in Workers |-> Idle]
  /\ leaked = 0 /\ failed = FALSE /\ overlap = FALSE /\ misuse = FALSE

-----------------------------------------------------------------------------
(* The clients and the kernel.  Of the states of a buffer, "accept",       *)
(* "send" and "recv" belong to the kernel, the ones in Packets are queued  *)
(* on the completion port, "mine" is in the hand of a worker, and "done"   *)
(* in the hand of one that has nothing left to do with it but free it.     *)

Packets == {"accepted", "sent", "sendErr", "data", "zero", "recvErr"}

ClientConnects(c) ==
  /\ buf[c] = "accept" /\ peer[c] = "none"
  /\ buf' = [buf EXCEPT ![c] = "accepted"]
  /\ peer' = [peer EXCEPT ![c] = "open"]
  /\ chunks' = [chunks EXCEPT ![c] = 1]
  /\ UNCHANGED <<counts, SockCritSec, life, gPendingSendList,
                 gOutstandingSends, wk, history>>

\* Bound: of all calls and clients, one fails.
CanFail == MayFail /\ ~failed /\ \A c \in Conns : peer[c] # "reset"

\* The client closes its side, or resets the connection.
ClientEnds(c) ==
  /\ \/ peer[c] = "open" /\ peer' = [peer EXCEPT ![c] = "fin"]
     \/ /\ CanFail /\ peer[c] = "open"
        /\ peer' = [peer EXCEPT ![c] = "reset"]
  /\ UNCHANGED <<counts, SockCritSec, life, buf, gPendingSendList,
                 gOutstandingSends, chunks, wk, history>>

Broken(c) == peer[c] = "reset" \/ ~open[c]

SendCompletes(c) ==
  /\ buf[c] = "send"
  /\ \E r \in {"sent", "sendErr"} :
       (Broken(c) \/ r = "sent") /\ buf' = [buf EXCEPT ![c] = r]
  /\ UNCHANGED <<counts, SockCritSec, life, gPendingSendList,
                 gOutstandingSends, clients, wk, history>>

RecvCompletes(c) ==
  /\ buf[c] = "recv"
  /\ \/ /\ peer[c] = "open" /\ open[c] /\ chunks[c] <= MaxData
        /\ chunks' = [chunks EXCEPT ![c] = @ + 1]
        /\ buf' = [buf EXCEPT ![c] = "data"]
     \/ /\ peer[c] = "fin" /\ open[c]
        /\ buf' = [buf EXCEPT ![c] = "zero"] /\ UNCHANGED chunks
     \/ /\ Broken(c)
        /\ buf' = [buf EXCEPT ![c] = "recvErr"] /\ UNCHANGED chunks
  /\ UNCHANGED <<counts, SockCritSec, life, gPendingSendList,
                 gOutstandingSends, peer, wk, history>>

-----------------------------------------------------------------------------
(* CompletionThread and the branches of HandleIo.                          *)

\* The SOCKET_OBJ that the next step of a worker reads or writes.
Touches(w) ==
  CASE wk[w].pc \in {"post", "sendCount", "gCount"} -> wk[w].p
    [] wk[w].pc \in {"get", "accepted", "process", "dequeue", "freeBuf"} -> NULL
    [] OTHER -> wk[w].c

InUse(w) == Touches(w) # NULL => ~freed[Touches(w)]

\* GetQueuedCompletionStatus.
Dequeue(w, c) ==
  /\ wk[w].pc = "get" /\ buf[c] \in Packets
  /\ buf' = [buf EXCEPT ![c] = "mine"]
  /\ Become(w, [Idle EXCEPT !.pc = buf[c], !.c = c])
  /\ overlap' = (overlap \/ \E v \in Workers : c \in {wk[v].c, wk[v].p})
  /\ UNCHANGED <<counts, SockCritSec, life, gPendingSendList,
                 gOutstandingSends, clients, leaked, failed, misuse>>

\* EnqueuePendingOperation.
Enqueue(c) ==
  /\ gPendingSendList' = Append(gPendingSendList, c)
  /\ buf' = [buf EXCEPT ![c] = "pending"]

\* An accept completed: the connection gets a SOCKET_OBJ and is associated
\* with the port, and its buffer is enqueued.  Without a SOCKET_OBJ its
\* socket is closed and the buffer freed; after another failure HandleIo
\* returns and all three are lost.  (sockobj stays NULL.)
HandleAccept(w) ==
  LET c == wk[w].c IN
  /\ wk[w].pc = "accepted"
  /\ \/ /\ open' = [open EXCEPT ![c] = TRUE] /\ Enqueue(c)
        /\ Become(w, [Idle EXCEPT !.pc = "process"]) /\ UNCHANGED failed
     \/ /\ CanFail /\ failed' = TRUE
        /\ buf' = [buf EXCEPT ![c] = "free"]
        /\ Become(w, [Idle EXCEPT !.pc = "process"])
        /\ UNCHANGED <<open, gPendingSendList>>
     \/ /\ CanFail /\ failed' = TRUE /\ open' = [open EXCEPT ![c] = TRUE]
        /\ buf' = [buf EXCEPT ![c] = "lost"]
        /\ Goto(w, "get") /\ UNCHANGED gPendingSendList
  /\ UNCHANGED <<counts, SockCritSec, bClosing, freed, gOutstandingSends,
                 clients, leaked, overlap, misuse>>

\* Mutant: the count is not decremented.
HandleReadKeepsCount(w) ==
  /\ wk[w].pc \in {"data", "zero"} /\ InUse(w)
  /\ Goto(w, IF wk[w].pc = "data" THEN "enqueue" ELSE "closing")
  /\ UNCHANGED <<counts, SockCritSec, life, buf, gPendingSendList,
                 gOutstandingSends, clients, history>>

\* A receive completed: the count is decremented; data is enqueued, ...
HandleRead(w) ==
  LET c == wk[w].c IN
  /\ wk[w].pc \in {"data", "zero"} /\ InUse(w)
  /\ OutstandingRecv' = [OutstandingRecv EXCEPT ![c] = @ - 1]
  /\ Goto(w, IF wk[w].pc = "data" THEN "enqueue" ELSE "closing")
  /\ UNCHANGED <<OutstandingSend, SockCritSec, life, buf, gPendingSendList,
                 gOutstandingSends, clients, history>>

EnqueueData(w) ==
  /\ wk[w].pc = "enqueue" /\ InUse(w)
  /\ Enqueue(wk[w].c) /\ Goto(w, "process")
  /\ UNCHANGED <<counts, SockCritSec, life, gOutstandingSends, clients,
                 history>>

\* ... 0 bytes mark the connection as closing, and the buffer is freed, ...
MarkClosing(w) ==
  /\ wk[w].pc = "closing" /\ InUse(w)
  /\ bClosing' = [bClosing EXCEPT ![wk[w].c] = TRUE]
  /\ buf' = [buf EXCEPT ![wk[w].c] = "free"]
  /\ Goto(w, "lastOp")
  /\ UNCHANGED <<counts, SockCritSec, open, freed, gPendingSendList,
                 gOutstandingSends, clients, history>>

\* ... then, under the lock: was it the last operation?
TestLastOp(w) ==
  LET c == wk[w].c IN
  /\ wk[w].pc = "lastOp" /\ InUse(w) /\ SockCritSec[c] = NULL
  /\ Become(w, [wk[w] EXCEPT !.pc = "process", !.cleanup =
                  OutstandingSend[c] = 0 /\ OutstandingRecv[c] = 0])
  /\ UNCHANGED <<counts, SockCritSec, life, buf, gPendingSendList,
                 gOutstandingSends, clients, history>>

\* A send completed: both counts are decremented, ...
HandleWrite(w) ==
  /\ wk[w].pc = "sent" /\ InUse(w)
  /\ OutstandingSend' = [OutstandingSend EXCEPT ![wk[w].c] = @ - 1]
  /\ Goto(w, "gDecrement")
  /\ UNCHANGED <<OutstandingRecv, SockCritSec, life, buf, gPendingSendList,
                 gOutstandingSends, clients, history>>

DecrementSends(w) ==
  /\ wk[w].pc = "gDecrement" /\ InUse(w)
  /\ gOutstandingSends' = gOutstandingSends - 1 /\ Goto(w, "recv")
  /\ UNCHANGED <<counts, SockCritSec, life, buf, gPendingSendList, clients,
                 history>>

\* ... and the buffer is posted for the next receive, unless the connection
\* is closing; the result of PostRecv is ignored, so if the call fails (as
\* if the connection is closing) the buffer and the connection are lost.
PostRecv(w) ==
  LET c == wk[w].c IN
  /\ wk[w].pc = "recv" /\ InUse(w)
  /\ \/ /\ ~bClosing[c] /\ ~Broken(c)
        /\ SockCritSec[c] = NULL /\ SockCritSec' = [SockCritSec EXCEPT ![c] = w]
        /\ buf' = [buf EXCEPT ![c] = "recv"]
        /\ Goto(w, "recvCount") /\ UNCHANGED failed
     \/ /\ bClosing[c] \/ (Broken(c) /\ SockCritSec[c] = NULL)
        /\ buf' = [buf EXCEPT ![c] = "lost"] /\ failed' = TRUE
        /\ Goto(w, "process") /\ UNCHANGED SockCritSec
  /\ UNCHANGED <<counts, life, gPendingSendList, gOutstandingSends, clients,
                 leaked, overlap, misuse>>

\* Mutant: HandleIo ends without ProcessPendingOperations.
CountRecvOnly(w) ==
  LET c == wk[w].c IN
  /\ wk[w].pc = "recvCount" /\ InUse(w)
  /\ OutstandingRecv' = [OutstandingRecv EXCEPT ![c] = @ + 1]
  /\ SockCritSec' = [SockCritSec EXCEPT ![c] = NULL]
  /\ Goto(w, "tail")
  /\ UNCHANGED <<OutstandingSend, life, buf, gPendingSendList,
                 gOutstandingSends, clients, history>>

CountRecv(w) ==
  LET c == wk[w].c IN
  /\ wk[w].pc = "recvCount" /\ InUse(w)
  /\ OutstandingRecv' = [OutstandingRecv EXCEPT ![c] = @ + 1]
  /\ SockCritSec' = [SockCritSec EXCEPT ![c] = NULL]
  /\ Goto(w, "process")
  /\ UNCHANGED <<OutstandingSend, life, buf, gPendingSendList,
                 gOutstandingSends, clients, history>>

\* An operation completed with an error: its count is decremented, and if
\* both are 0 the connection is freed, without any lock, and then the
\* buffer.  The send is not taken off gOutstandingSends, and HandleIo
\* returns without ProcessPendingOperations.
HandleError(w) ==
  LET c == wk[w].c IN
  /\ wk[w].pc \in {"recvErr", "sendErr"} /\ InUse(w)
  /\ buf' = [buf EXCEPT ![c] = "done"]
  /\ \/ /\ wk[w].pc = "recvErr"
        /\ OutstandingRecv' = [OutstandingRecv EXCEPT ![c] = @ - 1]
        /\ Goto(w, IF OutstandingRecv'[c] = 0 THEN "errSend" ELSE "freeBuf")
        /\ UNCHANGED <<OutstandingSend, leaked>>
     \/ /\ wk[w].pc = "sendErr"
        /\ OutstandingSend' = [OutstandingSend EXCEPT ![c] = @ - 1]
        /\ Goto(w, IF OutstandingSend'[c] = 0 THEN "errRecv" ELSE "freeBuf")
        /\ leaked' = leaked + 1 /\ UNCHANGED OutstandingRecv
  /\ UNCHANGED <<SockCritSec, life, gPendingSendList, gOutstandingSends,
                 clients, failed, overlap, misuse>>

TestOther(w) ==
  LET c == wk[w].c IN
  /\ wk[w].pc \in {"errSend", "errRecv"} /\ InUse(w)
  /\ Goto(w, IF (IF wk[w].pc = "errSend" THEN OutstandingSend[c]
                 ELSE OutstandingRecv[c]) = 0 THEN "errFree" ELSE "freeBuf")
  /\ UNCHANGED <<counts, SockCritSec, life, buf, gPendingSendList,
                 gOutstandingSends, clients, history>>

FreeBufferObj(w) ==
  /\ wk[w].pc = "freeBuf"
  /\ buf' = [buf EXCEPT ![wk[w].c] = "free"] /\ Goto(w, "get")
  /\ UNCHANGED <<counts, SockCritSec, life, gPendingSendList,
                 gOutstandingSends, clients, history>>

-----------------------------------------------------------------------------
(* ProcessPendingOperations.                                               *)

\* Mutant: one send more.
TestSendsOneMore(w) ==
  /\ wk[w].pc = "process"
  /\ Goto(w, IF gOutstandingSends <= MaxSends THEN "dequeue" ELSE "tail")
  /\ UNCHANGED <<counts, SockCritSec, life, buf, gPendingSendList,
                 gOutstandingSends, clients, history>>

\* while (gOutstandingSends < gMaxSends)
TestSends(w) ==
  /\ wk[w].pc = "process"
  /\ Goto(w, IF gOutstandingSends < MaxSends THEN "dequeue" ELSE "tail")
  /\ UNCHANGED <<counts, SockCritSec, life, buf, gPendingSendList,
                 gOutstandingSends, clients, history>>

\* DequeuePendingOperation.
DequeuePending(w) ==
  /\ wk[w].pc = "dequeue"
  /\ \/ /\ gPendingSendList = <<>> /\ Goto(w, "tail")
        /\ UNCHANGED <<buf, gPendingSendList>>
     \/ /\ gPendingSendList # <<>>
        /\ gPendingSendList' = Tail(gPendingSendList)
        /\ buf' = [buf EXCEPT ![Head(gPendingSendList)] = "mine"]
        /\ Become(w, [wk[w] EXCEPT !.pc = "post",
                                   !.p = Head(gPendingSendList)])
  /\ UNCHANGED <<counts, SockCritSec, life, gOutstandingSends, clients,
                 history>>

\* PostSend; if the call fails the buffer is freed and the loop left, and
\* nothing ends the connection.
PostSend(w) ==
  LET p == wk[w].p IN
  /\ wk[w].pc = "post" /\ InUse(w) /\ SockCritSec[p] = NULL
  /\ \/ /\ ~Broken(p)
        /\ SockCritSec' = [SockCritSec EXCEPT ![p] = w]
        /\ buf' = [buf EXCEPT ![p] = "send"]
        /\ Goto(w, "sendCount") /\ UNCHANGED failed
     \/ /\ Broken(p)
        /\ buf' = [buf EXCEPT ![p] = "free"] /\ failed' = TRUE
        /\ Become(w, [wk[w] EXCEPT !.pc = "tail", !.p = NULL])
        /\ UNCHANGED SockCritSec
  /\ UNCHANGED <<counts, life, gPendingSendList, gOutstandingSends, clients,
                 leaked, overlap, misuse>>

CountSend(w) ==
  /\ wk[w].pc = "sendCount" /\ InUse(w)
  /\ OutstandingSend' = [OutstandingSend EXCEPT ![wk[w].p] = @ + 1]
  /\ Goto(w, "gCount")
  /\ UNCHANGED <<OutstandingRecv, SockCritSec, life, buf, gPendingSendList,
                 gOutstandingSends, clients, history>>

\* Mutant: the sends of all connections are not counted.
IncrementSendsNone(w) ==
  /\ wk[w].pc = "gCount" /\ InUse(w)
  /\ SockCritSec' = [SockCritSec EXCEPT ![wk[w].p] = NULL]
  /\ Become(w, [wk[w] EXCEPT !.pc = "process", !.p = NULL])
  /\ UNCHANGED <<counts, life, buf, gPendingSendList, gOutstandingSends,
                 clients, history>>

IncrementSends(w) ==
  /\ wk[w].pc = "gCount" /\ InUse(w)
  /\ gOutstandingSends' = gOutstandingSends + 1
  /\ SockCritSec' = [SockCritSec EXCEPT ![wk[w].p] = NULL]
  /\ Become(w, [wk[w] EXCEPT !.pc = "process", !.p = NULL])
  /\ UNCHANGED <<counts, life, buf, gPendingSendList, clients, history>>

-----------------------------------------------------------------------------
(* The end of HandleIo.                                                    *)

\* The three tests of the tail are separate reads, made without the lock.
TailTest(w, l, closing, more) ==
  /\ wk[w].pc = l /\ InUse(w)
  /\ Goto(w, IF closing THEN more
             ELSE IF wk[w].cleanup THEN "close" ELSE "get")
  /\ UNCHANGED <<counts, SockCritSec, life, buf, gPendingSendList,
                 gOutstandingSends, clients, history>>

\* Mutant: bClosing is not tested.
TestTailNoFlag(w) ==
  LET c == wk[w].c IN
  \/ c = NULL /\ TailTest(w, "tail", FALSE, "get")
  \/ c # NULL /\ TailTest(w, "tail", OutstandingSend[c] = 0, "tailRecv")
  \/ c # NULL /\ TailTest(w, "tailRecv", OutstandingRecv[c] = 0, "close")

TestTail(w) ==
  LET c == wk[w].c IN
  \/ c = NULL /\ TailTest(w, "tail", FALSE, "get")
  \/ c # NULL /\ TailTest(w, "tail", OutstandingSend[c] = 0, "tailRecv")
  \/ c # NULL /\ TailTest(w, "tailRecv", OutstandingRecv[c] = 0, "tailFlag")
  \/ c # NULL /\ TailTest(w, "tailFlag", bClosing[c], "close")

CloseSocket(w) ==
  /\ wk[w].pc = "close" /\ InUse(w)
  /\ open' = [open EXCEPT ![wk[w].c] = FALSE] /\ Goto(w, "free")
  /\ UNCHANGED <<counts, SockCritSec, bClosing, freed, buf, gPendingSendList,
                 gOutstandingSends, clients, history>>

\* At the end of the tail, or from the branch of an error.
FreeSocketObj(w) ==
  /\ wk[w].pc \in {"free", "errFree"} /\ InUse(w)
  /\ open' = [open EXCEPT ![wk[w].c] = FALSE]
  /\ freed' = [freed EXCEPT ![wk[w].c] = TRUE]
  /\ Goto(w, IF wk[w].pc = "free" THEN "get" ELSE "freeBuf")
  /\ UNCHANGED <<counts, SockCritSec, bClosing, buf, gPendingSendList,
                 gOutstandingSends, clients, history>>

UseFreed(w) ==
  /\ ~InUse(w) /\ misuse' = TRUE
  /\ UNCHANGED <<counts, SockCritSec, life, buf, gPendingSendList,
                 gOutstandingSends, clients, wk, leaked, failed, overlap>>

-----------------------------------------------------------------------------
Work(w) ==
  \/ \E c \in Conns : Dequeue(w, c)
  \/ HandleAccept(w)
  \/ HandleRead(w) \/ EnqueueData(w) \/ MarkClosing(w) \/ TestLastOp(w)
  \/ HandleWrite(w) \/ DecrementSends(w) \/ PostRecv(w) \/ CountRecv(w)
  \/ HandleError(w) \/ TestOther(w) \/ FreeBufferObj(w)
  \/ TestSends(w) \/ DequeuePending(w) \/ PostSend(w) \/ CountSend(w)
  \/ IncrementSends(w)
  \/ TestTail(w) \/ CloseSocket(w) \/ FreeSocketObj(w) \/ UseFreed(w)

Kernel == \E c \in Conns : SendCompletes(c) \/ RecvCompletes(c)

Client == \E c \in Conns : ClientConnects(c) \/ ClientEnds(c)

Next == ~misuse /\ (Client \/ Kernel \/ \E w \in Workers : Work(w))

Spec == Init /\ [][Next]_vars

\* A worker thread with something to do is eventually scheduled, and the
\* kernel completes what it can complete.
FairSpec ==
  /\ Spec
  /\ WF_vars(~misuse /\ Kernel)
  /\ \A w \in Workers : WF_vars(~misuse /\ Work(w))

-----------------------------------------------------------------------------
\* The variables stay in their ranges.
TypeOK ==
  /\ bClosing \in [Conns -> BOOLEAN]
  /\ OutstandingRecv \in [Conns -> -1..1]
  /\ OutstandingSend \in [Conns -> -1..1]
  /\ SockCritSec \in [Conns -> Workers \cup {NULL}]
  /\ open \in [Conns -> BOOLEAN] /\ freed \in [Conns -> BOOLEAN]
  /\ buf \in [Conns -> Packets \cup {"accept", "send", "recv", "pending",
                                     "mine", "done", "free", "lost"}]
  /\ gPendingSendList \in Seq(Conns) /\ gOutstandingSends \in Int
  /\ peer \in [Conns -> {"none", "open", "fin", "reset"}]
  /\ chunks \in [Conns -> 0..(MaxData + 1)]
  /\ wk \in [Workers ->
       [pc : Packets \cup {"get", "enqueue", "closing", "lastOp",
                           "gDecrement", "recv", "recvCount", "errSend",
                           "errRecv", "errFree", "freeBuf", "process",
                           "dequeue", "post", "sendCount", "gCount", "tail",
                           "tailRecv", "tailFlag", "close", "free"},
        c : Conns \cup {NULL}, p : Conns \cup {NULL}, cleanup : BOOLEAN]]
  /\ leaked \in Nat
  /\ failed \in BOOLEAN /\ overlap \in BOOLEAN /\ misuse \in BOOLEAN

\* Workers between their test of gOutstandingSends and their increment.
Sending == {w \in Workers : wk[w].pc \in {"dequeue", "post", "sendCount",
                                         "gCount"}}

\* gOutstandingSends exceeds gMaxSends by less than the number of workers,
\* although the test and the increment are not atomic and a send may be
\* taken off the count before it is added to it.
SendsBounded ==
  gOutstandingSends + Cardinality(Sending)
    <= MaxSends - 1 + Cardinality(Workers)

Outstanding(c) ==
  \/ buf[c] \in {"send", "sent", "sendErr"}
  \/ \E w \in Workers :
       wk[w].c = c /\ wk[w].pc \in {"sent", "sendErr", "gDecrement"}

\* gOutstandingSends is the number of the sends that are posted and not yet
\* handled, less those not yet added, plus those that failed.
SendsCounted ==
  gOutstandingSends + Cardinality({w \in Workers : wk[w].pc \in {"sendCount", "gCount"}})
    = Cardinality({c \in Conns : Outstanding(c)}) + leaked

\* The states of a buffer with which no operation is begun any more.
Over == {"done", "free"}

\* A SOCKET_OBJ is freed only after the last operation of its connection was
\* handled, although the tests hold no lock and the counts lag behind; as
\* long as no two workers have been busy with one connection, it is freed
\* once and not used afterwards.
IdleWhenFreed ==
  /\ \A c \in Conns : freed[c] => buf[c] \in Over
  /\ ~overlap => ~misuse

\* Again and again everything that was received has been sent and every
\* connection that its client closed has been freed, unless a call or a send
\* failed; the second also unless two workers were busy with one connection.
SentAndFreed ==
  []<>(\/ /\ gPendingSendList = <<>>
          /\ overlap \/ \A c \in Conns : peer[c] = "fin" => freed[c]
       \/ failed \/ leaked > 0 \/ misuse)
=============================================================================
