------------------------- MODULE ScalableEcho_proofs -------------------------
(***************************************************************************)
(* The echo server iocp_server.cpp, for any number of workers and          *)
(* connections.                                                            *)
(*                                                                         *)
(* First gMaxSends: the test of gOutstandingSends and its increment are    *)
(* made by each worker on its own, so the limit can be passed, but by less *)
(* than the number of workers.  Every worker between its test and its      *)
(* increment (Sending) counts for one more send.                           *)
(*                                                                         *)
(* Then the exact counts and the end of a connection, from the ownership   *)
(* of its one buffer: IInv.                                                *)
(***************************************************************************)
EXTENDS ScalableEcho, FiniteSetTheorems, TLAPS

SendPcs == {"dequeue", "post", "sendCount", "gCount"}

Pcs == {"get", "accepted", "sent", "sendErr", "data", "zero", "recvErr",
        "enqueue", "closing", "lastOp", "gDecrement", "recv", "recvCount",
        "errSend", "errRecv", "errFree", "freeBuf", "process", "tail",
        "tailRecv", "tailFlag", "close", "free"} \cup SendPcs

WorkerState == [pc : Pcs, c : Conns \cup {NULL}, p : Conns \cup {NULL},
                cleanup : BOOLEAN]

\* As much of the types as the bound needs: a worker that is about to enqueue
\* a buffer has the connection of one.
Shape ==
  /\ gOutstandingSends \in Int /\ gPendingSendList \in Seq(Conns)
  /\ wk \in [Workers -> WorkerState]
  /\ \A w \in Workers :
       wk[w].pc \in {"accepted", "data", "zero", "enqueue"} => wk[w].c \in Conns

BoundInv == Shape /\ SendsBounded

-----------------------------------------------------------------------------
(* How a step of one worker changes the number of the workers in Sending.  *)

\* Sending is a finite set of at most all workers.
LEMMA SendingFinite ==
  /\ IsFiniteSet(Sending) /\ Cardinality(Sending) \in Nat
  /\ Cardinality(Workers) \in Nat
  /\ Cardinality(Sending) <= Cardinality(Workers)
<1>1. Sending \in SUBSET Workers
  BY DEF Sending
<1> QED
  BY <1>1, ConstantsAssumption, FS_Subset, FS_CardinalityType

\* The same in the next state.
LEMMA SendingFinitePrime ==
  Cardinality(Sending') \in Nat /\ Cardinality(Sending') <= Cardinality(Workers)
<1>1. Sending' \in SUBSET Workers
  BY DEF Sending
<1> QED
  BY <1>1, ConstantsAssumption, FS_Subset, FS_CardinalityType

\* Only worker w moves: Sending stays, gains w or loses w.
LEMMA SendingMoves ==
  ASSUME NEW w \in Workers,
         \A v \in Workers \ {w} : wk'[v].pc = wk[v].pc
  PROVE  /\ (wk[w].pc \in SendPcs <=> wk'[w].pc \in SendPcs)
              => Cardinality(Sending') = Cardinality(Sending)
         /\ wk[w].pc \in SendPcs /\ wk'[w].pc \notin SendPcs
              => Cardinality(Sending') = Cardinality(Sending) - 1
<1>1. Sending = {v \in Workers : wk[v].pc \in SendPcs}
  BY DEF Sending, SendPcs
<1>2. Sending' = {v \in Workers : wk'[v].pc \in SendPcs}
  BY DEF Sending, SendPcs
<1>3. CASE wk[w].pc \in SendPcs <=> wk'[w].pc \in SendPcs
  <2>1. Sending' = Sending
    BY <1>1, <1>2, <1>3
  <2> QED
    BY <1>3, <2>1
<1>4. CASE wk[w].pc \in SendPcs /\ wk'[w].pc \notin SendPcs
  <2>1. Sending' = Sending \ {w} /\ w \in Sending
    BY <1>1, <1>2, <1>4
  <2>2. Cardinality(Sending \ {w}) = Cardinality(Sending) - 1
    BY <2>1, SendingFinite, FS_RemoveElement
  <2> QED
    BY <1>4, <2>1, <2>2
<1> QED
  BY <1>3, <1>4

\* A step of worker w that does not bring it into Sending and adds to
\* gOutstandingSends only if it leaves Sending keeps the bound.
LEMMA BoundKept ==
  ASSUME BoundInv, NEW w \in Workers,
         \A v \in Workers \ {w} : wk'[v].pc = wk[v].pc,
         gOutstandingSends' \in Int,
         wk'[w].pc \in SendPcs => wk[w].pc \in SendPcs,
         \/ gOutstandingSends' <= gOutstandingSends
         \/ /\ gOutstandingSends' = gOutstandingSends + 1
            /\ wk[w].pc \in SendPcs /\ wk'[w].pc \notin SendPcs
  PROVE  SendsBounded'
<1>1. Cardinality(Sending) \in Nat /\ Cardinality(Sending') \in Nat
      /\ Cardinality(Workers) \in Nat
  BY SendingFinite, SendingFinitePrime
<1>2. \/ /\ (wk[w].pc \in SendPcs <=> wk'[w].pc \in SendPcs)
         /\ Cardinality(Sending') = Cardinality(Sending)
      \/ /\ wk[w].pc \in SendPcs /\ wk'[w].pc \notin SendPcs
         /\ Cardinality(Sending') = Cardinality(Sending) - 1
  BY SendingMoves
<1> QED
  BY <1>1, <1>2, ConstantsAssumption DEF BoundInv, Shape, SendsBounded

-----------------------------------------------------------------------------
(* The shape of the state.                                                 *)

\* The initial state has the shape and no send.
LEMMA InitBoundInv == Init => BoundInv
<1> SUFFICES ASSUME Init PROVE BoundInv
  OBVIOUS
<1>0. Idle \in WorkerState /\ Idle.pc = "get"
  BY DEF Idle, WorkerState, Pcs
<1>1. Shape
  <2>1. wk \in [Workers -> WorkerState] /\ \A w \in Workers : wk[w].pc = "get"
    BY <1>0 DEF Init
  <2>2. gPendingSendList = <<>> /\ gOutstandingSends = 0
    BY DEF Init
  <2> QED
    BY <2>1, <2>2 DEF Shape
<1>2. Sending = {}
  BY <1>0 DEF Init, Sending
<1>3. Cardinality(Sending) = 0 /\ Cardinality(Workers) \in Nat
  BY <1>2, FS_EmptySet, SendingFinite
<1>4. SendsBounded
  BY <1>3, ConstantsAssumption DEF SendsBounded, Init
<1> QED
  BY <1>1, <1>4 DEF BoundInv

\* Idle, and changes of the fields of a worker's state.
LEMMA WorkerStateEdits ==
  /\ Idle \in WorkerState /\ Idle.pc = "get"
  /\ \A r \in WorkerState, l \in Pcs :
       /\ [r EXCEPT !.pc = l] \in WorkerState
       /\ [r EXCEPT !.pc = l].pc = l /\ [r EXCEPT !.pc = l].c = r.c
  /\ \A r \in WorkerState, x \in Conns \cup {NULL} :
       /\ [r EXCEPT !.c = x] \in WorkerState /\ [r EXCEPT !.p = x] \in WorkerState
       /\ [r EXCEPT !.c = x].c = x /\ [r EXCEPT !.c = x].pc = r.pc
       /\ [r EXCEPT !.p = x].pc = r.pc
  /\ \A r \in WorkerState, b \in BOOLEAN :
       /\ [r EXCEPT !.cleanup = b] \in WorkerState
       /\ [r EXCEPT !.cleanup = b].pc = r.pc
<1>1. Idle \in WorkerState /\ Idle.pc = "get"
  BY DEF Idle, WorkerState, Pcs
<1>2. ASSUME NEW r \in WorkerState, NEW l \in Pcs
      PROVE  /\ [r EXCEPT !.pc = l] \in WorkerState
             /\ [r EXCEPT !.pc = l].pc = l /\ [r EXCEPT !.pc = l].c = r.c
  BY DEF WorkerState
<1>3. ASSUME NEW r \in WorkerState, NEW x \in Conns \cup {NULL}
      PROVE  /\ [r EXCEPT !.c = x] \in WorkerState
             /\ [r EXCEPT !.p = x] \in WorkerState
             /\ [r EXCEPT !.c = x].c = x /\ [r EXCEPT !.c = x].pc = r.pc
             /\ [r EXCEPT !.p = x].pc = r.pc
  BY DEF WorkerState
<1>4. ASSUME NEW r \in WorkerState, NEW b \in BOOLEAN
      PROVE  /\ [r EXCEPT !.cleanup = b] \in WorkerState
             /\ [r EXCEPT !.cleanup = b].pc = r.pc
  BY DEF WorkerState
<1> QED
  BY <1>1, <1>2, <1>3, <1>4

\* A worker's state is replaced.
LEMMA BecomeFacts ==
  ASSUME Shape, NEW w \in Workers, NEW r \in WorkerState, wk' = [wk EXCEPT ![w] = r]
  PROVE  /\ wk' \in [Workers -> WorkerState] /\ wk'[w] = r
         /\ \A v \in Workers \ {w} : wk'[v] = wk[v]
BY DEF Shape

\* What Become and Goto do to the workers.
LEMMA GotoFacts ==
  ASSUME Shape, NEW w \in Workers, NEW l \in Pcs, Goto(w, l)
  PROVE  /\ wk' \in [Workers -> WorkerState]
         /\ wk'[w].pc = l /\ wk'[w].c \in {wk[w].c, NULL}
         /\ l # "get" => wk'[w].c = wk[w].c
         /\ \A v \in Workers \ {w} : wk'[v] = wk[v]
BY DEF Shape, Goto, Become, Idle, WorkerState, Pcs

\* A worker's step that keeps the types and satisfies BoundKept.
LEMMA StepKept ==
  ASSUME BoundInv, NEW w \in Workers,
         wk' \in [Workers -> WorkerState],
         \A v \in Workers \ {w} : wk'[v] = wk[v],
         wk'[w].pc \in {"accepted", "data", "zero", "enqueue"}
           => wk'[w].c \in Conns,
         gPendingSendList' \in Seq(Conns), gOutstandingSends' \in Int,
         wk'[w].pc \in SendPcs => wk[w].pc \in SendPcs,
         \/ gOutstandingSends' <= gOutstandingSends
         \/ /\ gOutstandingSends' = gOutstandingSends + 1
            /\ wk[w].pc \in SendPcs /\ wk'[w].pc \notin SendPcs
  PROVE  BoundInv'
<1>1. SendsBounded'
  BY BoundKept
<1>2. Shape'
  BY DEF BoundInv, Shape
<1> QED
  BY <1>1, <1>2 DEF BoundInv

\* A step that only moves worker w, to a place from which it neither enqueues
\* nor sends (unless it was sending already).
LEMMA GotoKept ==
  ASSUME BoundInv, NEW w \in Workers, NEW l \in Pcs, Goto(w, l),
         l \in SendPcs => wk[w].pc \in SendPcs,
         l \notin {"accepted", "data", "zero"},
         l = "enqueue" => wk[w].c \in Conns,
         gPendingSendList' \in Seq(Conns), gOutstandingSends' \in Int,
         gOutstandingSends' <= gOutstandingSends
  PROVE  BoundInv'
<1>1. Shape
  BY DEF BoundInv
<1>2. /\ wk' \in [Workers -> WorkerState]
      /\ wk'[w].pc = l /\ (l # "get" => wk'[w].c = wk[w].c)
      /\ \A v \in Workers \ {w} : wk'[v] = wk[v]
  BY <1>1, GotoFacts
<1> QED
  BY <1>2, StepKept

-----------------------------------------------------------------------------
(* The steps of a worker.                                                  *)

\* Dequeuing a packet and handling what was accepted or received.
LEMMA HandleKept ==
  ASSUME BoundInv, NEW w \in Workers,
         \/ \E c \in Conns : Dequeue(w, c)
         \/ HandleAccept(w) \/ HandleRead(w) \/ EnqueueData(w)
         \/ MarkClosing(w) \/ TestLastOp(w)
  PROVE  BoundInv'
<1>0. Shape /\ gOutstandingSends <= gOutstandingSends /\ gOutstandingSends \in Int
      /\ gPendingSendList \in Seq(Conns)
  BY DEF BoundInv, Shape
<1>1. ASSUME NEW c \in Conns, Dequeue(w, c) PROVE BoundInv'
  <2>1. /\ wk' = [wk EXCEPT ![w] = [Idle EXCEPT !.pc = buf[c], !.c = c]]
        /\ buf[c] \in Packets
        /\ UNCHANGED <<gPendingSendList, gOutstandingSends>>
    BY <1>1 DEF Dequeue, Become
  <2>2. /\ wk' \in [Workers -> WorkerState]
        /\ wk'[w].pc = buf[c] /\ wk'[w].c = c
        /\ \A v \in Workers \ {w} : wk'[v] = wk[v]
    <3>1. buf[c] \in Pcs
      BY <2>1 DEF Packets, Pcs
    <3>2. /\ [Idle EXCEPT !.pc = buf[c], !.c = c] \in WorkerState
          /\ [Idle EXCEPT !.pc = buf[c], !.c = c].pc = buf[c]
          /\ [Idle EXCEPT !.pc = buf[c], !.c = c].c = c
      BY <3>1 DEF Idle, WorkerState
    <3> QED
      BY <1>0, <2>1, <3>2, BecomeFacts
  <2> QED
    BY <1>0, <2>1, <2>2, StepKept DEF Packets, SendPcs
<1>2. CASE HandleAccept(w)
  <2>1. wk[w].c \in Conns
    BY <1>0, <1>2 DEF HandleAccept, Shape
  <2>2. gPendingSendList' \in Seq(Conns) /\ UNCHANGED gOutstandingSends
    BY SMTT(30), <1>0, <1>2, <2>1 DEF HandleAccept, Enqueue
  <2>3. \/ Become(w, [Idle EXCEPT !.pc = "process"])
        \/ Goto(w, "get")
    BY <1>2 DEF HandleAccept
  <2>4. CASE Become(w, [Idle EXCEPT !.pc = "process"])
    <3>1. /\ wk' \in [Workers -> WorkerState]
          /\ wk'[w].pc = "process"
          /\ \A v \in Workers \ {w} : wk'[v] = wk[v]
      <4>1. /\ [Idle EXCEPT !.pc = "process"] \in WorkerState
            /\ [Idle EXCEPT !.pc = "process"].pc = "process"
        BY DEF Idle, WorkerState, Pcs
      <4> QED
        BY <1>0, <2>4, <4>1, BecomeFacts DEF Become
    <3> QED
      BY <1>0, <2>2, <3>1, StepKept DEF SendPcs
  <2>5. CASE Goto(w, "get")
    BY <1>0, <2>2, <2>5, GotoKept DEF SendPcs, Pcs
  <2> QED
    BY <2>3, <2>4, <2>5
<1>3. CASE HandleRead(w)
  <2>1. /\ wk[w].c \in Conns
        /\ Goto(w, "enqueue") \/ Goto(w, "closing")
        /\ UNCHANGED <<gPendingSendList, gOutstandingSends>>
    BY <1>0, <1>3 DEF HandleRead, Shape
  <2> QED
    BY <1>0, <2>1, GotoKept DEF SendPcs, Pcs
<1>4. CASE EnqueueData(w)
  <2>1. /\ wk[w].c \in Conns /\ Goto(w, "process")
        /\ gPendingSendList' = Append(gPendingSendList, wk[w].c)
        /\ UNCHANGED gOutstandingSends
    BY <1>0, <1>4 DEF EnqueueData, Enqueue, Shape
  <2>2. gPendingSendList' \in Seq(Conns)
    BY <1>0, <2>1
  <2> QED
    BY <1>0, <2>1, <2>2, GotoKept DEF SendPcs, Pcs
<1>5. CASE MarkClosing(w)
  <2>1. Goto(w, "lastOp") /\ UNCHANGED <<gPendingSendList, gOutstandingSends>>
    BY <1>5 DEF MarkClosing
  <2> QED
    BY <1>0, <2>1, GotoKept DEF SendPcs, Pcs
<1>6. CASE TestLastOp(w)
  <2>1. /\ \E b \in BOOLEAN :
             wk' = [wk EXCEPT ![w] = [wk[w] EXCEPT !.pc = "process", !.cleanup = b]]
        /\ UNCHANGED <<gPendingSendList, gOutstandingSends>>
    BY <1>6 DEF TestLastOp, Become
  <2>2. /\ wk' \in [Workers -> WorkerState] /\ wk'[w].pc = "process"
        /\ \A v \in Workers \ {w} : wk'[v] = wk[v]
    <3>1. PICK b \in BOOLEAN :
            wk' = [wk EXCEPT ![w] = [wk[w] EXCEPT !.pc = "process", !.cleanup = b]]
      BY <2>1
    <3>2. /\ [wk[w] EXCEPT !.pc = "process", !.cleanup = b] \in WorkerState
          /\ [wk[w] EXCEPT !.pc = "process", !.cleanup = b].pc = "process"
      BY <1>0 DEF WorkerState, Pcs, Shape
    <3> QED
      BY <1>0, <3>1, <3>2, BecomeFacts
  <2> QED
    BY <1>0, <2>1, <2>2, StepKept DEF SendPcs
<1> QED
  BY <1>1, <1>2, <1>3, <1>4, <1>5, <1>6

\* A completed send, the next receive, and operations that failed.
LEMMA WriteKept ==
  ASSUME BoundInv, NEW w \in Workers,
         \/ HandleWrite(w) \/ DecrementSends(w) \/ PostRecv(w) \/ CountRecv(w)
         \/ HandleError(w) \/ TestOther(w) \/ FreeBufferObj(w)
  PROVE  BoundInv'
<1>0. Shape /\ gOutstandingSends \in Int /\ gPendingSendList \in Seq(Conns)
  BY DEF BoundInv, Shape
<1>1. /\ UNCHANGED gPendingSendList
      /\ gOutstandingSends' \in {gOutstandingSends, gOutstandingSends - 1}
  BY DEF HandleWrite, DecrementSends, PostRecv, CountRecv, HandleError, TestOther,
         FreeBufferObj
<1>2. \E l \in {"gDecrement", "recv", "recvCount", "process", "errSend",
                "errRecv", "errFree", "freeBuf", "get"} : Goto(w, l)
  BY DEF HandleWrite, DecrementSends, PostRecv, CountRecv, HandleError, TestOther,
         FreeBufferObj
<1>3. gOutstandingSends' \in Int /\ gOutstandingSends' <= gOutstandingSends
      /\ gPendingSendList' \in Seq(Conns)
  BY <1>0, <1>1
<1> QED
  BY <1>2, <1>3, GotoKept DEF SendPcs, Pcs

\* Only the test of gOutstandingSends brings a worker into Sending, and with
\* it there are at most as many as workers.
LEMMA TestSendsBound ==
  ASSUME BoundInv, NEW w \in Workers, TestSends(w)
  PROVE  BoundInv'
<1>0. Shape /\ gOutstandingSends \in Int /\ gPendingSendList \in Seq(Conns)
  BY DEF BoundInv, Shape
<1>1. UNCHANGED <<gPendingSendList, gOutstandingSends>>
  BY DEF TestSends
<1>2. CASE gOutstandingSends < MaxSends
  <2>1. Goto(w, "dequeue")
    BY <1>2 DEF TestSends
  <2>2. /\ wk' \in [Workers -> WorkerState] /\ wk'[w].pc = "dequeue"
        /\ \A v \in Workers \ {w} : wk'[v] = wk[v]
    BY <1>0, <2>1, GotoFacts DEF Pcs, SendPcs
  <2>3. Shape'
    BY <1>0, <1>1, <2>2 DEF Shape
  <2>4. SendsBounded'
    BY <1>0, <1>1, <1>2, SendingFinite, SendingFinitePrime, ConstantsAssumption
       DEF SendsBounded
  <2> QED
    BY <2>3, <2>4 DEF BoundInv
<1>3. CASE ~(gOutstandingSends < MaxSends)
  <2>1. Goto(w, "tail")
    BY <1>3 DEF TestSends
  <2> QED
    BY <1>0, <1>1, <2>1, GotoKept DEF SendPcs, Pcs
<1> QED
  BY <1>2, <1>3

\* The rest of ProcessPendingOperations: a worker that adds its send to
\* gOutstandingSends leaves Sending with the same step.
LEMMA ProcessKept ==
  ASSUME BoundInv, NEW w \in Workers,
         DequeuePending(w) \/ PostSend(w) \/ CountSend(w) \/ IncrementSends(w)
  PROVE  BoundInv'
<1>0. /\ Shape /\ gOutstandingSends \in Int /\ gPendingSendList \in Seq(Conns)
      /\ wk[w] \in WorkerState /\ gOutstandingSends <= gOutstandingSends
  BY DEF BoundInv, Shape
<1>1. wk[w].pc \in SendPcs
  BY DEF DequeuePending, PostSend, CountSend, IncrementSends, SendPcs
<1>2. ASSUME NEW l \in {"post", "tail", "process"}, NEW x \in Conns \cup {NULL},
             Become(w, [wk[w] EXCEPT !.pc = l, !.p = x])
      PROVE  /\ wk' \in [Workers -> WorkerState] /\ wk'[w].pc = l
             /\ \A v \in Workers \ {w} : wk'[v] = wk[v]
  <2>1. l \in Pcs
    BY DEF Pcs, SendPcs
  <2>2. /\ [wk[w] EXCEPT !.pc = l, !.p = x] \in WorkerState
        /\ [wk[w] EXCEPT !.pc = l, !.p = x].pc = l
    BY <1>0, <2>1 DEF WorkerState
  <2> QED
    BY <1>0, <1>2, <2>2, BecomeFacts DEF Become
<1>3. CASE DequeuePending(w)
  <2>1. UNCHANGED gOutstandingSends
    BY <1>3 DEF DequeuePending
  <2>2. CASE gPendingSendList = <<>>
    <3>1. Goto(w, "tail") /\ UNCHANGED gPendingSendList
      BY <1>3, <2>2 DEF DequeuePending
    <3> QED
      BY <1>0, <2>1, <3>1, GotoKept DEF SendPcs, Pcs
  <2>3. CASE gPendingSendList # <<>>
    <3>1. /\ gPendingSendList' = Tail(gPendingSendList)
          /\ Become(w, [wk[w] EXCEPT !.pc = "post", !.p = Head(gPendingSendList)])
      BY <1>3, <2>3 DEF DequeuePending
    <3>2. Head(gPendingSendList) \in Conns /\ gPendingSendList' \in Seq(Conns)
      BY <1>0, <2>3, <3>1
    <3>3. /\ wk' \in [Workers -> WorkerState] /\ wk'[w].pc = "post"
          /\ \A v \in Workers \ {w} : wk'[v] = wk[v]
      BY <1>2, <3>1, <3>2
    <3> QED
      BY <1>0, <1>1, <2>1, <3>2, <3>3, StepKept
  <2> QED
    BY <2>2, <2>3
<1>4. CASE PostSend(w)
  <2>1. /\ UNCHANGED <<gPendingSendList, gOutstandingSends>>
        /\ \/ Goto(w, "sendCount")
           \/ Become(w, [wk[w] EXCEPT !.pc = "tail", !.p = NULL])
    BY <1>4 DEF PostSend
  <2>2. CASE Goto(w, "sendCount")
    BY <1>0, <1>1, <2>1, <2>2, GotoKept DEF SendPcs, Pcs
  <2>3. CASE Become(w, [wk[w] EXCEPT !.pc = "tail", !.p = NULL])
    <3>1. /\ wk' \in [Workers -> WorkerState] /\ wk'[w].pc = "tail"
          /\ \A v \in Workers \ {w} : wk'[v] = wk[v]
      BY <1>2, <2>3
    <3> QED
      BY <1>0, <1>1, <2>1, <3>1, StepKept
  <2> QED
    BY <2>1, <2>2, <2>3
<1>5. CASE CountSend(w)
  <2>1. /\ UNCHANGED <<gPendingSendList, gOutstandingSends>>
        /\ Goto(w, "gCount")
    BY <1>5 DEF CountSend
  <2> QED
    BY <1>0, <1>1, <2>1, GotoKept DEF SendPcs, Pcs
<1>6. CASE IncrementSends(w)
  <2>1. /\ UNCHANGED gPendingSendList
        /\ gOutstandingSends' = gOutstandingSends + 1
        /\ Become(w, [wk[w] EXCEPT !.pc = "process", !.p = NULL])
    BY <1>6 DEF IncrementSends
  <2>2. /\ wk' \in [Workers -> WorkerState] /\ wk'[w].pc = "process"
        /\ \A v \in Workers \ {w} : wk'[v] = wk[v]
    BY <1>2, <2>1
  <2>3. wk'[w].pc \notin SendPcs
    BY <2>2 DEF SendPcs
  <2> QED
    BY <1>0, <1>1, <2>1, <2>2, <2>3, StepKept
<1> QED
  BY <1>3, <1>4, <1>5, <1>6

\* The end of HandleIo, and a use of a freed SOCKET_OBJ.
LEMMA TailKept ==
  ASSUME BoundInv, NEW w \in Workers,
         TestTail(w) \/ CloseSocket(w) \/ FreeSocketObj(w) \/ UseFreed(w)
  PROVE  BoundInv'
<1>0. Shape /\ gOutstandingSends \in Int /\ gPendingSendList \in Seq(Conns)
      /\ gOutstandingSends <= gOutstandingSends
  BY DEF BoundInv, Shape
<1>1. CASE UseFreed(w)
  <2>1. UNCHANGED <<wk, gPendingSendList, gOutstandingSends>>
    BY <1>1 DEF UseFreed
  <2> QED
    BY <2>1 DEF BoundInv, Shape, SendsBounded, Sending
<1>2. CASE TestTail(w) \/ CloseSocket(w) \/ FreeSocketObj(w)
  <2>1. UNCHANGED <<gPendingSendList, gOutstandingSends>>
    BY <1>2 DEF TestTail, TailTest, CloseSocket, FreeSocketObj
  <2>2. \E l \in {"get", "tailRecv", "tailFlag", "close", "free", "freeBuf"} :
        Goto(w, l)
    BY <1>2 DEF TestTail, TailTest, CloseSocket, FreeSocketObj
  <2> QED
    BY <1>0, <2>1, <2>2, GotoKept DEF SendPcs, Pcs
<1> QED
  BY <1>1, <1>2

\* Every step of the server, its clients and the kernel keeps the bound.
LEMMA NextBoundInv == BoundInv /\ [Next]_vars => BoundInv'
<1> SUFFICES ASSUME BoundInv, [Next]_vars PROVE BoundInv'
  OBVIOUS
<1>1. CASE UNCHANGED <<wk, gPendingSendList, gOutstandingSends>>
  BY <1>1 DEF BoundInv, Shape, SendsBounded, Sending
<1>2. CASE Client \/ Kernel
  <2>1. UNCHANGED <<wk, gPendingSendList, gOutstandingSends>>
    BY <1>2 DEF Client, Kernel, ClientConnects, ClientEnds, SendCompletes,
                RecvCompletes
  <2> QED
    BY <1>1, <2>1
<1>3. ASSUME NEW w \in Workers, Work(w) PROVE BoundInv'
  BY <1>3, HandleKept, WriteKept, TestSendsBound, ProcessKept, TailKept DEF Work
<1>4. CASE UNCHANGED vars
  BY <1>1, <1>4 DEF vars
<1> QED
  BY <1>2, <1>3, <1>4 DEF Next

\* The sends outstanding on all connections (gOutstandingSends) exceed
\* gMaxSends by less than the number of workers, for any number of workers
\* and connections and whatever the calls return.
THEOREM SendsStayBounded == Spec => []SendsBounded
<1>1. BoundInv => SendsBounded
  BY DEF BoundInv
<1> QED
  BY <1>1, InitBoundInv, NextBoundInv, PTL DEF Spec

-----------------------------------------------------------------------------
(* The exact counts and the end of a connection.  The buffer of a          *)
(* connection is in the hand of one worker while it is "mine", and in      *)
(* gPendingSendList once while it is "pending"; with the lock this makes   *)
(* each count what is posted and not yet handled, less what is posted and  *)
(* not yet counted.                                                        *)

HoldPcs == Packets \cup {"enqueue", "closing", "gDecrement", "recv"}
FreePcs == {"lastOp", "errSend", "errRecv", "errFree", "freeBuf", "close",
            "free"}

\* The local variables of a worker fit its place.
WorkerOK(r) ==
  /\ (r.pc \in HoldPcs \cup FreePcs \cup {"recvCount", "tailRecv", "tailFlag"})
       => r.c # NULL
  /\ r.cleanup => r.c # NULL
  /\ r.p # NULL <=> r.pc \in {"post", "sendCount", "gCount"}

ShapeInv == \A w \in Workers : WorkerOK(wk[w])

\* The connection whose buffer a worker has in its hand; the one it has locked.
Held(r) == IF r.pc \in HoldPcs THEN r.c ELSE IF r.pc = "post" THEN r.p ELSE NULL
Locked(r) == IF r.pc = "recvCount" THEN r.c
             ELSE IF r.pc \in {"sendCount", "gCount"} THEN r.p ELSE NULL

\* A buffer in the hand of a worker is "mine" and in the hand of no other.
Own(b, k) ==
  \A w \in Workers : Held(k[w]) # NULL =>
    /\ b[Held(k[w])] = "mine"
    /\ \A v \in Workers \ {w} : Held(k[v]) # Held(k[w])

\* gPendingSendList holds buffers that are "pending", each once.
Queued(b, q) ==
  /\ \A i \in 1..Len(q) : b[q[i]] = "pending"
  /\ \A i, j \in 1..Len(q) : q[i] = q[j] => i = j

LockInv ==
  \A w \in Workers : Locked(wk[w]) # NULL => SockCritSec[Locked(wk[w])] = w

One(b) == IF b THEN 1 ELSE 0

\* An operation of c is posted, queued (bufs) or in the hand of a worker (pcs).
Busy(b, k, c, bufs, pcs) ==
  b[c] \in bufs \/ \E w \in Workers : k[w].c = c /\ k[w].pc \in pcs

\* A worker has posted an operation of c and has not counted it yet.
Lag(k, c, l) == \E w \in Workers : k[w].pc = l /\ Locked(k[w]) = c

Counted(cnt, b, k, bufs, pcs, l) ==
  \A c \in Conns : cnt[c] = One(Busy(b, k, c, bufs, pcs)) - One(Lag(k, c, l))

RecvBufs == {"recv", "data", "zero", "recvErr"}
RecvPcs == {"data", "zero", "recvErr"}
SendBufs == {"send", "sent", "sendErr"}
SentPcs == {"sent", "sendErr"}

RecvInv == Counted(OutstandingRecv, buf, wk, RecvBufs, RecvPcs, "recvCount")
SendInv == Counted(OutstandingSend, buf, wk, SendBufs, SentPcs, "sendCount")

Posted == {c \in Conns : Outstanding(c)}
Uncounted == {w \in Workers : wk[w].pc \in {"sendCount", "gCount"}}

SendsInv ==
  /\ IsFiniteSet(Posted)
  /\ gOutstandingSends + Cardinality(Uncounted) = Cardinality(Posted) + leaked

\* The connection that a worker may free, that is closing or that is freed has
\* no operation and never gets one.
FreeInv ==
  /\ \A w \in Workers :
       wk[w].pc \in FreePcs \/ wk[w].cleanup => buf[wk[w].c] \in Over
  /\ \A c \in Conns : bClosing[c] \/ freed[c] => buf[c] \in Over

\* A worker at "freeBuf" does not use the SOCKET_OBJ any more.
Uses(r, c) == r.pc # "freeBuf" /\ c \in {r.c, r.p}
Final(r, closing) ==
  /\ r.c # NULL
  /\ r.pc \in HoldPcs \cup FreePcs \/ r.cleanup \/ closing[r.c]

\* Unless two workers were busy with one connection: nobody uses a freed
\* connection, and the worker that may free one is alone with it.
AloneInv ==
  ~overlap =>
    /\ ~misuse
    /\ \A c \in Conns : freed[c] => \A w \in Workers : ~Uses(wk[w], c)
    /\ \A w \in Workers : Final(wk[w], bClosing) =>
         \A v \in Workers \ {w} : ~Uses(wk[v], wk[w].c)

IInv ==
  /\ TypeOK /\ ShapeInv
  /\ Own(buf, wk) /\ Queued(buf, gPendingSendList) /\ LockInv
  /\ RecvInv /\ SendInv /\ SendsInv
  /\ FreeInv /\ AloneInv

BufStates == Packets \cup {"accept", "send", "recv", "pending", "mine", "done",
                           "free", "lost"}

\* NULL is neither a worker nor a connection.
LEMMA Nulls == NULL \notin Conns /\ NULL \notin Workers
BY ConstantsAssumption

\* The places of TypeOK are the ones named here.
LEMMA Types ==
  TypeOK <=>
    /\ bClosing \in [Conns -> BOOLEAN]
    /\ OutstandingRecv \in [Conns -> -1..1]
    /\ OutstandingSend \in [Conns -> -1..1]
    /\ SockCritSec \in [Conns -> Workers \cup {NULL}]
    /\ open \in [Conns -> BOOLEAN] /\ freed \in [Conns -> BOOLEAN]
    /\ buf \in [Conns -> BufStates]
    /\ gPendingSendList \in Seq(Conns) /\ gOutstandingSends \in Int
    /\ peer \in [Conns -> {"none", "open", "fin", "reset"}]
    /\ chunks \in [Conns -> 0..(MaxData + 1)]
    /\ wk \in [Workers -> WorkerState]
    /\ leaked \in Nat
    /\ failed \in BOOLEAN /\ overlap \in BOOLEAN /\ misuse \in BOOLEAN
<1>1. Pcs = Packets \cup {"get", "enqueue", "closing", "lastOp",
                          "gDecrement", "recv", "recvCount", "errSend",
                          "errRecv", "errFree", "freeBuf", "process",
                          "dequeue", "post", "sendCount", "gCount", "tail",
                          "tailRecv", "tailFlag", "close", "free"}
  BY DEF Pcs, SendPcs, Packets
<1> QED
  BY <1>1, Zenon DEF TypeOK, WorkerState, BufStates

\* The same in the next state.
LEMMA TypesPrime ==
  ASSUME bClosing' \in [Conns -> BOOLEAN],
         OutstandingRecv' \in [Conns -> -1..1],
         OutstandingSend' \in [Conns -> -1..1],
         SockCritSec' \in [Conns -> Workers \cup {NULL}],
         open' \in [Conns -> BOOLEAN], freed' \in [Conns -> BOOLEAN],
         buf' \in [Conns -> BufStates],
         gPendingSendList' \in Seq(Conns), gOutstandingSends' \in Int,
         peer' \in [Conns -> {"none", "open", "fin", "reset"}],
         chunks' \in [Conns -> 0..(MaxData + 1)],
         wk' \in [Workers -> WorkerState],
         leaked' \in Nat,
         failed' \in BOOLEAN, overlap' \in BOOLEAN, misuse' \in BOOLEAN
  PROVE  TypeOK'
<1>1. Pcs = Packets \cup {"get", "enqueue", "closing", "lastOp",
                          "gDecrement", "recv", "recvCount", "errSend",
                          "errRecv", "errFree", "freeBuf", "process",
                          "dequeue", "post", "sendCount", "gCount", "tail",
                          "tailRecv", "tailFlag", "close", "free"}
  BY DEF Pcs, SendPcs, Packets
<1> QED
  BY <1>1, Zenon DEF TypeOK, WorkerState, BufStates

-----------------------------------------------------------------------------
(* What a step of worker w does to the workers and to the buffers.         *)

\* Worker w gets these local variables; the others keep theirs.
Moves(w, l, c, p, cl) ==
  /\ wk' \in [Workers -> WorkerState]
  /\ \A v \in Workers \ {w} : wk'[v] = wk[v]
  /\ wk'[w].pc = l /\ wk'[w].c = c /\ wk'[w].p = p /\ wk'[w].cleanup = cl

\* Become, with the fields of the new record.
LEMMA BecomeMoves ==
  ASSUME TypeOK, NEW w \in Workers, NEW r \in WorkerState, Become(w, r)
  PROVE  Moves(w, r.pc, r.c, r.p, r.cleanup)
<1>1. wk \in [Workers -> WorkerState] /\ wk' = [wk EXCEPT ![w] = r]
  BY Types DEF Become
<1> QED
  BY <1>1 DEF Moves

\* Goto changes the place and, at the end of HandleIo, forgets the rest.
LEMMA GotoMoves ==
  ASSUME TypeOK, NEW w \in Workers, NEW l \in Pcs, Goto(w, l)
  PROVE  IF l = "get" THEN Moves(w, "get", NULL, NULL, FALSE)
         ELSE Moves(w, l, wk[w].c, wk[w].p, wk[w].cleanup)
<1>1. wk \in [Workers -> WorkerState]
  BY Types
<1>2. CASE l = "get"
  <2>1. Become(w, Idle)
    BY <1>2 DEF Goto
  <2>2. Idle \in WorkerState /\ Idle.pc = "get" /\ Idle.c = NULL
        /\ Idle.p = NULL /\ Idle.cleanup = FALSE
    BY DEF Idle, WorkerState, Pcs
  <2>3. Moves(w, Idle.pc, Idle.c, Idle.p, Idle.cleanup)
    BY <2>1, <2>2, BecomeMoves
  <2> QED
    BY <1>2, <2>2, <2>3
<1>3. CASE l # "get"
  <2>1. PICK r \in WorkerState :
          /\ Become(w, r)
          /\ r.pc = l /\ r.c = wk[w].c /\ r.p = wk[w].p /\ r.cleanup = wk[w].cleanup
    <3> DEFINE r == [wk[w] EXCEPT !.pc = l]
    <3>1. r \in WorkerState /\ r.pc = l /\ r.c = wk[w].c /\ r.p = wk[w].p
          /\ r.cleanup = wk[w].cleanup
      BY <1>1 DEF WorkerState
    <3>2. Become(w, r)
      BY <1>3 DEF Goto
    <3> HIDE DEF r
    <3> QED
      BY <3>1, <3>2
  <2> QED
    BY <1>3, <2>1, BecomeMoves
<1> QED
  BY <1>2, <1>3

\* Only the buffer of x changes, and it is the one w has before or after.
Shift(w, x) ==
  /\ \A v \in Workers \ {w} : wk'[v] = wk[v]
  /\ \A c \in Conns \ {x} : buf'[c] = buf[c]
  /\ Held(wk[w]) \in {x, NULL} /\ Held(wk'[w]) \in {x, NULL}

\* The hand of w stays as it is, ...
Stays(w) ==
  /\ buf' = buf /\ gPendingSendList' = gPendingSendList
  /\ \A v \in Workers \ {w} : wk'[v] = wk[v]
  /\ Held(wk'[w]) = Held(wk[w])

\* ... w gives the buffer of x away, ...
Gives(w, x, b) ==
  /\ x \in Conns /\ Held(wk[w]) = x /\ Held(wk'[w]) = NULL
  /\ buf' = [buf EXCEPT ![x] = b]
  /\ \A v \in Workers \ {w} : wk'[v] = wk[v]
  /\ \/ b = "pending" /\ gPendingSendList' = Append(gPendingSendList, x)
     \/ b \notin {"pending", "mine"} /\ gPendingSendList' = gPendingSendList

\* ... or w takes it, from the port or from gPendingSendList.
Takes(w, x) ==
  /\ x \in Conns /\ Held(wk[w]) = NULL /\ Held(wk'[w]) = x
  /\ buf' = [buf EXCEPT ![x] = "mine"]
  /\ \A v \in Workers \ {w} : wk'[v] = wk[v]
  /\ \/ buf[x] \in Packets /\ gPendingSendList' = gPendingSendList
     \/ /\ gPendingSendList # <<>> /\ x = Head(gPendingSendList)
        /\ gPendingSendList' = Tail(gPendingSendList)

\* A worker frees a buffer that is over.
Frees(w, x) ==
  /\ x \in Conns /\ Held(wk[w]) = NULL /\ Held(wk'[w]) = NULL
  /\ buf[x] \in Over /\ buf' = [buf EXCEPT ![x] = "free"]
  /\ \A v \in Workers \ {w} : wk'[v] = wk[v]
  /\ gPendingSendList' = gPendingSendList

Handles(w) ==
  \/ Stays(w)
  \/ \E x \in Conns : Frees(w, x)
  \/ \E x \in Conns, b \in BufStates : Gives(w, x, b)
  \/ \E x \in Conns : Takes(w, x)

\* What a worker has in its hand is a connection or nothing.
LEMMA HeldType ==
  ASSUME NEW r \in WorkerState
  PROVE  Held(r) \in Conns \cup {NULL} /\ Locked(r) \in Conns \cup {NULL}
BY DEF WorkerState, Held, Locked

\* The buffer keeps one owner.
LEMMA OwnKept ==
  ASSUME TypeOK, Own(buf, wk), Queued(buf, gPendingSendList),
         NEW w \in Workers, wk' \in [Workers -> WorkerState],
         Handles(w)
  PROVE  Own(buf', wk')
<1>0. /\ buf \in [Conns -> BufStates] /\ gPendingSendList \in Seq(Conns)
      /\ NULL \notin Conns /\ wk \in [Workers -> WorkerState]
  BY Types, Nulls
<1>1. \A v \in Workers : /\ Held(wk[v]) \in Conns \cup {NULL}
                         /\ Held(wk'[v]) \in Conns \cup {NULL}
  BY <1>0, HeldType
<1>2. CASE Stays(w)
  BY <1>0, <1>1, <1>2 DEF Stays, Own
<1>3. ASSUME NEW x \in Conns, NEW b \in BufStates, Gives(w, x, b)
      PROVE  Own(buf', wk')
  BY <1>0, <1>1, <1>3 DEF Gives, Own
<1>4. ASSUME NEW x \in Conns, Takes(w, x) PROVE Own(buf', wk')
  <2>1. buf[x] # "mine"
    BY <1>0, <1>4 DEF Takes, Packets, Queued
  <2> QED
    BY <1>0, <1>1, <1>4, <2>1 DEF Takes, Own
<1>5. ASSUME NEW x \in Conns, Frees(w, x) PROVE Own(buf', wk')
  <2>1. buf[x] # "mine" /\ buf' = [buf EXCEPT ![x] = "free"]
    BY <1>5 DEF Frees, Over
  <2> QED
    BY <1>0, <1>1, <1>5, <2>1 DEF Frees, Own
<1> QED
  BY <1>2, <1>3, <1>4, <1>5 DEF Handles

\* gPendingSendList keeps the pending buffers, each once.
LEMMA QueuedKept ==
  ASSUME TypeOK, Own(buf, wk), Queued(buf, gPendingSendList),
         NEW w \in Workers, wk' \in [Workers -> WorkerState],
         Handles(w)
  PROVE  Queued(buf', gPendingSendList')
<1>0. /\ buf \in [Conns -> BufStates] /\ gPendingSendList \in Seq(Conns)
      /\ NULL \notin Conns /\ wk \in [Workers -> WorkerState]
  BY Types, Nulls
<1>q. PICK q \in Seq(Conns) : q = gPendingSendList
  BY <1>0
<1>2. CASE Stays(w)
  BY <1>2 DEF Stays
<1>3. ASSUME NEW x \in Conns, NEW b \in BufStates, Gives(w, x, b)
      PROVE  Queued(buf', gPendingSendList')
  <2>1. buf[x] = "mine" /\ \A i \in 1..Len(q) : q[i] \in Conns /\ q[i] # x
    BY <1>0, <1>q, <1>3 DEF Gives, Own, Queued
  <2>2. buf' = [buf EXCEPT ![x] = b]
    BY <1>3 DEF Gives
  <2>3. \A i \in 1..Len(q) : buf'[q[i]] = "pending"
    BY <1>0, <1>q, <2>1, <2>2 DEF Queued
  <2>4. CASE gPendingSendList' = gPendingSendList
    BY <1>q, <2>3, <2>4 DEF Queued
  <2>5. CASE b = "pending" /\ gPendingSendList' = Append(gPendingSendList, x)
    <3>0. Append(q, x) \in Seq(Conns)
      OBVIOUS
    <3>1. PICK t \in Seq(Conns) : t = Append(q, x)
      BY <3>0
    <3>2. /\ Len(t) = Len(q) + 1 /\ Len(q) \in Nat /\ t[Len(q) + 1] = x
          /\ \A i \in 1..Len(q) : t[i] = q[i]
      BY <3>1
    <3>3. buf'[x] = "pending"
      BY <1>0, <2>2, <2>5
    <3>4. \A i \in 1..Len(t) : i \in 1..Len(q) \/ i = Len(q) + 1
      BY <3>2
    <3>5. Queued(buf', t)
      BY <1>q, <2>1, <2>3, <3>2, <3>3, <3>4 DEF Queued
    <3> QED
      BY <1>q, <2>5, <3>1, <3>5
  <2> QED
    BY <1>3, <2>4, <2>5 DEF Gives
<1>4. ASSUME NEW x \in Conns, Takes(w, x)
      PROVE  Queued(buf', gPendingSendList')
  <2>1. buf' = [buf EXCEPT ![x] = "mine"]
    BY <1>4 DEF Takes
  <2>2. CASE buf[x] \in Packets /\ gPendingSendList' = gPendingSendList
    <3>1. \A i \in 1..Len(q) : q[i] \in Conns /\ q[i] # x
      BY <1>0, <1>q, <2>2 DEF Queued, Packets
    <3> QED
      BY <1>0, <1>q, <2>1, <2>2, <3>1 DEF Queued
  <2>3. CASE /\ gPendingSendList # <<>> /\ x = Head(gPendingSendList)
             /\ gPendingSendList' = Tail(gPendingSendList)
    <3>1. PICK t \in Seq(Conns) : t = Tail(q)
      BY SMTT(30), <1>q, <2>3
    <3>2. /\ Len(q) \in Nat /\ Len(q) # 0 /\ Len(t) = Len(q) - 1 /\ x = q[1]
          /\ \A i \in 1..Len(t) : t[i] = q[i + 1]
      BY <1>q, <2>3, <3>1
    <3>3. \A i \in 1..Len(t) : i + 1 \in 1..Len(q) /\ i + 1 # 1 /\ 1 \in 1..Len(q)
      BY <3>2
    <3>4. \A i \in 1..Len(t) : t[i] # x /\ t[i] \in Conns /\ buf[t[i]] = "pending"
      BY SMTT(30), <1>q, <3>2, <3>3 DEF Queued
    <3>5. \A i, j \in 1..Len(t) : t[i] = t[j] => i = j
      <4>1. SUFFICES ASSUME NEW i \in 1..Len(t), NEW j \in 1..Len(t), t[i] = t[j]
                     PROVE  i = j
        OBVIOUS
      <4>2. i + 1 = j + 1
        BY <1>q, <3>2, <3>3, <4>1 DEF Queued
      <4> QED
        BY <3>2, <4>2
    <3>6. Queued(buf', t)
      BY <1>0, <2>1, <3>4, <3>5 DEF Queued
    <3> QED
      BY <1>q, <2>3, <3>1, <3>6
  <2> QED
    BY <1>4, <2>2, <2>3 DEF Takes
<1>5. ASSUME NEW x \in Conns, Frees(w, x)
      PROVE  Queued(buf', gPendingSendList')
  <2>1. \A i \in 1..Len(q) : q[i] \in Conns /\ q[i] # x
    BY <1>0, <1>q, <1>5 DEF Frees, Queued, Over
  <2>2. buf' = [buf EXCEPT ![x] = "free"] /\ gPendingSendList' = q
    BY <1>q, <1>5 DEF Frees
  <2>3. \A i \in 1..Len(q) : buf'[q[i]] = "pending"
    BY <1>0, <1>q, <2>1, <2>2 DEF Queued
  <2> QED
    BY <1>q, <2>2, <2>3 DEF Queued
<1> QED
  BY <1>2, <1>3, <1>4, <1>5 DEF Handles

-----------------------------------------------------------------------------
(* The counts of a connection.                                             *)

\* Whether an operation of x is on its way can be read off its buffer, or off
\* the worker that has it.
LEMMA BusyHere ==
  ASSUME NEW b, NEW k \in [Workers -> WorkerState], NEW x \in Conns,
         NEW bufs, NEW pcs \in SUBSET HoldPcs, "mine" \notin bufs,
         Own(b, k)
  PROVE  /\ b[x] # "mine" => (Busy(b, k, x, bufs, pcs) <=> b[x] \in bufs)
         /\ \A w \in Workers : Held(k[w]) = x =>
              (Busy(b, k, x, bufs, pcs) <=> k[w].pc \in pcs)
<1>1. \A w \in Workers : k[w].pc \in pcs => Held(k[w]) = k[w].c
  BY DEF Held
<1>2. NULL \notin Conns
  BY Nulls
<1>3. ASSUME b[x] # "mine" PROVE Busy(b, k, x, bufs, pcs) <=> b[x] \in bufs
  <2>1. \A w \in Workers : Held(k[w]) # x
    BY <1>2, <1>3 DEF Own
  <2> QED
    BY <1>1, <2>1 DEF Busy
<1>4. ASSUME NEW w \in Workers, Held(k[w]) = x
      PROVE  Busy(b, k, x, bufs, pcs) <=> k[w].pc \in pcs
  <2>1. b[x] = "mine" /\ \A v \in Workers \ {w} : Held(k[v]) # x
    BY <1>2, <1>4 DEF Own
  <2>2. k[w].pc \in pcs => k[w].c = x
    BY <1>1, <1>4
  <2> QED
    BY <1>1, <2>1, <2>2 DEF Busy
<1> QED
  BY <1>3, <1>4

\* The operations of the other connections stay.
LEMMA BusyElsewhere ==
  ASSUME NEW w \in Workers, NEW x, Shift(w, x),
         NEW bufs, NEW pcs \in SUBSET HoldPcs, NEW c \in Conns, c # x
  PROVE  Busy(buf', wk', c, bufs, pcs) <=> Busy(buf, wk, c, bufs, pcs)
<1>1. c # NULL
  BY Nulls
<1>2. /\ wk[w].pc \in pcs => Held(wk[w]) = wk[w].c
      /\ wk'[w].pc \in pcs => Held(wk'[w]) = wk'[w].c
  BY DEF Held
<1>3. /\ ~(wk[w].c = c /\ wk[w].pc \in pcs)
      /\ ~(wk'[w].c = c /\ wk'[w].pc \in pcs)
  BY <1>1, <1>2 DEF Shift
<1> QED
  BY <1>3 DEF Busy, Shift

\* A worker that does not stand at l before or after its step.
LEMMA LagKept ==
  ASSUME NEW w \in Workers, NEW l,
         \A v \in Workers \ {w} : wk'[v] = wk[v],
         wk[w].pc # l, wk'[w].pc # l
  PROVE  \A c : Lag(wk', c, l) <=> Lag(wk, c, l)
BY DEF Lag

\* Worker w leaves or reaches l with x.
LEMMA LagMoves ==
  ASSUME NEW w \in Workers, NEW l,
         \A v \in Workers \ {w} : wk'[v] = wk[v]
  PROVE  \A c : /\ c # Locked(wk[w]) /\ wk'[w].pc # l
                      => (Lag(wk', c, l) <=> Lag(wk, c, l))
                /\ c # Locked(wk'[w]) /\ wk[w].pc # l
                      => (Lag(wk', c, l) <=> Lag(wk, c, l))
BY DEF Lag

\* Whoever has posted without counting has the lock.
LEMMA LagLocked ==
  ASSUME NEW k \in [Workers -> WorkerState], NEW lock, NEW c \in Conns, NEW l,
         \A w \in Workers : Locked(k[w]) # NULL => lock[Locked(k[w])] = w,
         Lag(k, c, l)
  PROVE  \E w \in Workers : lock[c] = w /\ k[w].pc = l /\ Locked(k[w]) = c
BY Nulls DEF Lag

\* A step that does not post or count: the count of x follows its operation.
LEMMA CountedKept ==
  ASSUME NEW cnt, NEW cnt2, NEW bufs, NEW pcs \in SUBSET HoldPcs, NEW l,
         NEW w \in Workers, NEW x, Shift(w, x),
         Counted(cnt, buf, wk, bufs, pcs, l),
         wk[w].pc # l, wk'[w].pc # l,
         \A c \in Conns \ {x} : cnt2[c] = cnt[c],
         x \in Conns =>
           /\ cnt[x] \in Int
           /\ cnt2[x] = cnt[x] + One(Busy(buf', wk', x, bufs, pcs))
                               - One(Busy(buf, wk, x, bufs, pcs))
  PROVE  Counted(cnt2, buf', wk', bufs, pcs, l)
<1>1. \A c : Lag(wk', c, l) <=> Lag(wk, c, l)
  BY LagKept DEF Shift
<1>2. SUFFICES ASSUME NEW c \in Conns
               PROVE  cnt2[c] = One(Busy(buf', wk', c, bufs, pcs))
                                - One(Lag(wk', c, l))
  BY DEF Counted
<1>3. cnt[c] = One(Busy(buf, wk, c, bufs, pcs)) - One(Lag(wk, c, l))
  BY DEF Counted
<1>4. One(Lag(wk', c, l)) = One(Lag(wk, c, l))
  BY <1>1 DEF One
<1>5. CASE c # x
  <2>1. One(Busy(buf', wk', c, bufs, pcs)) = One(Busy(buf, wk, c, bufs, pcs))
    BY <1>5, BusyElsewhere DEF One
  <2> QED
    BY <1>3, <1>4, <1>5, <2>1
<1>6. CASE c = x
  <2>1. /\ One(Busy(buf', wk', c, bufs, pcs)) \in Int
        /\ One(Busy(buf, wk, c, bufs, pcs)) \in Int /\ One(Lag(wk, c, l)) \in Int
    BY DEF One
  <2> HIDE DEF One, Busy, Lag
  <2> QED
    BY <1>3, <1>4, <1>6, <2>1
<1> QED
  BY <1>5, <1>6

\* Worker w posts an operation of x: it is on its way and not yet counted.
LEMMA CountedPost ==
  ASSUME NEW cnt, NEW bufs, NEW pcs \in SUBSET HoldPcs, NEW l,
         NEW w \in Workers, NEW x \in Conns, Shift(w, x),
         Counted(cnt, buf, wk, bufs, pcs, l),
         wk[w].pc # l, wk'[w].pc = l, Locked(wk'[w]) = x,
         ~Lag(wk, x, l),
         ~Busy(buf, wk, x, bufs, pcs), Busy(buf', wk', x, bufs, pcs)
  PROVE  Counted(cnt, buf', wk', bufs, pcs, l)
<1>1. SUFFICES ASSUME NEW c \in Conns
               PROVE  cnt[c] = One(Busy(buf', wk', c, bufs, pcs))
                               - One(Lag(wk', c, l))
  BY DEF Counted
<1>2. cnt[c] = One(Busy(buf, wk, c, bufs, pcs)) - One(Lag(wk, c, l))
  BY DEF Counted
<1>3. CASE c # x
  <2>1. Busy(buf', wk', c, bufs, pcs) <=> Busy(buf, wk, c, bufs, pcs)
    BY <1>3, BusyElsewhere
  <2>2. Lag(wk', c, l) <=> Lag(wk, c, l)
    BY <1>3, LagMoves DEF Shift
  <2> QED
    BY <1>2, <2>1, <2>2 DEF One
<1>4. CASE c = x
  <2>1. Lag(wk', x, l)
    BY DEF Lag
  <2> QED
    BY <1>2, <1>4, <2>1 DEF One
<1> QED
  BY <1>3, <1>4

\* Worker w counts the operation of x it has posted.
LEMMA CountedCount ==
  ASSUME NEW cnt, NEW cnt2, NEW bufs, NEW pcs \in SUBSET HoldPcs, NEW l,
         NEW w \in Workers, NEW x \in Conns, Shift(w, NULL),
         Counted(cnt, buf, wk, bufs, pcs, l),
         wk[w].pc = l, wk'[w].pc # l, Locked(wk[w]) = x,
         \A v \in Workers \ {w} : Locked(wk[v]) # x,
         \A c \in Conns \ {x} : cnt2[c] = cnt[c],
         cnt2[x] = cnt[x] + 1
  PROVE  Counted(cnt2, buf', wk', bufs, pcs, l)
<1>1. SUFFICES ASSUME NEW c \in Conns
               PROVE  cnt2[c] = One(Busy(buf', wk', c, bufs, pcs))
                                - One(Lag(wk', c, l))
  BY DEF Counted
<1>2. cnt[c] = One(Busy(buf, wk, c, bufs, pcs)) - One(Lag(wk, c, l))
  BY DEF Counted
<1>3. Busy(buf', wk', c, bufs, pcs) <=> Busy(buf, wk, c, bufs, pcs)
  BY Nulls, BusyElsewhere
<1>4. CASE c # x
  <2>1. Lag(wk', c, l) <=> Lag(wk, c, l)
    BY <1>4, LagMoves DEF Shift
  <2> QED
    BY <1>2, <1>3, <1>4, <2>1 DEF One
<1>5. CASE c = x
  <2>1. Lag(wk, x, l) /\ ~Lag(wk', x, l)
    BY DEF Lag, Shift
  <2> QED
    BY <1>2, <1>3, <1>5, <2>1 DEF One
<1> QED
  BY <1>4, <1>5

\* The counts stay in their range.
LEMMA CountedRange ==
  ASSUME NEW cnt, NEW b, NEW k, NEW bufs, NEW pcs, NEW l,
         Counted(cnt, b, k, bufs, pcs, l)
  PROVE  \A c \in Conns : cnt[c] \in -1..1
BY DEF Counted, One

-----------------------------------------------------------------------------
(* The sends of all connections.                                           *)

\* Outstanding as Busy.
LEMMA OutstandingBusy ==
  \A c : Outstanding(c) <=>
           Busy(buf, wk, c, SendBufs, {"sent", "sendErr", "gDecrement"})
BY DEF Outstanding, Busy, SendBufs

\* The same in the next state.
LEMMA OutstandingBusyPrime ==
  \A c : Outstanding(c)' <=>
           Busy(buf', wk', c, SendBufs, {"sent", "sendErr", "gDecrement"})
BY DEF Outstanding, Busy, SendBufs

OutPcs == {"sent", "sendErr", "gDecrement"}

\* The posted sends change by x.
LEMMA PostedMoves ==
  ASSUME IsFiniteSet(Posted), NEW w \in Workers, NEW x \in Conns \cup {NULL},
         Shift(w, x)
  PROVE  /\ IsFiniteSet(Posted') /\ Cardinality(Posted) \in Nat
         /\ Cardinality(Posted') \in Nat
         /\ (x \in Conns => (Busy(buf, wk, x, SendBufs, OutPcs)
                               <=> Busy(buf', wk', x, SendBufs, OutPcs)))
              => Cardinality(Posted') = Cardinality(Posted)
         /\ (/\ x \in Conns /\ ~Busy(buf, wk, x, SendBufs, OutPcs)
             /\ Busy(buf', wk', x, SendBufs, OutPcs))
              => Cardinality(Posted') = Cardinality(Posted) + 1
         /\ (/\ x \in Conns /\ Busy(buf, wk, x, SendBufs, OutPcs)
             /\ ~Busy(buf', wk', x, SendBufs, OutPcs))
              => Cardinality(Posted') = Cardinality(Posted) - 1
<1>1. Posted = {c \in Conns : Busy(buf, wk, c, SendBufs, OutPcs)}
  BY OutstandingBusy DEF Posted, OutPcs
<1>2. Posted' = {c \in Conns : Busy(buf', wk', c, SendBufs, OutPcs)}
  BY OutstandingBusyPrime DEF Posted, OutPcs
<1>3. OutPcs \in SUBSET HoldPcs
  BY DEF OutPcs, HoldPcs, Packets
<1>4. \A c \in Conns \ {x} : c \in Posted' <=> c \in Posted
  BY <1>1, <1>2, <1>3, BusyElsewhere
<1>5. Cardinality(Posted) \in Nat
  BY FS_CardinalityType
<1>6. CASE x \in Conns => (x \in Posted <=> x \in Posted')
  <2>1. Posted' = Posted
    BY <1>1, <1>2, <1>4, <1>6
  <2> QED
    BY <1>1, <1>2, <1>5, <1>6, <2>1
<1>7. CASE x \in Conns /\ x \notin Posted /\ x \in Posted'
  <2>1. Posted' = Posted \cup {x}
    BY <1>1, <1>2, <1>4, <1>7
  <2>2. IsFiniteSet(Posted \cup {x})
        /\ Cardinality(Posted \cup {x}) = Cardinality(Posted) + 1
    BY <1>7, FS_AddElement
  <2>3. Cardinality(Posted') \in Nat
    BY <2>1, <2>2, FS_CardinalityType
  <2> QED
    BY <1>1, <1>2, <1>5, <1>7, <2>1, <2>2, <2>3
<1>8. CASE x \in Conns /\ x \in Posted /\ x \notin Posted'
  <2>1. Posted' = Posted \ {x}
    BY <1>1, <1>2, <1>4, <1>8
  <2>2. IsFiniteSet(Posted \ {x})
        /\ Cardinality(Posted \ {x}) = Cardinality(Posted) - 1
    BY <1>8, FS_RemoveElement
  <2>3. Cardinality(Posted') \in Nat
    BY <2>1, <2>2, FS_CardinalityType
  <2> QED
    BY <1>1, <1>2, <1>5, <1>8, <2>1, <2>2, <2>3
<1> QED
  BY <1>6, <1>7, <1>8

\* The workers that have posted a send and not yet added it change by w.
LEMMA UncountedMoves ==
  ASSUME NEW w \in Workers, \A v \in Workers \ {w} : wk'[v] = wk[v]
  PROVE  /\ Cardinality(Uncounted) \in Nat /\ Cardinality(Uncounted') \in Nat
         /\ (wk[w].pc \in {"sendCount", "gCount"}
               <=> wk'[w].pc \in {"sendCount", "gCount"})
              => Cardinality(Uncounted') = Cardinality(Uncounted)
         /\ (/\ wk[w].pc \notin {"sendCount", "gCount"}
             /\ wk'[w].pc \in {"sendCount", "gCount"})
              => Cardinality(Uncounted') = Cardinality(Uncounted) + 1
         /\ (/\ wk[w].pc \in {"sendCount", "gCount"}
             /\ wk'[w].pc \notin {"sendCount", "gCount"})
              => Cardinality(Uncounted') = Cardinality(Uncounted) - 1
<1> DEFINE P == {"sendCount", "gCount"}
<1>1. /\ Uncounted = {v \in Workers : wk[v].pc \in P}
      /\ Uncounted' = {v \in Workers : wk'[v].pc \in P}
  BY DEF Uncounted
<1>2. IsFiniteSet(Uncounted) /\ IsFiniteSet(Uncounted')
  BY <1>1, ConstantsAssumption, FS_Subset
<1>3. Cardinality(Uncounted) \in Nat /\ Cardinality(Uncounted') \in Nat
  BY <1>2, FS_CardinalityType
<1> HIDE DEF P
<1>4. CASE wk[w].pc \in P <=> wk'[w].pc \in P
  <2>1. Uncounted' = Uncounted
    BY <1>1, <1>4
  <2> QED
    BY <1>3, <1>4, <2>1 DEF P
<1>5. CASE wk[w].pc \notin P /\ wk'[w].pc \in P
  <2>1. Uncounted' = Uncounted \cup {w} /\ w \notin Uncounted
    BY <1>1, <1>5
  <2>2. Cardinality(Uncounted \cup {w}) = Cardinality(Uncounted) + 1
    BY <1>2, <2>1, FS_AddElement
  <2> QED
    BY <1>3, <1>5, <2>1, <2>2 DEF P
<1>6. CASE wk[w].pc \in P /\ wk'[w].pc \notin P
  <2>1. Uncounted' = Uncounted \ {w} /\ w \in Uncounted
    BY <1>1, <1>6
  <2>2. Cardinality(Uncounted \ {w}) = Cardinality(Uncounted) - 1
    BY <1>2, <2>1, FS_RemoveElement
  <2> QED
    BY <1>3, <1>6, <2>1, <2>2 DEF P
<1> QED
  BY <1>4, <1>5, <1>6

-----------------------------------------------------------------------------
(* The lock, the end of a connection, and the workers alone with one.      *)

\* The types stay, and a buffer that is over stays so.
LEMMA BufKept ==
  ASSUME TypeOK, Own(buf, wk), Queued(buf, gPendingSendList),
         NEW w \in Workers, wk' \in [Workers -> WorkerState], Handles(w)
  PROVE  /\ buf' \in [Conns -> BufStates] /\ gPendingSendList' \in Seq(Conns)
         /\ \A c \in Conns : buf[c] \in Over => buf'[c] \in Over
<1>0. /\ buf \in [Conns -> BufStates] /\ gPendingSendList \in Seq(Conns)
      /\ NULL \notin Conns /\ "mine" \in BufStates /\ "free" \in BufStates
  BY Types, Nulls DEF BufStates
<1>1. CASE Stays(w)
  BY <1>0, <1>1 DEF Stays
<1>2. ASSUME NEW x \in Conns, NEW b \in BufStates, Gives(w, x, b)
      PROVE  /\ buf' \in [Conns -> BufStates] /\ gPendingSendList' \in Seq(Conns)
             /\ \A c \in Conns : buf[c] \in Over => buf'[c] \in Over
  <2>1. buf[x] = "mine" /\ buf' = [buf EXCEPT ![x] = b]
    BY <1>0, <1>2 DEF Gives, Own
  <2>2. gPendingSendList' \in Seq(Conns)
    <3>1. gPendingSendList' \in {gPendingSendList, Append(gPendingSendList, x)}
      BY <1>2 DEF Gives
    <3> QED
      BY <1>0, <3>1
  <2> QED
    BY <1>0, <2>1, <2>2 DEF Over
<1>3. ASSUME NEW x \in Conns, Takes(w, x)
      PROVE  /\ buf' \in [Conns -> BufStates] /\ gPendingSendList' \in Seq(Conns)
             /\ \A c \in Conns : buf[c] \in Over => buf'[c] \in Over
  <2>1. buf[x] \notin Over /\ buf' = [buf EXCEPT ![x] = "mine"]
    BY <1>0, <1>3 DEF Takes, Queued, Packets, Over
  <2>2. gPendingSendList' \in Seq(Conns)
    BY <1>0, <1>3 DEF Takes
  <2> QED
    BY <1>0, <2>1, <2>2
<1>4. ASSUME NEW x \in Conns, Frees(w, x)
      PROVE  /\ buf' \in [Conns -> BufStates] /\ gPendingSendList' \in Seq(Conns)
             /\ \A c \in Conns : buf[c] \in Over => buf'[c] \in Over
  <2>1. buf' = [buf EXCEPT ![x] = "free"] /\ gPendingSendList' = gPendingSendList
    BY <1>4 DEF Frees
  <2> QED
    BY <1>0, <2>1 DEF Over
<1> QED
  BY <1>1, <1>2, <1>3, <1>4 DEF Handles

\* What each shape of a step means for the buffers of the others.
LEMMA Shifts ==
  ASSUME TypeOK, NEW w \in Workers
  PROVE  /\ Stays(w) => Shift(w, Held(wk[w]))
         /\ \A x \in Conns, b \in BufStates : Gives(w, x, b) => Shift(w, x)
         /\ \A x \in Conns : Takes(w, x) => Shift(w, x)
         /\ \A x \in Conns : Frees(w, x) => Shift(w, x)
<1>1. buf \in [Conns -> BufStates]
  BY Types
<1> QED
  BY <1>1 DEF Stays, Gives, Takes, Frees, Shift

\* The lock is taken, given back, or kept.
LEMMA LockKept ==
  ASSUME TypeOK, LockInv, NEW w \in Workers, wk' \in [Workers -> WorkerState],
         \A v \in Workers \ {w} : wk'[v] = wk[v],
         \/ /\ SockCritSec' = SockCritSec
            /\ Locked(wk'[w]) \in {Locked(wk[w]), NULL}
         \/ \E x \in Conns :
              /\ SockCritSec[x] = NULL /\ SockCritSec' = [SockCritSec EXCEPT ![x] = w]
              /\ Locked(wk'[w]) = x
         \/ \E x \in Conns :
              /\ Locked(wk[w]) = x /\ Locked(wk'[w]) = NULL
              /\ SockCritSec' = [SockCritSec EXCEPT ![x] = NULL]
  PROVE  LockInv'
<1>0. /\ SockCritSec \in [Conns -> Workers \cup {NULL}]
      /\ NULL \notin Conns /\ NULL \notin Workers
      /\ wk \in [Workers -> WorkerState]
  BY Types, Nulls
<1>1. \A v \in Workers : /\ Locked(wk[v]) \in Conns \cup {NULL}
                         /\ Locked(wk'[v]) \in Conns \cup {NULL}
  BY <1>0, HeldType
<1> QED
  BY <1>0, <1>1 DEF LockInv

\* Nobody but w is to end a connection by this step.
LEMMA FreeKept ==
  ASSUME TypeOK, ShapeInv, FreeInv, NEW w \in Workers,
         \A v \in Workers \ {w} : wk'[v] = wk[v],
         \A c \in Conns : buf[c] \in Over => buf'[c] \in Over,
         (wk'[w].pc \in FreePcs \/ wk'[w].cleanup) => buf'[wk'[w].c] \in Over,
         \A c \in Conns : (bClosing'[c] \/ freed'[c]) =>
           bClosing[c] \/ freed[c] \/ buf'[c] \in Over
  PROVE  FreeInv'
<1>1. \A v \in Workers : wk[v].pc \in FreePcs \/ wk[v].cleanup => wk[v].c \in Conns
  <2>1. \A v \in Workers : WorkerOK(wk[v]) /\ wk[v].c \in Conns \cup {NULL}
    BY Types DEF ShapeInv, WorkerState
  <2> QED
    BY <2>1 DEF WorkerOK
<1>2. ASSUME NEW v \in Workers, wk'[v].pc \in FreePcs \/ wk'[v].cleanup
      PROVE  buf'[wk'[v].c] \in Over
  <2>1. CASE v # w
    BY <1>1, <1>2, <2>1 DEF FreeInv
  <2> QED
    BY <1>2, <2>1
<1>3. \A c \in Conns : bClosing'[c] \/ freed'[c] => buf'[c] \in Over
  BY DEF FreeInv
<1> QED
  BY <1>2, <1>3 DEF FreeInv

\* Worker w turns to no other connection and is alone only where it was.
LEMMA AloneKept ==
  ASSUME TypeOK, AloneInv, NEW w \in Workers,
         \A v \in Workers \ {w} : wk'[v] = wk[v],
         wk'[w].c \in {wk[w].c, NULL}, wk'[w].p \in {wk[w].p, NULL},
         Final(wk'[w], bClosing) => Final(wk[w], bClosing),
         wk[w].pc # "freeBuf",
         UNCHANGED <<bClosing, freed, overlap, misuse>>
  PROVE  AloneInv'
<1>0. NULL \notin Conns /\ \A v \in Workers : wk[v].c \in Conns \cup {NULL}
  BY Types, Nulls DEF WorkerState
<1>1. SUFFICES ASSUME ~overlap PROVE
        /\ ~misuse
        /\ \A c \in Conns : freed[c] => \A v \in Workers : ~Uses(wk'[v], c)
        /\ \A v \in Workers : Final(wk'[v], bClosing) =>
             \A u \in Workers \ {v} : ~Uses(wk'[u], wk'[v].c)
  BY DEF AloneInv
<1>2. \A c \in Conns, v \in Workers : Uses(wk'[v], c) => Uses(wk[v], c)
  BY <1>0 DEF Uses
<1>3. ~misuse /\ \A c \in Conns : freed[c] => \A v \in Workers : ~Uses(wk'[v], c)
  BY <1>1, <1>2 DEF AloneInv
<1>4. ASSUME NEW v \in Workers, Final(wk'[v], bClosing), NEW u \in Workers \ {v}
      PROVE  ~Uses(wk'[u], wk'[v].c)
  <2>1. Final(wk[v], bClosing) /\ wk'[v].c = wk[v].c /\ wk[v].c \in Conns
    BY <1>0, <1>4 DEF Final
  <2> QED
    BY <1>1, <1>2, <2>1 DEF AloneInv
<1> QED
  BY <1>3, <1>4

-----------------------------------------------------------------------------
(* Putting a step together.                                                *)

RestOK ==
  /\ OutstandingRecv \in [Conns -> Int] /\ OutstandingSend \in [Conns -> Int]
  /\ bClosing \in [Conns -> BOOLEAN]
  /\ open \in [Conns -> BOOLEAN] /\ freed \in [Conns -> BOOLEAN]
  /\ SockCritSec \in [Conns -> Workers \cup {NULL}]
  /\ gOutstandingSends \in Int /\ leaked \in Nat
  /\ failed \in BOOLEAN /\ overlap \in BOOLEAN /\ misuse \in BOOLEAN

\* The rest of the types, before a step.
LEMMA RestTyped == ASSUME TypeOK PROVE RestOK
<1>1. /\ OutstandingRecv \in [Conns -> -1..1] /\ OutstandingSend \in [Conns -> -1..1]
      /\ bClosing \in [Conns -> BOOLEAN]
      /\ open \in [Conns -> BOOLEAN] /\ freed \in [Conns -> BOOLEAN]
      /\ SockCritSec \in [Conns -> Workers \cup {NULL}]
      /\ gOutstandingSends \in Int /\ leaked \in Nat
      /\ failed \in BOOLEAN /\ overlap \in BOOLEAN /\ misuse \in BOOLEAN
  BY Types
<1>2. OutstandingRecv \in [Conns -> Int] /\ OutstandingSend \in [Conns -> Int]
  BY <1>1
<1> QED
  BY <1>1, <1>2, Zenon DEF RestOK

\* A step of a worker keeps the invariant if it keeps its parts.
LEMMA StepDone ==
  ASSUME IInv, NEW w \in Workers, wk' \in [Workers -> WorkerState],
         \A v \in Workers \ {w} : wk'[v] = wk[v], WorkerOK(wk'[w]),
         Handles(w), UNCHANGED clients, RestOK',
         LockInv', RecvInv', SendInv', SendsInv', FreeInv', AloneInv'
  PROVE  IInv'
<1>0. TypeOK /\ ShapeInv /\ Own(buf, wk) /\ Queued(buf, gPendingSendList)
  BY DEF IInv
<1>1. Own(buf', wk') /\ Queued(buf', gPendingSendList')
  BY <1>0, OwnKept, QueuedKept
<1>2. ShapeInv'
  BY <1>0 DEF ShapeInv
<1>3. buf' \in [Conns -> BufStates] /\ gPendingSendList' \in Seq(Conns)
  BY <1>0, BufKept
<1>4. /\ peer' \in [Conns -> {"none", "open", "fin", "reset"}]
      /\ chunks' \in [Conns -> 0..(MaxData + 1)]
  BY <1>0, Types DEF clients
<1>5. /\ \A c \in Conns : OutstandingRecv'[c] \in -1..1
      /\ \A c \in Conns : OutstandingSend'[c] \in -1..1
  <2>1. /\ Counted(OutstandingRecv', buf', wk', RecvBufs, RecvPcs, "recvCount")
        /\ Counted(OutstandingSend', buf', wk', SendBufs, SentPcs, "sendCount")
    BY DEF RecvInv, SendInv
  <2> QED
    BY <2>1, CountedRange
<1>6. OutstandingRecv' \in [Conns -> -1..1] /\ OutstandingSend' \in [Conns -> -1..1]
  BY <1>5 DEF RestOK
<1>7. TypeOK'
  BY <1>3, <1>4, <1>6, TypesPrime, Zenon DEF RestOK
<1> QED
  BY <1>1, <1>2, <1>7 DEF IInv

\* The pcs at which a worker waits to count what it has posted.
CountPcs == {"recvCount", "sendCount", "gCount"}

\* A step that changes no count and no operation keeps the counts.
LEMMA SameCounts ==
  ASSUME IInv, NEW w \in Workers, NEW x \in Conns \cup {NULL}, Shift(w, x),
         wk[w].pc \notin CountPcs, wk'[w].pc \notin CountPcs,
         UNCHANGED <<OutstandingRecv, OutstandingSend, gOutstandingSends, leaked>>,
         x \in Conns =>
           /\ Busy(buf', wk', x, RecvBufs, RecvPcs)
                <=> Busy(buf, wk, x, RecvBufs, RecvPcs)
           /\ Busy(buf', wk', x, SendBufs, SentPcs)
                <=> Busy(buf, wk, x, SendBufs, SentPcs)
           /\ Busy(buf', wk', x, SendBufs, OutPcs)
                <=> Busy(buf, wk, x, SendBufs, OutPcs)
  PROVE  RecvInv' /\ SendInv' /\ SendsInv'
<1>0. TypeOK /\ RecvInv /\ SendInv /\ SendsInv
  BY DEF IInv
<1>1. /\ RecvPcs \in SUBSET HoldPcs /\ SentPcs \in SUBSET HoldPcs
      /\ wk[w].pc # "recvCount" /\ wk'[w].pc # "recvCount"
      /\ wk[w].pc # "sendCount" /\ wk'[w].pc # "sendCount"
  BY DEF RecvPcs, SentPcs, HoldPcs, Packets, CountPcs
<1>2. /\ OutstandingRecv \in [Conns -> Int] /\ OutstandingSend \in [Conns -> Int]
  BY <1>0, RestTyped DEF RestOK
<1>3. Counted(OutstandingRecv', buf', wk', RecvBufs, RecvPcs, "recvCount")
  <2>1. x \in Conns =>
           /\ OutstandingRecv[x] \in Int
           /\ OutstandingRecv'[x] = OutstandingRecv[x]
                + One(Busy(buf', wk', x, RecvBufs, RecvPcs))
                - One(Busy(buf, wk, x, RecvBufs, RecvPcs))
    BY <1>2 DEF One
  <2>2. Counted(OutstandingRecv, buf, wk, RecvBufs, RecvPcs, "recvCount")
    BY <1>0 DEF RecvInv
  <2> QED
    BY <1>1, <2>1, <2>2, CountedKept
<1>4. Counted(OutstandingSend', buf', wk', SendBufs, SentPcs, "sendCount")
  <2>1. x \in Conns =>
           /\ OutstandingSend[x] \in Int
           /\ OutstandingSend'[x] = OutstandingSend[x]
                + One(Busy(buf', wk', x, SendBufs, SentPcs))
                - One(Busy(buf, wk, x, SendBufs, SentPcs))
    BY <1>2 DEF One
  <2>2. Counted(OutstandingSend, buf, wk, SendBufs, SentPcs, "sendCount")
    BY <1>0 DEF SendInv
  <2> QED
    BY <1>1, <2>1, <2>2, CountedKept
<1>5. SendsInv'
  <2>1. IsFiniteSet(Posted)
    BY <1>0 DEF SendsInv
  <2>2. IsFiniteSet(Posted') /\ Cardinality(Posted') = Cardinality(Posted)
    BY <2>1, PostedMoves
  <2>3. Cardinality(Uncounted') = Cardinality(Uncounted)
    BY UncountedMoves DEF Shift, CountPcs
  <2> QED
    BY <1>0, <2>2, <2>3 DEF SendsInv
<1> QED
  BY <1>3, <1>4, <1>5 DEF RecvInv, SendInv

\* A step that neither posts, handles nor counts a send or a receive.
Plain(w) ==
  /\ wk[w].pc \notin CountPcs /\ wk'[w].pc \notin CountPcs
  /\ \/ Stays(w) /\ Held(wk[w]) = NULL
     \/ \E x \in Conns, b \in {"pending", "free", "lost"} :
          /\ Gives(w, x, b)
          /\ wk[w].pc \in {"accepted", "enqueue", "closing", "recv", "post"}
     \/ \E x \in Conns :
          Takes(w, x) /\ buf[x] \in Packets /\ wk'[w].pc = buf[x]
     \/ \E x \in Conns :
          Takes(w, x) /\ buf[x] = "pending" /\ wk'[w].pc = "post"
     \/ \E x \in Conns : Frees(w, x)
  /\ UNCHANGED <<counts, gOutstandingSends, leaked, clients, SockCritSec>>

\* Such a step keeps the counts and what the buffers say about them.
LEMMA PlainCounts ==
  ASSUME IInv, NEW w \in Workers, wk' \in [Workers -> WorkerState], Plain(w)
  PROVE  Handles(w) /\ RecvInv' /\ SendInv' /\ SendsInv'
<1>0. /\ TypeOK /\ Own(buf, wk) /\ Queued(buf, gPendingSendList)
      /\ wk \in [Workers -> WorkerState] /\ buf \in [Conns -> BufStates]
  BY Types DEF IInv
<1>1. /\ RecvPcs \in SUBSET HoldPcs /\ SentPcs \in SUBSET HoldPcs
      /\ OutPcs \in SUBSET HoldPcs
      /\ "mine" \notin RecvBufs /\ "mine" \notin SendBufs
      /\ {"pending", "free", "lost"} \subseteq BufStates
  BY DEF RecvPcs, SentPcs, OutPcs, HoldPcs, Packets, RecvBufs, SendBufs, BufStates
<1>2. Handles(w)
  BY <1>1 DEF Plain, Handles
<1>3. Own(buf', wk')
  BY <1>0, <1>2, OwnKept
<1>4. UNCHANGED <<OutstandingRecv, OutstandingSend, gOutstandingSends, leaked>>
      /\ wk[w].pc \notin CountPcs /\ wk'[w].pc \notin CountPcs
  BY DEF Plain, counts
<1>5. CASE Stays(w) /\ Held(wk[w]) = NULL
  <2>1. Shift(w, NULL)
    BY <1>0, <1>5, Shifts
  <2> QED
    BY <1>2, <1>4, <2>1, Nulls, SameCounts
<1>6. ASSUME NEW x \in Conns, NEW b \in {"pending", "free", "lost"}, Gives(w, x, b),
             wk[w].pc \in {"accepted", "enqueue", "closing", "recv", "post"}
      PROVE  RecvInv' /\ SendInv' /\ SendsInv'
  <2>1. Shift(w, x)
    BY <1>0, <1>1, <1>6, Shifts
  <2>2. Held(wk[w]) = x /\ buf'[x] = b
    BY <1>0, <1>6 DEF Gives
  <2>3. /\ wk[w].pc \notin RecvPcs /\ wk[w].pc \notin SentPcs /\ wk[w].pc \notin OutPcs
        /\ buf'[x] \notin RecvBufs /\ buf'[x] \notin SendBufs /\ buf'[x] # "mine"
    BY <1>6, <2>2 DEF RecvPcs, SentPcs, OutPcs, RecvBufs, SendBufs
  <2>4. /\ ~Busy(buf, wk, x, RecvBufs, RecvPcs) /\ ~Busy(buf, wk, x, SendBufs, SentPcs)
        /\ ~Busy(buf, wk, x, SendBufs, OutPcs)
    BY <1>0, <1>1, <2>2, <2>3, BusyHere
  <2>5. /\ ~Busy(buf', wk', x, RecvBufs, RecvPcs)
        /\ ~Busy(buf', wk', x, SendBufs, SentPcs)
        /\ ~Busy(buf', wk', x, SendBufs, OutPcs)
    BY <1>1, <1>3, <2>3, BusyHere
  <2> QED
    BY <1>4, <2>1, <2>4, <2>5, SameCounts
<1>7. ASSUME NEW x \in Conns, Takes(w, x),
             \/ buf[x] \in Packets /\ wk'[w].pc = buf[x]
             \/ buf[x] = "pending" /\ wk'[w].pc = "post"
      PROVE  RecvInv' /\ SendInv' /\ SendsInv'
  <2>1. Shift(w, x)
    BY <1>0, <1>7, Shifts
  <2>2. Held(wk'[w]) = x
    BY <1>7 DEF Takes
  <2>3. /\ buf[x] # "mine"
        /\ buf[x] \in RecvBufs <=> wk'[w].pc \in RecvPcs
        /\ buf[x] \in SendBufs <=> wk'[w].pc \in SentPcs
        /\ buf[x] \in SendBufs <=> wk'[w].pc \in OutPcs
    BY <1>7 DEF RecvPcs, SentPcs, OutPcs, RecvBufs, SendBufs, Packets
  <2>4. /\ Busy(buf, wk, x, RecvBufs, RecvPcs) <=> buf[x] \in RecvBufs
        /\ Busy(buf, wk, x, SendBufs, SentPcs) <=> buf[x] \in SendBufs
        /\ Busy(buf, wk, x, SendBufs, OutPcs) <=> buf[x] \in SendBufs
    BY <1>0, <1>1, <2>3, BusyHere
  <2>5. /\ Busy(buf', wk', x, RecvBufs, RecvPcs) <=> wk'[w].pc \in RecvPcs
        /\ Busy(buf', wk', x, SendBufs, SentPcs) <=> wk'[w].pc \in SentPcs
        /\ Busy(buf', wk', x, SendBufs, OutPcs) <=> wk'[w].pc \in OutPcs
    BY <1>1, <1>3, <2>2, BusyHere
  <2> QED
    BY <1>4, <2>1, <2>3, <2>4, <2>5, SameCounts
<1>8. ASSUME NEW x \in Conns, Frees(w, x)
      PROVE  RecvInv' /\ SendInv' /\ SendsInv'
  <2>1. Shift(w, x)
    BY <1>0, <1>8, Shifts
  <2>2. buf[x] \in Over /\ buf'[x] \in Over
    BY <1>0, <1>8 DEF Frees, Over
  <2>3. /\ buf[x] \notin RecvBufs /\ buf[x] \notin SendBufs /\ buf[x] # "mine"
        /\ buf'[x] \notin RecvBufs /\ buf'[x] \notin SendBufs /\ buf'[x] # "mine"
    BY <2>2 DEF RecvBufs, SendBufs, Over
  <2>4. /\ ~Busy(buf, wk, x, RecvBufs, RecvPcs) /\ ~Busy(buf, wk, x, SendBufs, SentPcs)
        /\ ~Busy(buf, wk, x, SendBufs, OutPcs)
    BY <1>0, <1>1, <2>3, BusyHere
  <2>5. /\ ~Busy(buf', wk', x, RecvBufs, RecvPcs)
        /\ ~Busy(buf', wk', x, SendBufs, SentPcs)
        /\ ~Busy(buf', wk', x, SendBufs, OutPcs)
    BY <1>1, <1>3, <2>3, BusyHere
  <2> QED
    BY <1>4, <2>1, <2>4, <2>5, SameCounts
<1> QED
  BY <1>2, <1>5, <1>6, <1>7, <1>8 DEF Plain

\* It keeps the invariant if it keeps the parts about the end of connections.
LEMMA PlainDone ==
  ASSUME IInv, NEW w \in Workers, wk' \in [Workers -> WorkerState], Plain(w),
         WorkerOK(wk'[w]), RestOK', FreeInv', AloneInv'
  PROVE  IInv'
<1>0. TypeOK /\ LockInv
  BY DEF IInv
<1>1. Handles(w) /\ RecvInv' /\ SendInv' /\ SendsInv'
  BY PlainCounts
<1>2. \A v \in Workers \ {w} : wk'[v] = wk[v]
  BY DEF Plain, Stays, Gives, Takes, Frees
<1>3. Locked(wk'[w]) = NULL /\ SockCritSec' = SockCritSec /\ UNCHANGED clients
  BY DEF Plain, Locked, CountPcs
<1>4. LockInv'
  BY <1>0, <1>2, <1>3, LockKept
<1> QED
  BY <1>1, <1>2, <1>3, <1>4, StepDone

\* A plain step after which worker w is not alone with a connection anew and
\* ends none.
LEMMA PlainStep ==
  ASSUME IInv, NEW w \in Workers, wk' \in [Workers -> WorkerState], Plain(w),
         WorkerOK(wk'[w]),
         UNCHANGED <<bClosing, freed, overlap, misuse>>,
         open' \in [Conns -> BOOLEAN], failed' \in BOOLEAN,
         wk'[w].c \in {wk[w].c, NULL}, wk'[w].p \in {wk[w].p, NULL},
         Final(wk'[w], bClosing) => Final(wk[w], bClosing),
         wk[w].pc # "freeBuf",
         (wk'[w].pc \in FreePcs \/ wk'[w].cleanup) =>
            buf[wk'[w].c] \in Over \/ buf'[wk'[w].c] \in Over
  PROVE  IInv'
<1>0. /\ TypeOK /\ ShapeInv /\ Own(buf, wk) /\ Queued(buf, gPendingSendList)
      /\ FreeInv /\ AloneInv
  BY DEF IInv
<1>1. \A v \in Workers \ {w} : wk'[v] = wk[v]
  BY DEF Plain, Stays, Gives, Takes, Frees
<1>2. Handles(w)
  BY PlainCounts
<1>3. \A c \in Conns : buf[c] \in Over => buf'[c] \in Over
  BY <1>0, <1>2, BufKept
<1>4. (wk'[w].pc \in FreePcs \/ wk'[w].cleanup) => wk'[w].c \in Conns
  <2>1. wk'[w].c \in Conns \cup {NULL}
    BY DEF WorkerState
  <2> QED
    BY <2>1 DEF WorkerOK
<1>5. FreeInv'
  BY <1>0, <1>1, <1>3, <1>4, FreeKept
<1>6. AloneInv'
  BY <1>0, <1>1, AloneKept
<1>7. RestOK'
  BY <1>0, RestTyped DEF RestOK, Plain, counts
<1> QED
  BY <1>5, <1>6, <1>7, PlainDone

-----------------------------------------------------------------------------
(* The steps that only read.                                               *)

\* What the invariant says of one worker.
LEMMA WorkerFacts ==
  ASSUME IInv, NEW w \in Workers
  PROVE  /\ wk[w] \in WorkerState /\ WorkerOK(wk[w])
         /\ wk[w].pc \in Pcs /\ wk[w].cleanup \in BOOLEAN
         /\ wk[w].c \in Conns \cup {NULL} /\ wk[w].p \in Conns \cup {NULL}
         /\ (wk[w].pc \in FreePcs \/ wk[w].cleanup) =>
              wk[w].c \in Conns /\ buf[wk[w].c] \in Over
         /\ wk[w].c \in Conns /\ bClosing[wk[w].c] => buf[wk[w].c] \in Over
         /\ Held(wk[w]) # NULL => buf[Held(wk[w])] = "mine"
<1>1. wk[w] \in WorkerState
  BY Types DEF IInv
<1>2. /\ wk[w].pc \in Pcs /\ wk[w].cleanup \in BOOLEAN
      /\ wk[w].c \in Conns \cup {NULL} /\ wk[w].p \in Conns \cup {NULL}
  BY <1>1 DEF WorkerState
<1>3. WorkerOK(wk[w])
  BY DEF IInv, ShapeInv
<1>4. (wk[w].pc \in FreePcs \/ wk[w].cleanup) =>
        wk[w].c \in Conns /\ buf[wk[w].c] \in Over
  BY <1>2, <1>3 DEF IInv, FreeInv, WorkerOK
<1>5. wk[w].c \in Conns /\ bClosing[wk[w].c] => buf[wk[w].c] \in Over
  BY DEF IInv, FreeInv
<1>6. Held(wk[w]) # NULL => buf[Held(wk[w])] = "mine"
  BY DEF IInv, Own
<1> QED
  BY <1>1, <1>2, <1>3, <1>4, <1>5, <1>6

\* A worker with nothing in its hand goes on.
LEMMA GotoPlain ==
  ASSUME IInv, NEW w \in Workers, NEW l \in Pcs, Goto(w, l),
         wk[w].pc \notin HoldPcs \cup CountPcs \cup {"post", "freeBuf"},
         l \notin HoldPcs \cup CountPcs \cup {"post"},
         l \in FreePcs \cup {"tailRecv", "tailFlag"} => wk[w].c # NULL,
         l \in FreePcs => Final(wk[w], bClosing) /\ buf[wk[w].c] \in Over,
         UNCHANGED <<counts, gOutstandingSends, clients, SockCritSec, buf,
                     gPendingSendList, bClosing, freed, history>>,
         open' \in [Conns -> BOOLEAN]
  PROVE  IInv'
<1>0. TypeOK
  BY DEF IInv
<1>1. WorkerOK(wk[w]) /\ wk[w].cleanup \in BOOLEAN
      /\ (wk[w].cleanup => buf[wk[w].c] \in Over)
  BY WorkerFacts
<1>2. wk[w].p = NULL
  BY <1>1 DEF WorkerOK, CountPcs
<1>3. IF l = "get" THEN Moves(w, "get", NULL, NULL, FALSE)
      ELSE Moves(w, l, wk[w].c, wk[w].p, wk[w].cleanup)
  BY <1>0, GotoMoves
<1>4. /\ wk' \in [Workers -> WorkerState] /\ \A v \in Workers \ {w} : wk'[v] = wk[v]
      /\ wk'[w].pc = l /\ wk'[w].p = NULL /\ wk'[w].c \in {wk[w].c, NULL}
      /\ l # "get" => wk'[w].c = wk[w].c /\ wk'[w].cleanup = wk[w].cleanup
      /\ l = "get" => wk'[w].c = NULL /\ wk'[w].cleanup = FALSE
  BY <1>2, <1>3 DEF Moves
<1>5. Held(wk[w]) = NULL /\ Held(wk'[w]) = NULL
  BY <1>4 DEF Held
<1>6. Plain(w)
  BY <1>4, <1>5 DEF Plain, Stays, history
<1>7. WorkerOK(wk'[w])
  BY <1>1, <1>4 DEF WorkerOK, CountPcs, FreePcs
<1>8. Final(wk'[w], bClosing) => Final(wk[w], bClosing)
  BY <1>4 DEF Final, FreePcs, HoldPcs
<1>9. (wk'[w].pc \in FreePcs \/ wk'[w].cleanup) => buf[wk'[w].c] \in Over
  BY <1>1, <1>4 DEF FreePcs
<1>10. failed' \in BOOLEAN /\ UNCHANGED <<bClosing, freed, overlap, misuse>>
  BY <1>0, Types DEF history
<1> QED
  BY <1>4, <1>6, <1>7, <1>8, <1>9, <1>10, PlainStep

\* The two tests after an error.
LEMMA TestOtherKept ==
  ASSUME IInv, NEW w \in Workers, TestOther(w)
  PROVE  IInv'
<1>0. /\ wk[w].pc \in {"errSend", "errRecv"}
      /\ Goto(w, "errFree") \/ Goto(w, "freeBuf")
      /\ UNCHANGED <<counts, gOutstandingSends, clients, SockCritSec, buf,
                     gPendingSendList, bClosing, freed, open, history>>
  BY DEF TestOther, life
<1>1. /\ wk[w].c # NULL /\ buf[wk[w].c] \in Over /\ Final(wk[w], bClosing)
  BY <1>0, WorkerFacts, Nulls DEF FreePcs, Final
<1>2. open' \in [Conns -> BOOLEAN]
  BY <1>0, Types DEF IInv
<1> QED
  BY <1>0, <1>1, <1>2, GotoPlain DEF Pcs, HoldPcs, CountPcs, FreePcs, Packets

\* The test of gOutstandingSends.
LEMMA TestSendsKept ==
  ASSUME IInv, NEW w \in Workers, TestSends(w)
  PROVE  IInv'
<1>0. /\ wk[w].pc = "process"
      /\ Goto(w, "dequeue") \/ Goto(w, "tail")
      /\ UNCHANGED <<counts, gOutstandingSends, clients, SockCritSec, buf,
                     gPendingSendList, bClosing, freed, open, history>>
  BY DEF TestSends, life
<1>2. open' \in [Conns -> BOOLEAN]
  BY <1>0, Types DEF IInv
<1> QED
  BY <1>0, <1>2, GotoPlain DEF Pcs, SendPcs, HoldPcs, CountPcs, FreePcs, Packets

\* The tests at the end of HandleIo.
LEMMA TestTailKept ==
  ASSUME IInv, NEW w \in Workers, TestTail(w)
  PROVE  IInv'
<1>0. /\ wk[w].pc \in {"tail", "tailRecv", "tailFlag"}
      /\ \/ Goto(w, "get")
         \/ wk[w].c # NULL /\ Goto(w, "tailRecv")
         \/ wk[w].c # NULL /\ Goto(w, "tailFlag")
         \/ /\ wk[w].cleanup \/ (wk[w].c # NULL /\ bClosing[wk[w].c])
            /\ Goto(w, "close")
      /\ UNCHANGED <<counts, gOutstandingSends, clients, SockCritSec, buf,
                     gPendingSendList, bClosing, freed, open, history>>
  <2>1. WorkerOK(wk[w])
    BY WorkerFacts
  <2> QED
    BY <2>1 DEF TestTail, TailTest, life, WorkerOK
<1>1. wk[w].cleanup \/ (wk[w].c # NULL /\ bClosing[wk[w].c]) =>
        /\ wk[w].c # NULL /\ buf[wk[w].c] \in Over /\ Final(wk[w], bClosing)
  BY WorkerFacts, Nulls DEF Final
<1>2. open' \in [Conns -> BOOLEAN]
  BY <1>0, Types DEF IInv
<1> QED
  BY <1>0, <1>1, <1>2, GotoPlain DEF Pcs, HoldPcs, CountPcs, FreePcs, Packets

\* closesocket.
LEMMA CloseSocketKept ==
  ASSUME IInv, NEW w \in Workers, CloseSocket(w)
  PROVE  IInv'
<1>0. /\ wk[w].pc = "close" /\ Goto(w, "free")
      /\ open' = [open EXCEPT ![wk[w].c] = FALSE]
      /\ UNCHANGED <<counts, gOutstandingSends, clients, SockCritSec, buf,
                     gPendingSendList, bClosing, freed, history>>
  BY DEF CloseSocket
<1>1. /\ wk[w].c # NULL /\ buf[wk[w].c] \in Over /\ Final(wk[w], bClosing)
  BY <1>0, WorkerFacts, Nulls DEF FreePcs, Final
<1>2. open' \in [Conns -> BOOLEAN]
  BY <1>0, Types DEF IInv
<1> QED
  BY <1>0, <1>1, <1>2, GotoPlain DEF Pcs, HoldPcs, CountPcs, FreePcs, Packets

\* FreeSocketObj: the worker was alone with the connection and leaves it.
LEMMA FreeSocketObjKept ==
  ASSUME IInv, NEW w \in Workers, FreeSocketObj(w)
  PROVE  IInv'
<1>0. /\ TypeOK /\ ShapeInv /\ FreeInv /\ AloneInv
      /\ wk \in [Workers -> WorkerState] /\ freed \in [Conns -> BOOLEAN]
      /\ NULL \notin Conns
  BY Types, Nulls DEF IInv
<1>1. /\ wk[w].pc \in {"free", "errFree"}
      /\ Goto(w, IF wk[w].pc = "free" THEN "get" ELSE "freeBuf")
      /\ open' = [open EXCEPT ![wk[w].c] = FALSE]
      /\ freed' = [freed EXCEPT ![wk[w].c] = TRUE]
      /\ UNCHANGED <<counts, gOutstandingSends, clients, SockCritSec, buf,
                     gPendingSendList, bClosing, history>>
  BY DEF FreeSocketObj
<1>2. wk[w].c \in Conns /\ buf[wk[w].c] \in Over /\ Final(wk[w], bClosing)
  BY <1>1, WorkerFacts, Nulls DEF FreePcs, Final
<1>3. /\ wk[w].p = NULL
      /\ (wk[w].cleanup => buf[wk[w].c] \in Over)
  BY <1>1, WorkerFacts DEF WorkerOK
<1>4. /\ wk' \in [Workers -> WorkerState] /\ \A v \in Workers \ {w} : wk'[v] = wk[v]
      /\ wk'[w].p = NULL
      /\ \/ /\ wk'[w].pc = "get" /\ wk'[w].c = NULL /\ wk'[w].cleanup = FALSE
         \/ /\ wk'[w].pc = "freeBuf" /\ wk'[w].c = wk[w].c
            /\ wk'[w].cleanup = wk[w].cleanup
  <2>1. CASE wk[w].pc = "free"
    <3>1. Moves(w, "get", NULL, NULL, FALSE)
      BY <1>0, <1>1, <2>1, GotoMoves DEF Pcs
    <3> QED
      BY <3>1 DEF Moves
  <2>2. CASE wk[w].pc = "errFree"
    <3>1. Moves(w, "freeBuf", wk[w].c, wk[w].p, wk[w].cleanup)
      BY <1>0, <1>1, <2>2, GotoMoves DEF Pcs
    <3> QED
      BY <1>3, <3>1 DEF Moves
  <2> QED
    BY <1>1, <2>1, <2>2
<1>5. Plain(w)
  <2>1. Held(wk[w]) = NULL /\ Held(wk'[w]) = NULL
    BY <1>1, <1>4 DEF Held, HoldPcs, Packets
  <2> QED
    BY <1>1, <1>4, <2>1 DEF Plain, Stays, history, CountPcs
<1>6. WorkerOK(wk'[w])
  BY <1>0, <1>2, <1>4 DEF WorkerOK, HoldPcs, FreePcs, Packets
<1>7. FreeInv'
  <2>1. (wk'[w].pc \in FreePcs \/ wk'[w].cleanup) => buf'[wk'[w].c] \in Over
    BY <1>1, <1>2, <1>4 DEF FreePcs
  <2>2. \A c \in Conns : (bClosing'[c] \/ freed'[c]) =>
          bClosing[c] \/ freed[c] \/ buf'[c] \in Over
    BY <1>0, <1>1, <1>2
  <2> QED
    BY <1>0, <1>1, <1>4, <2>1, <2>2, FreeKept
<1>8. AloneInv'
  <2>1. SUFFICES ASSUME ~overlap PROVE
        /\ ~misuse
        /\ \A c \in Conns : freed'[c] => \A v \in Workers : ~Uses(wk'[v], c)
        /\ \A v \in Workers : Final(wk'[v], bClosing) =>
             \A u \in Workers \ {v} : ~Uses(wk'[u], wk'[v].c)
    BY <1>1 DEF AloneInv, history
  <2>2. \A c \in Conns : ~Uses(wk'[w], c)
    BY <1>0, <1>4 DEF Uses
  <2>3. ~misuse /\ \A c \in Conns : freed[c] => \A v \in Workers : ~Uses(wk[v], c)
    BY <1>0, <2>1 DEF AloneInv
  <2>4. \A v \in Workers \ {w} : ~Uses(wk[v], wk[w].c)
    BY <1>0, <1>2, <2>1 DEF AloneInv
  <2>5. \A c \in Conns : freed'[c] => \A v \in Workers : ~Uses(wk'[v], c)
    BY <1>0, <1>1, <1>2, <1>4, <2>2, <2>3, <2>4
  <2>6. ASSUME NEW v \in Workers, Final(wk'[v], bClosing), NEW u \in Workers \ {v}
        PROVE  ~Uses(wk'[u], wk'[v].c)
    <3>1. CASE v = w
      <4>1. wk'[w].c = wk[w].c /\ wk'[u] = wk[u]
        BY <1>4, <2>6, <3>1 DEF Final
      <4> QED
        BY <2>4, <2>6, <3>1, <4>1
    <3>2. CASE v # w
      <4>1. wk'[v] = wk[v] /\ wk[v].c \in Conns
        BY <1>0, <1>4, <2>6, <3>2 DEF Final, WorkerState
      <4>2. CASE u = w
        BY <2>2, <4>1, <4>2
      <4>3. CASE u # w
        BY <1>0, <1>4, <2>1, <2>6, <4>1, <4>3 DEF AloneInv
      <4> QED
        BY <4>2, <4>3
    <3> QED
      BY <3>1, <3>2
  <2> QED
    BY <2>3, <2>5, <2>6
<1>9. RestOK'
  BY <1>0, <1>1, <1>2, RestTyped DEF RestOK, counts, history
<1> QED
  BY <1>4, <1>5, <1>6, <1>7, <1>8, <1>9, PlainDone

\* FreeBufferObj after an error: the worker has left the SOCKET_OBJ already.
LEMMA FreeBufferObjKept ==
  ASSUME IInv, NEW w \in Workers, FreeBufferObj(w)
  PROVE  IInv'
<1>0. /\ TypeOK /\ ShapeInv /\ FreeInv /\ AloneInv
      /\ Own(buf, wk) /\ Queued(buf, gPendingSendList)
      /\ wk \in [Workers -> WorkerState] /\ NULL \notin Conns
  BY Types, Nulls DEF IInv
<1>1. /\ wk[w].pc = "freeBuf" /\ Goto(w, "get")
      /\ buf' = [buf EXCEPT ![wk[w].c] = "free"]
      /\ UNCHANGED <<counts, gOutstandingSends, clients, SockCritSec,
                     gPendingSendList, bClosing, freed, open, history>>
  BY DEF FreeBufferObj, life
<1>2. wk[w].c \in Conns /\ buf[wk[w].c] \in Over
  BY <1>1, WorkerFacts DEF FreePcs
<1>3. Moves(w, "get", NULL, NULL, FALSE)
  BY <1>0, <1>1, GotoMoves DEF Pcs
<1>4. /\ wk' \in [Workers -> WorkerState] /\ \A v \in Workers \ {w} : wk'[v] = wk[v]
      /\ wk'[w].pc = "get" /\ wk'[w].c = NULL /\ wk'[w].p = NULL
      /\ wk'[w].cleanup = FALSE
  BY <1>3 DEF Moves
<1>5. Plain(w)
  <2>1. Held(wk[w]) = NULL /\ Held(wk'[w]) = NULL
    BY <1>1, <1>4 DEF Held, HoldPcs, Packets
  <2>2. Frees(w, wk[w].c)
    BY <1>1, <1>2, <1>4, <2>1 DEF Frees
  <2> QED
    BY <1>1, <1>2, <1>4, <2>2 DEF Plain, history, CountPcs
<1>6. WorkerOK(wk'[w])
  BY <1>4 DEF WorkerOK, HoldPcs, FreePcs, Packets
<1>7. FreeInv'
  <2>1. ~(wk'[w].pc \in FreePcs \/ wk'[w].cleanup)
    BY <1>4 DEF FreePcs
  <2>2. Handles(w)
    BY <1>4, <1>5, PlainCounts
  <2>3. \A c \in Conns : buf[c] \in Over => buf'[c] \in Over
    BY <1>0, <1>4, <2>2, BufKept
  <2> QED
    BY <1>0, <1>1, <1>4, <2>1, <2>3, FreeKept
<1>8. AloneInv'
  <2>1. SUFFICES ASSUME ~overlap PROVE
        /\ ~misuse
        /\ \A c \in Conns : freed[c] => \A v \in Workers : ~Uses(wk'[v], c)
        /\ \A v \in Workers : Final(wk'[v], bClosing) =>
             \A u \in Workers \ {v} : ~Uses(wk'[u], wk'[v].c)
    BY <1>1 DEF AloneInv, history
  <2>2. \A c \in Conns : ~Uses(wk'[w], c)
    BY <1>0, <1>4 DEF Uses
  <2>3. /\ ~misuse
        /\ \A c \in Conns : freed[c] => \A v \in Workers : ~Uses(wk'[v], c)
    BY <1>0, <1>4, <2>1, <2>2 DEF AloneInv
  <2>4. ASSUME NEW v \in Workers, Final(wk'[v], bClosing), NEW u \in Workers \ {v}
        PROVE  ~Uses(wk'[u], wk'[v].c)
    <3>1. v # w /\ wk'[v] = wk[v] /\ wk[v].c \in Conns
      BY <1>0, <1>4, <2>4 DEF Final, WorkerState
    <3> QED
      BY <1>0, <1>4, <2>1, <2>2, <2>4, <3>1 DEF AloneInv
  <2> QED
    BY <2>3, <2>4
<1>9. RestOK'
  BY <1>0, <1>1, RestTyped DEF RestOK, counts, history
<1> QED
  BY <1>4, <1>5, <1>6, <1>7, <1>8, <1>9, PlainDone

\* The use of a freed SOCKET_OBJ: two workers were busy with it.
LEMMA UseFreedKept ==
  ASSUME IInv, NEW w \in Workers, UseFreed(w)
  PROVE  IInv'
<1>0. /\ ~InUse(w) /\ misuse' = TRUE
      /\ UNCHANGED <<counts, SockCritSec, life, buf, gPendingSendList,
                     gOutstandingSends, clients, wk, leaked, failed, overlap>>
  BY DEF UseFreed
<1>1. overlap
  <2>1. Touches(w) # NULL /\ freed[Touches(w)] /\ Touches(w) \in {wk[w].c, wk[w].p}
    BY <1>0 DEF InUse, Touches
  <2>2. wk[w].pc # "freeBuf"
    BY <2>1 DEF Touches
  <2>3. Touches(w) \in Conns /\ Uses(wk[w], Touches(w))
    BY <2>1, <2>2, WorkerFacts DEF Uses
  <2> QED
    BY <2>1, <2>3 DEF IInv, AloneInv
<1>2. AloneInv'
  BY <1>0, <1>1 DEF AloneInv
<1>3. TypeOK'
  <2>1. misuse' \in BOOLEAN
    BY <1>0
  <2> QED
    BY <1>0, <2>1 DEF IInv, TypeOK, counts, life, clients
<1>4. /\ ShapeInv' /\ LockInv' /\ RecvInv' /\ SendInv' /\ FreeInv'
      /\ Own(buf', wk') /\ Queued(buf', gPendingSendList')
  BY <1>0 DEF IInv, ShapeInv, LockInv, RecvInv, SendInv, FreeInv, counts, life
<1>5. SendsInv'
  BY <1>0 DEF IInv, SendsInv, Posted, Uncounted, Outstanding
<1> QED
  BY <1>2, <1>3, <1>4, <1>5 DEF IInv

-----------------------------------------------------------------------------
(* The steps that hand a buffer on without posting it.                     *)

\* GetQueuedCompletionStatus: if nobody else is busy with the connection, the
\* worker is alone with it.
LEMMA DequeueKept ==
  ASSUME IInv, NEW w \in Workers, NEW x \in Conns, Dequeue(w, x)
  PROVE  IInv'
<1>0. /\ TypeOK /\ ShapeInv /\ FreeInv /\ AloneInv
      /\ Own(buf, wk) /\ Queued(buf, gPendingSendList)
      /\ wk \in [Workers -> WorkerState] /\ NULL \notin Conns
      /\ buf \in [Conns -> BufStates]
  BY Types, Nulls DEF IInv
<1>1. /\ wk[w].pc = "get" /\ buf[x] \in Packets
      /\ buf' = [buf EXCEPT ![x] = "mine"]
      /\ Become(w, [Idle EXCEPT !.pc = buf[x], !.c = x])
      /\ overlap' = (overlap \/ \E v \in Workers : x \in {wk[v].c, wk[v].p})
      /\ UNCHANGED <<counts, SockCritSec, life, gPendingSendList,
                     gOutstandingSends, clients, leaked, failed, misuse>>
  BY DEF Dequeue
<1>2. /\ wk' \in [Workers -> WorkerState] /\ \A v \in Workers \ {w} : wk'[v] = wk[v]
      /\ wk'[w].pc = buf[x] /\ wk'[w].c = x /\ wk'[w].p = NULL
      /\ wk'[w].cleanup = FALSE
  <2>1. PICK r \in WorkerState : /\ Become(w, r)
                                 /\ r.pc = buf[x] /\ r.c = x /\ r.p = NULL
                                 /\ r.cleanup = FALSE
    <3> DEFINE r == [Idle EXCEPT !.pc = buf[x], !.c = x]
    <3>0. buf[x] \in Pcs
      BY <1>1 DEF Packets, Pcs
    <3>1. /\ r \in WorkerState
          /\ r.pc = buf[x] /\ r.c = x /\ r.p = NULL /\ r.cleanup = FALSE
      BY <3>0 DEF Idle, WorkerState
    <3>2. Become(w, r)
      BY <1>1
    <3> HIDE DEF r
    <3> QED
      BY <3>1, <3>2
  <2> QED
    BY <1>0, <2>1, BecomeMoves DEF Moves
<1>3. Takes(w, x)
  <2>1. Held(wk[w]) = NULL /\ Held(wk'[w]) = x
    BY <1>1, <1>2 DEF Held, HoldPcs, Packets
  <2> QED
    BY <1>1, <1>2, <2>1 DEF Takes
<1>4. Plain(w)
  BY <1>1, <1>2, <1>3 DEF Plain, CountPcs, Packets
<1>5. WorkerOK(wk'[w])
  BY <1>0, <1>1, <1>2 DEF WorkerOK, Packets
<1>6. \A c \in Conns : buf[c] \in Over => buf'[c] \in Over
  BY <1>0, <1>1 DEF Packets, Over
<1>7. FreeInv'
  <2>1. ~(wk'[w].pc \in FreePcs \/ wk'[w].cleanup)
    BY <1>1, <1>2 DEF FreePcs, Packets
  <2> QED
    BY <1>0, <1>1, <1>2, <1>6, <2>1, FreeKept DEF life
<1>8. AloneInv'
  <2>1. SUFFICES ASSUME ~overlap' PROVE
        /\ ~misuse
        /\ \A c \in Conns : freed[c] => \A v \in Workers : ~Uses(wk'[v], c)
        /\ \A v \in Workers : Final(wk'[v], bClosing) =>
             \A u \in Workers \ {v} : ~Uses(wk'[u], wk'[v].c)
    BY <1>1 DEF AloneInv, life
  <2>2. /\ ~overlap
        /\ \A v \in Workers : x \notin {wk[v].c, wk[v].p} /\ ~Uses(wk[v], x)
    BY <1>1, <2>1 DEF Uses
  <2>3. ~freed[x]
    BY <1>0, <1>1 DEF FreeInv, Packets, Over
  <2>4. \A c \in Conns : Uses(wk'[w], c) => c = x
    BY <1>0, <1>2 DEF Uses
  <2>5. ~misuse /\ \A c \in Conns : freed[c] => \A v \in Workers : ~Uses(wk'[v], c)
    BY <1>0, <1>2, <2>2, <2>3, <2>4 DEF AloneInv
  <2>6. ASSUME NEW v \in Workers, Final(wk'[v], bClosing), NEW u \in Workers \ {v}
        PROVE  ~Uses(wk'[u], wk'[v].c)
    <3>1. CASE v = w
      BY <1>2, <2>2, <3>1
    <3>2. CASE v # w
      <4>1. wk'[v] = wk[v] /\ wk[v].c \in Conns /\ wk[v].c # x
        BY <1>0, <1>2, <2>2, <2>6, <3>2 DEF Final, WorkerState, Uses
      <4> QED
        BY <1>0, <1>2, <2>2, <2>4, <2>6, <4>1 DEF AloneInv
    <3> QED
      BY <3>1, <3>2
  <2> QED
    BY <2>5, <2>6
<1>9. RestOK'
  <2>1. overlap' \in BOOLEAN
    BY <1>1, Zenon
  <2> QED
    BY <1>0, <1>1, <2>1, RestTyped DEF RestOK, counts, life
<1> QED
  BY <1>2, <1>4, <1>5, <1>7, <1>8, <1>9, PlainDone

\* DequeuePendingOperation: a pending buffer is that of no connection that a
\* worker is to be alone with.
LEMMA DequeuePendingKept ==
  ASSUME IInv, NEW w \in Workers, DequeuePending(w)
  PROVE  IInv'
<1>0. /\ TypeOK /\ ShapeInv /\ FreeInv /\ AloneInv
      /\ Own(buf, wk) /\ Queued(buf, gPendingSendList)
      /\ wk \in [Workers -> WorkerState] /\ NULL \notin Conns
      /\ buf \in [Conns -> BufStates] /\ gPendingSendList \in Seq(Conns)
      /\ open \in [Conns -> BOOLEAN]
  BY Types, Nulls DEF IInv
<1>1. /\ wk[w].pc = "dequeue"
      /\ UNCHANGED <<counts, SockCritSec, life, gOutstandingSends, clients,
                     history>>
  BY DEF DequeuePending
<1>2. CASE gPendingSendList = <<>>
  <2>1. Goto(w, "tail") /\ UNCHANGED <<buf, gPendingSendList>>
    BY <1>2 DEF DequeuePending
  <2> QED
    BY <1>0, <1>1, <2>1, GotoPlain
       DEF Pcs, HoldPcs, CountPcs, FreePcs, Packets, life
<1>3. CASE gPendingSendList # <<>>
  <2>1. PICK x \in Conns : x = Head(gPendingSendList)
    BY <1>0, <1>3
  <2>2. /\ gPendingSendList' = Tail(gPendingSendList)
        /\ buf' = [buf EXCEPT ![x] = "mine"]
        /\ Become(w, [wk[w] EXCEPT !.pc = "post", !.p = x])
    BY <1>3, <2>1 DEF DequeuePending
  <2>3. buf[x] = "pending"
    BY <1>0, <1>3, <2>1 DEF Queued
  <2>4. /\ wk' \in [Workers -> WorkerState]
        /\ \A v \in Workers \ {w} : wk'[v] = wk[v]
        /\ wk'[w].pc = "post" /\ wk'[w].c = wk[w].c /\ wk'[w].p = x
        /\ wk'[w].cleanup = wk[w].cleanup
    <3>1. PICK r \in WorkerState : /\ Become(w, r)
                                   /\ r.pc = "post" /\ r.c = wk[w].c /\ r.p = x
                                   /\ r.cleanup = wk[w].cleanup
      <4> DEFINE r == [wk[w] EXCEPT !.pc = "post", !.p = x]
      <4>0. "post" \in Pcs
        BY DEF Pcs, SendPcs
      <4>1. /\ r \in WorkerState /\ r.pc = "post" /\ r.c = wk[w].c /\ r.p = x
            /\ r.cleanup = wk[w].cleanup
        BY <1>0, <4>0 DEF WorkerState
      <4>2. Become(w, r)
        BY <2>2
      <4> HIDE DEF r
      <4> QED
        BY <4>1, <4>2
    <3> QED
      BY <1>0, <3>1, BecomeMoves DEF Moves
  <2>5. Takes(w, x)
    <3>1. Held(wk[w]) = NULL /\ Held(wk'[w]) = x
      BY <1>1, <2>4 DEF Held, HoldPcs, Packets
    <3> QED
      BY <1>3, <2>1, <2>2, <2>4, <3>1 DEF Takes
  <2>6. Plain(w)
    BY <1>1, <2>3, <2>4, <2>5 DEF Plain, CountPcs, history
  <2>7. WorkerOK(wk'[w]) /\ WorkerOK(wk[w])
    <3>1. WorkerOK(wk[w])
      BY <1>0 DEF ShapeInv
    <3> QED
      BY <1>0, <1>1, <2>4, <3>1 DEF WorkerOK, HoldPcs, FreePcs, Packets
  <2>8. \A c \in Conns : buf[c] \in Over => buf'[c] \in Over
    BY <1>0, <2>2, <2>3 DEF Over
  <2>9. FreeInv'
    <3>1. (wk'[w].pc \in FreePcs \/ wk'[w].cleanup) => buf'[wk'[w].c] \in Over
      BY <2>4, <2>8, WorkerFacts DEF FreePcs
    <3> QED
      BY <1>0, <1>1, <2>4, <2>8, <3>1, FreeKept DEF life
  <2>10. AloneInv'
    <3>1. SUFFICES ASSUME ~overlap PROVE
          /\ ~misuse
          /\ \A c \in Conns : freed[c] => \A v \in Workers : ~Uses(wk'[v], c)
          /\ \A v \in Workers : Final(wk'[v], bClosing) =>
               \A u \in Workers \ {v} : ~Uses(wk'[u], wk'[v].c)
      BY <1>1 DEF AloneInv, life, history
    <3>2. ~freed[x]
      BY <1>0, <2>3 DEF FreeInv, Over
    <3>3. \A c \in Conns : Uses(wk'[w], c) => c = x \/ Uses(wk[w], c)
      BY <1>1, <2>4 DEF Uses
    <3>4. ~misuse /\ \A c \in Conns : freed[c] => \A v \in Workers : ~Uses(wk'[v], c)
      BY <1>0, <2>4, <3>1, <3>2, <3>3 DEF AloneInv
    <3>5. ASSUME NEW v \in Workers, Final(wk'[v], bClosing), NEW u \in Workers \ {v}
          PROVE  ~Uses(wk'[u], wk'[v].c)
      <4>1. wk'[v].c = wk[v].c /\ wk[v].c \in Conns
        BY <1>0, <2>4, <3>5 DEF Final, WorkerState
      <4>2. Final(wk[v], bClosing)
        BY <2>4, <3>5 DEF Final, HoldPcs, FreePcs, Packets
      <4>3. \A t \in Workers \ {v} : ~Uses(wk[t], wk[v].c)
        BY <1>0, <3>1, <4>2 DEF AloneInv
      <4>4. CASE u # w
        BY <2>4, <4>1, <4>3, <4>4
      <4>5. CASE u = w
        <5>1. buf[wk[v].c] \in {"mine"} \cup Over
          <6>1. wk[v].pc \in HoldPcs => Held(wk[v]) = wk[v].c
            BY DEF Held
          <6> QED
            BY <1>0, <4>1, <4>2, <6>1, WorkerFacts DEF Final
        <5>2. wk[v].c # x
          BY <2>3, <5>1 DEF Over
        <5> QED
          BY <3>3, <4>1, <4>3, <4>5, <5>2
      <4> QED
        BY <4>4, <4>5
    <3> QED
      BY <3>4, <3>5
  <2>11. RestOK'
    BY <1>0, <1>1, RestTyped DEF RestOK, counts, life, history
  <2> QED
    BY <2>4, <2>6, <2>7, <2>9, <2>10, <2>11, PlainDone
<1> QED
  BY <1>2, <1>3

\* The worker enqueues, frees or loses the buffer it has, and goes on.
LEMMA GivePlain ==
  ASSUME IInv, NEW w \in Workers, NEW x \in Conns, NEW b \in {"pending", "free", "lost"},
         NEW l, NEW cl, NEW c,
         Held(wk[w]) = x,
         wk[w].pc \in {"accepted", "enqueue", "closing", "recv", "post"},
         Moves(w, l, c, NULL, cl), c \in {wk[w].c, NULL},
         l \in {"process", "get", "lastOp", "tail"},
         l = "lastOp" => wk[w].pc = "closing" /\ b = "free" /\ c = wk[w].c,
         cl => wk[w].cleanup /\ c = wk[w].c,
         buf' = [buf EXCEPT ![x] = b],
         IF b = "pending" THEN gPendingSendList' = Append(gPendingSendList, x)
                          ELSE gPendingSendList' = gPendingSendList,
         UNCHANGED <<counts, SockCritSec, gOutstandingSends, clients, leaked,
                     bClosing, freed, overlap, misuse>>,
         open' \in [Conns -> BOOLEAN], failed' \in BOOLEAN
  PROVE  IInv'
<1>1. /\ wk' \in [Workers -> WorkerState] /\ \A v \in Workers \ {w} : wk'[v] = wk[v]
      /\ wk'[w].pc = l /\ wk'[w].c = c /\ wk'[w].p = NULL /\ wk'[w].cleanup = cl
  BY DEF Moves
<1>2. Held(wk'[w]) = NULL
  BY <1>1 DEF Held, HoldPcs, Packets
<1>3. Gives(w, x, b)
  BY <1>1, <1>2 DEF Gives
<1>4. Plain(w)
  BY <1>1, <1>3 DEF Plain, CountPcs
<1>5. wk[w].c # NULL => wk[w].c \in Conns
  BY WorkerFacts
<1>6. WorkerOK(wk[w]) /\ (wk[w].cleanup => wk[w].c \in Conns /\ buf[wk[w].c] \in Over)
  BY WorkerFacts
<1>7. WorkerOK(wk'[w])
  BY <1>1, <1>6 DEF WorkerOK, HoldPcs, FreePcs, Packets
<1>8. Final(wk'[w], bClosing) => Final(wk[w], bClosing)
  BY <1>1 DEF Final, HoldPcs, FreePcs, Packets
<1>9. buf \in [Conns -> BufStates]
  BY Types DEF IInv
<1>10. l = "lastOp" => buf'[wk'[w].c] \in Over
  BY <1>1, <1>9 DEF Held, HoldPcs, Over
<1>11. (wk'[w].pc \in FreePcs \/ wk'[w].cleanup) =>
         buf[wk'[w].c] \in Over \/ buf'[wk'[w].c] \in Over
  BY <1>1, <1>6, <1>10 DEF FreePcs
<1> QED
  BY <1>1, <1>4, <1>7, <1>8, <1>11, PlainStep

\* A completed accept is enqueued, freed or lost.
LEMMA HandleAcceptKept ==
  ASSUME IInv, NEW w \in Workers, HandleAccept(w)
  PROVE  IInv'
<1>0. TypeOK /\ open \in [Conns -> BOOLEAN] /\ failed \in BOOLEAN
  BY Types DEF IInv
<1>1. PICK x \in Conns : x = wk[w].c /\ wk[w].pc = "accepted" /\ Held(wk[w]) = x
  BY WorkerFacts DEF HandleAccept, WorkerOK, HoldPcs, Packets, Held
<1>2. UNCHANGED <<counts, SockCritSec, gOutstandingSends, clients, leaked,
                  bClosing, freed, overlap, misuse>>
  BY DEF HandleAccept
<1>3. ASSUME Become(w, [Idle EXCEPT !.pc = "process"])
      PROVE  Moves(w, "process", NULL, NULL, FALSE)
  <2>1. PICK r \in WorkerState : /\ Become(w, r) /\ r.pc = "process" /\ r.c = NULL
                                 /\ r.p = NULL /\ r.cleanup = FALSE
    <3> DEFINE r == [Idle EXCEPT !.pc = "process"]
    <3>1. /\ r \in WorkerState /\ r.pc = "process" /\ r.c = NULL
          /\ r.p = NULL /\ r.cleanup = FALSE
      BY DEF Idle, WorkerState, Pcs
    <3>2. Become(w, r)
      BY <1>3
    <3> HIDE DEF r
    <3> QED
      BY <3>1, <3>2
  <2> QED
    BY <1>0, <2>1, BecomeMoves
<1>4. CASE /\ open' = [open EXCEPT ![x] = TRUE] /\ Enqueue(x)
           /\ Become(w, [Idle EXCEPT !.pc = "process"]) /\ UNCHANGED failed
  <2>1. open' \in [Conns -> BOOLEAN] /\ failed' \in BOOLEAN
    BY <1>0, <1>4
  <2> QED
    BY <1>1, <1>2, <1>3, <1>4, <2>1, GivePlain DEF Enqueue
<1>5. CASE /\ failed' = TRUE /\ buf' = [buf EXCEPT ![x] = "free"]
           /\ Become(w, [Idle EXCEPT !.pc = "process"])
           /\ UNCHANGED <<open, gPendingSendList>>
  <2>1. open' \in [Conns -> BOOLEAN] /\ failed' \in BOOLEAN
    BY <1>0, <1>5
  <2> QED
    BY <1>1, <1>2, <1>3, <1>5, <2>1, GivePlain
<1>6. CASE /\ failed' = TRUE /\ open' = [open EXCEPT ![x] = TRUE]
           /\ buf' = [buf EXCEPT ![x] = "lost"]
           /\ Goto(w, "get") /\ UNCHANGED gPendingSendList
  <2>1. open' \in [Conns -> BOOLEAN] /\ failed' \in BOOLEAN
    BY <1>0, <1>6
  <2>2. Moves(w, "get", NULL, NULL, FALSE)
    BY <1>0, <1>6, GotoMoves DEF Pcs
  <2> QED
    BY <1>1, <1>2, <1>6, <2>1, <2>2, GivePlain
<1> QED
  BY <1>1, <1>4, <1>5, <1>6 DEF HandleAccept

\* Received data is enqueued.
LEMMA EnqueueDataKept ==
  ASSUME IInv, NEW w \in Workers, EnqueueData(w)
  PROVE  IInv'
<1>0. TypeOK /\ open \in [Conns -> BOOLEAN] /\ failed \in BOOLEAN
  BY Types DEF IInv
<1>1. PICK x \in Conns : x = wk[w].c /\ wk[w].pc = "enqueue" /\ Held(wk[w]) = x
  BY WorkerFacts DEF EnqueueData, WorkerOK, HoldPcs, Packets, Held
<1>2. /\ UNCHANGED <<counts, SockCritSec, gOutstandingSends, clients, leaked,
                     bClosing, freed, open, failed, overlap, misuse>>
      /\ gPendingSendList' = Append(gPendingSendList, x)
      /\ buf' = [buf EXCEPT ![x] = "pending"] /\ Goto(w, "process")
  BY <1>1 DEF EnqueueData, Enqueue, life, history
<1>3. Moves(w, "process", wk[w].c, wk[w].p, wk[w].cleanup)
  BY <1>0, <1>2, GotoMoves DEF Pcs
<1>4. wk[w].p = NULL
  BY <1>1, WorkerFacts DEF WorkerOK
<1>5. open' \in [Conns -> BOOLEAN] /\ failed' \in BOOLEAN
  BY <1>0, <1>2
<1> QED
  BY <1>1, <1>2, <1>3, <1>4, <1>5, GivePlain

\* bClosing is set by a worker that is alone with the connection.
LEMMA MarkClosingKept ==
  ASSUME IInv, NEW w \in Workers, MarkClosing(w)
  PROVE  IInv'
<1>0. /\ TypeOK /\ ShapeInv /\ FreeInv /\ AloneInv
      /\ Own(buf, wk) /\ Queued(buf, gPendingSendList)
      /\ wk \in [Workers -> WorkerState] /\ NULL \notin Conns
      /\ buf \in [Conns -> BufStates] /\ bClosing \in [Conns -> BOOLEAN]
  BY Types, Nulls DEF IInv
<1>1. PICK x \in Conns : x = wk[w].c /\ wk[w].pc = "closing" /\ Held(wk[w]) = x
  BY WorkerFacts DEF MarkClosing, WorkerOK, HoldPcs, Packets, Held
<1>2. /\ UNCHANGED <<counts, SockCritSec, gOutstandingSends, clients, leaked,
                     open, freed, failed, overlap, misuse, gPendingSendList>>
      /\ bClosing' = [bClosing EXCEPT ![x] = TRUE]
      /\ buf' = [buf EXCEPT ![x] = "free"] /\ Goto(w, "lastOp")
  BY <1>1 DEF MarkClosing, history
<1>3. wk[w].p = NULL
  BY <1>1, WorkerFacts DEF WorkerOK
<1>4. Moves(w, "lastOp", x, NULL, wk[w].cleanup)
  BY <1>0, <1>1, <1>2, <1>3, GotoMoves DEF Pcs
<1>5. /\ wk' \in [Workers -> WorkerState] /\ \A v \in Workers \ {w} : wk'[v] = wk[v]
      /\ wk'[w].pc = "lastOp" /\ wk'[w].c = x /\ wk'[w].p = NULL
      /\ wk'[w].cleanup = wk[w].cleanup
  BY <1>4 DEF Moves
<1>6. Gives(w, x, "free")
  <2>1. Held(wk'[w]) = NULL
    BY <1>5 DEF Held, HoldPcs, Packets
  <2> QED
    BY <1>1, <1>2, <1>5, <2>1 DEF Gives
<1>7. Plain(w)
  BY <1>1, <1>2, <1>5, <1>6 DEF Plain, CountPcs
<1>8. WorkerOK(wk'[w])
  BY <1>0, <1>5 DEF WorkerOK
<1>9. Handles(w)
  BY <1>5, <1>7, PlainCounts
<1>10. \A c \in Conns : buf[c] \in Over => buf'[c] \in Over
  BY <1>0, <1>5, <1>9, BufKept
<1>11. FreeInv'
  <2>1. buf'[x] \in Over
    BY <1>0, <1>2 DEF Over
  <2>2. \A c \in Conns : (bClosing'[c] \/ freed'[c]) =>
          bClosing[c] \/ freed[c] \/ buf'[c] \in Over
    BY <1>0, <1>2, <2>1
  <2> QED
    BY <1>0, <1>5, <1>10, <2>1, <2>2, FreeKept
<1>12. AloneInv'
  <2>1. SUFFICES ASSUME ~overlap PROVE
        /\ ~misuse
        /\ \A c \in Conns : freed[c] => \A v \in Workers : ~Uses(wk'[v], c)
        /\ \A v \in Workers : Final(wk'[v], bClosing') =>
             \A u \in Workers \ {v} : ~Uses(wk'[u], wk'[v].c)
    BY <1>2 DEF AloneInv
  <2>2. \A v \in Workers : \A c : Uses(wk'[v], c) <=> Uses(wk[v], c)
    BY <1>1, <1>3, <1>5 DEF Uses
  <2>3. ~misuse /\ \A c \in Conns : freed[c] => \A v \in Workers : ~Uses(wk'[v], c)
    BY <1>0, <2>1, <2>2 DEF AloneInv
  <2>4. Final(wk[w], bClosing)
    BY <1>0, <1>1 DEF Final, HoldPcs
  <2>5. \A v \in Workers \ {w} : ~Uses(wk[v], x)
    BY <1>0, <1>1, <2>1, <2>4 DEF AloneInv
  <2>6. ASSUME NEW v \in Workers, Final(wk'[v], bClosing'), NEW u \in Workers \ {v}
        PROVE  ~Uses(wk'[u], wk'[v].c)
    <3>1. CASE v = w
      BY <1>5, <2>2, <2>5, <3>1
    <3>2. CASE v # w
      <4>1. wk'[v] = wk[v] /\ wk[v].c \in Conns /\ wk[v].c # x
        <5>1. wk'[v] = wk[v] /\ wk[v].c \in Conns
          BY <1>0, <1>5, <2>6, <3>2 DEF Final, WorkerState
        <5>2. buf[x] = "mine"
          BY <1>0, <1>1 DEF Own
        <5>3. wk[v].pc = "freeBuf" => buf[wk[v].c] \in Over
          BY <1>0 DEF FreeInv, FreePcs
        <5>4. wk[v].pc # "freeBuf" => wk[v].c # x
          BY <2>5, <3>2 DEF Uses
        <5> QED
          BY <5>1, <5>2, <5>3, <5>4 DEF Over
      <4>2. Final(wk[v], bClosing)
        BY <1>0, <1>2, <2>6, <4>1 DEF Final
      <4> QED
        BY <1>0, <2>1, <2>2, <4>1, <4>2 DEF AloneInv
    <3> QED
      BY <3>1, <3>2
  <2> QED
    BY <2>3, <2>6
<1>13. RestOK'
  BY <1>0, <1>2, RestTyped DEF RestOK, counts
<1> QED
  BY <1>5, <1>7, <1>8, <1>11, <1>12, <1>13, PlainDone

\* The test for the last operation, under the lock.
LEMMA TestLastOpKept ==
  ASSUME IInv, NEW w \in Workers, TestLastOp(w)
  PROVE  IInv'
<1>0. TypeOK /\ open \in [Conns -> BOOLEAN] /\ failed \in BOOLEAN /\ NULL \notin Conns
  BY Types, Nulls DEF IInv
<1>1. PICK cl \in BOOLEAN : Become(w, [wk[w] EXCEPT !.pc = "process", !.cleanup = cl])
  BY DEF TestLastOp
<1>2. /\ wk[w].pc = "lastOp"
      /\ UNCHANGED <<counts, SockCritSec, gOutstandingSends, clients, leaked, buf,
                     gPendingSendList, bClosing, freed, open, failed, overlap, misuse>>
  BY DEF TestLastOp, life, history
<1>3. /\ wk[w] \in WorkerState /\ WorkerOK(wk[w])
      /\ wk[w].c \in Conns /\ buf[wk[w].c] \in Over
  BY <1>2, WorkerFacts DEF FreePcs
<1>4. wk[w].p = NULL
  BY <1>2, <1>3 DEF WorkerOK
<1>5. /\ wk' \in [Workers -> WorkerState] /\ \A v \in Workers \ {w} : wk'[v] = wk[v]
      /\ wk'[w].pc = "process" /\ wk'[w].c = wk[w].c /\ wk'[w].p = NULL
  <2>1. PICK r \in WorkerState : /\ Become(w, r) /\ r.pc = "process"
                                 /\ r.c = wk[w].c /\ r.p = NULL
    <3> DEFINE r == [wk[w] EXCEPT !.pc = "process", !.cleanup = cl]
    <3>1. r \in WorkerState /\ r.pc = "process" /\ r.c = wk[w].c /\ r.p = NULL
      BY <1>3, <1>4 DEF WorkerState, Pcs
    <3>2. Become(w, r)
      BY <1>1
    <3> HIDE DEF r
    <3> QED
      BY <3>1, <3>2
  <2> QED
    BY <1>0, <2>1, BecomeMoves DEF Moves
<1>6. Plain(w)
  <2>1. Held(wk[w]) = NULL /\ Held(wk'[w]) = NULL
    BY <1>2, <1>5 DEF Held, HoldPcs, Packets
  <2> QED
    BY <1>2, <1>5, <2>1 DEF Plain, Stays, CountPcs
<1>7. WorkerOK(wk'[w])
  BY <1>0, <1>3, <1>5 DEF WorkerOK
<1>8. Final(wk[w], bClosing)
  BY <1>0, <1>2, <1>3 DEF Final, FreePcs
<1>9. open' \in [Conns -> BOOLEAN] /\ failed' \in BOOLEAN
  BY <1>0, <1>2
<1> QED
  BY <1>2, <1>3, <1>5, <1>6, <1>7, <1>8, <1>9, PlainStep

-----------------------------------------------------------------------------
(* The steps that post, handle or count an operation.                      *)

\* Such a step ends no connection anew.
LEMMA HandledStep ==
  ASSUME IInv, NEW w \in Workers, wk' \in [Workers -> WorkerState],
         \A v \in Workers \ {w} : wk'[v] = wk[v], WorkerOK(wk'[w]), Handles(w),
         UNCHANGED <<clients, life, overlap, misuse>>, RestOK',
         LockInv', RecvInv', SendInv', SendsInv',
         wk'[w].c \in {wk[w].c, NULL}, wk'[w].p \in {wk[w].p, NULL},
         Final(wk'[w], bClosing) => Final(wk[w], bClosing),
         wk[w].pc # "freeBuf",
         (wk'[w].pc \in FreePcs \/ wk'[w].cleanup) =>
            buf[wk'[w].c] \in Over \/ buf'[wk'[w].c] \in Over
  PROVE  IInv'
<1>0. /\ TypeOK /\ ShapeInv /\ Own(buf, wk) /\ Queued(buf, gPendingSendList)
      /\ FreeInv /\ AloneInv
  BY DEF IInv
<1>1. \A c \in Conns : buf[c] \in Over => buf'[c] \in Over
  BY <1>0, BufKept
<1>2. (wk'[w].pc \in FreePcs \/ wk'[w].cleanup) => wk'[w].c \in Conns
  <2>1. wk'[w].c \in Conns \cup {NULL}
    BY DEF WorkerState
  <2> QED
    BY <2>1 DEF WorkerOK
<1>3. FreeInv'
  BY <1>0, <1>1, <1>2, FreeKept DEF life
<1>4. AloneInv'
  BY <1>0, AloneKept DEF life
<1> QED
  BY <1>3, <1>4, StepDone

\* What a worker has in its hand, and what it has given away, as operations.
LEMMA BusyShift ==
  ASSUME IInv, NEW w \in Workers, wk' \in [Workers -> WorkerState],
         NEW x \in Conns, Held(wk[w]) = x, Own(buf', wk')
  PROVE  /\ Busy(buf, wk, x, RecvBufs, RecvPcs) <=> wk[w].pc \in RecvPcs
         /\ Busy(buf, wk, x, SendBufs, SentPcs) <=> wk[w].pc \in SentPcs
         /\ Busy(buf, wk, x, SendBufs, OutPcs) <=> wk[w].pc \in OutPcs
         /\ Held(wk'[w]) = x =>
              /\ Busy(buf', wk', x, RecvBufs, RecvPcs) <=> wk'[w].pc \in RecvPcs
              /\ Busy(buf', wk', x, SendBufs, SentPcs) <=> wk'[w].pc \in SentPcs
              /\ Busy(buf', wk', x, SendBufs, OutPcs) <=> wk'[w].pc \in OutPcs
         /\ buf'[x] # "mine" =>
              /\ Busy(buf', wk', x, RecvBufs, RecvPcs) <=> buf'[x] \in RecvBufs
              /\ Busy(buf', wk', x, SendBufs, SentPcs) <=> buf'[x] \in SendBufs
              /\ Busy(buf', wk', x, SendBufs, OutPcs) <=> buf'[x] \in SendBufs
<1>1. /\ RecvPcs \in SUBSET HoldPcs /\ SentPcs \in SUBSET HoldPcs
      /\ OutPcs \in SUBSET HoldPcs
      /\ "mine" \notin RecvBufs /\ "mine" \notin SendBufs
  BY DEF RecvPcs, SentPcs, OutPcs, HoldPcs, Packets, RecvBufs, SendBufs
<1>2. Own(buf, wk) /\ wk \in [Workers -> WorkerState]
  BY Types DEF IInv
<1>3. /\ Busy(buf, wk, x, RecvBufs, RecvPcs) <=> wk[w].pc \in RecvPcs
      /\ Busy(buf, wk, x, SendBufs, SentPcs) <=> wk[w].pc \in SentPcs
      /\ Busy(buf, wk, x, SendBufs, OutPcs) <=> wk[w].pc \in OutPcs
  BY <1>1, <1>2, BusyHere
<1>4. ASSUME Held(wk'[w]) = x
      PROVE  /\ Busy(buf', wk', x, RecvBufs, RecvPcs) <=> wk'[w].pc \in RecvPcs
             /\ Busy(buf', wk', x, SendBufs, SentPcs) <=> wk'[w].pc \in SentPcs
             /\ Busy(buf', wk', x, SendBufs, OutPcs) <=> wk'[w].pc \in OutPcs
  BY <1>1, <1>4, BusyHere
<1>5. ASSUME buf'[x] # "mine"
      PROVE  /\ Busy(buf', wk', x, RecvBufs, RecvPcs) <=> buf'[x] \in RecvBufs
             /\ Busy(buf', wk', x, SendBufs, SentPcs) <=> buf'[x] \in SendBufs
             /\ Busy(buf', wk', x, SendBufs, OutPcs) <=> buf'[x] \in SendBufs
  BY <1>1, <1>5, BusyHere
<1> QED
  BY <1>3, <1>4, <1>5

\* OutstandingRecv follows the receive of x.
LEMMA RecvFollows ==
  ASSUME IInv, NEW w \in Workers, NEW x \in Conns, Shift(w, x),
         wk[w].pc # "recvCount", wk'[w].pc # "recvCount",
         \/ /\ OutstandingRecv' = OutstandingRecv
            /\ Busy(buf', wk', x, RecvBufs, RecvPcs)
                 <=> Busy(buf, wk, x, RecvBufs, RecvPcs)
         \/ /\ OutstandingRecv' = [OutstandingRecv EXCEPT ![x] = @ - 1]
            /\ Busy(buf, wk, x, RecvBufs, RecvPcs)
            /\ ~Busy(buf', wk', x, RecvBufs, RecvPcs)
  PROVE  RecvInv'
<1>0. RecvInv /\ OutstandingRecv \in [Conns -> Int]
  BY RestTyped DEF IInv, RestOK
<1>1. RecvPcs \in SUBSET HoldPcs
  BY DEF RecvPcs, HoldPcs, Packets
<1>2. /\ \A c \in Conns \ {x} : OutstandingRecv'[c] = OutstandingRecv[c]
      /\ OutstandingRecv[x] \in Int
      /\ OutstandingRecv'[x] = OutstandingRecv[x]
            + One(Busy(buf', wk', x, RecvBufs, RecvPcs))
            - One(Busy(buf, wk, x, RecvBufs, RecvPcs))
  BY <1>0 DEF One
<1>3. Counted(OutstandingRecv, buf, wk, RecvBufs, RecvPcs, "recvCount")
  BY <1>0 DEF RecvInv
<1>4. Counted(OutstandingRecv', buf', wk', RecvBufs, RecvPcs, "recvCount")
  BY <1>1, <1>2, <1>3, CountedKept
<1> QED
  BY <1>4 DEF RecvInv

\* OutstandingSend follows the send of x.
LEMMA SendFollows ==
  ASSUME IInv, NEW w \in Workers, NEW x \in Conns, Shift(w, x),
         wk[w].pc # "sendCount", wk'[w].pc # "sendCount",
         \/ /\ OutstandingSend' = OutstandingSend
            /\ Busy(buf', wk', x, SendBufs, SentPcs)
                 <=> Busy(buf, wk, x, SendBufs, SentPcs)
         \/ /\ OutstandingSend' = [OutstandingSend EXCEPT ![x] = @ - 1]
            /\ Busy(buf, wk, x, SendBufs, SentPcs)
            /\ ~Busy(buf', wk', x, SendBufs, SentPcs)
  PROVE  SendInv'
<1>0. SendInv /\ OutstandingSend \in [Conns -> Int]
  BY RestTyped DEF IInv, RestOK
<1>1. SentPcs \in SUBSET HoldPcs
  BY DEF SentPcs, HoldPcs, Packets
<1>2. /\ \A c \in Conns \ {x} : OutstandingSend'[c] = OutstandingSend[c]
      /\ OutstandingSend[x] \in Int
      /\ OutstandingSend'[x] = OutstandingSend[x]
            + One(Busy(buf', wk', x, SendBufs, SentPcs))
            - One(Busy(buf, wk, x, SendBufs, SentPcs))
  BY <1>0 DEF One
<1>3. Counted(OutstandingSend, buf, wk, SendBufs, SentPcs, "sendCount")
  BY <1>0 DEF SendInv
<1>4. Counted(OutstandingSend', buf', wk', SendBufs, SentPcs, "sendCount")
  BY <1>1, <1>2, <1>3, CountedKept
<1> QED
  BY <1>4 DEF SendInv

\* gOutstandingSends and leaked follow the send of x.
LEMMA SendsFollow ==
  ASSUME IInv, NEW w \in Workers, NEW x \in Conns, Shift(w, x),
         wk[w].pc \notin {"sendCount", "gCount"},
         \/ /\ wk'[w].pc \notin {"sendCount", "gCount"}
            /\ UNCHANGED <<gOutstandingSends, leaked>>
            /\ Busy(buf', wk', x, SendBufs, OutPcs) <=> Busy(buf, wk, x, SendBufs, OutPcs)
         \/ /\ wk'[w].pc \notin {"sendCount", "gCount"}
            /\ \/ gOutstandingSends' = gOutstandingSends - 1 /\ leaked' = leaked
               \/ gOutstandingSends' = gOutstandingSends /\ leaked' = leaked + 1
            /\ Busy(buf, wk, x, SendBufs, OutPcs) /\ ~Busy(buf', wk', x, SendBufs, OutPcs)
         \/ /\ wk'[w].pc = "sendCount"
            /\ UNCHANGED <<gOutstandingSends, leaked>>
            /\ ~Busy(buf, wk, x, SendBufs, OutPcs) /\ Busy(buf', wk', x, SendBufs, OutPcs)
  PROVE  SendsInv'
<1>0. /\ IsFiniteSet(Posted) /\ gOutstandingSends \in Int /\ leaked \in Nat
      /\ gOutstandingSends + Cardinality(Uncounted) = Cardinality(Posted) + leaked
  BY RestTyped DEF IInv, SendsInv, RestOK
<1>1. \A v \in Workers \ {w} : wk'[v] = wk[v]
  BY DEF Shift
<1>2. /\ Cardinality(Uncounted) \in Nat /\ Cardinality(Uncounted') \in Nat
      /\ Cardinality(Posted) \in Nat /\ Cardinality(Posted') \in Nat
      /\ IsFiniteSet(Posted')
  BY <1>0, <1>1, UncountedMoves, PostedMoves
<1>3. CASE wk'[w].pc \notin {"sendCount", "gCount"}
  <2>1. Cardinality(Uncounted') = Cardinality(Uncounted)
    BY <1>1, <1>3, UncountedMoves
  <2>2. \/ /\ UNCHANGED <<gOutstandingSends, leaked>>
           /\ Cardinality(Posted') = Cardinality(Posted)
        \/ /\ \/ gOutstandingSends' = gOutstandingSends - 1 /\ leaked' = leaked
              \/ gOutstandingSends' = gOutstandingSends /\ leaked' = leaked + 1
           /\ Cardinality(Posted') = Cardinality(Posted) - 1
    BY <1>0, <1>3, PostedMoves
  <2>3. gOutstandingSends' + Cardinality(Uncounted') = Cardinality(Posted') + leaked'
    BY <1>0, <1>2, <2>1, <2>2
  <2> QED
    BY <1>2, <2>3 DEF SendsInv
<1>4. CASE wk'[w].pc = "sendCount"
  <2>1. Cardinality(Uncounted') = Cardinality(Uncounted) + 1
    BY <1>1, <1>4, UncountedMoves
  <2>2. /\ UNCHANGED <<gOutstandingSends, leaked>>
        /\ Cardinality(Posted') = Cardinality(Posted) + 1
    BY <1>0, <1>4, PostedMoves
  <2>3. gOutstandingSends' + Cardinality(Uncounted') = Cardinality(Posted') + leaked'
    BY <1>0, <1>2, <2>1, <2>2
  <2> QED
    BY <1>2, <2>3 DEF SendsInv
<1> QED
  BY <1>3, <1>4

\* A worker goes on with the buffer in its hand.
LEMMA HoldOn ==
  ASSUME IInv, NEW w \in Workers, NEW l \in HoldPcs, Goto(w, l),
         wk[w].pc \in HoldPcs,
         UNCHANGED <<SockCritSec, life, buf, gPendingSendList, clients, history>>
  PROVE  \E x \in Conns :
           /\ x = wk[w].c /\ Held(wk[w]) = x /\ Held(wk'[w]) = x
           /\ wk' \in [Workers -> WorkerState]
           /\ \A v \in Workers \ {w} : wk'[v] = wk[v]
           /\ wk'[w].pc = l /\ wk'[w].c = x /\ wk'[w].p = NULL /\ wk[w].p = NULL
           /\ wk'[w].cleanup = wk[w].cleanup
           /\ WorkerOK(wk'[w]) /\ Handles(w) /\ Shift(w, x) /\ Own(buf', wk')
           /\ LockInv'
           /\ Final(wk'[w], bClosing) => Final(wk[w], bClosing)
           /\ (wk'[w].pc \in FreePcs \/ wk'[w].cleanup) => buf[wk'[w].c] \in Over
<1>0. TypeOK /\ Own(buf, wk) /\ Queued(buf, gPendingSendList) /\ LockInv
      /\ NULL \notin Conns
  BY Nulls DEF IInv
<1>1. PICK x \in Conns : x = wk[w].c
  BY WorkerFacts DEF WorkerOK
<1>2. l \in Pcs /\ l # "get" /\ l \notin FreePcs
      /\ wk[w].pc \notin {"post", "sendCount", "gCount", "recvCount"}
      /\ l \notin {"post", "sendCount", "gCount", "recvCount"}
  BY DEF HoldPcs, Packets, Pcs, SendPcs, FreePcs
<1>3. wk[w].p = NULL /\ (wk[w].cleanup => buf[wk[w].c] \in Over)
  BY <1>2, WorkerFacts DEF WorkerOK
<1>4. Moves(w, l, x, NULL, wk[w].cleanup)
  BY <1>0, <1>1, <1>2, <1>3, GotoMoves
<1>5. /\ wk' \in [Workers -> WorkerState] /\ \A v \in Workers \ {w} : wk'[v] = wk[v]
      /\ wk'[w].pc = l /\ wk'[w].c = x /\ wk'[w].p = NULL
      /\ wk'[w].cleanup = wk[w].cleanup
  BY <1>4 DEF Moves
<1>6. Held(wk[w]) = x /\ Held(wk'[w]) = x /\ Locked(wk'[w]) = NULL
  BY <1>1, <1>2, <1>5 DEF Held, Locked
<1>7. WorkerOK(wk'[w])
  BY <1>0, <1>2, <1>5 DEF WorkerOK
<1>8. Stays(w)
  BY <1>5, <1>6 DEF Stays
<1>9. Handles(w) /\ Shift(w, x)
  BY <1>0, <1>6, <1>8, Shifts DEF Handles
<1>10. Own(buf', wk')
  BY <1>0, <1>5, <1>9, OwnKept
<1>11. LockInv'
  BY <1>0, <1>5, <1>6, LockKept
<1>12. Final(wk[w], bClosing)
  BY <1>0, <1>1 DEF Final
<1> QED
  BY <1>1, <1>2, <1>3, <1>5, <1>6, <1>7, <1>9, <1>10, <1>11, <1>12

\* A completed receive is taken off the count.
LEMMA HandleReadKept ==
  ASSUME IInv, NEW w \in Workers, HandleRead(w)
  PROVE  IInv'
<1>1. /\ wk[w].pc \in {"data", "zero"}
      /\ Goto(w, "enqueue") \/ Goto(w, "closing")
      /\ OutstandingRecv' = [OutstandingRecv EXCEPT ![wk[w].c] = @ - 1]
      /\ UNCHANGED <<OutstandingSend, SockCritSec, life, buf, gPendingSendList,
                     gOutstandingSends, clients, history>>
  BY DEF HandleRead
<1>2. PICK l \in {"enqueue", "closing"} : Goto(w, l)
  BY <1>1
<1>3. l \in HoldPcs /\ wk[w].pc \in HoldPcs
  BY <1>1 DEF HoldPcs, Packets
<1>4. PICK x \in Conns :
           /\ x = wk[w].c /\ Held(wk[w]) = x /\ Held(wk'[w]) = x
           /\ wk' \in [Workers -> WorkerState]
           /\ \A v \in Workers \ {w} : wk'[v] = wk[v]
           /\ wk'[w].pc = l /\ wk'[w].c = x /\ wk'[w].p = NULL /\ wk[w].p = NULL
           /\ wk'[w].cleanup = wk[w].cleanup
           /\ WorkerOK(wk'[w]) /\ Handles(w) /\ Shift(w, x) /\ Own(buf', wk')
           /\ LockInv'
           /\ Final(wk'[w], bClosing) => Final(wk[w], bClosing)
           /\ (wk'[w].pc \in FreePcs \/ wk'[w].cleanup) => buf[wk'[w].c] \in Over
  BY <1>1, <1>2, <1>3, HoldOn
<1>5. /\ wk[w].pc \in RecvPcs /\ wk[w].pc \notin SentPcs /\ wk[w].pc \notin OutPcs
      /\ wk'[w].pc \notin RecvPcs /\ wk'[w].pc \notin SentPcs
      /\ wk'[w].pc \notin OutPcs
      /\ wk[w].pc \notin CountPcs /\ wk'[w].pc \notin CountPcs
  BY <1>1, <1>4 DEF RecvPcs, SentPcs, OutPcs, CountPcs
<1>6. RecvInv' /\ SendInv' /\ SendsInv'
  <2>1. /\ Busy(buf, wk, x, RecvBufs, RecvPcs)
        /\ ~Busy(buf', wk', x, RecvBufs, RecvPcs)
        /\ ~Busy(buf, wk, x, SendBufs, SentPcs) /\ ~Busy(buf, wk, x, SendBufs, OutPcs)
        /\ ~Busy(buf', wk', x, SendBufs, SentPcs)
        /\ ~Busy(buf', wk', x, SendBufs, OutPcs)
    BY <1>4, <1>5, BusyShift
  <2>2. RecvInv'
    BY <1>1, <1>4, <1>5, <2>1, RecvFollows DEF CountPcs
  <2>3. SendInv'
    BY <1>1, <1>4, <1>5, <2>1, SendFollows DEF CountPcs
  <2>4. SendsInv'
    BY <1>1, <1>4, <1>5, <2>1, SendsFollow DEF CountPcs, history
  <2> QED
    BY <2>2, <2>3, <2>4
<1>7. RestOK'
  <2>1. TypeOK
    BY DEF IInv
  <2> QED
    BY <1>1, <1>4, <2>1, RestTyped DEF RestOK, life, history
<1> QED
  BY <1>1, <1>4, <1>6, <1>7, HandledStep DEF history

\* A completed send is taken off the count of its connection, ...
LEMMA HandleWriteKept ==
  ASSUME IInv, NEW w \in Workers, HandleWrite(w)
  PROVE  IInv'
<1>1. /\ wk[w].pc = "sent" /\ Goto(w, "gDecrement")
      /\ OutstandingSend' = [OutstandingSend EXCEPT ![wk[w].c] = @ - 1]
      /\ UNCHANGED <<OutstandingRecv, SockCritSec, life, buf, gPendingSendList,
                     gOutstandingSends, clients, history>>
  BY DEF HandleWrite
<1>3. "gDecrement" \in HoldPcs /\ wk[w].pc \in HoldPcs
  BY <1>1 DEF HoldPcs, Packets
<1>4. PICK x \in Conns :
           /\ x = wk[w].c /\ Held(wk[w]) = x /\ Held(wk'[w]) = x
           /\ wk' \in [Workers -> WorkerState]
           /\ \A v \in Workers \ {w} : wk'[v] = wk[v]
           /\ wk'[w].pc = "gDecrement" /\ wk'[w].c = x
           /\ wk'[w].p = NULL /\ wk[w].p = NULL
           /\ wk'[w].cleanup = wk[w].cleanup
           /\ WorkerOK(wk'[w]) /\ Handles(w) /\ Shift(w, x) /\ Own(buf', wk')
           /\ LockInv'
           /\ Final(wk'[w], bClosing) => Final(wk[w], bClosing)
           /\ (wk'[w].pc \in FreePcs \/ wk'[w].cleanup) => buf[wk'[w].c] \in Over
  BY <1>1, <1>3, HoldOn
<1>5. /\ wk[w].pc \notin RecvPcs /\ wk[w].pc \in SentPcs /\ wk[w].pc \in OutPcs
      /\ wk'[w].pc \notin RecvPcs /\ wk'[w].pc \notin SentPcs
      /\ wk'[w].pc \in OutPcs
      /\ wk[w].pc \notin CountPcs /\ wk'[w].pc \notin CountPcs
  BY <1>1, <1>4 DEF RecvPcs, SentPcs, OutPcs, CountPcs
<1>6. RecvInv' /\ SendInv' /\ SendsInv'
  <2>1. /\ ~Busy(buf, wk, x, RecvBufs, RecvPcs)
        /\ ~Busy(buf', wk', x, RecvBufs, RecvPcs)
        /\ Busy(buf, wk, x, SendBufs, SentPcs) /\ Busy(buf, wk, x, SendBufs, OutPcs)
        /\ ~Busy(buf', wk', x, SendBufs, SentPcs)
        /\ Busy(buf', wk', x, SendBufs, OutPcs)
    BY <1>4, <1>5, BusyShift
  <2>2. RecvInv'
    BY <1>1, <1>4, <1>5, <2>1, RecvFollows DEF CountPcs
  <2>3. SendInv'
    BY <1>1, <1>4, <1>5, <2>1, SendFollows DEF CountPcs
  <2>4. SendsInv'
    BY <1>1, <1>4, <1>5, <2>1, SendsFollow DEF CountPcs, history
  <2> QED
    BY <2>2, <2>3, <2>4
<1>7. RestOK'
  <2>1. TypeOK
    BY DEF IInv
  <2> QED
    BY <1>1, <1>4, <2>1, RestTyped DEF RestOK, life, history
<1> QED
  BY <1>1, <1>4, <1>6, <1>7, HandledStep DEF history

\* ... and of gOutstandingSends.
LEMMA DecrementSendsKept ==
  ASSUME IInv, NEW w \in Workers, DecrementSends(w)
  PROVE  IInv'
<1>1. /\ wk[w].pc = "gDecrement" /\ Goto(w, "recv")
      /\ gOutstandingSends' = gOutstandingSends - 1
      /\ UNCHANGED <<OutstandingRecv, OutstandingSend, SockCritSec, life, buf,
                     gPendingSendList, clients, history>>
  BY DEF DecrementSends, counts
<1>3. "recv" \in HoldPcs /\ wk[w].pc \in HoldPcs
  BY <1>1 DEF HoldPcs, Packets
<1>4. PICK x \in Conns :
           /\ x = wk[w].c /\ Held(wk[w]) = x /\ Held(wk'[w]) = x
           /\ wk' \in [Workers -> WorkerState]
           /\ \A v \in Workers \ {w} : wk'[v] = wk[v]
           /\ wk'[w].pc = "recv" /\ wk'[w].c = x
           /\ wk'[w].p = NULL /\ wk[w].p = NULL
           /\ wk'[w].cleanup = wk[w].cleanup
           /\ WorkerOK(wk'[w]) /\ Handles(w) /\ Shift(w, x) /\ Own(buf', wk')
           /\ LockInv'
           /\ Final(wk'[w], bClosing) => Final(wk[w], bClosing)
           /\ (wk'[w].pc \in FreePcs \/ wk'[w].cleanup) => buf[wk'[w].c] \in Over
  BY <1>1, <1>3, HoldOn
<1>5. /\ wk[w].pc \notin RecvPcs /\ wk[w].pc \notin SentPcs /\ wk[w].pc \in OutPcs
      /\ wk'[w].pc \notin RecvPcs /\ wk'[w].pc \notin SentPcs
      /\ wk'[w].pc \notin OutPcs
      /\ wk[w].pc \notin CountPcs /\ wk'[w].pc \notin CountPcs
  BY <1>1, <1>4 DEF RecvPcs, SentPcs, OutPcs, CountPcs
<1>6. RecvInv' /\ SendInv' /\ SendsInv'
  <2>1. /\ ~Busy(buf, wk, x, RecvBufs, RecvPcs)
        /\ ~Busy(buf', wk', x, RecvBufs, RecvPcs)
        /\ ~Busy(buf, wk, x, SendBufs, SentPcs) /\ Busy(buf, wk, x, SendBufs, OutPcs)
        /\ ~Busy(buf', wk', x, SendBufs, SentPcs)
        /\ ~Busy(buf', wk', x, SendBufs, OutPcs)
    BY <1>4, <1>5, BusyShift
  <2>2. RecvInv'
    BY <1>1, <1>4, <1>5, <2>1, RecvFollows DEF CountPcs
  <2>3. SendInv'
    BY <1>1, <1>4, <1>5, <2>1, SendFollows DEF CountPcs
  <2>4. SendsInv'
    BY <1>1, <1>4, <1>5, <2>1, SendsFollow DEF CountPcs, history
  <2> QED
    BY <2>2, <2>3, <2>4
<1>7. RestOK'
  <2>1. TypeOK
    BY DEF IInv
  <2> QED
    BY <1>1, <1>4, <2>1, RestTyped DEF RestOK, life, history
<1> QED
  BY <1>1, <1>4, <1>6, <1>7, HandledStep DEF history

\* A worker gives the buffer of x to the kernel or frees it.
LEMMA GiveOn ==
  ASSUME IInv, NEW w \in Workers, wk' \in [Workers -> WorkerState],
         NEW x \in Conns, NEW b \in {"done", "free", "recv", "send"},
         Held(wk[w]) = x,
         Held(wk'[w]) = NULL, \A v \in Workers \ {w} : wk'[v] = wk[v],
         buf' = [buf EXCEPT ![x] = b], gPendingSendList' = gPendingSendList
  PROVE  /\ Handles(w) /\ Shift(w, x) /\ Own(buf', wk')
         /\ buf'[x] = b /\ buf'[x] # "mine"
<1>0. TypeOK /\ Own(buf, wk) /\ Queued(buf, gPendingSendList)
      /\ buf \in [Conns -> BufStates] /\ b \in BufStates
  BY Types DEF IInv, BufStates
<1>1. Gives(w, x, b)
  BY DEF Gives
<1>2. Handles(w) /\ Shift(w, x)
  BY <1>0, <1>1, Shifts DEF Handles
<1>3. Own(buf', wk')
  BY <1>0, <1>2, OwnKept
<1> QED
  BY <1>0, <1>2, <1>3

\* An operation that failed is taken off its count, a send not off
\* gOutstandingSends.
LEMMA HandleErrorKept ==
  ASSUME IInv, NEW w \in Workers, HandleError(w)
  PROVE  IInv'
<1>0. TypeOK /\ LockInv /\ NULL \notin Conns
  BY Nulls DEF IInv
<1>1. PICK x \in Conns : x = wk[w].c /\ Held(wk[w]) = x
  BY WorkerFacts DEF HandleError, WorkerOK, HoldPcs, Packets, Held
<1>2. /\ buf' = [buf EXCEPT ![x] = "done"]
      /\ UNCHANGED <<SockCritSec, life, gPendingSendList, gOutstandingSends,
                     clients, failed, overlap, misuse>>
      /\ \/ /\ wk[w].pc = "recvErr"
            /\ OutstandingRecv' = [OutstandingRecv EXCEPT ![x] = @ - 1]
            /\ UNCHANGED <<OutstandingSend, leaked>>
         \/ /\ wk[w].pc = "sendErr"
            /\ OutstandingSend' = [OutstandingSend EXCEPT ![x] = @ - 1]
            /\ leaked' = leaked + 1 /\ UNCHANGED OutstandingRecv
  BY <1>1 DEF HandleError
<1>3. PICK l \in {"errSend", "errRecv", "freeBuf"} : Goto(w, l)
  BY DEF HandleError
<1>4. /\ wk[w].p = NULL /\ wk[w].cleanup \in BOOLEAN
      /\ (wk[w].cleanup => buf[wk[w].c] \in Over)
  BY <1>2, WorkerFacts DEF WorkerOK
<1>5. Moves(w, l, wk[w].c, wk[w].p, wk[w].cleanup)
  BY <1>0, <1>3, GotoMoves DEF Pcs
<1>6. /\ wk' \in [Workers -> WorkerState] /\ \A v \in Workers \ {w} : wk'[v] = wk[v]
      /\ wk'[w].pc = l /\ wk'[w].p = NULL /\ wk'[w].c = x /\ wk[w].c = x
      /\ wk'[w].cleanup = wk[w].cleanup
  BY <1>1, <1>4, <1>5 DEF Moves
<1>7. Held(wk'[w]) = NULL /\ Locked(wk'[w]) = NULL
  BY <1>6 DEF Held, Locked, HoldPcs, Packets
<1>8. /\ Handles(w) /\ Shift(w, x) /\ Own(buf', wk')
      /\ buf'[x] = "done" /\ buf'[x] # "mine"
  BY <1>1, <1>2, <1>6, <1>7, GiveOn
<1>9. WorkerOK(wk'[w])
  BY <1>0, <1>6 DEF WorkerOK, HoldPcs, FreePcs, Packets
<1>10. LockInv'
  BY <1>0, <1>2, <1>6, <1>7, LockKept
<1>11. /\ wk[w].pc \notin CountPcs /\ wk'[w].pc \notin CountPcs
       /\ buf'[x] \notin RecvBufs /\ buf'[x] \notin SendBufs
       /\ wk[w].pc = "recvErr" => /\ wk[w].pc \in RecvPcs /\ wk[w].pc \notin SentPcs
                                  /\ wk[w].pc \notin OutPcs
       /\ wk[w].pc = "sendErr" => /\ wk[w].pc \notin RecvPcs /\ wk[w].pc \in SentPcs
                                  /\ wk[w].pc \in OutPcs
  BY <1>2, <1>6, <1>8 DEF RecvPcs, SentPcs, OutPcs, CountPcs, RecvBufs, SendBufs
<1>12. RecvInv' /\ SendInv' /\ SendsInv'
  <2>1. /\ Busy(buf, wk, x, RecvBufs, RecvPcs) <=> wk[w].pc = "recvErr"
        /\ Busy(buf, wk, x, SendBufs, SentPcs) <=> wk[w].pc = "sendErr"
        /\ Busy(buf, wk, x, SendBufs, OutPcs) <=> wk[w].pc = "sendErr"
        /\ ~Busy(buf', wk', x, RecvBufs, RecvPcs)
        /\ ~Busy(buf', wk', x, SendBufs, SentPcs)
        /\ ~Busy(buf', wk', x, SendBufs, OutPcs)
    BY <1>1, <1>2, <1>6, <1>8, <1>11, BusyShift
  <2>2. RecvInv'
    BY <1>2, <1>8, <1>11, <2>1, RecvFollows DEF CountPcs
  <2>3. SendInv'
    BY <1>2, <1>8, <1>11, <2>1, SendFollows DEF CountPcs
  <2>4. SendsInv'
    BY <1>2, <1>8, <1>11, <2>1, SendsFollow DEF CountPcs
  <2> QED
    BY <2>2, <2>3, <2>4
<1>13. RestOK'
  BY <1>0, <1>2, RestTyped DEF RestOK, life
<1>14. Final(wk[w], bClosing)
  BY <1>0, <1>1, <1>2 DEF Final, HoldPcs, Packets
<1>15. (wk'[w].pc \in FreePcs \/ wk'[w].cleanup) => buf'[wk'[w].c] \in Over
  BY <1>6, <1>8 DEF Over
<1> QED
  BY <1>2, <1>6, <1>8, <1>9, <1>10, <1>12, <1>13, <1>14, <1>15, HandledStep

\* A receive is posted under the lock, or the buffer is lost.
LEMMA PostRecvKept ==
  ASSUME IInv, NEW w \in Workers, PostRecv(w)
  PROVE  IInv'
<1>0. /\ TypeOK /\ LockInv /\ RecvInv /\ NULL \notin Conns /\ NULL \notin Workers
      /\ open \in [Conns -> BOOLEAN]
  BY Types, Nulls DEF IInv
<1>1. PICK x \in Conns : x = wk[w].c /\ Held(wk[w]) = x /\ wk[w].pc = "recv"
  BY WorkerFacts DEF PostRecv, WorkerOK, HoldPcs, Packets, Held
<1>2. UNCHANGED <<counts, life, gPendingSendList, gOutstandingSends, clients,
                  leaked, overlap, misuse>>
  BY DEF PostRecv
<1>3. /\ wk[w].p = NULL /\ wk[w].cleanup \in BOOLEAN
      /\ (wk[w].cleanup => buf[wk[w].c] \in Over)
  BY <1>1, WorkerFacts DEF WorkerOK
<1>4. CASE /\ buf' = [buf EXCEPT ![x] = "lost"] /\ failed' = TRUE
           /\ Goto(w, "process") /\ UNCHANGED SockCritSec
  <2>1. Moves(w, "process", x, NULL, wk[w].cleanup)
    BY <1>0, <1>1, <1>3, <1>4, GotoMoves DEF Pcs
  <2>2. open' \in [Conns -> BOOLEAN] /\ failed' \in BOOLEAN
    BY <1>0, <1>2, <1>4 DEF life
  <2> QED
    BY <1>1, <1>2, <1>4, <2>1, <2>2, GivePlain DEF life
<1>5. CASE /\ SockCritSec[x] = NULL /\ SockCritSec' = [SockCritSec EXCEPT ![x] = w]
           /\ buf' = [buf EXCEPT ![x] = "recv"]
           /\ Goto(w, "recvCount") /\ UNCHANGED failed
  <2>1. Moves(w, "recvCount", x, NULL, wk[w].cleanup)
    BY <1>0, <1>1, <1>3, <1>5, GotoMoves DEF Pcs
  <2>2. /\ wk' \in [Workers -> WorkerState]
        /\ \A v \in Workers \ {w} : wk'[v] = wk[v]
        /\ wk'[w].pc = "recvCount" /\ wk'[w].p = NULL /\ wk'[w].c = x
        /\ wk'[w].cleanup = wk[w].cleanup
    BY <2>1 DEF Moves
  <2>3. Held(wk'[w]) = NULL /\ Locked(wk'[w]) = x
    BY <2>2 DEF Held, Locked, HoldPcs, Packets
  <2>4. /\ Handles(w) /\ Shift(w, x) /\ Own(buf', wk')
        /\ buf'[x] = "recv" /\ buf'[x] # "mine"
    BY <1>1, <1>2, <1>5, <2>2, <2>3, GiveOn
  <2>5. WorkerOK(wk'[w])
    BY <1>0, <2>2 DEF WorkerOK
  <2>6. LockInv'
    BY <1>0, <1>5, <2>2, <2>3, LockKept
  <2>7. /\ wk[w].pc \notin RecvPcs /\ wk[w].pc \notin SentPcs
        /\ wk[w].pc \notin OutPcs /\ wk[w].pc \notin CountPcs
        /\ buf'[x] \in RecvBufs /\ buf'[x] \notin SendBufs
        /\ RecvPcs \in SUBSET HoldPcs
    BY <1>1, <2>4
       DEF RecvPcs, SentPcs, OutPcs, CountPcs, RecvBufs, SendBufs, HoldPcs, Packets
  <2>8. /\ ~Busy(buf, wk, x, RecvBufs, RecvPcs) /\ ~Busy(buf, wk, x, SendBufs, SentPcs)
        /\ ~Busy(buf, wk, x, SendBufs, OutPcs)
        /\ Busy(buf', wk', x, RecvBufs, RecvPcs)
        /\ ~Busy(buf', wk', x, SendBufs, SentPcs)
        /\ ~Busy(buf', wk', x, SendBufs, OutPcs)
    BY <1>1, <2>2, <2>4, <2>7, BusyShift
  <2>9. RecvInv'
    <3>1. ~Lag(wk, x, "recvCount")
      <4>1. \A v \in Workers : Locked(wk[v]) # x
        BY <1>0, <1>5 DEF LockInv
      <4> QED
        BY <4>1 DEF Lag
    <3>2. Counted(OutstandingRecv, buf, wk, RecvBufs, RecvPcs, "recvCount")
      BY <1>0 DEF RecvInv
    <3>3. Counted(OutstandingRecv, buf', wk', RecvBufs, RecvPcs, "recvCount")
      BY <1>1, <2>2, <2>3, <2>4, <2>7, <2>8, <3>1, <3>2, CountedPost
    <3> QED
      BY <1>2, <3>3 DEF RecvInv, counts
  <2>10. SendInv'
    BY <1>1, <1>2, <2>2, <2>4, <2>8, SendFollows DEF counts
  <2>11. SendsInv'
    BY <1>1, <1>2, <2>2, <2>4, <2>8, SendsFollow
  <2>12. RestOK'
    BY <1>0, <1>2, <1>5, RestTyped DEF RestOK, life, counts
  <2>13. Final(wk[w], bClosing)
    BY <1>0, <1>1 DEF Final, HoldPcs
  <2>14. (wk'[w].pc \in FreePcs \/ wk'[w].cleanup) => buf[wk'[w].c] \in Over
    BY <1>1, <1>3, <2>2 DEF FreePcs
  <2> QED
    BY <1>1, <1>2, <2>2, <2>4, <2>5, <2>6, <2>9, <2>10, <2>11, <2>12, <2>13,
       <2>14, HandledStep
<1> QED
  BY <1>1, <1>4, <1>5 DEF PostRecv

\* A send is posted under the lock, or the buffer is freed.
LEMMA PostSendKept ==
  ASSUME IInv, NEW w \in Workers, PostSend(w)
  PROVE  IInv'
<1>0. /\ TypeOK /\ LockInv /\ SendInv /\ NULL \notin Conns /\ NULL \notin Workers
      /\ open \in [Conns -> BOOLEAN] /\ wk \in [Workers -> WorkerState]
  BY Types, Nulls DEF IInv
<1>1. PICK x \in Conns : x = wk[w].p /\ Held(wk[w]) = x /\ wk[w].pc = "post"
  BY WorkerFacts DEF PostSend, WorkerOK, HoldPcs, Packets, Held
<1>2. UNCHANGED <<counts, life, gPendingSendList, gOutstandingSends, clients,
                  leaked, overlap, misuse>>
  BY DEF PostSend
<1>3. /\ wk[w].cleanup \in BOOLEAN /\ WorkerOK(wk[w])
      /\ (wk[w].cleanup => buf[wk[w].c] \in Over)
  BY <1>1, WorkerFacts
<1>4. CASE /\ buf' = [buf EXCEPT ![x] = "free"] /\ failed' = TRUE
           /\ Become(w, [wk[w] EXCEPT !.pc = "tail", !.p = NULL])
           /\ UNCHANGED SockCritSec
  <2>1. Moves(w, "tail", wk[w].c, NULL, wk[w].cleanup)
    <3>1. PICK r \in WorkerState : /\ Become(w, r) /\ r.pc = "tail"
                                   /\ r.c = wk[w].c /\ r.p = NULL
                                   /\ r.cleanup = wk[w].cleanup
      <4> DEFINE r == [wk[w] EXCEPT !.pc = "tail", !.p = NULL]
      <4>1. /\ r \in WorkerState /\ r.pc = "tail" /\ r.c = wk[w].c
            /\ r.p = NULL /\ r.cleanup = wk[w].cleanup
        BY <1>0 DEF WorkerState, Pcs
      <4>2. Become(w, r)
        BY <1>4
      <4> HIDE DEF r
      <4> QED
        BY <4>1, <4>2
    <3> QED
      BY <1>0, <3>1, BecomeMoves
  <2>2. open' \in [Conns -> BOOLEAN] /\ failed' \in BOOLEAN
    BY <1>0, <1>2, <1>4 DEF life
  <2> QED
    BY <1>1, <1>2, <1>4, <2>1, <2>2, GivePlain DEF life
<1>5. CASE /\ SockCritSec' = [SockCritSec EXCEPT ![x] = w]
           /\ buf' = [buf EXCEPT ![x] = "send"]
           /\ Goto(w, "sendCount") /\ UNCHANGED failed
  <2>0. SockCritSec[x] = NULL
    BY <1>1 DEF PostSend
  <2>1. Moves(w, "sendCount", wk[w].c, x, wk[w].cleanup)
    BY <1>0, <1>1, <1>5, GotoMoves DEF Pcs, SendPcs
  <2>2. /\ wk' \in [Workers -> WorkerState]
        /\ \A v \in Workers \ {w} : wk'[v] = wk[v]
        /\ wk'[w].pc = "sendCount" /\ wk'[w].p = x /\ wk'[w].c = wk[w].c
        /\ wk'[w].cleanup = wk[w].cleanup
    BY <2>1 DEF Moves
  <2>3. Held(wk'[w]) = NULL /\ Locked(wk'[w]) = x
    BY <2>2 DEF Held, Locked, HoldPcs, Packets
  <2>4. /\ Handles(w) /\ Shift(w, x) /\ Own(buf', wk')
        /\ buf'[x] = "send" /\ buf'[x] # "mine"
    BY <1>1, <1>2, <1>5, <2>2, <2>3, GiveOn
  <2>5. WorkerOK(wk'[w])
    BY <1>0, <1>3, <2>2 DEF WorkerOK, HoldPcs, FreePcs, Packets
  <2>6. LockInv'
    BY <1>0, <1>5, <2>0, <2>2, <2>3, LockKept
  <2>7. /\ wk[w].pc \notin RecvPcs /\ wk[w].pc \notin SentPcs
        /\ wk[w].pc \notin OutPcs /\ wk[w].pc \notin CountPcs
        /\ buf'[x] \notin RecvBufs /\ buf'[x] \in SendBufs
        /\ SentPcs \in SUBSET HoldPcs
    BY <1>1, <2>4
       DEF RecvPcs, SentPcs, OutPcs, CountPcs, RecvBufs, SendBufs, HoldPcs, Packets
  <2>8. /\ ~Busy(buf, wk, x, RecvBufs, RecvPcs) /\ ~Busy(buf, wk, x, SendBufs, SentPcs)
        /\ ~Busy(buf, wk, x, SendBufs, OutPcs)
        /\ ~Busy(buf', wk', x, RecvBufs, RecvPcs)
        /\ Busy(buf', wk', x, SendBufs, SentPcs)
        /\ Busy(buf', wk', x, SendBufs, OutPcs)
    BY <1>1, <2>2, <2>4, <2>7, BusyShift
  <2>9. SendInv'
    <3>1. ~Lag(wk, x, "sendCount")
      <4>1. \A v \in Workers : Locked(wk[v]) # x
        BY <1>0, <2>0 DEF LockInv
      <4> QED
        BY <4>1 DEF Lag
    <3>2. Counted(OutstandingSend, buf, wk, SendBufs, SentPcs, "sendCount")
      BY <1>0 DEF SendInv
    <3>3. Counted(OutstandingSend, buf', wk', SendBufs, SentPcs, "sendCount")
      BY <1>1, <2>2, <2>3, <2>4, <2>7, <2>8, <3>1, <3>2, CountedPost
    <3> QED
      BY <1>2, <3>3 DEF SendInv, counts
  <2>10. RecvInv'
    BY <1>1, <1>2, <2>2, <2>4, <2>8, RecvFollows DEF counts
  <2>11. SendsInv'
    BY <1>1, <1>2, <2>2, <2>4, <2>8, SendsFollow
  <2>12. RestOK'
    BY <1>0, <1>2, <1>5, RestTyped DEF RestOK, life, counts
  <2>13. Final(wk'[w], bClosing) => Final(wk[w], bClosing)
    BY <2>2 DEF Final, HoldPcs, FreePcs, Packets
  <2>14. (wk'[w].pc \in FreePcs \/ wk'[w].cleanup) => buf[wk'[w].c] \in Over
    BY <1>3, <2>2 DEF FreePcs
  <2> QED
    BY <1>1, <1>2, <2>2, <2>4, <2>5, <2>6, <2>9, <2>10, <2>11, <2>12, <2>13,
       <2>14, HandledStep
<1> QED
  BY <1>1, <1>4, <1>5 DEF PostSend

\* A worker that counts what it has posted has nothing in its hand.
LEMMA CountFacts ==
  ASSUME IInv, NEW w \in Workers, NEW x \in Conns, NEW l, NEW p,
         Moves(w, l, wk[w].c, p, wk[w].cleanup),
         wk[w].pc \in CountPcs, Locked(wk[w]) = x,
         l \in {"gCount", "process"}, p = IF l = "gCount" THEN wk[w].p ELSE NULL,
         wk[w].pc = "recvCount" => l = "process",
         UNCHANGED <<life, buf, gPendingSendList, clients, overlap, misuse>>,
         RestOK', LockInv', RecvInv', SendInv', SendsInv'
  PROVE  IInv'
<1>0. TypeOK
  BY DEF IInv
<1>1. /\ wk' \in [Workers -> WorkerState] /\ \A v \in Workers \ {w} : wk'[v] = wk[v]
      /\ wk'[w].pc = l /\ wk'[w].p = p /\ wk'[w].c = wk[w].c
      /\ wk'[w].cleanup = wk[w].cleanup
  BY DEF Moves
<1>2. WorkerOK(wk[w]) /\ (wk[w].cleanup => buf[wk[w].c] \in Over)
  BY WorkerFacts
<1>3. Held(wk[w]) = NULL /\ Held(wk'[w]) = NULL
  BY <1>1 DEF Held, CountPcs, HoldPcs, Packets
<1>4. Stays(w)
  BY <1>1, <1>3 DEF Stays
<1>5. Handles(w)
  BY <1>4 DEF Handles
<1>6. WorkerOK(wk'[w])
  BY <1>1, <1>2 DEF WorkerOK, CountPcs, HoldPcs, FreePcs, Packets
<1>7. Final(wk'[w], bClosing) => Final(wk[w], bClosing)
  BY <1>1 DEF Final, HoldPcs, FreePcs, Packets
<1>8. (wk'[w].pc \in FreePcs \/ wk'[w].cleanup) => buf[wk'[w].c] \in Over
  BY <1>1, <1>2 DEF FreePcs
<1>9. wk'[w].p \in {wk[w].p, NULL} /\ wk'[w].c \in {wk[w].c, NULL}
  BY <1>1
<1> QED
  BY <1>1, <1>5, <1>6, <1>7, <1>8, <1>9, HandledStep DEF CountPcs

\* Only the worker with the lock of x is to count an operation of x.
LEMMA SoleLocker ==
  ASSUME IInv, NEW w \in Workers, NEW x \in Conns, Locked(wk[w]) = x
  PROVE  \A v \in Workers \ {w} : Locked(wk[v]) # x
BY Nulls DEF IInv, LockInv

\* A step that changes no buffer and no count of one kind.
LEMMA StayCounts ==
  ASSUME IInv, NEW w \in Workers, Shift(w, NULL)
  PROVE  /\ (/\ wk[w].pc # "recvCount" /\ wk'[w].pc # "recvCount"
             /\ OutstandingRecv' = OutstandingRecv) => RecvInv'
         /\ (/\ wk[w].pc # "sendCount" /\ wk'[w].pc # "sendCount"
             /\ OutstandingSend' = OutstandingSend) => SendInv'
         /\ Cardinality(Posted') = Cardinality(Posted) /\ IsFiniteSet(Posted')
         /\ Cardinality(Posted) \in Nat
<1>0. /\ Counted(OutstandingRecv, buf, wk, RecvBufs, RecvPcs, "recvCount")
      /\ Counted(OutstandingSend, buf, wk, SendBufs, SentPcs, "sendCount")
      /\ IsFiniteSet(Posted) /\ NULL \notin Conns
  BY Nulls DEF IInv, RecvInv, SendInv, SendsInv
<1>1. RecvPcs \in SUBSET HoldPcs /\ SentPcs \in SUBSET HoldPcs
  BY DEF RecvPcs, SentPcs, HoldPcs, Packets
<1>2. ASSUME wk[w].pc # "recvCount", wk'[w].pc # "recvCount",
             OutstandingRecv' = OutstandingRecv
      PROVE  RecvInv'
  <2>1. Counted(OutstandingRecv', buf', wk', RecvBufs, RecvPcs, "recvCount")
    BY <1>0, <1>1, <1>2, CountedKept
  <2> QED
    BY <2>1 DEF RecvInv
<1>3. ASSUME wk[w].pc # "sendCount", wk'[w].pc # "sendCount",
             OutstandingSend' = OutstandingSend
      PROVE  SendInv'
  <2>1. Counted(OutstandingSend', buf', wk', SendBufs, SentPcs, "sendCount")
    BY <1>0, <1>1, <1>3, CountedKept
  <2> QED
    BY <2>1 DEF SendInv
<1>4. /\ Cardinality(Posted') = Cardinality(Posted) /\ IsFiniteSet(Posted')
      /\ Cardinality(Posted) \in Nat
  BY <1>0, PostedMoves
<1> QED
  BY <1>2, <1>3, <1>4

\* A posted receive is counted and the lock given back.
LEMMA CountRecvKept ==
  ASSUME IInv, NEW w \in Workers, CountRecv(w)
  PROVE  IInv'
<1>0. TypeOK /\ LockInv /\ RecvInv /\ SendsInv
  BY DEF IInv
<1>1. PICK x \in Conns : x = wk[w].c /\ wk[w].pc = "recvCount"
  BY WorkerFacts DEF CountRecv, WorkerOK
<1>2. /\ OutstandingRecv' = [OutstandingRecv EXCEPT ![x] = @ + 1]
      /\ SockCritSec' = [SockCritSec EXCEPT ![x] = NULL]
      /\ Goto(w, "process")
      /\ UNCHANGED <<OutstandingSend, life, buf, gPendingSendList,
                     gOutstandingSends, clients, history>>
  BY <1>1 DEF CountRecv
<1>3. wk[w].p = NULL
  BY <1>1, WorkerFacts DEF WorkerOK
<1>4. Moves(w, "process", wk[w].c, NULL, wk[w].cleanup)
  BY <1>0, <1>2, <1>3, GotoMoves DEF Pcs
<1>5. /\ wk' \in [Workers -> WorkerState] /\ \A v \in Workers \ {w} : wk'[v] = wk[v]
      /\ wk'[w].pc = "process"
  BY <1>4 DEF Moves
<1>6. Held(wk[w]) = NULL /\ Held(wk'[w]) = NULL /\ Locked(wk[w]) = x
      /\ Locked(wk'[w]) = NULL
  BY <1>1, <1>5 DEF Held, Locked, HoldPcs, Packets
<1>7. Shift(w, NULL)
  BY <1>2, <1>5, <1>6 DEF Shift
<1>8. LockInv'
  BY <1>0, <1>2, <1>5, <1>6, LockKept
<1>9. RestOK'
  BY <1>0, <1>2, RestTyped DEF RestOK, life, history
<1>10. RecvInv'
  <2>1. \A v \in Workers \ {w} : Locked(wk[v]) # x
    BY <1>6, SoleLocker
  <2>2. OutstandingRecv \in [Conns -> Int]
    BY <1>0, RestTyped DEF RestOK
  <2>3. /\ \A c \in Conns \ {x} : OutstandingRecv'[c] = OutstandingRecv[c]
        /\ OutstandingRecv'[x] = OutstandingRecv[x] + 1
    BY <1>2, <2>2
  <2>4. Counted(OutstandingRecv, buf, wk, RecvBufs, RecvPcs, "recvCount")
    BY <1>0 DEF RecvInv
  <2>5. RecvPcs \in SUBSET HoldPcs /\ wk'[w].pc # "recvCount"
    BY <1>5 DEF RecvPcs, HoldPcs, Packets
  <2>6. Counted(OutstandingRecv', buf', wk', RecvBufs, RecvPcs, "recvCount")
    BY <1>1, <1>6, <1>7, <2>1, <2>3, <2>4, <2>5, CountedCount
  <2> QED
    BY <2>6 DEF RecvInv
<1>11. SendInv'
  BY <1>1, <1>2, <1>5, <1>7, StayCounts
<1>12. SendsInv'
  <2>1. Cardinality(Uncounted') = Cardinality(Uncounted)
    BY <1>1, <1>5, UncountedMoves
  <2> QED
    BY <1>0, <1>2, <1>7, <2>1, StayCounts DEF SendsInv, history
<1> QED
  BY <1>1, <1>2, <1>4, <1>6, <1>8, <1>9, <1>10, <1>11, <1>12, CountFacts
     DEF CountPcs, history

\* A posted send is counted for its connection, ...
LEMMA CountSendKept ==
  ASSUME IInv, NEW w \in Workers, CountSend(w)
  PROVE  IInv'
<1>0. TypeOK /\ LockInv /\ SendInv /\ SendsInv
  BY DEF IInv
<1>1. PICK x \in Conns : x = wk[w].p /\ wk[w].pc = "sendCount"
  BY WorkerFacts DEF CountSend, WorkerOK
<1>2. /\ OutstandingSend' = [OutstandingSend EXCEPT ![x] = @ + 1]
      /\ Goto(w, "gCount")
      /\ UNCHANGED <<OutstandingRecv, SockCritSec, life, buf, gPendingSendList,
                     gOutstandingSends, clients, history>>
  BY <1>1 DEF CountSend
<1>4. Moves(w, "gCount", wk[w].c, wk[w].p, wk[w].cleanup)
  BY <1>0, <1>2, GotoMoves DEF Pcs, SendPcs
<1>5. /\ wk' \in [Workers -> WorkerState] /\ \A v \in Workers \ {w} : wk'[v] = wk[v]
      /\ wk'[w].pc = "gCount" /\ wk'[w].p = x
  BY <1>1, <1>4 DEF Moves
<1>6. Held(wk[w]) = NULL /\ Held(wk'[w]) = NULL /\ Locked(wk[w]) = x
      /\ Locked(wk'[w]) = x
  BY <1>1, <1>5 DEF Held, Locked, HoldPcs, Packets
<1>7. Shift(w, NULL)
  BY <1>2, <1>5, <1>6 DEF Shift
<1>8. LockInv'
  BY <1>0, <1>2, <1>5, <1>6, LockKept
<1>9. RestOK'
  BY <1>0, <1>2, RestTyped DEF RestOK, life, history
<1>10. SendInv'
  <2>1. \A v \in Workers \ {w} : Locked(wk[v]) # x
    BY <1>6, SoleLocker
  <2>2. OutstandingSend \in [Conns -> Int]
    BY <1>0, RestTyped DEF RestOK
  <2>3. /\ \A c \in Conns \ {x} : OutstandingSend'[c] = OutstandingSend[c]
        /\ OutstandingSend'[x] = OutstandingSend[x] + 1
    BY <1>2, <2>2
  <2>4. Counted(OutstandingSend, buf, wk, SendBufs, SentPcs, "sendCount")
    BY <1>0 DEF SendInv
  <2>5. SentPcs \in SUBSET HoldPcs /\ wk'[w].pc # "sendCount"
    BY <1>5 DEF SentPcs, HoldPcs, Packets
  <2>6. Counted(OutstandingSend', buf', wk', SendBufs, SentPcs, "sendCount")
    BY <1>1, <1>6, <1>7, <2>1, <2>3, <2>4, <2>5, CountedCount
  <2> QED
    BY <2>6 DEF SendInv
<1>11. RecvInv'
  BY <1>1, <1>2, <1>5, <1>7, StayCounts
<1>12. SendsInv'
  <2>1. Cardinality(Uncounted') = Cardinality(Uncounted)
    BY <1>1, <1>5, UncountedMoves
  <2> QED
    BY <1>0, <1>2, <1>7, <2>1, StayCounts DEF SendsInv, history
<1> QED
  BY <1>1, <1>2, <1>4, <1>6, <1>8, <1>9, <1>10, <1>11, <1>12, CountFacts
     DEF CountPcs, history

\* ... and in gOutstandingSends, and the lock given back.
LEMMA IncrementSendsKept ==
  ASSUME IInv, NEW w \in Workers, IncrementSends(w)
  PROVE  IInv'
<1>0. TypeOK /\ LockInv /\ SendsInv /\ wk \in [Workers -> WorkerState]
      /\ gOutstandingSends \in Int /\ leaked \in Nat
  BY Types DEF IInv
<1>1. PICK x \in Conns : x = wk[w].p /\ wk[w].pc = "gCount"
  BY WorkerFacts DEF IncrementSends, WorkerOK
<1>2. /\ gOutstandingSends' = gOutstandingSends + 1
      /\ SockCritSec' = [SockCritSec EXCEPT ![x] = NULL]
      /\ Become(w, [wk[w] EXCEPT !.pc = "process", !.p = NULL])
      /\ UNCHANGED <<OutstandingRecv, OutstandingSend, life, buf,
                     gPendingSendList, clients, history>>
  BY <1>1 DEF IncrementSends, counts
<1>4. Moves(w, "process", wk[w].c, NULL, wk[w].cleanup)
  <2>1. PICK r \in WorkerState : /\ Become(w, r) /\ r.pc = "process"
                                 /\ r.c = wk[w].c /\ r.p = NULL
                                 /\ r.cleanup = wk[w].cleanup
    <3> DEFINE r == [wk[w] EXCEPT !.pc = "process", !.p = NULL]
    <3>1. /\ r \in WorkerState /\ r.pc = "process" /\ r.c = wk[w].c
          /\ r.p = NULL /\ r.cleanup = wk[w].cleanup
      BY <1>0 DEF WorkerState, Pcs
    <3>2. Become(w, r)
      BY <1>2
    <3> HIDE DEF r
    <3> QED
      BY <3>1, <3>2
  <2> QED
    BY <1>0, <2>1, BecomeMoves
<1>5. /\ wk' \in [Workers -> WorkerState] /\ \A v \in Workers \ {w} : wk'[v] = wk[v]
      /\ wk'[w].pc = "process"
  BY <1>4 DEF Moves
<1>6. Held(wk[w]) = NULL /\ Held(wk'[w]) = NULL /\ Locked(wk[w]) = x
      /\ Locked(wk'[w]) = NULL
  BY <1>1, <1>5 DEF Held, Locked, HoldPcs, Packets
<1>7. Shift(w, NULL)
  BY <1>2, <1>5, <1>6 DEF Shift
<1>8. LockInv'
  BY <1>0, <1>2, <1>5, <1>6, LockKept
<1>9. RestOK'
  BY <1>0, <1>2, RestTyped DEF RestOK, life, history
<1>10. SendInv' /\ RecvInv'
  BY <1>1, <1>2, <1>5, <1>7, StayCounts
<1>11. SendsInv'
  <2>1. /\ Cardinality(Uncounted') = Cardinality(Uncounted) - 1
        /\ Cardinality(Uncounted) \in Nat
    BY <1>1, <1>5, UncountedMoves
  <2>2. /\ Cardinality(Posted') = Cardinality(Posted) /\ IsFiniteSet(Posted')
        /\ Cardinality(Posted) \in Nat
    BY <1>7, StayCounts
  <2> QED
    BY <1>0, <1>2, <2>1, <2>2 DEF SendsInv, history
<1> QED
  BY <1>1, <1>2, <1>4, <1>6, <1>8, <1>9, <1>10, <1>11, CountFacts
     DEF CountPcs, history

-----------------------------------------------------------------------------
(* The kernel and the clients.                                             *)

\* An operation moves on inside the kernel or to the completion port.
LEMMA KernelMoves ==
  ASSUME IInv, NEW x \in Conns, NEW b \in Packets,
         buf' = [buf EXCEPT ![x] = b],
         \/ buf[x] = "accept" /\ b = "accepted"
         \/ buf[x] = "send" /\ b \in {"sent", "sendErr"}
         \/ buf[x] = "recv" /\ b \in {"data", "zero", "recvErr"},
         peer' \in [Conns -> {"none", "open", "fin", "reset"}],
         chunks' \in [Conns -> 0..(MaxData + 1)],
         UNCHANGED <<counts, SockCritSec, life, gPendingSendList,
                     gOutstandingSends, wk, history>>
  PROVE  IInv'
<1>0. /\ TypeOK /\ ShapeInv /\ Own(buf, wk) /\ Queued(buf, gPendingSendList)
      /\ LockInv /\ RecvInv /\ SendInv /\ SendsInv /\ FreeInv /\ AloneInv
      /\ buf \in [Conns -> BufStates] /\ wk \in [Workers -> WorkerState]
      /\ gPendingSendList \in Seq(Conns) /\ NULL \notin Conns
  BY Types, Nulls DEF IInv
<1>1. /\ buf[x] \notin {"mine", "pending"} /\ b \notin {"mine", "pending"}
      /\ buf[x] \notin Over
  BY DEF Packets, Over
<1>2. /\ buf' \in [Conns -> BufStates] /\ \A c \in Conns \ {x} : buf'[c] = buf[c]
      /\ buf'[x] = b
      /\ \A c \in Conns : buf'[c] \in RecvBufs <=> buf[c] \in RecvBufs
      /\ \A c \in Conns : buf'[c] \in SendBufs <=> buf[c] \in SendBufs
  BY <1>0 DEF BufStates, RecvBufs, SendBufs
<1>3. \A w \in Workers : Held(wk[w]) \in Conns \cup {NULL}
  BY <1>0, HeldType
<1>4. Own(buf', wk')
  BY <1>0, <1>1, <1>2, <1>3 DEF Own
<1>5. Queued(buf', gPendingSendList')
  BY <1>0, <1>1, <1>2 DEF Queued
<1>6. ShapeInv' /\ LockInv' /\ AloneInv'
  BY <1>0 DEF ShapeInv, LockInv, AloneInv, life, history
<1>7. FreeInv'
  <2>1. \A w \in Workers : wk[w].pc \in FreePcs \/ wk[w].cleanup => wk[w].c \in Conns
    BY WorkerFacts
  <2> QED
    BY <1>0, <1>1, <1>2, <2>1 DEF FreeInv, life
<1>8. \A c \in Conns : \A pcs :
        /\ Busy(buf', wk', c, RecvBufs, pcs) <=> Busy(buf, wk, c, RecvBufs, pcs)
        /\ Busy(buf', wk', c, SendBufs, pcs) <=> Busy(buf, wk, c, SendBufs, pcs)
  BY <1>2 DEF Busy
<1>9. RecvInv' /\ SendInv'
  BY <1>0, <1>8 DEF RecvInv, SendInv, Counted, counts, One
<1>10. SendsInv'
  <2>1. Posted' = Posted
    BY <1>8, OutstandingBusy, OutstandingBusyPrime DEF Posted
  <2>2. Uncounted' = Uncounted
    BY DEF Uncounted
  <2> QED
    BY <1>0, <2>1, <2>2 DEF SendsInv, history
<1>11. TypeOK'
  <2>1. /\ bClosing' \in [Conns -> BOOLEAN]
        /\ OutstandingRecv' \in [Conns -> -1..1]
        /\ OutstandingSend' \in [Conns -> -1..1]
        /\ SockCritSec' \in [Conns -> Workers \cup {NULL}]
        /\ open' \in [Conns -> BOOLEAN] /\ freed' \in [Conns -> BOOLEAN]
        /\ gPendingSendList' \in Seq(Conns) /\ gOutstandingSends' \in Int
        /\ wk' \in [Workers -> WorkerState] /\ leaked' \in Nat
        /\ failed' \in BOOLEAN /\ overlap' \in BOOLEAN /\ misuse' \in BOOLEAN
    BY <1>0, Types DEF counts, life, history
  <2> QED
    BY <1>2, <2>1, TypesPrime, Zenon
<1> QED
  BY <1>4, <1>5, <1>6, <1>7, <1>9, <1>10, <1>11 DEF IInv

\* The clients and the kernel.
LEMMA OutsideKept ==
  ASSUME IInv, Client \/ Kernel
  PROVE  IInv'
<1>0. /\ peer \in [Conns -> {"none", "open", "fin", "reset"}]
      /\ chunks \in [Conns -> 0..(MaxData + 1)] /\ MaxData \in Nat /\ TypeOK
  BY Types, ConstantsAssumption DEF IInv
<1>1. ASSUME NEW x \in Conns, ClientConnects(x) PROVE IInv'
  <2>1. /\ peer' \in [Conns -> {"none", "open", "fin", "reset"}]
        /\ chunks' \in [Conns -> 0..(MaxData + 1)]
    BY <1>0, <1>1 DEF ClientConnects
  <2>2. /\ buf[x] = "accept" /\ buf' = [buf EXCEPT ![x] = "accepted"]
        /\ UNCHANGED <<counts, SockCritSec, life, gPendingSendList,
                       gOutstandingSends, wk, history>>
    BY <1>1 DEF ClientConnects
  <2> QED
    BY <2>1, <2>2, KernelMoves DEF Packets
<1>2. ASSUME NEW x \in Conns, ClientEnds(x) PROVE IInv'
  <2>1. /\ peer' \in [Conns -> {"none", "open", "fin", "reset"}]
        /\ UNCHANGED <<counts, SockCritSec, life, buf, gPendingSendList,
                       gOutstandingSends, chunks, wk, history>>
    BY <1>0, <1>2 DEF ClientEnds
  <2>2. TypeOK'
    BY <1>0, <2>1 DEF TypeOK, counts, life, history
  <2>3. /\ ShapeInv' /\ LockInv' /\ RecvInv' /\ SendInv' /\ FreeInv' /\ AloneInv'
        /\ Own(buf', wk') /\ Queued(buf', gPendingSendList')
    BY <2>1 DEF IInv, ShapeInv, LockInv, RecvInv, SendInv, FreeInv, AloneInv,
                counts, life, history
  <2>4. SendsInv'
    BY <2>1 DEF IInv, SendsInv, Posted, Uncounted, Outstanding, history
  <2> QED
    BY <2>2, <2>3, <2>4 DEF IInv
<1>3. ASSUME NEW x \in Conns, SendCompletes(x) PROVE IInv'
  <2>1. /\ buf[x] = "send" /\ \E b \in {"sent", "sendErr"} : buf' = [buf EXCEPT ![x] = b]
        /\ UNCHANGED <<counts, SockCritSec, life, gPendingSendList,
                       gOutstandingSends, wk, history>>
        /\ UNCHANGED <<peer, chunks>>
    BY <1>3 DEF SendCompletes, clients
  <2> QED
    BY <1>0, <2>1, KernelMoves DEF Packets
<1>4. ASSUME NEW x \in Conns, RecvCompletes(x) PROVE IInv'
  <2>1. /\ buf[x] = "recv"
        /\ \E b \in {"data", "zero", "recvErr"} : buf' = [buf EXCEPT ![x] = b]
        /\ UNCHANGED <<counts, SockCritSec, life, gPendingSendList,
                       gOutstandingSends, wk, history>>
        /\ UNCHANGED peer
    BY <1>4 DEF RecvCompletes
  <2>2. chunks' \in [Conns -> 0..(MaxData + 1)]
    BY <1>0, <1>4 DEF RecvCompletes
  <2>3. peer' \in [Conns -> {"none", "open", "fin", "reset"}]
    BY <1>0, <2>1
  <2> QED
    BY <2>1, <2>2, <2>3, KernelMoves DEF Packets
<1> QED
  BY <1>1, <1>2, <1>3, <1>4 DEF Client, Kernel

-----------------------------------------------------------------------------
\* The initial state: nothing is posted to a connection.
LEMMA InitIInv == Init => IInv
<1> SUFFICES ASSUME Init PROVE IInv
  OBVIOUS
<1>0. NULL \notin Conns /\ MaxData \in Nat /\ IsFiniteSet(Workers)
  BY ConstantsAssumption
<1>1. Idle \in WorkerState /\ Idle.pc = "get" /\ Idle.c = NULL
      /\ Idle.p = NULL /\ Idle.cleanup = FALSE
  BY DEF Idle, WorkerState, Pcs
<1>2. /\ wk \in [Workers -> WorkerState]
      /\ \A w \in Workers : wk[w].pc = "get" /\ wk[w].c = NULL /\ wk[w].p = NULL
                            /\ wk[w].cleanup = FALSE
  BY <1>1 DEF Init
<1>3. TypeOK
  <2>1. /\ bClosing \in [Conns -> BOOLEAN] /\ OutstandingRecv \in [Conns -> -1..1]
        /\ OutstandingSend \in [Conns -> -1..1]
        /\ SockCritSec \in [Conns -> Workers \cup {NULL}]
        /\ open \in [Conns -> BOOLEAN] /\ freed \in [Conns -> BOOLEAN]
    BY DEF Init
  <2>2. buf \in [Conns -> BufStates]
        /\ peer \in [Conns -> {"none", "open", "fin", "reset"}]
        /\ chunks \in [Conns -> 0..(MaxData + 1)]
    BY <1>0 DEF Init, BufStates
  <2>3. gPendingSendList \in Seq(Conns) /\ gOutstandingSends \in Int /\ leaked \in Nat
    BY DEF Init
  <2>4. failed \in BOOLEAN /\ overlap \in BOOLEAN /\ misuse \in BOOLEAN
    BY Zenon DEF Init
  <2> QED
    BY <1>2, <2>1, <2>2, <2>3, <2>4, Types, Zenon
<1>4. \A w \in Workers : Held(wk[w]) = NULL /\ Locked(wk[w]) = NULL
  BY <1>2 DEF Held, Locked, HoldPcs, Packets
<1>5. ShapeInv /\ Own(buf, wk) /\ LockInv
  BY <1>2, <1>4 DEF ShapeInv, WorkerOK, Own, LockInv, HoldPcs, FreePcs, Packets
<1>6. Queued(buf, gPendingSendList)
  BY DEF Init, Queued
<1>7. \A c \in Conns : /\ ~Busy(buf, wk, c, RecvBufs, RecvPcs)
                       /\ ~Busy(buf, wk, c, SendBufs, SentPcs)
                       /\ ~Busy(buf, wk, c, SendBufs, {"sent", "sendErr", "gDecrement"})
                       /\ ~Lag(wk, c, "recvCount") /\ ~Lag(wk, c, "sendCount")
  BY <1>2 DEF Init, Busy, Lag, RecvBufs, RecvPcs, SendBufs, SentPcs
<1>8. RecvInv /\ SendInv
  BY <1>7 DEF Init, RecvInv, SendInv, Counted, One
<1>9. SendsInv
  <2>1. Posted = {} /\ Uncounted = {}
    BY <1>2, <1>7, OutstandingBusy DEF Posted, Uncounted
  <2>2. IsFiniteSet(Posted) /\ Cardinality(Posted) = 0 /\ Cardinality(Uncounted) = 0
    BY <2>1, FS_EmptySet
  <2>3. gOutstandingSends = 0 /\ leaked = 0
    BY DEF Init
  <2> QED
    BY <2>2, <2>3 DEF SendsInv
<1>10. FreeInv
  <2>1. \A c \in Conns : bClosing[c] = FALSE /\ freed[c] = FALSE
    BY DEF Init
  <2> QED
    BY <1>2, <2>1 DEF FreeInv, FreePcs
<1>11. AloneInv
  <2>1. /\ \A c \in Conns : freed[c] = FALSE
        /\ misuse = FALSE
    BY DEF Init
  <2> QED
    BY <1>2, <2>1 DEF AloneInv, Final
<1> QED
  BY <1>3, <1>5, <1>6, <1>8, <1>9, <1>10, <1>11 DEF IInv

\* Every step keeps the invariant.
LEMMA NextIInv == IInv /\ [Next]_vars => IInv'
<1> SUFFICES ASSUME IInv, [Next]_vars PROVE IInv'
  OBVIOUS
<1>1. CASE Client \/ Kernel
  BY <1>1, OutsideKept
<1>2. ASSUME NEW w \in Workers, Work(w) PROVE IInv'
  BY <1>2, DequeueKept, HandleAcceptKept, HandleReadKept, EnqueueDataKept,
     MarkClosingKept, TestLastOpKept, HandleWriteKept, DecrementSendsKept,
     PostRecvKept, CountRecvKept, HandleErrorKept, TestOtherKept,
     FreeBufferObjKept,
     TestSendsKept, DequeuePendingKept, PostSendKept, CountSendKept,
     IncrementSendsKept, TestTailKept, CloseSocketKept, FreeSocketObjKept,
     UseFreedKept
     DEF Work
<1>3. CASE UNCHANGED vars
  <2>1. TypeOK'
    BY <1>3 DEF IInv, TypeOK, vars, counts, life, clients, history
  <2>2. /\ ShapeInv' /\ LockInv' /\ RecvInv' /\ SendInv' /\ FreeInv' /\ AloneInv'
        /\ Own(buf', wk') /\ Queued(buf', gPendingSendList')
    BY <1>3 DEF IInv, ShapeInv, LockInv, RecvInv, SendInv, FreeInv, AloneInv,
                vars, counts, life, history
  <2>3. SendsInv'
    BY <1>3 DEF IInv, SendsInv, Posted, Uncounted, Outstanding, vars, history
  <2> QED
    BY <2>1, <2>2, <2>3 DEF IInv
<1> QED
  BY <1>1, <1>2, <1>3 DEF Next

\* The inductive invariant holds in every reachable state.
THEOREM Invariance == Spec => []IInv
BY InitIInv, NextIInv, PTL DEF Spec

\* The variables stay in their ranges; each Interlocked count of a SOCKET_OBJ
\* stays between -1 and 1, although it is changed after the call it counts.
THEOREM TypeCorrect == Spec => []TypeOK
<1>1. IInv => TypeOK
  BY DEF IInv
<1> QED
  BY <1>1, Invariance, PTL

\* gOutstandingSends is, at every moment, the number of sends posted and not
\* yet handled, less those not yet added, plus those that completed with an
\* error and were never taken off.
THEOREM SendsStayCounted == Spec => []SendsCounted
<1>1. IInv => SendsCounted
  BY DEF IInv, SendsInv, SendsCounted, Posted, Uncounted
<1> QED
  BY <1>1, Invariance, PTL

\* FreeSocketObj is called only when no operation of the connection is left,
\* and if no two workers were ever busy with one connection no freed
\* SOCKET_OBJ is used.
THEOREM FreedStaysIdle == Spec => []IdleWhenFreed
<1>1. IInv => IdleWhenFreed
  BY DEF IInv, FreeInv, AloneInv, IdleWhenFreed
<1> QED
  BY <1>1, Invariance, PTL
=============================================================================
