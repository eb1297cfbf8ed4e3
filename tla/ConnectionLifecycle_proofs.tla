--------------------- MODULE ConnectionLifecycle_proofs ---------------------
(***************************************************************************)
(* Proofs about ConnectionLifecycle, for any number of contexts, buffers   *)
(* and workers.  The counts of outstanding I/O and the connection list are *)
(* exact whatever the interleaving, with and without CloseAllConnections,  *)
(* up to the first use of a released context; and there is no such use     *)
(* unless CloseAllConnections was overtaken by a release or a worker took  *)
(* the counts for zero while another one was using the context.            *)
(*                                                                         *)
(* The invariant has a part that always holds (Core: types, what a program *)
(* counter says of the locals, who holds a buffer) and one that holds as   *)
(* long as no released context was used (Guarded: a connection that is not *)
(* listed is its worker's alone, the list, the connections that the walk   *)
(* has still ahead are in use and open, and the counts).  SoleInv adds     *)
(* what a worker relies on as long as no count was tested too early.       *)
(***************************************************************************)
EXTENDS ConnectionLifecycle, FiniteSetTheorems, SequenceTheorems, TLAPS

Pcs == ContextPcs \cup {"get", "reads", "finish"}
Rets == Completed \cup {"done", "reads", "release", "test"}

\* The types of the fields, by name.
ContextState ==
  [s : {"none", "open", "invalid"}, bClosing : BOOLEAN, nOutstandingRecv : Int,
   nOutstandingSend : Int, bNotifyCloseOrError : BOOLEAN]
BufferState ==
  [st : {"free", "pending", "held", "leaked"} \cup Completed,
   op : {"none", "read", "write"}, key : Contexts \cup {NULL}]
WorkerState ==
  [pc : Pcs, c : Contexts \cup {NULL}, b : Buffers \cup {NULL}, ret : Rets, n : Nat]

\* A buffer posted and not yet dequeued; a worker that goes on to use its
\* context.
Out(q) == q.st \in {"pending"} \cup Completed
Needs(r) == r.pc \in ContextPcs \/ (r.pc = "reads" /\ r.n > 0)

\* What the state of a worker and that of a buffer say of their fields.
WorkerOK(r) ==
  /\ r.pc \in ContextPcs \cup {"reads"} => r.c \in Contexts
  /\ r.pc \in {"unlist", "close"} => r.ret \in {"release", "done", "test"}
  /\ r.pc = "get" => r = IdleWorker
  /\ r.pc = "closing" => r.b # NULL
  /\ r.pc \in {"add", "keepalive"} => r.b = NULL
BufferOK(q) ==
  Out(q) \/ q.st = "held" => q.key \in Contexts /\ q.op \in {"read", "write"}

\* TypeOK but for the history variable, which nothing else depends on.
StateOK ==
  /\ mem \in [Contexts -> {"heap", "pooled", "live"}]
  /\ ctx \in [Contexts ->
       [s : {"none", "open", "invalid"}, bClosing : BOOLEAN,
        nOutstandingRecv : Int, nOutstandingSend : Int,
        bNotifyCloseOrError : BOOLEAN]]
  /\ buf \in [Buffers ->
       [st : {"free", "pending", "held", "leaked"} \cup Completed,
        op : {"none", "read", "write"}, key : Contexts \cup {NULL}]]
  /\ wk \in [Workers ->
       [pc : ContextPcs \cup {"get", "reads", "finish"},
        c : Contexts \cup {NULL}, b : Buffers \cup {NULL},
        ret : Completed \cup {"done", "reads", "release", "test"}, n : Nat]]
  /\ list \in Seq(Contexts) /\ m_nCurrentConnection \in Int
  /\ closePc \in {"off", "lock", "next", "done"}
  /\ closeAt \in Contexts \cup {NULL}
  /\ accepted \in 0..MaxAccepted /\ misuse \in BOOLEAN

ShapeInv ==
  /\ \A w \in Workers : WorkerOK(wk[w])
  /\ \A b \in Buffers : BufferOK(buf[b])
  /\ closePc \in {"lock", "next"} => closeAt \in Contexts
  /\ \A c \in Contexts : mem[c] # "live" => ctx[c] = ZeroContext

\* A worker's buffer is held, and by no other worker.
HeldInv ==
  \A w \in Workers : wk[w].b # NULL =>
    /\ buf[wk[w].b].st = "held"
    /\ \A v \in Workers \ {w} : wk[v].b # wk[w].b

\* A connection that is not listed yet is known to the worker that accepted it
\* only.
NewInv ==
  \A w \in Workers : wk[w].pc = "add" =>
    /\ \A v \in Workers \ {w} : Needs(wk[v]) => wk[v].c # wk[w].c
    /\ \A b \in Buffers : Out(buf[b]) => buf[b].key # wk[w].c

\* The listed connections that CloseAllConnections, if it is at work, has still
\* to close.
Ahead(c) ==
  \E k \in DOMAIN list :
    /\ list[k] = c
    /\ \/ ListLockFree
       \/ \E j \in DOMAIN list :
            /\ list[j] = closeAt
            /\ k > j \/ (k = j /\ closePc = "lock")

ListInv ==
  /\ m_nCurrentConnection = Len(list) /\ m_nCurrentConnection <= MaxConnections + 1
  /\ \A j, k \in DOMAIN list : list[j] = list[k] => j = k
  /\ ~ListLockFree => \E j \in DOMAIN list : list[j] = closeAt

CloseInv ==
  /\ \A c \in Contexts : Ahead(c) => mem[c] = "live" /\ ~ctx[c].bClosing
  /\ \A w \in Workers :
       /\ wk[w].pc = "add" => ~Ahead(wk[w].c) /\ ~ctx[wk[w].c].bClosing
       /\ wk[w].pc = "close" => ~Ahead(wk[w].c)
       /\ wk[w].pc \in {"test", "release"} /\ mem[wk[w].c] = "live"
            => ctx[wk[w].c].bClosing

\* The workers between WSASend and the increment.
Counting(c) == {w \in Workers : wk[w].pc = "count" /\ wk[w].c = c}

CountInv ==
  \A c \in Contexts : mem[c] = "live" =>
    /\ ctx[c].nOutstandingRecv = Cardinality(Outstanding(c, "read"))
    /\ ctx[c].nOutstandingSend + Cardinality(Counting(c))
         = Cardinality(Outstanding(c, "write"))

Core == StateOK /\ ShapeInv /\ HeldInv
Guarded == NewInv /\ ListInv /\ CloseInv /\ CountInv
IInv == Core /\ (~misuse => Guarded)

\* A worker on its way to ReleaseContext.
Leaving(r) ==
  \/ r.pc = "release"
  \/ r.pc \in {"unlist", "close"} /\ r.ret = "release"

\* As long as no worker took the counts for zero too early, what a worker needs
\* and what is posted is in use, and a context that is about to be released is
\* its worker's alone.
SoleInv ==
  /\ \A w \in Workers :
       /\ Needs(wk[w]) => mem[wk[w].c] = "live"
       /\ Leaving(wk[w]) =>
            /\ \A b \in Buffers : Out(buf[b]) => buf[b].key # wk[w].c
            /\ \A v \in Workers \ {w} : Needs(wk[v]) => wk[v].c # wk[w].c
  /\ \A b \in Buffers : Out(buf[b]) => mem[buf[b].key] = "live"

-----------------------------------------------------------------------------
(* Types and the initial state.                                            *)

\* The type invariant with its fields' types by name, and the starting records.
LEMMA Types ==
  /\ StateOK <=> (/\ mem \in [Contexts -> {"heap", "pooled", "live"}]
               /\ ctx \in [Contexts -> ContextState]
               /\ buf \in [Buffers -> BufferState]
               /\ wk \in [Workers -> WorkerState]
               /\ list \in Seq(Contexts) /\ m_nCurrentConnection \in Int
               /\ closePc \in {"off", "lock", "next", "done"}
               /\ closeAt \in Contexts \cup {NULL}
               /\ accepted \in 0..MaxAccepted /\ misuse \in BOOLEAN)
  /\ ZeroContext \in ContextState
  /\ FreeBuffer \in BufferState
  /\ IdleWorker \in WorkerState
<1>1. StateOK <=> (/\ mem \in [Contexts -> {"heap", "pooled", "live"}]
               /\ ctx \in [Contexts -> ContextState]
               /\ buf \in [Buffers -> BufferState]
               /\ wk \in [Workers -> WorkerState]
               /\ list \in Seq(Contexts) /\ m_nCurrentConnection \in Int
               /\ closePc \in {"off", "lock", "next", "done"}
               /\ closeAt \in Contexts \cup {NULL}
               /\ accepted \in 0..MaxAccepted /\ misuse \in BOOLEAN)
  BY DEF StateOK, ContextState, BufferState, WorkerState, Pcs, Rets
<1>2. ZeroContext \in ContextState
  BY DEF ZeroContext, ContextState
<1>3. FreeBuffer \in BufferState
  BY DEF FreeBuffer, BufferState
<1>4. IdleWorker \in WorkerState
  BY DEF IdleWorker, WorkerState, Pcs, Rets, ContextPcs
<1> QED
  BY <1>1, <1>2, <1>3, <1>4

\* The fields of the records that the code starts from.
LEMMA RecordFields ==
  /\ IdleWorker.pc = "get" /\ IdleWorker.c = NULL /\ IdleWorker.b = NULL
  /\ IdleWorker.ret = "done" /\ IdleWorker.n = 0
  /\ ~Needs(IdleWorker) /\ WorkerOK(IdleWorker)
  /\ FreeBuffer.st = "free" /\ ~Out(FreeBuffer) /\ BufferOK(FreeBuffer)
  /\ ZeroContext.nOutstandingRecv = 0 /\ ZeroContext.nOutstandingSend = 0
  /\ ZeroContext.bClosing = FALSE
<1>1. /\ IdleWorker.pc = "get" /\ IdleWorker.c = NULL /\ IdleWorker.b = NULL
      /\ IdleWorker.ret = "done" /\ IdleWorker.n = 0
      /\ FreeBuffer.st = "free"
      /\ ZeroContext.nOutstandingRecv = 0 /\ ZeroContext.nOutstandingSend = 0
      /\ ZeroContext.bClosing = FALSE
  BY DEF IdleWorker, FreeBuffer, ZeroContext
<1>2. ~Needs(IdleWorker) /\ WorkerOK(IdleWorker)
  BY <1>1 DEF Needs, WorkerOK, ContextPcs
<1>3. ~Out(FreeBuffer) /\ BufferOK(FreeBuffer)
  BY <1>1 DEF Out, BufferOK, Completed
<1> QED
  BY <1>1, <1>2, <1>3

\* The server starts in a state that satisfies the invariant.
LEMMA InitIInv == Init => IInv
<1> SUFFICES ASSUME Init PROVE IInv
  OBVIOUS
<1>1. /\ mem = [c \in Contexts |-> "heap"]
      /\ ctx = [c \in Contexts |-> ZeroContext]
      /\ buf = [b \in Buffers |-> FreeBuffer]
      /\ wk = [w \in Workers |-> IdleWorker]
      /\ list = <<>> /\ m_nCurrentConnection = 0
      /\ closePc = "off" /\ closeAt = NULL
      /\ accepted = 0 /\ misuse = FALSE
  BY DEF Init
<1> MaxConnections \in Nat /\ MaxAccepted \in Nat
  BY ConstantsAssumption
<1>2. StateOK
  <2>1. /\ mem \in [Contexts -> {"heap", "pooled", "live"}]
        /\ ctx \in [Contexts -> ContextState]
        /\ buf \in [Buffers -> BufferState]
        /\ wk \in [Workers -> WorkerState]
    BY <1>1, Types
  <2>2. list \in Seq(Contexts)
    BY <1>1
  <2> QED
    <3>1. /\ m_nCurrentConnection \in Int /\ closePc \in {"off", "lock", "next", "done"}
          /\ closeAt \in Contexts \cup {NULL} /\ accepted \in 0..MaxAccepted
      BY <1>1
    <3>2. misuse \in BOOLEAN
      BY <1>1, Zenon
    <3> QED
      BY <2>1, <2>2, <3>1, <3>2, Types
<1>3. /\ \A w \in Workers : wk[w] = IdleWorker
      /\ \A b \in Buffers : buf[b] = FreeBuffer
      /\ \A c \in Contexts : ctx[c] = ZeroContext /\ mem[c] = "heap"
  BY <1>1
<1>4. ShapeInv
  BY <1>1, <1>3, RecordFields DEF ShapeInv
<1>5. HeldInv
  BY <1>3, RecordFields DEF HeldInv
<1>6. NewInv
  BY <1>3, RecordFields DEF NewInv
<1>7. Len(list) = 0 /\ DOMAIN list = {}
  BY <1>1
<1>8. ListInv
  BY <1>1, <1>7 DEF ListInv, ListLockFree
<1>9. \A c : ~Ahead(c)
  BY <1>7 DEF Ahead
<1>10. CloseInv
  BY <1>3, <1>9, RecordFields DEF CloseInv
<1>11. CountInv
  BY <1>3 DEF CountInv
<1> QED
  BY <1>2, <1>4, <1>5, <1>6, <1>8, <1>10, <1>11 DEF IInv, Core, Guarded

-----------------------------------------------------------------------------
(* A step of worker w, which goes on as r, and that turns buffer b into q. *)
(* b is NULL in a step that leaves the buffers alone.                      *)

WorkerTo(w, r) ==
  /\ w \in Workers
  /\ wk' \in [Workers -> WorkerState]
  /\ \A v \in Workers : wk'[v] = IF v = w THEN r ELSE wk[v]

BufferTo(b, q) ==
  /\ buf' \in [Buffers -> BufferState]
  /\ \A x \in Buffers : buf'[x] = IF x = b THEN q ELSE buf[x]

\* The worker keeps its buffer or takes one that nobody holds, and changes no
\* buffer another one holds.
HeldOK(w, r, b, q) ==
  /\ b \in Buffers /\ buf[b].st = "held" => b = wk[w].b
  /\ r.b # NULL =>
       \/ r.b = wk[w].b /\ (r.b # b \/ q.st = "held")
       \/ r.b = b /\ b \in Buffers /\ q.st = "held" /\ buf[b].st # "held"

\* The worker learns of a context from its accept or from a completed operation,
\* and posts on its own context only.
NewOK(w, r, b, q) ==
  /\ Needs(r) => \/ Needs(wk[w]) /\ r.c = wk[w].c
                 \/ \E x \in Buffers : Out(buf[x]) /\ buf[x].key = r.c
                 \/ ~Referenced(r.c)
  /\ r.pc = "add" => ~Referenced(r.c)
  /\ b \in Buffers /\ Out(q) =>
       \/ Out(buf[b]) /\ q.key = buf[b].key
       \/ Needs(wk[w]) /\ wk[w].pc # "add" /\ q.key = wk[w].c

\* A worker's record, or a buffer's, replaced in the model's EXCEPT notation.
LEMMA WorkerMoves ==
  ASSUME StateOK, NEW w \in Workers, NEW r \in WorkerState,
         wk' = [wk EXCEPT ![w] = r]
  PROVE  WorkerTo(w, r)
BY Types DEF WorkerTo

\* The same for a buffer.
LEMMA BufferMoves ==
  ASSUME StateOK, NEW b \in Buffers, NEW q \in BufferState,
         buf' = [buf EXCEPT ![b] = q]
  PROVE  BufferTo(b, q)
BY Types DEF BufferTo

\* A step that leaves every buffer alone.
LEMMA BufferStays ==
  ASSUME StateOK, buf' = buf, NEW q
  PROVE  BufferTo(NULL, q)
<1>1. NULL \notin Buffers
  BY ConstantsAssumption
<1> QED
  BY <1>1, Types DEF BufferTo

\* A worker that changes its program counter, or its return point too.
LEMMA Goes ==
  ASSUME StateOK, NEW w \in Workers, NEW pc \in Pcs, Goto(w, pc)
  PROVE  \E r \in WorkerState :
           /\ WorkerTo(w, r) /\ r.pc = pc /\ r.c = wk[w].c /\ r.b = wk[w].b
           /\ r.ret = wk[w].ret /\ r.n = wk[w].n
<1> DEFINE r == [wk[w] EXCEPT !.pc = pc]
<1>1. wk[w] \in WorkerState /\ wk \in [Workers -> WorkerState]
  BY Types
<1>2. r \in WorkerState /\ r.pc = pc /\ r.c = wk[w].c /\ r.b = wk[w].b
      /\ r.ret = wk[w].ret /\ r.n = wk[w].n
  BY <1>1 DEF WorkerState
<1>3. wk' = [wk EXCEPT ![w] = r]
  BY <1>1 DEF Goto
<1> HIDE DEF r
<1>4. WorkerTo(w, r)
  BY <1>2, <1>3, WorkerMoves
<1> QED
  BY <1>2, <1>4

\* The worker calls CloseAConnection and remembers where it goes on.
LEMMA GoesToClose ==
  ASSUME StateOK, NEW w \in Workers, NEW ret \in Rets, GotoClose(w, ret)
  PROVE  \E r \in WorkerState :
           /\ WorkerTo(w, r) /\ r.pc = "unlist" /\ r.c = wk[w].c
           /\ r.b = wk[w].b /\ r.ret = ret
<1> DEFINE r == [wk[w] EXCEPT !.pc = "unlist", !.ret = ret]
<1>1. wk[w] \in WorkerState /\ wk \in [Workers -> WorkerState] /\ "unlist" \in Pcs
  BY Types DEF Pcs, ContextPcs
<1>2. r \in WorkerState /\ r.pc = "unlist" /\ r.c = wk[w].c /\ r.b = wk[w].b
      /\ r.ret = ret
  BY <1>1 DEF WorkerState
<1>3. wk' = [wk EXCEPT ![w] = r]
  BY <1>1 DEF GotoClose
<1> HIDE DEF r
<1>4. WorkerTo(w, r)
  BY <1>2, <1>3, WorkerMoves
<1> QED
  BY <1>2, <1>4

\* The worker goes back to the completion port.
LEMMA Returns ==
  ASSUME StateOK, NEW w \in Workers, Return(w)
  PROVE  WorkerTo(w, IdleWorker)
BY Types, WorkerMoves DEF Return

\* ReleaseBuffer on the worker's own buffer, if it has one.
LEMMA Releases ==
  ASSUME StateOK, NEW w \in Workers, ReleaseBuffer(w)
  PROVE  BufferTo(wk[w].b, FreeBuffer)
<1>1. wk[w] \in WorkerState
  BY Types
<1>2. wk[w].b \in Buffers \cup {NULL}
  BY <1>1 DEF WorkerState
<1>3. CASE wk[w].b = NULL
  BY <1>3, BufferStays DEF ReleaseBuffer
<1>4. CASE wk[w].b # NULL
  BY <1>2, <1>4, BufferMoves, Types DEF ReleaseBuffer
<1> QED
  BY <1>3, <1>4

\* What the invariant says of one worker and of one buffer.
LEMMA WorkerFacts ==
  ASSUME IInv, NEW w \in Workers
  PROVE  /\ wk[w] \in WorkerState /\ WorkerOK(wk[w])
         /\ wk[w].pc \in Pcs /\ wk[w].ret \in Rets /\ wk[w].n \in Nat
         /\ wk[w].c \in Contexts \cup {NULL} /\ wk[w].b \in Buffers \cup {NULL}
         /\ NULL \notin Buffers /\ NULL \notin Contexts
         /\ Needs(wk[w]) => wk[w].c \in Contexts
         /\ wk[w].b # NULL => wk[w].b \in Buffers /\ buf[wk[w].b].st = "held"
<1>1. StateOK /\ ShapeInv /\ HeldInv
  BY DEF IInv, Core
<1>2. wk[w] \in WorkerState /\ WorkerOK(wk[w])
  BY <1>1, Types DEF ShapeInv
<1>3. NULL \notin Buffers /\ NULL \notin Contexts
  BY ConstantsAssumption
<1>4. /\ wk[w].pc \in Pcs /\ wk[w].ret \in Rets /\ wk[w].n \in Nat
      /\ wk[w].c \in Contexts \cup {NULL} /\ wk[w].b \in Buffers \cup {NULL}
  BY <1>2 DEF WorkerState
<1>5. Needs(wk[w]) => wk[w].c \in Contexts
  BY <1>2 DEF Needs, WorkerOK
<1>6. wk[w].b # NULL => buf[wk[w].b].st = "held"
  BY <1>1 DEF HeldInv
<1> QED
  BY <1>2, <1>3, <1>4, <1>5, <1>6

-----------------------------------------------------------------------------
(* What such a step preserves, one group of the invariant at a time.       *)

\* Each worker and each buffer after the step.
LEMMA AfterStep ==
  ASSUME NEW w, NEW r, NEW b, NEW q, WorkerTo(w, r), BufferTo(b, q)
  PROVE  /\ wk'[w] = r /\ \A v \in Workers \ {w} : wk'[v] = wk[v]
         /\ b \in Buffers => buf'[b] = q
         /\ \A x \in Buffers \ {b} : buf'[x] = buf[x]
BY DEF WorkerTo, BufferTo

\* No two workers hold one buffer.
LEMMA HeldStep ==
  ASSUME IInv, NEW w \in Workers, NEW r \in WorkerState, NEW b, NEW q,
         WorkerTo(w, r), BufferTo(b, q), HeldOK(w, r, b, q)
  PROVE  HeldInv'
<1>1. HeldInv /\ NULL \notin Buffers
  BY ConstantsAssumption DEF IInv, Core
<1>2. \A v \in Workers : wk[v].b \in Buffers \cup {NULL}
  BY WorkerFacts
<1>3. r.b \in Buffers \cup {NULL}
  BY DEF WorkerState
<1>4. r.b # NULL => /\ buf'[r.b].st = "held"
                    /\ \A v \in Workers \ {w} : wk[v].b # r.b
  BY <1>1, <1>2, <1>3, AfterStep DEF HeldInv, HeldOK
<1>5. ASSUME NEW v \in Workers \ {w}, wk[v].b # NULL
      PROVE  /\ buf'[wk[v].b].st = "held"
             /\ \A u \in Workers \ {w, v} : wk[u].b # wk[v].b
             /\ r.b # wk[v].b
  <2>1. wk[v].b \in Buffers /\ buf[wk[v].b].st = "held" /\ wk[v].b # wk[w].b
    BY <1>1, <1>2, <1>5 DEF HeldInv
  <2>2. wk[v].b # b
    BY <2>1 DEF HeldOK
  <2> QED
    BY <1>1, <1>4, <1>5, <2>1, <2>2, AfterStep DEF HeldInv
<1> QED
  BY <1>4, <1>5, AfterStep DEF HeldInv

\* A connection that is not listed yet stays its worker's alone.
LEMMA NewStep ==
  ASSUME NewInv, NEW w \in Workers, NEW r \in WorkerState, NEW b, NEW q,
         WorkerTo(w, r), BufferTo(b, q), NewOK(w, r, b, q)
  PROVE  NewInv'
<1>1. /\ \A v \in Workers : Needs(wk[v]) => Referenced(wk[v].c)
      /\ \A x \in Buffers : Out(buf[x]) => Referenced(buf[x].key)
      /\ \A v \in Workers : wk[v].pc = "add" => Needs(wk[v])
  BY DEF Needs, Out, Referenced, NeedsContext, ContextPcs
<1>2. ASSUME r.pc = "add"
      PROVE  /\ \A v \in Workers \ {w} : Needs(wk[v]) => wk[v].c # r.c
             /\ \A x \in Buffers : Out(buf'[x]) => buf'[x].key # r.c
  <2>1. ~Referenced(r.c)
    BY <1>2 DEF NewOK
  <2>2. \A x \in Buffers \ {b} : Out(buf'[x]) => buf'[x].key # r.c
    BY <1>1, <2>1, AfterStep
  <2>3. b \in Buffers /\ Out(q) => q.key # r.c
    BY <1>1, <2>1 DEF NewOK
  <2> QED
    BY <1>1, <2>1, <2>2, <2>3, AfterStep
<1>3. ASSUME NEW v \in Workers \ {w}, wk[v].pc = "add"
      PROVE  /\ \A u \in Workers \ {v} : Needs(wk'[u]) => wk'[u].c # wk[v].c
             /\ \A x \in Buffers : Out(buf'[x]) => buf'[x].key # wk[v].c
  <2>1. /\ Referenced(wk[v].c)
        /\ \A u \in Workers \ {v} : Needs(wk[u]) => wk[u].c # wk[v].c
        /\ \A x \in Buffers : Out(buf[x]) => buf[x].key # wk[v].c
    BY <1>1, <1>3 DEF NewInv
  <2>2. Needs(r) => r.c # wk[v].c
    BY <2>1 DEF NewOK
  <2>3. b \in Buffers /\ Out(q) => q.key # wk[v].c
    BY <2>1 DEF NewOK
  <2> QED
    BY <2>1, <2>2, <2>3, AfterStep
<1>4. SUFFICES ASSUME NEW v \in Workers, wk'[v].pc = "add"
               PROVE /\ \A u \in Workers \ {v} : Needs(wk'[u]) => wk'[u].c # wk'[v].c
                     /\ \A x \in Buffers : Out(buf'[x]) => buf'[x].key # wk'[v].c
  BY DEF NewInv, Needs, Out
<1>5. CASE v = w
  BY <1>2, <1>4, <1>5, AfterStep
<1>6. CASE v # w
  BY <1>3, <1>4, <1>6, AfterStep
<1> QED
  BY <1>5, <1>6

\* What CloseAllConnections has ahead, when list and walk stay.
LEMMA AheadSame ==
  ASSUME UNCHANGED conns
  PROVE  \A c : Ahead(c)' <=> Ahead(c)
BY DEF Ahead, ListLockFree, conns

\* A context that only the worker's connection can be: memory and flag change
\* at d only.
CloseOK(w, r, d) ==
  /\ \A c \in Contexts \ {d} :
       mem'[c] = mem[c] /\ ctx'[c].bClosing = ctx[c].bClosing
  /\ d \in Contexts =>
       \/ mem'[d] = mem[d] /\ ctx'[d].bClosing = ctx[d].bClosing
       \/ /\ ~Ahead(d) /\ d = wk[w].c /\ Needs(wk[w]) /\ mem[d] = "live"
          /\ mem'[d] = "live" => ctx'[d].bClosing
       \/ ~Ahead(d) /\ ~Referenced(d)
  /\ r.pc = "add" => ~Ahead(r.c) /\ ~ctx'[r.c].bClosing
  /\ r.pc = "close" => ~Ahead(r.c)
  /\ r.pc \in {"test", "release"} /\ mem'[r.c] = "live" => ctx'[r.c].bClosing

\* Listed connections stay in use and open.
LEMMA CloseStep ==
  ASSUME IInv, Guarded, NEW w \in Workers, NEW r \in WorkerState, NEW d,
         WorkerTo(w, r), CloseOK(w, r, d), UNCHANGED conns
  PROVE  CloseInv'
<1>1. \A c : Ahead(c)' <=> Ahead(c)
  BY AheadSame
<1>2. CloseInv /\ NewInv
  BY DEF Guarded
<1>3. ASSUME NEW c \in Contexts, Ahead(c)
      PROVE  mem'[c] = "live" /\ ~ctx'[c].bClosing
  BY <1>2, <1>3 DEF CloseInv, CloseOK
<1>4. ASSUME NEW v \in Workers \ {w}
      PROVE  /\ wk[v].pc = "add" => ~Ahead(wk[v].c) /\ ~ctx'[wk[v].c].bClosing
             /\ wk[v].pc = "close" => ~Ahead(wk[v].c)
             /\ wk[v].pc \in {"test", "release"} /\ mem'[wk[v].c] = "live"
                  => ctx'[wk[v].c].bClosing
  <2>1. wk[v].pc \in {"add", "close", "test", "release"}
          => Needs(wk[v]) /\ wk[v].c \in Contexts /\ Referenced(wk[v].c)
    <3>1. wk[v].pc \in {"add", "close", "test", "release"} => Needs(wk[v])
      BY DEF Needs, ContextPcs
    <3> QED
      BY <3>1, WorkerFacts DEF Referenced, Needs, NeedsContext
  <2>2. wk[v].pc = "add" => ~(Needs(wk[w]) /\ wk[v].c = wk[w].c)
    BY <1>2 DEF NewInv
  <2>3. wk[v].pc = "add" => ~ctx'[wk[v].c].bClosing
    BY <1>2, <2>1, <2>2 DEF CloseOK, CloseInv
  <2>4. wk[v].pc \in {"test", "release"} /\ mem'[wk[v].c] = "live"
          => ctx'[wk[v].c].bClosing
    BY <1>2, <2>1 DEF CloseOK, CloseInv
  <2> QED
    BY <1>2, <2>3, <2>4 DEF CloseInv
<1>5. /\ r.pc = "add" => ~Ahead(r.c) /\ ~ctx'[r.c].bClosing
      /\ r.pc = "close" => ~Ahead(r.c)
      /\ r.pc \in {"test", "release"} /\ mem'[r.c] = "live" => ctx'[r.c].bClosing
  BY DEF CloseOK
<1>6. wk'[w] = r /\ \A v \in Workers \ {w} : wk'[v] = wk[v]
  BY DEF WorkerTo
<1> QED
  BY <1>1, <1>3, <1>4, <1>5, <1>6 DEF CloseInv

\* 1 for a thing that is there, 0 otherwise.
One(p) == IF p THEN 1 ELSE 0

\* Buffer state q is an operation op on c that is posted and not yet dequeued;
\* worker state r is one between WSASend on c and the increment.
IsOut(q, c, op) == q.key = c /\ q.op = op /\ Out(q)
Counts(r, c) == r.pc = "count" /\ r.c = c

\* The operations outstanding on a context, when buffer b becomes q.
LEMMA OutstandingMoves ==
  ASSUME NEW b, NEW q, BufferTo(b, q), NEW c, NEW op
  PROVE  /\ Cardinality(Outstanding(c, op)) \in Nat
         /\ Cardinality(Outstanding(c, op)')
              = Cardinality(Outstanding(c, op))
                + One(b \in Buffers /\ IsOut(q, c, op))
                - One(b \in Buffers /\ IsOut(buf[b], c, op))
<1> DEFINE O == Outstanding(c, op)
           P == Outstanding(c, op)'
<1>1. O = {x \in Buffers : IsOut(buf[x], c, op)}
  BY DEF Outstanding, IsOut, Out
<1>2. P = {x \in Buffers : IsOut(buf'[x], c, op)}
  BY DEF Outstanding, IsOut, Out
<1>3. IsFiniteSet(Buffers) /\ O \in SUBSET Buffers
  BY <1>1, ConstantsAssumption
<1>4. IsFiniteSet(O) /\ Cardinality(O) \in Nat
  BY <1>3, FS_Subset, FS_CardinalityType
<1>5. \A x \in Buffers \ {b} : buf'[x] = buf[x]
  BY DEF BufferTo
<1>6. b \in Buffers => buf'[b] = q
  BY DEF BufferTo
<1> HIDE DEF O, P
<1>7. CASE b \in Buffers /\ IsOut(q, c, op) /\ ~IsOut(buf[b], c, op)
  <2>1. P = O \cup {b} /\ b \notin O
    BY <1>1, <1>2, <1>5, <1>6, <1>7
  <2>2. Cardinality(O \cup {b}) = Cardinality(O) + 1
    BY <1>4, <2>1, FS_AddElement
  <2> QED
    BY <1>4, <1>7, <2>1, <2>2 DEF One, O, P
<1>8. CASE b \in Buffers /\ ~IsOut(q, c, op) /\ IsOut(buf[b], c, op)
  <2>1. P = O \ {b} /\ b \in O
    BY <1>1, <1>2, <1>5, <1>6, <1>8
  <2>2. Cardinality(O \ {b}) = Cardinality(O) - 1
    BY <1>4, <2>1, FS_RemoveElement
  <2> QED
    BY <1>4, <1>8, <2>1, <2>2 DEF One, O, P
<1>9. CASE b \in Buffers => (IsOut(q, c, op) <=> IsOut(buf[b], c, op))
  <2>1. P = O
    BY <1>1, <1>2, <1>5, <1>6, <1>9
  <2> QED
    BY <1>4, <1>9, <2>1 DEF One, O, P
<1> QED
  BY <1>7, <1>8, <1>9

\* The workers that have a send on c to count, when worker w goes on as r.
LEMMA CountingMoves ==
  ASSUME NEW w \in Workers, NEW r, WorkerTo(w, r), NEW c
  PROVE  /\ Cardinality(Counting(c)) \in Nat
         /\ Cardinality(Counting(c)')
              = Cardinality(Counting(c)) + One(Counts(r, c)) - One(Counts(wk[w], c))
<1> DEFINE O == Counting(c)
           P == Counting(c)'
<1>1. O = {x \in Workers : Counts(wk[x], c)}
  BY DEF Counting, Counts
<1>2. P = {x \in Workers : Counts(wk'[x], c)}
  BY DEF Counting, Counts
<1>3. IsFiniteSet(Workers) /\ O \in SUBSET Workers
  BY <1>1, ConstantsAssumption
<1>4. IsFiniteSet(O) /\ Cardinality(O) \in Nat
  BY <1>3, FS_Subset, FS_CardinalityType
<1>5. wk'[w] = r /\ \A x \in Workers \ {w} : wk'[x] = wk[x]
  BY DEF WorkerTo
<1> HIDE DEF O, P
<1>7. CASE Counts(r, c) /\ ~Counts(wk[w], c)
  <2>1. P = O \cup {w} /\ w \notin O
    BY <1>1, <1>2, <1>5, <1>7
  <2>2. Cardinality(O \cup {w}) = Cardinality(O) + 1
    BY <1>4, <2>1, FS_AddElement
  <2> QED
    BY <1>4, <1>7, <2>1, <2>2 DEF One, O, P
<1>8. CASE ~Counts(r, c) /\ Counts(wk[w], c)
  <2>1. P = O \ {w} /\ w \in O
    BY <1>1, <1>2, <1>5, <1>8
  <2>2. Cardinality(O \ {w}) = Cardinality(O) - 1
    BY <1>4, <2>1, FS_RemoveElement
  <2> QED
    BY <1>4, <1>8, <2>1, <2>2 DEF One, O, P
<1>9. CASE Counts(r, c) <=> Counts(wk[w], c)
  <2>1. P = O
    BY <1>1, <1>2, <1>5, <1>9
  <2> QED
    BY <1>4, <1>9, <2>1 DEF One, O, P
<1> QED
  BY <1>7, <1>8, <1>9

\* The counts of a context in use change as the operations outstanding and the
\* workers that have a send to count do; a context that comes into use is
\* zeroed and nobody refers to it.
CountOK(w, r, b, q) ==
  \A c \in Contexts : mem'[c] = "live" =>
    \/ /\ mem[c] = "live"
       /\ ctx'[c].nOutstandingRecv = ctx[c].nOutstandingRecv
            + One(b \in Buffers /\ IsOut(q, c, "read"))
            - One(b \in Buffers /\ IsOut(buf[b], c, "read"))
       /\ ctx'[c].nOutstandingSend = ctx[c].nOutstandingSend
            + One(b \in Buffers /\ IsOut(q, c, "write"))
            - One(b \in Buffers /\ IsOut(buf[b], c, "write"))
            - One(Counts(r, c)) + One(Counts(wk[w], c))
    \/ /\ ctx'[c].nOutstandingRecv = 0 /\ ctx'[c].nOutstandingSend = 0
       /\ ~Referenced(c) /\ b \notin Buffers /\ r.pc # "count"

\* The counts of outstanding operations stay exact.
LEMMA CountStep ==
  ASSUME StateOK, CountInv, NEW w \in Workers, NEW r, NEW b, NEW q,
         WorkerTo(w, r), BufferTo(b, q), CountOK(w, r, b, q)
  PROVE  CountInv'
<1>1. ASSUME NEW c \in Contexts, mem'[c] = "live"
      PROVE  /\ ctx'[c].nOutstandingRecv = Cardinality(Outstanding(c, "read")')
             /\ ctx'[c].nOutstandingSend + Cardinality(Counting(c)')
                  = Cardinality(Outstanding(c, "write")')
  <2> DEFINE OR == Cardinality(Outstanding(c, "read"))
             OW == Cardinality(Outstanding(c, "write"))
             CW == Cardinality(Counting(c))
             OR1 == Cardinality(Outstanding(c, "read")')
             OW1 == Cardinality(Outstanding(c, "write")')
             CW1 == Cardinality(Counting(c)')
             a == One(b \in Buffers /\ IsOut(q, c, "read"))
             e == One(b \in Buffers /\ IsOut(buf[b], c, "read"))
             f == One(b \in Buffers /\ IsOut(q, c, "write"))
             g == One(b \in Buffers /\ IsOut(buf[b], c, "write"))
             h == One(Counts(r, c))
             i == One(Counts(wk[w], c))
  <2>1. a \in Int /\ e \in Int /\ f \in Int /\ g \in Int /\ h \in Int /\ i \in Int
    BY DEF One
  <2>2. OR \in Nat /\ OR1 = OR + a - e
    BY OutstandingMoves
  <2>3. OW \in Nat /\ OW1 = OW + f - g
    BY OutstandingMoves
  <2>4. CW \in Nat /\ CW1 = CW + h - i
    BY CountingMoves
  <2>5. ctx[c].nOutstandingRecv \in Int /\ ctx[c].nOutstandingSend \in Int
    BY DEF StateOK
  <2>6. CASE /\ mem[c] = "live"
             /\ ctx'[c].nOutstandingRecv = ctx[c].nOutstandingRecv + a - e
             /\ ctx'[c].nOutstandingSend = ctx[c].nOutstandingSend + f - g - h + i
    <3>1. /\ ctx[c].nOutstandingRecv = OR
          /\ ctx[c].nOutstandingSend + CW = OW
      BY <2>6 DEF CountInv
    <3> HIDE DEF OR, OW, CW, OR1, OW1, CW1, a, e, f, g, h, i
    <3>2. ctx'[c].nOutstandingRecv = OR1 /\ ctx'[c].nOutstandingSend + CW1 = OW1
      BY <2>1, <2>2, <2>3, <2>4, <2>5, <2>6, <3>1
    <3> QED
      BY <3>2 DEF OR1, OW1, CW1
  <2>7. CASE /\ ctx'[c].nOutstandingRecv = 0 /\ ctx'[c].nOutstandingSend = 0
             /\ ~Referenced(c) /\ b \notin Buffers /\ r.pc # "count"
    <3>1. ~Counts(r, c) /\ ~Counts(wk[w], c)
      BY <2>7 DEF Counts, Referenced, NeedsContext, ContextPcs
    <3>2. a = 0 /\ e = 0 /\ f = 0 /\ g = 0 /\ h = 0 /\ i = 0
      BY <2>7, <3>1 DEF One
    <3>3. Outstanding(c, "read") = {} /\ Outstanding(c, "write") = {}
      BY <2>7 DEF Referenced, Outstanding
    <3>4. Counting(c) = {}
      BY <2>7 DEF Counting, Referenced, NeedsContext, ContextPcs
    <3>5. OR = 0 /\ OW = 0 /\ CW = 0
      BY <3>3, <3>4, FS_EmptySet
    <3> QED
      BY <2>2, <2>3, <2>4, <2>7, <3>2, <3>5
  <2> QED
    BY <1>1, <2>6, <2>7 DEF CountOK
<1> QED
  BY <1>1 DEF CountInv

\* The step keeps the types, and a context out of use is zeroed.
ContextsTo ==
  /\ mem' \in [Contexts -> {"heap", "pooled", "live"}]
  /\ ctx' \in [Contexts -> ContextState]
  /\ \A c \in Contexts : mem'[c] # "live" => ctx'[c] = ZeroContext
  /\ accepted' \in 0..MaxAccepted /\ misuse' \in BOOLEAN

ShapeOK(w, r, b, q) ==
  /\ WorkerTo(w, r) /\ BufferTo(b, q) /\ WorkerOK(r)
  /\ b \in Buffers => BufferOK(q)
  /\ HeldOK(w, r, b, q)

\* A step of a worker that leaves the connection list alone.
LEMMA ConnStep ==
  ASSUME IInv, ~misuse, NEW w \in Workers, NEW r \in WorkerState, NEW b, NEW q,
         NEW d, ShapeOK(w, r, b, q), ContextsTo, UNCHANGED conns,
         ~misuse' => /\ NewOK(w, r, b, q) /\ CloseOK(w, r, d)
                     /\ CountOK(w, r, b, q)
  PROVE  IInv'
<1>1. StateOK /\ ShapeInv /\ HeldInv /\ Guarded
  BY DEF IInv, Core
<1>2. WorkerTo(w, r) /\ BufferTo(b, q)
  BY DEF ShapeOK
<1>3. StateOK'
  <2>1. /\ list' \in Seq(Contexts) /\ m_nCurrentConnection' \in Int
        /\ closePc' \in {"off", "lock", "next", "done"}
        /\ closeAt' \in Contexts \cup {NULL}
    BY <1>1, Types DEF conns
  <2>2. buf' \in [Buffers -> BufferState] /\ wk' \in [Workers -> WorkerState]
    BY <1>2 DEF WorkerTo, BufferTo
  <2>3. /\ mem' \in [Contexts -> {"heap", "pooled", "live"}]
        /\ ctx' \in [Contexts -> ContextState] /\ accepted' \in 0..MaxAccepted
        /\ misuse' \in BOOLEAN
    BY DEF ContextsTo
  <2> QED
    BY <2>1, <2>2, <2>3
       DEF StateOK, ContextState, BufferState, WorkerState, Pcs, Rets
<1>4. ShapeInv'
  <2>1. \A v \in Workers : WorkerOK(wk'[v])
    BY <1>1, <1>2, AfterStep DEF ShapeOK, ShapeInv
  <2>2. \A x \in Buffers : BufferOK(buf'[x])
    BY <1>1, <1>2, AfterStep DEF ShapeOK, ShapeInv
  <2>3. closePc' \in {"lock", "next"} => closeAt' \in Contexts
    BY <1>1 DEF ShapeInv, conns
  <2> QED
    BY <2>1, <2>2, <2>3 DEF ShapeInv, ContextsTo, WorkerOK, BufferOK, Out
<1>5. HeldInv'
  BY <1>2, HeldStep DEF ShapeOK
<1>6. ASSUME ~misuse'
      PROVE  Guarded'
  <2>1. NewInv'
    BY <1>1, <1>2, <1>6, NewStep DEF Guarded
  <2>2. ListInv'
    BY <1>1 DEF Guarded, ListInv, ListLockFree, conns
  <2>3. CloseInv'
    BY <1>1, <1>2, <1>6, CloseStep
  <2>4. CountInv'
    BY <1>1, <1>2, <1>6, CountStep DEF Guarded
  <2> QED
    BY <2>1, <2>2, <2>3, <2>4 DEF Guarded
<1> QED
  BY <1>3, <1>4, <1>5, <1>6 DEF IInv, Core

\* One that also leaves the contexts alone, and posts and counts nothing.
LEMMA QuietStep ==
  ASSUME IInv, ~misuse, NEW w \in Workers, NEW r \in WorkerState, NEW b, NEW q,
         ShapeOK(w, r, b, q), UNCHANGED <<mem, ctx, conns, accepted, misuse>>,
         Needs(r) => Needs(wk[w]) /\ r.c = wk[w].c,
         r.pc \notin {"add", "close", "count"}, wk[w].pc # "count",
         b \in Buffers => ~Out(q) /\ ~Out(buf[b]),
         r.pc \in {"test", "release"} /\ mem[r.c] = "live" => ctx[r.c].bClosing
  PROVE  IInv'
<1>1. StateOK /\ ShapeInv
  BY DEF IInv, Core
<1>2. ContextsTo
  BY <1>1, Types DEF ContextsTo, ShapeInv
<1>3. NewOK(w, r, b, q)
  BY DEF NewOK
<1>4. CloseOK(w, r, NULL)
  BY ConstantsAssumption DEF CloseOK
<1>5. CountOK(w, r, b, q)
  <2>1. ASSUME NEW c \in Contexts
        PROVE  /\ ~(b \in Buffers /\ IsOut(q, c, "read"))
               /\ ~(b \in Buffers /\ IsOut(buf[b], c, "read"))
               /\ ~(b \in Buffers /\ IsOut(q, c, "write"))
               /\ ~(b \in Buffers /\ IsOut(buf[b], c, "write"))
               /\ ~Counts(r, c) /\ ~Counts(wk[w], c)
               /\ ctx[c].nOutstandingRecv \in Int /\ ctx[c].nOutstandingSend \in Int
    BY <1>1 DEF IsOut, Counts, StateOK
  <2> QED
    BY <2>1 DEF CountOK, One
<1> QED
  BY <1>2, <1>3, <1>4, <1>5, ConnStep

-----------------------------------------------------------------------------
(* The handlers, action by action.                                         *)

\* setsockopt and WSAIoctl after the accept.
LEMMA KeepAliveKept ==
  ASSUME IInv, ~misuse, NEW w \in Workers, KeepAlive(w)
  PROVE  IInv'
<1>1. StateOK /\ wk[w].pc = "keepalive" /\ buf' = buf
      /\ UNCHANGED <<mem, ctx, conns, accepted, misuse>>
  BY DEF IInv, Core, KeepAlive, At
<1>2. PICK r \in WorkerState :
        /\ WorkerTo(w, r) /\ r.c = wk[w].c /\ r.b = wk[w].b
        /\ r.pc = "send" \/ (r.pc = "unlist" /\ r.ret = "done")
  <2>1. "send" \in Pcs /\ "done" \in Rets
    BY DEF Pcs, Rets, ContextPcs
  <2>2. CASE Goto(w, "send")
    BY <1>1, <2>1, <2>2, Goes
  <2>3. CASE GotoClose(w, "done")
    BY <1>1, <2>1, <2>3, GoesToClose
  <2> QED
    BY <2>2, <2>3 DEF KeepAlive
<1>3. BufferTo(NULL, FreeBuffer)
  BY <1>1, BufferStays
<1>4. Needs(wk[w]) /\ wk[w].c \in Contexts /\ NULL \notin Buffers
  BY <1>1, WorkerFacts DEF Needs, ContextPcs
<1>5. ShapeOK(w, r, NULL, FreeBuffer)
  BY <1>2, <1>3, <1>4 DEF ShapeOK, WorkerOK, HeldOK
<1> QED
  BY <1>1, <1>2, <1>4, <1>5, QuietStep

\* The test of bClosing; only a closed connection leads to the test of the
\* counts.
LEMMA CheckClosingKept ==
  ASSUME IInv, ~misuse, NEW w \in Workers, CheckClosing(w)
  PROVE  IInv'
<1>1. StateOK /\ wk[w].pc = "closing" /\ buf' = buf
      /\ UNCHANGED <<mem, ctx, conns, accepted, misuse>>
  BY DEF IInv, Core, CheckClosing, At
<1>2. PICK r \in WorkerState :
        /\ WorkerTo(w, r) /\ r.c = wk[w].c /\ r.b = wk[w].b
        /\ \/ r.pc \in {"notify", "send", "finish"}
           \/ r.pc = "test" /\ ctx[wk[w].c].bClosing
  <2>1. {"notify", "send", "finish", "test"} \subseteq Pcs
    BY DEF Pcs, ContextPcs
  <2>2. \/ ctx[wk[w].c].bClosing /\ Goto(w, "test")
        \/ Goto(w, "notify") \/ Goto(w, "send") \/ Goto(w, "finish")
    BY DEF CheckClosing
  <2>3. CASE ctx[wk[w].c].bClosing /\ Goto(w, "test")
    BY <1>1, <2>1, <2>3, Goes
  <2>4. CASE Goto(w, "notify") \/ Goto(w, "send") \/ Goto(w, "finish")
    BY <1>1, <2>1, <2>4, Goes
  <2> QED
    BY <2>2, <2>3, <2>4
<1>3. BufferTo(NULL, FreeBuffer)
  BY <1>1, BufferStays
<1>4. Needs(wk[w]) /\ wk[w].c \in Contexts /\ NULL \notin Buffers
  BY <1>1, WorkerFacts DEF Needs, ContextPcs
<1>5. ShapeOK(w, r, NULL, FreeBuffer)
  BY <1>2, <1>3, <1>4 DEF ShapeOK, WorkerOK, HeldOK
<1> QED
  BY <1>1, <1>2, <1>4, <1>5, QuietStep

\* The unlocked test of the two counts.
LEMMA TestOutstandingKept ==
  ASSUME IInv, ~misuse, NEW w \in Workers, TestOutstanding(w)
  PROVE  IInv'
<1>1. StateOK /\ wk[w].pc = "test" /\ mem[wk[w].c] = "live" /\ buf' = buf
      /\ UNCHANGED <<mem, ctx, conns, accepted, misuse>>
  BY DEF IInv, Core, TestOutstanding, At
<1>2. PICK r \in WorkerState :
        /\ WorkerTo(w, r) /\ r.c = wk[w].c /\ r.b = wk[w].b
        /\ r.pc \in {"release", "finish"}
  <2>1. {"release", "finish"} \subseteq Pcs
    BY DEF Pcs, ContextPcs
  <2>2. Goto(w, "release") \/ Goto(w, "finish")
    BY DEF TestOutstanding
  <2> QED
    BY <1>1, <2>1, <2>2, Goes
<1>3. BufferTo(NULL, FreeBuffer)
  BY <1>1, BufferStays
<1>4. Needs(wk[w]) /\ wk[w].c \in Contexts /\ NULL \notin Buffers
  BY <1>1, WorkerFacts DEF Needs, ContextPcs
<1>5. ShapeOK(w, r, NULL, FreeBuffer)
  BY <1>2, <1>3, <1>4 DEF ShapeOK, WorkerOK, HeldOK
<1>6. ctx[wk[w].c].bClosing
  BY <1>1 DEF IInv, Guarded, CloseInv
<1> QED
  BY <1>1, <1>2, <1>4, <1>5, <1>6, QuietStep

\* The loop over the initial reads ends.
LEMMA PostReadsDoneKept ==
  ASSUME IInv, ~misuse, NEW w \in Workers, PostReadsDone(w)
  PROVE  IInv'
<1>1. StateOK /\ wk[w].pc = "reads" /\ buf' = buf
      /\ UNCHANGED <<mem, ctx, conns, accepted, misuse>>
  BY DEF IInv, Core, PostReadsDone
<1>2. WorkerTo(w, IdleWorker) /\ IdleWorker \in WorkerState
  BY <1>1, Returns, Types DEF PostReadsDone
<1>3. BufferTo(NULL, FreeBuffer) /\ NULL \notin Buffers
  BY <1>1, BufferStays, ConstantsAssumption
<1>5. ShapeOK(w, IdleWorker, NULL, FreeBuffer)
  BY <1>2, <1>3, RecordFields DEF ShapeOK, HeldOK
<1> QED
  BY <1>1, <1>2, <1>3, <1>5, RecordFields, QuietStep

\* ReleaseBuffer and back to the port.
LEMMA FinishKept ==
  ASSUME IInv, ~misuse, NEW w \in Workers, Finish(w)
  PROVE  IInv'
<1>1. StateOK /\ wk[w].pc = "finish"
      /\ UNCHANGED <<mem, ctx, conns, accepted, misuse>>
  BY DEF IInv, Core, Finish
<1>2. WorkerTo(w, IdleWorker) /\ IdleWorker \in WorkerState
  BY <1>1, Returns, Types DEF Finish
<1>3. BufferTo(wk[w].b, FreeBuffer)
  BY <1>1, Releases DEF Finish
<1>4. wk[w].b \in Buffers => ~Out(buf[wk[w].b])
  BY WorkerFacts DEF Out, Completed
<1>5. ShapeOK(w, IdleWorker, wk[w].b, FreeBuffer)
  BY <1>2, <1>3, RecordFields DEF ShapeOK, HeldOK
<1> QED
  BY <1>1, <1>2, <1>4, <1>5, RecordFields, QuietStep

\* The callback returns.
LEMMA SendDoneKept ==
  ASSUME IInv, ~misuse, NEW w \in Workers, SendDone(w)
  PROVE  IInv'
<1>1. StateOK /\ wk[w].pc = "sendDone"
      /\ UNCHANGED <<mem, ctx, conns, accepted, misuse>>
  BY DEF IInv, Core, SendDone, At
<1> DEFINE m == IF wk[w].ret = "reads" THEN InitialReads ELSE 1
           r == [wk[w] EXCEPT !.pc = "reads", !.b = NULL, !.n = m]
<1>2. wk[w] \in WorkerState /\ wk \in [Workers -> WorkerState]
  BY <1>1, Types
<1>3. m \in Nat /\ "reads" \in Pcs
  BY ConstantsAssumption DEF Pcs
<1>4. wk' = [wk EXCEPT ![w] = r]
  BY <1>2 DEF SendDone
<1> HIDE DEF m
<1>5. r \in WorkerState /\ r.pc = "reads" /\ r.c = wk[w].c /\ r.b = NULL
  BY <1>2, <1>3 DEF WorkerState
<1> HIDE DEF r
<1>6. WorkerTo(w, r)
  BY <1>1, <1>4, <1>5, WorkerMoves
<1>7. BufferTo(wk[w].b, FreeBuffer)
  BY <1>1, Releases DEF SendDone
<1>8. wk[w].b \in Buffers => ~Out(buf[wk[w].b])
  BY WorkerFacts DEF Out, Completed
<1>9. Needs(wk[w]) /\ wk[w].c \in Contexts
  BY <1>1, WorkerFacts DEF Needs, ContextPcs
<1>10. ShapeOK(w, r, wk[w].b, FreeBuffer)
  BY <1>5, <1>6, <1>7, <1>9, RecordFields DEF ShapeOK, HeldOK, WorkerOK
<1> QED
  BY <1>1, <1>5, <1>8, <1>9, <1>10, RecordFields, QuietStep

\* A buffer that AllocateBuffer hands out, and what the two posts make of it.
LEMMA FreshBuffer ==
  ASSUME IInv, NEW b \in Free
  PROVE  /\ b \in Buffers /\ buf[b] \in BufferState /\ buf[b].st = "free"
         /\ ~Out(buf[b]) /\ buf[b].st # "held"
<1>1. StateOK
  BY DEF IInv, Core
<1>2. b \in Buffers /\ buf[b].st = "free"
  BY DEF Free
<1>3. buf[b] \in BufferState
  BY <1>1, <1>2, Types
<1> QED
  BY <1>2, <1>3 DEF Out, Completed

\* A buffer whose send or receive could not be posted is dropped.
LEMMA Leaks ==
  ASSUME IInv, NEW b \in Free,
         buf' = [buf EXCEPT ![b] = [FreeBuffer EXCEPT !.st = "leaked"]]
  PROVE  \E q \in BufferState :
           BufferTo(b, q) /\ q.st = "leaked" /\ ~Out(q) /\ BufferOK(q)
<1> DEFINE q == [FreeBuffer EXCEPT !.st = "leaked"]
<1>1. q \in BufferState /\ q.st = "leaked"
  BY DEF FreeBuffer, BufferState
<1>2. ~Out(q) /\ BufferOK(q)
  BY <1>1 DEF Out, BufferOK, Completed
<1>3. BufferTo(b, q)
  BY <1>1, BufferMoves, FreshBuffer DEF IInv, Core
<1> QED
  BY <1>1, <1>2, <1>3

\* A buffer handed to WSASend or WSARecv.
LEMMA Posts ==
  ASSUME IInv, NEW b \in Free, NEW c \in Contexts, NEW op \in {"read", "write"},
         buf' = [buf EXCEPT ![b] = [st |-> "pending", op |-> op, key |-> c]]
  PROVE  \E q \in BufferState :
           /\ BufferTo(b, q) /\ q.st = "pending" /\ q.op = op /\ q.key = c
           /\ Out(q) /\ BufferOK(q)
<1> DEFINE q == [st |-> "pending", op |-> op, key |-> c]
<1>1. q \in BufferState /\ q.st = "pending" /\ q.op = op /\ q.key = c
  BY DEF BufferState
<1>2. Out(q) /\ BufferOK(q)
  BY <1>1 DEF Out, BufferOK, Completed
<1>3. BufferTo(b, q)
  BY <1>1, BufferMoves, FreshBuffer DEF IInv, Core
<1> QED
  BY <1>1, <1>2, <1>3

\* The contexts, when nothing changes or when only one context in use does.
LEMMA ContextsSame ==
  ASSUME IInv, UNCHANGED <<mem, ctx, accepted, misuse>>
  PROVE  ContextsTo
BY Types DEF IInv, Core, ContextsTo, ShapeInv

\* The fields of a context in use change.
LEMMA ContextMoves ==
  ASSUME IInv, NEW c \in Contexts, NEW k \in ContextState, mem[c] = "live",
         ctx' = [ctx EXCEPT ![c] = k], UNCHANGED <<mem, accepted, misuse>>
  PROVE  /\ ContextsTo /\ ctx'[c] = k
         /\ \A d \in Contexts \ {c} : ctx'[d] = ctx[d]
<1>1. StateOK /\ ShapeInv
  BY DEF IInv, Core
<1>2. ctx \in [Contexts -> ContextState]
  BY <1>1, Types
<1>3. /\ ctx'[c] = k /\ \A d \in Contexts \ {c} : ctx'[d] = ctx[d]
      /\ ctx' \in [Contexts -> ContextState]
  BY <1>2
<1>4. /\ mem' \in [Contexts -> {"heap", "pooled", "live"}]
      /\ accepted' \in 0..MaxAccepted /\ misuse' \in BOOLEAN
  BY <1>1, Types
<1>5. \A d \in Contexts : mem'[d] # "live" => ctx'[d] = ZeroContext
  BY <1>1, <1>3 DEF ShapeInv
<1> QED
  BY <1>3, <1>4, <1>5 DEF ContextsTo

\* SendText: no buffer, a dropped one, or one sent and not yet counted.
LEMMA SendTextKept ==
  ASSUME IInv, ~misuse, NEW w \in Workers, SendText(w)
  PROVE  IInv'
<1>1. StateOK /\ wk[w].pc = "send" /\ mem[wk[w].c] = "live"
      /\ UNCHANGED <<mem, ctx, conns, accepted, misuse>>
  BY DEF IInv, Core, SendText, At
<1>2. /\ Needs(wk[w]) /\ wk[w].c \in Contexts /\ NULL \notin Buffers
      /\ "sendDone" \in Pcs /\ "count" \in Pcs
  BY <1>1, WorkerFacts DEF Needs, Pcs, ContextPcs
<1>3. CASE Goto(w, "sendDone") /\ buf' = buf
  <2>1. PICK r \in WorkerState :
          WorkerTo(w, r) /\ r.c = wk[w].c /\ r.b = wk[w].b /\ r.pc = "sendDone"
    BY <1>1, <1>2, <1>3, Goes
  <2>2. BufferTo(NULL, FreeBuffer)
    BY <1>1, <1>3, BufferStays
  <2>3. ShapeOK(w, r, NULL, FreeBuffer)
    BY <1>2, <2>1, <2>2 DEF ShapeOK, WorkerOK, HeldOK
  <2> QED
    BY <1>1, <1>2, <2>1, <2>3, QuietStep
<1>4. ASSUME NEW b \in Free,
             buf' = [buf EXCEPT ![b] = [FreeBuffer EXCEPT !.st = "leaked"]],
             Goto(w, "sendDone")
      PROVE  IInv'
  <2>1. PICK r \in WorkerState :
          WorkerTo(w, r) /\ r.c = wk[w].c /\ r.b = wk[w].b /\ r.pc = "sendDone"
    BY <1>1, <1>2, <1>4, Goes
  <2>2. PICK q \in BufferState :
          BufferTo(b, q) /\ q.st = "leaked" /\ ~Out(q) /\ BufferOK(q)
    BY <1>4, Leaks
  <2>3. b \in Buffers /\ ~Out(buf[b]) /\ buf[b].st # "held"
    BY FreshBuffer
  <2>4. r.b # b \/ r.b = NULL
    BY <2>1, <2>3, WorkerFacts
  <2>5. ShapeOK(w, r, b, q)
    BY <1>2, <2>1, <2>2, <2>3, <2>4 DEF ShapeOK, WorkerOK, HeldOK
  <2> QED
    BY <1>1, <1>2, <2>1, <2>2, <2>3, <2>5, QuietStep
<1>5. ASSUME NEW b \in Free,
             buf' = [buf EXCEPT ![b] =
                       [st |-> "pending", op |-> "write", key |-> wk[w].c]],
             Goto(w, "count")
      PROVE  IInv'
  <2>1. PICK r \in WorkerState :
          WorkerTo(w, r) /\ r.c = wk[w].c /\ r.b = wk[w].b /\ r.pc = "count"
    BY <1>1, <1>2, <1>5, Goes
  <2>2. PICK q \in BufferState :
          /\ BufferTo(b, q) /\ q.st = "pending" /\ q.op = "write"
          /\ q.key = wk[w].c /\ Out(q) /\ BufferOK(q)
    BY ZenonT(30), <1>2, <1>5, Posts
  <2>3. b \in Buffers /\ ~Out(buf[b]) /\ buf[b].st # "held"
    BY FreshBuffer
  <2>4. r.b # b \/ r.b = NULL
    BY <2>1, <2>3, WorkerFacts
  <2>5. ShapeOK(w, r, b, q)
    BY <1>2, <2>1, <2>2, <2>3, <2>4 DEF ShapeOK, WorkerOK, HeldOK
  <2>6. NewOK(w, r, b, q)
    BY <1>1, <1>2, <2>1, <2>2 DEF NewOK
  <2>7. CloseOK(w, r, NULL)
    BY <1>1, <2>1 DEF CloseOK
  <2>8. CountOK(w, r, b, q)
    <3>1. ASSUME NEW c \in Contexts
          PROVE  /\ One(b \in Buffers /\ IsOut(q, c, "read")) = 0
                 /\ One(b \in Buffers /\ IsOut(buf[b], c, "read")) = 0
                 /\ One(b \in Buffers /\ IsOut(q, c, "write")) = One(c = wk[w].c)
                 /\ One(b \in Buffers /\ IsOut(buf[b], c, "write")) = 0
                 /\ One(Counts(r, c)) = One(c = wk[w].c)
                 /\ One(Counts(wk[w], c)) = 0
      BY <1>1, <2>1, <2>2, <2>3 DEF IsOut, Counts, One
    <3>2. \A c \in Contexts : One(c = wk[w].c) \in Int
             /\ ctx[c].nOutstandingRecv \in Int /\ ctx[c].nOutstandingSend \in Int
      BY <1>1 DEF One, StateOK
    <3> QED
      BY <1>1, <3>1, <3>2 DEF CountOK
  <2> QED
    BY <1>1, <2>5, <2>6, <2>7, <2>8, ContextsSame, ConnStep
<1> QED
  BY <1>3, <1>4, <1>5 DEF SendText

\* The increment of nOutstandingSend.
LEMMA CountSendKept ==
  ASSUME IInv, ~misuse, NEW w \in Workers, CountSend(w)
  PROVE  IInv'
<1>1. StateOK /\ wk[w].pc = "count" /\ mem[wk[w].c] = "live" /\ buf' = buf
      /\ UNCHANGED <<mem, conns, accepted, misuse>>
  BY DEF IInv, Core, CountSend, At
<1>2. Needs(wk[w]) /\ wk[w].c \in Contexts /\ NULL \notin Buffers
      /\ "sendDone" \in Pcs
  BY <1>1, WorkerFacts DEF Needs, Pcs, ContextPcs
<1> DEFINE k == [ctx[wk[w].c] EXCEPT !.nOutstandingSend = @ + 1]
<1>3. ctx[wk[w].c] \in ContextState
  BY <1>1, <1>2, Types
<1>4. /\ k \in ContextState /\ k.bClosing = ctx[wk[w].c].bClosing
      /\ k.nOutstandingRecv = ctx[wk[w].c].nOutstandingRecv
      /\ k.nOutstandingSend = ctx[wk[w].c].nOutstandingSend + 1
  BY <1>3 DEF ContextState
<1>5. ctx' = [ctx EXCEPT ![wk[w].c] = k]
  BY <1>1, <1>2, Types DEF CountSend
<1> HIDE DEF k
<1>6. /\ ContextsTo /\ ctx'[wk[w].c] = k
      /\ \A d \in Contexts \ {wk[w].c} : ctx'[d] = ctx[d]
  BY <1>1, <1>2, <1>4, <1>5, ContextMoves
<1>7. PICK r \in WorkerState :
        WorkerTo(w, r) /\ r.c = wk[w].c /\ r.b = wk[w].b /\ r.pc = "sendDone"
  BY <1>1, <1>2, Goes DEF CountSend
<1>8. BufferTo(NULL, FreeBuffer)
  BY <1>1, BufferStays
<1>9. ShapeOK(w, r, NULL, FreeBuffer)
  BY <1>2, <1>7, <1>8 DEF ShapeOK, WorkerOK, HeldOK
<1>10. NewOK(w, r, NULL, FreeBuffer)
  BY <1>2, <1>7 DEF NewOK
<1>11. CloseOK(w, r, wk[w].c)
  BY <1>1, <1>4, <1>6, <1>7 DEF CloseOK
<1>12. CountOK(w, r, NULL, FreeBuffer)
  <2>1. ASSUME NEW c \in Contexts
        PROVE  /\ \A q, op : One(NULL \in Buffers /\ IsOut(q, c, op)) = 0
               /\ One(Counts(r, c)) = 0
               /\ One(Counts(wk[w], c)) = IF c = wk[w].c THEN 1 ELSE 0
               /\ ctx[c].nOutstandingRecv \in Int /\ ctx[c].nOutstandingSend \in Int
    BY <1>1, <1>2, <1>7 DEF Counts, One, StateOK
  <2> QED
    BY <1>1, <1>4, <1>6, <2>1 DEF CountOK
<1> QED
  BY <1>1, <1>6, <1>9, <1>10, <1>11, <1>12, ConnStep

\* The notification before the close.
LEMMA NotifyKept ==
  ASSUME IInv, ~misuse, NEW w \in Workers, Notify(w)
  PROVE  IInv'
<1>1. StateOK /\ wk[w].pc = "notify" /\ mem[wk[w].c] = "live" /\ buf' = buf
      /\ UNCHANGED <<mem, conns, accepted, misuse>>
  BY DEF IInv, Core, Notify, At
<1>2. Needs(wk[w]) /\ wk[w].c \in Contexts /\ NULL \notin Buffers
      /\ "test" \in Rets
  BY <1>1, WorkerFacts DEF Needs, Rets, ContextPcs
<1> DEFINE k == [ctx[wk[w].c] EXCEPT !.bNotifyCloseOrError = TRUE]
<1>3. ctx[wk[w].c] \in ContextState
  BY <1>1, <1>2, Types
<1>4. /\ k \in ContextState /\ k.bClosing = ctx[wk[w].c].bClosing
      /\ k.nOutstandingRecv = ctx[wk[w].c].nOutstandingRecv
      /\ k.nOutstandingSend = ctx[wk[w].c].nOutstandingSend
  BY <1>3 DEF ContextState
<1>5. ctx' = [ctx EXCEPT ![wk[w].c] = k]
  BY <1>1, <1>2, Types DEF Notify
<1> HIDE DEF k
<1>6. /\ ContextsTo /\ ctx'[wk[w].c] = k
      /\ \A d \in Contexts \ {wk[w].c} : ctx'[d] = ctx[d]
  BY <1>1, <1>2, <1>4, <1>5, ContextMoves
<1>7. PICK r \in WorkerState :
        /\ WorkerTo(w, r) /\ r.c = wk[w].c /\ r.b = wk[w].b /\ r.pc = "unlist"
        /\ r.ret = "test"
  BY <1>1, <1>2, GoesToClose DEF Notify
<1>8. BufferTo(NULL, FreeBuffer)
  BY <1>1, BufferStays
<1>9. ShapeOK(w, r, NULL, FreeBuffer)
  BY <1>2, <1>7, <1>8 DEF ShapeOK, WorkerOK, HeldOK
<1>10. NewOK(w, r, NULL, FreeBuffer)
  BY <1>2, <1>7 DEF NewOK
<1>11. CloseOK(w, r, wk[w].c)
  BY <1>1, <1>4, <1>6, <1>7 DEF CloseOK
<1>12. CountOK(w, r, NULL, FreeBuffer)
  <2>1. ASSUME NEW c \in Contexts
        PROVE  /\ \A q, op : One(NULL \in Buffers /\ IsOut(q, c, op)) = 0
               /\ One(Counts(r, c)) = 0 /\ One(Counts(wk[w], c)) = 0
               /\ ctx[c].nOutstandingRecv \in Int /\ ctx[c].nOutstandingSend \in Int
    BY <1>1, <1>2, <1>7 DEF Counts, One, StateOK
  <2> QED
    BY <1>1, <1>4, <1>6, <2>1 DEF CountOK
<1> QED
  BY <1>1, <1>6, <1>9, <1>10, <1>11, <1>12, ConnStep

\* A round of the loop that posts the reads.
LEMMA CountsDown ==
  ASSUME StateOK, NEW w \in Workers, wk[w].n > 0,
         wk' = [wk EXCEPT ![w].n = @ - 1]
  PROVE  \E r \in WorkerState :
           /\ WorkerTo(w, r) /\ r.pc = wk[w].pc /\ r.c = wk[w].c
           /\ r.b = wk[w].b /\ r.ret = wk[w].ret
<1> DEFINE r == [wk[w] EXCEPT !.n = @ - 1]
<1>1. wk[w] \in WorkerState /\ wk \in [Workers -> WorkerState]
  BY Types
<1>2. r \in WorkerState /\ r.pc = wk[w].pc /\ r.c = wk[w].c /\ r.b = wk[w].b
      /\ r.ret = wk[w].ret
  BY <1>1 DEF WorkerState
<1>3. wk' = [wk EXCEPT ![w] = r]
  BY <1>1
<1> HIDE DEF r
<1>4. WorkerTo(w, r)
  BY <1>2, <1>3, WorkerMoves
<1> QED
  BY <1>2, <1>4

\* A read posted and counted, dropped, or without a buffer.
LEMMA PostReadsKept ==
  ASSUME IInv, ~misuse, NEW w \in Workers, PostReads(w)
  PROVE  IInv'
<1>1. StateOK /\ wk[w].pc = "reads" /\ wk[w].n > 0 /\ mem[wk[w].c] = "live"
      /\ UNCHANGED <<mem, conns, accepted, misuse>>
  BY DEF IInv, Core, PostReads, At
<1>2. Needs(wk[w]) /\ wk[w].c \in Contexts /\ NULL \notin Buffers
      /\ "done" \in Rets
  BY <1>1, WorkerFacts DEF Needs, Rets
<1>3. CASE UNCHANGED <<ctx, buf>> /\ (wk' = [wk EXCEPT ![w].n = @ - 1]
                                      \/ GotoClose(w, "done"))
  <2>1. PICK r \in WorkerState :
          /\ WorkerTo(w, r) /\ r.c = wk[w].c /\ r.b = wk[w].b
          /\ r.pc = "reads" \/ (r.pc = "unlist" /\ r.ret = "done")
    <3>1. CASE wk' = [wk EXCEPT ![w].n = @ - 1]
      BY <1>1, <3>1, CountsDown
    <3>2. CASE GotoClose(w, "done")
      BY <1>1, <1>2, <3>2, GoesToClose
    <3> QED
      BY <1>3, <3>1, <3>2
  <2>2. BufferTo(NULL, FreeBuffer)
    BY <1>1, <1>3, BufferStays
  <2>3. ShapeOK(w, r, NULL, FreeBuffer)
    BY <1>2, <2>1, <2>2 DEF ShapeOK, WorkerOK, HeldOK
  <2>4. UNCHANGED <<mem, ctx, conns, accepted, misuse>>
    BY <1>1, <1>3
  <2> QED
    BY <1>1, <1>2, <2>1, <2>3, <2>4, QuietStep
<1>4. ASSUME NEW b \in Free,
             buf' = [buf EXCEPT ![b] = [FreeBuffer EXCEPT !.st = "leaked"]],
             GotoClose(w, "done"), UNCHANGED ctx
      PROVE  IInv'
  <2>1. PICK r \in WorkerState :
          /\ WorkerTo(w, r) /\ r.c = wk[w].c /\ r.b = wk[w].b
          /\ r.pc = "unlist" /\ r.ret = "done"
    BY <1>1, <1>2, <1>4, GoesToClose
  <2>2. PICK q \in BufferState :
          BufferTo(b, q) /\ q.st = "leaked" /\ ~Out(q) /\ BufferOK(q)
    BY <1>4, Leaks
  <2>3. b \in Buffers /\ ~Out(buf[b]) /\ buf[b].st # "held"
    BY FreshBuffer
  <2>4. r.b # b \/ r.b = NULL
    BY <2>1, <2>3, WorkerFacts
  <2>5. ShapeOK(w, r, b, q)
    BY <1>2, <2>1, <2>2, <2>3, <2>4 DEF ShapeOK, WorkerOK, HeldOK
  <2> QED
    BY <1>1, <1>2, <1>4, <2>1, <2>2, <2>3, <2>5, QuietStep
<1>5. ASSUME NEW b \in Free,
             buf' = [buf EXCEPT ![b] =
                       [st |-> "pending", op |-> "read", key |-> wk[w].c]],
             ctx' = [ctx EXCEPT ![wk[w].c].nOutstandingRecv = @ + 1],
             wk' = [wk EXCEPT ![w].n = @ - 1]
      PROVE  IInv'
  <2>1. PICK r \in WorkerState :
          WorkerTo(w, r) /\ r.c = wk[w].c /\ r.b = wk[w].b /\ r.pc = "reads"
    BY <1>1, <1>5, CountsDown
  <2>2. PICK q \in BufferState :
          /\ BufferTo(b, q) /\ q.st = "pending" /\ q.op = "read"
          /\ q.key = wk[w].c /\ Out(q) /\ BufferOK(q)
    <3> DEFINE c == wk[w].c
    <3>1. buf' = [buf EXCEPT ![b] = [st |-> "pending", op |-> "read", key |-> c]]
      BY <1>5
    <3>2. c \in Contexts
      BY <1>2
    <3> HIDE DEF c
    <3>3. \E q \in BufferState :
            /\ BufferTo(b, q) /\ q.st = "pending" /\ q.op = "read" /\ q.key = c
            /\ Out(q) /\ BufferOK(q)
      BY ZenonT(30), <3>1, <3>2, Posts
    <3> QED
      BY <3>3 DEF c
  <2>3. b \in Buffers /\ ~Out(buf[b]) /\ buf[b].st # "held"
    BY FreshBuffer
  <2>4. r.b # b \/ r.b = NULL
    BY <2>1, <2>3, WorkerFacts
  <2>5. ShapeOK(w, r, b, q)
    BY <1>2, <2>1, <2>2, <2>3, <2>4 DEF ShapeOK, WorkerOK, HeldOK
  <2>6. NewOK(w, r, b, q)
    BY <1>1, <1>2, <2>1, <2>2 DEF NewOK
  <2> DEFINE k == [ctx[wk[w].c] EXCEPT !.nOutstandingRecv = @ + 1]
  <2>7. ctx[wk[w].c] \in ContextState
    BY <1>1, <1>2, Types
  <2>8. /\ k \in ContextState /\ k.bClosing = ctx[wk[w].c].bClosing
        /\ k.nOutstandingRecv = ctx[wk[w].c].nOutstandingRecv + 1
        /\ k.nOutstandingSend = ctx[wk[w].c].nOutstandingSend
    BY <2>7 DEF ContextState
  <2>9. ctx' = [ctx EXCEPT ![wk[w].c] = k]
    BY <1>1, <1>2, <1>5, Types
  <2> HIDE DEF k
  <2>10. /\ ContextsTo /\ ctx'[wk[w].c] = k
         /\ \A d \in Contexts \ {wk[w].c} : ctx'[d] = ctx[d]
    BY <1>1, <1>2, <2>8, <2>9, ContextMoves
  <2>11. CloseOK(w, r, wk[w].c)
    BY <1>1, <2>1, <2>8, <2>10 DEF CloseOK
  <2>12. CountOK(w, r, b, q)
    <3>1. ASSUME NEW c \in Contexts
          PROVE  /\ One(b \in Buffers /\ IsOut(q, c, "read"))
                      = IF c = wk[w].c THEN 1 ELSE 0
                 /\ One(b \in Buffers /\ IsOut(buf[b], c, "read")) = 0
                 /\ One(b \in Buffers /\ IsOut(q, c, "write")) = 0
                 /\ One(b \in Buffers /\ IsOut(buf[b], c, "write")) = 0
                 /\ One(Counts(r, c)) = 0 /\ One(Counts(wk[w], c)) = 0
      BY <1>1, <2>1, <2>2, <2>3 DEF IsOut, Counts, One
    <3>2. \A c \in Contexts :
             ctx[c].nOutstandingRecv \in Int /\ ctx[c].nOutstandingSend \in Int
      BY <1>1 DEF StateOK
    <3> QED
      BY <1>1, <2>8, <2>10, <3>1, <3>2 DEF CountOK
  <2> QED
    BY <1>1, <2>5, <2>6, <2>10, <2>11, <2>12, ConnStep
<1>6. CASE PostRecv(w)
  BY <1>4, <1>5, <1>6 DEF PostRecv
<1> QED
  BY <1>3, <1>6 DEF PostReads

\* A completion is dequeued and its count decremented.
LEMMA DequeueKept ==
  ASSUME IInv, ~misuse, NEW w \in Workers, NEW b \in Buffers, Dequeue(w, b)
  PROVE  IInv'
<1> DEFINE c == buf[b].key
           q == [buf[b] EXCEPT !.st = "held"]
           r == [IdleWorker EXCEPT !.pc = "closing", !.c = c, !.b = b,
                                   !.ret = buf[b].st]
<1>1. /\ StateOK /\ wk[w].pc = "get" /\ buf[b].st \in Completed
      /\ mem[c] = "live" /\ UNCHANGED <<mem, conns, accepted, misuse>>
  BY DEF IInv, Core, Dequeue
<1>2. /\ buf[b] \in BufferState /\ BufferOK(buf[b]) /\ Out(buf[b])
      /\ buf[b].st # "held" /\ wk[w] = IdleWorker /\ NULL \notin Buffers
  <2>1. buf[b] \in BufferState /\ BufferOK(buf[b])
    BY <1>1, Types DEF IInv, Core, ShapeInv
  <2>2. wk[w] = IdleWorker
    BY <1>1, WorkerFacts DEF WorkerOK
  <2> QED
    BY <1>1, <2>1, <2>2, WorkerFacts DEF Out, Completed
<1>3. c \in Contexts /\ buf[b].op \in {"read", "write"}
  BY <1>2 DEF BufferOK
<1>4. q \in BufferState /\ q.st = "held" /\ q.key = c /\ q.op = buf[b].op
  BY <1>2 DEF BufferState
<1>5. r \in WorkerState /\ r.pc = "closing" /\ r.c = c /\ r.b = b
  <2>1. "closing" \in Pcs /\ buf[b].st \in Rets /\ IdleWorker \in WorkerState
    BY <1>1, Types DEF Pcs, Rets, ContextPcs
  <2> QED
    BY <1>3, <2>1 DEF WorkerState
<1>6. wk' = [wk EXCEPT ![w] = r] /\ buf' = [buf EXCEPT ![b] = q]
  BY <1>1, <1>2, Types DEF Dequeue
<1> HIDE DEF q, r
<1>7. WorkerTo(w, r) /\ BufferTo(b, q)
  BY <1>1, <1>4, <1>5, <1>6, WorkerMoves, BufferMoves
<1>8. ~Out(q) /\ BufferOK(q) /\ WorkerOK(r)
  BY <1>2, <1>3, <1>4, <1>5 DEF Out, BufferOK, WorkerOK, Completed
<1>9. ShapeOK(w, r, b, q)
  BY <1>2, <1>4, <1>5, <1>7, <1>8 DEF ShapeOK, HeldOK
<1>10. NewOK(w, r, b, q)
  BY <1>2, <1>5, <1>8 DEF NewOK
<1>11. PICK k \in ContextState :
         /\ ctx' = [ctx EXCEPT ![c] = k] /\ k.bClosing = ctx[c].bClosing
         /\ \/ /\ buf[b].op = "read"
               /\ k.nOutstandingRecv = ctx[c].nOutstandingRecv - 1
               /\ k.nOutstandingSend = ctx[c].nOutstandingSend
            \/ /\ buf[b].op = "write"
               /\ k.nOutstandingRecv = ctx[c].nOutstandingRecv
               /\ k.nOutstandingSend = ctx[c].nOutstandingSend - 1
  <2> DEFINE k1 == [ctx[c] EXCEPT !.nOutstandingRecv = @ - 1]
             k2 == [ctx[c] EXCEPT !.nOutstandingSend = @ - 1]
  <2>1. ctx \in [Contexts -> ContextState] /\ ctx[c] \in ContextState
    BY <1>1, <1>3, Types
  <2>2. /\ k1 \in ContextState /\ k1.bClosing = ctx[c].bClosing
        /\ k1.nOutstandingRecv = ctx[c].nOutstandingRecv - 1
        /\ k1.nOutstandingSend = ctx[c].nOutstandingSend
    BY <2>1 DEF ContextState
  <2>3. /\ k2 \in ContextState /\ k2.bClosing = ctx[c].bClosing
        /\ k2.nOutstandingRecv = ctx[c].nOutstandingRecv
        /\ k2.nOutstandingSend = ctx[c].nOutstandingSend - 1
    BY <2>1 DEF ContextState
  <2>4. \/ buf[b].op = "read" /\ ctx' = [ctx EXCEPT ![c] = k1]
        \/ buf[b].op = "write" /\ ctx' = [ctx EXCEPT ![c] = k2]
    BY <1>3, <2>1 DEF Dequeue
  <2> HIDE DEF k1, k2, c
  <2> QED
    BY <2>2, <2>3, <2>4
<1>12. /\ ContextsTo /\ ctx'[c] = k
       /\ \A d \in Contexts \ {c} : ctx'[d] = ctx[d]
  BY <1>1, <1>3, <1>11, ContextMoves
<1>13. CloseOK(w, r, c)
  BY <1>1, <1>5, <1>11, <1>12 DEF CloseOK
<1>14. CountOK(w, r, b, q)
  <2>1. ASSUME NEW d \in Contexts
        PROVE  /\ \A op : One(b \in Buffers /\ IsOut(q, d, op)) = 0
               /\ \A op : One(b \in Buffers /\ IsOut(buf[b], d, op))
                            = IF d = c /\ buf[b].op = op THEN 1 ELSE 0
               /\ One(Counts(r, d)) = 0 /\ One(Counts(wk[w], d)) = 0
               /\ ctx[d].nOutstandingRecv \in Int /\ ctx[d].nOutstandingSend \in Int
    BY <1>1, <1>2, <1>5, <1>8 DEF IsOut, Counts, One, StateOK
  <2> HIDE DEF c
  <2> QED
    BY <1>1, <1>11, <1>12, <2>1 DEF CountOK
<1> QED
  BY <1>1, <1>5, <1>9, <1>10, <1>12, <1>13, <1>14, ConnStep

\* The socket is closed; the connection was taken off the list before.
LEMMA CloseAConnectionKept ==
  ASSUME IInv, ~misuse, NEW w \in Workers, CloseAConnection(w)
  PROVE  IInv'
<1>1. StateOK /\ wk[w].pc = "close" /\ mem[wk[w].c] = "live" /\ buf' = buf
      /\ UNCHANGED <<mem, conns, accepted, misuse>>
  BY DEF IInv, Core, CloseAConnection, At
<1>2. /\ Needs(wk[w]) /\ wk[w].c \in Contexts /\ NULL \notin Buffers
      /\ wk[w].ret \in {"release", "done", "test"}
  BY <1>1, WorkerFacts DEF Needs, WorkerOK, ContextPcs
<1> DEFINE k == [ctx[wk[w].c] EXCEPT !.s = "invalid", !.bClosing = TRUE]
<1>3. ctx[wk[w].c] \in ContextState
  BY <1>1, <1>2, Types
<1>4. /\ k \in ContextState /\ k.bClosing
      /\ k.nOutstandingRecv = ctx[wk[w].c].nOutstandingRecv
      /\ k.nOutstandingSend = ctx[wk[w].c].nOutstandingSend
  BY <1>3 DEF ContextState
<1>5. ctx' = [ctx EXCEPT ![wk[w].c] = k]
  BY <1>1, <1>2, Types DEF CloseAConnection, CloseSocket
<1> HIDE DEF k
<1>6. /\ ContextsTo /\ ctx'[wk[w].c] = k
      /\ \A d \in Contexts \ {wk[w].c} : ctx'[d] = ctx[d]
  BY <1>1, <1>2, <1>4, <1>5, ContextMoves
<1>7. PICK r \in WorkerState :
        /\ WorkerTo(w, r)
        /\ \/ r = IdleWorker
           \/ /\ r.c = wk[w].c /\ r.b = wk[w].b /\ r.pc \in {"release", "test"}
  <2>1. CASE wk[w].ret = "done"
    BY <1>1, <2>1, Returns, Types DEF CloseAConnection
  <2>2. CASE wk[w].ret # "done"
    <3>1. wk[w].ret \in Pcs
      BY <1>2, <2>2 DEF Pcs, ContextPcs
    <3> QED
      BY <1>1, <1>2, <2>2, <3>1, Goes DEF CloseAConnection
  <2> QED
    BY <2>1, <2>2
<1>8. BufferTo(NULL, FreeBuffer)
  BY <1>1, BufferStays
<1>9. ShapeOK(w, r, NULL, FreeBuffer)
  BY <1>2, <1>7, <1>8, RecordFields DEF ShapeOK, WorkerOK, HeldOK
<1>10. NewOK(w, r, NULL, FreeBuffer)
  BY <1>2, <1>7, RecordFields DEF NewOK
<1>11. ~Ahead(wk[w].c)
  BY <1>1 DEF IInv, Guarded, CloseInv
<1>12. CloseOK(w, r, wk[w].c)
  BY <1>1, <1>2, <1>4, <1>6, <1>7, <1>11, RecordFields DEF CloseOK
<1>13. CountOK(w, r, NULL, FreeBuffer)
  <2>1. ASSUME NEW c \in Contexts
        PROVE  /\ \A q, op : One(NULL \in Buffers /\ IsOut(q, c, op)) = 0
               /\ One(Counts(r, c)) = 0 /\ One(Counts(wk[w], c)) = 0
               /\ ctx[c].nOutstandingRecv \in Int /\ ctx[c].nOutstandingSend \in Int
    BY <1>1, <1>2, <1>7, RecordFields DEF Counts, One, StateOK
  <2> QED
    BY <1>1, <1>4, <1>6, <2>1 DEF CountOK
<1> QED
  BY <1>1, <1>6, <1>9, <1>10, <1>12, <1>13, ConnStep

\* The context goes to the pool or to the heap, zeroed.
LEMMA ReleaseContextKept ==
  ASSUME IInv, ~misuse, NEW w \in Workers, ReleaseContext(w)
  PROVE  IInv'
<1>1. StateOK /\ wk[w].pc = "release" /\ mem[wk[w].c] = "live" /\ buf' = buf
      /\ UNCHANGED <<conns, accepted, misuse>>
  BY DEF IInv, Core, ReleaseContext, At
<1>2. Needs(wk[w]) /\ wk[w].c \in Contexts /\ NULL \notin Buffers
      /\ "finish" \in Pcs
  BY <1>1, WorkerFacts DEF Needs, Pcs, ContextPcs
<1>3. PICK m \in {"pooled", "heap"} : mem' = [mem EXCEPT ![wk[w].c] = m]
  BY DEF ReleaseContext
<1>4. /\ mem' \in [Contexts -> {"heap", "pooled", "live"}]
      /\ mem'[wk[w].c] # "live"
      /\ \A d \in Contexts \ {wk[w].c} : mem'[d] = mem[d]
  BY <1>1, <1>2, <1>3, Types
<1>5. /\ ctx' \in [Contexts -> ContextState]
      /\ ctx'[wk[w].c] = ZeroContext
      /\ \A d \in Contexts \ {wk[w].c} : ctx'[d] = ctx[d]
  BY <1>1, <1>2, Types DEF ReleaseContext
<1>6. ContextsTo
  <2>1. accepted' \in 0..MaxAccepted /\ misuse' \in BOOLEAN
    BY <1>1, Types
  <2>2. \A c \in Contexts : mem'[c] # "live" => ctx'[c] = ZeroContext
    BY <1>4, <1>5 DEF IInv, Core, ShapeInv
  <2> QED
    BY <1>4, <1>5, <2>1, <2>2 DEF ContextsTo
<1>7. PICK r \in WorkerState :
        WorkerTo(w, r) /\ r.c = wk[w].c /\ r.b = wk[w].b /\ r.pc = "finish"
  BY <1>1, <1>2, Goes DEF ReleaseContext
<1>8. BufferTo(NULL, FreeBuffer)
  BY <1>1, BufferStays
<1>9. ShapeOK(w, r, NULL, FreeBuffer)
  BY <1>2, <1>7, <1>8 DEF ShapeOK, WorkerOK, HeldOK
<1>10. NewOK(w, r, NULL, FreeBuffer)
  BY <1>2, <1>7 DEF NewOK
<1>11. ~Ahead(wk[w].c)
  BY <1>1, <1>2 DEF IInv, Guarded, CloseInv
<1>12. CloseOK(w, r, wk[w].c)
  BY <1>1, <1>2, <1>4, <1>5, <1>7, <1>11 DEF CloseOK
<1>13. CountOK(w, r, NULL, FreeBuffer)
  <2>1. ASSUME NEW c \in Contexts
        PROVE  /\ \A q, op : One(NULL \in Buffers /\ IsOut(q, c, op)) = 0
               /\ One(Counts(r, c)) = 0 /\ One(Counts(wk[w], c)) = 0
               /\ ctx[c].nOutstandingRecv \in Int /\ ctx[c].nOutstandingSend \in Int
    BY <1>1, <1>2, <1>7 DEF Counts, One, StateOK
  <2> QED
    BY <1>1, <1>4, <1>5, <2>1 DEF CountOK
<1> QED
  BY <1>1, <1>6, <1>9, <1>10, <1>12, <1>13, ConnStep

\* A new connection takes a context nobody refers to, or the flag is set.
LEMMA AllocateContextKept ==
  ASSUME IInv, ~misuse, NEW w \in Workers, AllocateContext(w)
  PROVE  IInv'
<1>1. StateOK /\ wk[w].pc = "get" /\ buf' = buf /\ UNCHANGED conns
      /\ accepted < MaxAccepted /\ accepted' = accepted + 1
  BY DEF IInv, Core, AllocateContext
<1>2. PICK c \in Contexts :
        /\ mem[c] # "live" /\ misuse' = Referenced(c)
        /\ mem' = [mem EXCEPT ![c] = "live"]
        /\ ctx' = [ctx EXCEPT ![c].s = "open", ![c].bNotifyCloseOrError = FALSE]
        /\ wk' = [wk EXCEPT ![w].pc = "add", ![w].c = c, ![w].ret = "reads"]
  <2>1. \A c \in IF Pooled # {} THEN Pooled ELSE {x \in Contexts : mem[x] = "heap"} :
          c \in Contexts /\ mem[c] # "live"
    BY DEF Pooled
  <2> QED
    BY <2>1 DEF AllocateContext
<1>3. wk[w] = IdleWorker /\ NULL \notin Buffers
  BY <1>1, WorkerFacts DEF WorkerOK
<1> DEFINE r == [wk[w] EXCEPT !.pc = "add", !.c = c, !.ret = "reads"]
           k == [ctx[c] EXCEPT !.s = "open", !.bNotifyCloseOrError = FALSE]
<1>4. wk[w] \in WorkerState /\ wk \in [Workers -> WorkerState]
      /\ ctx \in [Contexts -> ContextState] /\ ctx[c] = ZeroContext
  BY <1>1, <1>2, Types DEF IInv, Core, ShapeInv
<1>5. r \in WorkerState /\ r.pc = "add" /\ r.c = c /\ r.b = NULL
  <2>1. "add" \in Pcs /\ "reads" \in Rets
    BY DEF Pcs, Rets, ContextPcs
  <2> QED
    BY <1>3, <1>4, <2>1, RecordFields DEF WorkerState
<1>6. /\ k \in ContextState /\ k.bClosing = FALSE
      /\ k.nOutstandingRecv = 0 /\ k.nOutstandingSend = 0
  <2>1. ctx[c] \in ContextState
    BY <1>4
  <2> QED
    BY <1>4, <2>1, RecordFields DEF ContextState
<1>7. wk' = [wk EXCEPT ![w] = r] /\ ctx' = [ctx EXCEPT ![c] = k]
  BY <1>2, <1>4
<1> HIDE DEF r, k
<1>8. WorkerTo(w, r) /\ BufferTo(NULL, FreeBuffer)
  BY <1>1, <1>5, <1>7, WorkerMoves, BufferStays
<1>9. /\ ctx' \in [Contexts -> ContextState] /\ ctx'[c] = k
      /\ \A d \in Contexts \ {c} : ctx'[d] = ctx[d]
  BY <1>4, <1>6, <1>7
<1>10. /\ mem' \in [Contexts -> {"heap", "pooled", "live"}] /\ mem'[c] = "live"
       /\ \A d \in Contexts \ {c} : mem'[d] = mem[d]
  BY <1>1, <1>2, Types
<1>11. ContextsTo
  <2>1. accepted' \in 0..MaxAccepted
    <3>1. MaxAccepted \in Nat
      BY ConstantsAssumption
    <3> QED
      BY <1>1, <3>1, Types
  <2>2. misuse' \in BOOLEAN
    BY <1>2 DEF Referenced
  <2>3. \A d \in Contexts : mem'[d] # "live" => ctx'[d] = ZeroContext
    BY <1>9, <1>10 DEF IInv, Core, ShapeInv
  <2> QED
    BY <1>9, <1>10, <2>1, <2>2, <2>3 DEF ContextsTo
<1>12. ShapeOK(w, r, NULL, FreeBuffer)
  BY <1>3, <1>5, <1>8 DEF ShapeOK, WorkerOK, HeldOK
<1>13. ASSUME ~misuse'
       PROVE  /\ NewOK(w, r, NULL, FreeBuffer) /\ CloseOK(w, r, c)
              /\ CountOK(w, r, NULL, FreeBuffer)
  <2>1. ~Referenced(c)
    BY <1>2, <1>13
  <2>2. NewOK(w, r, NULL, FreeBuffer)
    BY <1>3, <1>5, <2>1 DEF NewOK
  <2>3. ~Ahead(c)
    BY <1>2 DEF IInv, Guarded, CloseInv
  <2>4. CloseOK(w, r, c)
    BY <1>5, <1>6, <1>9, <1>10, <2>1, <2>3 DEF CloseOK
  <2>5. CountOK(w, r, NULL, FreeBuffer)
    <3>1. ASSUME NEW d \in Contexts
          PROVE  /\ \A q, op : One(NULL \in Buffers /\ IsOut(q, d, op)) = 0
                 /\ One(Counts(r, d)) = 0 /\ One(Counts(wk[w], d)) = 0
                 /\ ctx[d].nOutstandingRecv \in Int /\ ctx[d].nOutstandingSend \in Int
      BY <1>1, <1>3, <1>5 DEF Counts, One, StateOK
    <3> QED
      BY <1>3, <1>5, <1>6, <1>9, <1>10, <2>1, <3>1 DEF CountOK
  <2> QED
    BY <2>2, <2>4, <2>5
<1> QED
  BY <1>1, <1>5, <1>11, <1>12, <1>13, ConnStep

-----------------------------------------------------------------------------
(* The steps that change the connection list.                              *)

\* A step of a worker that changes the list and its own place only.
LEMMA ListStep ==
  ASSUME IInv, ~misuse, NEW w \in Workers, NEW r \in WorkerState,
         ShapeOK(w, r, NULL, FreeBuffer),
         UNCHANGED <<mem, ctx, buf, closePc, closeAt, accepted, misuse>>,
         list' \in Seq(Contexts), m_nCurrentConnection' \in Int,
         Needs(wk[w]), r.c = wk[w].c, r.pc \notin {"add", "count"},
         wk[w].pc # "count", ListInv', CloseInv'
  PROVE  IInv'
<1>1. StateOK /\ ShapeInv /\ HeldInv /\ Guarded
  BY DEF IInv, Core
<1>2. WorkerTo(w, r) /\ BufferTo(NULL, FreeBuffer) /\ NULL \notin Buffers
  BY ConstantsAssumption DEF ShapeOK
<1>3. StateOK'
  <2>1. wk' \in [Workers -> WorkerState]
    BY <1>2 DEF WorkerTo
  <2> QED
    BY <1>1, <2>1 DEF StateOK, WorkerState, Pcs, Rets
<1>4. ShapeInv'
  <2>1. \A v \in Workers : WorkerOK(wk'[v])
    BY <1>1, <1>2, AfterStep DEF ShapeOK, ShapeInv
  <2> QED
    BY <1>1, <2>1 DEF ShapeInv, WorkerOK, BufferOK, Out
<1>5. HeldInv'
  BY <1>2, HeldStep DEF ShapeOK
<1>6. NewOK(w, r, NULL, FreeBuffer)
  BY <1>2 DEF NewOK
<1>7. CountOK(w, r, NULL, FreeBuffer)
  <2>1. ASSUME NEW c \in Contexts
        PROVE  /\ \A q, op : One(NULL \in Buffers /\ IsOut(q, c, op)) = 0
               /\ One(Counts(r, c)) = 0 /\ One(Counts(wk[w], c)) = 0
               /\ ctx[c].nOutstandingRecv \in Int /\ ctx[c].nOutstandingSend \in Int
    BY <1>1, <1>2 DEF Counts, One, StateOK
  <2> QED
    BY <1>2, <2>1 DEF CountOK
<1>8. NewInv' /\ CountInv'
  BY <1>1, <1>2, <1>6, <1>7, NewStep, CountStep DEF Guarded
<1> QED
  BY <1>3, <1>4, <1>5, <1>8 DEF IInv, Core, Guarded

\* While no walk is under way, the connections ahead are the listed ones.
LEMMA AheadIsListed ==
  ASSUME ListLockFree, NEW c
  PROVE  Ahead(c) <=> \E k \in DOMAIN list : list[k] = c
BY DEF Ahead

\* The new connection is listed, or turned away when the server is full.
LEMMA AddAConnectionKept ==
  ASSUME IInv, ~misuse, NEW w \in Workers, AddAConnection(w)
  PROVE  IInv'
<1> DEFINE c == wk[w].c
<1>1. /\ StateOK /\ NewInv /\ ListInv /\ CloseInv /\ wk[w].pc = "add"
      /\ mem[c] = "live" /\ ListLockFree
      /\ UNCHANGED <<mem, ctx, buf, closePc, closeAt, accepted, misuse>>
  BY DEF IInv, Core, Guarded, AddAConnection, At
<1>2. Needs(wk[w]) /\ c \in Contexts /\ NULL \notin Buffers
      /\ "keepalive" \in Pcs /\ "release" \in Rets /\ wk[w].b = NULL
  BY <1>1, WorkerFacts DEF Needs, Pcs, Rets, ContextPcs, WorkerOK
<1>3. BufferTo(NULL, FreeBuffer)
  BY <1>1, BufferStays
<1>4. CASE GotoClose(w, "release") /\ UNCHANGED <<list, m_nCurrentConnection>>
  <2>1. PICK r \in WorkerState :
          /\ WorkerTo(w, r) /\ r.c = wk[w].c /\ r.b = wk[w].b
          /\ r.pc = "unlist" /\ r.ret = "release"
    BY <1>1, <1>2, <1>4, GoesToClose
  <2>2. ShapeOK(w, r, NULL, FreeBuffer)
    BY <1>2, <1>3, <2>1 DEF ShapeOK, WorkerOK, HeldOK
  <2>3. UNCHANGED <<mem, ctx, conns, accepted, misuse>>
    BY <1>1, <1>4 DEF conns
  <2> QED
    BY <1>1, <1>2, <2>1, <2>2, <2>3, QuietStep
<1>5. CASE /\ m_nCurrentConnection <= MaxConnections
           /\ list' = <<c>> \o list
           /\ m_nCurrentConnection' = m_nCurrentConnection + 1
           /\ Goto(w, "keepalive")
  <2>1. PICK r \in WorkerState :
          WorkerTo(w, r) /\ r.c = wk[w].c /\ r.b = wk[w].b /\ r.pc = "keepalive"
    BY <1>1, <1>2, <1>5, Goes
  <2>2. ShapeOK(w, r, NULL, FreeBuffer)
    BY <1>2, <1>3, <2>1 DEF ShapeOK, WorkerOK, HeldOK
  <2>3. list \in Seq(Contexts) /\ m_nCurrentConnection \in Int
        /\ MaxConnections \in Nat
    BY <1>1, ConstantsAssumption, Types
  <2>4. /\ list' \in Seq(Contexts) /\ Len(list') = Len(list) + 1
        /\ DOMAIN list' = 1..(Len(list) + 1) /\ DOMAIN list = 1..Len(list)
        /\ Len(list) \in Nat
        /\ list'[1] = c /\ \A j \in 2..(Len(list) + 1) : list'[j] = list[j - 1]
    BY <1>2, <1>5, <2>3
  <2>5. \A x : Ahead(x)' <=> x = c \/ Ahead(x)
    <3>1. ListLockFree'
      BY <1>1 DEF ListLockFree
    <3>2. \A x : Ahead(x)' <=> \E k \in DOMAIN list' : list'[k] = x
      BY <3>1 DEF Ahead
    <3>3. \A x : Ahead(x) <=> \E k \in DOMAIN list : list[k] = x
      BY <1>1, AheadIsListed
    <3>4. ASSUME NEW x, NEW k \in DOMAIN list, list[k] = x
          PROVE  \E j \in DOMAIN list' : list'[j] = x
      <4>1. k + 1 \in DOMAIN list' /\ list'[k + 1] = list[k]
        BY <2>4
      <4> QED
        BY <3>4, <4>1
    <3>5. ASSUME NEW x, NEW k \in DOMAIN list', list'[k] = x, x # c
          PROVE  \E j \in DOMAIN list : list[j] = x
      <4>1. k - 1 \in DOMAIN list /\ list[k - 1] = list'[k]
        BY <2>4, <3>5
      <4> QED
        BY <3>5, <4>1
    <3>6. 1 \in DOMAIN list' /\ list'[1] = c
      BY <2>4
    <3> QED
      BY <3>2, <3>3, <3>4, <3>5, <3>6
  <2>6. ~Ahead(c) /\ ~ctx[c].bClosing
    BY <1>1 DEF CloseInv
  <2>7. ListInv'
    <3>1. m_nCurrentConnection' = Len(list') /\ m_nCurrentConnection' <= MaxConnections + 1
      BY <1>1, <1>5, <2>3, <2>4 DEF ListInv
    <3>2. \A j \in DOMAIN list : list[j] # c
      BY <1>1, <2>6, AheadIsListed
    <3>3. ASSUME NEW j \in DOMAIN list', NEW k \in DOMAIN list', list'[j] = list'[k]
          PROVE  j = k
      <4>1. j = 1 \/ (j - 1 \in DOMAIN list /\ list'[j] = list[j - 1])
        BY <2>4
      <4>2. k = 1 \/ (k - 1 \in DOMAIN list /\ list'[k] = list[k - 1])
        BY <2>4
      <4>3. j \in Int /\ k \in Int
        BY <2>4
      <4> QED
        BY <1>1, <2>4, <3>2, <3>3, <4>1, <4>2, <4>3 DEF ListInv
    <3>4. ListLockFree'
      BY <1>1 DEF ListLockFree
    <3> QED
      BY <3>1, <3>3, <3>4 DEF ListInv
  <2>8. CloseInv'
    <3>1. \A x \in Contexts : Ahead(x)' => mem'[x] = "live" /\ ~ctx'[x].bClosing
      BY <1>1, <2>5, <2>6 DEF CloseInv
    <3>2. \A v \in Workers \ {w} :
            /\ wk'[v] = wk[v]
            /\ wk[v].pc \in {"add", "close"} => wk[v].c # c
      BY <1>1, <2>1 DEF NewInv, Needs, ContextPcs, WorkerTo
    <3>3. wk'[w].pc = "keepalive"
      BY <2>1 DEF WorkerTo
    <3> HIDE DEF c
    <3> QED
      BY <1>1, <2>5, <3>1, <3>2, <3>3 DEF CloseInv
  <2> QED
    BY <1>1, <1>2, <1>5, <2>1, <2>2, <2>3, <2>4, <2>7, <2>8, ListStep
<1> QED
  BY <1>4, <1>5 DEF AddAConnection

\* The element at k >= j of a sequence of n elements, without its j-th one, is
\* the element at k + 1 before.
LEMMA RemovalIndex ==
  ASSUME NEW n \in Nat, NEW j \in 1..n, NEW k \in j..(n - 1)
  PROVE  /\ k \in 1..(n - 1) /\ ~(k <= j - 1)
         /\ k - (j - 1) \in 1..(n - j) /\ j + (k - (j - 1)) = k + 1
OBVIOUS

\* t is s without its j-th element.
Without(s, j, t) ==
  /\ Len(t) = Len(s) - 1
  /\ \A k \in 1..(j - 1) : t[k] = s[k]
  /\ \A k \in j..(Len(s) - 1) : t[k] = s[k + 1]

\* The elements before the j-th one followed by those after it.
LEMMA Joined ==
  ASSUME NEW S, NEW s \in Seq(S), NEW j \in 1..Len(s),
         NEW a \in Seq(S), Len(a) = j - 1, \A k \in 1..(j - 1) : a[k] = s[k],
         NEW b \in Seq(S), Len(b) = Len(s) - j,
         \A k \in 1..(Len(s) - j) : b[k] = s[j + k]
  PROVE  a \o b \in Seq(S) /\ Without(s, j, a \o b)
<1> DEFINE t == a \o b
<1>a. Len(s) \in Nat /\ j \in Nat /\ Len(a) + Len(b) = Len(s) - 1
  OBVIOUS
<1>b. /\ t \in Seq(S) /\ Len(t) = Len(a) + Len(b)
      /\ \A k \in 1..(Len(a) + Len(b)) :
           t[k] = IF k <= Len(a) THEN a[k] ELSE b[k - Len(a)]
  BY ConcatProperties
<1> HIDE DEF t
<1>6. ASSUME NEW k \in 1..(j - 1)
      PROVE  t[k] = s[k]
  <2>1. k \in 1..(Len(a) + Len(b)) /\ k <= Len(a)
    BY <1>a
  <2> QED
    BY <1>b, <2>1
<1>7. ASSUME NEW k \in j..(Len(s) - 1)
      PROVE  t[k] = s[k + 1]
  <2>1. /\ k \in 1..(Len(s) - 1) /\ ~(k <= j - 1)
        /\ k - (j - 1) \in 1..(Len(s) - j) /\ j + (k - (j - 1)) = k + 1
    BY <1>a, RemovalIndex
  <2>2. t[k] = b[k - (j - 1)]
    BY <1>a, <1>b, <2>1
  <2>3. b[k - (j - 1)] = s[j + (k - (j - 1))]
    BY <2>1
  <2> QED
    BY <2>1, <2>2, <2>3
<1> QED
  BY <1>a, <1>b, <1>6, <1>7 DEF t, Without

\* What Unlist makes of the list.
LEMMA Removal ==
  ASSUME NEW S, NEW s \in Seq(S), NEW j \in 1..Len(s)
  PROVE  LET t == SubSeq(s, 1, j - 1) \o SubSeq(s, j + 1, Len(s))
         IN  t \in Seq(S) /\ Without(s, j, t)
<1> DEFINE a == SubSeq(s, 1, j - 1)
           b == SubSeq(s, j + 1, Len(s))
<1>1. Len(s) \in Nat /\ j \in Nat /\ \A k \in 1..Len(s) : s[k] \in S
  OBVIOUS
<1>2. /\ a \in Seq(S) /\ Len(a) = j - 1 /\ \A k \in 1..(j - 1) : a[k] = s[k]
  <2>1. j - 1 \in Int /\ 1 \in Int /\ \A k \in 1..(j - 1) : s[k] \in S
    BY <1>1
  <2>2. /\ a \in Seq(S) /\ Len(a) = IF 1 <= j - 1 THEN (j - 1) - 1 + 1 ELSE 0
        /\ \A k \in 1..((j - 1) - 1 + 1) : a[k] = s[1 + k - 1]
    BY <2>1, SubSeqProperties
  <2> HIDE DEF a
  <2> QED
    BY <1>1, <2>2
<1>3. /\ b \in Seq(S) /\ Len(b) = Len(s) - j
      /\ \A k \in 1..(Len(s) - j) : b[k] = s[j + k]
  <2>1. /\ j + 1 \in Int /\ Len(s) \in Int
        /\ \A k \in (j + 1)..Len(s) : s[k] \in S
    BY <1>1
  <2>2. /\ b \in Seq(S)
        /\ Len(b) = IF j + 1 <= Len(s) THEN Len(s) - (j + 1) + 1 ELSE 0
        /\ \A k \in 1..(Len(s) - (j + 1) + 1) : b[k] = s[(j + 1) + k - 1]
    BY <2>1, SubSeqProperties
  <2>3. /\ Len(s) - (j + 1) + 1 = Len(s) - j
        /\ \A k \in 1..(Len(s) - j) : (j + 1) + k - 1 = j + k
    BY <1>1
  <2> HIDE DEF b
  <2>4. Len(b) = Len(s) - j
    BY <1>1, <2>2
  <2>5. ASSUME NEW k \in 1..(Len(s) - j)
        PROVE  b[k] = s[j + k]
    BY <2>2, <2>3
  <2> QED
    BY <2>2, <2>4, <2>5
<1>4. a \o b \in Seq(S) /\ Without(s, j, a \o b)
  <2> HIDE DEF a, b
  <2>1. /\ a \in Seq(S) /\ Len(a) = j - 1 /\ \A k \in 1..(j - 1) : a[k] = s[k]
        /\ b \in Seq(S) /\ Len(b) = Len(s) - j
        /\ \A k \in 1..(Len(s) - j) : b[k] = s[j + k]
    BY <1>2, <1>3
  <2> QED
    BY <2>1, Joined, Zenon
<1> QED
  BY <1>4

\* The connection is taken off the list, once.
LEMMA UnlistKept ==
  ASSUME IInv, ~misuse, NEW w \in Workers, Unlist(w)
  PROVE  IInv'
<1> DEFINE c == wk[w].c
<1>1. /\ StateOK /\ NewInv /\ ListInv /\ CloseInv /\ wk[w].pc = "unlist"
      /\ mem[c] = "live" /\ ListLockFree /\ Goto(w, "close")
      /\ UNCHANGED <<mem, ctx, buf, closePc, closeAt, accepted, misuse>>
  BY DEF IInv, Core, Guarded, Unlist, At
<1>2. Needs(wk[w]) /\ c \in Contexts /\ NULL \notin Buffers
      /\ "close" \in Pcs /\ wk[w].ret \in {"release", "done", "test"}
  BY <1>1, WorkerFacts DEF Needs, Pcs, ContextPcs, WorkerOK
<1>3. BufferTo(NULL, FreeBuffer)
  BY <1>1, BufferStays
<1>4. PICK r \in WorkerState :
        /\ WorkerTo(w, r) /\ r.c = wk[w].c /\ r.b = wk[w].b /\ r.pc = "close"
        /\ r.ret = wk[w].ret
  BY <1>1, <1>2, Goes
<1>5. ShapeOK(w, r, NULL, FreeBuffer)
  BY <1>2, <1>3, <1>4 DEF ShapeOK, WorkerOK, HeldOK
<1>6. /\ list \in Seq(Contexts) /\ m_nCurrentConnection \in Int
      /\ MaxConnections \in Nat /\ ListLockFree'
  BY <1>1, ConstantsAssumption, Types DEF ListLockFree
<1>7. /\ list' \in Seq(Contexts) /\ m_nCurrentConnection' \in Int /\ ListInv'
      /\ \A x : Ahead(x)' <=> x # c /\ Ahead(x)
  <2>1. \A x : Ahead(x)' <=> \E k \in DOMAIN list' : list'[k] = x
    BY <1>6 DEF Ahead
  <2>2. \A x : Ahead(x) <=> \E k \in DOMAIN list : list[k] = x
    BY <1>1, AheadIsListed
  <2>3. CASE /\ \A j \in DOMAIN list : list[j] # c
             /\ UNCHANGED <<list, m_nCurrentConnection>>
    BY <1>1, <1>6, <2>1, <2>2, <2>3 DEF ListInv
  <2>4. ASSUME NEW j \in DOMAIN list, list[j] = c,
               list' = SubSeq(list, 1, j - 1) \o SubSeq(list, j + 1, Len(list)),
               m_nCurrentConnection' = m_nCurrentConnection - 1
        PROVE  /\ list' \in Seq(Contexts) /\ m_nCurrentConnection' \in Int /\ ListInv'
               /\ \A x : Ahead(x)' <=> x # c /\ Ahead(x)
    <3> DEFINE n == Len(list)
    <3>1. /\ list' \in Seq(Contexts) /\ Len(list') = n - 1
          /\ n \in Nat /\ DOMAIN list = 1..n /\ DOMAIN list' = 1..(n - 1)
          /\ j \in 1..n
          /\ \A k \in 1..(j - 1) : list'[k] = list[k]
          /\ \A k \in j..(n - 1) : list'[k] = list[k + 1]
      <4>1. n \in Nat /\ DOMAIN list = 1..n /\ j \in 1..n
        BY <1>6, <2>4
      <4> DEFINE t == SubSeq(list, 1, j - 1) \o SubSeq(list, j + 1, Len(list))
      <4>5. t \in Seq(Contexts) /\ Without(list, j, t)
        BY <1>6, <4>1, Removal
      <4>6. list' = t
        BY <2>4
      <4> HIDE DEF t
      <4>2. list' \in Seq(Contexts) /\ Without(list, j, list')
        BY <4>5, <4>6
      <4>3. /\ Len(list') = n - 1 /\ \A k \in 1..(j - 1) : list'[k] = list[k]
            /\ \A k \in j..(n - 1) : list'[k] = list[k + 1]
        BY <4>2 DEF Without
      <4>4. DOMAIN list' = 1..Len(list')
        BY <4>2
      <4> QED
        BY <4>1, <4>2, <4>3, <4>4
    <3>2. \A i, k \in 1..n : list[i] = list[k] => i = k
      BY <1>1, <3>1 DEF ListInv
    <3>3. ASSUME NEW k \in 1..(n - 1)
          PROVE  \/ k < j /\ k \in 1..n /\ list'[k] = list[k]
                 \/ k >= j /\ k + 1 \in 1..n /\ list'[k] = list[k + 1]
      BY <3>1
    <3>4. m_nCurrentConnection' = Len(list')
          /\ m_nCurrentConnection' <= MaxConnections + 1
      BY <1>1, <1>6, <2>4, <3>1 DEF ListInv
    <3>5. ASSUME NEW i \in 1..(n - 1), NEW k \in 1..(n - 1), list'[i] = list'[k]
          PROVE  i = k
      <4>1. i \in Int /\ k \in Int /\ j \in Int
        BY <3>1
      <4> HIDE DEF n
      <4> QED
        BY <3>2, <3>3, <3>5, <4>1
    <3>6. ASSUME NEW x, NEW k \in 1..(n - 1), list'[k] = x
          PROVE  x # c /\ \E i \in 1..n : list[i] = x
      <4>1. k \in Int /\ j \in 1..n /\ j \in Int
        BY <3>1
      <4>2. CASE k < j /\ k \in 1..n /\ list'[k] = list[k]
        <5>1. list[k] # list[j]
          BY <3>2, <4>1, <4>2
        <5>2. list[j] = c
          BY <2>4
        <5> QED
          BY <3>6, <4>2, <5>1, <5>2
      <4>3. CASE k >= j /\ k + 1 \in 1..n /\ list'[k] = list[k + 1]
        <5>1. k + 1 # j
          BY <4>1, <4>3
        <5>2. list[k + 1] # list[j]
          BY <3>2, <4>1, <4>3, <5>1
        <5> QED
          BY <2>4, <3>6, <4>3, <5>2
      <4> QED
        BY <3>3, <4>2, <4>3
    <3>7. ASSUME NEW x, NEW i \in 1..n, list[i] = x, x # c
          PROVE  \E k \in 1..(n - 1) : list'[k] = x
      <4>1. CASE i < j
        BY <3>1, <3>7, <4>1
      <4>2. CASE i > j
        <5>1. i - 1 \in j..(n - 1) /\ i - 1 \in 1..(n - 1) /\ (i - 1) + 1 = i
          BY <3>1, <4>2
        <5>2. list'[i - 1] = list[i]
          BY <3>1, <5>1
        <5> QED
          BY <3>7, <5>1, <5>2
      <4>3. i # j /\ i \in Int /\ j \in Int
        BY <2>4, <3>1, <3>7
      <4> QED
        BY <4>1, <4>2, <4>3
    <3>8. \A x : Ahead(x)' <=> x # c /\ Ahead(x)
      BY <2>1, <2>2, <3>1, <3>6, <3>7
    <3>9. ListInv'
      BY <1>6, <3>1, <3>4, <3>5 DEF ListInv
    <3> QED
      BY <1>6, <2>4, <3>1, <3>8, <3>9
  <2> QED
    BY <2>3, <2>4 DEF Unlist
<1>8. CloseInv'
  <2>1. \A x \in Contexts : Ahead(x)' => mem'[x] = "live" /\ ~ctx'[x].bClosing
    BY <1>1, <1>7 DEF CloseInv
  <2>2. \A v \in Workers \ {w} : wk'[v] = wk[v]
    BY <1>4 DEF WorkerTo
  <2>3. wk'[w].pc = "close" /\ wk'[w].c = c
    BY <1>4 DEF WorkerTo
  <2> HIDE DEF c
  <2> QED
    BY <1>1, <1>7, <2>1, <2>2, <2>3 DEF CloseInv
<1> QED
  BY <1>1, <1>2, <1>4, <1>5, <1>7, <1>8, ListStep

-----------------------------------------------------------------------------
(* CloseAllConnections, the network, and a thread that misuses a context.  *)

\* The walk leaves the workers, the buffers and the counts alone.
WalkTo ==
  /\ UNCHANGED <<mem, buf, wk, accepted>>
  /\ ctx' \in [Contexts -> ContextState]
  /\ \A c \in Contexts :
       /\ mem[c] # "live" => ctx'[c] = ctx[c]
       /\ ctx'[c].nOutstandingRecv = ctx[c].nOutstandingRecv
       /\ ctx'[c].nOutstandingSend = ctx[c].nOutstandingSend
  /\ list' \in Seq(Contexts) /\ m_nCurrentConnection' \in Int
  /\ closePc' \in {"off", "lock", "next", "done"}
  /\ closeAt' \in Contexts \cup {NULL}
  /\ closePc' \in {"lock", "next"} => closeAt' \in Contexts
  /\ misuse' \in BOOLEAN

\* A step of the walk over the list.
LEMMA WalkStep ==
  ASSUME IInv, ~misuse, WalkTo, ~misuse' => ListInv' /\ CloseInv'
  PROVE  IInv'
<1>1. StateOK /\ ShapeInv /\ HeldInv /\ Guarded
  BY DEF IInv, Core
<1>2. UNCHANGED <<mem, buf, wk, accepted>>
  BY DEF WalkTo
<1>3. StateOK'
  BY <1>1 DEF StateOK, WalkTo, ContextState
<1>4. ShapeInv'
  <2>1. \A c \in Contexts : mem[c] # "live" => ctx'[c] = ZeroContext
    BY <1>1 DEF ShapeInv, WalkTo
  <2>2. closePc' \in {"lock", "next"} => closeAt' \in Contexts
    BY DEF WalkTo
  <2> QED
    BY <1>1, <1>2, <2>1, <2>2 DEF ShapeInv, WorkerOK, BufferOK, Out
<1>5. HeldInv'
  BY <1>1, <1>2 DEF HeldInv
<1>6. NewInv'
  BY <1>1, <1>2 DEF Guarded, NewInv, Needs, Out
<1>7. CountInv'
  <2>1. \A c : /\ Outstanding(c, "read")' = Outstanding(c, "read")
               /\ Outstanding(c, "write")' = Outstanding(c, "write")
               /\ Counting(c)' = Counting(c)
    BY <1>2 DEF Outstanding, Counting
  <2>2. \A c \in Contexts :
          /\ ctx'[c].nOutstandingRecv = ctx[c].nOutstandingRecv
          /\ ctx'[c].nOutstandingSend = ctx[c].nOutstandingSend
    BY DEF WalkTo
  <2> QED
    BY <1>1, <1>2, <2>1, <2>2 DEF Guarded, CountInv
<1> QED
  BY <1>3, <1>4, <1>5, <1>6, <1>7 DEF IInv, Core, Guarded

\* The facts about the list in every state.
LEMMA ListFacts ==
  ASSUME IInv, ~misuse
  PROVE  /\ list \in Seq(Contexts) /\ Len(list) \in Nat
         /\ DOMAIN list = 1..Len(list)
         /\ \A j \in DOMAIN list : list[j] \in Contexts
         /\ m_nCurrentConnection = Len(list)
         /\ m_nCurrentConnection <= MaxConnections + 1
         /\ \A j, k \in DOMAIN list : list[j] = list[k] => j = k
         /\ closePc \in {"off", "lock", "next", "done"}
         /\ closePc \in {"lock", "next"} =>
              /\ closeAt \in Contexts
              /\ \E j \in DOMAIN list : list[j] = closeAt
         /\ MaxConnections \in Nat
<1>1. StateOK /\ ListInv /\ ShapeInv
  BY DEF IInv, Core, Guarded
<1>2. list \in Seq(Contexts) /\ closePc \in {"off", "lock", "next", "done"}
  BY <1>1, Types
<1>3. Len(list) \in Nat /\ DOMAIN list = 1..Len(list)
      /\ \A j \in DOMAIN list : list[j] \in Contexts
  BY <1>2
<1>4. MaxConnections \in Nat
  BY ConstantsAssumption
<1> QED
  BY <1>1, <1>2, <1>3, <1>4 DEF ListInv, ListLockFree, ShapeInv

\* The walk starts at the head of the list.
LEMMA CloseAllBeginKept ==
  ASSUME IInv, ~misuse, CloseAllBegin
  PROVE  IInv'
<1>1. /\ StateOK /\ ListInv /\ CloseInv /\ closePc = "off"
      /\ UNCHANGED <<mem, ctx, buf, wk, list, m_nCurrentConnection, accepted, misuse>>
      /\ IF list = <<>> THEN closePc' = "done" /\ closeAt' = NULL
                        ELSE closePc' = "lock" /\ closeAt' = Head(list)
  BY DEF IInv, Core, Guarded, CloseAllBegin
<1>2. \/ closePc' = "done" /\ closeAt' = NULL
      \/ /\ closePc' = "lock" /\ closeAt' = list[1] /\ 1 \in DOMAIN list
         /\ list[1] \in Contexts
  <2>1. CASE list = <<>>
    BY <1>1, <2>1
  <2>2. CASE list # <<>>
    <3>1. 1 \in DOMAIN list /\ Head(list) = list[1]
      BY <2>2, ListFacts
    <3> QED
      BY <1>1, <2>2, <3>1, ListFacts
  <2> QED
    BY <2>1, <2>2
<1>3. WalkTo
  <2>1. /\ ctx \in [Contexts -> ContextState] /\ misuse \in BOOLEAN
        /\ m_nCurrentConnection \in Int
    BY <1>1, Types
  <2> QED
    BY <1>1, <1>2, <2>1, ListFacts DEF WalkTo
<1>4. ListInv'
  BY <1>1, <1>2 DEF ListInv, ListLockFree
<1>5. \A x : Ahead(x)' => Ahead(x)
  BY <1>1 DEF Ahead, ListLockFree
<1>6. CloseInv'
  BY <1>1, <1>5 DEF CloseInv
<1> QED
  BY <1>3, <1>4, <1>6, WalkStep

\* The walk closes the connection it is at, which is then behind it.
LEMMA CloseAllOneKept ==
  ASSUME IInv, ~misuse, CloseAllOne
  PROVE  IInv'
<1>1. /\ StateOK /\ ListInv /\ CloseInv /\ closePc = "lock" /\ closePc' = "next"
      /\ mem[closeAt] = "live" /\ CloseSocket(closeAt)
      /\ UNCHANGED <<mem, buf, wk, list, m_nCurrentConnection, closeAt, accepted,
                     misuse>>
  BY DEF IInv, Core, Guarded, CloseAllOne
<1>2. closeAt \in Contexts /\ \E j \in DOMAIN list : list[j] = closeAt
  BY <1>1, ListFacts
<1> DEFINE k == [ctx[closeAt] EXCEPT !.s = "invalid", !.bClosing = TRUE]
<1>3. ctx \in [Contexts -> ContextState] /\ ctx[closeAt] \in ContextState
      /\ m_nCurrentConnection \in Int /\ misuse \in BOOLEAN
  BY <1>1, <1>2, Types
<1>4. /\ k \in ContextState /\ k.bClosing
      /\ k.nOutstandingRecv = ctx[closeAt].nOutstandingRecv
      /\ k.nOutstandingSend = ctx[closeAt].nOutstandingSend
  BY <1>3 DEF ContextState
<1>5. ctx' = [ctx EXCEPT ![closeAt] = k]
  BY <1>1, <1>2, <1>3 DEF CloseSocket
<1> HIDE DEF k
<1>6. /\ ctx' \in [Contexts -> ContextState] /\ ctx'[closeAt] = k
      /\ \A d \in Contexts \ {closeAt} : ctx'[d] = ctx[d]
  BY <1>2, <1>3, <1>4, <1>5
<1>7. WalkTo
  BY <1>1, <1>2, <1>3, <1>4, <1>6, ListFacts DEF WalkTo
<1>8. ListInv'
  BY <1>1, <1>2 DEF ListInv, ListLockFree
<1>9. \A x : Ahead(x)' => Ahead(x) /\ x # closeAt
  <2>1. ASSUME NEW x, Ahead(x)'
        PROVE  Ahead(x) /\ x # closeAt
    <3>1. PICK i, j \in DOMAIN list : list[i] = x /\ list[j] = closeAt /\ i > j
      BY <1>1, <2>1 DEF Ahead, ListLockFree
    <3>2. i # j
      BY <3>1, ListFacts
    <3> QED
      BY <1>1, <3>1, <3>2 DEF Ahead, ListInv
  <2> QED
    BY <2>1
<1>10. Ahead(closeAt)
  BY <1>1, <1>2 DEF Ahead
<1>11. CloseInv'
  <2>1. \A x \in Contexts : Ahead(x)' => mem[x] = "live" /\ ~ctx'[x].bClosing
    BY <1>1, <1>6, <1>9 DEF CloseInv
  <2>2. ASSUME NEW w \in Workers
        PROVE  /\ wk[w].pc = "add" => ~Ahead(wk[w].c)' /\ ~ctx'[wk[w].c].bClosing
               /\ wk[w].pc = "close" => ~Ahead(wk[w].c)'
               /\ wk[w].pc \in {"test", "release"} /\ mem[wk[w].c] = "live"
                    => ctx'[wk[w].c].bClosing
    <3>1. wk[w].pc \in {"add", "test", "release"} => wk[w].c \in Contexts
      BY WorkerFacts DEF Needs, ContextPcs
    <3>2. wk' = wk
      BY <1>1
    <3>3. /\ wk[w].pc = "add" => ~Ahead(wk[w].c) /\ ~ctx[wk[w].c].bClosing
          /\ wk[w].pc = "close" => ~Ahead(wk[w].c)
          /\ wk[w].pc \in {"test", "release"} /\ mem[wk[w].c] = "live"
               => ctx[wk[w].c].bClosing
      BY <1>1 DEF CloseInv
    <3>4. wk[w].pc = "add" => wk[w].c # closeAt
      BY <1>10, <3>3
    <3> QED
      BY <1>4, <1>6, <1>9, <3>1, <3>2, <3>3, <3>4
  <2> QED
    BY <1>1, <2>1, <2>2 DEF CloseInv
<1> QED
  BY <1>7, <1>8, <1>11, WalkStep

\* The walk goes on to the next connection, or empties the list.
LEMMA CloseAllNextKept ==
  ASSUME IInv, ~misuse, CloseAllNext
  PROVE  IInv'
<1> DEFINE rest == {j \in DOMAIN list : j > 1 /\ list[j - 1] = closeAt}
<1>1. /\ StateOK /\ ListInv /\ CloseInv /\ closePc = "next"
      /\ misuse' = (mem[closeAt] # "live")
      /\ UNCHANGED <<mem, ctx, buf, wk, accepted>>
  BY DEF IInv, Core, Guarded, CloseAllNext
<1>2. /\ ctx \in [Contexts -> ContextState] /\ misuse' \in BOOLEAN
      /\ m_nCurrentConnection \in Int
  BY <1>1, Types
<1>3. CASE /\ closeAt' = NULL /\ closePc' = "done"
           /\ list' = <<>> /\ m_nCurrentConnection' = 0
  <2>1. Len(list') = 0 /\ DOMAIN list' = {} /\ list' \in Seq(Contexts)
    BY <1>3
  <2>2. WalkTo
    BY <1>1, <1>2, <1>3, <2>1 DEF WalkTo
  <2>3. ListInv'
    BY <1>3, <2>1, ListFacts DEF ListInv, ListLockFree
  <2>4. \A x : ~Ahead(x)'
    BY <2>1 DEF Ahead
  <2>5. CloseInv'
    BY <1>1, <2>4 DEF CloseInv
  <2> QED
    BY <2>2, <2>3, <2>5, WalkStep
<1>4. ASSUME NEW j \in rest, closeAt' = list[j], closePc' = "lock",
             UNCHANGED <<list, m_nCurrentConnection>>
      PROVE  IInv'
  <2>1. /\ j \in DOMAIN list /\ j > 1 /\ list[j - 1] = closeAt
        /\ j - 1 \in DOMAIN list /\ j \in Int /\ list[j] \in Contexts
    BY ListFacts
  <2>2. WalkTo
    BY <1>1, <1>2, <1>4, <2>1, ListFacts DEF WalkTo
  <2>3. ListInv'
    BY <1>1, <1>4, <2>1 DEF ListInv, ListLockFree
  <2>4. \A x : Ahead(x)' => Ahead(x)
    <3>1. ASSUME NEW x, Ahead(x)'
          PROVE  Ahead(x)
      <4>1. PICK k, i \in DOMAIN list :
              list[k] = x /\ list[i] = list[j] /\ (k > i \/ k = i)
        BY <1>4, <3>1 DEF Ahead, ListLockFree
      <4>2. i = j
        BY <1>1, <2>1, <4>1 DEF ListInv
      <4>3. k > j - 1
        BY <2>1, <4>1, <4>2, ListFacts
      <4> QED
        BY <1>1, <2>1, <4>1, <4>3 DEF Ahead, ListLockFree
    <3> QED
      BY <3>1
  <2>5. CloseInv'
    BY <1>1, <2>4 DEF CloseInv
  <2> QED
    BY <2>2, <2>3, <2>5, WalkStep
<1>5. CASE /\ rest # {} /\ closeAt' = list[CHOOSE j \in rest : TRUE]
           /\ closePc' = "lock" /\ UNCHANGED <<list, m_nCurrentConnection>>
  <2>1. (CHOOSE j \in rest : TRUE) \in rest
    BY <1>5
  <2> HIDE DEF rest
  <2> QED
    BY <1>4, <1>5, <2>1
<1> QED
  BY <1>3, <1>5 DEF CloseAllNext

\* An operation completes and stays outstanding until it is dequeued.
LEMMA CompleteKept ==
  ASSUME IInv, ~misuse, NEW b \in Buffers, Complete(b)
  PROVE  IInv'
<1>1. /\ StateOK /\ ShapeInv /\ HeldInv /\ Guarded /\ buf[b].st = "pending"
      /\ UNCHANGED <<mem, ctx, wk, conns, accepted, misuse>>
  BY DEF IInv, Core, Complete
<1>2. PICK z \in Completed : buf' = [buf EXCEPT ![b].st = z]
  BY DEF Complete, Completed
<1> DEFINE q == [buf[b] EXCEPT !.st = z]
<1>3. buf[b] \in BufferState /\ BufferOK(buf[b]) /\ Out(buf[b])
  BY <1>1, Types DEF ShapeInv, Out
<1>4. q \in BufferState /\ q.st = z /\ q.op = buf[b].op /\ q.key = buf[b].key
  BY <1>3 DEF BufferState
<1>5. buf' = [buf EXCEPT ![b] = q]
  BY <1>1, <1>2, Types
<1> HIDE DEF q
<1>6. BufferTo(b, q) /\ Out(q) /\ BufferOK(q)
  BY <1>1, <1>3, <1>4, <1>5, BufferMoves DEF Out, BufferOK
<1>7. buf'[b] = q /\ \A x \in Buffers \ {b} : buf'[x] = buf[x]
  BY <1>6 DEF BufferTo
<1>8. StateOK'
  <2>1. buf' \in [Buffers -> BufferState]
    BY <1>6 DEF BufferTo
  <2> QED
    BY <1>1, <2>1 DEF StateOK, BufferState, conns
<1>9. ShapeInv'
  <2>1. \A x \in Buffers : BufferOK(buf'[x])
    BY <1>1, <1>6, <1>7 DEF ShapeInv
  <2> QED
    BY <1>1, <2>1 DEF ShapeInv, WorkerOK, BufferOK, Out, conns
<1>10. HeldInv'
  BY <1>1, <1>7, WorkerFacts DEF HeldInv
<1>11. NewInv'
  <2>1. \A x \in Buffers : Out(buf'[x]) => Out(buf[x]) /\ buf'[x].key = buf[x].key
    BY <1>3, <1>4, <1>7
  <2> QED
    BY <1>1, <2>1 DEF Guarded, NewInv, Needs, Out
<1>12. ListInv' /\ CloseInv'
  <2>1. \A x : Ahead(x)' <=> Ahead(x)
    BY <1>1, AheadSame
  <2> QED
    BY <1>1, <2>1 DEF Guarded, ListInv, ListLockFree, CloseInv, conns
<1>13. CountInv'
  <2>1. \A c, op : IsOut(q, c, op) <=> IsOut(buf[b], c, op)
    BY <1>3, <1>4, <1>6 DEF IsOut
  <2>2. ASSUME NEW c, NEW op
        PROVE  Cardinality(Outstanding(c, op)') = Cardinality(Outstanding(c, op))
    <3>1. /\ Cardinality(Outstanding(c, op)) \in Nat
          /\ Cardinality(Outstanding(c, op)')
              = Cardinality(Outstanding(c, op))
                + One(b \in Buffers /\ IsOut(q, c, op))
                - One(b \in Buffers /\ IsOut(buf[b], c, op))
      BY <1>6, OutstandingMoves
    <3> QED
      BY <2>1, <3>1 DEF One
  <2>3. \A c : Counting(c)' = Counting(c)
    BY <1>1 DEF Counting
  <2> QED
    BY <1>1, <2>2, <2>3 DEF Guarded, CountInv
<1> QED
  BY <1>8, <1>9, <1>10, <1>11, <1>12, <1>13 DEF IInv, Core, Guarded

\* Nothing but the flag changes, in a stuttering step not even that.
LEMMA MisuseKept ==
  ASSUME IInv, misuse' \in BOOLEAN, misuse' \/ misuse' = misuse,
         UNCHANGED <<mem, ctx, buf, wk, conns, accepted>>
  PROVE  IInv'
<1>1. StateOK'
  BY DEF IInv, Core, StateOK, conns
<1>2. ShapeInv' /\ HeldInv'
  BY DEF IInv, Core, ShapeInv, HeldInv, WorkerOK, BufferOK, Out, conns
<1>3. ASSUME ~misuse'
      PROVE  Guarded'
  <2>1. Guarded
    BY <1>3 DEF IInv
  <2>2. \A x : Ahead(x)' <=> Ahead(x)
    BY AheadSame
  <2>3. \A c : /\ Outstanding(c, "read")' = Outstanding(c, "read")
               /\ Outstanding(c, "write")' = Outstanding(c, "write")
               /\ Counting(c)' = Counting(c)
    BY DEF Outstanding, Counting
  <2>4. NewInv' /\ ListInv'
    BY <2>1 DEF Guarded, NewInv, ListInv, ListLockFree, Needs, Out, conns
  <2>5. CloseInv'
    BY <2>1, <2>2 DEF Guarded, CloseInv
  <2>6. CountInv'
    BY <2>1, <2>3 DEF Guarded, CountInv
  <2> QED
    BY <2>4, <2>5, <2>6 DEF Guarded
<1> QED
  BY <1>1, <1>2, <1>3 DEF IInv, Core

-----------------------------------------------------------------------------
(* The theorems for any number of workers, with and without a shutdown.    *)

\* Every step keeps the invariant.
LEMMA NextIInv == IInv /\ [Next]_vars => IInv'
<1> SUFFICES ASSUME IInv, [Next]_vars PROVE IInv'
  OBVIOUS
<1>1. misuse \in BOOLEAN
  BY Types DEF IInv, Core
<1>2. CASE UNCHANGED vars
  BY <1>1, <1>2, MisuseKept DEF vars, conns
<1>3. CASE Next
  <2>1. ~misuse
    BY <1>3 DEF Next
  <2>2. ASSUME NEW w \in Workers, HandleAccept(w) PROVE IInv'
    BY <2>1, <2>2, AllocateContextKept, AddAConnectionKept, KeepAliveKept,
       PostReadsKept, PostReadsDoneKept DEF HandleAccept
  <2>3. ASSUME NEW w \in Workers, HandleIO(w) PROVE IInv'
    BY <2>1, <2>3, DequeueKept, CheckClosingKept, NotifyKept, SendTextKept,
       CountSendKept, SendDoneKept, UnlistKept, CloseAConnectionKept,
       TestOutstandingKept, ReleaseContextKept, FinishKept DEF HandleIO
  <2>4. ASSUME NEW w \in Workers, Misuse(w) PROVE IInv'
    BY <2>4, MisuseKept DEF Misuse
  <2>5. ASSUME CloseAll PROVE IInv'
    BY <2>1, <2>5, CloseAllBeginKept, CloseAllOneKept, CloseAllNextKept
       DEF CloseAll
  <2>6. ASSUME NEW b \in Buffers, Complete(b) PROVE IInv'
    BY <2>1, <2>6, CompleteKept
  <2> QED
    BY <1>3, <2>2, <2>3, <2>4, <2>5, <2>6 DEF Next
<1> QED
  BY <1>2, <1>3

\* The inductive invariant holds in every reachable state.
THEOREM Invariance == Spec => []IInv
BY InitIInv, NextIInv, PTL DEF Spec

\* The records of contexts, buffers and workers keep their types through every
\* interleaving of HandleIO, CloseAllConnections and the network.
THEOREM TypeCorrect == Spec => []TypeOK
<1>1. Init => raced \in BOOLEAN
  BY Zenon DEF Init
<1>2. raced \in BOOLEAN /\ [Next]_vars => (raced \in BOOLEAN)'
  <2> SUFFICES ASSUME raced \in BOOLEAN, [Next]_vars PROVE raced' \in BOOLEAN
    OBVIOUS
  <2>1. ASSUME NEW w \in Workers, TestOutstanding(w) PROVE raced' \in BOOLEAN
    BY <2>1, Zenon DEF TestOutstanding
  <2>2. CASE \A w \in Workers : ~TestOutstanding(w)
    <3>1. raced' = raced
      BY <2>2 DEF Next, vars, conns, HandleAccept, HandleIO, AllocateContext,
                  AddAConnection, KeepAlive, PostReads, PostRecv,
                  PostReadsDone, Dequeue, CheckClosing, Notify, SendText,
                  CountSend, SendDone, Unlist, CloseAConnection,
                  ReleaseContext, Finish, Misuse, Complete, CloseAll,
                  CloseAllBegin, CloseAllOne, CloseAllNext
    <3> QED
      BY <3>1
  <2> QED
    BY <2>1, <2>2
<1>3. IInv /\ raced \in BOOLEAN => TypeOK
  BY DEF IInv, Core, StateOK, TypeOK
<1> QED
  BY <1>1, <1>2, <1>3, Invariance, PTL DEF Spec

\* PostRecv and HandleIO keep nOutstandingRecv equal to the reads posted on the
\* context that no worker has dequeued.
THEOREM RecvCountsExact == Spec => []RecvCountExact
<1>1. IInv => RecvCountExact
  BY DEF IInv, Guarded, CountInv, RecvCountExact
<1> QED
  BY <1>1, Invariance, PTL

\* PostSend and HandleIO keep nOutstandingSend equal to the sends posted and not
\* dequeued, less those that are sent and not yet counted.
THEOREM SendCountsExact == Spec => []SendCountExact
<1>1. IInv => SendCountExact
  BY DEF IInv, Guarded, CountInv, SendCountExact, Counting
<1> QED
  BY <1>1, Invariance, PTL

\* AddAConnection, CloseAConnection and CloseAllConnections keep the connection
\* list free of duplicates and of released contexts, its count equal to its
\* length, and its length within one of the configured maximum.
THEOREM ConnectionListStaysExact == Spec => []ConnectionListExact
<1>1. ASSUME IInv PROVE ConnectionListExact
  <2>1. SUFFICES ASSUME ~misuse
                 PROVE /\ m_nCurrentConnection = Len(list)
                       /\ m_nCurrentConnection <= MaxConnections + 1
                       /\ \A j, k \in DOMAIN list : list[j] = list[k] => j = k
                       /\ ListLockFree => \A j \in DOMAIN list : mem[list[j]] = "live"
    BY DEF ConnectionListExact
  <2>2. ASSUME ListLockFree, NEW j \in DOMAIN list PROVE mem[list[j]] = "live"
    <3>1. Ahead(list[j]) /\ list[j] \in Contexts
      BY <1>1, <2>1, <2>2, AheadIsListed, ListFacts
    <3> QED
      BY <1>1, <2>1, <3>1 DEF IInv, Guarded, CloseInv
  <2> QED
    BY <1>1, <2>1, <2>2, ListFacts
<1> QED
  BY <1>1, Invariance, PTL

-----------------------------------------------------------------------------
(* Who may use a context after its release.                                *)

\* The server starts without a context in use.
LEMMA InitSole == Init => SoleInv
<1> SUFFICES ASSUME Init PROVE SoleInv
  OBVIOUS
<1>1. /\ \A w \in Workers : wk[w] = IdleWorker
      /\ \A b \in Buffers : buf[b] = FreeBuffer
  BY DEF Init
<1>2. ~Leaving(IdleWorker)
  BY RecordFields DEF Leaving
<1> QED
  BY <1>1, <1>2, RecordFields DEF SoleInv

\* A worker on its way to ReleaseContext still needs the context.
LEMMA LeavingNeeds ==
  ASSUME NEW r, Leaving(r)
  PROVE  Needs(r)
BY DEF Leaving, Needs, ContextPcs

\* What is to be shown of a step of worker w, which goes on as r: what it needs
\* and what is posted is in use, nobody else is leaving the context it goes on
\* with, and nothing is posted where it, or another worker, is leaving.
LEMMA SoleStep ==
  ASSUME SoleInv, NEW w \in Workers, NEW r, wk'[w] = r,
         \A v \in Workers \ {w} : wk'[v] = wk[v],
         Needs(r) => mem'[r.c] = "live",
         \A v \in Workers \ {w} : Needs(wk[v]) => mem'[wk[v].c] = "live",
         Leaving(r) =>
           /\ \A x \in Buffers : Out(buf'[x]) => buf'[x].key # r.c
           /\ \A v \in Workers \ {w} : Needs(wk[v]) => wk[v].c # r.c,
         Needs(r) => \A v \in Workers \ {w} : Leaving(wk[v]) => wk[v].c # r.c,
         \A x \in Buffers : Out(buf'[x]) =>
           /\ mem'[buf'[x].key] = "live"
           /\ \A v \in Workers \ {w} : Leaving(wk[v]) => buf'[x].key # wk[v].c
  PROVE  SoleInv'
<1>1. ASSUME NEW u \in Workers, Needs(wk'[u]) PROVE mem'[wk'[u].c] = "live"
  BY <1>1
<1>2. ASSUME NEW u \in Workers, Leaving(wk'[u]), NEW x \in Buffers, Out(buf'[x])
      PROVE  buf'[x].key # wk'[u].c
  BY <1>2
<1>3. ASSUME NEW u \in Workers, Leaving(wk'[u]), NEW v \in Workers \ {u},
             Needs(wk'[v])
      PROVE  wk'[v].c # wk'[u].c
  <2>1. CASE u = w
    BY <1>3, <2>1
  <2>2. CASE u # w /\ v = w
    BY <1>3, <2>2
  <2>3. CASE u # w /\ v # w
    BY <1>3, <2>3 DEF SoleInv
  <2> QED
    BY <2>1, <2>2, <2>3
<1> QED
  BY <1>1, <1>2, <1>3 DEF SoleInv, Needs, Leaving, Out

\* The worker keeps its context and takes no new way to ReleaseContext, and
\* nothing is posted.
Settles(w, r) ==
  /\ mem' = mem
  /\ wk'[w] = r /\ \A v \in Workers \ {w} : wk'[v] = wk[v]
  /\ Needs(r) => Needs(wk[w]) /\ r.c = wk[w].c
  /\ Leaving(r) => Leaving(wk[w]) /\ r.c = wk[w].c
  /\ \A x \in Buffers : Out(buf'[x]) => Out(buf[x]) /\ buf'[x].key = buf[x].key

\* Such a step keeps what the workers rely on.
LEMMA SettlesKept ==
  ASSUME SoleInv, NEW w \in Workers, NEW r, Settles(w, r)
  PROVE  SoleInv'
<1>1. Needs(r) => mem'[r.c] = "live"
  BY DEF Settles, SoleInv
<1>2. \A v \in Workers \ {w} : Needs(wk[v]) => mem'[wk[v].c] = "live"
  BY DEF Settles, SoleInv
<1>3. Leaving(r) =>
        /\ \A x \in Buffers : Out(buf'[x]) => buf'[x].key # r.c
        /\ \A v \in Workers \ {w} : Needs(wk[v]) => wk[v].c # r.c
  BY DEF Settles, SoleInv
<1>4. Needs(r) => \A v \in Workers \ {w} : Leaving(wk[v]) => wk[v].c # r.c
  BY DEF Settles, SoleInv
<1>5. \A x \in Buffers : Out(buf'[x]) =>
        /\ mem'[buf'[x].key] = "live"
        /\ \A v \in Workers \ {w} : Leaving(wk[v]) => buf'[x].key # wk[v].c
  BY DEF Settles, SoleInv
<1> QED
  BY <1>1, <1>2, <1>3, <1>4, <1>5, SoleStep DEF Settles

\* What holds of the buffers when they stay as they are, or when the worker
\* releases its own.
LEMMA NothingPosted ==
  ASSUME IInv, NEW w \in Workers, buf' = buf \/ ReleaseBuffer(w)
  PROVE  \A x \in Buffers : Out(buf'[x]) => Out(buf[x]) /\ buf'[x].key = buf[x].key
<1>1. CASE ReleaseBuffer(w)
  <2>1. BufferTo(wk[w].b, FreeBuffer)
    BY <1>1, Releases DEF IInv, Core
  <2> QED
    BY <2>1, RecordFields DEF BufferTo
<1> QED
  BY <1>1

\* The steps that neither post nor release.
LEMMA SoleSettled ==
  ASSUME IInv, SoleInv, NEW w \in Workers,
         \/ KeepAlive(w) \/ CheckClosing(w) \/ Notify(w) \/ CountSend(w)
         \/ SendDone(w) \/ PostReadsDone(w) \/ Unlist(w) \/ CloseAConnection(w)
         \/ Finish(w)
  PROVE  SoleInv'
<1>0. w \in Workers /\ StateOK /\ WorkerOK(wk[w]) /\ wk[w] \in WorkerState
      /\ wk \in [Workers -> WorkerState]
  BY WorkerFacts, Types DEF IInv, Core
<1> DEFINE Kept(r) == /\ wk'[w] = r
                      /\ \A v \in Workers \ {w} : wk'[v] = wk[v]
                      /\ Needs(r) => Needs(wk[w]) /\ r.c = wk[w].c
                      /\ Leaving(r) => Leaving(wk[w]) /\ r.c = wk[w].c
<1>1. ASSUME NEW pc \in Pcs, Goto(w, pc), wk[w].pc \in ContextPcs,
             pc = "release" => Leaving(wk[w]),
             pc \in {"unlist", "close"} => wk[w].pc = "unlist"
      PROVE  \E r : Kept(r)
  <2>1. PICK r \in WorkerState :
          /\ WorkerTo(w, r) /\ r.pc = pc /\ r.c = wk[w].c /\ r.b = wk[w].b
          /\ r.ret = wk[w].ret /\ r.n = wk[w].n
    BY <1>0, <1>1, Goes
  <2>2. Needs(wk[w]) /\ (Leaving(r) => Leaving(wk[w]))
    BY <1>1, <2>1 DEF Needs, Leaving
  <2> QED
    BY <2>1, <2>2 DEF WorkerTo
<1>2. ASSUME NEW ret \in Rets \ {"release"}, GotoClose(w, ret), wk[w].pc \in ContextPcs
      PROVE  \E r : Kept(r)
  <2>1. PICK r \in WorkerState :
          /\ WorkerTo(w, r) /\ r.pc = "unlist" /\ r.c = wk[w].c /\ r.ret = ret
    BY <1>0, <1>2, GoesToClose
  <2>2. Needs(wk[w]) /\ ~Leaving(r)
    BY <1>2, <2>1 DEF Needs, Leaving
  <2> QED
    BY <2>1, <2>2 DEF WorkerTo
<1>3. ASSUME Return(w)
      PROVE  \E r : Kept(r)
  <2>1. wk'[w] = IdleWorker /\ \A v \in Workers \ {w} : wk'[v] = wk[v]
    BY <1>0, <1>3, Returns DEF WorkerTo
  <2>2. ~Needs(IdleWorker) /\ ~Leaving(IdleWorker)
    BY RecordFields DEF Leaving
  <2> QED
    BY <2>1, <2>2
<1>4. /\ {"send", "test", "notify", "finish", "sendDone", "close", "release"} \subseteq Pcs
      /\ {"done", "test"} \subseteq Rets \ {"release"}
      /\ {"keepalive", "closing", "notify", "count", "sendDone", "unlist", "close"}
           \subseteq ContextPcs
  BY DEF Pcs, Rets, ContextPcs
<1> HIDE DEF Kept
<1>5. \E r : Kept(r)
  <2>1. CASE KeepAlive(w)
    BY <1>1, <1>2, <1>4, <2>1 DEF KeepAlive, At
  <2>2. CASE CheckClosing(w)
    <3>1. wk[w].pc = "closing"
      BY <2>2 DEF CheckClosing, At
    <3>2. Goto(w, "test") \/ Goto(w, "notify") \/ Goto(w, "send") \/ Goto(w, "finish")
      BY <2>2 DEF CheckClosing
    <3> QED
      BY <1>1, <1>4, <3>1, <3>2
  <2>3. CASE Notify(w)
    BY <1>2, <1>4, <2>3 DEF Notify, At
  <2>4. CASE CountSend(w)
    BY <1>1, <1>4, <2>4 DEF CountSend, At
  <2>5. CASE SendDone(w)
    <3>1. /\ wk[w].pc = "sendDone" /\ wk'[w].pc = "reads" /\ wk'[w].c = wk[w].c
          /\ \A v \in Workers \ {w} : wk'[v] = wk[v]
      BY <1>0, <2>5 DEF SendDone, At, WorkerState
    <3>2. Needs(wk[w]) /\ ~Leaving(wk'[w])
      BY <1>4, <3>1 DEF Needs, Leaving
    <3> QED
      BY <3>1, <3>2 DEF Kept
  <2>6. CASE PostReadsDone(w)
    BY <1>3, <2>6 DEF PostReadsDone
  <2>7. CASE Unlist(w)
    BY <1>1, <1>4, <2>7 DEF Unlist, At
  <2>8. CASE CloseAConnection(w)
    <3>1. wk[w].pc = "close" /\ wk[w].ret \in {"release", "done", "test"}
      BY <1>0, <2>8 DEF CloseAConnection, At, WorkerOK
    <3>2. Return(w) \/ (Goto(w, wk[w].ret) /\ wk[w].ret \in {"release", "test"})
      BY <2>8, <3>1 DEF CloseAConnection
    <3>3. wk[w].ret = "release" => Leaving(wk[w])
      BY <3>1 DEF Leaving
    <3> QED
      BY <1>1, <1>3, <1>4, <3>1, <3>2, <3>3
  <2>9. CASE Finish(w)
    BY <1>3, <2>9 DEF Finish
  <2> QED
    BY <2>1, <2>2, <2>3, <2>4, <2>5, <2>6, <2>7, <2>8, <2>9
<1>6. mem' = mem
  BY DEF KeepAlive, CheckClosing, Notify, CountSend, SendDone, PostReadsDone,
         Unlist, CloseAConnection, Finish, conns
<1>7. buf' = buf \/ ReleaseBuffer(w)
  BY DEF KeepAlive, CheckClosing, Notify, CountSend, SendDone, PostReadsDone,
         Unlist, CloseAConnection, Finish
<1>8. PICK r : Kept(r)
  BY <1>5
<1>9. Settles(w, r)
  BY <1>0, <1>6, <1>7, <1>8, NothingPosted DEF Kept, Settles
<1> QED
  BY <1>9, SettlesKept

\* Completions post nothing.
LEMMA SoleComplete ==
  ASSUME IInv, SoleInv, NEW b \in Buffers, Complete(b)
  PROVE  SoleInv'
<1>1. PICK z : buf' = [buf EXCEPT ![b].st = z]
  BY DEF Complete
<1>2. buf \in [Buffers -> BufferState] /\ buf[b] \in BufferState
  BY Types DEF IInv, Core
<1>3. \A x \in Buffers : buf'[x].key = buf[x].key /\ (x # b => buf'[x] = buf[x])
  BY <1>1, <1>2 DEF BufferState
<1>4. Out(buf[b])
  BY DEF Complete, Out
<1>5. \A x \in Buffers : Out(buf'[x]) => Out(buf[x]) /\ buf'[x].key = buf[x].key
  BY <1>3, <1>4
<1>6. UNCHANGED <<mem, wk>>
  BY DEF Complete
<1> QED
  BY <1>5, <1>6 DEF SoleInv, Needs, Leaving, Out

\* A context out of use is referred to by nobody, but by a walk that was
\* overtaken.
LEMMA SoleAllocate ==
  ASSUME IInv, SoleInv, NEW w \in Workers, AllocateContext(w)
  PROVE  SoleInv' /\ (misuse' => WalkOvertaken)
<1>0. w \in Workers /\ StateOK /\ wk[w] \in WorkerState
      /\ wk \in [Workers -> WorkerState] /\ wk[w].pc = "get" /\ buf' = buf
      /\ wk[w] = IdleWorker
  BY WorkerFacts, Types DEF IInv, Core, AllocateContext, WorkerOK
<1>1. PICK c \in Contexts :
        /\ mem[c] # "live" /\ misuse' = Referenced(c)
        /\ mem' = [mem EXCEPT ![c] = "live"]
        /\ wk' = [wk EXCEPT ![w].pc = "add", ![w].c = c, ![w].ret = "reads"]
  <2>1. \A c \in IF Pooled # {} THEN Pooled ELSE {x \in Contexts : mem[x] = "heap"} :
          c \in Contexts /\ mem[c] # "live"
    BY DEF Pooled
  <2> QED
    BY <2>1 DEF AllocateContext
<1>2. wk'[w].pc = "add" /\ wk'[w].c = c /\ \A v \in Workers \ {w} : wk'[v] = wk[v]
  BY <1>0, <1>1 DEF WorkerState
<1>3. Referenced(c) => WalkOvertaken
  <2>1. \A v \in Workers : NeedsContext(v) => wk[v].c # c
    BY <1>1 DEF SoleInv, NeedsContext, Needs
  <2>2. \A x \in Buffers : Out(buf[x]) => buf[x].key # c
    BY <1>1 DEF SoleInv
  <2> QED
    BY <1>1, <2>1, <2>2 DEF Referenced, Out, WalkOvertaken
<1>4. mem \in [Contexts -> {"heap", "pooled", "live"}]
  BY <1>0, Types
<1>5. mem'[c] = "live" /\ \A d : d # c /\ mem[d] = "live" => mem'[d] = "live"
  BY <1>1, <1>4
<1>6. \A x \in Buffers : Out(buf'[x]) =>
        /\ mem'[buf'[x].key] = "live"
        /\ \A v \in Workers \ {w} : Leaving(wk[v]) => buf'[x].key # wk[v].c
  BY <1>0, <1>5 DEF SoleInv
<1>7. ~Leaving(wk'[w])
  BY <1>2 DEF Leaving
<1>8. \A v \in Workers \ {w} : Needs(wk[v]) => mem'[wk[v].c] = "live"
  BY <1>5 DEF SoleInv
<1>9. \A v \in Workers \ {w} : Leaving(wk[v]) => wk[v].c # c
  BY <1>1, LeavingNeeds DEF SoleInv
<1>10. SoleInv'
  BY <1>2, <1>5, <1>6, <1>7, <1>8, <1>9, SoleStep
<1> QED
  BY <1>1, <1>3, <1>10

\* A full server releases a context on which nothing was posted.
LEMMA SoleAdd ==
  ASSUME IInv, ~misuse, SoleInv, NEW w \in Workers, AddAConnection(w)
  PROVE  SoleInv'
<1>0. w \in Workers /\ StateOK /\ wk[w].pc = "add"
      /\ UNCHANGED <<mem, buf>> /\ mem[wk[w].c] = "live"
  BY DEF IInv, Core, AddAConnection, At
<1>1. PICK r : wk'[w] = r /\ r.c = wk[w].c /\ \A v \in Workers \ {w} : wk'[v] = wk[v]
  <2>1. "keepalive" \in Pcs /\ "release" \in Rets
    BY DEF Pcs, Rets, ContextPcs
  <2>2. Goto(w, "keepalive") \/ GotoClose(w, "release")
    BY DEF AddAConnection
  <2> QED
    BY <1>0, <2>1, <2>2, Goes, GoesToClose DEF WorkerTo
<1>2. /\ \A x \in Buffers : Out(buf[x]) => buf[x].key # wk[w].c
      /\ \A v \in Workers \ {w} : Needs(wk[v]) => wk[v].c # wk[w].c
  BY <1>0 DEF IInv, Guarded, NewInv
<1>3. \A v \in Workers \ {w} : Leaving(wk[v]) => wk[v].c # wk[w].c
  BY <1>2, LeavingNeeds
<1> QED
  BY <1>0, <1>1, <1>2, <1>3, SoleStep DEF SoleInv

\* A post on the worker's own context, or none.
LEMMA SolePost ==
  ASSUME IInv, SoleInv, NEW w \in Workers, SendText(w) \/ PostReads(w)
  PROVE  SoleInv'
<1>0. /\ w \in Workers /\ StateOK /\ mem' = mem /\ Needs(wk[w])
      /\ mem[wk[w].c] = "live" /\ wk[w].c \in Contexts
  <2>1. w \in Workers /\ StateOK
    BY DEF IInv, Core
  <2>2. /\ mem[wk[w].c] = "live" /\ wk[w].pc \in {"send", "reads"}
        /\ wk[w].pc = "reads" => wk[w].n > 0
        /\ mem' = mem
    BY DEF SendText, PostReads, At
  <2>3. Needs(wk[w])
    BY <2>2 DEF Needs, ContextPcs
  <2> QED
    BY <2>1, <2>2, <2>3, WorkerFacts DEF WorkerOK, ContextPcs
<1>1. PICK r : wk'[w] = r /\ r.c = wk[w].c /\ ~Leaving(r)
               /\ \A v \in Workers \ {w} : wk'[v] = wk[v]
  <2>1. {"sendDone", "count"} \subseteq Pcs /\ "done" \in Rets
    BY DEF Pcs, Rets, ContextPcs
  <2>2. CASE Goto(w, "sendDone") \/ Goto(w, "count")
    BY <1>0, <2>1, <2>2, Goes DEF WorkerTo, Leaving
  <2>3. CASE GotoClose(w, "done")
    BY <1>0, <2>1, <2>3, GoesToClose DEF WorkerTo, Leaving
  <2>4. CASE wk[w].pc = "reads" /\ wk[w].n > 0 /\ wk' = [wk EXCEPT ![w].n = @ - 1]
    BY <1>0, <2>4, CountsDown DEF WorkerTo, Leaving
  <2> QED
    BY <2>2, <2>3, <2>4 DEF SendText, PostReads, PostRecv, At
<1>2. \A x \in Buffers : Out(buf'[x]) =>
        \/ Out(buf[x]) /\ buf'[x].key = buf[x].key
        \/ buf'[x].key = wk[w].c
  <2>1. CASE buf' = buf
    BY <2>1
  <2>2. ASSUME NEW b \in Free,
               buf' = [buf EXCEPT ![b] = [FreeBuffer EXCEPT !.st = "leaked"]]
        PROVE  \A x \in Buffers : Out(buf'[x]) => Out(buf[x]) /\ buf'[x].key = buf[x].key
    BY <2>2, Leaks DEF BufferTo
  <2>3. ASSUME NEW b \in Free, NEW op,
               buf' = [buf EXCEPT ![b] = [st |-> "pending", op |-> op, key |-> wk[w].c]]
        PROVE  \A x \in Buffers \ {b} : buf'[x] = buf[x] /\ buf'[b].key = wk[w].c
    <3>1. buf \in [Buffers -> BufferState] /\ b \in Buffers
      BY <1>0, Types DEF Free
    <3> QED
      BY <2>3, <3>1
  <2>4. CASE SendText(w)
    BY <2>1, <2>2, <2>3, <2>4 DEF SendText
  <2>5. CASE PostReads(w)
    BY <2>1, <2>2, <2>3, <2>5 DEF PostReads, PostRecv
  <2> QED
    BY <2>4, <2>5
<1>3. \A v \in Workers \ {w} : Leaving(wk[v]) => wk[v].c # wk[w].c
  BY <1>0 DEF SoleInv
<1>4. \A x \in Buffers : Out(buf'[x]) =>
        /\ mem'[buf'[x].key] = "live"
        /\ \A v \in Workers \ {w} : Leaving(wk[v]) => buf'[x].key # wk[v].c
  BY <1>0, <1>2, <1>3 DEF SoleInv
<1>5. \A v \in Workers \ {w} : Needs(wk[v]) => mem'[wk[v].c] = "live"
  BY <1>0 DEF SoleInv
<1> QED
  BY <1>0, <1>1, <1>3, <1>4, <1>5, SoleStep

\* The worker takes on a context that is in use.
LEMMA SoleDequeue ==
  ASSUME IInv, SoleInv, NEW w \in Workers, NEW b \in Buffers, Dequeue(w, b)
  PROVE  SoleInv'
<1>0. /\ w \in Workers /\ wk \in [Workers -> WorkerState]
      /\ buf \in [Buffers -> BufferState] /\ buf[b] \in BufferState
      /\ mem' = mem /\ mem[buf[b].key] = "live"
  BY Types DEF IInv, Core, Dequeue
<1>1. /\ wk'[w].pc = "closing" /\ wk'[w].c = buf[b].key
      /\ \A v \in Workers \ {w} : wk'[v] = wk[v]
  BY <1>0 DEF Dequeue, IdleWorker
<1>2. buf'[b].st = "held" /\ \A x \in Buffers \ {b} : buf'[x] = buf[x]
  BY <1>0 DEF Dequeue, BufferState
<1>3. ~Out(buf'[b]) /\ ~Leaving(wk'[w])
  BY <1>1, <1>2 DEF Out, Completed, Leaving
<1>4. \A x \in Buffers : Out(buf'[x]) =>
        /\ mem'[buf'[x].key] = "live"
        /\ \A v \in Workers \ {w} : Leaving(wk[v]) => buf'[x].key # wk[v].c
  BY <1>0, <1>2, <1>3 DEF SoleInv
<1>5. \A v \in Workers \ {w} : Leaving(wk[v]) => wk[v].c # buf[b].key
  <2>1. Out(buf[b])
    BY DEF Dequeue, Out
  <2> QED
    BY <2>1 DEF SoleInv
<1>6. \A v \in Workers \ {w} : Needs(wk[v]) => mem'[wk[v].c] = "live"
  BY <1>0 DEF SoleInv
<1> QED
  BY <1>0, <1>1, <1>3, <1>4, <1>5, <1>6, SoleStep

\* When both counts are zero and no other worker uses the context, nothing is
\* posted on it: this is where the counts must be exact.
LEMMA SoleTest ==
  ASSUME IInv, ~misuse, SoleInv, NEW w \in Workers, TestOutstanding(w),
         ~raced'
  PROVE  SoleInv'
<1> DEFINE c == wk[w].c
<1>0. /\ w \in Workers /\ StateOK /\ UNCHANGED <<mem, buf>>
      /\ mem[c] = "live" /\ wk[w].pc = "test" /\ c \in Contexts
  <2>1. w \in Workers /\ StateOK
    BY DEF IInv, Core
  <2>2. /\ UNCHANGED <<mem, buf>>
        /\ mem[c] = "live" /\ wk[w].pc = "test"
    BY DEF TestOutstanding, At
  <2> QED
    BY <2>1, <2>2, WorkerFacts DEF WorkerOK, ContextPcs
<1>1. PICK r : /\ wk'[w] = r /\ \A v \in Workers \ {w} : wk'[v] = wk[v]
               /\ r.c = c /\ r.pc \in {"release", "finish"}
               /\ r.pc = "release" => /\ ctx[c].nOutstandingRecv = 0
                                      /\ ctx[c].nOutstandingSend = 0
  <2>1. "release" \in Pcs /\ "finish" \in Pcs
    BY DEF Pcs, ContextPcs
  <2>2. \/ /\ Goto(w, "release") /\ ctx[c].nOutstandingRecv = 0
           /\ ctx[c].nOutstandingSend = 0
        \/ Goto(w, "finish")
    BY DEF TestOutstanding
  <2> QED
    BY <1>0, <2>1, <2>2, Goes DEF WorkerTo
<1>5. ASSUME r.pc = "release", NEW v \in Workers \ {w}, Needs(wk[v])
      PROVE  wk[v].c # c
  <2>1. ~UsedByOthers(w)
    BY <1>1, <1>5 DEF TestOutstanding
  <2> QED
    BY <1>5, <2>1 DEF UsedByOthers, NeedsContext, Needs
<1>2. ASSUME r.pc = "release", NEW x \in Buffers, Out(buf[x])
      PROVE  buf[x].key # c
  <2>1. Counting(c) = {}
    <3>1. \A v \in Workers \ {w} : wk[v].pc = "count" => Needs(wk[v])
      BY DEF Needs, ContextPcs
    <3> QED
      BY <1>0, <1>2, <1>5, <3>1 DEF Counting
  <2>2. Cardinality(Counting(c)) = 0
    BY <2>1, FS_EmptySet
  <2>3. /\ ctx[c].nOutstandingRecv = Cardinality(Outstanding(c, "read"))
        /\ ctx[c].nOutstandingSend + Cardinality(Counting(c))
             = Cardinality(Outstanding(c, "write"))
    BY <1>0 DEF IInv, Guarded, CountInv
  <2>4. Cardinality(Outstanding(c, "read")) = 0 /\ Cardinality(Outstanding(c, "write")) = 0
    BY <1>1, <1>2, <2>2, <2>3
  <2>5. IsFiniteSet(Outstanding(c, "read")) /\ IsFiniteSet(Outstanding(c, "write"))
    <3>1. IsFiniteSet(Buffers)
      BY ConstantsAssumption
    <3> QED
      BY <3>1, FS_Subset DEF Outstanding
  <2>6. Outstanding(c, "read") = {} /\ Outstanding(c, "write") = {}
    BY <2>4, <2>5, FS_EmptySet
  <2>7. buf[x].op \in {"read", "write"}
    BY <1>2 DEF IInv, Core, ShapeInv, BufferOK
  <2> QED
    BY <1>2, <2>6, <2>7 DEF Outstanding, Out
<1>3. Leaving(r) => r.pc = "release"
  BY <1>1 DEF Leaving
<1>4. Needs(wk[w]) /\ (Needs(r) => r.pc = "release")
  BY <1>0, <1>1 DEF Needs, ContextPcs
<1> HIDE DEF c
<1>6. \A v \in Workers \ {w} : Leaving(wk[v]) => wk[v].c # c
  BY <1>4 DEF SoleInv, c
<1>7. \A x \in Buffers : Out(buf'[x]) =>
        /\ mem'[buf'[x].key] = "live"
        /\ \A v \in Workers \ {w} : Leaving(wk[v]) => buf'[x].key # wk[v].c
  BY <1>0 DEF SoleInv
<1>8. \A v \in Workers \ {w} : Needs(wk[v]) => mem'[wk[v].c] = "live"
  BY <1>0 DEF SoleInv
<1> QED
  BY <1>0, <1>1, <1>2, <1>3, <1>5, <1>6, <1>7, <1>8, SoleStep

\* The context released has nothing posted on it.
LEMMA SoleRelease ==
  ASSUME IInv, SoleInv, NEW w \in Workers, ReleaseContext(w)
  PROVE  SoleInv'
<1>0. /\ w \in Workers /\ StateOK /\ buf' = buf
      /\ wk[w].pc = "release" /\ mem \in [Contexts -> {"heap", "pooled", "live"}]
  BY Types DEF IInv, Core, ReleaseContext, At
<1>1. PICK r : wk'[w] = r /\ r.pc = "finish" /\ \A v \in Workers \ {w} : wk'[v] = wk[v]
  <2>1. "finish" \in Pcs
    BY DEF Pcs
  <2> QED
    BY <1>0, <2>1, Goes DEF ReleaseContext, WorkerTo
<1>2. \A d \in Contexts : d # wk[w].c => mem'[d] = mem[d]
  BY <1>0 DEF ReleaseContext
<1>3. \A x \in Buffers : Out(buf[x]) => buf[x].key # wk[w].c /\ buf[x].key \in Contexts
  BY <1>0 DEF IInv, Core, ShapeInv, BufferOK, SoleInv, Leaving
<1>4. \A x \in Buffers : Out(buf'[x]) =>
        /\ mem'[buf'[x].key] = "live"
        /\ \A v \in Workers \ {w} : Leaving(wk[v]) => buf'[x].key # wk[v].c
  BY <1>0, <1>2, <1>3 DEF SoleInv
<1>5. ~Needs(r) /\ ~Leaving(r)
  BY <1>1 DEF Needs, Leaving, ContextPcs
<1>6. ASSUME NEW v \in Workers \ {w}, Needs(wk[v]) PROVE mem'[wk[v].c] = "live"
  <2>1. Leaving(wk[w]) /\ wk[v].c # wk[w].c
    BY <1>0, <1>6 DEF SoleInv, Leaving
  <2>2. wk[v].c \in Contexts /\ mem[wk[v].c] = "live"
    BY <1>6 DEF SoleInv, IInv, Core, ShapeInv, WorkerOK, Needs
  <2> QED
    BY <1>2, <2>1, <2>2
<1> QED
  BY <1>0, <1>1, <1>4, <1>5, <1>6, SoleStep

\* Every step of a worker, of the walk and of the network, as long as no worker
\* takes the counts for zero while another uses the context.
LEMMA NextSole ==
  ASSUME IInv, SoleInv, ~misuse, Next, ~raced'
  PROVE  SoleInv' /\ (misuse' => WalkOvertaken)
<1>1. ASSUME NEW w \in Workers, HandleAccept(w)
      PROVE  SoleInv' /\ (misuse' => WalkOvertaken)
  <2>1. CASE AllocateContext(w)
    BY <2>1, SoleAllocate
  <2>2. CASE HandleAccept(w) /\ ~AllocateContext(w)
    <3>1. SoleInv'
      BY <2>2, SoleAdd, SoleSettled, SolePost DEF HandleAccept
    <3>2. misuse' = misuse
      BY <2>2 DEF HandleAccept, AddAConnection, KeepAlive, PostReads,
                  PostRecv, PostReadsDone
    <3> QED
      BY <3>1, <3>2
  <2> QED
    BY <1>1, <2>1, <2>2
<1>2. ASSUME NEW w \in Workers, HandleIO(w)
      PROVE  SoleInv' /\ (misuse' => WalkOvertaken)
  <2>1. SoleInv'
    BY <1>2, SoleDequeue, SoleSettled, SolePost, SoleTest, SoleRelease
       DEF HandleIO
  <2>2. misuse' = misuse
    BY <1>2 DEF HandleIO, Dequeue, CheckClosing, Notify, SendText, CountSend,
                SendDone, PostReads, PostRecv, PostReadsDone, Unlist,
                CloseAConnection, TestOutstanding, ReleaseContext, Finish
  <2> QED
    BY <2>1, <2>2
<1>3. ASSUME NEW w \in Workers PROVE ~Misuse(w)
  <2>1. NeedsContext(w) => Needs(wk[w])
    BY DEF NeedsContext, Needs
  <2> QED
    BY <2>1 DEF Misuse, SoleInv, Out
<1>4. CASE CloseAll
  <2>1. UNCHANGED <<mem, buf, wk>>
    BY <1>4 DEF CloseAll, CloseAllBegin, CloseAllOne, CloseAllNext
  <2>2. SoleInv'
    BY <2>1 DEF SoleInv, Needs, Leaving, Out
  <2>3. misuse' = misuse \/ (misuse' => WalkOvertaken)
    BY <1>4 DEF CloseAll, CloseAllBegin, CloseAllOne, CloseAllNext, WalkOvertaken
  <2> QED
    BY <2>2, <2>3
<1>5. ASSUME NEW b \in Buffers, Complete(b)
      PROVE  SoleInv' /\ (misuse' => WalkOvertaken)
  BY <1>5, SoleComplete DEF Complete
<1> QED
  BY <1>1, <1>2, <1>3, <1>4, <1>5 DEF Next

\* A test of the counts that was taken too early stays on record.
LEMMA RacedStays ==
  ASSUME [Next]_vars, ~raced'
  PROVE  ~raced
BY DEF Next, vars, conns, HandleAccept, HandleIO, AllocateContext,
       AddAConnection, KeepAlive, PostReads, PostRecv, PostReadsDone, Dequeue,
       CheckClosing, Notify, SendText, CountSend, SendDone, Unlist,
       CloseAConnection, TestOutstanding, ReleaseContext, Finish, Misuse,
       Complete, CloseAll, CloseAllBegin, CloseAllOne, CloseAllNext

\* What the workers rely on holds until a test of the counts was taken too
\* early, or a released context was used.
SoleUntilRaced == ~misuse /\ ~raced => SoleInv

LEMMA NextSoleUntilRaced ==
  IInv /\ SoleUntilRaced /\ [Next]_vars =>
    /\ SoleUntilRaced'
    /\ ~misuse /\ misuse' => WalkOvertaken \/ raced
<1> SUFFICES ASSUME IInv, SoleUntilRaced, [Next]_vars
             PROVE  /\ SoleUntilRaced'
                    /\ ~misuse /\ misuse' => WalkOvertaken \/ raced
  OBVIOUS
<1>1. CASE UNCHANGED vars
  BY <1>1 DEF vars, SoleUntilRaced, SoleInv, Needs, Leaving, Out
<1>2. CASE Next
  <2>0. ~misuse
    BY <1>2 DEF Next
  <2>1. CASE ~raced'
    BY <1>2, <2>0, <2>1, NextSole, RacedStays DEF SoleUntilRaced
  <2>2. CASE raced'
    <3>1. SoleUntilRaced'
      BY <2>2 DEF SoleUntilRaced
    <3>2. CASE \E w \in Workers : TestOutstanding(w)
      BY <2>0, <3>1, <3>2 DEF TestOutstanding
    <3>3. CASE ~ \E w \in Workers : TestOutstanding(w)
      <4>1. raced' = raced
        BY <1>2, <3>3
           DEF Next, conns, HandleAccept, HandleIO, AllocateContext,
               AddAConnection, KeepAlive, PostReads, PostRecv, PostReadsDone,
               Dequeue, CheckClosing, Notify, SendText, CountSend, SendDone,
               Unlist, CloseAConnection, ReleaseContext, Finish, Misuse,
               Complete, CloseAll, CloseAllBegin, CloseAllOne, CloseAllNext
      <4> QED
        BY <2>2, <3>1, <4>1
    <3> QED
      BY <3>2, <3>3
  <2> QED
    BY <2>1, <2>2
<1> QED
  BY <1>1, <1>2

\* Whatever the clients do, whichever calls fail and however many workers serve
\* the port, a context is used after ReleaseContext for two reasons only:
\* CloseAllConnections reads pNext of one that was released since it left its
\* lock, or HandleIO, which tests the counts after it has left the lock, found
\* them zero while another worker had an operation of the connection in hand.
THEOREM OnlyTwoRacesMisuse == Spec => OnlyRacesMisuse
<1>1. Init => SoleUntilRaced
  BY InitSole DEF SoleUntilRaced
<1>2. IInv /\ SoleUntilRaced /\ [Next]_vars => SoleUntilRaced'
  BY NextSoleUntilRaced
<1>3. IInv /\ SoleUntilRaced /\ [Next]_vars
        => [~misuse /\ misuse' => WalkOvertaken \/ raced]_vars
  BY NextSoleUntilRaced
<1> QED
  BY <1>1, <1>2, <1>3, Invariance, PTL DEF Spec, OnlyRacesMisuse

\* Until such a test, ReleaseContext takes a context away from nobody: what a
\* worker in HandleIO goes on to use, and what an operation on its way names,
\* is in use.
THEOREM NamedContextsAreLive == Spec => []NamedIsLive
<1>1. Init => SoleUntilRaced
  BY InitSole DEF SoleUntilRaced
<1>2. IInv /\ SoleUntilRaced /\ [Next]_vars => SoleUntilRaced'
  BY NextSoleUntilRaced
<1>3. SoleUntilRaced => NamedIsLive
  BY DEF SoleUntilRaced, SoleInv, NamedIsLive, NeedsContext, Needs, Out
<1> QED
  BY <1>1, <1>2, <1>3, Invariance, PTL DEF Spec
=============================================================================
