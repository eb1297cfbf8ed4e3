-------------------------- MODULE UdpServer_proofs ---------------------------
(***************************************************************************)
(* CUdpServer, for any number of workers, posted receives and contexts:    *)
(* the pool of contexts stays exact and the server keeps its receives      *)
(* posted.                                                                 *)
(*                                                                         *)
(* The argument is about who has a context.  A thread owns the context of  *)
(* its packet (c) and the one it is posting (d): both are "mine", no other *)
(* thread has them (OwnInv), so a release puts on the stack what nobody    *)
(* else will release (PoolInv).  The receives are counted with those that  *)
(* the workers and InitServer still owe (CountInv): a worker that takes a  *)
(* completed receive owes one until its WSARecvFrom.                       *)
(***************************************************************************)
EXTENDS UdpServer, FiniteSetTheorems, SequenceTheorems, TLAPS

\* The places of the application's thread and of a worker, and their state.
AppPcs == {"init", "issue", "recvFrom", "ready", "up", "stop", "setEvents",
           "joinListener", "joinWorkers", "done"}
WorkPcs == Packets \cup {"get", "issue", "recvFrom", "echo", "sendTo",
                         "release", "end"}

Pcs == Packets \cup {"init", "ready", "up", "stop", "setEvents",
                     "joinListener", "joinWorkers", "done", "get", "issue",
                     "recvFrom", "echo", "sendTo", "release", "end"}

ThreadState ==
  [pc : Pcs, c : 0..MaxContexts, n : 0..MaxLen, d : 0..MaxContexts,
   left : 0..MaxLen, i : 0..MaxPost, ret : {"none", "init", "get", "echo"}]

\* What the place of a thread says of its local variables.
PlaceOK(t, r) ==
  /\ t = "app" =>
       /\ r.pc \in AppPcs
       /\ r.pc \in {"issue", "recvFrom"} => r.ret = "init"
  /\ t \in Workers =>
       /\ r.pc \in WorkPcs
       /\ r.pc \in {"issue", "recvFrom"} => r.ret \in {"get", "echo"}
       /\ r.pc \in Packets \cup {"echo", "sendTo", "release"} => r.c # 0
       /\ r.pc \in {"issue", "recvFrom"} /\ r.ret = "echo" =>
            r.c # 0 /\ r.left > 0
       /\ r.pc = "data" => r.n > 0
       /\ r.pc = "echo" => r.left > 0
  /\ r.pc \in {"recvFrom", "sendTo"} => r.d # 0

PlaceInv == \A t \in Threads : PlaceOK(t, th[t])

\* The contexts in the hands of threads: each has one owner.
OwnInv ==
  /\ \A t \in Threads :
       /\ th[t].c # 0 => ctx[th[t].c] = "mine" /\ th[t].c # th[t].d
       /\ th[t].d # 0 => ctx[th[t].d] = "mine"
  /\ \A t, u \in Threads : t # u =>
       /\ th[t].c # 0 => th[t].c # th[u].c /\ th[t].c # th[u].d
       /\ th[t].d # 0 => th[t].d # th[u].d

\* The posted receives have contexts of their own.
ReceivesInv ==
  /\ \A j, k \in DOMAIN receives : receives[j] = receives[k] => j = k
  /\ \A j \in DOMAIN receives : ctx[receives[j]] = "recv"

\* The kernel: a packet of data is not empty, and only the contexts up to
\* created exist.
KernelInv ==
  /\ ReceivesInv
  /\ \A c \in Contexts : ctx[c] = "data" => bytes[c] > 0
  /\ \A c \in Contexts : ctx[c] = "none" <=> c > created

\* The server runs while the application's thread is up or about to stop it, and
\* the event is set only after it stopped running.
ControlInv ==
  /\ m_bServerRunning => th["app"].pc \in {"up", "stop"}
  /\ events => th["app"].pc \in {"joinListener", "joinWorkers", "done"}

\* What InitServer owes, and the receives it has undertaken to post.
AppOwes == IF th["app"].pc \in {"issue", "recvFrom"} THEN 1 ELSE 0
Due == IF th["app"].pc \in {"init", "issue", "recvFrom"} THEN th["app"].i
       ELSE MaxPost

\* Receives posted, completed or owed.
CountInv ==
  Cardinality(Receiving) + Cardinality(Owing) + AppOwes = Due + extra - missed

\* The stack holds the contexts in the pool, each once.
PoolInv ==
  /\ \A j, k \in DOMAIN stack : stack[j] = stack[k] => j = k
  /\ \A j \in DOMAIN stack : ctx[stack[j]] = "pool"
  /\ \A c \in Contexts : ctx[c] = "pool" => \E j \in DOMAIN stack : stack[j] = c

\* The inductive invariant, with CountInv.
IInv == TypeOK /\ PlaceInv /\ OwnInv /\ KernelInv /\ ControlInv /\ PoolInv

-----------------------------------------------------------------------------
\* The state of a thread is a record, and the edits of the actions keep it one.
LEMMA ThreadTypes ==
  /\ \A l \in Pcs : Thread(l) \in ThreadState
  /\ TypeOK => th \in [Threads -> ThreadState]
<1>1. \A l \in Pcs : Thread(l) \in ThreadState
  BY ConstantsAssumption DEF Thread, ThreadState
<1>2. TypeOK => th \in [Threads -> ThreadState]
  BY DEF TypeOK, ThreadState, Pcs
<1> QED
  BY <1>1, <1>2

\* TypeOK with the abbreviation for the state of a thread.
LEMMA TypeOKPrime ==
  ASSUME th' \in [Threads -> ThreadState],
         m_bServerRunning' \in BOOLEAN, events' \in BOOLEAN, nulls' \in Nat,
         ctx' \in [Contexts -> Packets \cup {"none", "pool", "recv", "send",
                                              "mine", "lost"}],
         len' \in [Contexts -> 1..MaxLen], bytes' \in [Contexts -> 0..MaxLen],
         stack' \in Seq(Contexts), created' \in Contexts,
         receives' \in Seq(Contexts),
         suspended' \in Nat, resumed' \in BOOLEAN,
         listener' \in {"start", "wait", "end"},
         datagrams' \in 0..MaxDatagrams, pauses' \in 0..MaxPauses,
         extra' \in Nat, missed' \in Nat, failed' \in BOOLEAN
  PROVE  TypeOK'
BY DEF TypeOK, ThreadState, Pcs

\* The initial state satisfies the invariant: every created context is pooled.
LEMMA InitIInv == Init => IInv
<1> SUFFICES ASSUME Init PROVE IInv
  OBVIOUS
<1>0. "app" \notin Workers /\ MaxPost \in Nat /\ MaxContexts \in Nat /\ PoolSize \in Nat
      /\ MaxLen \in Nat /\ PoolSize \in 1..MaxContexts /\ MaxLen \in 1..MaxLen
      /\ MaxDatagrams \in Nat /\ MaxPauses \in Nat
  BY ConstantsAssumption
<1>1. TypeOK
  <2>1. th \in [Threads -> ThreadState]
    <3>1. "init" \in Pcs /\ "get" \in Pcs
      BY DEF Pcs
    <3>2. Thread("init") \in ThreadState /\ Thread("get") \in ThreadState
      BY <3>1, ThreadTypes
    <3>3. ASSUME NEW t \in Threads
          PROVE  Thread(IF t = "app" THEN "init" ELSE "get") \in ThreadState
      BY <3>2, Zenon
    <3> QED
      BY <3>3 DEF Init
  <2>2. stack \in Seq(Contexts) /\ receives \in Seq(Contexts)
    BY <1>0, IsASeq DEF Init, Contexts
  <2>3. /\ m_bServerRunning = FALSE /\ events = FALSE /\ nulls = 0
        /\ suspended = 1 /\ resumed = FALSE /\ listener = "start"
        /\ datagrams = 0 /\ pauses = 0 /\ extra = 0 /\ missed = 0
        /\ failed = FALSE
    BY DEF Init
  <2>4. /\ ctx \in [Contexts -> {"pool", "none"}] /\ created \in Contexts
        /\ len \in [Contexts -> 1..MaxLen] /\ bytes \in [Contexts -> 0..MaxLen]
    BY <1>0 DEF Init, Contexts
  <2>5. ctx \in [Contexts -> Packets \cup {"none", "pool", "recv", "send",
                                          "mine", "lost"}]
    BY <2>4
  <2>6. /\ datagrams \in 0..MaxDatagrams /\ pauses \in 0..MaxPauses
        /\ suspended \in Nat /\ nulls \in Nat /\ extra \in Nat /\ missed \in Nat
    BY <1>0, <2>3
  <2>7. th \in [Threads ->
       [pc : Packets \cup {"init", "ready", "up", "stop", "setEvents",
                           "joinListener", "joinWorkers", "done", "get",
                           "issue", "recvFrom", "echo", "sendTo", "release",
                           "end"},
        c : 0..MaxContexts, n : 0..MaxLen, d : 0..MaxContexts,
        left : 0..MaxLen, i : 0..MaxPost,
        ret : {"none", "init", "get", "echo"}]]
    BY <2>1 DEF ThreadState, Pcs
  <2> HIDE DEF Init
  <2> QED
    BY <2>2, <2>3, <2>4, <2>5, <2>6, <2>7 DEF TypeOK
<1>2. PlaceInv /\ OwnInv /\ ControlInv
  BY <1>0 DEF PlaceInv, PlaceOK, OwnInv, ControlInv, Init, Threads, Thread, AppPcs, WorkPcs, Packets
<1>3. KernelInv
  BY <1>0 DEF KernelInv, ReceivesInv, Init, Contexts
<1>4. PoolInv
  BY <1>0 DEF PoolInv, Init, Contexts
<1> QED
  BY <1>1, <1>2, <1>3, <1>4 DEF IInv

-----------------------------------------------------------------------------
\* The pool: what GetContext takes and ReleaseContext gives back.
LEMMA GetContextFacts ==
  ASSUME IInv, NEW c \in Contexts, GetContext(c), ctx' = [ctx EXCEPT ![c] = "mine"]
  PROVE  /\ ctx[c] \in {"pool", "none"}
         /\ stack' \in Seq(Contexts) /\ created' \in Contexts
         /\ PoolInv'
         /\ \A x \in Contexts : ctx'[x] = "none" <=> x > created'
<1>0. /\ stack \in Seq(Contexts) /\ created \in Contexts /\ MaxContexts \in Nat
      /\ DOMAIN ctx = Contexts
  BY ConstantsAssumption DEF IInv, TypeOK
<1>1. CASE stack # <<>>
  <2>1. /\ c = stack[Len(stack)] /\ created' = created
        /\ stack' = SubSeq(stack, 1, Len(stack) - 1) /\ Len(stack) \in Nat \ {0}
    BY <1>0, <1>1 DEF GetContext
  <2>2. /\ DOMAIN stack = 1..Len(stack) /\ DOMAIN stack' = 1..(Len(stack) - 1)
        /\ \A j \in DOMAIN stack' : stack'[j] = stack[j]
        /\ stack' \in Seq(Contexts)
    BY <1>0, <2>1
  <2>3. ctx[c] = "pool"
    BY <1>0, <2>1, <2>2 DEF IInv, PoolInv
  <2>4. PoolInv'
    <3>1. \A j \in DOMAIN stack' : j \in DOMAIN stack /\ j # Len(stack)
      BY <2>1, <2>2
    <3>2. \A j \in DOMAIN stack' : stack'[j] # c
      BY <2>1, <2>2, <3>1 DEF IInv, PoolInv
    <3>3. \A j, k \in DOMAIN stack' : stack'[j] = stack'[k] => j = k
      BY <2>2, <3>1 DEF IInv, PoolInv
    <3>4. \A j \in DOMAIN stack' : ctx'[stack'[j]] = "pool"
      BY <1>0, <2>2, <3>1, <3>2 DEF IInv, PoolInv
    <3>5. ASSUME NEW x \in Contexts, ctx'[x] = "pool"
          PROVE  \E j \in DOMAIN stack' : stack'[j] = x
      <4>1. x # c /\ ctx[x] = "pool"
        BY <1>0, <3>5
      <4>2. PICK j \in DOMAIN stack : stack[j] = x
        BY <4>1 DEF IInv, PoolInv
      <4>3. j \in DOMAIN stack'
        BY <2>1, <2>2, <4>1, <4>2
      <4> QED
        BY <2>2, <4>2, <4>3
    <3> QED
      BY <3>3, <3>4, <3>5 DEF PoolInv
  <2>5. \A x \in Contexts : ctx'[x] = "none" <=> x > created'
    BY <1>0, <2>1, <2>3 DEF IInv, KernelInv
  <2> QED
    BY <1>0, <2>1, <2>2, <2>3, <2>4, <2>5
<1>2. CASE stack = <<>>
  <2>1. /\ c = created + 1 /\ created' = c /\ stack' = stack /\ created < MaxContexts
    BY <1>2 DEF GetContext
  <2>2. \A x \in Contexts : ctx[x] # "pool"
    BY <1>2 DEF IInv, PoolInv
  <2>3. ctx[c] = "none"
    BY <1>0, <2>1 DEF IInv, KernelInv, Contexts
  <2>4. PoolInv'
    BY <1>0, <1>2, <2>1, <2>2 DEF PoolInv
  <2>5. \A x \in Contexts : ctx'[x] = "none" <=> x > created'
    BY <1>0, <2>1, <2>3 DEF IInv, KernelInv, Contexts
  <2> QED
    BY <1>0, <2>1, <2>3, <2>4, <2>5
<1> QED
  BY <1>1, <1>2

\* A thread's own context goes back on the stack.
LEMMA ReleaseContextFacts ==
  ASSUME IInv, NEW c \in Contexts, ctx[c] = "mine", ReleaseContext(c)
  PROVE  stack' \in Seq(Contexts) /\ PoolInv'
<1>0. stack \in Seq(Contexts) /\ DOMAIN ctx = Contexts
  BY DEF IInv, TypeOK
<1>1. /\ stack' = Append(stack, c) /\ ctx' = [ctx EXCEPT ![c] = "pool"]
  BY DEF ReleaseContext
<1>2. /\ stack' \in Seq(Contexts) /\ Len(stack) \in Nat
      /\ DOMAIN stack = 1..Len(stack) /\ DOMAIN stack' = 1..(Len(stack) + 1)
      /\ \A j \in DOMAIN stack : stack'[j] = stack[j]
      /\ stack'[Len(stack) + 1] = c
  BY <1>0, <1>1
<1>3. \A j \in DOMAIN stack : stack[j] # c
  BY DEF IInv, PoolInv
<1>4. \A j \in DOMAIN stack' : ctx'[stack'[j]] = "pool"
  BY <1>0, <1>1, <1>2 DEF IInv, PoolInv
<1>5. \A j, k \in DOMAIN stack' : stack'[j] = stack'[k] => j = k
  BY <1>2, <1>3 DEF IInv, PoolInv
<1>6. ASSUME NEW x \in Contexts, ctx'[x] = "pool"
      PROVE  \E j \in DOMAIN stack' : stack'[j] = x
  BY <1>0, <1>1, <1>2, <1>6 DEF IInv, PoolInv
<1> QED
  BY <1>2, <1>4, <1>5, <1>6 DEF PoolInv

-----------------------------------------------------------------------------
(* A step of one thread that changes the state of one context.             *)

\* The states of a context, the ones that are receives, and the places at which
\* a worker owes a receive.
CtxStates == Packets \cup {"none", "pool", "recv", "send", "mine", "lost"}
RecvStates == {"recv", "data", "zero", "recvErr"}
OwePcs == {"data", "zero", "recvErr", "issue", "recvFrom"}
\* 1 if b holds.
One(b) == IF b THEN 1 ELSE 0

\* Thread t takes the state r and puts context x into state v.  A context that
\* t gives away was its own, and one that it gets was nobody's.
Takes(t, r, x, v) ==
  /\ Become(t, r) /\ PlaceOK(t, r) /\ ctx' = [ctx EXCEPT ![x] = v]
  /\ ctx[x] = "mine" /\ v # "mine" => x \in {th[t].c, th[t].d}
  /\ r.c # 0 => /\ r.c # r.d
                /\ \/ r.c = th[t].c /\ (r.c # x \/ v = "mine")
                   \/ r.c = x /\ v = "mine" /\ ctx[x] # "mine"
  /\ r.d # 0 => \/ r.d = th[t].d /\ (r.d # x \/ v = "mine")
                \/ r.d = x /\ v = "mine" /\ ctx[x] # "mine"

\* Such a step keeps the places and the ownership.
LEMMA ThreadKept ==
  ASSUME IInv, NEW t \in Threads, NEW r \in ThreadState,
         NEW x \in Contexts, NEW v \in CtxStates, Takes(t, r, x, v)
  PROVE  /\ th' \in [Threads -> ThreadState] /\ th'[t] = r
         /\ \A u \in Threads \ {t} : th'[u] = th[u]
         /\ ctx' \in [Contexts -> CtxStates] /\ ctx'[x] = v
         /\ \A y \in Contexts \ {x} : ctx'[y] = ctx[y]
         /\ PlaceInv' /\ OwnInv'
<1> USE DEF Takes
<1>1. th \in [Threads -> ThreadState] /\ ctx \in [Contexts -> CtxStates]
  BY ThreadTypes DEF IInv, TypeOK, CtxStates
<1>2. /\ th' \in [Threads -> ThreadState] /\ th'[t] = r
      /\ \A u \in Threads \ {t} : th'[u] = th[u]
  BY <1>1 DEF Become
<1>3. /\ ctx' \in [Contexts -> CtxStates] /\ ctx'[x] = v
      /\ \A y \in Contexts \ {x} : ctx'[y] = ctx[y]
  BY <1>1
<1>4. PlaceInv'
  BY <1>2 DEF IInv, PlaceInv, PlaceOK
<1>5. \A u \in Threads : /\ th[u].c \in Nat /\ th[u].d \in Nat
                         /\ th[u].c # 0 => th[u].c \in Contexts
                         /\ th[u].d # 0 => th[u].d \in Contexts
  <2>1. \A q \in ThreadState : /\ q.c \in Nat /\ q.d \in Nat
                               /\ q.c # 0 => q.c \in Contexts
                               /\ q.d # 0 => q.d \in Contexts
    BY ConstantsAssumption DEF ThreadState, Contexts
  <2> QED
    BY <1>1, <2>1
<1>6. (r.c # 0 => r.c \in Contexts) /\ (r.d # 0 => r.d \in Contexts)
  BY ConstantsAssumption DEF ThreadState, Contexts
<1>7. /\ r.c # 0 => ctx'[r.c] = "mine" /\ r.c # r.d
      /\ r.d # 0 => ctx'[r.d] = "mine"
  BY <1>3, <1>6 DEF IInv, OwnInv
<1>8. ASSUME NEW u \in Threads \ {t}
      PROVE  /\ th[u].c # 0 => /\ ctx'[th[u].c] = "mine" /\ th[u].c # th[u].d
                               /\ th[u].c # r.c /\ th[u].c # r.d
             /\ th[u].d # 0 => /\ ctx'[th[u].d] = "mine"
                               /\ th[u].d # r.d
             /\ r.c # 0 => r.c # th[u].c /\ r.c # th[u].d
             /\ r.d # 0 => r.d # th[u].d
  <2>0. u \in Threads /\ u # t
    OBVIOUS
  <2>1. /\ th[u].c # 0 => /\ ctx[th[u].c] = "mine" /\ th[u].c # th[u].d
                          /\ th[u].c # th[t].c /\ th[u].c # th[t].d
        /\ th[u].d # 0 => ctx[th[u].d] = "mine" /\ th[u].d # th[t].d
        /\ th[t].c # 0 => th[t].c # th[u].c /\ th[t].c # th[u].d
    BY <2>0 DEF IInv, OwnInv
  <2>2. /\ th[u].c # 0 => th[u].c # x \/ v = "mine"
        /\ th[u].d # 0 => th[u].d # x \/ v = "mine"
    BY <1>5, <2>0, <2>1
  <2>3. /\ th[u].c # 0 => ctx'[th[u].c] = "mine"
        /\ th[u].d # 0 => ctx'[th[u].d] = "mine"
    BY <1>3, <1>5, <2>0, <2>1, <2>2
  <2>4. /\ r.c # 0 => r.c # th[u].c /\ r.c # th[u].d
        /\ r.d # 0 => r.d # th[u].d
        /\ th[u].c # 0 => th[u].c # r.c /\ th[u].c # r.d
        /\ th[u].d # 0 => th[u].d # r.d
    BY <1>6, <2>0, <2>1
  <2> QED
    BY <2>1, <2>3, <2>4
<1>9. OwnInv'
  <2>1. \A u \in Threads :
          /\ th'[u].c # 0 => ctx'[th'[u].c] = "mine" /\ th'[u].c # th'[u].d
          /\ th'[u].d # 0 => ctx'[th'[u].d] = "mine"
    BY <1>2, <1>7, <1>8
  <2>2. ASSUME NEW u \in Threads, NEW y \in Threads, u # y
        PROVE  /\ th'[u].c # 0 => th'[u].c # th'[y].c /\ th'[u].c # th'[y].d
               /\ th'[u].d # 0 => th'[u].d # th'[y].d
    <3>1. CASE u = t
      BY <1>2, <1>8, <2>2, <3>1
    <3>2. CASE y = t
      BY <1>2, <1>8, <2>2, <3>2
    <3>3. CASE u # t /\ y # t
      BY <1>2, <2>2, <3>3 DEF IInv, OwnInv
    <3> QED
      BY <3>1, <3>2, <3>3
  <2> QED
    BY <2>1, <2>2 DEF OwnInv
<1> QED
  BY <1>2, <1>3, <1>4, <1>9

\* The contexts of posted or completed receives, when context x changes.
LEMMA ReceivingMoves ==
  ASSUME NEW x \in Contexts, \A y \in Contexts \ {x} : ctx'[y] = ctx[y]
  PROVE  /\ Cardinality(Receiving) \in Nat
         /\ Cardinality(Receiving') = Cardinality(Receiving)
              + One(ctx'[x] \in RecvStates) - One(ctx[x] \in RecvStates)
<1>1. Receiving = {c \in Contexts : ctx[c] \in RecvStates}
  BY DEF Receiving, RecvStates
<1>2. Receiving' = {c \in Contexts : ctx'[c] \in RecvStates}
  BY DEF Receiving, RecvStates
<1>3. IsFiniteSet(Contexts)
  BY ConstantsAssumption, FS_Interval DEF Contexts
<1>4. Receiving \in SUBSET Contexts
  BY <1>1
<1>5. IsFiniteSet(Receiving) /\ Cardinality(Receiving) \in Nat
  BY <1>3, <1>4, FS_Subset, FS_CardinalityType
<1>6. CASE (ctx'[x] \in RecvStates) <=> (ctx[x] \in RecvStates)
  <2>1. Receiving' = Receiving
    BY <1>1, <1>2, <1>6
  <2> QED
    BY <1>5, <1>6, <2>1 DEF One
<1>7. CASE ctx'[x] \in RecvStates /\ ctx[x] \notin RecvStates
  <2>1. Receiving' = Receiving \cup {x} /\ x \notin Receiving
    BY <1>1, <1>2, <1>7
  <2>2. Cardinality(Receiving \cup {x}) = Cardinality(Receiving) + 1
    BY <1>5, <2>1, FS_AddElement
  <2> QED
    BY <1>5, <1>7, <2>1, <2>2 DEF One
<1>8. CASE ctx'[x] \notin RecvStates /\ ctx[x] \in RecvStates
  <2>1. Receiving' = Receiving \ {x} /\ x \in Receiving
    BY <1>1, <1>2, <1>8
  <2>2. Cardinality(Receiving \ {x}) = Cardinality(Receiving) - 1
    BY <1>5, <2>1, FS_RemoveElement
  <2> QED
    BY <1>5, <1>8, <2>1, <2>2 DEF One
<1> QED
  BY <1>6, <1>7, <1>8

\* The workers that owe a receive, when worker w moves.
LEMMA OwingMoves ==
  ASSUME NEW w \in Workers, \A u \in Workers \ {w} : th'[u] = th[u]
  PROVE  /\ Cardinality(Owing) \in Nat
         /\ Cardinality(Owing') = Cardinality(Owing)
              + One(th'[w].pc \in OwePcs) - One(th[w].pc \in OwePcs)
<1>1. Owing = {u \in Workers : th[u].pc \in OwePcs}
  BY DEF Owing, OwePcs
<1>2. Owing' = {u \in Workers : th'[u].pc \in OwePcs}
  BY DEF Owing, OwePcs
<1>3. IsFiniteSet(Workers)
  BY ConstantsAssumption
<1>4. Owing \in SUBSET Workers
  BY <1>1
<1>5. IsFiniteSet(Owing) /\ Cardinality(Owing) \in Nat
  BY <1>3, <1>4, FS_Subset, FS_CardinalityType
<1>6. CASE (th'[w].pc \in OwePcs) <=> (th[w].pc \in OwePcs)
  <2>1. Owing' = Owing
    BY <1>1, <1>2, <1>6
  <2> QED
    BY <1>5, <1>6, <2>1 DEF One
<1>7. CASE th'[w].pc \in OwePcs /\ th[w].pc \notin OwePcs
  <2>1. Owing' = Owing \cup {w} /\ w \notin Owing
    BY <1>1, <1>2, <1>7
  <2>2. Cardinality(Owing \cup {w}) = Cardinality(Owing) + 1
    BY <1>5, <2>1, FS_AddElement
  <2> QED
    BY <1>5, <1>7, <2>1, <2>2 DEF One
<1>8. CASE th'[w].pc \notin OwePcs /\ th[w].pc \in OwePcs
  <2>1. Owing' = Owing \ {w} /\ w \in Owing
    BY <1>1, <1>2, <1>8
  <2>2. Cardinality(Owing \ {w}) = Cardinality(Owing) - 1
    BY <1>5, <2>1, FS_RemoveElement
  <2> QED
    BY <1>5, <1>8, <2>1, <2>2 DEF One
<1> QED
  BY <1>6, <1>7, <1>8

\* The rest of the state keeps its types, and the control of the server is
\* left alone.
RestOK ==
  /\ stack' \in Seq(Contexts) /\ created' \in Contexts
  /\ len' \in [Contexts -> 1..MaxLen] /\ bytes' \in [Contexts -> 0..MaxLen]
  /\ receives' \in Seq(Contexts) /\ nulls' \in Nat
  /\ extra' \in Nat /\ missed' \in Nat /\ failed' \in BOOLEAN
  /\ UNCHANGED <<m_bServerRunning, events, suspended, resumed, listener, pauses,
                 datagrams>>

\* A step of a worker: what it has to show for each invariant.
LEMMA WorkerKept ==
  ASSUME IInv, CountInv, NEW w \in Workers, NEW r \in ThreadState,
         NEW x \in Contexts, NEW v \in CtxStates, Takes(w, r, x, v),
         RestOK, PoolInv', KernelInv',
         One(v \in RecvStates) - One(ctx[x] \in RecvStates)
           + One(r.pc \in OwePcs) - One(th[w].pc \in OwePcs)
           = (extra' - extra) - (missed' - missed)
  PROVE  IInv' /\ CountInv'
<1>0. w \in Threads /\ "app" \in Threads /\ w # "app"
  BY ConstantsAssumption DEF Threads
<1>1. /\ th' \in [Threads -> ThreadState] /\ th'[w] = r
      /\ \A u \in Threads \ {w} : th'[u] = th[u]
      /\ ctx' \in [Contexts -> CtxStates] /\ ctx'[x] = v
      /\ \A y \in Contexts \ {x} : ctx'[y] = ctx[y]
      /\ PlaceInv' /\ OwnInv'
  BY <1>0, ThreadKept
<1>2. TypeOK'
  BY <1>1, TypeOKPrime DEF RestOK, IInv, TypeOK, CtxStates
<1>3. th'["app"] = th["app"]
  BY <1>0, <1>1
<1>4. ControlInv'
  BY <1>3 DEF RestOK, IInv, ControlInv
<1>5. CountInv'
  <2>1. AppOwes' = AppOwes /\ Due' = Due
    BY <1>3 DEF AppOwes, Due
  <2>2. \A u \in Workers \ {w} : th'[u] = th[u]
    BY <1>1 DEF Threads
  <2>3. /\ Cardinality(Receiving) \in Nat /\ Cardinality(Owing) \in Nat
        /\ Cardinality(Receiving') = Cardinality(Receiving)
             + One(v \in RecvStates) - One(ctx[x] \in RecvStates)
        /\ Cardinality(Owing') = Cardinality(Owing)
             + One(r.pc \in OwePcs) - One(th[w].pc \in OwePcs)
    BY <1>1, <2>2, ReceivingMoves, OwingMoves
  <2>4. /\ extra \in Nat /\ missed \in Nat /\ extra' \in Nat /\ missed' \in Nat
        /\ AppOwes \in Nat /\ Due \in Nat
    <3>1. th["app"].i \in Nat
      BY <1>0, ThreadTypes, ConstantsAssumption DEF IInv, ThreadState
    <3> QED
      BY <3>1, ConstantsAssumption DEF IInv, TypeOK, RestOK, AppOwes, Due
  <2>5. /\ One(v \in RecvStates) \in Int /\ One(ctx[x] \in RecvStates) \in Int
        /\ One(r.pc \in OwePcs) \in Int /\ One(th[w].pc \in OwePcs) \in Int
    BY DEF One
  <2>6. Cardinality(Receiving') + Cardinality(Owing') + AppOwes
          = Cardinality(Receiving) + Cardinality(Owing) + AppOwes
            + ((extra' - extra) - (missed' - missed))
    BY <2>3, <2>4, <2>5
  <2> QED
    BY <2>1, <2>3, <2>4, <2>6 DEF CountInv
<1> QED
  BY <1>1, <1>2, <1>4, <1>5 DEF IInv

\* The posted receives, when a context that is not one of them changes.
LEMMA ReceivesKept1 ==
  ASSUME IInv, NEW x \in Contexts, NEW v \in CtxStates,
         ctx' = [ctx EXCEPT ![x] = v], ctx[x] # "recv", UNCHANGED receives
  PROVE  ReceivesInv'
<1>1. ctx \in [Contexts -> CtxStates] /\ receives \in Seq(Contexts)
  BY DEF IInv, TypeOK, CtxStates
<1>2. \A j \in DOMAIN receives : receives[j] \in Contexts /\ receives[j] # x
  BY <1>1 DEF IInv, KernelInv, ReceivesInv
<1> QED
  BY <1>1, <1>2 DEF IInv, KernelInv, ReceivesInv

\* What is known of a worker and of a context.
LEMMA WorkerFacts ==
  ASSUME IInv, NEW w \in Workers
  PROVE  /\ w \in Threads /\ w # "app" /\ th[w] \in ThreadState
         /\ PlaceOK(w, th[w])
         /\ th[w].c # 0 => /\ th[w].c \in Contexts /\ ctx[th[w].c] = "mine"
                           /\ th[w].c # th[w].d
         /\ th[w].d # 0 => th[w].d \in Contexts /\ ctx[th[w].d] = "mine"
         /\ 1 \in Contexts /\ MaxContexts \in Nat /\ MaxLen \in Nat
         /\ MaxPost \in Nat
<1>1. /\ MaxContexts \in Nat \ {0} /\ MaxLen \in Nat /\ MaxPost \in Nat
      /\ "app" \notin Workers
  BY ConstantsAssumption
<1>2. w \in Threads /\ w # "app" /\ th[w] \in ThreadState /\ PlaceOK(w, th[w])
  BY <1>1, ThreadTypes DEF Threads, IInv, PlaceInv
<1>3. (th[w].c # 0 => th[w].c \in Contexts) /\ (th[w].d # 0 => th[w].d \in Contexts)
  BY <1>1, <1>2 DEF ThreadState, Contexts
<1> QED
  BY <1>1, <1>2, <1>3 DEF IInv, OwnInv, Contexts

\* Steps of a worker that leave the contexts alone.
LEMMA QuietStep ==
  ASSUME IInv, CountInv, NEW w \in Workers, NEW r \in ThreadState,
         Become(w, r), PlaceOK(w, r), r.c \in {0, th[w].c}, r.d \in {0, th[w].d},
         (r.pc \in OwePcs) <=> (th[w].pc \in OwePcs),
         UNCHANGED <<pool, receives, m_bServerRunning, events, suspended, resumed,
                     listener, pauses, datagrams, history>>, nulls' \in Nat
  PROVE  IInv' /\ CountInv'
<1>0. /\ ctx \in [Contexts -> CtxStates] /\ 1 \in Contexts
      /\ extra \in Nat /\ missed \in Nat
  BY WorkerFacts DEF IInv, TypeOK, CtxStates
<1>1. /\ UNCHANGED <<ctx, len, bytes, stack, created, receives, extra, missed, failed>>
      /\ UNCHANGED <<m_bServerRunning, events, suspended, resumed, listener,
                     pauses, datagrams>>
  BY DEF pool, history
<1>2. ctx' = [ctx EXCEPT ![1] = ctx[1]] /\ ctx[1] \in CtxStates
  BY <1>0, <1>1
<1>3. Takes(w, r, 1, ctx[1])
  BY <1>2, WorkerFacts DEF Takes
<1>4. RestOK
  BY <1>1 DEF RestOK, IInv, TypeOK
<1>5. PoolInv' /\ KernelInv'
  BY <1>1 DEF IInv, PoolInv, KernelInv, ReceivesInv
<1>6. One(ctx[1] \in RecvStates) - One(ctx[1] \in RecvStates)
        + One(r.pc \in OwePcs) - One(th[w].pc \in OwePcs)
        = (extra' - extra) - (missed' - missed)
  BY <1>0, <1>1 DEF One
<1> QED
  BY <1>0, <1>2, <1>3, <1>4, <1>5, <1>6, WorkerKept

\* A worker takes a packet: the context becomes its own and, if it is of a
\* receive, the worker owes one.
LEMMA DequeueKept ==
  ASSUME IInv, CountInv, NEW w \in Workers, NEW c \in Contexts, Dequeue(w, c)
  PROVE  IInv' /\ CountInv'
<1>0. /\ ctx \in [Contexts -> CtxStates] /\ bytes \in [Contexts -> 0..MaxLen]
      /\ extra \in Nat /\ missed \in Nat /\ MaxLen \in Nat /\ MaxContexts \in Nat
      /\ MaxPost \in Nat
  BY WorkerFacts DEF IInv, TypeOK, CtxStates
<1> DEFINE r == [Thread(ctx[c]) EXCEPT !.c = c, !.n = bytes[c]]
<1>1. /\ th[w].pc = "get" /\ ctx[c] \in Packets /\ Become(w, r)
      /\ ctx' = [ctx EXCEPT ![c] = "mine"] /\ bytes' = [bytes EXCEPT ![c] = 0]
      /\ UNCHANGED <<len, stack, created, receives, extra, missed, failed>>
      /\ UNCHANGED <<m_bServerRunning, events, nulls, suspended, resumed, listener,
                     pauses, datagrams>>
  BY DEF Dequeue, history, control
<1>2. /\ r \in ThreadState /\ r.pc = ctx[c] /\ r.c = c /\ r.d = 0 /\ r.n = bytes[c]
  <2>1. ctx[c] \in Pcs /\ bytes[c] \in 0..MaxLen /\ c \in 0..MaxContexts
    BY <1>0, <1>1 DEF Pcs, Contexts
  <2>2. Thread(ctx[c]) \in ThreadState
    BY <2>1, ThreadTypes
  <2>3. Thread(ctx[c]).pc = ctx[c] /\ Thread(ctx[c]).d = 0
    BY DEF Thread
  <2> QED
    BY <2>1, <2>2, <2>3 DEF ThreadState
<1>3. PlaceOK(w, r)
  BY <1>0, <1>1, <1>2, WorkerFacts
     DEF PlaceOK, WorkPcs, Packets, IInv, KernelInv, Contexts
<1>4. "mine" \in CtxStates /\ ctx[c] # "mine"
  BY <1>1 DEF CtxStates, Packets
<1> HIDE DEF r
<1>5. Takes(w, r, c, "mine")
  BY <1>1, <1>2, <1>3, <1>4 DEF Takes, Contexts
<1>6. RestOK
  <2>1. bytes' \in [Contexts -> 0..MaxLen]
    BY <1>0, <1>1
  <2> QED
    BY <1>1, <2>1 DEF RestOK, IInv, TypeOK
<1>7. PoolInv'
  BY <1>0, <1>1 DEF IInv, PoolInv, Packets
<1>8. KernelInv'
  <2>1. ReceivesInv'
    BY <1>1, <1>4, ReceivesKept1 DEF Packets
  <2>2. \A y \in Contexts : ctx'[y] = "data" => bytes'[y] > 0
    BY <1>0, <1>1 DEF IInv, KernelInv
  <2>3. \A y \in Contexts : ctx'[y] = "none" <=> y > created'
    BY <1>0, <1>1 DEF IInv, KernelInv, Packets
  <2> QED
    BY <2>1, <2>2, <2>3 DEF KernelInv
<1>9. One("mine" \in RecvStates) - One(ctx[c] \in RecvStates)
        + One(r.pc \in OwePcs) - One(th[w].pc \in OwePcs)
        = (extra' - extra) - (missed' - missed)
  <2>1. /\ "mine" \notin RecvStates /\ th[w].pc \notin OwePcs
        /\ (ctx[c] \in RecvStates) <=> (r.pc \in OwePcs)
    BY <1>1, <1>2 DEF RecvStates, OwePcs, Packets
  <2> QED
    BY <1>0, <1>1, <2>1 DEF One
<1> QED
  BY <1>2, <1>4, <1>5, <1>6, <1>7, <1>8, <1>9, WorkerKept

\* A NULL packet, and the start of CompleteReceive.
LEMMA QuietKept ==
  ASSUME IInv, CountInv, NEW w \in Workers, DequeueNull(w) \/ CompleteReceive(w)
  PROVE  IInv' /\ CountInv'
<1>0. th[w] \in ThreadState /\ nulls \in Nat /\ PlaceOK(w, th[w])
  BY WorkerFacts DEF IInv, TypeOK
<1>1. CASE DequeueNull(w)
  <2> DEFINE r == [th[w] EXCEPT !.pc = "end"]
  <2>1. /\ th[w].pc = "get" /\ Become(w, r) /\ nulls' = nulls - 1 /\ nulls > 0
        /\ UNCHANGED <<pool, receives, m_bServerRunning, events, suspended, resumed,
                       listener, pauses, datagrams, history>>
    BY <1>1 DEF DequeueNull, Goto
  <2>2. r \in ThreadState /\ r.pc = "end" /\ r.c = th[w].c /\ r.d = th[w].d
    BY <1>0 DEF ThreadState, Pcs
  <2>3. PlaceOK(w, r)
    BY <2>2, WorkerFacts DEF PlaceOK, WorkPcs, Packets
  <2>4. r.pc \notin OwePcs /\ th[w].pc \notin OwePcs /\ nulls' \in Nat
    BY <1>0, <2>1, <2>2 DEF OwePcs
  <2> HIDE DEF r
  <2> QED
    BY <2>1, <2>2, <2>3, <2>4, QuietStep
<1>2. CASE CompleteReceive(w)
  <2> DEFINE r == [th[w] EXCEPT !.pc = "issue", !.ret = "echo",
                                !.left = th[w].n, !.n = 0]
  <2>1. /\ th[w].pc = "data" /\ Become(w, r) /\ nulls' = nulls
        /\ UNCHANGED <<pool, receives, m_bServerRunning, events, suspended, resumed,
                       listener, pauses, datagrams, history>>
    BY <1>2 DEF CompleteReceive, control
  <2>2. /\ r \in ThreadState /\ r.pc = "issue" /\ r.c = th[w].c /\ r.d = th[w].d
        /\ r.left = th[w].n /\ r.ret = "echo"
    <3>1. "issue" \in Pcs /\ 0 \in 0..MaxLen
      BY ConstantsAssumption DEF Pcs
    <3> QED
      BY <1>0, <3>1 DEF ThreadState
  <2>3. PlaceOK(w, r)
    BY <1>0, <2>1, <2>2, WorkerFacts DEF PlaceOK, WorkPcs, Packets
  <2>4. r.pc \in OwePcs /\ th[w].pc \in OwePcs /\ nulls' \in Nat
    BY <1>0, <2>1, <2>2 DEF OwePcs
  <2> HIDE DEF r
  <2> QED
    BY <2>1, <2>2, <2>3, <2>4, QuietStep
<1> QED
  BY <1>1, <1>2

\* A worker releases the context x of its packet.
LEMMA ReleaseStep ==
  ASSUME IInv, CountInv, NEW w \in Workers, NEW r \in ThreadState, Become(w, r),
         PlaceOK(w, r), NEW x \in Contexts, x \in {th[w].c, th[w].d},
         ReleaseContext(x), r.c \in {0, th[w].c} \ {x}, r.d \in {0, th[w].d} \ {x},
         UNCHANGED <<bytes, created, receives, control, datagrams>>,
         extra' \in Nat, missed' \in Nat, failed' \in BOOLEAN,
         One(r.pc \in OwePcs) - One(th[w].pc \in OwePcs)
           = (extra' - extra) - (missed' - missed)
  PROVE  IInv' /\ CountInv'
<1>0. /\ ctx \in [Contexts -> CtxStates] /\ extra \in Nat /\ missed \in Nat
      /\ stack \in Seq(Contexts) /\ x # 0 /\ MaxContexts \in Nat
  BY WorkerFacts DEF IInv, TypeOK, CtxStates, Contexts
<1>1. ctx[x] = "mine" /\ (th[w].c # 0 => th[w].c # th[w].d)
  BY <1>0, WorkerFacts
<1>2. /\ ctx' = [ctx EXCEPT ![x] = "pool"] /\ "pool" \in CtxStates
      /\ UNCHANGED <<len, bytes, created, receives>>
      /\ UNCHANGED <<m_bServerRunning, events, nulls, suspended, resumed, listener,
                     pauses, datagrams>>
  BY DEF ReleaseContext, CtxStates, control
<1>3. Takes(w, r, x, "pool")
  BY <1>1, <1>2 DEF Takes
<1>4. stack' \in Seq(Contexts) /\ PoolInv'
  BY <1>1, ReleaseContextFacts
<1>5. RestOK
  BY <1>2, <1>4 DEF RestOK, IInv, TypeOK
<1>6. KernelInv'
  <2>1. ReceivesInv'
    BY <1>1, <1>2, ReceivesKept1
  <2>2. \A y \in Contexts : ctx'[y] = "data" => bytes'[y] > 0
    BY <1>0, <1>2 DEF IInv, KernelInv
  <2>3. \A y \in Contexts : ctx'[y] = "none" <=> y > created'
    BY <1>0, <1>1, <1>2 DEF IInv, KernelInv
  <2> QED
    BY <2>1, <2>2, <2>3 DEF KernelInv
<1>7. One("pool" \in RecvStates) - One(ctx[x] \in RecvStates)
        + One(r.pc \in OwePcs) - One(th[w].pc \in OwePcs)
        = (extra' - extra) - (missed' - missed)
  <2>1. One("pool" \in RecvStates) = 0 /\ One(ctx[x] \in RecvStates) = 0
    BY <1>1 DEF One, RecvStates
  <2>2. One(r.pc \in OwePcs) \in Int /\ One(th[w].pc \in OwePcs) \in Int
    BY DEF One
  <2> QED
    BY <2>1, <2>2
<1> QED
  BY <1>2, <1>3, <1>4, <1>5, <1>6, <1>7, WorkerKept

\* A short packet or an error releases the context and owes a receive; the end
\* of the echo and of CompleteSend releases it too.
LEMMA ShortKept ==
  ASSUME IInv, CountInv, NEW w \in Workers, HandleShort(w) \/ Release(w)
  PROVE  IInv' /\ CountInv'
<1>0. /\ th[w] \in ThreadState /\ PlaceOK(w, th[w]) /\ extra \in Nat
      /\ missed \in Nat /\ failed \in BOOLEAN
  BY WorkerFacts DEF IInv, TypeOK
<1>1. /\ th[w].pc \in {"zero", "recvErr", "sendErr", "release", "sent"}
      /\ ReleaseContext(th[w].c)
      /\ UNCHANGED <<bytes, created, receives, control, datagrams>>
      /\ UNCHANGED <<missed, failed>>
  BY DEF HandleShort, Release, history
<1>2. th[w].c # 0 /\ th[w].c \in Contexts
  <2>1. th[w].c # 0
    BY <1>0, <1>1 DEF PlaceOK, Packets
  <2> QED
    BY <2>1, WorkerFacts
<1>3. CASE HandleShort(w)
  <2> DEFINE r == [Thread("issue") EXCEPT !.ret = "get"]
  <2>1. /\ Become(w, r) /\ th[w].pc \in {"zero", "recvErr", "sendErr"}
        /\ extra' = IF th[w].pc = "sendErr" THEN extra + 1 ELSE extra
    BY <1>3 DEF HandleShort
  <2>2. /\ r \in ThreadState /\ r.pc = "issue" /\ r.c = 0 /\ r.d = 0 /\ r.ret = "get"
    <3>1. "issue" \in Pcs
      BY DEF Pcs
    <3>2. Thread("issue") \in ThreadState
      BY <3>1, ThreadTypes
    <3>3. /\ Thread("issue").pc = "issue" /\ Thread("issue").c = 0
          /\ Thread("issue").d = 0
      BY DEF Thread
    <3> QED
      BY <3>2, <3>3 DEF ThreadState
  <2>3. PlaceOK(w, r)
    BY <2>2, WorkerFacts DEF PlaceOK, WorkPcs, Packets
  <2>4. /\ extra' \in Nat
        /\ One(r.pc \in OwePcs) - One(th[w].pc \in OwePcs)
           = (extra' - extra) - (missed' - missed)
    BY <1>0, <1>1, <2>1, <2>2 DEF One, OwePcs
  <2> HIDE DEF r
  <2>5. r.c \in {0, th[w].c} \ {th[w].c} /\ r.d \in {0, th[w].d} \ {th[w].c}
    BY <1>2, <2>2
  <2> QED
    BY <1>0, <1>1, <1>2, <2>1, <2>2, <2>3, <2>4, <2>5, ReleaseStep
<1>4. CASE Release(w)
  <2>1. /\ Become(w, Thread("get")) /\ th[w].pc \in {"release", "sent"}
        /\ extra' = extra
    BY <1>4 DEF Release, Goto, history
  <2>2. /\ Thread("get").pc = "get" /\ Thread("get").c = 0 /\ Thread("get").d = 0
    BY DEF Thread
  <2>3. Thread("get") \in ThreadState
    <3>1. "get" \in Pcs
      BY DEF Pcs
    <3> QED
      BY <3>1, ThreadTypes
  <2>4. PlaceOK(w, Thread("get"))
    BY <2>2, WorkerFacts DEF PlaceOK, WorkPcs, Packets
  <2>5. /\ extra' \in Nat
        /\ One(Thread("get").pc \in OwePcs) - One(th[w].pc \in OwePcs)
           = (extra' - extra) - (missed' - missed)
    BY <1>0, <1>1, <2>1, <2>2 DEF One, OwePcs
  <2>6. /\ Thread("get").c \in {0, th[w].c} \ {th[w].c}
        /\ Thread("get").d \in {0, th[w].d} \ {th[w].c}
    BY <1>2, <2>2
  <2> QED
    BY <1>0, <1>1, <1>2, <2>1, <2>3, <2>4, <2>5, <2>6, ReleaseStep
<1> QED
  BY <1>3, <1>4

-----------------------------------------------------------------------------
(* IssueReceiveOperation, by a worker or by InitServer.                    *)

\* What the state r of the application's thread adds to the count.
AppShare(r) ==
  (IF r.pc \in {"issue", "recvFrom"} THEN 1 ELSE 0)
    - (IF r.pc \in {"init", "issue", "recvFrom"} THEN r.i ELSE MaxPost)

\* A step of the application's thread before the server is started.
LEMMA AppKept ==
  ASSUME IInv, CountInv, NEW r \in ThreadState,
         NEW x \in Contexts, NEW v \in CtxStates, Takes("app", r, x, v),
         RestOK, PoolInv', KernelInv', ~m_bServerRunning, ~events,
         One(v \in RecvStates) - One(ctx[x] \in RecvStates)
           + AppShare(r) - AppShare(th["app"])
           = (extra' - extra) - (missed' - missed)
  PROVE  IInv' /\ CountInv'
<1>0. "app" \in Threads /\ "app" \notin Workers
  BY ConstantsAssumption DEF Threads
<1>1. /\ th' \in [Threads -> ThreadState] /\ th'["app"] = r
      /\ \A u \in Threads \ {"app"} : th'[u] = th[u]
      /\ ctx' \in [Contexts -> CtxStates] /\ ctx'[x] = v
      /\ \A y \in Contexts \ {x} : ctx'[y] = ctx[y]
      /\ PlaceInv' /\ OwnInv'
  BY <1>0, ThreadKept
<1>2. TypeOK'
  BY <1>1, TypeOKPrime DEF RestOK, IInv, TypeOK, CtxStates
<1>4. ControlInv'
  BY DEF RestOK, ControlInv
<1>5. CountInv'
  <2>1. Owing' = Owing
    BY <1>0, <1>1 DEF Owing, Threads
  <2>2. Cardinality(Owing) \in Nat
    <3>1. Owing \in SUBSET Workers
      BY DEF Owing
    <3> QED
      BY <3>1, ConstantsAssumption, FS_Subset, FS_CardinalityType
  <2>3. /\ Cardinality(Receiving) \in Nat
        /\ Cardinality(Receiving') = Cardinality(Receiving)
             + One(v \in RecvStates) - One(ctx[x] \in RecvStates)
    BY <1>1, ReceivingMoves
  <2>4. /\ extra \in Nat /\ missed \in Nat /\ extra' \in Nat /\ missed' \in Nat
        /\ r.i \in Nat /\ th["app"].i \in Nat /\ MaxPost \in Nat
    <3>1. th["app"].i \in Nat /\ r.i \in Nat
      BY <1>0, ThreadTypes, ConstantsAssumption DEF IInv, ThreadState
    <3> QED
      BY <3>1, ConstantsAssumption DEF IInv, TypeOK, RestOK
  <2>5. /\ One(v \in RecvStates) \in Int /\ One(ctx[x] \in RecvStates) \in Int
    BY DEF One
  <2>6. /\ AppShare(r) = AppOwes' - Due' /\ AppShare(th["app"]) = AppOwes - Due
        /\ AppOwes \in Int /\ Due \in Int /\ AppOwes' \in Int /\ Due' \in Int
    BY <1>1, <2>4 DEF AppShare, AppOwes, Due
  <2> QED
    BY <2>1, <2>2, <2>3, <2>4, <2>5, <2>6 DEF CountInv
<1> QED
  BY <1>1, <1>2, <1>4, <1>5 DEF IInv

\* What is known of a thread that calls IssueReceiveOperation.
LEMMA IssuerFacts ==
  ASSUME IInv, NEW t \in Threads, th[t].pc \in {"issue", "recvFrom"}
  PROVE  /\ th[t] \in ThreadState /\ PlaceOK(t, th[t])
         /\ th[t].c # 0 => /\ th[t].c \in Contexts /\ ctx[th[t].c] = "mine"
                           /\ th[t].c # th[t].d
         /\ th[t].d # 0 => th[t].d \in Contexts /\ ctx[th[t].d] = "mine"
         /\ MaxContexts \in Nat /\ MaxLen \in Nat /\ MaxPost \in Nat
         /\ t = "app" => ~m_bServerRunning /\ ~events
         /\ t \in Workers \/ t = "app"
         /\ "app" \notin Workers
<1>1. /\ MaxContexts \in Nat \ {0} /\ MaxLen \in Nat /\ MaxPost \in Nat
      /\ "app" \notin Workers
  BY ConstantsAssumption
<1>2. th[t] \in ThreadState /\ PlaceOK(t, th[t])
  BY ThreadTypes DEF IInv, PlaceInv
<1>3. (th[t].c # 0 => th[t].c \in Contexts) /\ (th[t].d # 0 => th[t].d \in Contexts)
  BY <1>1, <1>2 DEF ThreadState, Contexts
<1>4. t = "app" => ~m_bServerRunning /\ ~events
  BY DEF IInv, ControlInv
<1> QED
  BY <1>1, <1>2, <1>3, <1>4 DEF IInv, OwnInv, Threads

\* IssueReceiveOperation takes a context: nobody else had it.
LEMMA IssueGetKept ==
  ASSUME IInv, CountInv, NEW t \in Threads, IssueGetContext(t)
  PROVE  IInv' /\ CountInv'
<1>0. th[t].pc = "issue" /\ ctx \in [Contexts -> CtxStates] /\ extra \in Nat /\ missed \in Nat
  BY DEF IssueGetContext, IInv, TypeOK, CtxStates
<1>1. PICK c \in Contexts :
        /\ GetContext(c) /\ ctx' = [ctx EXCEPT ![c] = "mine"]
        /\ Become(t, [th[t] EXCEPT !.pc = "recvFrom", !.d = c])
  BY DEF IssueGetContext
<1>2. /\ UNCHANGED <<bytes, len, receives, extra, missed, failed>>
      /\ UNCHANGED <<m_bServerRunning, events, nulls, suspended, resumed, listener,
                     pauses, datagrams>>
  BY DEF IssueGetContext, control, history
<1>3. /\ ctx[c] \in {"pool", "none"} /\ stack' \in Seq(Contexts)
      /\ created' \in Contexts /\ PoolInv'
      /\ \A x \in Contexts : ctx'[x] = "none" <=> x > created'
  BY <1>1, GetContextFacts
<1> DEFINE r == [th[t] EXCEPT !.pc = "recvFrom", !.d = c]
<1>4. /\ r \in ThreadState /\ r.pc = "recvFrom" /\ r.c = th[t].c /\ r.d = c
      /\ r.i = th[t].i /\ r.ret = th[t].ret /\ r.left = th[t].left
  <2>1. "recvFrom" \in Pcs /\ c \in 0..MaxContexts
    BY ConstantsAssumption DEF Pcs, Contexts
  <2>2. th[t] \in ThreadState
    BY <1>0, IssuerFacts
  <2> QED
    BY <2>1, <2>2 DEF ThreadState
<1>5. c # 0 /\ "mine" \in CtxStates /\ ctx[c] # "mine"
  BY <1>3, ConstantsAssumption DEF Contexts, CtxStates
<1>6. PlaceOK(t, r)
  BY <1>0, <1>4, <1>5, IssuerFacts DEF PlaceOK, AppPcs, WorkPcs, Packets
<1>10. Become(t, r)
  BY <1>1
<1> HIDE DEF r
<1>7. Takes(t, r, c, "mine")
  BY <1>0, <1>1, <1>4, <1>5, <1>6, <1>10, IssuerFacts DEF Takes
<1>8. RestOK
  BY <1>2, <1>3 DEF RestOK, IInv, TypeOK
<1>9. KernelInv'
  <2>1. ReceivesInv'
    BY <1>1, <1>2, <1>3, <1>5, ReceivesKept1
  <2>2. \A y \in Contexts : ctx'[y] = "data" => bytes'[y] > 0
    BY <1>0, <1>1, <1>2 DEF IInv, KernelInv
  <2> QED
    BY <1>3, <2>1, <2>2 DEF KernelInv
<1>11. /\ One("mine" \in RecvStates) = 0 /\ One(ctx[c] \in RecvStates) = 0
       /\ One(r.pc \in OwePcs) = 1 /\ One(th[t].pc \in OwePcs) = 1
       /\ AppShare(r) - AppShare(th[t]) = 0
       /\ (extra' - extra) - (missed' - missed) = 0
  <2>1. r.i \in Nat /\ th[t].i \in Nat
    BY <1>0, <1>4, IssuerFacts DEF ThreadState
  <2> QED
    BY <1>0, <1>2, <1>3, <1>4, <2>1 DEF One, RecvStates, OwePcs, AppShare
<1>12. CASE t \in Workers
  <2>1. One("mine" \in RecvStates) - One(ctx[c] \in RecvStates)
          + One(r.pc \in OwePcs) - One(th[t].pc \in OwePcs)
          = (extra' - extra) - (missed' - missed)
    BY <1>11
  <2> QED
    BY <1>3, <1>4, <1>5, <1>7, <1>8, <1>9, <1>12, <2>1, WorkerKept
<1>13. CASE t = "app"
  <2>0. AppShare(r) \in Int /\ AppShare(th[t]) \in Int
    BY <1>0, <1>4, IssuerFacts DEF AppShare, ThreadState
  <2>1. One("mine" \in RecvStates) - One(ctx[c] \in RecvStates)
          + AppShare(r) - AppShare(th["app"])
          = (extra' - extra) - (missed' - missed)
    BY <1>11, <1>13, <2>0
  <2>2. ~m_bServerRunning /\ ~events /\ Takes("app", r, c, "mine")
    BY <1>0, <1>7, <1>13, IssuerFacts
  <2> QED
    BY <1>3, <1>4, <1>5, <1>8, <1>9, <2>1, <2>2, AppKept
<1> QED
  BY <1>0, <1>12, <1>13, IssuerFacts

\* WSARecvFrom: the debt is paid, or counted as missed.
LEMMA IssueRecvKept ==
  ASSUME IInv, CountInv, NEW t \in Threads, IssueRecvFrom(t)
  PROVE  IInv' /\ CountInv'
<1> DEFINE d == th[t].d
<1> DEFINE done == [th[t] EXCEPT !.pc = th[t].ret, !.d = 0]
<1> DEFINE r == IF th[t].ret = "get" THEN Thread("get") ELSE done
<1>0. /\ th[t].pc = "recvFrom" /\ ctx \in [Contexts -> CtxStates]
      /\ extra \in Nat /\ missed \in Nat /\ receives \in Seq(Contexts)
      /\ stack \in Seq(Contexts) /\ failed \in BOOLEAN
  BY DEF IssueRecvFrom, IInv, TypeOK, CtxStates
<1>1. /\ th[t] \in ThreadState /\ d # 0 /\ d \in Contexts /\ ctx[d] = "mine"
      /\ th[t].c # 0 => /\ th[t].c \in Contexts /\ ctx[th[t].c] = "mine"
                        /\ th[t].c # d
      /\ t = "app" => ~m_bServerRunning /\ ~events /\ th[t].ret = "init"
      /\ t \in Workers => th[t].ret \in {"get", "echo"}
      /\ th[t].ret = "echo" /\ t \in Workers => th[t].c # 0 /\ th[t].left > 0
  BY <1>0, IssuerFacts DEF PlaceOK
<1>2. Become(t, r)
  BY DEF IssueRecvFrom
<1>3. /\ r \in ThreadState /\ r.pc = th[t].ret /\ r.c \in {0, th[t].c} /\ r.d = 0
      /\ th[t].ret # "get" => /\ r.i = th[t].i /\ r.c = th[t].c
                              /\ r.left = th[t].left
  <2>1. CASE th[t].ret = "get"
    <3>1. "get" \in Pcs
      BY DEF Pcs
    <3>2. Thread("get") \in ThreadState
      BY <3>1, ThreadTypes
    <3>3. /\ Thread("get").pc = "get" /\ Thread("get").c = 0
          /\ Thread("get").d = 0
      BY DEF Thread
    <3> QED
      BY <2>1, <3>2, <3>3
  <2>2. CASE th[t].ret # "get"
    <3>1. th[t].ret \in {"init", "echo"} /\ 0 \in 0..MaxContexts
      BY <1>0, <1>1, <2>2, IssuerFacts
    <3>2. th[t].ret \in Pcs
      BY <3>1 DEF Pcs
    <3>3. /\ done \in ThreadState /\ done.pc = th[t].ret /\ done.c = th[t].c
          /\ done.d = 0 /\ done.i = th[t].i /\ done.left = th[t].left
      BY <1>1, <3>1, <3>2 DEF ThreadState
    <3> QED
      BY <2>2, <3>3
  <2> QED
    BY <2>1, <2>2
<1>4. PlaceOK(t, r)
  <2>1. t \in Workers \/ t = "app"
    BY <1>0, IssuerFacts
  <2>2. "app" \notin Workers
    BY ConstantsAssumption
  <2> HIDE DEF r
  <2> QED
    BY <1>1, <1>3, <2>1, <2>2 DEF PlaceOK, AppPcs, WorkPcs, Packets
<1>5. /\ UNCHANGED <<bytes, created, extra, len>>
      /\ UNCHANGED <<m_bServerRunning, events, nulls, suspended, resumed, listener,
                     pauses, datagrams>>
  BY DEF IssueRecvFrom, control, ReleaseContext
<1> HIDE DEF r, done
<1>6. ASSUME NEW v \in {"recv", "pool", "lost"}, ctx' = [ctx EXCEPT ![d] = v],
             RestOK, PoolInv', ReceivesInv',
             missed' = IF v = "recv" THEN missed ELSE missed + 1
      PROVE  IInv' /\ CountInv'
  <2>1. v \in CtxStates /\ v # "mine"
    BY DEF CtxStates
  <2>2. Takes(t, r, d, v)
    BY <1>1, <1>2, <1>3, <1>4, <1>6 DEF Takes
  <2>3. KernelInv'
    <3>1. \A y \in Contexts : ctx'[y] = "data" => bytes'[y] > 0
      BY <1>0, <1>1, <1>5, <1>6 DEF IInv, KernelInv
    <3>2. \A y \in Contexts : ctx'[y] = "none" <=> y > created'
      BY <1>0, <1>1, <1>5, <1>6 DEF IInv, KernelInv
    <3> QED
      BY <1>6, <3>1, <3>2 DEF KernelInv
  <2>4. One(ctx[d] \in RecvStates) = 0
    BY <1>1 DEF One, RecvStates
  <2>5. One(v \in RecvStates) - 1 = (extra' - extra) - (missed' - missed)
    BY <1>0, <1>5, <1>6 DEF One, RecvStates
  <2>6. One(v \in RecvStates) \in Int
    BY DEF One
  <2>7. CASE t \in Workers
    <3>1. One(r.pc \in OwePcs) = 0 /\ One(th[t].pc \in OwePcs) = 1
      BY <1>0, <1>1, <1>3, <2>7 DEF One, OwePcs
    <3>2. One(v \in RecvStates) - One(ctx[d] \in RecvStates)
            + One(r.pc \in OwePcs) - One(th[t].pc \in OwePcs)
            = (extra' - extra) - (missed' - missed)
      BY <2>4, <2>5, <2>6, <3>1
    <3> QED
      BY <1>1, <1>3, <1>6, <2>1, <2>2, <2>3, <2>7, <3>2, WorkerKept
  <2>8. CASE t = "app"
    <3>1. r.i = th[t].i /\ r.i \in Nat /\ r.pc = "init"
      BY <1>1, <1>3, <2>8 DEF ThreadState
    <3>2. AppShare(r) = 0 - r.i /\ AppShare(th["app"]) = 1 - r.i
      BY <1>0, <2>8, <3>1 DEF AppShare
    <3>3. One(v \in RecvStates) - One(ctx[d] \in RecvStates)
            + AppShare(r) - AppShare(th["app"])
            = (extra' - extra) - (missed' - missed)
      BY <2>4, <2>5, <2>6, <3>1, <3>2
    <3>4. ~m_bServerRunning /\ ~events /\ Takes("app", r, d, v)
      BY <1>1, <2>2, <2>8
    <3> QED
      BY <1>1, <1>3, <1>6, <2>1, <2>3, <3>3, <3>4, AppKept
  <2> QED
    BY <1>0, <2>7, <2>8, IssuerFacts
<1>7. \/ /\ ctx' = [ctx EXCEPT ![d] = "recv"] /\ receives' = Append(receives, d)
         /\ UNCHANGED <<stack, missed, failed>>
      \/ /\ failed' = TRUE /\ missed' = missed + 1
         /\ ReleaseContext(d) /\ UNCHANGED receives
      \/ /\ failed' = TRUE /\ missed' = missed + 1
         /\ ctx' = [ctx EXCEPT ![d] = "lost"] /\ UNCHANGED <<stack, receives>>
  BY DEF IssueRecvFrom
<1>8. /\ stack' \in Seq(Contexts) /\ receives' \in Seq(Contexts) /\ missed' \in Nat
      /\ failed' \in BOOLEAN
      => RestOK
  BY <1>0, <1>5 DEF RestOK, IInv, TypeOK
<1>9. ASSUME NEW v \in {"recv", "lost"}, ctx' = [ctx EXCEPT ![d] = v], UNCHANGED stack
      PROVE  PoolInv'
  BY <1>0, <1>1, <1>9 DEF IInv, PoolInv
<1>10. CASE /\ ctx' = [ctx EXCEPT ![d] = "recv"] /\ receives' = Append(receives, d)
            /\ UNCHANGED <<stack, missed, failed>>
  <2>1. /\ receives' \in Seq(Contexts) /\ Len(receives) \in Nat
        /\ DOMAIN receives = 1..Len(receives)
        /\ DOMAIN receives' = 1..(Len(receives) + 1)
        /\ \A j \in DOMAIN receives : receives'[j] = receives[j] /\ receives[j] \in Contexts
        /\ receives'[Len(receives) + 1] = d
    BY <1>0, <1>1, <1>10
  <2>2. \A j \in DOMAIN receives : receives[j] # d
    BY <1>1 DEF IInv, KernelInv, ReceivesInv
  <2>3. ReceivesInv'
    <3>1. \A j, k \in DOMAIN receives' : receives'[j] = receives'[k] => j = k
      BY <2>1, <2>2 DEF IInv, KernelInv, ReceivesInv
    <3>2. \A j \in DOMAIN receives' : ctx'[receives'[j]] = "recv"
      BY <1>0, <1>1, <1>10, <2>1, <2>2 DEF IInv, KernelInv, ReceivesInv
    <3> QED
      BY <3>1, <3>2 DEF ReceivesInv
  <2>4. RestOK /\ missed' = missed
    BY <1>0, <1>8, <1>10, <2>1
  <2>5. PoolInv'
    BY <1>9, <1>10
  <2> QED
    BY <1>6, <1>10, <2>3, <2>4, <2>5
<1>11. CASE /\ failed' = TRUE /\ missed' = missed + 1
            /\ ReleaseContext(d) /\ UNCHANGED receives
  <2>1. stack' \in Seq(Contexts) /\ PoolInv'
    BY <1>1, <1>11, ReleaseContextFacts
  <2>2. ctx' = [ctx EXCEPT ![d] = "pool"] /\ "pool" \in CtxStates
    BY <1>11 DEF ReleaseContext, CtxStates
  <2>3. RestOK
    BY <1>0, <1>8, <1>11, <2>1
  <2>4. ReceivesInv'
    BY <1>1, <1>11, <2>2, ReceivesKept1
  <2> QED
    BY <1>6, <1>11, <2>1, <2>2, <2>3, <2>4
<1>12. CASE /\ failed' = TRUE /\ missed' = missed + 1
            /\ ctx' = [ctx EXCEPT ![d] = "lost"] /\ UNCHANGED <<stack, receives>>
  <2>1. PoolInv'
    BY <1>9, <1>12
  <2>2. "lost" \in CtxStates
    BY DEF CtxStates
  <2>3. RestOK
    BY <1>0, <1>8, <1>12
  <2>4. ReceivesInv'
    BY <1>1, <1>12, <2>2, ReceivesKept1
  <2> QED
    BY <1>6, <1>12, <2>1, <2>2, <2>3, <2>4
<1> QED
  BY <1>7, <1>10, <1>11, <1>12

-----------------------------------------------------------------------------
(* IssueSendOperation.                                                     *)

\* IssueSendOperation takes a context and shortens its buffer, which keeps at
\* least one byte because something is left to send.
LEMMA EchoGetKept ==
  ASSUME IInv, CountInv, NEW w \in Workers, EchoGetContext(w)
  PROVE  IInv' /\ CountInv'
<1>0. /\ th[w].pc = "echo" /\ ctx \in [Contexts -> CtxStates] /\ extra \in Nat
      /\ missed \in Nat /\ len \in [Contexts -> 1..MaxLen]
      /\ th[w] \in ThreadState /\ MaxLen \in Nat /\ th[w].c # 0
      /\ th[w].left > 0 /\ th[w].left \in 0..MaxLen
  <2>1. th[w].pc = "echo"
    BY DEF EchoGetContext
  <2>2. th[w] \in ThreadState /\ PlaceOK(w, th[w]) /\ MaxLen \in Nat
    BY WorkerFacts
  <2>3. th[w].c # 0 /\ th[w].left > 0 /\ th[w].left \in 0..MaxLen
    BY <2>1, <2>2 DEF PlaceOK, ThreadState
  <2> QED
    BY <2>1, <2>2, <2>3 DEF IInv, TypeOK, CtxStates
<1>1. PICK c \in Contexts :
        /\ GetContext(c) /\ ctx' = [ctx EXCEPT ![c] = "mine"]
        /\ SetSendParameters(c, th[w].left)
        /\ Become(w, [th[w] EXCEPT !.pc = "sendTo", !.d = c,
                                   !.left = @ - len'[c]])
  BY DEF EchoGetContext
<1>2. /\ UNCHANGED <<bytes, receives, extra, missed, failed>>
      /\ UNCHANGED <<m_bServerRunning, events, nulls, suspended, resumed, listener,
                     pauses, datagrams>>
  BY DEF EchoGetContext, control
<1>3. /\ ctx[c] \in {"pool", "none"} /\ stack' \in Seq(Contexts)
      /\ created' \in Contexts /\ PoolInv'
      /\ \A x \in Contexts : ctx'[x] = "none" <=> x > created'
  BY <1>1, GetContextFacts
<1>4. len' \in [Contexts -> 1..MaxLen] /\ th[w].left - len'[c] \in 0..MaxLen
  <2> DEFINE size == IF th[w].left <= len[c] THEN th[w].left ELSE len[c]
  <2>1. len' = [len EXCEPT ![c] = size]
    BY <1>1 DEF SetSendParameters
  <2>2. size \in 1..MaxLen /\ th[w].left - size \in 0..MaxLen
    BY <1>0
  <2> HIDE DEF size
  <2> QED
    BY <1>0, <2>1, <2>2
<1> DEFINE r == [th[w] EXCEPT !.pc = "sendTo", !.d = c,
                              !.left = th[w].left - len'[c]]
<1>5. /\ r \in ThreadState /\ r.pc = "sendTo" /\ r.c = th[w].c /\ r.d = c
  <2>1. "sendTo" \in Pcs /\ c \in 0..MaxContexts
    BY ConstantsAssumption DEF Pcs, Contexts
  <2> QED
    BY <1>0, <1>4, <2>1 DEF ThreadState
<1>6. c # 0 /\ "mine" \in CtxStates /\ ctx[c] # "mine"
  BY <1>3, ConstantsAssumption DEF Contexts, CtxStates
<1>7. PlaceOK(w, r)
  BY <1>0, <1>5, <1>6, WorkerFacts DEF PlaceOK, WorkPcs, Packets
<1>8. Become(w, r)
  BY <1>1
<1> HIDE DEF r
<1>9. Takes(w, r, c, "mine")
  BY <1>1, <1>5, <1>6, <1>7, <1>8, WorkerFacts DEF Takes
<1>10. RestOK
  BY <1>2, <1>3, <1>4 DEF RestOK, IInv, TypeOK
<1>11. KernelInv'
  <2>1. ReceivesInv'
    BY <1>1, <1>2, <1>3, <1>6, ReceivesKept1
  <2>2. \A y \in Contexts : ctx'[y] = "data" => bytes'[y] > 0
    BY <1>0, <1>1, <1>2 DEF IInv, KernelInv
  <2> QED
    BY <1>3, <2>1, <2>2 DEF KernelInv
<1>12. One("mine" \in RecvStates) - One(ctx[c] \in RecvStates)
         + One(r.pc \in OwePcs) - One(th[w].pc \in OwePcs)
         = (extra' - extra) - (missed' - missed)
  BY <1>0, <1>2, <1>3, <1>5 DEF One, RecvStates, OwePcs
<1> QED
  BY <1>3, <1>5, <1>6, <1>9, <1>10, <1>11, <1>12, WorkerKept

\* WSASendTo: the context goes to the kernel, or back to the pool.
LEMMA EchoSendKept ==
  ASSUME IInv, CountInv, NEW w \in Workers, EchoSendTo(w)
  PROVE  IInv' /\ CountInv'
<1> DEFINE d == th[w].d
<1>0. /\ th[w].pc = "sendTo" /\ ctx \in [Contexts -> CtxStates] /\ extra \in Nat
      /\ missed \in Nat /\ failed \in BOOLEAN
      /\ UNCHANGED <<bytes, created, receives, control, datagrams>>
      /\ UNCHANGED <<extra, missed>>
  BY DEF EchoSendTo, IInv, TypeOK, CtxStates
<1>1. /\ th[w] \in ThreadState /\ PlaceOK(w, th[w]) /\ d # 0 /\ d \in Contexts
      /\ ctx[d] = "mine" /\ th[w].c # 0 /\ th[w].c # d /\ 0 \in 0..MaxContexts
  <2>1. th[w] \in ThreadState /\ PlaceOK(w, th[w]) /\ 0 \in 0..MaxContexts
    BY WorkerFacts
  <2>2. d # 0 /\ th[w].c # 0
    BY <1>0, <2>1 DEF PlaceOK
  <2> QED
    BY <2>1, <2>2, WorkerFacts
<1>2. ASSUME NEW l \in {"echo", "release"}, l = "echo" => th[w].left # 0
      PROVE  LET r == [th[w] EXCEPT !.d = 0, !.pc = l] IN
             /\ r \in ThreadState /\ r.pc = l /\ r.c = th[w].c /\ r.d = 0
             /\ PlaceOK(w, r) /\ One(r.pc \in OwePcs) = 0
             /\ r = [th[w] EXCEPT !.pc = l, !.d = 0]
  <2> DEFINE r == [th[w] EXCEPT !.d = 0, !.pc = l]
  <2>1. l \in Pcs
    BY DEF Pcs
  <2>2. /\ r \in ThreadState /\ r.pc = l /\ r.c = th[w].c /\ r.d = 0
        /\ r.left = th[w].left /\ r = [th[w] EXCEPT !.pc = l, !.d = 0]
    BY <1>1, <2>1 DEF ThreadState
  <2>3. th[w].left \in Nat
    BY <1>1 DEF ThreadState
  <2> HIDE DEF r
  <2>4. PlaceOK(w, r)
    BY <1>1, <1>2, <2>2, <2>3, WorkerFacts DEF PlaceOK, WorkPcs, Packets
  <2>5. One(r.pc \in OwePcs) = 0
    BY <2>2 DEF One, OwePcs
  <2> QED
    BY <2>2, <2>4, <2>5 DEF r
<1>3. One(th[w].pc \in OwePcs) = 0
  BY <1>0 DEF One, OwePcs
<1>4. CASE /\ ctx' = [ctx EXCEPT ![d] = "send"]
           /\ Become(w, [th[w] EXCEPT !.d = 0,
                           !.pc = IF th[w].left # 0 THEN "echo" ELSE "release"])
           /\ UNCHANGED <<len, stack, failed>>
  <2> DEFINE l == IF th[w].left # 0 THEN "echo" ELSE "release"
  <2> DEFINE r == [th[w] EXCEPT !.d = 0, !.pc = l]
  <2>1. /\ r \in ThreadState /\ r.pc = l /\ r.c = th[w].c /\ r.d = 0
        /\ PlaceOK(w, r) /\ One(r.pc \in OwePcs) = 0
    <3>1. l \in {"echo", "release"} /\ (l = "echo" => th[w].left # 0)
      OBVIOUS
    <3> HIDE DEF l
    <3> QED
      BY <1>2, <3>1
  <2>2. Become(w, r)
    BY <1>4
  <2> HIDE DEF r
  <2>3. "send" \in CtxStates /\ "send" # "mine"
    BY DEF CtxStates
  <2>4. Takes(w, r, d, "send")
    BY <1>1, <1>4, <2>1, <2>2 DEF Takes
  <2>5. RestOK
    BY <1>0, <1>4 DEF RestOK, IInv, TypeOK, control
  <2>6. PoolInv'
    BY <1>0, <1>1, <1>4 DEF IInv, PoolInv
  <2>7. KernelInv'
    <3>1. ReceivesInv'
      BY <1>0, <1>1, <1>4, <2>3, ReceivesKept1
    <3>2. \A y \in Contexts : ctx'[y] = "data" => bytes'[y] > 0
      BY <1>0, <1>1, <1>4 DEF IInv, KernelInv
    <3>3. \A y \in Contexts : ctx'[y] = "none" <=> y > created'
      BY <1>0, <1>1, <1>4 DEF IInv, KernelInv
    <3> QED
      BY <3>1, <3>2, <3>3 DEF KernelInv
  <2>8. One("send" \in RecvStates) - One(ctx[d] \in RecvStates)
          + One(r.pc \in OwePcs) - One(th[w].pc \in OwePcs)
          = (extra' - extra) - (missed' - missed)
    <3>1. One("send" \in RecvStates) = 0 /\ One(ctx[d] \in RecvStates) = 0
      BY <1>1 DEF One, RecvStates
    <3> QED
      BY <1>0, <1>3, <2>1, <3>1
  <2> QED
    BY <1>1, <2>1, <2>3, <2>4, <2>5, <2>6, <2>7, <2>8, WorkerKept
<1>5. CASE /\ failed' = TRUE /\ ReleaseContext(d)
           /\ Become(w, [th[w] EXCEPT !.pc = "release", !.d = 0])
  <2> DEFINE r == [th[w] EXCEPT !.d = 0, !.pc = "release"]
  <2>1. /\ r \in ThreadState /\ r.pc = "release" /\ r.c = th[w].c /\ r.d = 0
        /\ PlaceOK(w, r) /\ One(r.pc \in OwePcs) = 0 /\ Become(w, r)
    BY <1>2, <1>5
  <2> HIDE DEF r
  <2>2. /\ r.c \in {0, th[w].c} \ {d} /\ r.d \in {0, th[w].d} \ {d}
        /\ d \in {th[w].c, th[w].d} /\ failed' \in BOOLEAN
        /\ extra' \in Nat /\ missed' \in Nat
    BY <1>0, <1>1, <1>5, <2>1
  <2>3. One(r.pc \in OwePcs) - One(th[w].pc \in OwePcs)
          = (extra' - extra) - (missed' - missed)
    BY <1>0, <1>3, <2>1
  <2> QED
    BY <1>0, <1>1, <1>5, <2>1, <2>2, <2>3, ReleaseStep
<1> QED
  BY <1>4, <1>5 DEF EchoSendTo

-----------------------------------------------------------------------------
(* The application's thread.                                               *)

\* PostReceiveOperation: one more receive is due and owed, until all are posted.
LEMMA InitPostKept ==
  ASSUME IInv, CountInv, InitPost
  PROVE  IInv' /\ CountInv'
<1>0. /\ th["app"].pc = "init" /\ ctx \in [Contexts -> CtxStates] /\ extra \in Nat
      /\ missed \in Nat /\ 1 \in Contexts /\ "app" \in Threads /\ MaxPost \in Nat
      /\ "app" \notin Workers
  <2>1. 1 \in Contexts /\ "app" \in Threads /\ MaxPost \in Nat /\ "app" \notin Workers
    BY ConstantsAssumption DEF Contexts, Threads
  <2>2. th["app"].pc = "init"
    BY DEF InitPost
  <2> QED
    BY <2>1, <2>2 DEF IInv, TypeOK, CtxStates
<1>1. /\ UNCHANGED <<ctx, len, bytes, stack, created, receives, extra, missed, failed>>
      /\ UNCHANGED <<m_bServerRunning, events, nulls, suspended, resumed, listener,
                     pauses, datagrams>>
  BY DEF InitPost, pool, history, control
<1>2. /\ th["app"] \in ThreadState /\ PlaceOK("app", th["app"])
      /\ th["app"].c # 0 => th["app"].c # th["app"].d
      /\ ~m_bServerRunning /\ ~events
      /\ th["app"].i \in 0..MaxPost
  <2>1. th["app"] \in ThreadState
    BY <1>0, ThreadTypes DEF IInv
  <2>2. th["app"].i \in 0..MaxPost
    BY <2>1 DEF ThreadState
  <2> QED
    BY <1>0, <2>1, <2>2 DEF IInv, PlaceInv, OwnInv, ControlInv
<1>3. ctx' = [ctx EXCEPT ![1] = ctx[1]] /\ ctx[1] \in CtxStates
  BY <1>0, <1>1
<1>4. RestOK
  BY <1>1 DEF RestOK, IInv, TypeOK
<1>5. PoolInv' /\ KernelInv'
  BY <1>1 DEF IInv, PoolInv, KernelInv, ReceivesInv
<1>6. ASSUME NEW r \in ThreadState, Become("app", r), PlaceOK("app", r),
             r.c \in {0, th["app"].c}, r.d \in {0, th["app"].d},
             AppShare(r) = 0 - th["app"].i
      PROVE  IInv' /\ CountInv'
  <2>1. Takes("app", r, 1, ctx[1])
    <3>1. /\ r.c # 0 => r.c # r.d /\ r.c = th["app"].c /\ ctx[r.c] = "mine"
          /\ r.d # 0 => r.d = th["app"].d /\ ctx[r.d] = "mine"
      BY <1>0, <1>2, <1>6 DEF IInv, OwnInv
    <3> QED
      BY <1>3, <1>6, <3>1 DEF Takes
  <2>2. AppShare(th["app"]) = 0 - th["app"].i
    BY <1>0, <1>2 DEF AppShare
  <2>3. One(ctx[1] \in RecvStates) \in Int
    BY DEF One
  <2>4. One(ctx[1] \in RecvStates) - One(ctx[1] \in RecvStates)
          + AppShare(r) - AppShare(th["app"])
          = (extra' - extra) - (missed' - missed)
    BY <1>0, <1>1, <1>2, <1>6, <2>2, <2>3
  <2> QED
    BY <1>0, <1>2, <1>3, <1>4, <1>5, <2>1, <2>4, AppKept
<1>7. CASE th["app"].i < MaxPost
  <2> DEFINE r == [th["app"] EXCEPT !.pc = "issue", !.ret = "init",
                                    !.i = th["app"].i + 1]
  <2>1. Become("app", r)
    BY <1>7 DEF InitPost
  <2>2. /\ r \in ThreadState /\ r.pc = "issue" /\ r.ret = "init"
        /\ r.i = th["app"].i + 1 /\ r.c = th["app"].c /\ r.d = th["app"].d
    <3>1. "issue" \in Pcs /\ th["app"].i + 1 \in 0..MaxPost
      BY <1>0, <1>2, <1>7 DEF Pcs
    <3> QED
      BY <1>2, <3>1 DEF ThreadState
  <2> HIDE DEF r
  <2>3. PlaceOK("app", r)
    BY <1>0, <2>2 DEF PlaceOK, AppPcs
  <2>4. AppShare(r) = 0 - th["app"].i
    BY <1>2, <2>2 DEF AppShare
  <2> QED
    BY <1>6, <2>1, <2>2, <2>3, <2>4
<1>8. CASE ~(th["app"].i < MaxPost)
  <2>1. Become("app", Thread("ready"))
    BY <1>8 DEF InitPost
  <2>2. Thread("ready") \in ThreadState
    <3>1. "ready" \in Pcs
      BY DEF Pcs
    <3> QED
      BY <3>1, ThreadTypes
  <2>3. /\ Thread("ready").pc = "ready" /\ Thread("ready").c = 0
        /\ Thread("ready").d = 0
    BY DEF Thread
  <2>4. PlaceOK("app", Thread("ready"))
    BY <1>0, <2>3 DEF PlaceOK, AppPcs
  <2>5. AppShare(Thread("ready")) = 0 - th["app"].i
    BY <1>0, <1>2, <1>8, <2>3 DEF AppShare
  <2> QED
    BY <1>6, <2>1, <2>2, <2>3, <2>4, <2>5
<1> QED
  BY <1>7, <1>8

\* The places of the application's thread after InitServer.
LatePcs == {"ready", "up", "stop", "setEvents", "joinListener", "joinWorkers",
            "done"}

\* Once the server is initialised, the application's thread only moves the
\* control of the server.
LEMMA LateKept ==
  ASSUME IInv, CountInv, NEW l \in LatePcs,
         th["app"].pc \in LatePcs,
         Become("app", [th["app"] EXCEPT !.pc = l]),
         UNCHANGED <<pool, datagrams, history>>, receives' \in {receives, <<>>},
         m_bServerRunning' \in BOOLEAN, events' \in BOOLEAN, nulls' \in Nat,
         suspended' \in Nat, resumed' \in BOOLEAN, pauses' \in 0..MaxPauses,
         UNCHANGED listener,
         m_bServerRunning' => l \in {"up", "stop"},
         events' => l \in {"joinListener", "joinWorkers", "done"}
  PROVE  IInv' /\ CountInv'
<1>0. "app" \in Threads /\ "app" \notin Workers
  BY ConstantsAssumption DEF Threads
<1>1. UNCHANGED <<ctx, len, bytes, stack, created, extra, missed, failed, datagrams>>
  BY DEF pool, history
<1>2. th["app"] \in ThreadState /\ th \in [Threads -> ThreadState]
  BY <1>0, ThreadTypes DEF IInv
<1> DEFINE r == [th["app"] EXCEPT !.pc = l]
<1>3. r \in ThreadState /\ r.pc = l /\ r.c = th["app"].c /\ r.d = th["app"].d
  <2>1. l \in Pcs
    BY DEF LatePcs, Pcs
  <2> QED
    BY <1>2, <2>1 DEF ThreadState
<1>4. th' = [th EXCEPT !["app"] = r]
  BY DEF Become
<1> HIDE DEF r
<1>5. /\ th' \in [Threads -> ThreadState] /\ th'["app"] = r
      /\ \A u \in Threads \ {"app"} : th'[u] = th[u]
  BY <1>0, <1>2, <1>3, <1>4
<1>6. TypeOK'
  <2>0. receives \in Seq(Contexts) /\ <<>> \in Seq(Contexts)
    BY DEF IInv, TypeOK
  <2>1. receives' \in Seq(Contexts)
    BY <2>0
  <2> QED
    BY <1>1, <1>5, <2>1, TypeOKPrime DEF IInv, TypeOK
<1>7. PlaceInv'
  <2>1. PlaceOK("app", r)
    BY <1>0, <1>3 DEF PlaceOK, LatePcs, AppPcs
  <2> QED
    BY <1>0, <1>5, <2>1 DEF IInv, PlaceInv
<1>8. OwnInv'
  <2>1. \A u \in Threads : th'[u].c = th[u].c /\ th'[u].d = th[u].d
    BY <1>0, <1>3, <1>5
  <2> QED
    BY <1>1, <2>1 DEF IInv, OwnInv
<1>9. KernelInv' /\ PoolInv'
  <2>1. PoolInv'
    BY <1>1 DEF IInv, PoolInv
  <2>2. ReceivesInv'
    BY <1>1 DEF IInv, KernelInv, ReceivesInv
  <2> QED
    BY <1>1, <2>1, <2>2 DEF IInv, KernelInv
<1>10. ControlInv'
  BY <1>3, <1>5 DEF ControlInv
<1>11. CountInv'
  <2>1. Owing' = Owing
    BY <1>0, <1>5 DEF Owing, Threads
  <2>2. Receiving' = Receiving
    BY <1>1 DEF Receiving
  <2>3. AppOwes' = AppOwes /\ Due' = Due
    BY <1>3, <1>5 DEF AppOwes, Due, LatePcs
  <2> QED
    BY <1>1, <2>1, <2>2, <2>3 DEF CountInv
<1> QED
  BY <1>6, <1>7, <1>8, <1>9, <1>10, <1>11 DEF IInv

\* StartServer, PauseServer and StopServer.
LEMMA AppLateKept ==
  ASSUME IInv, CountInv,
         StartServer \/ PauseServer \/ StopServer \/ Stopping
  PROVE  IInv' /\ CountInv'
<1>0. /\ m_bServerRunning \in BOOLEAN /\ events \in BOOLEAN /\ nulls \in Nat
      /\ suspended \in Nat /\ resumed \in BOOLEAN /\ pauses \in 0..MaxPauses
      /\ Cardinality(Workers) \in Nat /\ MaxPauses \in Nat
      /\ th["app"] \in ThreadState /\ th \in [Threads -> ThreadState]
      /\ "app" \in Threads
  <2>1. Cardinality(Workers) \in Nat /\ MaxPauses \in Nat /\ "app" \in Threads
    BY ConstantsAssumption, FS_CardinalityType DEF Threads
  <2> QED
    BY <2>1, ThreadTypes DEF IInv, TypeOK
<1>1. CASE StartServer
  <2>1. /\ Become("app", [th["app"] EXCEPT !.pc = "up"])
        /\ th["app"].pc = "ready" /\ m_bServerRunning' = TRUE /\ resumed' = TRUE
        /\ suspended' \in Nat /\ UNCHANGED <<receives, events, nulls, listener, pauses>>
        /\ UNCHANGED <<pool, datagrams, history>>
    BY <1>0, <1>1 DEF StartServer, Resume, Goto
  <2>2. ~events
    BY <2>1 DEF IInv, ControlInv
  <2> QED
    BY <1>0, <2>1, <2>2, LateKept DEF LatePcs
<1>2. CASE PauseServer
  <2>1. /\ th["app"].pc = "ready" /\ th' = th /\ UNCHANGED <<m_bServerRunning, events>>
        /\ suspended' \in Nat /\ UNCHANGED <<receives, nulls, listener, resumed>>
        /\ pauses' \in 0..MaxPauses
        /\ UNCHANGED <<pool, datagrams, history>>
    BY <1>0, <1>2 DEF PauseServer
  <2>2. ~events /\ ~m_bServerRunning
    BY <2>1 DEF IInv, ControlInv
  <2>3. [th["app"] EXCEPT !.pc = "ready"] = th["app"]
    BY <1>0, <2>1 DEF ThreadState
  <2>4. Become("app", [th["app"] EXCEPT !.pc = "ready"])
    BY <1>0, <2>1, <2>3 DEF Become
  <2> QED
    BY <1>0, <2>1, <2>2, <2>4, LateKept DEF LatePcs
<1>3. CASE StopServer
  <2>1. /\ Become("app", [th["app"] EXCEPT !.pc = "stop"])
        /\ th["app"].pc \in {"ready", "up"}
        /\ m_bServerRunning' \in BOOLEAN /\ resumed' \in BOOLEAN
        /\ suspended' \in Nat /\ UNCHANGED <<receives, events, nulls, listener, pauses>>
        /\ UNCHANGED <<pool, datagrams, history>>
    <3>1. /\ th["app"].pc \in {"ready", "up"}
          /\ Become("app", [th["app"] EXCEPT !.pc = "stop"])
          /\ UNCHANGED <<receives, events, nulls, listener, pauses>>
          /\ UNCHANGED <<pool, datagrams, history>>
          /\ Resume \/ UNCHANGED <<m_bServerRunning, resumed, suspended>>
      BY <1>3 DEF StopServer, Goto
    <3>2. /\ m_bServerRunning' \in BOOLEAN /\ resumed' \in BOOLEAN
          /\ suspended' \in Nat
      <4>1. CASE Resume
        BY <1>0, <4>1 DEF Resume
      <4>2. CASE UNCHANGED <<m_bServerRunning, resumed, suspended>>
        BY <1>0, <4>2
      <4> QED
        BY <3>1, <4>1, <4>2
    <3> QED
      BY <3>1, <3>2
  <2>2. ~events
    BY <2>1 DEF IInv, ControlInv
  <2> QED
    BY <1>0, <2>1, <2>2, LateKept DEF LatePcs
<1>4. CASE StopRunning
  <2>1. /\ Become("app", [th["app"] EXCEPT !.pc = "setEvents"])
        /\ th["app"].pc = "stop" /\ m_bServerRunning' = FALSE /\ nulls' \in Nat
        /\ UNCHANGED <<receives, events, suspended, resumed, listener, pauses>>
        /\ UNCHANGED <<pool, datagrams, history>>
    BY <1>0, <1>4 DEF StopRunning, Goto
  <2>2. ~events
    BY <2>1 DEF IInv, ControlInv
  <2> QED
    BY <1>0, <2>1, <2>2, LateKept DEF LatePcs
<1>5. CASE StopSetEvents
  <2>1. /\ Become("app", [th["app"] EXCEPT !.pc = "joinListener"])
        /\ th["app"].pc = "setEvents" /\ events' = TRUE
        /\ UNCHANGED <<m_bServerRunning, receives, nulls, suspended, resumed,
                       listener, pauses>>
        /\ UNCHANGED <<pool, datagrams, history>>
    BY <1>5 DEF StopSetEvents, Goto
  <2>2. ~m_bServerRunning
    BY <2>1 DEF IInv, ControlInv
  <2> QED
    BY <1>0, <2>1, <2>2, LateKept DEF LatePcs
<1>6. CASE StopPostNulls
  <2>1. /\ Become("app", [th["app"] EXCEPT !.pc = "joinWorkers"])
        /\ th["app"].pc = "joinListener" /\ nulls' \in Nat
        /\ UNCHANGED <<m_bServerRunning, receives, events, suspended, resumed,
                       listener, pauses>>
        /\ UNCHANGED <<pool, datagrams, history>>
    BY <1>0, <1>6 DEF StopPostNulls, Goto
  <2>2. ~m_bServerRunning
    BY <2>1 DEF IInv, ControlInv
  <2> QED
    BY <1>0, <2>1, <2>2, LateKept DEF LatePcs
<1>7. CASE StopRelease
  <2>1. /\ Become("app", [th["app"] EXCEPT !.pc = "done"])
        /\ th["app"].pc = "joinWorkers" /\ receives' = <<>>
        /\ UNCHANGED <<m_bServerRunning, nulls, events, suspended, resumed,
                       listener, pauses>>
        /\ UNCHANGED <<pool, datagrams, history>>
    BY <1>7 DEF StopRelease, Goto, control
  <2>2. ~m_bServerRunning
    BY <2>1 DEF IInv, ControlInv
  <2> QED
    BY <1>0, <2>1, <2>2, LateKept DEF LatePcs
<1> QED
  BY <1>1, <1>2, <1>3, <1>4, <1>5, <1>6, <1>7 DEF Stopping

-----------------------------------------------------------------------------
(* The network, the kernel and the listening thread.                       *)

\* An operation completes: its context changes hands, but stays a receive or
\* stays none.
LEMMA CompletionKept ==
  ASSUME IInv, CountInv, NEW x \in Contexts, NEW v \in Packets,
         ctx' = [ctx EXCEPT ![x] = v], ctx[x] \in {"recv", "send"},
         (ctx[x] = "recv") <=> (v \in RecvStates),
         bytes' \in [Contexts -> 0..MaxLen], v = "data" => bytes'[x] > 0,
         \A y \in Contexts \ {x} : bytes'[y] = bytes[y],
         ReceivesInv', receives' \in Seq(Contexts), datagrams' \in 0..MaxDatagrams,
         failed' \in BOOLEAN,
         UNCHANGED <<len, stack, created, control, th, extra, missed>>
  PROVE  IInv' /\ CountInv'
<1>0. /\ ctx \in [Contexts -> CtxStates] /\ v \in CtxStates /\ v # "mine"
      /\ v \notin {"pool", "none"} /\ th \in [Threads -> ThreadState]
  BY ThreadTypes DEF IInv, TypeOK, CtxStates, Packets
<1>1. /\ ctx' \in [Contexts -> CtxStates] /\ ctx'[x] = v
      /\ \A y \in Contexts \ {x} : ctx'[y] = ctx[y]
  BY <1>0
<1>2. UNCHANGED <<m_bServerRunning, events, nulls, suspended, resumed, listener, pauses>>
  BY DEF control
<1>3. TypeOK'
  BY <1>0, <1>1, <1>2, TypeOKPrime DEF IInv, TypeOK, CtxStates
<1>4. PlaceInv' /\ ControlInv'
  BY <1>2 DEF IInv, PlaceInv, PlaceOK, ControlInv
<1>5. OwnInv'
  <2>1. \A t \in Threads : (th[t].c # 0 => th[t].c \in Contexts)
                          /\ (th[t].d # 0 => th[t].d \in Contexts)
    <3>1. \A q \in ThreadState : /\ q.c # 0 => q.c \in Contexts
                                 /\ q.d # 0 => q.d \in Contexts
      BY ConstantsAssumption DEF ThreadState, Contexts
    <3> QED
      BY <1>0, <3>1
  <2>2. \A t \in Threads : (th[t].c # 0 => ctx'[th[t].c] = "mine")
                          /\ (th[t].d # 0 => ctx'[th[t].d] = "mine")
    BY <1>1, <2>1 DEF IInv, OwnInv
  <2> QED
    BY <2>2 DEF IInv, OwnInv
<1>6. PoolInv'
  BY <1>0, <1>1 DEF IInv, PoolInv
<1>7. KernelInv'
  <2>1. \A y \in Contexts : ctx'[y] = "data" => bytes'[y] > 0
    BY <1>1 DEF IInv, KernelInv
  <2>2. \A y \in Contexts : ctx'[y] = "none" <=> y > created'
    BY <1>0, <1>1 DEF IInv, KernelInv
  <2> QED
    BY <2>1, <2>2 DEF KernelInv
<1>8. CountInv'
  <2>1. Owing' = Owing /\ AppOwes' = AppOwes /\ Due' = Due
    BY DEF Owing, AppOwes, Due
  <2>2. Receiving' = Receiving
    <3>1. (ctx[x] \in RecvStates) <=> (v \in RecvStates)
      BY DEF RecvStates
    <3> QED
      BY <1>1, <3>1 DEF Receiving, RecvStates
  <2> QED
    BY <2>1, <2>2 DEF CountInv
<1> QED
  BY <1>3, <1>4, <1>5, <1>6, <1>7, <1>8 DEF IInv

\* The oldest posted receive is taken out.
LEMMA TailFacts ==
  ASSUME IInv, receives # <<>>
  PROVE  /\ Head(receives) \in Contexts /\ ctx[Head(receives)] = "recv"
         /\ Tail(receives) \in Seq(Contexts)
         /\ \A v : /\ ctx' = [ctx EXCEPT ![Head(receives)] = v]
                  /\ receives' = Tail(receives)
                  => ReceivesInv'
<1>0. /\ receives \in Seq(Contexts) /\ ctx \in [Contexts -> CtxStates]
      /\ ReceivesInv
  BY DEF IInv, TypeOK, KernelInv, CtxStates
<1>1. /\ Len(receives) \in Nat \ {0} /\ DOMAIN receives = 1..Len(receives)
      /\ Head(receives) = receives[1] /\ 1 \in DOMAIN receives
      /\ Tail(receives) \in Seq(Contexts) /\ Len(Tail(receives)) = Len(receives) - 1
      /\ DOMAIN Tail(receives) = 1..(Len(receives) - 1)
      /\ \A j \in DOMAIN receives : receives[j] \in Contexts
  BY <1>0
<1>2. \A j \in DOMAIN Tail(receives) :
         Tail(receives)[j] = receives[j + 1] /\ j + 1 \in DOMAIN receives
         /\ j + 1 # 1 /\ j \in Nat
  BY <1>0, <1>1
<1>3. Head(receives) \in Contexts /\ ctx[Head(receives)] = "recv"
  BY <1>0, <1>1 DEF ReceivesInv
<1>4. ASSUME NEW v, ctx' = [ctx EXCEPT ![Head(receives)] = v],
             receives' = Tail(receives)
      PROVE  ReceivesInv'
  <2>1. \A j, k \in DOMAIN receives' : receives'[j] = receives'[k] => j = k
    <3> SUFFICES ASSUME NEW j \in DOMAIN receives', NEW k \in DOMAIN receives',
                        receives'[j] = receives'[k]
                 PROVE  j = k
      OBVIOUS
    <3>1. j + 1 = k + 1
      BY <1>0, <1>2, <1>4 DEF ReceivesInv
    <3> QED
      BY <1>2, <1>4, <3>1
  <2>2. ASSUME NEW j \in DOMAIN receives' PROVE ctx'[receives'[j]] = "recv"
    <3>1. receives'[j] = receives[j + 1] /\ j + 1 \in DOMAIN receives /\ j + 1 # 1
      BY <1>2, <1>4
    <3>2. receives[j + 1] # receives[1]
      BY <1>0, <1>1, <3>1 DEF ReceivesInv
    <3>3. ctx[receives[j + 1]] = "recv" /\ receives[j + 1] \in Contexts
      BY <1>0, <1>1, <3>1 DEF ReceivesInv
    <3> QED
      BY <1>0, <1>1, <1>4, <3>1, <3>2, <3>3
  <2> QED
    BY <2>1, <2>2 DEF ReceivesInv
<1> QED
  BY <1>1, <1>3, <1>4

\* A datagram, an error or the end of a send.
LEMMA NetworkKept ==
  ASSUME IInv, CountInv,
         DatagramArrives \/ ReceiveFails \/ \E c \in Contexts : SendCompletes(c)
  PROVE  IInv' /\ CountInv'
<1>0. /\ bytes \in [Contexts -> 0..MaxLen] /\ len \in [Contexts -> 1..MaxLen]
      /\ datagrams \in 0..MaxDatagrams /\ failed \in BOOLEAN /\ MaxLen \in Nat
      /\ MaxDatagrams \in Nat /\ ctx \in [Contexts -> CtxStates]
      /\ receives \in Seq(Contexts)
  BY ConstantsAssumption DEF IInv, TypeOK, CtxStates
<1>1. CASE DatagramArrives
  <2> DEFINE c == Head(receives)
  <2>1. /\ receives # <<>> /\ datagrams' = datagrams + 1 /\ datagrams < MaxDatagrams
        /\ receives' = Tail(receives)
        /\ UNCHANGED <<len, stack, created, control, th, extra, missed>>
        /\ UNCHANGED failed
    BY <1>1 DEF DatagramArrives
  <2>2. c \in Contexts /\ ctx[c] = "recv" /\ receives' \in Seq(Contexts)
    BY <2>1, TailFacts
  <2>3. PICK n \in 0..MaxLen :
          /\ bytes' = [bytes EXCEPT ![c] = IF n > len[c] THEN 0 ELSE n]
          /\ ctx' = [ctx EXCEPT ![c] = IF n > len[c] THEN "recvErr"
                                       ELSE IF n = 0 THEN "zero" ELSE "data"]
    BY <1>1 DEF DatagramArrives
  <2> DEFINE v == IF n > len[c] THEN "recvErr" ELSE IF n = 0 THEN "zero" ELSE "data"
  <2> DEFINE k == IF n > len[c] THEN 0 ELSE n
  <2>5. v = "data" => k > 0
    BY <1>0
  <2>6. k \in 0..MaxLen
    BY <1>0
  <2>7. v \in Packets /\ v \in RecvStates
    BY DEF Packets, RecvStates
  <2>8. bytes' = [bytes EXCEPT ![c] = k] /\ ctx' = [ctx EXCEPT ![c] = v]
    BY <2>3
  <2> HIDE DEF v, k
  <2>9. ReceivesInv'
    BY <2>1, <2>8, TailFacts
  <2>10. /\ bytes' \in [Contexts -> 0..MaxLen] /\ (v = "data" => bytes'[c] > 0)
         /\ \A y \in Contexts \ {c} : bytes'[y] = bytes[y]
    BY <1>0, <2>2, <2>5, <2>6, <2>8
  <2>11. datagrams' \in 0..MaxDatagrams /\ failed' \in BOOLEAN
    BY <1>0, <2>1
  <2> HIDE DEF c
  <2> QED
    BY <2>1, <2>2, <2>7, <2>8, <2>9, <2>10, <2>11, CompletionKept
<1>2. CASE ReceiveFails
  <2> DEFINE c == Head(receives)
  <2>1. /\ receives # <<>> /\ receives' = Tail(receives)
        /\ ctx' = [ctx EXCEPT ![c] = "recvErr"] /\ failed' = TRUE
        /\ UNCHANGED <<len, stack, created, control, th, extra, missed>>
        /\ UNCHANGED <<bytes, datagrams>>
    BY <1>2 DEF ReceiveFails
  <2>2. c \in Contexts /\ ctx[c] = "recv" /\ receives' \in Seq(Contexts)
    BY <2>1, TailFacts
  <2>3. ReceivesInv'
    BY <2>1, TailFacts
  <2>4. "recvErr" \in Packets /\ "recvErr" \in RecvStates
    BY DEF Packets, RecvStates
  <2> HIDE DEF c
  <2>5. failed' \in BOOLEAN
    BY <2>1
  <2> QED
    BY <1>0, <2>1, <2>2, <2>3, <2>4, <2>5, CompletionKept
<1>3. ASSUME NEW c \in Contexts, SendCompletes(c) PROVE IInv' /\ CountInv'
  <2>1. /\ ctx[c] = "send"
        /\ UNCHANGED <<len, stack, created, control, th, extra, missed>>
        /\ UNCHANGED <<bytes, datagrams, receives>>
    BY <1>3 DEF SendCompletes
  <2>2. PICK v \in {"sent", "sendErr"} :
          ctx' = [ctx EXCEPT ![c] = v] /\ failed' \in {failed, TRUE}
    BY <1>3 DEF SendCompletes
  <2>3. v \in Packets /\ v \notin RecvStates /\ v # "data" /\ v \in CtxStates
    BY DEF Packets, RecvStates, CtxStates
  <2>4. ReceivesInv'
    BY <2>1, <2>2, <2>3, ReceivesKept1
  <2>5. failed' \in BOOLEAN
    BY <1>0, <2>2
  <2> QED
    BY <1>0, <2>1, <2>2, <2>3, <2>4, <2>5, CompletionKept
<1> QED
  BY <1>1, <1>2, <1>3

\* ListenThread ends, or waits; it is never told to post.
LEMMA ListenKept ==
  ASSUME IInv, CountInv, ListenStep
  PROVE  IInv' /\ CountInv'
<1>0. /\ UNCHANGED <<ctx, len, bytes, stack, created, receives, m_bServerRunning, nulls>>
      /\ UNCHANGED <<suspended, resumed, pauses, th, datagrams, extra, missed, failed>>
  BY DEF ListenStep, pool, history
<1>1. events \in BOOLEAN /\ th \in [Threads -> ThreadState]
  BY ThreadTypes DEF IInv, TypeOK
<1>2. events => ~m_bServerRunning
  BY DEF IInv, ControlInv
<1>3. listener' \in {"start", "wait", "end"} /\ events' \in {events, FALSE}
  <2>1. CASE listener = "start" /\ UNCHANGED events
    BY <2>1 DEF ListenStep
  <2>2. CASE listener = "wait" /\ events /\ events' = FALSE
    <3>1. listener' = "end"
      BY <1>2, <2>2 DEF ListenStep
    <3> QED
      BY <2>2, <3>1
  <2> QED
    BY <2>1, <2>2 DEF ListenStep
<1>4. events' \in BOOLEAN /\ (events' => events)
  <2>1. CASE events' = events
    BY <1>1, <2>1
  <2>2. CASE events' = FALSE
    BY <2>2
  <2> QED
    BY <1>3, <2>1, <2>2
<1>5. TypeOK'
  BY <1>0, <1>1, <1>3, <1>4, TypeOKPrime DEF IInv, TypeOK
<1>6. PlaceInv' /\ OwnInv' /\ KernelInv' /\ PoolInv' /\ ControlInv'
  BY <1>0, <1>4
     DEF IInv, PlaceInv, PlaceOK, OwnInv, KernelInv, ReceivesInv, PoolInv, ControlInv
<1>7. CountInv'
  BY <1>0 DEF CountInv, Receiving, Owing, AppOwes, Due
<1> QED
  BY <1>5, <1>6, <1>7 DEF IInv

-----------------------------------------------------------------------------
(* The theorems.                                                           *)

\* Initially no receive is posted and none is due.
LEMMA InitCount == Init => CountInv
<1> SUFFICES ASSUME Init PROVE CountInv
  OBVIOUS
<1>0. "app" \in Threads /\ "app" \notin Workers
  BY ConstantsAssumption DEF Threads
<1>1. Receiving = {}
  BY DEF Init, Receiving
<1>2. \A w \in Workers : th[w] = Thread("get")
  BY <1>0 DEF Init, Threads
<1>3. Owing = {}
  BY <1>2 DEF Owing, Thread
<1>4. th["app"] = Thread("init") /\ extra = 0 /\ missed = 0
  BY <1>0 DEF Init
<1>5. AppOwes = 0 /\ Due = 0
  BY <1>4 DEF AppOwes, Due, Thread
<1> QED
  BY <1>1, <1>3, <1>4, <1>5, FS_EmptySet DEF CountInv

\* Every step keeps the inductive invariant.
LEMMA NextIInv == IInv /\ CountInv /\ [Next]_vars => IInv' /\ CountInv'
<1> SUFFICES ASSUME IInv, CountInv, [Next]_vars PROVE IInv' /\ CountInv'
  OBVIOUS
<1>1. CASE DatagramArrives \/ ReceiveFails \/ \E c \in Contexts : SendCompletes(c)
  BY <1>1, NetworkKept
<1>2. CASE ListenStep
  BY <1>2, ListenKept
<1>3. CASE App
  <2>1. "app" \in Threads
    BY DEF Threads
  <2> QED
    BY <1>3, <2>1, InitPostKept, IssueGetKept, IssueRecvKept, AppLateKept DEF App
<1>4. ASSUME NEW w \in Workers, Work(w) PROVE IInv' /\ CountInv'
  <2>1. w \in Threads
    BY DEF Threads
  <2> QED
    BY <1>4, <2>1, DequeueKept, QuietKept, ShortKept, EchoGetKept, EchoSendKept,
       IssueGetKept, IssueRecvKept DEF Work
<1>5. CASE UNCHANGED vars
  <2>1. /\ UNCHANGED <<ctx, len, bytes, stack, created, receives, m_bServerRunning, nulls>>
        /\ UNCHANGED <<suspended, resumed, pauses, th, datagrams, extra, missed, failed>>
        /\ UNCHANGED <<listener, events>>
    BY <1>5 DEF vars, pool, control, history
  <2>2. th \in [Threads -> ThreadState]
    BY ThreadTypes DEF IInv
  <2>3. TypeOK'
    BY <2>1, <2>2, TypeOKPrime DEF IInv, TypeOK
  <2>4. PlaceInv' /\ OwnInv' /\ KernelInv' /\ PoolInv' /\ ControlInv'
    BY <2>1
       DEF IInv, PlaceInv, PlaceOK, OwnInv, KernelInv, ReceivesInv, PoolInv, ControlInv
  <2>5. CountInv'
    BY <2>1 DEF CountInv, Receiving, Owing, AppOwes, Due
  <2> QED
    BY <2>3, <2>4, <2>5 DEF IInv
<1> QED
  BY <1>1, <1>2, <1>3, <1>4, <1>5 DEF Next

\* The inductive invariant holds in every state.
THEOREM Invariance == Spec => [](IInv /\ CountInv)
<1>1. Init => IInv /\ CountInv
  BY InitIInv, InitCount
<1> QED
  BY <1>1, NextIInv, PTL DEF Spec

\* Every variable stays in its range, for any number of workers, posted
\* receives and contexts; ListenThread never gets to post receives.
THEOREM TypeCorrect == Spec => []TypeOK
<1>1. IInv => TypeOK
  BY DEF IInv
<1> QED
  BY <1>1, Invariance, PTL

\* GetContext and ReleaseContext, called by all threads, keep the pool exact:
\* no context is on the stack twice, and none that is posted, completed, sent
\* or in the hands of a thread.
THEOREM PoolStaysExact == Spec => []PoolExact
<1>1. IInv => PoolExact
  <2> SUFFICES ASSUME IInv PROVE PoolExact
    OBVIOUS
  <2>1. \A j \in DOMAIN stack : stack[j] \in Contexts /\ ctx[stack[j]] = "pool"
    BY DEF IInv, TypeOK, PoolInv
  <2>2. \A c \in Contexts : ctx[c] = "pool" => \E j \in DOMAIN stack : stack[j] = c
    BY DEF IInv, PoolInv
  <2>3. {stack[j] : j \in DOMAIN stack} = {c \in Contexts : ctx[c] = "pool"}
    BY <2>1, <2>2
  <2> QED
    BY <2>3 DEF IInv, PoolInv, PoolExact
<1> QED
  BY <1>1, Invariance, PTL

\* The workers replace the receives they take: m_iMaxPostReceiveNumbs of them
\* stay posted, completed or owed, plus one for each send that failed and less
\* one for each receive that could not be posted.
THEOREM ReceivesStayPosted == Spec => []ReceivesKept
<1>1. IInv /\ CountInv => ReceivesKept
  <2> SUFFICES ASSUME IInv, CountInv, th["app"].pc \notin {"init", "issue", "recvFrom"}
               PROVE  Cardinality(Receiving) + Cardinality(Owing)
                        = MaxPost + extra - missed
    BY DEF ReceivesKept
  <2>1. AppOwes = 0 /\ Due = MaxPost
    BY DEF AppOwes, Due
  <2>2. Cardinality(Receiving) \in Nat /\ Cardinality(Owing) \in Nat
    <3>1. Receiving \in SUBSET Contexts /\ Owing \in SUBSET Workers
      BY DEF Receiving, Owing
    <3>2. IsFiniteSet(Contexts) /\ IsFiniteSet(Workers)
      BY ConstantsAssumption, FS_Interval DEF Contexts
    <3> QED
      BY <3>1, <3>2, FS_Subset, FS_CardinalityType
  <2> QED
    BY <2>1, <2>2 DEF CountInv
<1> QED
  BY <1>1, Invariance, PTL
=============================================================================
