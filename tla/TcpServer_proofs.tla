-------------------------- MODULE TcpServer_proofs --------------------------
(***************************************************************************)
(* CTcpServer, for any number of workers, sockets and contexts: no handle  *)
(* is closed twice, a context is never in its pool while somebody uses it, *)
(* and StopServer waits for no thread that nothing will wake.              *)
(*                                                                         *)
(* A context has one owner: its pool, the kernel, the port or the worker   *)
(* that handles it (OwnInv).  A handle that is open is accounted for once: *)
(* by a posted accept, by a completed one, by the map, or by the worker    *)
(* that closes it (HandleInv); its moves between these need OwnInv, because*)
(* the code knows the handle of an accept by its context only.  Once       *)
(* StopServer has posted its packets, they are at least as many as the     *)
(* workers that have not ended (StopInv).                                  *)
(***************************************************************************)
EXTENDS TcpServer, FiniteSetTheorems, SequenceTheorems, TLAPS

\* The types of the fields, by name.
IdlePcs == {"suspended", "start", "end", "get"}
BusyPcs == {"find", "closesocket", "release", "releaseFirst", "push", "setup",
            "stamp", "save", "send", "resend", "receive", "accept"}
WorkerState ==
  [pc : {"suspended", "start", "end", "get", "find", "closesocket", "release",
         "releaseFirst", "push", "setup", "stamp", "save", "send", "resend",
         "receive", "accept"},
   c : Contexts \cup {NULL}, s : Sockets \cup {NULL}, live : BOOLEAN,
   x : Sockets \cup {NULL}, ret : {"get", "release"}]
ContextState == [sock : Sockets \cup {NULL}, live : BOOLEAN]
Packet == [c : Contexts \cup {NULL}, res : {"done", "zero", "error"}]

\* What the place of a worker says of its other locals.
WorkerOK(r) ==
  /\ r.pc \in IdlePcs => r.c = NULL /\ r.ret = "release"
  /\ r.pc \in BusyPcs => r.c \in Contexts
  /\ r.ret = "get" => r.pc \in {"find", "closesocket"}
  /\ r.pc \in {"push", "setup", "accept"} => r.c \in AcceptContexts
  /\ r.pc = "closesocket" => r.x \in Sockets

\* The workers are suspended until StartServer, and have ended when
\* ReleaseResource is called.  Each PauseServer suspends ListenThread.
ShapeInv ==
  /\ \A w \in Workers : WorkerOK(wk[w])
  /\ app.pc \in {"init", "ready"} => \A w \in Workers : wk[w].pc = "suspended"
  /\ Released => \A w \in Workers : wk[w].pc = "end"
  /\ suspended = pauses + (IF app.pc \in {"init", "ready"} THEN 1 ELSE 0)

\* Every context has at most one owner: its pool, the kernel, the completion
\* port or a worker.
PoolInv ==
  \A k \in Kinds :
    /\ \A i \in DOMAIN pool[k] :
         /\ Kind(pool[k][i]) = k
         /\ pool[k][i] \notin posted
         /\ \A j \in DOMAIN queue : queue[j].c # pool[k][i]
         /\ \A w \in Workers : Holds(w) => wk[w].c # pool[k][i]
    /\ \A i, j \in DOMAIN pool[k] : pool[k][i] = pool[k][j] => i = j
PortInv ==
  \A j \in DOMAIN queue : queue[j].c # NULL =>
    /\ queue[j].c \notin posted
    /\ \A i \in DOMAIN queue : queue[i].c = queue[j].c => i = j
    /\ \A w \in Workers : Holds(w) => wk[w].c # queue[j].c
HoldInv ==
  \A w \in Workers : Holds(w) /\ wk[w].c # NULL =>
    /\ wk[w].c \notin posted
    /\ \A v \in Workers \ {w} : Holds(v) => wk[v].c # wk[w].c
OwnInv == PoolInv /\ PortInv /\ HoldInv

\* An accept in the kernel; one that has completed and is not yet listed; a
\* worker about to close a handle.
Accepting(c) == c \in AcceptContexts /\ c \in posted
Fresh(c) ==
  /\ c \in AcceptContexts
  /\ \/ \E j \in DOMAIN queue : queue[j].c = c /\ queue[j].res = "done"
     \/ \E w \in Workers : At(w, "push") /\ wk[w].c = c
Closer(w, s) == At(w, "closesocket") /\ wk[w].x = s

\* Every open handle is accounted for once: by an accept in the kernel, by one
\* to be listed, by the map, or by the worker that closes it.
HandleInv ==
  /\ \A s \in m_mapAcceptSockQueue : sock[s] = "connected"
  /\ \A c \in Contexts : Accepting(c) =>
       /\ ctx[c].sock \in Sockets /\ sock[ctx[c].sock] = "accepting"
       /\ \A d \in Contexts : Accepting(d) /\ ctx[d].sock = ctx[c].sock => d = c
  /\ \A c \in Contexts : Fresh(c) =>
       /\ ctx[c].sock \in Sockets /\ sock[ctx[c].sock] = "connected"
       /\ ctx[c].sock \notin m_mapAcceptSockQueue
       /\ \A w \in Workers : ~Closer(w, ctx[c].sock)
       /\ \A d \in Contexts : Fresh(d) /\ ctx[d].sock = ctx[c].sock => d = c
  /\ \A w \in Workers : At(w, "closesocket") =>
       /\ sock[wk[w].x] = "connected" /\ wk[w].x \notin m_mapAcceptSockQueue
       /\ \A v \in Workers \ {w} : ~Closer(v, wk[w].x)

\* The workers StopServer waits for, and the packets it has posted for them.
Ending == {w \in Workers : ~At(w, "end")}
Nulls == {j \in DOMAIN queue : queue[j].c = NULL}
StopInv == app.pc = "joinWorkers" => Cardinality(Ending) <= Cardinality(Nulls)

\* The inductive invariant.
IInv ==
  /\ TypeOK /\ ShapeInv /\ OwnInv
  /\ ~Released => HandleInv
  /\ StopInv

-----------------------------------------------------------------------------
(* How a step moves the workers.  The fields "live" and "s" are history and *)
(* no part of the invariant reads them.                                     *)

Same(v) ==
  /\ wk'[v].pc = wk[v].pc /\ wk'[v].c = wk[v].c
  /\ wk'[v].x = wk[v].x /\ wk'[v].ret = wk[v].ret
Stays == wk' \in [Workers -> WorkerState] /\ \A v \in Workers : Same(v)
Moves(w, l, c, x, ret) ==
  /\ wk' \in [Workers -> WorkerState]
  /\ wk'[w].pc = l /\ wk'[w].c = c /\ wk'[w].x = x /\ wk'[w].ret = ret
  /\ \A v \in Workers \ {w} : Same(v)

\* A worker that holds a context after the step held it before.
HoldsKept(w) ==
  Holds(w)' /\ wk'[w].c # NULL => Holds(w) /\ wk'[w].c = wk[w].c

\* The assumptions on the constants, one at a time.
LEMMA Constants ==
  /\ NULL \notin Sockets /\ NULL \notin Contexts
  /\ MaxPostAccepts \in Nat /\ MaxClients \in Nat /\ MaxPauses \in Nat
  /\ IsFiniteSet(Workers)
  /\ IsFiniteSet(AcceptContexts) /\ IsFiniteSet(ReceiveContexts)
  /\ IsFiniteSet(SendContexts)
<1>1. IsFiniteSet(Contexts)
  BY ConstantsAssumption
<1>2. AcceptContexts \subseteq Contexts /\ ReceiveContexts \subseteq Contexts
      /\ SendContexts \subseteq Contexts
  BY DEF Contexts
<1>3. IsFiniteSet(AcceptContexts) /\ IsFiniteSet(ReceiveContexts)
      /\ IsFiniteSet(SendContexts)
  BY <1>1, <1>2, FS_Subset
<1> QED
  BY <1>3, ConstantsAssumption

\* Every context has one kind.
LEMMA KindOf ==
  ASSUME NEW c \in Contexts
  PROVE  /\ Kind(c) \in Kinds
         /\ Kind(c) = "accept" <=> c \in AcceptContexts
         /\ Kind(c) = "receive" <=> c \in ReceiveContexts
         /\ Kind(c) = "send" <=> c \in SendContexts
BY ConstantsAssumption DEF Kind, Kinds, Contexts

\* The stack without its top.
LEMMA FrontLast ==
  ASSUME NEW S, NEW q \in Seq(S), q # <<>>
  PROVE  /\ Front(q) \in Seq(S) /\ Len(Front(q)) = Len(q) - 1
         /\ DOMAIN Front(q) = 1..(Len(q) - 1)
         /\ \A i \in 1..(Len(q) - 1) : Front(q)[i] = q[i]
         /\ Last(q) = q[Len(q)] /\ Last(q) \in S
         /\ Len(q) \in Nat /\ Len(q) > 0 /\ DOMAIN q = 1..Len(q)
BY DEF Front, Last

\* The queue without its head.
LEMMA TailFacts ==
  ASSUME NEW S, NEW q \in Seq(S), q # <<>>
  PROVE  /\ Tail(q) \in Seq(S) /\ Len(Tail(q)) = Len(q) - 1
         /\ DOMAIN Tail(q) = 1..(Len(q) - 1)
         /\ \A i \in 1..(Len(q) - 1) : Tail(q)[i] = q[i + 1]
         /\ Head(q) = q[1] /\ Head(q) \in S
         /\ Len(q) \in Nat /\ Len(q) > 0 /\ DOMAIN q = 1..Len(q)
OBVIOUS

\* A sequence with one more element.
LEMMA AppendFacts ==
  ASSUME NEW S, NEW q \in Seq(S), NEW e \in S
  PROVE  /\ Append(q, e) \in Seq(S)
         /\ DOMAIN Append(q, e) = 1..(Len(q) + 1)
         /\ \A i \in 1..Len(q) : Append(q, e)[i] = q[i]
         /\ Append(q, e)[Len(q) + 1] = e
         /\ Len(q) \in Nat /\ DOMAIN q = 1..Len(q)
OBVIOUS

\* TypeOK with the names of the types.
LEMMA Types ==
  TypeOK <=>
  /\ sock \in [Sockets -> {"closed", "accepting", "connected"}]
  /\ idle \in [Sockets -> {"none", "recent", "old"}]
  /\ m_mapAcceptSockQueue \subseteq Sockets
  /\ ctx \in [Contexts -> ContextState]
  /\ posted \subseteq Contexts
  /\ queue \in Seq(Packet)
  /\ DOMAIN pool = Kinds /\ \A k \in Kinds : pool[k] \in Seq(Contexts)
  /\ wk \in [Workers -> WorkerState]
  /\ semaphore \in 0..MaxPostAccepts /\ batch \in 0..MaxPostAccepts
  /\ app \in [pc : {"init", "ready", "run", "file", "joinListener",
                    "joinWorkers", "walk", "next", "kill", "done",
                    "undefined"},
              s : Sockets \cup {NULL}, left : SUBSET Sockets]
  /\ listener \in {"wait", "end"} /\ suspended \in 0..(MaxPauses + 1)
  /\ pauses \in 0..MaxPauses
  /\ clients \in 0..MaxClients /\ wronged \in BOOLEAN
BY DEF TypeOK, ContextState, Packet, WorkerState

-----------------------------------------------------------------------------
(* Ownership of the contexts, one lemma for each way it changes hands.      *)

\* Workers that move keep no context they did not have.
LEMMA OwnKeep ==
  ASSUME TypeOK, OwnInv, pool' = pool, posted' = posted, queue' = queue,
         \A w \in Workers : HoldsKept(w)
  PROVE  OwnInv'
<1>0. NULL \notin Contexts
  BY Constants
<1>1. PoolInv'
  <2>1. \A k \in Kinds : \A i \in DOMAIN pool[k] : pool[k][i] # NULL
    BY <1>0, ElementOfSeq DEF TypeOK
  <2> QED
    BY <2>1 DEF OwnInv, PoolInv, HoldsKept
<1>2. PortInv'
  BY DEF OwnInv, PortInv, HoldsKept
<1>3. HoldInv'
  BY DEF OwnInv, HoldInv, HoldsKept
<1> QED
  BY <1>1, <1>2, <1>3 DEF OwnInv

\* GetContext pops a context and the call posts it.
LEMMA OwnIssue ==
  ASSUME TypeOK, OwnInv, NEW k \in Kinds, pool[k] # <<>>,
         pool' = [pool EXCEPT ![k] = Front(@)],
         posted' = posted \cup {Last(pool[k])}, queue' = queue,
         \A w \in Workers : HoldsKept(w)
  PROVE  /\ OwnInv'
         /\ DOMAIN pool' = Kinds /\ \A h \in Kinds : pool'[h] \in Seq(Contexts)
         /\ Last(pool[k]) \in Contexts /\ Kind(Last(pool[k])) = k
         /\ Last(pool[k]) \notin posted
         /\ \A j \in DOMAIN queue : queue[j].c # Last(pool[k])
         /\ \A w \in Workers : Holds(w) => wk[w].c # Last(pool[k])
<1>0. NULL \notin Contexts
  BY Constants
<1> DEFINE q == pool[k]
           z == Last(q)
<1>a. q \in Seq(Contexts) /\ DOMAIN pool = Kinds
      /\ \A h \in Kinds : pool[h] \in Seq(Contexts)
  BY DEF TypeOK
<1>b. /\ Front(q) \in Seq(Contexts) /\ DOMAIN Front(q) = 1..(Len(q) - 1)
      /\ \A i \in 1..(Len(q) - 1) : Front(q)[i] = q[i]
      /\ z = q[Len(q)] /\ z \in Contexts
      /\ Len(q) \in Nat /\ Len(q) > 0 /\ DOMAIN q = 1..Len(q)
  BY <1>a, FrontLast
<1>c. /\ DOMAIN pool' = Kinds /\ pool'[k] = Front(q)
      /\ \A h \in Kinds \ {k} : pool'[h] = pool[h]
  BY <1>a
<1>d. Len(q) \in DOMAIN q
  BY <1>b
<1>e. /\ Kind(z) = k /\ z \notin posted
      /\ \A j \in DOMAIN queue : queue[j].c # z
      /\ \A w \in Workers : Holds(w) => wk[w].c # z
  BY <1>b, <1>d DEF OwnInv, PoolInv
<1> HIDE DEF z, q
<1>f. \A h \in Kinds : \A i \in DOMAIN pool'[h] :
        i \in DOMAIN pool[h] /\ pool'[h][i] = pool[h][i] /\ pool'[h][i] # z
  <2> SUFFICES ASSUME NEW h \in Kinds, NEW i \in DOMAIN pool'[h]
               PROVE  i \in DOMAIN pool[h] /\ pool'[h][i] = pool[h][i]
                      /\ pool'[h][i] # z
    OBVIOUS
  <2>1. CASE h = k
    <3>1. i \in 1..(Len(q) - 1) /\ pool[h] = q
      BY <2>1, <1>b, <1>c DEF q
    <3>2. i \in DOMAIN q /\ i # Len(q) /\ pool'[h][i] = q[i]
      BY <2>1, <3>1, <1>b, <1>c
    <3>3. \A m, n \in DOMAIN pool[k] : pool[k][m] = pool[k][n] => m = n
      BY DEF OwnInv, PoolInv
    <3> QED
      BY <3>1, <3>2, <3>3, <1>d, <1>b DEF q
  <2>2. CASE h # k
    <3>1. i \in DOMAIN pool[h] /\ pool'[h][i] = pool[h][i]
      BY <2>2, <1>c
    <3>2. Kind(pool[h][i]) = h
      BY <3>1 DEF OwnInv, PoolInv
    <3> QED
      BY <3>1, <3>2, <2>2, <1>e
  <2> QED
    BY <2>1, <2>2
<1>g. \A h \in Kinds : \A i \in DOMAIN pool[h] : pool[h][i] # NULL
  BY <1>0, <1>a, ElementOfSeq
<1>h. posted' = posted \cup {z}
  BY DEF z, q
<1>1. PoolInv'
  BY <1>f, <1>g, <1>h DEF OwnInv, PoolInv, HoldsKept
<1>2. PortInv'
  BY <1>e, <1>h DEF OwnInv, PortInv, HoldsKept
<1>3. HoldInv'
  BY <1>e, <1>h DEF OwnInv, HoldInv, HoldsKept
<1>4. \A h \in Kinds : pool'[h] \in Seq(Contexts)
  BY <1>a, <1>b, <1>c
<1> QED
  BY <1>1, <1>2, <1>3, <1>4, <1>e, <1>c, <1>b DEF OwnInv, z, q

\* ReleaseContext pushes the context that the worker held.
LEMMA OwnRelease ==
  ASSUME TypeOK, OwnInv, NEW w \in Workers, Holds(w), NEW z \in Contexts,
         z = wk[w].c,
         pool' = [pool EXCEPT ![Kind(z)] = Append(@, z)],
         posted' = posted, queue' = queue,
         \A v \in Workers \ {w} : HoldsKept(v),
         Holds(w)' => wk'[w].c = NULL
  PROVE  /\ OwnInv'
         /\ DOMAIN pool' = Kinds /\ \A h \in Kinds : pool'[h] \in Seq(Contexts)
<1>0. NULL \notin Contexts
  BY Constants
<1> DEFINE k == Kind(z)
           q == pool[k]
<1>k. k \in Kinds
  BY KindOf
<1>a. q \in Seq(Contexts) /\ DOMAIN pool = Kinds
      /\ \A h \in Kinds : pool[h] \in Seq(Contexts)
  BY <1>k DEF TypeOK
<1>b. /\ Append(q, z) \in Seq(Contexts)
      /\ DOMAIN Append(q, z) = 1..(Len(q) + 1)
      /\ \A i \in 1..Len(q) : Append(q, z)[i] = q[i]
      /\ Append(q, z)[Len(q) + 1] = z
      /\ Len(q) \in Nat /\ DOMAIN q = 1..Len(q)
  BY <1>a, AppendFacts
<1>c. /\ DOMAIN pool' = Kinds /\ pool'[k] = Append(q, z)
      /\ \A h \in Kinds \ {k} : pool'[h] = pool[h]
  BY <1>a, <1>k
<1>e. /\ z \notin posted /\ z # NULL
      /\ \A j \in DOMAIN queue : queue[j].c # z
      /\ \A v \in Workers \ {w} : Holds(v) => wk[v].c # z
      /\ \A h \in Kinds : \A i \in DOMAIN pool[h] : pool[h][i] # z
  BY <1>0 DEF OwnInv, PoolInv, PortInv, HoldInv
<1> HIDE DEF q
<1>f. \A h \in Kinds : \A i \in DOMAIN pool'[h] :
        \/ i \in DOMAIN pool[h] /\ pool'[h][i] = pool[h][i]
        \/ h = k /\ i = Len(q) + 1 /\ pool'[h][i] = z
  <2> SUFFICES ASSUME NEW h \in Kinds, NEW i \in DOMAIN pool'[h]
               PROVE  \/ i \in DOMAIN pool[h] /\ pool'[h][i] = pool[h][i]
                      \/ h = k /\ i = Len(q) + 1 /\ pool'[h][i] = z
    OBVIOUS
  <2>1. CASE h = k
    <3>1. i \in 1..(Len(q) + 1) /\ pool[h] = q
      BY <2>1, <1>b, <1>c DEF q
    <3> QED
      BY <2>1, <3>1, <1>b, <1>c
  <2>2. CASE h # k
    BY <2>2, <1>c
  <2> QED
    BY <2>1, <2>2
<1> HIDE DEF k
<1>g. \A h \in Kinds : \A i \in DOMAIN pool[h] : pool[h][i] # NULL
  BY <1>0, <1>a, ElementOfSeq
<1>n. \A v \in Workers : Holds(v)' /\ wk'[v].c # NULL =>
        v # w /\ Holds(v) /\ wk'[v].c = wk[v].c /\ wk'[v].c # z
  BY <1>e DEF HoldsKept
<1>1. PoolInv'
  <2> SUFFICES ASSUME NEW h \in Kinds, NEW i \in DOMAIN pool'[h]
               PROVE  /\ Kind(pool'[h][i]) = h
                      /\ pool'[h][i] \notin posted
                      /\ \A j \in DOMAIN queue : queue[j].c # pool'[h][i]
                      /\ \A v \in Workers : Holds(v)' => wk'[v].c # pool'[h][i]
                      /\ \A j \in DOMAIN pool'[h] :
                           pool'[h][i] = pool'[h][j] => i = j
    BY DEF PoolInv
  <2>1. CASE i \in DOMAIN pool[h] /\ pool'[h][i] = pool[h][i]
    <3>1. /\ Kind(pool'[h][i]) = h /\ pool'[h][i] \notin posted
          /\ pool'[h][i] # NULL /\ pool'[h][i] # z
          /\ \A j \in DOMAIN queue : queue[j].c # pool'[h][i]
      BY <2>1, <1>e, <1>g DEF OwnInv, PoolInv
    <3>2. \A v \in Workers : Holds(v)' => wk'[v].c # pool'[h][i]
      BY <2>1, <3>1, <1>n DEF OwnInv, PoolInv
    <3>3. \A j \in DOMAIN pool'[h] : pool'[h][i] = pool'[h][j] => i = j
      BY SMTT(30), <2>1, <3>1, <1>f DEF OwnInv, PoolInv
    <3> QED
      BY <3>1, <3>2, <3>3
  <2>2. CASE h = k /\ i = Len(q) + 1 /\ pool'[h][i] = z
    <3>1. Kind(z) = h
      BY <2>2 DEF k
    <3>2. \A v \in Workers : Holds(v)' => wk'[v].c # z
      BY <1>n, <1>e
    <3>3. ASSUME NEW j \in DOMAIN pool'[h], z = pool'[h][j]
          PROVE  i = j
      <4>1. ~(j \in DOMAIN pool[h] /\ pool'[h][j] = pool[h][j])
        BY <3>3, <1>e
      <4>2. j = Len(q) + 1
        BY <4>1, <1>f
      <4> QED
        BY <4>2, <2>2
    <3> QED
      BY <2>2, <3>1, <3>2, <3>3, <1>e
  <2> QED
    BY <2>1, <2>2, <1>f
<1>2. PortInv'
  BY <1>n DEF OwnInv, PortInv
<1>3. HoldInv'
  BY <1>n DEF OwnInv, HoldInv
<1>4. \A h \in Kinds : pool'[h] \in Seq(Contexts)
  BY <1>a, <1>b, <1>c
<1> QED
  BY <1>1, <1>2, <1>3, <1>4, <1>c DEF OwnInv

\* A worker takes a completed operation from the port.
LEMMA OwnDequeue ==
  ASSUME TypeOK, OwnInv, NEW w \in Workers, queue # <<>>,
         NEW z \in Contexts, z = Head(queue).c, queue' = Tail(queue),
         pool' = pool, posted' = posted,
         \A v \in Workers \ {w} : HoldsKept(v), wk'[w].c = z
  PROVE  OwnInv'
<1>0. NULL \notin Contexts
  BY Constants
<1>a. queue \in Seq(Packet)
  BY Types
<1>b. /\ DOMAIN queue' = 1..(Len(queue) - 1)
      /\ \A i \in 1..(Len(queue) - 1) : queue'[i] = queue[i + 1]
      /\ Head(queue) = queue[1] /\ Len(queue) \in Nat /\ Len(queue) > 0
      /\ DOMAIN queue = 1..Len(queue)
  BY <1>a, TailFacts
<1>c. 1 \in DOMAIN queue /\ queue[1].c = z /\ z # NULL
  BY <1>b, <1>0
<1>d. \A i \in DOMAIN queue' :
        i + 1 \in DOMAIN queue /\ queue'[i] = queue[i + 1] /\ i + 1 # 1
  BY <1>b
<1>e. /\ z \notin posted
      /\ \A i \in DOMAIN queue : queue[i].c = z => i = 1
      /\ \A v \in Workers : Holds(v) => wk[v].c # z
      /\ \A h \in Kinds : \A i \in DOMAIN pool[h] : pool[h][i] # z
  <2>1. \A h \in Kinds : \A i \in DOMAIN pool[h] : pool[h][i] # z
    BY <1>c DEF OwnInv, PoolInv
  <2>2. z \notin posted /\ \A v \in Workers : Holds(v) => wk[v].c # z
    BY <1>c DEF OwnInv, PortInv
  <2>3. ASSUME NEW i \in DOMAIN queue, queue[i].c = z
        PROVE  i = 1
    BY <2>3, <1>c DEF OwnInv, PortInv
  <2> QED
    BY <2>1, <2>2, <2>3
<1>n. \A v \in Workers : Holds(v)' /\ wk'[v].c # NULL =>
        \/ v = w /\ wk'[v].c = z
        \/ v # w /\ Holds(v) /\ wk'[v].c = wk[v].c /\ wk'[v].c # z
  BY <1>e DEF HoldsKept
<1>g. \A h \in Kinds : \A i \in DOMAIN pool[h] : pool[h][i] # NULL
  BY <1>0, ElementOfSeq DEF TypeOK
<1>1. PoolInv'
  <2> SUFFICES ASSUME NEW h \in Kinds, NEW i \in DOMAIN pool[h]
               PROVE  /\ Kind(pool[h][i]) = h
                      /\ pool[h][i] \notin posted
                      /\ \A j \in DOMAIN queue' : queue'[j].c # pool[h][i]
                      /\ \A v \in Workers : Holds(v)' => wk'[v].c # pool[h][i]
                      /\ \A j \in DOMAIN pool[h] :
                           pool[h][i] = pool[h][j] => i = j
    BY DEF PoolInv
  <2>1. /\ Kind(pool[h][i]) = h
        /\ pool[h][i] \notin posted
        /\ \A j \in DOMAIN queue : queue[j].c # pool[h][i]
        /\ \A v \in Workers : Holds(v) => wk[v].c # pool[h][i]
        /\ \A j \in DOMAIN pool[h] : pool[h][i] = pool[h][j] => i = j
    BY DEF OwnInv, PoolInv
  <2>2. \A j \in DOMAIN queue' : queue'[j].c # pool[h][i]
    BY <2>1, <1>d
  <2>3. \A v \in Workers : Holds(v)' => wk'[v].c # pool[h][i]
    BY <2>1, <1>n, <1>e, <1>g
  <2> QED
    BY <2>1, <2>2, <2>3
<1>2. PortInv'
  <2> SUFFICES ASSUME NEW j \in DOMAIN queue', queue'[j].c # NULL
               PROVE  /\ queue'[j].c \notin posted
                      /\ \A i \in DOMAIN queue' :
                           queue'[i].c = queue'[j].c => i = j
                      /\ \A v \in Workers : Holds(v)' => wk'[v].c # queue'[j].c
    BY DEF PortInv
  <2>1. j + 1 \in DOMAIN queue /\ queue'[j] = queue[j + 1] /\ queue'[j].c # z
    BY <1>d, <1>e
  <2>2. /\ queue[j + 1].c \notin posted
        /\ \A i \in DOMAIN queue : queue[i].c = queue[j + 1].c => i = j + 1
        /\ \A v \in Workers : Holds(v) => wk[v].c # queue[j + 1].c
    BY <2>1 DEF OwnInv, PortInv
  <2>3. \A i \in DOMAIN queue' : queue'[i].c = queue'[j].c => i = j
    BY <2>1, <2>2, <1>d, <1>b
  <2>4. \A v \in Workers : Holds(v)' => wk'[v].c # queue'[j].c
    BY <2>1, <2>2, <1>n
  <2> QED
    BY <2>1, <2>2, <2>3, <2>4
<1>3. HoldInv'
  BY <1>n, <1>e DEF OwnInv, HoldInv
<1> QED
  BY <1>1, <1>2, <1>3 DEF OwnInv

\* A worker takes a packet of StopServer from the port.
LEMMA OwnNull ==
  ASSUME TypeOK, OwnInv, queue # <<>>, queue' = Tail(queue), pool' = pool,
         posted' = posted, \A v \in Workers : HoldsKept(v)
  PROVE  OwnInv'
<1>0. NULL \notin Contexts
  BY Constants
<1>a. queue \in Seq(Packet)
  BY Types
<1>b. /\ DOMAIN queue' = 1..(Len(queue) - 1)
      /\ \A i \in 1..(Len(queue) - 1) : queue'[i] = queue[i + 1]
      /\ Len(queue) \in Nat /\ DOMAIN queue = 1..Len(queue)
  BY <1>a, TailFacts
<1>d. \A i \in DOMAIN queue' :
        i + 1 \in DOMAIN queue /\ queue'[i] = queue[i + 1] /\ i \in Int
  BY <1>b
<1>g. \A h \in Kinds : \A i \in DOMAIN pool[h] : pool[h][i] # NULL
  BY <1>0, ElementOfSeq DEF TypeOK
<1>1. PoolInv'
  BY <1>d, <1>g DEF OwnInv, PoolInv, HoldsKept
<1>2. PortInv'
  <2> SUFFICES ASSUME NEW j \in DOMAIN queue', queue'[j].c # NULL
               PROVE  /\ queue'[j].c \notin posted
                      /\ \A i \in DOMAIN queue' :
                           queue'[i].c = queue'[j].c => i = j
                      /\ \A v \in Workers : Holds(v)' => wk'[v].c # queue'[j].c
    BY DEF PortInv
  <2>1. j + 1 \in DOMAIN queue /\ queue'[j] = queue[j + 1]
    BY <1>d
  <2>2. /\ queue[j + 1].c \notin posted
        /\ \A i \in DOMAIN queue : queue[i].c = queue[j + 1].c => i = j + 1
        /\ \A v \in Workers : Holds(v) => wk[v].c # queue[j + 1].c
    BY <2>1 DEF OwnInv, PortInv
  <2>3. \A i \in DOMAIN queue' : queue'[i].c = queue'[j].c => i = j
    BY <2>1, <2>2, <1>d
  <2>4. \A v \in Workers : Holds(v)' => wk'[v].c # queue'[j].c
    BY <2>1, <2>2 DEF HoldsKept
  <2> QED
    BY <2>1, <2>2, <2>3, <2>4
<1>3. HoldInv'
  BY DEF OwnInv, HoldInv, HoldsKept
<1> QED
  BY <1>1, <1>2, <1>3 DEF OwnInv

\* The kernel completes a posted operation.
LEMMA OwnComplete ==
  ASSUME TypeOK, OwnInv, NEW z \in Contexts, z \in posted,
         NEW res \in {"done", "zero", "error"}, posted' = posted \ {z},
         queue' = Append(queue, [c |-> z, res |-> res]), pool' = pool,
         \A v \in Workers : HoldsKept(v)
  PROVE  /\ OwnInv' /\ queue' \in Seq(Packet)
         /\ \A j \in DOMAIN queue' :
              \/ j \in DOMAIN queue /\ queue'[j] = queue[j] /\ queue[j].c # z
              \/ j = Len(queue) + 1 /\ queue'[j] = [c |-> z, res |-> res]
<1>0. NULL \notin Contexts
  BY Constants
<1>a. queue \in Seq(Packet) /\ [c |-> z, res |-> res] \in Packet
  BY Types DEF Packet
<1>b. /\ queue' \in Seq(Packet) /\ DOMAIN queue' = 1..(Len(queue) + 1)
      /\ \A i \in 1..Len(queue) : queue'[i] = queue[i]
      /\ queue'[Len(queue) + 1] = [c |-> z, res |-> res]
      /\ Len(queue) \in Nat /\ DOMAIN queue = 1..Len(queue)
  BY <1>a, AppendFacts
<1>e. /\ \A j \in DOMAIN queue : queue[j].c # z
      /\ \A v \in Workers : Holds(v) => wk[v].c # z
      /\ \A h \in Kinds : \A i \in DOMAIN pool[h] : pool[h][i] # z
  BY <1>0 DEF OwnInv, PoolInv, PortInv, HoldInv
<1>d. \A j \in DOMAIN queue' :
        \/ j \in DOMAIN queue /\ queue'[j] = queue[j] /\ queue[j].c # z
        \/ /\ j = Len(queue) + 1 /\ queue'[j] = [c |-> z, res |-> res]
           /\ queue'[j].c = z
  BY <1>b, <1>e
<1>g. \A h \in Kinds : \A i \in DOMAIN pool[h] : pool[h][i] # NULL
  BY <1>0, ElementOfSeq DEF TypeOK
<1>1. PoolInv'
  BY <1>d, <1>e, <1>g DEF OwnInv, PoolInv, HoldsKept
<1>2. PortInv'
  <2> SUFFICES ASSUME NEW j \in DOMAIN queue', queue'[j].c # NULL
               PROVE  /\ queue'[j].c \notin posted'
                      /\ \A i \in DOMAIN queue' :
                           queue'[i].c = queue'[j].c => i = j
                      /\ \A v \in Workers : Holds(v)' => wk'[v].c # queue'[j].c
    BY DEF PortInv
  <2>1. CASE j \in DOMAIN queue /\ queue'[j] = queue[j] /\ queue[j].c # z
    BY <2>1, <1>d DEF OwnInv, PortInv, HoldsKept
  <2>2. CASE j = Len(queue) + 1 /\ queue'[j].c = z
    BY <2>2, <1>d, <1>e, <1>0 DEF HoldsKept
  <2> QED
    BY <2>1, <2>2, <1>d
<1>3. HoldInv'
  BY DEF OwnInv, HoldInv, HoldsKept
<1> QED
  BY <1>1, <1>2, <1>3, <1>b, <1>d DEF OwnInv

\* The packets of StopServer have no context.
LEMMA OwnNulls ==
  ASSUME TypeOK, OwnInv, NEW n \in Nat, queue' = queue \o NullPackets(n),
         pool' = pool, posted' = posted, wk' = wk
  PROVE  /\ OwnInv' /\ queue' \in Seq(Packet)
         /\ \A j \in DOMAIN queue' :
              \/ j \in DOMAIN queue /\ queue'[j] = queue[j]
              \/ queue'[j].c = NULL
         /\ \A j \in 1..n : Len(queue) + j \in DOMAIN queue'
                            /\ queue'[Len(queue) + j].c = NULL
<1> DEFINE p == NullPackets(n)
<1>a. queue \in Seq(Packet) /\ p \in Seq(Packet) /\ Len(p) = n
      /\ \A j \in 1..n : p[j].c = NULL
  <2>1. \A j \in 1..n : [c |-> NULL, res |-> "done"] \in Packet
    BY DEF Packet
  <2>2. p \in Seq(Packet) /\ Len(p) = n
    BY SMTT(30), <2>1, IsASeq DEF NullPackets
  <2> QED
    BY <2>2, Types DEF NullPackets
<1>0. NULL \notin Contexts
  BY Constants
<1> HIDE DEF p
<1>b. /\ queue' \in Seq(Packet) /\ Len(queue') = Len(queue) + n
      /\ \A i \in 1..(Len(queue) + n) :
           queue'[i] = IF i <= Len(queue) THEN queue[i] ELSE p[i - Len(queue)]
  BY <1>a, ConcatProperties DEF p
<1>c. /\ DOMAIN queue' = 1..(Len(queue) + n) /\ DOMAIN queue = 1..Len(queue)
      /\ Len(queue) \in Nat
  BY <1>a, <1>b
<1>d. \A j \in DOMAIN queue' :
        \/ j \in DOMAIN queue /\ queue'[j] = queue[j]
        \/ queue'[j].c = NULL
  <2> SUFFICES ASSUME NEW j \in DOMAIN queue'
               PROVE  \/ j \in DOMAIN queue /\ queue'[j] = queue[j]
                      \/ queue'[j].c = NULL
    OBVIOUS
  <2>1. CASE j <= Len(queue)
    BY <2>1, <1>b, <1>c
  <2>2. CASE j > Len(queue)
    <3>1. j - Len(queue) \in 1..n /\ queue'[j] = p[j - Len(queue)]
      BY <2>2, <1>b, <1>c
    <3> QED
      BY <3>1, <1>a
  <2> QED
    BY <2>1, <2>2, <1>c
<1>e. ASSUME NEW j \in 1..n
      PROVE  Len(queue) + j \in DOMAIN queue' /\ queue'[Len(queue) + j].c = NULL
  <2> DEFINE i == Len(queue) + j
  <2>1. i \in 1..(Len(queue) + n) /\ ~(i <= Len(queue)) /\ i - Len(queue) = j
    BY <1>c
  <2> HIDE DEF i
  <2>2. queue'[i] = p[j]
    BY <2>1, <1>b
  <2> QED
    BY <2>1, <2>2, <1>a, <1>c DEF i
<1>g. \A h \in Kinds : \A i \in DOMAIN pool[h] : pool[h][i] # NULL
  BY <1>0, ElementOfSeq DEF TypeOK
<1>h. \A v \in Workers : Holds(v)' <=> Holds(v)
  BY DEF Holds, At
<1>1. PoolInv'
  BY <1>d, <1>g, <1>h DEF OwnInv, PoolInv
<1>2. PortInv'
  BY <1>d, <1>h DEF OwnInv, PortInv
<1>3. HoldInv'
  BY <1>h DEF OwnInv, HoldInv
<1> QED
  BY <1>1, <1>2, <1>3, <1>b, <1>d, <1>e DEF OwnInv

\* The pools are destroyed.
LEMMA OwnDestroy ==
  ASSUME OwnInv, pool' = [k \in Kinds |-> <<>>], queue' = queue,
         posted' = posted, wk' = wk
  PROVE  OwnInv'
<1>1. \A k \in Kinds : pool'[k] = <<>> /\ DOMAIN pool'[k] = {}
  BY EmptySeq
<1>2. \A v \in Workers : Holds(v)' <=> Holds(v)
  BY DEF Holds, At
<1> QED
  BY <1>1, <1>2 DEF OwnInv, PoolInv, PortInv, HoldInv

-----------------------------------------------------------------------------
(* The handles.                                                             *)

\* What a step may do without opening or handing over a handle: accepts,
\* completed accepts and closing workers may go, entries may leave the map,
\* and a handle that changes is one that nothing refers to any more.
AcceptsKept ==
  \A c \in Contexts :
    /\ Accepting(c)' => Accepting(c) /\ ctx'[c].sock = ctx[c].sock
    /\ Fresh(c)' => Fresh(c) /\ ctx'[c].sock = ctx[c].sock
ClosersKept ==
  \A w \in Workers : At(w, "closesocket")' =>
    At(w, "closesocket") /\ wk'[w].x = wk[w].x
SocketsKept ==
  \A s \in Sockets : sock'[s] = sock[s] \/
    /\ s \notin m_mapAcceptSockQueue' /\ \A w \in Workers : ~Closer(w, s)'
    /\ \/ sock[s] = "closed" \/ s \in m_mapAcceptSockQueue
       \/ \E w \in Workers : Closer(w, s)

\* Such a step keeps every open handle accounted for once.
LEMMA HandleKeep ==
  ASSUME TypeOK, ShapeInv, HandleInv, AcceptsKept, ClosersKept, SocketsKept,
         m_mapAcceptSockQueue' \subseteq m_mapAcceptSockQueue
  PROVE  HandleInv'
<1>a. m_mapAcceptSockQueue \subseteq Sockets
  BY DEF TypeOK
<1>b. \A w \in Workers : At(w, "closesocket") => wk[w].x \in Sockets
  BY DEF ShapeInv, WorkerOK, At
<1>1. \A s \in m_mapAcceptSockQueue' : sock'[s] = "connected"
  BY <1>a DEF HandleInv, SocketsKept
<1>c. \A s \in Sockets : s \in m_mapAcceptSockQueue => sock[s] = "connected"
  BY DEF HandleInv
<1>d. \A s \in Sockets : \A w \in Workers : Closer(w, s) => sock[s] = "connected"
  BY DEF HandleInv, Closer
<1>2. ASSUME NEW c \in Contexts, Accepting(c)'
      PROVE  /\ ctx'[c].sock \in Sockets /\ sock'[ctx'[c].sock] = "accepting"
             /\ \A d \in Contexts :
                  Accepting(d)' /\ ctx'[d].sock = ctx'[c].sock => d = c
  <2>1. Accepting(c) /\ ctx'[c].sock = ctx[c].sock
    BY <1>2 DEF AcceptsKept
  <2>2. /\ ctx[c].sock \in Sockets /\ sock[ctx[c].sock] = "accepting"
        /\ \A d \in Contexts :
             Accepting(d) /\ ctx[d].sock = ctx[c].sock => d = c
    BY <2>1 DEF HandleInv
  <2>3. sock'[ctx[c].sock] = sock[ctx[c].sock]
    BY <2>2, <1>c, <1>d DEF SocketsKept
  <2>4. \A d \in Contexts :
          Accepting(d)' /\ ctx'[d].sock = ctx'[c].sock => d = c
    BY <2>1, <2>2 DEF AcceptsKept
  <2> QED
    BY <2>1, <2>2, <2>3, <2>4
<1>3. ASSUME NEW c \in Contexts, Fresh(c)'
      PROVE  /\ ctx'[c].sock \in Sockets /\ sock'[ctx'[c].sock] = "connected"
             /\ ctx'[c].sock \notin m_mapAcceptSockQueue'
             /\ \A d \in Contexts :
                  Fresh(d)' /\ ctx'[d].sock = ctx'[c].sock => d = c
             /\ \A w \in Workers :
                  ~(At(w, "closesocket")' /\ wk'[w].x = ctx'[c].sock)
  <2>1. Fresh(c) /\ ctx'[c].sock = ctx[c].sock
    BY <1>3 DEF AcceptsKept
  <2>2. /\ ctx[c].sock \in Sockets /\ sock[ctx[c].sock] = "connected"
        /\ ctx[c].sock \notin m_mapAcceptSockQueue
        /\ \A w \in Workers : ~Closer(w, ctx[c].sock)
        /\ \A d \in Contexts : Fresh(d) /\ ctx[d].sock = ctx[c].sock => d = c
    BY <2>1 DEF HandleInv
  <2>3. sock'[ctx[c].sock] = sock[ctx[c].sock]
    BY <2>2 DEF SocketsKept
  <2>4. \A d \in Contexts :
          Fresh(d)' /\ ctx'[d].sock = ctx'[c].sock => d = c
    BY <2>1, <2>2 DEF AcceptsKept
  <2>5. \A w \in Workers : ~(At(w, "closesocket")' /\ wk'[w].x = ctx[c].sock)
    BY <2>2 DEF ClosersKept, Closer
  <2>6. \A w \in Workers : ~(At(w, "closesocket")' /\ wk'[w].x = ctx'[c].sock)
    BY <2>5, <2>1
  <2> QED
    BY <2>1, <2>2, <2>3, <2>4, <2>6
<1>4. ASSUME NEW w \in Workers, At(w, "closesocket")'
      PROVE  /\ sock'[wk'[w].x] = "connected"
             /\ wk'[w].x \notin m_mapAcceptSockQueue'
             /\ \A v \in Workers \ {w} :
                  ~(At(v, "closesocket")' /\ wk'[v].x = wk'[w].x)
  <2>1. At(w, "closesocket") /\ wk'[w].x = wk[w].x
    BY <1>4 DEF ClosersKept
  <2>2. /\ sock[wk[w].x] = "connected" /\ wk[w].x \notin m_mapAcceptSockQueue
        /\ wk[w].x \in Sockets
        /\ \A v \in Workers \ {w} : ~Closer(v, wk[w].x)
    BY <2>1, <1>b DEF HandleInv
  <2>3. PICK s \in Sockets : s = wk[w].x
    BY <2>2
  <2>a. Closer(w, s)'
    BY <2>1, <2>3, <1>4 DEF Closer
  <2>4. sock'[wk[w].x] = sock[wk[w].x]
    BY <2>a, <2>3 DEF SocketsKept
  <2>5. \A v \in Workers \ {w} :
          ~(At(v, "closesocket")' /\ wk'[v].x = wk'[w].x)
    BY <2>1, <2>2 DEF ClosersKept, Closer
  <2> QED
    BY <2>1, <2>2, <2>4, <2>5
<1> QED
  BY <1>1, <1>2, <1>3, <1>4 DEF HandleInv, Closer

\* IssueAcceptOperation opens a handle and posts an accept on it.
LEMMA HandleIssue ==
  ASSUME TypeOK, ShapeInv, HandleInv, NEW s \in Sockets, sock[s] = "closed",
         sock' = [sock EXCEPT ![s] = "accepting"],
         NEW z \in AcceptContexts,
         ctx' = [ctx EXCEPT ![z] = [sock |-> s, live |-> TRUE]],
         posted' = posted \cup {z}, ~Fresh(z),
         \A c \in Contexts : Fresh(c)' => Fresh(c),
         ClosersKept, m_mapAcceptSockQueue' = m_mapAcceptSockQueue
  PROVE  HandleInv'
<1>a. z \in Contexts /\ m_mapAcceptSockQueue \subseteq Sockets
      /\ ctx \in [Contexts -> ContextState]
      /\ sock \in [Sockets -> {"closed", "accepting", "connected"}]
  BY Types DEF Contexts
<1>b. /\ ctx'[z].sock = s /\ \A c \in Contexts \ {z} : ctx'[c].sock = ctx[c].sock
      /\ sock'[s] = "accepting" /\ \A t \in Sockets \ {s} : sock'[t] = sock[t]
  <2>1. ctx'[z] = [sock |-> s, live |-> TRUE]
        /\ \A c \in Contexts \ {z} : ctx'[c] = ctx[c]
    BY <1>a
  <2>2. sock'[s] = "accepting" /\ \A t \in Sockets \ {s} : sock'[t] = sock[t]
    BY <1>a
  <2> QED
    BY <2>1, <2>2
<1>c. \A w \in Workers : At(w, "closesocket") => wk[w].x \in Sockets
  BY DEF ShapeInv, WorkerOK, At
<1>1. \A t \in m_mapAcceptSockQueue' : sock'[t] = "connected"
  BY <1>a, <1>b DEF HandleInv
<1>d. \A c \in Contexts : Accepting(c)' => c = z \/ (c # z /\ Accepting(c))
  BY DEF Accepting
<1>2. ASSUME NEW c \in Contexts, Accepting(c)'
      PROVE  /\ ctx'[c].sock \in Sockets /\ sock'[ctx'[c].sock] = "accepting"
             /\ \A d \in Contexts :
                  Accepting(d)' /\ ctx'[d].sock = ctx'[c].sock => d = c
  <2>1. \A d \in Contexts \ {z} : Accepting(d) =>
          /\ ctx'[d].sock \in Sockets /\ sock'[ctx'[d].sock] = "accepting"
          /\ ctx'[d].sock # s
    BY <1>b DEF HandleInv
  <2>2. CASE c = z
    BY <2>2, <2>1, <1>d, <1>b
  <2>3. CASE c # z
    BY <2>3, <2>1, <1>2, <1>d, <1>b DEF HandleInv
  <2> QED
    BY <2>2, <2>3
<1>3. ASSUME NEW c \in Contexts, Fresh(c)'
      PROVE  /\ ctx'[c].sock \in Sockets /\ sock'[ctx'[c].sock] = "connected"
             /\ ctx'[c].sock \notin m_mapAcceptSockQueue'
             /\ \A d \in Contexts :
                  Fresh(d)' /\ ctx'[d].sock = ctx'[c].sock => d = c
             /\ \A w \in Workers :
                  ~(At(w, "closesocket")' /\ wk'[w].x = ctx'[c].sock)
  <2>1. Fresh(c) /\ c # z /\ ctx'[c].sock = ctx[c].sock
    BY <1>3, <1>b
  <2>2. /\ ctx[c].sock \in Sockets /\ sock[ctx[c].sock] = "connected"
        /\ ctx[c].sock \notin m_mapAcceptSockQueue
        /\ \A w \in Workers : ~Closer(w, ctx[c].sock)
        /\ \A d \in Contexts : Fresh(d) /\ ctx[d].sock = ctx[c].sock => d = c
    BY <2>1 DEF HandleInv
  <2>3. sock'[ctx[c].sock] = "connected"
    BY <2>2, <1>b
  <2>4. \A d \in Contexts :
          Fresh(d)' /\ ctx'[d].sock = ctx'[c].sock => d = c
    BY <2>1, <2>2, <1>b
  <2>5. \A w \in Workers : ~(At(w, "closesocket")' /\ wk'[w].x = ctx'[c].sock)
    BY <2>1, <2>2 DEF ClosersKept, Closer
  <2> QED
    BY <2>1, <2>2, <2>3, <2>4, <2>5
<1>4. ASSUME NEW w \in Workers, At(w, "closesocket")'
      PROVE  /\ sock'[wk'[w].x] = "connected"
             /\ wk'[w].x \notin m_mapAcceptSockQueue'
             /\ \A v \in Workers \ {w} :
                  ~(At(v, "closesocket")' /\ wk'[v].x = wk'[w].x)
  <2>1. At(w, "closesocket") /\ wk'[w].x = wk[w].x
    BY <1>4 DEF ClosersKept
  <2>2. /\ sock[wk[w].x] = "connected" /\ wk[w].x \notin m_mapAcceptSockQueue
        /\ wk[w].x \in Sockets
        /\ \A v \in Workers \ {w} : ~Closer(v, wk[w].x)
    BY <2>1, <1>c DEF HandleInv
  <2>3. sock'[wk[w].x] = "connected"
    BY <2>2, <1>b
  <2>5. \A v \in Workers \ {w} :
          ~(At(v, "closesocket")' /\ wk'[v].x = wk'[w].x)
    BY <2>1, <2>2 DEF ClosersKept, Closer
  <2> QED
    BY <2>1, <2>2, <2>3, <2>5
<1> QED
  BY <1>1, <1>2, <1>3, <1>4 DEF HandleInv, Closer

\* PushClientSocket lists the handle of a completed accept.
LEMMA HandlePush ==
  ASSUME TypeOK, ShapeInv, HandleInv, NEW z \in Contexts, Fresh(z),
         m_mapAcceptSockQueue' = m_mapAcceptSockQueue \cup {ctx[z].sock},
         \A c \in Contexts : Fresh(c)' => Fresh(c) /\ c # z,
         ClosersKept, sock' = sock, ctx' = ctx, posted' = posted
  PROVE  HandleInv'
<1>a. /\ ctx[z].sock \in Sockets /\ sock[ctx[z].sock] = "connected"
      /\ ctx[z].sock \notin m_mapAcceptSockQueue
      /\ \A w \in Workers : ~Closer(w, ctx[z].sock)
      /\ \A d \in Contexts : Fresh(d) /\ ctx[d].sock = ctx[z].sock => d = z
  BY DEF HandleInv
<1>1. \A t \in m_mapAcceptSockQueue' : sock'[t] = "connected"
  BY <1>a DEF HandleInv
<1>2. \A c \in Contexts : Accepting(c)' =>
        /\ ctx'[c].sock \in Sockets /\ sock'[ctx'[c].sock] = "accepting"
        /\ \A d \in Contexts :
             Accepting(d)' /\ ctx'[d].sock = ctx'[c].sock => d = c
  BY DEF HandleInv, Accepting
<1>3. ASSUME NEW c \in Contexts, Fresh(c)'
      PROVE  /\ ctx'[c].sock \in Sockets /\ sock'[ctx'[c].sock] = "connected"
             /\ ctx'[c].sock \notin m_mapAcceptSockQueue'
             /\ \A d \in Contexts :
                  Fresh(d)' /\ ctx'[d].sock = ctx'[c].sock => d = c
             /\ \A w \in Workers :
                  ~(At(w, "closesocket")' /\ wk'[w].x = ctx'[c].sock)
  <2>1. Fresh(c) /\ c # z /\ ctx[c].sock # ctx[z].sock
    BY <1>3, <1>a
  <2>2. /\ ctx[c].sock \in Sockets /\ sock[ctx[c].sock] = "connected"
        /\ ctx[c].sock \notin m_mapAcceptSockQueue
        /\ \A w \in Workers : ~Closer(w, ctx[c].sock)
        /\ \A d \in Contexts : Fresh(d) /\ ctx[d].sock = ctx[c].sock => d = c
    BY <2>1 DEF HandleInv
  <2>5. \A w \in Workers : ~(At(w, "closesocket")' /\ wk'[w].x = ctx'[c].sock)
    BY <2>2 DEF ClosersKept, Closer
  <2> QED
    BY <2>1, <2>2, <2>5
<1>4. ASSUME NEW w \in Workers, At(w, "closesocket")'
      PROVE  /\ sock'[wk'[w].x] = "connected"
             /\ wk'[w].x \notin m_mapAcceptSockQueue'
             /\ \A v \in Workers \ {w} :
                  ~(At(v, "closesocket")' /\ wk'[v].x = wk'[w].x)
  <2>1. At(w, "closesocket") /\ wk'[w].x = wk[w].x
    BY <1>4 DEF ClosersKept
  <2>2. /\ sock[wk[w].x] = "connected" /\ wk[w].x \notin m_mapAcceptSockQueue
        /\ \A v \in Workers \ {w} : ~Closer(v, wk[w].x)
        /\ wk[w].x # ctx[z].sock
    BY <2>1, <1>a DEF HandleInv, Closer
  <2>5. \A v \in Workers \ {w} :
          ~(At(v, "closesocket")' /\ wk'[v].x = wk'[w].x)
    BY <2>1, <2>2 DEF ClosersKept, Closer
  <2> QED
    BY <2>1, <2>2, <2>5
<1> QED
  BY <1>1, <1>2, <1>3, <1>4 DEF HandleInv, Closer

\* CloseClientSocket takes a handle out of the map in order to close it.
LEMMA HandleFind ==
  ASSUME TypeOK, ShapeInv, HandleInv, NEW w \in Workers,
         NEW s \in m_mapAcceptSockQueue,
         m_mapAcceptSockQueue' = m_mapAcceptSockQueue \ {s},
         At(w, "closesocket")', wk'[w].x = s,
         \A v \in Workers \ {w} : At(v, "closesocket")' =>
           At(v, "closesocket") /\ wk'[v].x = wk[v].x,
         \A c \in Contexts : Fresh(c)' => Fresh(c),
         sock' = sock, ctx' = ctx, posted' = posted
  PROVE  HandleInv'
<1>a. /\ sock[s] = "connected"
      /\ \A c \in Contexts : Fresh(c) => ctx[c].sock # s
      /\ \A v \in Workers : ~Closer(v, s)
  BY DEF HandleInv, Closer
<1>1. \A t \in m_mapAcceptSockQueue' : sock'[t] = "connected"
  BY DEF HandleInv
<1>2. \A c \in Contexts : Accepting(c)' =>
        /\ ctx'[c].sock \in Sockets /\ sock'[ctx'[c].sock] = "accepting"
        /\ \A d \in Contexts :
             Accepting(d)' /\ ctx'[d].sock = ctx'[c].sock => d = c
  BY DEF HandleInv, Accepting
<1>3. ASSUME NEW c \in Contexts, Fresh(c)'
      PROVE  /\ ctx'[c].sock \in Sockets /\ sock'[ctx'[c].sock] = "connected"
             /\ ctx'[c].sock \notin m_mapAcceptSockQueue'
             /\ \A d \in Contexts :
                  Fresh(d)' /\ ctx'[d].sock = ctx'[c].sock => d = c
             /\ \A v \in Workers :
                  ~(At(v, "closesocket")' /\ wk'[v].x = ctx'[c].sock)
  <2>1. Fresh(c) /\ ctx[c].sock # s
    BY <1>3, <1>a
  <2>2. /\ ctx[c].sock \in Sockets /\ sock[ctx[c].sock] = "connected"
        /\ ctx[c].sock \notin m_mapAcceptSockQueue
        /\ \A v \in Workers : ~Closer(v, ctx[c].sock)
        /\ \A d \in Contexts : Fresh(d) /\ ctx[d].sock = ctx[c].sock => d = c
    BY <2>1 DEF HandleInv
  <2>5. \A v \in Workers : ~(At(v, "closesocket")' /\ wk'[v].x = ctx'[c].sock)
    BY <2>1, <2>2 DEF Closer
  <2> QED
    BY <2>1, <2>2, <2>5
<1>4. ASSUME NEW v \in Workers, At(v, "closesocket")'
      PROVE  /\ sock'[wk'[v].x] = "connected"
             /\ wk'[v].x \notin m_mapAcceptSockQueue'
             /\ \A u \in Workers \ {v} :
                  ~(At(u, "closesocket")' /\ wk'[u].x = wk'[v].x)
  <2>1. CASE v = w
    BY <2>1, <1>a DEF Closer
  <2>2. CASE v # w
    <3>1. At(v, "closesocket") /\ wk'[v].x = wk[v].x
      BY <2>2, <1>4
    <3>2. /\ sock[wk[v].x] = "connected" /\ wk[v].x \notin m_mapAcceptSockQueue
          /\ \A u \in Workers \ {v} : ~Closer(u, wk[v].x)
          /\ wk[v].x # s
      BY <3>1, <1>a DEF HandleInv, Closer
    <3> QED
      BY <3>1, <3>2 DEF Closer
  <2> QED
    BY <2>1, <2>2
<1> QED
  BY <1>1, <1>2, <1>3, <1>4 DEF HandleInv, Closer

\* AcceptEx ends with a client: the handle is a connection, not yet listed.
LEMMA HandleComplete ==
  ASSUME TypeOK, ShapeInv, HandleInv, NEW z \in AcceptContexts, z \in posted,
         sock' = [sock EXCEPT ![ctx[z].sock] = "connected"],
         posted' = posted \ {z}, ctx' = ctx,
         \A c \in Contexts : Fresh(c)' => c = z \/ Fresh(c),
         ClosersKept, m_mapAcceptSockQueue' = m_mapAcceptSockQueue
  PROVE  HandleInv'
<1>z. z \in Contexts /\ Accepting(z)
  BY DEF Accepting, Contexts
<1>s. PICK s \in Sockets : s = ctx[z].sock
  BY <1>z DEF HandleInv
<1>a. /\ sock[s] = "accepting" /\ s \notin m_mapAcceptSockQueue
      /\ \A c \in Contexts : Fresh(c) => ctx[c].sock # s
      /\ \A v \in Workers : ~Closer(v, s)
      /\ \A c \in Contexts : Accepting(c) /\ ctx[c].sock = s => c = z
  BY <1>z, <1>s DEF HandleInv, Closer
<1>b. sock'[s] = "connected" /\ \A t \in Sockets \ {s} : sock'[t] = sock[t]
  BY <1>s DEF TypeOK
<1>c. \A w \in Workers : At(w, "closesocket") => wk[w].x \in Sockets
  BY DEF ShapeInv, WorkerOK, At
<1>m. m_mapAcceptSockQueue \subseteq Sockets
  BY DEF TypeOK
<1>1. \A t \in m_mapAcceptSockQueue' : sock'[t] = "connected"
  BY <1>m, <1>b DEF HandleInv
<1>2. ASSUME NEW c \in Contexts, Accepting(c)'
      PROVE  /\ ctx'[c].sock \in Sockets /\ sock'[ctx'[c].sock] = "accepting"
             /\ \A d \in Contexts :
                  Accepting(d)' /\ ctx'[d].sock = ctx'[c].sock => d = c
  <2>1. \A d \in Contexts : Accepting(d)' => Accepting(d) /\ d # z
    BY DEF Accepting
  <2>2. ctx[c].sock \in Sockets \ {s} /\ sock[ctx[c].sock] = "accepting"
    BY <2>1, <1>2, <1>a DEF HandleInv
  <2> QED
    BY <2>1, <2>2, <1>2, <1>b DEF HandleInv
<1>3. ASSUME NEW c \in Contexts, Fresh(c)'
      PROVE  /\ ctx'[c].sock \in Sockets /\ sock'[ctx'[c].sock] = "connected"
             /\ ctx'[c].sock \notin m_mapAcceptSockQueue'
             /\ \A d \in Contexts :
                  Fresh(d)' /\ ctx'[d].sock = ctx'[c].sock => d = c
             /\ \A v \in Workers :
                  ~(At(v, "closesocket")' /\ wk'[v].x = ctx'[c].sock)
  <2>1. CASE c = z
    <3>1. \A v \in Workers : ~(At(v, "closesocket")' /\ wk'[v].x = s)
      BY <1>a DEF ClosersKept, Closer
    <3> QED
      BY <2>1, <3>1, <1>a, <1>b, <1>s
  <2>2. CASE c # z
    <3>1. Fresh(c) /\ ctx[c].sock # s
      BY <2>2, <1>3, <1>a
    <3>2. /\ ctx[c].sock \in Sockets /\ sock[ctx[c].sock] = "connected"
          /\ ctx[c].sock \notin m_mapAcceptSockQueue
          /\ \A v \in Workers : ~Closer(v, ctx[c].sock)
          /\ \A d \in Contexts : Fresh(d) /\ ctx[d].sock = ctx[c].sock => d = c
      BY <3>1 DEF HandleInv
    <3>3. sock'[ctx[c].sock] = "connected"
      BY <3>1, <3>2, <1>b
    <3>4. \A d \in Contexts :
            Fresh(d)' /\ ctx'[d].sock = ctx'[c].sock => d = c
      BY <3>1, <3>2, <1>s
    <3>5. \A v \in Workers : ~(At(v, "closesocket")' /\ wk'[v].x = ctx'[c].sock)
      BY <3>2 DEF ClosersKept, Closer
    <3> QED
      BY <3>2, <3>3, <3>4, <3>5
  <2> QED
    BY <2>1, <2>2
<1>4. ASSUME NEW w \in Workers, At(w, "closesocket")'
      PROVE  /\ sock'[wk'[w].x] = "connected"
             /\ wk'[w].x \notin m_mapAcceptSockQueue'
             /\ \A v \in Workers \ {w} :
                  ~(At(v, "closesocket")' /\ wk'[v].x = wk'[w].x)
  <2>1. At(w, "closesocket") /\ wk'[w].x = wk[w].x
    BY <1>4 DEF ClosersKept
  <2>2. /\ sock[wk[w].x] = "connected" /\ wk[w].x \notin m_mapAcceptSockQueue
        /\ wk[w].x \in Sockets \ {s}
        /\ \A v \in Workers \ {w} : ~Closer(v, wk[w].x)
    BY <2>1, <1>c, <1>a DEF HandleInv, Closer
  <2>5. \A v \in Workers \ {w} :
          ~(At(v, "closesocket")' /\ wk'[v].x = wk'[w].x)
    BY <2>1, <2>2 DEF ClosersKept, Closer
  <2> QED
    BY <2>1, <2>2, <2>5, <1>b
<1> QED
  BY <1>1, <1>2, <1>3, <1>4 DEF HandleInv, Closer

-----------------------------------------------------------------------------
(* StopServer: the workers that have not ended, and the packets for them.   *)

NullsOf(q) == {j \in DOMAIN q : q[j].c = NULL}

\* The packets for the workers are finitely many.
LEMMA NullsFinite ==
  ASSUME NEW q \in Seq(Packet)
  PROVE  IsFiniteSet(NullsOf(q)) /\ Cardinality(NullsOf(q)) \in Nat
<1>1. DOMAIN q = 1..Len(q) /\ IsFiniteSet(1..Len(q))
  BY FS_Interval
<1>2. NullsOf(q) \subseteq 1..Len(q)
  BY <1>1 DEF NullsOf
<1> QED
  BY <1>1, <1>2, FS_Subset, FS_CardinalityType

\* Taking the first packet leaves the others, one place earlier.
LEMMA NullsTail ==
  ASSUME NEW q \in Seq(Packet), q # <<>>
  PROVE  Cardinality(NullsOf(Tail(q))) =
           IF Head(q).c = NULL THEN Cardinality(NullsOf(q)) - 1
           ELSE Cardinality(NullsOf(q))
<1> DEFINE N == NullsOf(q) \ {1}
           M == NullsOf(Tail(q))
           f == [j \in N |-> j - 1]
<1>a. /\ Tail(q) \in Seq(Packet) /\ DOMAIN Tail(q) = 1..(Len(q) - 1)
      /\ \A i \in 1..(Len(q) - 1) : Tail(q)[i] = q[i + 1]
      /\ Head(q) = q[1] /\ Len(q) \in Nat /\ Len(q) > 0 /\ DOMAIN q = 1..Len(q)
  BY TailFacts
<1>b. IsFiniteSet(NullsOf(q)) /\ Cardinality(NullsOf(q)) \in Nat
      /\ IsFiniteSet(M)
  BY <1>a, NullsFinite
<1>c. IsFiniteSet(N)
  BY <1>b, FS_Subset
<1>d. \A j \in N : j \in 2..Len(q) /\ j - 1 \in 1..(Len(q) - 1)
                   /\ Tail(q)[j - 1].c = NULL
  <2> SUFFICES ASSUME NEW j \in N
               PROVE  j \in 2..Len(q) /\ j - 1 \in 1..(Len(q) - 1)
                      /\ Tail(q)[j - 1].c = NULL
    OBVIOUS
  <2>1. j \in 1..Len(q) /\ j # 1 /\ q[j].c = NULL
    BY <1>a DEF NullsOf
  <2>2. j - 1 \in 1..(Len(q) - 1) /\ (j - 1) + 1 = j /\ j \in 2..Len(q)
    BY <2>1, <1>a
  <2>3. Tail(q)[j - 1] = q[(j - 1) + 1]
    BY <2>2, <1>a
  <2> QED
    BY <2>1, <2>2, <2>3
<1>e. f \in Bijection(N, M)
  <2>1. f \in [N -> M]
    BY <1>d, <1>a DEF NullsOf
  <2>2. \A i, j \in N : f[i] = f[j] => i = j
    BY <1>d
  <2>3. ASSUME NEW m \in M PROVE \E j \in N : f[j] = m
    <3>1. m \in 1..(Len(q) - 1) /\ Tail(q)[m].c = NULL
      BY <1>a DEF NullsOf
    <3>2. q[m + 1].c = NULL /\ m + 1 \in 1..Len(q) /\ m + 1 # 1 /\ (m + 1) - 1 = m
      BY <3>1, <1>a
    <3>3. m + 1 \in N
      BY <3>2, <1>a DEF NullsOf
    <3> QED
      BY <3>2, <3>3
  <2> QED
    BY <2>1, <2>2, <2>3 DEF Bijection, Injection, Surjection, IsInjective
<1>f. Cardinality(M) = Cardinality(N)
  <2>1. ExistsBijection(N, M)
    BY <1>e DEF ExistsBijection
  <2> QED
    BY <2>1, <1>c, FS_Bijection
<1>1. CASE Head(q).c = NULL
  <2>1. 1 \in NullsOf(q)
    BY <1>1, <1>a DEF NullsOf
  <2>2. Cardinality(N) = Cardinality(NullsOf(q)) - 1
    BY <2>1, <1>b, FS_RemoveElement
  <2> QED
    BY <1>1, <2>2, <1>f
<1>2. CASE Head(q).c # NULL
  <2>1. 1 \notin NullsOf(q)
    BY <1>2, <1>a DEF NullsOf
  <2>2. N = NullsOf(q)
    BY <2>1
  <2> QED
    BY <1>2, <2>2, <1>f
<1> QED
  BY <1>1, <1>2

\* The count of StopServer holds as long as no worker comes to life again and
\* no packet for a worker is lost.
LEMMA StopKeep ==
  ASSUME StopInv, app'.pc = "joinWorkers" => app.pc = "joinWorkers",
         \A v \in Workers : At(v, "end") => At(v, "end")',
         Cardinality(Nulls) \in Nat,
         Cardinality(Nulls') = Cardinality(Nulls)
  PROVE  StopInv'
<1>1. Ending' \subseteq Ending /\ Ending \subseteq Workers
  BY DEF Ending
<1>2. IsFiniteSet(Ending)
  BY <1>1, Constants, FS_Subset
<1>3. /\ Cardinality(Ending') <= Cardinality(Ending)
      /\ Cardinality(Ending') \in Nat /\ Cardinality(Ending) \in Nat
  BY <1>1, <1>2, FS_Subset, FS_CardinalityType
<1> QED
  BY <1>3 DEF StopInv

-----------------------------------------------------------------------------
(* The workers.                                                             *)

Pcs == {"suspended", "start", "end", "get", "find", "closesocket", "release",
        "releaseFirst", "push", "setup", "stamp", "save", "send", "resend",
        "receive", "accept"}

\* A jump leaves the other locals alone.
LEMMA GotoMoves ==
  ASSUME TypeOK, NEW w \in Workers, NEW l \in Pcs, Goto(w, l)
  PROVE  Moves(w, l, wk[w].c, wk[w].x, wk[w].ret)
<1>1. wk \in [Workers -> WorkerState]
  BY Types
<1>2. wk[w] \in WorkerState /\ wk' = [wk EXCEPT ![w] = [wk[w] EXCEPT !.pc = l]]
  BY <1>1 DEF Goto
<1> DEFINE r == [wk[w] EXCEPT !.pc = l]
<1>3. r \in WorkerState /\ r.pc = l /\ r.c = wk[w].c /\ r.x = wk[w].x
      /\ r.ret = wk[w].ret
  BY <1>2 DEF WorkerState, Pcs
<1> HIDE DEF r
<1>4. wk' = [wk EXCEPT ![w] = r]
  BY <1>2 DEF r
<1> QED
  BY <1>1, <1>3, <1>4 DEF Moves, Same

\* A worker whose locals are r after the step.
LEMMA RecordMoves ==
  ASSUME TypeOK, NEW w \in Workers, NEW r \in WorkerState,
         wk' = [wk EXCEPT ![w] = r]
  PROVE  Moves(w, r.pc, r.c, r.x, r.ret)
BY Types DEF Moves, Same

\* The end of a packet.
LEMMA LoopState ==
  /\ Loop \in WorkerState /\ Loop.pc \in {"get", "end"}
  /\ Loop.c = NULL /\ Loop.x = NULL /\ Loop.ret = "release"
BY DEF Loop, IdleWorker, WorkerState

\* The locals of a worker, by its place.
LEMMA Locals ==
  ASSUME TypeOK, ShapeInv, NEW w \in Workers
  PROVE  /\ wk[w] \in WorkerState /\ WorkerOK(wk[w])
         /\ wk[w].c \in Contexts => m_hSocket(w) \in Sockets \cup {NULL}
<1>1. wk[w] \in WorkerState /\ WorkerOK(wk[w])
  BY Types DEF ShapeInv
<1>2. wk[w].c \in Contexts => ctx[wk[w].c] \in ContextState
  BY Types
<1> QED
  BY <1>1, <1>2 DEF m_hSocket, ContextState

\* What follows for the other parts of the invariant when w moves.
LEMMA MovesFacts ==
  ASSUME NEW w \in Workers, NEW l, NEW c, NEW x, NEW ret,
         Moves(w, l, c, x, ret)
  PROVE  /\ \A v \in Workers \ {w} : HoldsKept(v)
         /\ (c = NULL \/ ret = "get" \/ (c = wk[w].c /\ Holds(w)))
            => \A v \in Workers : HoldsKept(v)
         /\ l # "closesocket" => ClosersKept
         /\ \A v \in Workers \ {w} : At(v, "closesocket")' =>
              At(v, "closesocket") /\ wk'[v].x = wk[v].x
         /\ wk[w].pc # "end" => \A v \in Workers : At(v, "end") => At(v, "end")'
<1>1. \A v \in Workers \ {w} : HoldsKept(v)
  BY DEF Moves, Same, HoldsKept, Holds, At
<1>2. (c = NULL \/ ret = "get" \/ (c = wk[w].c /\ Holds(w))) => HoldsKept(w)
  BY DEF Moves, HoldsKept, Holds, At
<1>3. \A v \in Workers \ {w} : At(v, "closesocket")' =>
        At(v, "closesocket") /\ wk'[v].x = wk[v].x
  BY DEF Moves, Same, At
<1>4. l # "closesocket" => ~At(w, "closesocket")'
  BY DEF Moves, At
<1>5. wk[w].pc # "end" => \A v \in Workers : At(v, "end") => At(v, "end")'
  BY DEF Moves, Same, At
<1> QED
  BY <1>1, <1>2, <1>3, <1>4, <1>5 DEF ClosersKept

\* A completed accept stays one.
LEMMA FreshMoves ==
  ASSUME NEW w \in Workers, NEW l, NEW c, NEW x, NEW ret,
         Moves(w, l, c, x, ret), l # "push", queue' = queue
  PROVE  \A z \in Contexts : Fresh(z)' => Fresh(z)
<1>1. \A v \in Workers : At(v, "push")' => At(v, "push") /\ wk'[v].c = wk[v].c
  BY DEF Moves, Same, At
<1> QED
  BY <1>1 DEF Fresh

\* The same when no worker moves.
LEMMA StaysFacts ==
  ASSUME Stays
  PROVE  /\ \A v \in Workers : HoldsKept(v)
         /\ ClosersKept
         /\ \A v \in Workers : At(v, "end") => At(v, "end")'
         /\ queue' = queue => \A z \in Contexts : Fresh(z)' => Fresh(z)
<1>1. \A v \in Workers : HoldsKept(v)
  BY DEF Stays, Same, HoldsKept, Holds, At
<1>2. ClosersKept /\ \A v \in Workers : At(v, "end") => At(v, "end")'
  BY DEF Stays, Same, At, ClosersKept
<1>3. \A v \in Workers : At(v, "push")' => At(v, "push") /\ wk'[v].c = wk[v].c
  BY DEF Stays, Same, At
<1> QED
  BY <1>1, <1>2, <1>3 DEF Fresh

\* A worker at work moves: it is not suspended, and the server not released.
LEMMA ShapeMoves ==
  ASSUME TypeOK, ShapeInv, NEW w \in Workers, NEW l, NEW c, NEW x, NEW ret,
         Moves(w, l, c, x, ret), wk[w].pc \notin {"suspended", "end"},
         WorkerOK(wk'[w]), app' = app, suspended' = suspended,
         pauses' = pauses
  PROVE  ShapeInv' /\ ~Released /\ ~Released'
<1>1. app.pc \notin {"init", "ready"} /\ ~Released
  BY DEF ShapeInv
<1>2. ~Released'
  BY <1>1 DEF Released
<1>3. ASSUME NEW v \in Workers PROVE WorkerOK(wk'[v])
  <2>1. CASE v = w
    BY <2>1
  <2>2. CASE v # w
    BY <2>2 DEF Moves, Same, ShapeInv, WorkerOK
  <2> QED
    BY <2>1, <2>2
<1> QED
  BY <1>1, <1>2, <1>3 DEF ShapeInv

-----------------------------------------------------------------------------
(* The steps of a worker.                                                   *)

\* The packets for the workers, as a number.
LEMMA NullsNat == TypeOK => Cardinality(Nulls) \in Nat
BY Types, NullsFinite DEF Nulls, NullsOf

\* What a worker's step leaves alone outside of it.
ServerSame == app' = app /\ suspended' = suspended /\ pauses' = pauses

\* A step of w that hands over no handle and takes no context; a step that
\* opens no handle and takes or returns no context either.
QuietMove(w, l, c, x, ret) ==
  /\ Moves(w, l, c, x, ret) /\ WorkerOK(wk'[w])
  /\ wk[w].pc \notin {"suspended", "end"} /\ l \notin {"push", "closesocket"}
  /\ c = NULL \/ ret = "get" \/ (c = wk[w].c /\ Holds(w))
  /\ queue' = queue /\ ServerSame
Quiet(w, l, c, x, ret) ==
  QuietMove(w, l, c, x, ret) /\ posted' = posted /\ pool' = pool

\* What such a step preserves and keeps.
LEMMA QuietFacts ==
  ASSUME IInv, NEW w \in Workers, NEW l, NEW c, NEW x, NEW ret,
         QuietMove(w, l, c, x, ret)
  PROVE  /\ ShapeInv' /\ StopInv' /\ ~Released /\ ~Released' /\ HandleInv
         /\ ClosersKept /\ \A v \in Workers : HoldsKept(v)
         /\ \A z \in Contexts : Fresh(z)' => Fresh(z)
<1>0. TypeOK /\ ShapeInv /\ OwnInv /\ StopInv
  BY DEF IInv
<1>1. ShapeInv' /\ ~Released /\ ~Released'
  BY <1>0, ShapeMoves DEF QuietMove, ServerSame
<1>2. /\ \A v \in Workers : HoldsKept(v)
      /\ ClosersKept
      /\ \A v \in Workers : At(v, "end") => At(v, "end")'
  BY MovesFacts DEF QuietMove
<1>4. \A z \in Contexts : Fresh(z)' => Fresh(z)
  BY FreshMoves DEF QuietMove
<1>7. Nulls' = Nulls
  BY DEF Nulls, QuietMove
<1>8. StopInv'
  BY <1>0, <1>2, <1>7, NullsNat, StopKeep DEF QuietMove, ServerSame
<1> QED
  BY <1>1, <1>2, <1>4, <1>8 DEF IInv

\* It preserves the invariant, if no open handle is lost sight of.
LEMMA QuietStep ==
  ASSUME IInv, TypeOK', NEW w \in Workers, NEW l, NEW c, NEW x, NEW ret,
         Quiet(w, l, c, x, ret), SocketsKept,
         m_mapAcceptSockQueue' \subseteq m_mapAcceptSockQueue,
         \A z \in AcceptContexts : ctx'[z].sock = ctx[z].sock
  PROVE  IInv'
<1>0. TypeOK /\ ShapeInv /\ OwnInv
  BY DEF IInv
<1>1. /\ ShapeInv' /\ StopInv' /\ HandleInv
      /\ ClosersKept /\ \A v \in Workers : HoldsKept(v)
      /\ \A z \in Contexts : Fresh(z)' => Fresh(z)
  BY QuietFacts DEF Quiet
<1>3. OwnInv'
  BY <1>0, <1>1, OwnKeep DEF Quiet, QuietMove
<1>5. AcceptsKept
  BY <1>1 DEF AcceptsKept, Accepting, Fresh, Quiet, QuietMove
<1>6. HandleInv'
  BY <1>0, <1>1, <1>5, HandleKeep
<1> QED
  BY <1>1, <1>3, <1>6 DEF IInv

\* A worker that jumps from one place of a handler to the next.
LEMMA QuietGoto ==
  ASSUME IInv, NEW w \in Workers, NEW l \in Pcs, Goto(w, l),
         wk[w].pc \in BusyPcs,
         l \in {"find", "release", "releaseFirst", "stamp", "save", "send",
                "resend", "receive"}
               \/ (l \in {"setup", "accept"} /\ wk[w].c \in AcceptContexts),
         l = "find" \/ wk[w].ret = "release", Holds(w),
         queue' = queue, ServerSame
  PROVE  QuietMove(w, l, wk[w].c, wk[w].x, wk[w].ret)
<1>1. TypeOK /\ ShapeInv
  BY DEF IInv
<1>2. Moves(w, l, wk[w].c, wk[w].x, wk[w].ret)
  BY <1>1, GotoMoves
<1>3. wk[w] \in WorkerState /\ WorkerOK(wk[w])
  BY <1>1, Locals
<1>4. wk[w].c \in Contexts
  BY <1>3 DEF WorkerOK
<1>5. WorkerOK(wk'[w])
  BY <1>2, <1>3, <1>4 DEF Moves, WorkerOK, IdlePcs, BusyPcs
<1> QED
  BY <1>2, <1>5 DEF QuietMove, BusyPcs

\* TypeOK after a step of which wk, ctx and pool are known to be typed.
LEMMA TypesPrime ==
  ASSUME sock' \in [Sockets -> {"closed", "accepting", "connected"}],
         idle' \in [Sockets -> {"none", "recent", "old"}],
         m_mapAcceptSockQueue' \subseteq Sockets,
         ctx' \in [Contexts -> ContextState], posted' \subseteq Contexts,
         queue' \in Seq(Packet),
         DOMAIN pool' = Kinds /\ \A k \in Kinds : pool'[k] \in Seq(Contexts),
         wk' \in [Workers -> WorkerState],
         semaphore' \in 0..MaxPostAccepts, batch' \in 0..MaxPostAccepts,
         app' \in [pc : {"init", "ready", "run", "file", "joinListener",
                         "joinWorkers", "walk", "next", "kill", "done",
                         "undefined"},
                   s : Sockets \cup {NULL}, left : SUBSET Sockets],
         listener' \in {"wait", "end"}, suspended' \in 0..(MaxPauses + 1),
         pauses' \in 0..MaxPauses, clients' \in 0..MaxClients,
         wronged' \in BOOLEAN
  PROVE  TypeOK'
BY DEF TypeOK, ContextState, Packet, WorkerState

\* Handles that do not change.
LEMMA SocketsSame == ASSUME sock' = sock PROVE SocketsKept
BY DEF SocketsKept

\* A resumed worker tests the condition of its loop.
LEMMA BeginStep ==
  ASSUME IInv, NEW w \in Workers, Begin(w) PROVE IInv'
<1>1. TypeOK
  BY DEF IInv
<1>2. wk' = [wk EXCEPT ![w] = Loop]
  BY DEF Begin
<1> DEFINE r == Loop
<1>3. /\ r \in WorkerState /\ r.pc \in {"get", "end"}
      /\ r.c = NULL /\ r.x = NULL /\ r.ret = "release"
  BY LoopState
<1> HIDE DEF r
<1>4. Moves(w, r.pc, r.c, r.x, r.ret)
  BY <1>1, <1>2, <1>3, RecordMoves DEF r
<1>5. WorkerOK(wk'[w])
  BY <1>3, <1>4 DEF Moves, WorkerOK, IdlePcs, BusyPcs
<1>6. Quiet(w, r.pc, r.c, r.x, r.ret)
  BY <1>3, <1>4, <1>5 DEF Quiet, QuietMove, Begin, ServerSame, server, io, At
<1>7. TypeOK'
  BY <1>1, <1>4, Types, TypesPrime DEF Begin, server, io, accepts, Moves
<1> QED
  BY <1>6, <1>7, QuietStep, SocketsSame DEF Begin, server, io

\* Setting the options of a socket.
LEMMA SetOptionsStep ==
  ASSUME IInv, NEW w \in Workers, NEW from \in BusyPcs, NEW next \in Pcs,
         NEW failed \in Pcs, SetOptions(w, from, next, failed),
         {next, failed} \subseteq {"find", "releaseFirst", "save", "receive"},
         from # "find", from # "closesocket"
  PROVE  IInv'
<1>1. TypeOK /\ ShapeInv
  BY DEF IInv
<1>2. wk[w] \in WorkerState /\ WorkerOK(wk[w]) /\ wk[w].pc = from
  BY <1>1, Locals DEF SetOptions, At
<1>3. wk[w].ret = "release" /\ Holds(w)
  BY <1>2 DEF WorkerOK, WorkerState, Holds, At, BusyPcs
<1>4. PICK l \in {next, failed} : Goto(w, l)
  BY DEF SetOptions
<1>a. l \in Pcs /\ posted' = posted /\ pool' = pool /\ queue' = queue
      /\ ServerSame
  BY DEF SetOptions, ServerSame, io, server
<1>5. Quiet(w, l, wk[w].c, wk[w].x, wk[w].ret)
  BY <1>2, <1>3, <1>4, <1>a, QuietGoto DEF Quiet
<1>6. idle' \in [Sockets -> {"none", "recent", "old"}]
  <2>1. idle \in [Sockets -> {"none", "recent", "old"}]
    BY <1>1, Types
  <2>2. CASE idle' = idle
    BY <2>1, <2>2
  <2>3. CASE idle' = [idle EXCEPT ![m_hSocket(w)] = "recent"]
    BY <2>1, <2>3
  <2> QED
    BY <2>2, <2>3 DEF SetOptions
<1>7. TypeOK'
  BY <1>1, <1>5, <1>6, Types, TypesPrime
     DEF SetOptions, server, io, accepts, Moves, Quiet, QuietMove
<1> QED
  BY <1>5, <1>7, QuietStep, SocketsSame DEF SetOptions, server, io

\* SaveReceivedData.
LEMMA SaveStep ==
  ASSUME IInv, NEW w \in Workers, SaveReceivedData(w) PROVE IInv'
<1>1. TypeOK /\ ShapeInv
  BY DEF IInv
<1>2. wk[w] \in WorkerState /\ WorkerOK(wk[w]) /\ wk[w].pc = "save"
  BY <1>1, Locals DEF SaveReceivedData, At
<1>3. wk[w].ret = "release" /\ Holds(w)
  BY <1>2 DEF WorkerOK, WorkerState, Holds, At
<1>4. PICK l \in {"receive", "send"} : Goto(w, l)
  BY DEF SaveReceivedData
<1>a. l \in Pcs /\ posted' = posted /\ pool' = pool /\ queue' = queue
      /\ ServerSame /\ wk[w].pc \in BusyPcs
  BY <1>2 DEF SaveReceivedData, ServerSame, io, server, Pcs, BusyPcs
<1>5. Quiet(w, l, wk[w].c, wk[w].x, wk[w].ret)
  BY <1>2, <1>3, <1>4, <1>a, QuietGoto DEF Quiet
<1>7. TypeOK'
  BY <1>1, <1>5, Types, TypesPrime
     DEF SaveReceivedData, server, io, accepts, Moves, Quiet, QuietMove
<1> QED
  BY <1>5, <1>7, QuietStep, SocketsSame DEF SaveReceivedData, server, io

\* GetContext and a call that succeeds.
LEMMA IssueFacts ==
  ASSUME TypeOK, ShapeInv, OwnInv, NEW k \in Kinds,
         NEW s \in Sockets \cup {NULL}, Issue(k, s), queue' = queue,
         \A v \in Workers : HoldsKept(v)
  PROVE  /\ OwnInv'
         /\ DOMAIN pool' = Kinds /\ \A h \in Kinds : pool'[h] \in Seq(Contexts)
         /\ posted' \subseteq Contexts /\ ctx' \in [Contexts -> ContextState]
         /\ \E z \in Contexts :
              /\ Kind(z) = k /\ posted' = posted \cup {z} /\ ~Fresh(z)
              /\ ctx' = [ctx EXCEPT ![z] = [sock |-> s, live |-> TRUE]]
<1>1. /\ pool[k] # <<>> /\ pool' = [pool EXCEPT ![k] = Front(@)]
      /\ ctx' = [ctx EXCEPT ![Last(pool[k])] = [sock |-> s, live |-> TRUE]]
      /\ posted' = posted \cup {Last(pool[k])}
  BY DEF Issue, GetContext
<1>2. /\ OwnInv'
      /\ DOMAIN pool' = Kinds /\ \A h \in Kinds : pool'[h] \in Seq(Contexts)
      /\ Last(pool[k]) \in Contexts /\ Kind(Last(pool[k])) = k
      /\ \A j \in DOMAIN queue : queue[j].c # Last(pool[k])
      /\ \A w \in Workers : Holds(w) => wk[w].c # Last(pool[k])
  BY <1>1, OwnIssue
<1>3. PICK z \in Contexts : z = Last(pool[k])
  BY <1>2
<1>4. posted' \subseteq Contexts /\ ctx' \in [Contexts -> ContextState]
  <2>1. [sock |-> s, live |-> TRUE] \in ContextState
    BY DEF ContextState
  <2> QED
    BY <1>1, <1>3, <2>1, Types
<1>5. ~Fresh(z)
  <2>1. \A v \in Workers : At(v, "push") => Holds(v)
    BY Types DEF At, Holds, ShapeInv, WorkerOK, WorkerState
  <2> QED
    BY <1>2, <1>3, <2>1 DEF Fresh
<1> QED
  BY <1>1, <1>2, <1>3, <1>4, <1>5

\* A receive or a send leaves the accepts alone.
LEMMA OtherIssue ==
  ASSUME TypeOK, NEW z \in Contexts, Kind(z) # "accept", NEW q,
         posted' = posted \cup {z}, ctx' = [ctx EXCEPT ![z] = q],
         \A c \in Contexts : Fresh(c)' => Fresh(c)
  PROVE  AcceptsKept
<1>1. z \notin AcceptContexts
  BY KindOf
<1>2. \A c \in AcceptContexts : c \in Contexts /\ ctx'[c] = ctx[c]
  BY <1>1, Types DEF Contexts
<1> QED
  BY <1>1, <1>2 DEF AcceptsKept, Accepting, Fresh

\* A worker posts a receive or a send and goes on.
LEMMA PostStep ==
  ASSUME IInv, NEW w \in Workers, NEW l, NEW c, NEW x, NEW ret,
         QuietMove(w, l, c, x, ret), NEW k \in {"receive", "send"},
         NEW s \in Sockets \cup {NULL}, Issue(k, s),
         UNCHANGED <<sock, idle, m_mapAcceptSockQueue, queue, accepts, server,
                     wronged>>
  PROVE  IInv'
<1>0. TypeOK /\ ShapeInv /\ OwnInv /\ k \in Kinds /\ queue' = queue
  BY DEF IInv, Kinds
<1>1. /\ ShapeInv' /\ StopInv' /\ HandleInv
      /\ ClosersKept /\ \A v \in Workers : HoldsKept(v)
      /\ \A z \in Contexts : Fresh(z)' => Fresh(z)
  BY QuietFacts
<1>2. /\ OwnInv'
      /\ DOMAIN pool' = Kinds /\ \A h \in Kinds : pool'[h] \in Seq(Contexts)
      /\ posted' \subseteq Contexts /\ ctx' \in [Contexts -> ContextState]
  BY <1>0, <1>1, IssueFacts
<1>3. PICK z \in Contexts :
        /\ Kind(z) = k /\ posted' = posted \cup {z}
        /\ ctx' = [ctx EXCEPT ![z] = [sock |-> s, live |-> TRUE]]
  BY <1>0, <1>1, IssueFacts
<1>4. AcceptsKept
  <2>1. Kind(z) # "accept"
    BY <1>3
  <2> QED
    BY <1>0, <1>1, <1>3, <2>1, OtherIssue
<1>5. HandleInv'
  BY <1>0, <1>1, <1>4, HandleKeep, SocketsSame
<1>6. TypeOK'
  BY <1>0, <1>2, Types, TypesPrime DEF server, accepts, Moves, QuietMove
<1> QED
  BY <1>1, <1>2, <1>5, <1>6 DEF IInv

\* SendData and CompleteSend.
LEMMA SendStep ==
  ASSUME IInv, NEW w \in Workers, NEW from \in {"send", "resend"},
         NEW next \in {"receive", "release"}, Send(w, from, next)
  PROVE  IInv'
<1>1. TypeOK /\ ShapeInv
  BY DEF IInv
<1>2. wk[w] \in WorkerState /\ WorkerOK(wk[w]) /\ wk[w].pc = from
  BY <1>1, Locals DEF Send, At
<1>3. /\ wk[w].ret = "release" /\ Holds(w) /\ wk[w].c \in Contexts
      /\ wk[w].pc \in BusyPcs
  BY <1>2 DEF WorkerOK, WorkerState, Holds, At, BusyPcs
<1>4. next \in Pcs /\ Goto(w, next) /\ queue' = queue /\ ServerSame
  BY DEF Send, Pcs, ServerSame, server
<1>5. QuietMove(w, next, wk[w].c, wk[w].x, wk[w].ret)
  BY <1>3, <1>4, QuietGoto
<1>6. m_hSocket(w) \in Sockets \cup {NULL}
  BY <1>1, <1>3, Locals
<1>7. CASE Issue("send", m_hSocket(w))
  <2>1. UNCHANGED <<sock, idle, m_mapAcceptSockQueue, queue, accepts, server,
                    wronged>>
    BY DEF Send
  <2> QED
    BY <1>5, <1>6, <1>7, <2>1, PostStep
<1>8. CASE UNCHANGED <<ctx, posted, pool>>
  <2>1. TypeOK'
    BY <1>1, <1>5, <1>8, Types, TypesPrime
       DEF Send, server, accepts, Moves, QuietMove
  <2>2. Quiet(w, next, wk[w].c, wk[w].x, wk[w].ret)
    BY <1>5, <1>8 DEF Quiet
  <2> QED
    BY <1>8, <2>1, <2>2, QuietStep, SocketsSame DEF Send
<1> QED
  BY <1>7, <1>8 DEF Send, IssueSendOperation

\* The next read of a connection, posted or not.
LEMMA NextReceiveStep ==
  ASSUME IInv, NEW w \in Workers, NextReceive(w) PROVE IInv'
<1>1. TypeOK /\ ShapeInv
  BY DEF IInv
<1>2. wk[w] \in WorkerState /\ WorkerOK(wk[w]) /\ wk[w].pc = "receive"
  BY <1>1, Locals DEF NextReceive, At
<1>3. /\ wk[w].ret = "release" /\ Holds(w) /\ wk[w].c \in Contexts
      /\ wk[w].pc \in BusyPcs
  BY <1>2 DEF WorkerOK, WorkerState, Holds, At, BusyPcs
<1>4. queue' = queue /\ ServerSame
  BY DEF NextReceive, ServerSame, server
<1>5. ASSUME NEW l \in {"accept", "release", "find", "releaseFirst"},
             Goto(w, l), l = "accept" => wk[w].c \in AcceptContexts
      PROVE  QuietMove(w, l, wk[w].c, wk[w].x, wk[w].ret)
  <2>1. l \in Pcs
    BY DEF Pcs
  <2> QED
    BY <1>3, <1>4, <1>5, <2>1, QuietGoto
<1>6. m_hSocket(w) \in Sockets \cup {NULL}
  BY <1>1, <1>3, Locals
<1>7. CASE /\ IssueReceiveOperation(m_hSocket(w))
           /\ Goto(w, IF wk[w].c \in AcceptContexts THEN "accept" ELSE "release")
  <2>1. UNCHANGED <<sock, idle, m_mapAcceptSockQueue, queue, accepts, server,
                    wronged>>
    BY DEF NextReceive
  <2>2. Issue("receive", m_hSocket(w))
    BY <1>7 DEF IssueReceiveOperation
  <2>3. PICK l \in {"accept", "release", "find", "releaseFirst"} :
          Goto(w, l) /\ (l = "accept" => wk[w].c \in AcceptContexts)
    BY <1>7
  <2>4. QuietMove(w, l, wk[w].c, wk[w].x, wk[w].ret)
    BY <2>3, <1>5
  <2> QED
    BY <1>6, <2>1, <2>2, <2>4, PostStep
<1>8. CASE /\ IssueReceiveFails(m_hSocket(w))
           /\ Goto(w, IF wk[w].c \in AcceptContexts THEN "find"
                                                    ELSE "releaseFirst")
  <2>1. PICK l \in {"accept", "release", "find", "releaseFirst"} :
          Goto(w, l) /\ (l = "accept" => wk[w].c \in AcceptContexts)
    BY <1>8
  <2>2. QuietMove(w, l, wk[w].c, wk[w].x, wk[w].ret)
    BY <2>1, <1>5
  <2>3. posted' = posted /\ pool' = pool
    BY <1>8 DEF IssueReceiveFails
  <2>4. /\ ctx' \in [Contexts -> ContextState]
        /\ \A z \in AcceptContexts : ctx'[z].sock = ctx[z].sock
    <3>0. ctx \in [Contexts -> ContextState] /\ AcceptContexts \subseteq Contexts
      BY <1>1, Types DEF Contexts
    <3>1. CASE pool.receive = <<>>
      BY <3>0, <3>1, <1>8 DEF IssueReceiveFails
    <3>2. CASE pool.receive # <<>>
      <4>1. PICK c : c = Last(pool.receive)
        OBVIOUS
      <4>2. ctx' = [ctx EXCEPT ![c].sock = Residue(c, m_hSocket(w))]
        BY <3>2, <4>1, <1>8 DEF IssueReceiveFails
      <4>3. pool.receive \in Seq(Contexts) /\ "receive" \in Kinds
        BY <1>1, Types DEF Kinds
      <4>4. c = pool.receive[Len(pool.receive)]
            /\ Len(pool.receive) \in DOMAIN pool.receive /\ c \in Contexts
        <5>1. PICK q \in Seq(Contexts) : q = pool.receive
          BY <4>3
        <5>2. q # <<>>
          BY <5>1, <3>2
        <5>3. /\ Last(q) = q[Len(q)] /\ Last(q) \in Contexts
              /\ Len(q) \in DOMAIN q
          BY <5>2, FrontLast
        <5> QED
          BY <5>1, <5>3, <4>1
      <4>5. Kind(c) = "receive"
        BY <4>3, <4>4 DEF IInv, OwnInv, PoolInv
      <4>6. c \notin AcceptContexts
        BY <4>4, <4>5, KindOf
      <4>7. Residue(c, m_hSocket(w)) \in Sockets \cup {NULL}
        BY <1>6 DEF Residue
      <4>8. PICK t \in Sockets \cup {NULL} : t = Residue(c, m_hSocket(w))
        BY <4>7
      <4>9. ctx' = [ctx EXCEPT ![c] = [ctx[c] EXCEPT !.sock = t]]
        BY <4>2, <4>8
      <4>10. [ctx[c] EXCEPT !.sock = t] \in ContextState
        BY <3>0, <4>4 DEF ContextState
      <4>11. \A z \in Contexts \ {c} : ctx'[z] = ctx[z]
        BY <3>0, <4>9
      <4> QED
        BY <3>0, <4>4, <4>6, <4>9, <4>10, <4>11
    <3> QED
      BY <3>1, <3>2
  <2>5. TypeOK'
    BY <1>1, <2>2, <2>3, <2>4, Types, TypesPrime
       DEF NextReceive, server, accepts, Moves, QuietMove
  <2> QED
    BY <2>2, <2>3, <2>4, <2>5, QuietStep, SocketsSame DEF NextReceive, Quiet
<1> QED
  BY <1>7, <1>8 DEF NextReceive

\* IssueAcceptOperation, by a worker or by ListenThread.
LEMMA AcceptIssued ==
  ASSUME TypeOK, ShapeInv, OwnInv, IssueAcceptOperation, queue' = queue,
         \A v \in Workers : HoldsKept(v), ClosersKept,
         \A z \in Contexts : Fresh(z)' => Fresh(z),
         m_mapAcceptSockQueue' = m_mapAcceptSockQueue
  PROVE  /\ OwnInv' /\ (HandleInv => HandleInv')
         /\ DOMAIN pool' = Kinds /\ \A h \in Kinds : pool'[h] \in Seq(Contexts)
         /\ posted' \subseteq Contexts /\ ctx' \in [Contexts -> ContextState]
         /\ sock' \in [Sockets -> {"closed", "accepting", "connected"}]
<1>1. PICK s \in Sockets :
        /\ sock[s] = "closed" /\ sock' = [sock EXCEPT ![s] = "accepting"]
        /\ Issue("accept", s)
  BY DEF IssueAcceptOperation
<1>2. "accept" \in Kinds /\ s \in Sockets \cup {NULL}
  BY DEF Kinds
<1>3. /\ OwnInv'
      /\ DOMAIN pool' = Kinds /\ \A h \in Kinds : pool'[h] \in Seq(Contexts)
      /\ posted' \subseteq Contexts /\ ctx' \in [Contexts -> ContextState]
  BY <1>1, <1>2, IssueFacts
<1>4. PICK z \in Contexts :
        /\ Kind(z) = "accept" /\ posted' = posted \cup {z} /\ ~Fresh(z)
        /\ ctx' = [ctx EXCEPT ![z] = [sock |-> s, live |-> TRUE]]
  BY <1>1, <1>2, IssueFacts
<1>5. z \in AcceptContexts
  BY <1>4, KindOf
<1>6. HandleInv => HandleInv'
  BY <1>1, <1>4, <1>5, HandleIssue
<1>7. sock' \in [Sockets -> {"closed", "accepting", "connected"}]
  BY <1>1 DEF TypeOK
<1> QED
  BY <1>3, <1>6, <1>7

\* The same when AcceptEx or WSASocket fails.
LEMMA AcceptFailed ==
  ASSUME TypeOK, ShapeInv, OwnInv, IssueAcceptFails, queue' = queue,
         \A v \in Workers : HoldsKept(v), ClosersKept,
         \A z \in Contexts : Fresh(z)' => Fresh(z),
         m_mapAcceptSockQueue' = m_mapAcceptSockQueue
  PROVE  /\ OwnInv' /\ (HandleInv => HandleInv')
         /\ DOMAIN pool' = Kinds /\ \A h \in Kinds : pool'[h] \in Seq(Contexts)
         /\ posted' \subseteq Contexts /\ ctx' \in [Contexts -> ContextState]
         /\ sock' \in [Sockets -> {"closed", "accepting", "connected"}]
<1>1. ctx' = ctx /\ posted' = posted /\ pool' = pool
  BY DEF IssueAcceptFails
<1>2. OwnInv'
  BY <1>1, OwnKeep
<1>3. AcceptsKept
  BY <1>1 DEF AcceptsKept, Accepting
<1>4. sock \in [Sockets -> {"closed", "accepting", "connected"}]
  BY DEF TypeOK
<1>5. /\ sock' \in [Sockets -> {"closed", "accepting", "connected"}]
      /\ \/ sock' = sock
         \/ \E s \in Sockets : /\ sock[s] = "closed"
                               /\ \A t \in Sockets \ {s} : sock'[t] = sock[t]
  BY <1>4 DEF IssueAcceptFails
<1>6. HandleInv => SocketsKept
  <2>1. ASSUME HandleInv, NEW s \in Sockets, sock[s] = "closed",
               \A t \in Sockets \ {s} : sock'[t] = sock[t]
        PROVE  SocketsKept
    <3>1. s \notin m_mapAcceptSockQueue
      BY <2>1 DEF HandleInv
    <3>2. \A w \in Workers : ~Closer(w, s)
      BY <2>1 DEF HandleInv, Closer
    <3>3. \A w \in Workers : ~Closer(w, s)'
      BY <3>2 DEF ClosersKept, Closer
    <3> QED
      BY <2>1, <3>1, <3>3 DEF SocketsKept
  <2> QED
    BY <2>1, <1>5, SocketsSame
<1>7. HandleInv => HandleInv'
  BY <1>3, <1>6, HandleKeep
<1> QED
  BY <1>1, <1>2, <1>5, <1>7, Types

\* CompleteAccept posts the next accept, or asks ListenThread to.
LEMMA NextAcceptStep ==
  ASSUME IInv, NEW w \in Workers, NextAccept(w) PROVE IInv'
<1>1. TypeOK /\ ShapeInv /\ OwnInv
  BY DEF IInv
<1>2. wk[w] \in WorkerState /\ WorkerOK(wk[w]) /\ wk[w].pc = "accept"
  BY <1>1, Locals DEF NextAccept, At
<1>3. wk[w].ret = "release" /\ Holds(w) /\ wk[w].pc \in BusyPcs
  BY <1>2 DEF WorkerOK, WorkerState, Holds, At, BusyPcs
<1>4. Goto(w, "release") /\ queue' = queue /\ ServerSame /\ "release" \in Pcs
      /\ m_mapAcceptSockQueue' = m_mapAcceptSockQueue
  BY DEF NextAccept, ServerSame, server, Pcs
<1>5. QuietMove(w, "release", wk[w].c, wk[w].x, wk[w].ret)
  BY <1>3, <1>4, QuietGoto
<1>6. /\ ShapeInv' /\ StopInv' /\ HandleInv
      /\ ClosersKept /\ \A v \in Workers : HoldsKept(v)
      /\ \A z \in Contexts : Fresh(z)' => Fresh(z)
  BY <1>5, QuietFacts
<1>7. IssueAcceptOperation \/ IssueAcceptFails
  BY DEF NextAccept
<1>8. /\ OwnInv' /\ HandleInv'
      /\ DOMAIN pool' = Kinds /\ \A h \in Kinds : pool'[h] \in Seq(Contexts)
      /\ posted' \subseteq Contexts /\ ctx' \in [Contexts -> ContextState]
      /\ sock' \in [Sockets -> {"closed", "accepting", "connected"}]
  BY <1>1, <1>4, <1>6, <1>7, AcceptIssued, AcceptFailed
<1>9. semaphore' \in 0..MaxPostAccepts
  <2>1. semaphore \in 0..MaxPostAccepts /\ MaxPostAccepts \in Nat
    BY <1>1, Types, Constants
  <2>2. semaphore' = semaphore \/ (semaphore < MaxPostAccepts
                                   /\ semaphore' = semaphore + 1)
    BY DEF NextAccept
  <2> QED
    BY <2>1, <2>2
<1>10. TypeOK'
  BY <1>1, <1>5, <1>8, <1>9, Types, TypesPrime
     DEF NextAccept, server, Moves, QuietMove
<1> QED
  BY <1>6, <1>8, <1>10 DEF IInv

\* Where a worker goes from CloseClientSocket.
LEMMA ReturnState ==
  ASSUME TypeOK, ShapeInv, NEW w \in Workers, wk[w].pc \in {"find", "closesocket"}
  PROVE  /\ Return(w) \in WorkerState
         /\ Return(w).pc \in {"get", "end", "release"} /\ Return(w).x = NULL
         /\ Return(w).ret = "release"
         /\ Return(w).pc = "release" =>
              Return(w).c = wk[w].c /\ wk[w].ret = "release"
         /\ Return(w).pc # "release" => Return(w).c = NULL
<1>1. wk[w] \in WorkerState /\ WorkerOK(wk[w])
  BY Locals
<1>2. CASE wk[w].ret = "get"
  <2>1. Return(w) = Loop
    BY <1>2 DEF Return
  <2> QED
    BY <2>1, LoopState, Zenon
<1>3. CASE wk[w].ret # "get"
  <2>1. Return(w) = [wk[w] EXCEPT !.pc = "release", !.x = NULL]
        /\ wk[w].ret = "release"
    BY <1>3, <1>1 DEF Return, WorkerState
  <2> DEFINE r == wk[w]
             q == [r EXCEPT !.pc = "release", !.x = NULL]
  <2>2. r \in WorkerState /\ r.ret = "release"
    BY <1>1, <2>1
  <2> HIDE DEF r
  <2>3. /\ q \in WorkerState /\ q.pc = "release" /\ q.x = NULL
        /\ q.ret = "release" /\ q.c = r.c
    BY <2>2 DEF WorkerState
  <2> QED
    BY <2>1, <2>3 DEF r
<1> QED
  BY <1>2, <1>3

\* A worker that returns from CloseClientSocket, whatever else changes.
LEMMA ReturnMoves ==
  ASSUME IInv, NEW w \in Workers, wk[w].pc \in {"find", "closesocket"},
         NEW l, NEW c, NEW x, NEW ret, Moves(w, l, c, x, ret),
         l = Return(w).pc, c = Return(w).c, x = Return(w).x,
         ret = Return(w).ret, queue' = queue, ServerSame
  PROVE  QuietMove(w, l, c, x, ret)
<1>1. TypeOK /\ ShapeInv
  BY DEF IInv
<1>2. wk[w] \in WorkerState /\ WorkerOK(wk[w])
  BY <1>1, Locals
<1>3. /\ l \in {"get", "end", "release"} /\ ret = "release"
      /\ l = "release" => c = wk[w].c /\ wk[w].ret = "release"
      /\ l # "release" => c = NULL
  BY <1>1, ReturnState
<1>4. wk[w].c \in Contexts
  BY <1>2 DEF WorkerOK, BusyPcs
<1>5. WorkerOK(wk'[w])
  BY <1>3, <1>4 DEF Moves, WorkerOK, IdlePcs, BusyPcs
<1>6. l = "release" => Holds(w)
  BY <1>3 DEF Holds, At
<1> QED
  BY <1>3, <1>5, <1>6 DEF QuietMove

\* closesocket: the handles are free, and only history fields change besides.
LEMMA ClosedFacts ==
  ASSUME TypeOK, NEW S, NEW loc \in [Workers -> WorkerState], Closed(S, loc)
  PROVE  /\ sock' \in [Sockets -> {"closed", "accepting", "connected"}]
         /\ idle' \in [Sockets -> {"none", "recent", "old"}]
         /\ ctx' \in [Contexts -> ContextState]
         /\ wk' \in [Workers -> WorkerState]
         /\ \A s \in Sockets : sock'[s] = IF s \in S THEN "closed" ELSE sock[s]
         /\ \A c \in Contexts : ctx'[c].sock = ctx[c].sock
         /\ \A v \in Workers :
              /\ wk'[v].pc = loc[v].pc /\ wk'[v].c = loc[v].c
              /\ wk'[v].x = loc[v].x /\ wk'[v].ret = loc[v].ret
<1>0. /\ sock \in [Sockets -> {"closed", "accepting", "connected"}]
      /\ idle \in [Sockets -> {"none", "recent", "old"}]
      /\ ctx \in [Contexts -> ContextState]
  BY Types
<1>1. /\ sock' \in [Sockets -> {"closed", "accepting", "connected"}]
      /\ \A s \in Sockets : sock'[s] = IF s \in S THEN "closed" ELSE sock[s]
  BY <1>0 DEF Closed
<1>2. idle' \in [Sockets -> {"none", "recent", "old"}]
  BY <1>0 DEF Closed
<1>3. ASSUME NEW r \in ContextState, NEW b \in BOOLEAN
      PROVE  [r EXCEPT !.live = b] \in ContextState
             /\ [r EXCEPT !.live = b].sock = r.sock
  BY DEF ContextState
<1>4. /\ ctx' \in [Contexts -> ContextState]
      /\ \A c \in Contexts : ctx'[c].sock = ctx[c].sock
  <2> DEFINE b(c) == ctx[c].live /\ ctx[c].sock \notin S
             g(c) == [ctx[c] EXCEPT !.live = b(c)]
  <2>1. ctx' = [c \in Contexts |-> g(c)]
    BY DEF Closed
  <2>2. \A c \in Contexts : b(c) \in BOOLEAN
    BY Zenon
  <2> HIDE DEF b
  <2>3. \A c \in Contexts : g(c) \in ContextState /\ g(c).sock = ctx[c].sock
    BY <1>0, <1>3, <2>2
  <2> HIDE DEF g
  <2> QED
    BY <2>1, <2>3
<1>5. ASSUME NEW r \in WorkerState, NEW b \in BOOLEAN
      PROVE  /\ [r EXCEPT !.live = b] \in WorkerState
             /\ [r EXCEPT !.live = b].pc = r.pc /\ [r EXCEPT !.live = b].c = r.c
             /\ [r EXCEPT !.live = b].x = r.x
             /\ [r EXCEPT !.live = b].ret = r.ret
  BY DEF WorkerState
<1>6. /\ wk' \in [Workers -> WorkerState]
      /\ \A v \in Workers :
           /\ wk'[v].pc = loc[v].pc /\ wk'[v].c = loc[v].c
           /\ wk'[v].x = loc[v].x /\ wk'[v].ret = loc[v].ret
  <2> DEFINE b(w) == loc[w].live /\ loc[w].s \notin S
             g(w) == [loc[w] EXCEPT !.live = b(w)]
  <2>1. wk' = [w \in Workers |-> g(w)]
    BY DEF Closed
  <2>2. \A w \in Workers : b(w) \in BOOLEAN
    BY Zenon
  <2> HIDE DEF b
  <2>3. \A v \in Workers :
          /\ g(v) \in WorkerState /\ g(v).pc = loc[v].pc /\ g(v).c = loc[v].c
          /\ g(v).x = loc[v].x /\ g(v).ret = loc[v].ret
    BY <1>5, <2>2
  <2> HIDE DEF g
  <2> QED
    BY <2>1, <2>3
<1> QED
  BY <1>1, <1>2, <1>4, <1>6

\* CloseClientSocket, first half.
LEMMA FindStep ==
  ASSUME IInv, NEW w \in Workers, CloseClientSocketFind(w) PROVE IInv'
<1>1. TypeOK /\ ShapeInv /\ OwnInv /\ StopInv
  BY DEF IInv
<1>2. wk[w] \in WorkerState /\ WorkerOK(wk[w]) /\ wk[w].pc = "find"
  BY <1>1, Locals DEF CloseClientSocketFind, At
<1>3. /\ posted' = posted /\ pool' = pool /\ queue' = queue /\ ServerSame
      /\ sock' = sock /\ ctx' = ctx
  BY DEF CloseClientSocketFind, ServerSame, io, server
<1>4. CASE m_hSocket(w) \notin m_mapAcceptSockQueue
  <2>1. /\ wk' = [wk EXCEPT ![w] = Return(w)]
        /\ m_mapAcceptSockQueue' = m_mapAcceptSockQueue /\ wronged' = wronged
    BY <1>4 DEF CloseClientSocketFind
  <2>2. PICK r \in WorkerState : r = Return(w)
    BY <1>1, <1>2, ReturnState
  <2>3. Moves(w, r.pc, r.c, r.x, r.ret)
    BY <1>1, <2>1, <2>2, RecordMoves
  <2>4. Quiet(w, r.pc, r.c, r.x, r.ret)
    <3>1. wk[w].pc \in {"find", "closesocket"}
      BY <1>2
    <3> QED
      BY <1>3, <2>2, <2>3, <3>1, ReturnMoves DEF Quiet
  <2>5. TypeOK'
    BY <1>1, <2>1, <2>3, Types, TypesPrime
       DEF CloseClientSocketFind, server, io, accepts, Moves
  <2> QED
    BY <1>3, <2>1, <2>4, <2>5, QuietStep, SocketsSame
<1>5. CASE m_hSocket(w) \in m_mapAcceptSockQueue
  <2>1. PICK s \in m_mapAcceptSockQueue : s = m_hSocket(w)
    BY <1>5
  <2>2. /\ wk' = [wk EXCEPT ![w] = [wk[w] EXCEPT !.pc = "closesocket", !.x = s]]
        /\ m_mapAcceptSockQueue' = m_mapAcceptSockQueue \ {s}
        /\ wronged' = (wronged \/ m_hSocket(w) # wk[w].s \/ ~wk[w].live)
    <3>1. wk' = [wk EXCEPT ![w].pc = "closesocket", ![w].x = s]
      BY <2>1 DEF CloseClientSocketFind
    <3>2. wk \in [Workers -> WorkerState]
      BY <1>1, Types
    <3> QED
      BY <2>1, <3>1, <3>2 DEF CloseClientSocketFind
  <2>s. s \in Sockets
    BY <1>1 DEF TypeOK
  <2>3. PICK r \in WorkerState :
          /\ r = [wk[w] EXCEPT !.pc = "closesocket", !.x = s]
          /\ r.pc = "closesocket" /\ r.x = s /\ r.c = wk[w].c
          /\ r.ret = wk[w].ret
    <3>1. ASSUME NEW q \in WorkerState
          PROVE  \E r \in WorkerState :
                   /\ r = [q EXCEPT !.pc = "closesocket", !.x = s]
                   /\ r.pc = "closesocket" /\ r.x = s /\ r.c = q.c
                   /\ r.ret = q.ret
      <4> DEFINE r == [q EXCEPT !.pc = "closesocket", !.x = s]
      <4>1. /\ r \in WorkerState /\ r.pc = "closesocket" /\ r.x = s
            /\ r.c = q.c /\ r.ret = q.ret
        BY <2>s DEF WorkerState
      <4> QED
        BY <4>1
    <3> QED
      BY <3>1, <1>2
  <2>4. Moves(w, r.pc, r.c, r.x, r.ret)
    BY <1>1, <2>2, <2>3, RecordMoves
  <2>5. WorkerOK(wk'[w])
    BY <1>2, <2>3, <2>4, <2>s DEF Moves, WorkerOK, IdlePcs, BusyPcs
  <2>6. ShapeInv' /\ ~Released /\ ~Released'
    BY <1>1, <1>2, <1>3, <2>4, <2>5, ShapeMoves DEF ServerSame
  <2>7. HoldsKept(w)
    BY <1>2, <2>3, <2>4 DEF Moves, HoldsKept, Holds, At
  <2>8. /\ \A v \in Workers : HoldsKept(v)
        /\ \A v \in Workers \ {w} : At(v, "closesocket")' =>
             At(v, "closesocket") /\ wk'[v].x = wk[v].x
        /\ \A v \in Workers : At(v, "end") => At(v, "end")'
    BY <1>2, <2>4, <2>7, MovesFacts
  <2>9. OwnInv'
    BY <1>1, <1>3, <2>8, OwnKeep
  <2>10. \A z \in Contexts : Fresh(z)' => Fresh(z)
    <3>1. r.pc # "push"
      BY <2>3
    <3> QED
      BY <1>3, <2>4, <3>1, FreshMoves
  <2>11. HandleInv'
    <3>1. HandleInv
      BY <2>6 DEF IInv
    <3>2. At(w, "closesocket")' /\ wk'[w].x = s
      BY <2>3, <2>4 DEF Moves, At
    <3> QED
      BY <1>1, <1>3, <2>2, <2>8, <2>10, <3>1, <3>2, HandleFind
  <2>12. StopInv'
    <3>1. Nulls' = Nulls
      BY <1>3 DEF Nulls
    <3> QED
      BY <1>1, <1>3, <2>8, <3>1, NullsNat, StopKeep DEF ServerSame
  <2>13. wronged' \in BOOLEAN
    BY <2>2, Zenon
  <2>14. TypeOK'
    <3>1. m_mapAcceptSockQueue' \subseteq Sockets
      BY <1>1, <2>2, Types
    <3> QED
      BY <1>1, <2>13, <2>4, <3>1, Types, TypesPrime
         DEF CloseClientSocketFind, server, io, accepts, Moves
  <2> QED
    BY <2>6, <2>9, <2>11, <2>12, <2>14 DEF IInv
<1> QED
  BY <1>4, <1>5

\* Second half: the handle that w took out of the map is closed.
LEMMA CloseStep ==
  ASSUME IInv, NEW w \in Workers, CloseClientSocketClose(w) PROVE IInv'
<1>1. TypeOK /\ ShapeInv /\ OwnInv
  BY DEF IInv
<1>2. wk[w] \in WorkerState /\ WorkerOK(wk[w]) /\ wk[w].pc = "closesocket"
  BY <1>1, Locals DEF CloseClientSocketClose, At
<1>3. /\ posted' = posted /\ pool' = pool /\ queue' = queue /\ ServerSame
      /\ m_mapAcceptSockQueue' = m_mapAcceptSockQueue
  BY DEF CloseClientSocketClose, ServerSame, io, server
<1>4. PICK r \in WorkerState : r = Return(w)
  BY <1>1, <1>2, ReturnState
<1>5. PICK loc \in [Workers -> WorkerState] : loc = [wk EXCEPT ![w] = r]
  BY <1>1, Types
<1>6. Closed({wk[w].x}, loc)
  BY <1>4, <1>5 DEF CloseClientSocketClose
<1>7. /\ sock' \in [Sockets -> {"closed", "accepting", "connected"}]
      /\ idle' \in [Sockets -> {"none", "recent", "old"}]
      /\ ctx' \in [Contexts -> ContextState]
      /\ wk' \in [Workers -> WorkerState]
      /\ \A s \in Sockets :
           sock'[s] = IF s \in {wk[w].x} THEN "closed" ELSE sock[s]
      /\ \A c \in Contexts : ctx'[c].sock = ctx[c].sock
      /\ \A v \in Workers :
           /\ wk'[v].pc = loc[v].pc /\ wk'[v].c = loc[v].c
           /\ wk'[v].x = loc[v].x /\ wk'[v].ret = loc[v].ret
  BY <1>1, <1>6, ClosedFacts
<1>8. Moves(w, r.pc, r.c, r.x, r.ret)
  <2>1. loc[w] = r /\ \A v \in Workers \ {w} : loc[v] = wk[v]
    BY <1>1, <1>5, Types
  <2> QED
    BY <1>7, <2>1 DEF Moves, Same
<1>9. QuietMove(w, r.pc, r.c, r.x, r.ret)
  <2>1. wk[w].pc \in {"find", "closesocket"}
    BY <1>2
  <2> QED
    BY <1>3, <1>4, <1>8, <2>1, ReturnMoves
<1>10. TypeOK'
  BY <1>1, <1>7, Types, TypesPrime
     DEF CloseClientSocketClose, server, io, accepts
<1>11. HandleInv /\ ClosersKept
  BY <1>9, QuietFacts
<1>12. SocketsKept
  <2>1. PICK x \in Sockets : x = wk[w].x
    BY <1>2 DEF WorkerOK
  <2>2. x \notin m_mapAcceptSockQueue /\ Closer(w, x)
        /\ \A v \in Workers \ {w} : ~Closer(v, x)
    BY <1>2, <1>11, <2>1 DEF HandleInv, At, Closer
  <2>3. r.pc # "closesocket"
    BY <1>1, <1>2, <1>4, ReturnState
  <2>4. \A v \in Workers : ~Closer(v, x)'
    BY <1>8, <2>2, <2>3 DEF Closer, Moves, Same, At
  <2>5. \A s \in Sockets : s # x => sock'[s] = sock[s]
    BY <1>7, <2>1
  <2> QED
    BY <1>3, <2>2, <2>4, <2>5 DEF SocketsKept
<1>13. \A z \in AcceptContexts : ctx'[z].sock = ctx[z].sock
  BY <1>7 DEF Contexts
<1> QED
  BY <1>3, <1>9, <1>10, <1>12, <1>13, QuietStep DEF Quiet

\* A worker gives its context back: ReleaseContext and ReleaseFirst.
LEMMA ReturnContext ==
  ASSUME IInv, NEW w \in Workers, wk[w].pc \in {"release", "releaseFirst"},
         NEW r \in WorkerState, wk' = [wk EXCEPT ![w] = r], WorkerOK(r),
         r.c = NULL \/ r.ret = "get", r.pc \notin {"push", "closesocket"},
         NEW t \in Sockets \cup {NULL}, PushContext(w, t),
         UNCHANGED <<sock, idle, m_mapAcceptSockQueue, posted, queue, accepts,
                     server, wronged>>
  PROVE  IInv'
<1>1. TypeOK /\ ShapeInv /\ OwnInv
  BY DEF IInv
<1>2. wk[w] \in WorkerState /\ WorkerOK(wk[w])
  BY <1>1, Locals
<1>3. Holds(w) /\ wk[w].c \in Contexts
  BY <1>2 DEF WorkerOK, WorkerState, Holds, At, BusyPcs
<1>4. Moves(w, r.pc, r.c, r.x, r.ret)
  BY <1>1, RecordMoves
<1>5. wk'[w] = r
  BY <1>1, Types
<1>6. QuietMove(w, r.pc, r.c, r.x, r.ret)
  BY <1>4, <1>5 DEF QuietMove, ServerSame, server
<1>7. /\ ShapeInv' /\ StopInv' /\ HandleInv
      /\ ClosersKept /\ \A v \in Workers : HoldsKept(v)
      /\ \A z \in Contexts : Fresh(z)' => Fresh(z)
  BY <1>6, QuietFacts
<1>8. PICK z \in Contexts : z = wk[w].c
  BY <1>3
<1>9. /\ pool' = [pool EXCEPT ![Kind(z)] = Append(@, z)]
      /\ ctx' = [ctx EXCEPT ![z] = [sock |-> t, live |-> FALSE]]
  BY <1>8 DEF PushContext
<1>10. Holds(w)' => wk'[w].c = NULL
  BY <1>5 DEF Holds, At
<1>11. /\ OwnInv'
       /\ DOMAIN pool' = Kinds /\ \A h \in Kinds : pool'[h] \in Seq(Contexts)
  BY <1>1, <1>3, <1>7, <1>8, <1>9, <1>10, OwnRelease
<1>12. ctx' \in [Contexts -> ContextState]
  <2>1. [sock |-> t, live |-> FALSE] \in ContextState
    BY DEF ContextState
  <2> QED
    BY <1>1, <1>9, <2>1, Types
<1>13. TypeOK'
  BY <1>1, <1>4, <1>11, <1>12, Types, TypesPrime DEF server, accepts, Moves
<1>14. z \notin posted /\ z # NULL
  BY <1>3, <1>8, <1>1, Constants DEF OwnInv, HoldInv
<1>15. ~Fresh(z)
  <2>1. \A j \in DOMAIN queue : queue[j].c # z
    BY <1>1, <1>3, <1>8, <1>14 DEF OwnInv, PortInv
  <2>2. \A v \in Workers : At(v, "push") => Holds(v) /\ v # w
    BY <1>1, Types DEF At, Holds, ShapeInv, WorkerOK, WorkerState
  <2>3. \A v \in Workers \ {w} : Holds(v) => wk[v].c # z
    BY <1>1, <1>3, <1>8, <1>14 DEF OwnInv, HoldInv
  <2> QED
    BY <2>1, <2>2, <2>3 DEF Fresh
<1>16. AcceptsKept
  <2>1. \A c \in Contexts \ {z} : ctx'[c] = ctx[c]
    BY <1>1, <1>9, Types
  <2> QED
    BY <2>1, <1>7, <1>14, <1>15 DEF AcceptsKept, Accepting
<1>17. HandleInv'
  BY <1>1, <1>7, <1>16, HandleKeep, SocketsSame
<1> QED
  BY <1>7, <1>11, <1>13, <1>17 DEF IInv

\* At the end of a handler.
LEMMA ReleaseStep ==
  ASSUME IInv, NEW w \in Workers, ReleaseContext(w) PROVE IInv'
<1>1. TypeOK /\ ShapeInv
  BY DEF IInv
<1>2. wk[w] \in WorkerState /\ WorkerOK(wk[w]) /\ wk[w].pc = "release"
  BY <1>1, Locals DEF ReleaseContext, At
<1>3. wk[w].c \in Contexts
  BY <1>2 DEF WorkerOK, BusyPcs
<1>4. PICK r \in WorkerState : r = Loop
  BY LoopState
<1>5. /\ r.pc \in {"get", "end"} /\ r.c = NULL /\ r.ret = "release"
  BY <1>4, LoopState
<1>6. WorkerOK(r)
  BY <1>5 DEF WorkerOK, IdlePcs, BusyPcs
<1>7. m_hSocket(w) \in Sockets \cup {NULL}
  BY <1>1, <1>3, Locals
<1>8. PICK t \in Sockets \cup {NULL} : t = Residue(wk[w].c, m_hSocket(w))
  BY <1>7 DEF Residue
<1>9. /\ PushContext(w, t) /\ wk' = [wk EXCEPT ![w] = r]
      /\ UNCHANGED <<sock, idle, m_mapAcceptSockQueue, posted, queue, accepts,
                     server, wronged>>
  BY <1>4, <1>8 DEF ReleaseContext
<1> QED
  BY <1>2, <1>5, <1>6, <1>9, ReturnContext

\* Before the socket is closed.
LEMMA ReleaseFirstStep ==
  ASSUME IInv, NEW w \in Workers, ReleaseFirst(w) PROVE IInv'
<1>1. TypeOK /\ ShapeInv
  BY DEF IInv
<1>2. wk[w] \in WorkerState /\ WorkerOK(wk[w]) /\ wk[w].pc = "releaseFirst"
  BY <1>1, Locals DEF ReleaseFirst, At
<1>3. wk[w].c \in Contexts
  BY <1>2 DEF WorkerOK, BusyPcs
<1>4. PICK q \in WorkerState : q = wk[w]
  BY <1>2
<1> DEFINE r == [q EXCEPT !.pc = "find", !.ret = "get"]
<1>5. r \in WorkerState /\ r.pc = "find" /\ r.ret = "get" /\ r.c = q.c
  BY DEF WorkerState
<1>6. wk' = [wk EXCEPT ![w] = r]
  <2>1. wk' = [wk EXCEPT ![w].pc = "find", ![w].ret = "get"]
    BY DEF ReleaseFirst
  <2>2. wk \in [Workers -> WorkerState]
    BY <1>1, Types
  <2> QED
    BY <2>1, <2>2, <1>4
<1> HIDE DEF r
<1>7. WorkerOK(r)
  BY <1>3, <1>4, <1>5 DEF WorkerOK, IdlePcs, BusyPcs
<1>8. PICK t \in Sockets \cup {NULL} : t = m_hSocket(w)
  BY <1>1, <1>3, Locals
<1>9. /\ PushContext(w, t)
      /\ UNCHANGED <<sock, idle, m_mapAcceptSockQueue, posted, queue, accepts,
                     server, wronged>>
  BY <1>8 DEF ReleaseFirst
<1> QED
  BY <1>2, <1>5, <1>6, <1>7, <1>9, ReturnContext

\* A worker takes a completion.
LEMMA DequeueStep ==
  ASSUME IInv, NEW w \in Workers, Dequeue(w) PROVE IInv'
<1>1. TypeOK /\ ShapeInv /\ OwnInv /\ StopInv
  BY DEF IInv
<1>2. /\ wk[w].pc = "get" /\ queue # <<>> /\ Head(queue).c # NULL
      /\ queue' = Tail(queue)
      /\ UNCHANGED <<sock, idle, m_mapAcceptSockQueue, ctx, posted, pool,
                     accepts, server, wronged>>
  BY DEF Dequeue, At
<1>3. /\ queue \in Seq(Packet) /\ Head(queue) \in Packet
      /\ queue' \in Seq(Packet) /\ Head(queue) = queue[1] /\ 1 \in DOMAIN queue
      /\ DOMAIN queue = 1..Len(queue) /\ DOMAIN queue' = 1..(Len(queue) - 1)
      /\ Len(queue) \in Nat
      /\ \A i \in 1..(Len(queue) - 1) : queue'[i] = queue[i + 1]
  BY <1>1, <1>2, Types, TailFacts
<1>4. PICK q \in Packet : q = Head(queue)
  BY <1>3
<1>5. PICK z \in Contexts : z = q.c
  BY <1>2, <1>4 DEF Packet
<1> DEFINE l == CASE q.res # "done" -> "find"
                  [] q.res = "done" /\ Kind(z) = "accept"  -> "push"
                  [] q.res = "done" /\ Kind(z) = "receive" -> "stamp"
                  [] q.res = "done" /\ Kind(z) = "send"    -> "resend"
           r == [IdleWorker EXCEPT !.c = z, !.s = ctx[z].sock,
                                   !.live = ctx[z].live, !.pc = l]
<1>6. wk' = [wk EXCEPT ![w] = r]
  BY <1>4, <1>5 DEF Dequeue
<1>7. /\ l \in {"find", "push", "stamp", "resend"}
      /\ l = "push" => q.res = "done" /\ z \in AcceptContexts
  BY KindOf DEF Kinds
<1> HIDE DEF l
<1>8. r \in WorkerState /\ r.pc = l /\ r.c = z /\ r.x = NULL /\ r.ret = "release"
  <2>1. ctx[z].sock \in Sockets \cup {NULL} /\ ctx[z].live \in BOOLEAN
    BY <1>1, Types DEF ContextState
  <2> QED
    BY <2>1, <1>7 DEF IdleWorker, WorkerState
<1> HIDE DEF r
<1>9. Moves(w, r.pc, r.c, r.x, r.ret)
  BY <1>1, <1>6, <1>8, RecordMoves
<1>10. WorkerOK(wk'[w])
  <2>1. wk'[w] = r
    BY <1>1, <1>6, Types
  <2> QED
    BY <1>7, <1>8, <2>1 DEF WorkerOK, IdlePcs, BusyPcs
<1>11. ShapeInv' /\ ~Released /\ ~Released'
  BY <1>1, <1>2, <1>9, <1>10, ShapeMoves DEF server
<1>12. /\ \A v \in Workers \ {w} : HoldsKept(v)
       /\ ClosersKept
       /\ \A v \in Workers : At(v, "end") => At(v, "end")'
  <2>1. r.pc # "closesocket" /\ wk[w].pc # "end"
    BY <1>2, <1>7, <1>8
  <2> QED
    BY <1>9, <2>1, MovesFacts
<1>13. OwnInv'
  <2>1. wk'[w].c = z
    BY <1>8, <1>9 DEF Moves
  <2> QED
    BY <1>1, <1>2, <1>4, <1>5, <1>12, <2>1, OwnDequeue
<1>14. \A c \in Contexts : Fresh(c)' => Fresh(c)
  <2> SUFFICES ASSUME NEW c \in Contexts, Fresh(c)' PROVE Fresh(c)
    OBVIOUS
  <2>1. c \in AcceptContexts
    BY DEF Fresh
  <2>2. CASE \E j \in DOMAIN queue' : queue'[j].c = c /\ queue'[j].res = "done"
    <3>1. PICK j \in DOMAIN queue' : queue'[j].c = c /\ queue'[j].res = "done"
      BY <2>2
    <3>2. j + 1 \in DOMAIN queue /\ queue'[j] = queue[j + 1]
      BY <1>3
    <3> QED
      BY <2>1, <3>1, <3>2 DEF Fresh
  <2>3. CASE \E v \in Workers : At(v, "push")' /\ wk'[v].c = c
    <3>1. PICK v \in Workers : At(v, "push")' /\ wk'[v].c = c
      BY <2>3
    <3>2. CASE v = w
      <4>1. l = "push" /\ c = z
        BY <1>8, <1>9, <3>1, <3>2 DEF Moves, At
      <4>2. queue[1].c = c /\ queue[1].res = "done"
        BY <4>1, <1>3, <1>4, <1>5, <1>7
      <4> QED
        BY <2>1, <4>2, <1>3 DEF Fresh
    <3>3. CASE v # w
      <4>1. At(v, "push") /\ wk[v].c = c
        BY <1>9, <3>1, <3>3 DEF Moves, Same, At
      <4> QED
        BY <2>1, <4>1 DEF Fresh
    <3> QED
      BY <3>2, <3>3
  <2> QED
    BY <2>2, <2>3 DEF Fresh
<1>15. AcceptsKept
  BY <1>2, <1>14 DEF AcceptsKept, Accepting
<1>16. HandleInv'
  <2>1. HandleInv
    BY <1>11 DEF IInv
  <2> QED
    BY <1>1, <1>2, <1>12, <1>15, <2>1, HandleKeep, SocketsSame
<1>17. StopInv'
  <2>1. Cardinality(NullsOf(queue')) = Cardinality(NullsOf(queue))
    BY <1>2, <1>3, NullsTail
  <2>2. Cardinality(Nulls') = Cardinality(Nulls)
    BY <2>1 DEF Nulls, NullsOf
  <2>3. app' = app
    BY <1>2 DEF server
  <2> QED
    BY <1>1, <1>12, <2>2, <2>3, NullsNat, StopKeep
<1>18. TypeOK'
  BY <1>1, <1>2, <1>3, <1>9, Types, TypesPrime DEF server, accepts, Moves
<1> QED
  BY <1>11, <1>13, <1>16, <1>17, <1>18 DEF IInv

\* A worker takes a packet of StopServer and ends.
LEMMA DequeueNullStep ==
  ASSUME IInv, NEW w \in Workers, DequeueNull(w) PROVE IInv'
<1>1. TypeOK /\ ShapeInv /\ OwnInv /\ StopInv
  BY DEF IInv
<1>2. /\ wk[w].pc = "get" /\ queue # <<>> /\ Head(queue).c = NULL
      /\ queue' = Tail(queue) /\ Goto(w, "end")
      /\ UNCHANGED <<sock, idle, m_mapAcceptSockQueue, ctx, posted, pool,
                     accepts, server, wronged>>
  BY DEF DequeueNull, At
<1>3. /\ queue \in Seq(Packet)
      /\ queue' \in Seq(Packet)
      /\ DOMAIN queue = 1..Len(queue) /\ DOMAIN queue' = 1..(Len(queue) - 1)
      /\ Len(queue) \in Nat
      /\ \A i \in 1..(Len(queue) - 1) : queue'[i] = queue[i + 1]
  BY <1>1, <1>2, Types, TailFacts
<1>4. wk[w] \in WorkerState /\ WorkerOK(wk[w])
  BY <1>1, Locals
<1>5. wk[w].c = NULL /\ wk[w].ret = "release"
  BY <1>2, <1>4 DEF WorkerOK, IdlePcs
<1>6. Moves(w, "end", wk[w].c, wk[w].x, wk[w].ret)
  <2>1. "end" \in Pcs
    BY DEF Pcs
  <2> QED
    BY <1>1, <1>2, <2>1, GotoMoves
<1>7. WorkerOK(wk'[w])
  BY <1>5, <1>6 DEF Moves, WorkerOK, IdlePcs, BusyPcs
<1>8. ShapeInv' /\ ~Released /\ ~Released'
  BY <1>1, <1>2, <1>6, <1>7, ShapeMoves DEF server
<1>9. /\ \A v \in Workers : HoldsKept(v)
      /\ ClosersKept
  BY <1>2, <1>5, <1>6, MovesFacts
<1>10. OwnInv'
  BY <1>1, <1>2, <1>9, OwnNull
<1>11. \A c \in Contexts : Fresh(c)' => Fresh(c)
  <2> SUFFICES ASSUME NEW c \in Contexts, Fresh(c)' PROVE Fresh(c)
    OBVIOUS
  <2>1. c \in AcceptContexts
    BY DEF Fresh
  <2>2. CASE \E j \in DOMAIN queue' : queue'[j].c = c /\ queue'[j].res = "done"
    <3>1. PICK j \in DOMAIN queue' : queue'[j].c = c /\ queue'[j].res = "done"
      BY <2>2
    <3>2. j + 1 \in DOMAIN queue /\ queue'[j] = queue[j + 1]
      BY <1>3
    <3> QED
      BY <2>1, <3>1, <3>2 DEF Fresh
  <2>3. CASE \E v \in Workers : At(v, "push")' /\ wk'[v].c = c
    <3>1. PICK v \in Workers : At(v, "push")' /\ wk'[v].c = c
      BY <2>3
    <3>2. At(v, "push") /\ wk[v].c = c
      BY <1>6, <3>1 DEF Moves, Same, At
    <3> QED
      BY <2>1, <3>2 DEF Fresh
  <2> QED
    BY <2>2, <2>3 DEF Fresh
<1>12. AcceptsKept
  BY <1>2, <1>11 DEF AcceptsKept, Accepting
<1>13. HandleInv'
  <2>1. HandleInv
    BY <1>8 DEF IInv
  <2> QED
    BY <1>1, <1>2, <1>9, <1>12, <2>1, HandleKeep, SocketsSame
<1>14. StopInv'
  <2>1. Cardinality(NullsOf(queue')) = Cardinality(NullsOf(queue)) - 1
    BY <1>2, <1>3, NullsTail
  <2>2. Cardinality(Nulls') = Cardinality(Nulls) - 1 /\ Cardinality(Nulls) \in Nat
    BY <1>1, <2>1, NullsNat DEF Nulls, NullsOf
  <2>3. w \in Ending /\ Ending' = Ending \ {w}
    BY <1>2, <1>6 DEF Ending, At, Moves, Same
  <2>4. IsFiniteSet(Ending)
    BY Constants, FS_Subset DEF Ending
  <2>5. Cardinality(Ending') = Cardinality(Ending) - 1 /\ Cardinality(Ending) \in Nat
    BY <2>3, <2>4, FS_RemoveElement, FS_CardinalityType
  <2>6. app' = app
    BY <1>2 DEF server
  <2> QED
    BY <1>1, <2>2, <2>5, <2>6 DEF StopInv
<1>15. TypeOK'
  BY <1>1, <1>2, <1>3, <1>6, Types, TypesPrime DEF server, accepts, Moves
<1> QED
  BY <1>8, <1>10, <1>13, <1>14, <1>15 DEF IInv

\* CompleteAccept lists the socket.
LEMMA PushStep ==
  ASSUME IInv, NEW w \in Workers, PushClientSocket(w) PROVE IInv'
<1>1. TypeOK /\ ShapeInv /\ OwnInv
  BY DEF IInv
<1>2. wk[w] \in WorkerState /\ WorkerOK(wk[w]) /\ wk[w].pc = "push"
  BY <1>1, Locals DEF PushClientSocket, At
<1>3. /\ wk[w].ret = "release" /\ Holds(w) /\ wk[w].c \in AcceptContexts
      /\ wk[w].pc \in BusyPcs
  BY <1>2 DEF WorkerOK, WorkerState, Holds, At, BusyPcs
<1>4. /\ Goto(w, "setup") /\ queue' = queue /\ ServerSame /\ "setup" \in Pcs
      /\ sock' = sock /\ ctx' = ctx /\ posted' = posted /\ pool' = pool
  BY DEF PushClientSocket, ServerSame, server, io, Pcs
<1>5. QuietMove(w, "setup", wk[w].c, wk[w].x, wk[w].ret)
  BY <1>3, <1>4, QuietGoto
<1>6. /\ ShapeInv' /\ StopInv' /\ HandleInv
      /\ ClosersKept /\ \A v \in Workers : HoldsKept(v)
      /\ \A z \in Contexts : Fresh(z)' => Fresh(z)
  BY <1>5, QuietFacts
<1>7. OwnInv'
  BY <1>1, <1>4, <1>6, OwnKeep
<1>8. PICK z \in Contexts : z = wk[w].c
  BY <1>3 DEF Contexts
<1>9. Fresh(z) /\ m_mapAcceptSockQueue' = m_mapAcceptSockQueue \cup {ctx[z].sock}
  BY <1>2, <1>3, <1>8 DEF Fresh, At, PushClientSocket, m_hSocket
<1>10. ~Fresh(z)'
  <2>0. z # NULL
    BY Constants
  <2>1. \A j \in DOMAIN queue : queue[j].c # z
    BY <1>1, <1>3, <1>8, <2>0 DEF OwnInv, PortInv
  <2>2. \A v \in Workers : At(v, "push") => Holds(v)
    BY <1>1, Types DEF At, Holds, ShapeInv, WorkerOK, WorkerState
  <2>3. \A v \in Workers \ {w} : Holds(v) => wk[v].c # z
    BY <1>1, <1>3, <1>8, <2>0 DEF OwnInv, HoldInv
  <2>4. \A v \in Workers : At(v, "push")' =>
          v # w /\ At(v, "push") /\ wk'[v].c = wk[v].c
    BY <1>5 DEF QuietMove, Moves, Same, At
  <2> QED
    BY <1>4, <2>1, <2>2, <2>3, <2>4 DEF Fresh
<1>11. HandleInv'
  BY <1>1, <1>4, <1>6, <1>9, <1>10, HandlePush
<1>12. TypeOK'
  <2>1. ctx[z].sock \in Sockets
    BY <1>6, <1>9 DEF HandleInv
  <2>2. m_mapAcceptSockQueue' \subseteq Sockets
    BY <1>1, <1>9, <2>1, Types
  <2> QED
    BY <1>1, <1>5, <2>2, Types, TypesPrime
       DEF PushClientSocket, server, io, accepts, Moves, QuietMove
<1> QED
  BY <1>6, <1>7, <1>11, <1>12 DEF IInv

\* Every step of a worker preserves the invariant.
LEMMA WorkerPreserves ==
  ASSUME IInv, NEW w \in Workers, WorkThread(w) PROVE IInv'
<1>1. CASE CompleteAcceptSetup(w)
  <2>1. {"receive", "find"} \subseteq Pcs /\ "setup" \in BusyPcs
        /\ {"receive", "find"} \subseteq {"find", "releaseFirst", "save", "receive"}
    BY DEF Pcs, BusyPcs
  <2> QED
    BY <1>1, <2>1, SetOptionsStep DEF CompleteAcceptSetup
<1>2. CASE CompleteReceiveStamp(w)
  <2>1. {"save", "releaseFirst"} \subseteq Pcs /\ "stamp" \in BusyPcs
        /\ {"save", "releaseFirst"} \subseteq {"find", "releaseFirst", "save", "receive"}
    BY DEF Pcs, BusyPcs
  <2> QED
    BY <1>2, <2>1, SetOptionsStep DEF CompleteReceiveStamp
<1>3. CASE SendData(w)
  BY <1>3, SendStep DEF SendData
<1>4. CASE CompleteSend(w)
  BY <1>4, SendStep DEF CompleteSend
<1> QED
  BY <1>1, <1>2, <1>3, <1>4, BeginStep, DequeueStep, DequeueNullStep, PushStep,
     NextAcceptStep, SaveStep, NextReceiveStep, FindStep, CloseStep,
     ReleaseStep, ReleaseFirstStep DEF WorkThread

-----------------------------------------------------------------------------
(* ListenThread, the timer, the kernel and the application.                 *)

\* How the application moves while the workers stay where they are.
AppMoves ==
  /\ app'.pc \in {"init", "ready"} => app.pc \in {"init", "ready"}
  /\ Released' => Released \/ \A w \in Workers : wk[w].pc = "end"
  /\ Released => Released'
  /\ suspended' = pauses' + (IF app'.pc \in {"init", "ready"} THEN 1 ELSE 0)

\* The shape when no worker moves.
LEMMA ShapeStays ==
  ASSUME ShapeInv, Stays, AppMoves PROVE ShapeInv'
<1>1. \A v \in Workers : WorkerOK(wk'[v])
  BY DEF ShapeInv, Stays, Same, WorkerOK
<1>2. app'.pc \in {"init", "ready"} => \A w \in Workers : wk'[w].pc = "suspended"
  BY DEF ShapeInv, Stays, Same, AppMoves
<1>3. Released' => \A w \in Workers : wk'[w].pc = "end"
  BY DEF ShapeInv, Stays, Same, AppMoves
<1> QED
  BY <1>1, <1>2, <1>3 DEF ShapeInv, AppMoves

\* The application keeps its place.
LEMMA ServerSameMoves ==
  ASSUME ShapeInv, ServerSame PROVE AppMoves
BY DEF ShapeInv, ServerSame, AppMoves, Released

\* The workers are left alone.
LEMMA WorkersStay == ASSUME TypeOK, wk' = wk PROVE Stays
BY Types DEF Stays, Same

\* A step outside the workers that opens no handle and moves no context.
LEMMA StaysStep ==
  ASSUME IInv, TypeOK', Stays, AppMoves,
         app'.pc = "joinWorkers" => app.pc = "joinWorkers",
         posted' = posted, pool' = pool, queue' = queue,
         \A z \in Contexts : ctx'[z].sock = ctx[z].sock,
         m_mapAcceptSockQueue' \subseteq m_mapAcceptSockQueue,
         ~Released' => SocketsKept
  PROVE  IInv'
<1>0. TypeOK /\ ShapeInv /\ OwnInv /\ StopInv
  BY DEF IInv
<1>1. ShapeInv'
  BY <1>0, ShapeStays
<1>2. /\ \A v \in Workers : HoldsKept(v)
      /\ ClosersKept
      /\ \A v \in Workers : At(v, "end") => At(v, "end")'
      /\ \A z \in Contexts : Fresh(z)' => Fresh(z)
  BY StaysFacts
<1>3. OwnInv'
  BY <1>0, <1>2, OwnKeep
<1>4. AcceptsKept
  BY <1>2 DEF AcceptsKept, Accepting
<1>5. ~Released' => HandleInv'
  <2>1. ~Released' => ~Released
    BY DEF AppMoves
  <2> QED
    BY <1>0, <1>2, <1>4, <2>1, HandleKeep DEF IInv
<1>6. StopInv'
  <2>1. Nulls' = Nulls
    BY DEF Nulls
  <2> QED
    BY <1>0, <1>2, <2>1, NullsNat, StopKeep
<1> QED
  BY <1>1, <1>3, <1>5, <1>6 DEF IInv

\* ListenThread waits, or ends.
LEMMA ListenStep ==
  ASSUME IInv, ListenWait \/ ListenEnd PROVE IInv'
<1>0. TypeOK /\ ShapeInv
  BY DEF IInv
<1>1. /\ UNCHANGED <<sock, idle, m_mapAcceptSockQueue, ctx, io, wk, clients,
                     app, suspended, pauses, wronged>>
  BY DEF ListenWait, ListenEnd, server, accepts
<1>2. listener' \in {"wait", "end"}
  BY <1>0, Types DEF ListenWait, ListenEnd, server
<1>3. semaphore' \in 0..MaxPostAccepts /\ batch' \in 0..MaxPostAccepts
  <2>0. /\ semaphore \in 0..MaxPostAccepts /\ batch \in 0..MaxPostAccepts
        /\ MaxPostAccepts \in Nat
    BY <1>0, Types, Constants
  <2>1. CASE ListenEnd
    BY <2>0, <2>1 DEF ListenEnd, accepts
  <2>2. CASE ListenWait
    <3>1. CASE batch' = MaxPostAccepts /\ semaphore' = semaphore
      BY <2>0, <3>1
    <3>2. CASE semaphore > 0 /\ semaphore' = semaphore - 1 /\ batch' = 1
      BY <2>0, <3>2
    <3> QED
      BY <2>2, <3>1, <3>2 DEF ListenWait
  <2> QED
    BY <2>1, <2>2
<1>4. TypeOK'
  BY <1>0, <1>1, <1>2, <1>3, Types, TypesPrime DEF io
<1>5. Stays /\ AppMoves
  BY <1>0, <1>1, WorkersStay, ServerSameMoves DEF ServerSame
<1> QED
  BY <1>1, <1>4, <1>5, StaysStep, SocketsSame DEF io

\* One accept of a batch.
LEMMA PostAcceptStep ==
  ASSUME IInv, PostAcceptOperation PROVE IInv'
<1>0. TypeOK /\ ShapeInv /\ OwnInv /\ StopInv
  BY DEF IInv
<1>1. /\ UNCHANGED <<idle, m_mapAcceptSockQueue, queue, wk, semaphore, clients,
                     server, wronged>>
      /\ IssueAcceptOperation \/ IssueAcceptFails
  BY DEF PostAcceptOperation
<1>2. Stays /\ AppMoves /\ app' = app
  BY <1>0, <1>1, WorkersStay, ServerSameMoves DEF ServerSame, server
<1>3. /\ \A v \in Workers : HoldsKept(v)
      /\ ClosersKept
      /\ \A v \in Workers : At(v, "end") => At(v, "end")'
      /\ \A z \in Contexts : Fresh(z)' => Fresh(z)
  BY <1>1, <1>2, StaysFacts
<1>4. /\ OwnInv' /\ (HandleInv => HandleInv')
      /\ DOMAIN pool' = Kinds /\ \A h \in Kinds : pool'[h] \in Seq(Contexts)
      /\ posted' \subseteq Contexts /\ ctx' \in [Contexts -> ContextState]
      /\ sock' \in [Sockets -> {"closed", "accepting", "connected"}]
  BY <1>0, <1>1, <1>3, AcceptIssued, AcceptFailed
<1>5. batch' \in 0..MaxPostAccepts
  <2>1. batch \in 0..MaxPostAccepts /\ MaxPostAccepts \in Nat
        /\ batch > 0 /\ batch' = batch - 1
    BY <1>0, Types, Constants DEF PostAcceptOperation
  <2> QED
    BY <2>1
<1>6. TypeOK'
  BY <1>0, <1>1, <1>4, <1>5, Types, TypesPrime DEF server
<1>7. ~Released' => HandleInv'
  BY <1>2, <1>4 DEF IInv, Released
<1>8. StopInv'
  <2>1. Nulls' = Nulls
    BY <1>1 DEF Nulls
  <2> QED
    BY <1>0, <1>2, <1>3, <2>1, NullsNat, StopKeep
<1> QED
  BY <1>0, <1>2, <1>4, <1>6, <1>7, <1>8, ShapeStays DEF IInv

\* The timer closes the idle connections of the map.
LEMMA TimerStep ==
  ASSUME IInv, ConnectTimeOutCheck PROVE IInv'
<1>0. TypeOK /\ ShapeInv /\ wk \in [Workers -> WorkerState]
  BY Types DEF IInv
<1> DEFINE recent == {s \in m_mapAcceptSockQueue : idle[s] = "recent"}
           stale == {s \in m_mapAcceptSockQueue : sock[s] = "closed"}
<1>b. PICK kept \in SUBSET stale :
        LET expired == m_mapAcceptSockQueue \ (recent \cup kept) IN
        /\ Closed(expired, wk)
        /\ m_mapAcceptSockQueue' = m_mapAcceptSockQueue \ expired
        /\ wronged' = (wronged \/ \E s \in expired \ stale : idle[s] = "none")
  BY DEF ConnectTimeOutCheck
<1> DEFINE expired == m_mapAcceptSockQueue \ (recent \cup kept)
<1>a. wronged' \in BOOLEAN
  BY <1>b, Zenon
<1>1. /\ Closed(expired, wk)
      /\ m_mapAcceptSockQueue' = m_mapAcceptSockQueue \ expired
      /\ expired \subseteq m_mapAcceptSockQueue
      /\ UNCHANGED <<io, accepts, server>>
  BY <1>b DEF ConnectTimeOutCheck
<1> HIDE DEF expired
<1>2. /\ sock' \in [Sockets -> {"closed", "accepting", "connected"}]
      /\ idle' \in [Sockets -> {"none", "recent", "old"}]
      /\ ctx' \in [Contexts -> ContextState]
      /\ wk' \in [Workers -> WorkerState]
      /\ \A s \in Sockets :
           sock'[s] = IF s \in expired THEN "closed" ELSE sock[s]
      /\ \A c \in Contexts : ctx'[c].sock = ctx[c].sock
      /\ \A v \in Workers :
           /\ wk'[v].pc = wk[v].pc /\ wk'[v].c = wk[v].c
           /\ wk'[v].x = wk[v].x /\ wk'[v].ret = wk[v].ret
  BY <1>0, <1>1, ClosedFacts
<1>3. Stays
  BY <1>2 DEF Stays, Same
<1>4. AppMoves /\ app' = app
  BY <1>0, <1>1, ServerSameMoves DEF ServerSame, server
<1>5. m_mapAcceptSockQueue' \subseteq m_mapAcceptSockQueue
  BY <1>1
<1>6. TypeOK'
  BY <1>0, <1>1, <1>a, <1>2, <1>5, Types, TypesPrime DEF server, io, accepts
<1>7. ~Released' => SocketsKept
  <2> SUFFICES ASSUME ~Released' PROVE SocketsKept
    OBVIOUS
  <2>1. HandleInv
    BY <1>4 DEF Released, IInv
  <2>2. \A s \in expired : \A v \in Workers : ~Closer(v, s)
    BY <1>1, <2>1 DEF HandleInv, Closer
  <2>3. \A s \in expired : \A v \in Workers : ~Closer(v, s)'
    BY <1>3, <2>2 DEF Closer, Stays, Same, At
  <2> QED
    BY <1>1, <1>2, <2>3 DEF SocketsKept
<1> QED
  BY <1>1, <1>2, <1>3, <1>4, <1>5, <1>6, <1>7, StaysStep DEF io

\* Time passes.
LEMMA TimePasses ==
  ASSUME IInv, NEW s \in Sockets, TwentyMinutesPass(s) PROVE IInv'
<1>0. TypeOK /\ ShapeInv
  BY DEF IInv
<1>1. UNCHANGED <<sock, m_mapAcceptSockQueue, ctx, io, wk, accepts, server,
                  wronged>>
  BY DEF TwentyMinutesPass
<1>2. idle' \in [Sockets -> {"none", "recent", "old"}]
  BY <1>0 DEF TwentyMinutesPass, TypeOK
<1>3. TypeOK'
  BY <1>0, <1>1, <1>2, Types, TypesPrime DEF io, accepts, server
<1>4. Stays /\ AppMoves
  BY <1>0, <1>1, WorkersStay, ServerSameMoves DEF ServerSame, server
<1> QED
  BY <1>1, <1>3, <1>4, StaysStep, SocketsSame DEF io, server

\* The kernel completes an operation.
LEMMA CompleteStep ==
  ASSUME IInv, NEW z \in Contexts, Complete(z) PROVE IInv'
<1>0. TypeOK /\ ShapeInv /\ OwnInv /\ StopInv
  BY DEF IInv
<1>1. PICK res \in {"done", "zero", "error"} :
        /\ (Kind(z) = "accept" /\ Released) => res = "error"
        /\ queue' = Append(queue, [c |-> z, res |-> res])
        /\ IF Kind(z) = "accept" /\ res = "done"
             THEN /\ sock' = [sock EXCEPT ![ctx[z].sock] = "connected"]
                  /\ clients < MaxClients /\ clients' = clients + 1
             ELSE UNCHANGED <<sock, clients>>
  BY DEF Complete
<1>2. /\ z \in posted /\ posted' = posted \ {z}
      /\ UNCHANGED <<idle, m_mapAcceptSockQueue, ctx, pool, wk, semaphore,
                     batch, server, wronged>>
  BY DEF Complete
<1>3. Stays /\ AppMoves /\ app' = app
  BY <1>0, <1>2, WorkersStay, ServerSameMoves DEF ServerSame, server
<1>4. /\ \A v \in Workers : HoldsKept(v)
      /\ ClosersKept
      /\ \A v \in Workers : At(v, "end") => At(v, "end")'
  BY <1>3, StaysFacts
<1>5. /\ OwnInv' /\ queue' \in Seq(Packet)
      /\ \A j \in DOMAIN queue' :
           \/ j \in DOMAIN queue /\ queue'[j] = queue[j]
           \/ queue'[j] = [c |-> z, res |-> res]
  BY <1>0, <1>1, <1>2, <1>4, OwnComplete
<1>6. \A c \in Contexts : Fresh(c)' =>
        Fresh(c) \/ (c = z /\ z \in AcceptContexts /\ res = "done")
  <2>1. \A v \in Workers : At(v, "push")' => At(v, "push") /\ wk'[v].c = wk[v].c
    BY <1>3 DEF Stays, Same, At
  <2>2. \A j \in DOMAIN queue' : queue'[j].res = "done" =>
          \/ j \in DOMAIN queue /\ queue[j].res = "done" /\ queue[j].c = queue'[j].c
          \/ res = "done" /\ queue'[j].c = z
    BY <1>5
  <2> QED
    BY <2>1, <2>2 DEF Fresh
<1>7. sock' \in [Sockets -> {"closed", "accepting", "connected"}]
      /\ clients' \in 0..MaxClients
  <2>0. /\ sock \in [Sockets -> {"closed", "accepting", "connected"}]
        /\ clients \in 0..MaxClients /\ MaxClients \in Nat
    BY <1>0, Types, Constants
  <2>1. CASE Kind(z) = "accept" /\ res = "done"
    BY <2>0, <2>1, <1>1
  <2>2. CASE ~(Kind(z) = "accept" /\ res = "done")
    BY <2>0, <2>2, <1>1
  <2> QED
    BY <2>1, <2>2
<1>8. TypeOK'
  <2>1. posted' \subseteq Contexts
    BY <1>0, <1>2, Types
  <2> QED
    BY <1>0, <1>2, <1>5, <1>7, <2>1, Types, TypesPrime DEF server
<1>9. ~Released' => HandleInv'
  <2> SUFFICES ASSUME ~Released' PROVE HandleInv'
    OBVIOUS
  <2>1. HandleInv
    BY <1>3 DEF Released, IInv
  <2>2. CASE Kind(z) = "accept" /\ res = "done"
    <3>1. z \in AcceptContexts
      BY <2>2, KindOf
    <3>2. sock' = [sock EXCEPT ![ctx[z].sock] = "connected"]
      BY <2>2, <1>1
    <3>3. \A c \in Contexts : Fresh(c)' => c = z \/ Fresh(c)
      BY <1>6
    <3>4. /\ posted' = posted \ {z} /\ ctx' = ctx /\ z \in posted
          /\ m_mapAcceptSockQueue' = m_mapAcceptSockQueue
      BY <1>2
    <3> QED
      BY <1>0, <1>4, <2>1, <3>1, <3>2, <3>3, <3>4, HandleComplete
  <2>3. CASE ~(Kind(z) = "accept" /\ res = "done")
    <3>1. sock' = sock
      BY <2>3, <1>1
    <3>2. \A c \in Contexts : Fresh(c)' => Fresh(c)
      BY <2>3, <1>6, KindOf
    <3>3. AcceptsKept
      BY <1>2, <3>2 DEF AcceptsKept, Accepting
    <3>4. m_mapAcceptSockQueue' \subseteq m_mapAcceptSockQueue
      BY <1>2
    <3> QED
      BY <1>0, <1>4, <2>1, <3>1, <3>3, <3>4, HandleKeep, SocketsSame
  <2> QED
    BY <2>2, <2>3
<1>10. StopInv'
  <2>0. queue \in Seq(Packet) /\ [c |-> z, res |-> res] \in Packet /\ z # NULL
    BY <1>0, Types, Constants DEF Packet
  <2>1. /\ DOMAIN queue' = 1..(Len(queue) + 1) /\ DOMAIN queue = 1..Len(queue)
        /\ \A i \in 1..Len(queue) : queue'[i] = queue[i]
        /\ queue'[Len(queue) + 1] = [c |-> z, res |-> res] /\ Len(queue) \in Nat
    BY <2>0, <1>1, AppendFacts
  <2>2. queue'[Len(queue) + 1].c # NULL
    BY <2>0, <2>1
  <2>3. Nulls' = Nulls
    BY <2>1, <2>2 DEF Nulls
  <2> QED
    BY <1>0, <1>3, <1>4, <2>3, NullsNat, StopKeep
<1> QED
  BY <1>0, <1>3, <1>5, <1>8, <1>9, <1>10, ShapeStays DEF IInv

\* The application's steps that only change its place.
LEMMA AppOnly ==
  ASSUME IInv, NEW l \in {"ready", "run", "file", "joinListener", "walk",
                          "next", "kill", "done", "undefined"},
         app' \in [pc : {"init", "ready", "run", "file", "joinListener",
                         "joinWorkers", "walk", "next", "kill", "done",
                         "undefined"},
                   s : Sockets \cup {NULL}, left : SUBSET Sockets],
         app'.pc = l, AppMoves, suspended' \in 0..(MaxPauses + 1),
         pauses' \in 0..MaxPauses,
         UNCHANGED <<sock, idle, m_mapAcceptSockQueue, ctx, io, wk, accepts,
                     listener, wronged>>
  PROVE  IInv'
<1>0. TypeOK /\ ShapeInv
  BY DEF IInv
<1>1. TypeOK'
  BY <1>0, Types, TypesPrime DEF io, accepts
<1>2. Stays
  BY <1>0, WorkersStay
<1> QED
  BY <1>1, <1>2, StaysStep, SocketsSame DEF io

\* The application's record with another place.
AppState ==
  [pc : {"init", "ready", "run", "file", "joinListener", "joinWorkers", "walk",
         "next", "kill", "done", "undefined"},
   s : Sockets \cup {NULL}, left : SUBSET Sockets]

\* A jump of the application.
LEMMA AppRecord ==
  ASSUME TypeOK, NEW l \in {"init", "ready", "run", "file", "joinListener",
                            "joinWorkers", "walk", "next", "kill", "done",
                            "undefined"}, AppGoto(l)
  PROVE  app' \in AppState /\ app'.pc = l /\ app'.left = app.left
<1>1. app \in AppState
  BY Types DEF AppState
<1> QED
  BY <1>1 DEF AppGoto, AppState

\* InitServer, PauseServer, SendFile and StopServer.
LEMMA AppBefore ==
  ASSUME IInv, InitServerDone \/ PauseServer \/ (\E s \in Sockets : SendFile(s))
               \/ StopServer
  PROVE  IInv'
<1>0. /\ TypeOK /\ ShapeInv /\ app \in AppState /\ MaxPauses \in Nat
      /\ suspended \in 0..(MaxPauses + 1) /\ pauses \in 0..MaxPauses
      /\ suspended = pauses + (IF app.pc \in {"init", "ready"} THEN 1 ELSE 0)
  BY Types, Constants DEF IInv, AppState, ShapeInv
<1>1. CASE InitServerDone
  <2>1. app' \in AppState /\ app'.pc = "ready" /\ app.pc = "init"
    BY <1>0, <1>1, AppRecord DEF InitServerDone
  <2>2. UNCHANGED <<sock, idle, m_mapAcceptSockQueue, ctx, io, wk, accepts,
                    listener, suspended, pauses, wronged>>
    BY <1>1 DEF InitServerDone
  <2>3. AppMoves
    BY <1>0, <2>1, <2>2 DEF AppMoves, Released
  <2> QED
    BY <1>0, <2>1, <2>2, <2>3, AppOnly DEF AppState
<1>2. CASE PauseServer
  <2>1. app' = app /\ app.pc = "ready"
    BY <1>2 DEF PauseServer
  <2>2. UNCHANGED <<sock, idle, m_mapAcceptSockQueue, ctx, io, wk, accepts,
                    listener, wronged>>
    BY <1>2 DEF PauseServer
  <2>3. /\ pauses < MaxPauses /\ pauses' = pauses + 1
        /\ suspended' = suspended + 1
    BY <1>2 DEF PauseServer
  <2>4. AppMoves
    BY <1>0, <2>1, <2>3 DEF AppMoves, Released
  <2>5. suspended' \in 0..(MaxPauses + 1) /\ pauses' \in 0..MaxPauses
    BY <1>0, <2>1, <2>3
  <2> QED
    BY <1>0, <2>1, <2>2, <2>4, <2>5, AppOnly DEF AppState
<1>3. ASSUME NEW s \in Sockets, SendFile(s) PROVE IInv'
  <2>1. app' \in AppState /\ app'.pc = "file" /\ app.pc = "run"
    BY <1>0, <1>3 DEF SendFile, AppState
  <2>2. UNCHANGED <<sock, idle, m_mapAcceptSockQueue, ctx, io, wk, accepts,
                    listener, suspended, pauses, wronged>>
    BY <1>3 DEF SendFile
  <2>3. AppMoves
    BY <1>0, <2>1, <2>2 DEF AppMoves, Released
  <2> QED
    BY <1>0, <2>1, <2>2, <2>3, AppOnly DEF AppState
<1>4. CASE StopServer
  <2>1. app' \in AppState /\ app'.pc = "joinListener" /\ app.pc = "run"
    BY <1>0, <1>4, AppRecord DEF StopServer
  <2>2. UNCHANGED <<sock, idle, m_mapAcceptSockQueue, ctx, io, wk, accepts,
                    listener, suspended, pauses, wronged>>
    BY <1>4 DEF StopServer
  <2>3. AppMoves
    BY <1>0, <2>1, <2>2 DEF AppMoves, Released
  <2> QED
    BY <1>0, <2>1, <2>2, <2>3, AppOnly DEF AppState
<1> QED
  BY <1>1, <1>2, <1>3, <1>4

\* StartServer resumes ListenThread and the workers.
LEMMA StartStep ==
  ASSUME IInv, StartServer PROVE IInv'
<1>0. /\ TypeOK /\ ShapeInv /\ OwnInv /\ app.pc = "ready" /\ MaxPauses \in Nat
      /\ suspended \in 0..(MaxPauses + 1) /\ pauses \in 0..MaxPauses
  BY Types, Constants DEF IInv, StartServer
<1>1. app' \in AppState /\ app'.pc = "run"
  BY <1>0, AppRecord DEF StartServer
<1>2. /\ suspended' = suspended - 1
      /\ UNCHANGED <<sock, idle, m_mapAcceptSockQueue, ctx, io, accepts,
                     listener, pauses, wronged>>
  BY DEF StartServer
<1>3. PICK r \in WorkerState :
        /\ r = [IdleWorker EXCEPT !.pc = "start"] /\ r.pc = "start"
        /\ r.c = NULL /\ r.ret = "release"
  <2> DEFINE r == [IdleWorker EXCEPT !.pc = "start"]
  <2>1. r \in WorkerState /\ r.pc = "start" /\ r.c = NULL /\ r.ret = "release"
    BY DEF IdleWorker, WorkerState
  <2> QED
    BY <2>1
<1>4. wk' \in [Workers -> WorkerState] /\ \A v \in Workers : wk'[v] = r
  BY <1>3 DEF StartServer
<1>5. ShapeInv'
  <2>1. WorkerOK(r)
    BY <1>3 DEF WorkerOK, IdlePcs, BusyPcs
  <2>2. \A v \in Workers : WorkerOK(wk'[v])
    BY <2>1, <1>4
  <2>3. ~Released' /\ app'.pc \notin {"init", "ready"}
    BY <1>1 DEF Released
  <2>4. suspended' = pauses'
    BY <1>0, <1>2 DEF ShapeInv
  <2> QED
    BY <1>0, <1>2, <2>2, <2>3, <2>4 DEF ShapeInv
<1>6. suspended' \in 0..(MaxPauses + 1)
  BY <1>0, <1>2 DEF ShapeInv
<1>7. TypeOK'
  BY <1>0, <1>1, <1>2, <1>4, <1>6, Types, TypesPrime DEF io, accepts, AppState
<1>8. (\A v \in Workers : HoldsKept(v)) /\ ClosersKept
  BY <1>3, <1>4 DEF HoldsKept, ClosersKept, At
<1>9. OwnInv'
  BY <1>0, <1>2, <1>8, OwnKeep DEF io
<1>10. \A c \in Contexts : Fresh(c)' => Fresh(c)
  <2>1. \A v \in Workers : ~At(v, "push")'
    BY <1>3, <1>4 DEF At
  <2> QED
    BY <2>1, <1>2 DEF Fresh, io
<1>11. AcceptsKept
  BY <1>2, <1>10 DEF AcceptsKept, Accepting, io
<1>12. HandleInv'
  <2>1. HandleInv
    BY <1>0 DEF IInv, Released
  <2> QED
    BY <1>0, <1>2, <1>8, <1>11, <2>1, HandleKeep, SocketsSame
<1>13. StopInv'
  BY <1>1 DEF StopInv
<1> QED
  BY <1>5, <1>7, <1>9, <1>12, <1>13 DEF IInv

\* TransmitFile.
LEMMA TransmitStep ==
  ASSUME IInv, TransmitFile PROVE IInv'
<1>0. /\ TypeOK /\ ShapeInv /\ OwnInv /\ app \in AppState /\ app.pc = "file"
      /\ HandleInv
  BY Types DEF IInv, AppState, TransmitFile, Released
<1>1. app' \in AppState /\ app'.pc = "run"
  BY <1>0 DEF TransmitFile, AppState
<1>2. UNCHANGED <<sock, idle, m_mapAcceptSockQueue, queue, wk, accepts,
                  listener, suspended, pauses, wronged>>
  BY DEF TransmitFile
<1>3. Stays /\ AppMoves
  BY <1>0, <1>1, <1>2, WorkersStay DEF AppMoves, Released, ShapeInv
<1>4. /\ \A v \in Workers : HoldsKept(v)
      /\ ClosersKept
      /\ \A z \in Contexts : Fresh(z)' => Fresh(z)
  BY <1>2, <1>3, StaysFacts
<1>5. app.s \in Sockets \cup {NULL} /\ "send" \in Kinds
  BY <1>0 DEF AppState, Kinds
<1>6. CASE Issue("send", app.s)
  <2>1. /\ OwnInv'
        /\ DOMAIN pool' = Kinds /\ \A h \in Kinds : pool'[h] \in Seq(Contexts)
        /\ posted' \subseteq Contexts /\ ctx' \in [Contexts -> ContextState]
    BY <1>0, <1>2, <1>4, <1>5, <1>6, IssueFacts
  <2>2. PICK z \in Contexts :
          /\ Kind(z) = "send" /\ posted' = posted \cup {z}
          /\ ctx' = [ctx EXCEPT ![z] = [sock |-> app.s, live |-> TRUE]]
    BY <1>0, <1>2, <1>4, <1>5, <1>6, IssueFacts
  <2>3. AcceptsKept
    <3>1. Kind(z) # "accept"
      BY <2>2
    <3> QED
      BY <1>0, <1>4, <2>2, <3>1, OtherIssue
  <2>4. HandleInv'
    BY <1>0, <1>2, <1>4, <2>3, HandleKeep, SocketsSame
  <2>5. TypeOK'
    BY <1>0, <1>1, <1>2, <2>1, Types, TypesPrime DEF accepts, AppState
  <2>6. StopInv'
    BY <1>1 DEF StopInv
  <2> QED
    BY <1>0, <1>3, <2>1, <2>4, <2>5, <2>6, ShapeStays DEF IInv
<1>7. CASE UNCHANGED <<ctx, posted, pool>>
  <2>1. TypeOK'
    BY <1>0, <1>1, <1>2, <1>7, Types, TypesPrime DEF accepts, AppState
  <2> QED
    BY <1>1, <1>2, <1>3, <1>7, <2>1, StaysStep, SocketsSame
<1> QED
  BY <1>6, <1>7 DEF TransmitFile, IssueSendOperation

\* StopServer posts a packet for each worker.
LEMMA PostNullsStep ==
  ASSUME IInv, StopPostNulls PROVE IInv'
<1>0. /\ TypeOK /\ ShapeInv /\ OwnInv /\ app.pc = "joinListener" /\ HandleInv
      /\ IsFiniteSet(Workers)
  BY Constants DEF IInv, StopPostNulls, Released
<1> DEFINE n == Cardinality(Workers)
<1>1. app' \in AppState /\ app'.pc = "joinWorkers"
  BY <1>0, AppRecord DEF StopPostNulls
<1>2. /\ queue' = queue \o NullPackets(n)
      /\ UNCHANGED <<sock, idle, m_mapAcceptSockQueue, ctx, posted, pool, wk,
                     accepts, listener, suspended, pauses, wronged>>
  BY DEF StopPostNulls
<1>n. n \in Nat
  BY <1>0, FS_CardinalityType
<1> HIDE DEF n
<1>3. Stays /\ AppMoves
  BY <1>0, <1>1, <1>2, WorkersStay DEF AppMoves, Released, ShapeInv
<1>4. ClosersKept
  BY <1>3, StaysFacts
<1>5. /\ OwnInv' /\ queue' \in Seq(Packet)
      /\ \A j \in DOMAIN queue' :
           \/ j \in DOMAIN queue /\ queue'[j] = queue[j]
           \/ queue'[j].c = NULL
      /\ \A j \in 1..n : Len(queue) + j \in DOMAIN queue'
                         /\ queue'[Len(queue) + j].c = NULL
  BY <1>0, <1>2, <1>n, OwnNulls
<1>6. \A c \in Contexts : Fresh(c)' => Fresh(c)
  <2>1. \A v \in Workers : At(v, "push")' => At(v, "push") /\ wk'[v].c = wk[v].c
    BY <1>3 DEF Stays, Same, At
  <2>2. \A c \in AcceptContexts : c # NULL
    BY Constants DEF Contexts
  <2> QED
    BY <2>1, <2>2, <1>5 DEF Fresh
<1>7. AcceptsKept
  BY <1>2, <1>6 DEF AcceptsKept, Accepting
<1>8. HandleInv'
  BY <1>0, <1>2, <1>4, <1>7, HandleKeep, SocketsSame
<1>9. TypeOK'
  BY <1>0, <1>1, <1>2, <1>5, Types, TypesPrime DEF accepts, AppState
<1>10. StopInv'
  <2>1. IsFiniteSet(NullsOf(queue')) /\ Cardinality(NullsOf(queue')) \in Nat
    BY <1>5, NullsFinite
  <2>2. Len(queue) \in Nat
    BY <1>0, Types
  <2> DEFINE f == [j \in 1..n |-> Len(queue) + j]
  <2>3. f \in Injection(1..n, NullsOf(queue'))
    <3>1. f \in [1..n -> NullsOf(queue')]
      BY <1>5 DEF NullsOf
    <3>2. \A i, j \in 1..n : f[i] = f[j] => i = j
      BY <2>2
    <3> QED
      BY <3>1, <3>2 DEF Injection, IsInjective
  <2>4. Cardinality(1..n) <= Cardinality(NullsOf(queue'))
    BY <2>1, <2>3, FS_Injection
  <2>5. Cardinality(1..n) = n
    BY <1>n, FS_Interval
  <2>6. Ending' \subseteq Workers
    BY DEF Ending
  <2>7. Cardinality(Ending') <= n /\ Cardinality(Ending') \in Nat
    BY <1>0, <2>6, FS_Subset, FS_CardinalityType DEF n
  <2>8. Nulls' = NullsOf(queue')
    BY DEF Nulls, NullsOf
  <2> QED
    BY <1>n, <2>1, <2>4, <2>5, <2>7, <2>8 DEF StopInv
<1> QED
  BY <1>0, <1>3, <1>5, <1>8, <1>9, <1>10, ShapeStays DEF IInv

\* ReleaseResource: the walk over the map, and the end.
LEMMA ReleaseResourceStep ==
  ASSUME IInv, ReleaseResource \/ ReleaseNext PROVE IInv'
<1>0. /\ TypeOK /\ ShapeInv /\ app \in AppState
      /\ m_mapAcceptSockQueue \subseteq Sockets
      /\ suspended \in 0..(MaxPauses + 1) /\ pauses \in 0..MaxPauses
  BY Types DEF IInv, AppState
<1>1. UNCHANGED <<sock, idle, m_mapAcceptSockQueue, ctx, io, wk, accepts,
                  listener, suspended, pauses, wronged>>
  BY DEF ReleaseResource, ReleaseNext
<1>2. CASE ReleaseResource
  <2>1. app' \in AppState /\ app'.pc = "walk" /\ app.pc = "joinWorkers"
    BY <1>0, <1>2 DEF ReleaseResource, AppState
  <2>2. \A w \in Workers : wk[w].pc = "end"
    BY <1>2 DEF ReleaseResource, At
  <2>3. AppMoves
    BY <1>0, <1>1, <2>1, <2>2 DEF AppMoves, Released, ShapeInv
  <2> QED
    BY <1>0, <1>1, <2>1, <2>3, AppOnly DEF AppState
<1>3. CASE ReleaseNext
  <2>1. /\ app' \in AppState /\ app'.pc \in {"walk", "undefined"}
        /\ app.pc = "next"
    BY <1>0, <1>3 DEF ReleaseNext, AppState
  <2>3. AppMoves
    BY <1>0, <1>1, <2>1 DEF AppMoves, Released, ShapeInv
  <2> QED
    BY <1>0, <1>1, <2>1, <2>3, AppOnly DEF AppState
<1> QED
  BY <1>2, <1>3

\* One socket of the map is closed, or the map is cleared.
LEMMA ReleaseSocketStep ==
  ASSUME IInv, ReleaseSocket PROVE IInv'
<1>0. /\ TypeOK /\ ShapeInv /\ app \in AppState /\ app.pc = "walk"
      /\ m_mapAcceptSockQueue \subseteq Sockets
      /\ wk \in [Workers -> WorkerState]
      /\ UNCHANGED <<io, accepts, listener, suspended, pauses, wronged>>
  BY Types DEF IInv, AppState, ReleaseSocket
<1>1. ASSUME NEW s \in app.left \cap m_mapAcceptSockQueue, Closed({s}, wk),
             app' = [pc |-> "next", s |-> s, left |-> app.left \ {s}],
             UNCHANGED m_mapAcceptSockQueue
      PROVE  IInv'
  <2>1. /\ sock' \in [Sockets -> {"closed", "accepting", "connected"}]
        /\ idle' \in [Sockets -> {"none", "recent", "old"}]
        /\ ctx' \in [Contexts -> ContextState]
        /\ wk' \in [Workers -> WorkerState]
        /\ \A c \in Contexts : ctx'[c].sock = ctx[c].sock
        /\ \A v \in Workers :
             /\ wk'[v].pc = wk[v].pc /\ wk'[v].c = wk[v].c
             /\ wk'[v].x = wk[v].x /\ wk'[v].ret = wk[v].ret
    BY <1>0, <1>1, ClosedFacts
  <2>2. Stays
    BY <2>1 DEF Stays, Same
  <2>3. app' \in AppState /\ app'.pc = "next"
    BY <1>0, <1>1 DEF AppState
  <2>4. AppMoves /\ Released'
    BY <1>0, <2>3 DEF AppMoves, Released, ShapeInv
  <2>5. TypeOK'
    BY <1>0, <1>1, <2>1, <2>3, Types, TypesPrime DEF io, accepts, AppState
  <2> QED
    BY <1>0, <1>1, <2>1, <2>2, <2>3, <2>4, <2>5, StaysStep DEF io
<1>2. ASSUME m_mapAcceptSockQueue' = {}, AppGoto("kill"),
             UNCHANGED <<sock, idle, ctx, wk>>
      PROVE  IInv'
  <2>1. app' \in AppState /\ app'.pc = "kill"
    BY <1>0, <1>2, AppRecord
  <2>2. AppMoves /\ Released'
    BY <1>0, <2>1 DEF AppMoves, Released, ShapeInv
  <2>3. Stays
    BY <1>0, <1>2, WorkersStay
  <2>4. TypeOK'
    BY <1>0, <1>2, <2>1, Types, TypesPrime DEF io, accepts, AppState
  <2> QED
    BY <1>0, <1>2, <2>1, <2>2, <2>3, <2>4, StaysStep DEF io
<1> QED
  BY <1>1, <1>2 DEF ReleaseSocket

\* The pools are destroyed.
LEMMA DestroyStep ==
  ASSUME IInv, DestroyContextPool PROVE IInv'
<1>0. TypeOK /\ ShapeInv /\ OwnInv /\ app.pc = "kill"
  BY DEF IInv, DestroyContextPool
<1>1. app' \in AppState /\ app'.pc = "done"
  BY <1>0, AppRecord DEF DestroyContextPool
<1>2. /\ pool' = [k \in Kinds |-> <<>>]
      /\ UNCHANGED <<sock, idle, m_mapAcceptSockQueue, ctx, posted, queue, wk,
                     accepts, listener, suspended, pauses, wronged>>
  BY DEF DestroyContextPool
<1>3. Stays /\ AppMoves /\ Released'
  BY <1>0, <1>1, <1>2, WorkersStay DEF AppMoves, Released, ShapeInv
<1>4. OwnInv'
  BY <1>0, <1>2, OwnDestroy
<1>5. TypeOK'
  <2>1. DOMAIN pool' = Kinds /\ \A k \in Kinds : pool'[k] \in Seq(Contexts)
    BY <1>2
  <2> QED
    BY <1>0, <1>1, <1>2, <2>1, Types, TypesPrime DEF accepts, AppState
<1>6. StopInv'
  BY <1>1 DEF StopInv
<1> QED
  BY <1>0, <1>3, <1>4, <1>5, <1>6, ShapeStays DEF IInv

-----------------------------------------------------------------------------
(* The initial state, every step, and the theorems.                         *)

\* The contexts of a pool, each once.
LEMMA PoolAtStart ==
  ASSUME NEW S, IsFiniteSet(S)
  PROVE  /\ InitContextPool(S) \in Seq(S)
         /\ \A i, j \in DOMAIN InitContextPool(S) :
              InitContextPool(S)[i] = InitContextPool(S)[j] => i = j
<1> DEFINE n == Cardinality(S)
<1>1. n \in Nat
  BY FS_CardinalityType
<1>2. IsFiniteSet(1..n) /\ Cardinality(1..n) = n
  BY <1>1, FS_Interval
<1>3. ExistsBijection(1..n, S)
  BY <1>1, <1>2, FS_SameCardinalityBij
<1>4. \E f \in [1..n -> S] : IsInjective(f)
  BY <1>3 DEF ExistsBijection, Bijection, Injection
<1>5. /\ InitContextPool(S) \in [1..n -> S] /\ IsInjective(InitContextPool(S))
  BY <1>4 DEF InitContextPool, SetToSeq
<1>6. InitContextPool(S) \in Seq(S)
  BY <1>1, <1>5
<1> QED
  BY <1>5, <1>6 DEF IsInjective

\* The initial state satisfies the invariant.
LEMMA InitIInv == Init => IInv
<1> SUFFICES ASSUME Init PROVE IInv
  OBVIOUS
<1>0. MaxPostAccepts \in Nat /\ MaxClients \in Nat /\ MaxPauses \in Nat
  BY Constants
<1>1. PICK r \in WorkerState :
        /\ r = [IdleWorker EXCEPT !.pc = "suspended"] /\ r.pc = "suspended"
        /\ r.c = NULL /\ r.ret = "release"
  <2> DEFINE r == [IdleWorker EXCEPT !.pc = "suspended"]
  <2>1. /\ r \in WorkerState /\ r.pc = "suspended" /\ r.c = NULL
        /\ r.ret = "release"
    BY DEF IdleWorker, WorkerState
  <2> QED
    BY <2>1
<1>2. wk \in [Workers -> WorkerState] /\ \A v \in Workers : wk[v] = r
  BY <1>1 DEF Init
<1>3. /\ DOMAIN pool = Kinds
      /\ \A k \in Kinds :
           /\ pool[k] \in Seq(Contexts)
           /\ \A i \in DOMAIN pool[k] : Kind(pool[k][i]) = k
           /\ \A i, j \in DOMAIN pool[k] : pool[k][i] = pool[k][j] => i = j
  <2>1. DOMAIN pool = Kinds /\ pool["accept"] = InitContextPool(AcceptContexts)
        /\ pool["receive"] = InitContextPool(ReceiveContexts)
        /\ pool["send"] = InitContextPool(SendContexts)
    BY DEF Init, Kinds
  <2>2. ASSUME NEW k \in Kinds, NEW S, IsFiniteSet(S), S \subseteq Contexts,
               pool[k] = InitContextPool(S), \A c \in S : Kind(c) = k
        PROVE  /\ pool[k] \in Seq(Contexts)
               /\ \A i \in DOMAIN pool[k] : Kind(pool[k][i]) = k
               /\ \A i, j \in DOMAIN pool[k] : pool[k][i] = pool[k][j] => i = j
    <3>1. /\ pool[k] \in Seq(S)
          /\ \A i, j \in DOMAIN pool[k] : pool[k][i] = pool[k][j] => i = j
      BY <2>2, PoolAtStart
    <3>2. pool[k] \in Seq(Contexts) /\ \A i \in DOMAIN pool[k] : pool[k][i] \in S
      BY <2>2, <3>1
    <3> QED
      BY <2>2, <3>1, <3>2
  <2>3. /\ AcceptContexts \subseteq Contexts /\ ReceiveContexts \subseteq Contexts
        /\ SendContexts \subseteq Contexts
    BY DEF Contexts
  <2>4. /\ \A c \in AcceptContexts : Kind(c) = "accept"
        /\ \A c \in ReceiveContexts : Kind(c) = "receive"
        /\ \A c \in SendContexts : Kind(c) = "send"
    BY <2>3, KindOf
  <2>5. ASSUME NEW k \in Kinds
        PROVE  \E S \in {AcceptContexts, ReceiveContexts, SendContexts} :
                 pool[k] = InitContextPool(S) /\ \A c \in S : Kind(c) = k
    BY <2>1, <2>4 DEF Kinds
  <2> QED
    BY <2>1, <2>2, <2>3, <2>5, Constants
<1>4. TypeOK
  <2>1. /\ sock \in [Sockets -> {"closed", "accepting", "connected"}]
        /\ idle \in [Sockets -> {"none", "recent", "old"}]
        /\ m_mapAcceptSockQueue \subseteq Sockets
        /\ posted \subseteq Contexts
        /\ queue \in Seq(Packet)
        /\ listener \in {"wait", "end"} /\ wronged \in BOOLEAN
    <3>1. wronged \in BOOLEAN
      BY Zenon DEF Init
    <3>2. queue \in Seq(Packet)
      BY DEF Init
    <3> QED
      BY <3>1, <3>2 DEF Init
  <2>2. ctx \in [Contexts -> ContextState]
    BY DEF Init, ContextState
  <2>3. /\ semaphore \in 0..MaxPostAccepts /\ batch \in 0..MaxPostAccepts
        /\ suspended \in 0..(MaxPauses + 1) /\ pauses \in 0..MaxPauses
        /\ clients \in 0..MaxClients
    BY <1>0 DEF Init
  <2>4. app \in [pc : {"init", "ready", "run", "file", "joinListener",
                       "joinWorkers", "walk", "next", "kill", "done",
                       "undefined"},
                 s : Sockets \cup {NULL}, left : SUBSET Sockets]
    BY DEF Init
  <2> QED
    BY <1>2, <1>3, <2>1, <2>2, <2>3, <2>4, Types
<1>5. ShapeInv
  <2>1. WorkerOK(r)
    BY <1>1 DEF WorkerOK, IdlePcs, BusyPcs
  <2>2. /\ app.pc = "init" /\ suspended = 1 /\ pauses = 0
    BY DEF Init
  <2>3. \A v \in Workers : WorkerOK(wk[v]) /\ wk[v].pc = "suspended"
    BY <1>1, <1>2, <2>1
  <2>4. suspended = pauses + (IF app.pc \in {"init", "ready"} THEN 1 ELSE 0)
    BY <2>2
  <2>5. ~Released
    BY <2>2 DEF Released
  <2> QED
    BY <2>3, <2>4, <2>5 DEF ShapeInv
<1>6. \A v \in Workers : wk[v].c = NULL /\ wk[v].pc = "suspended"
  BY <1>1, <1>2
<1>7. posted = {} /\ DOMAIN queue = {} /\ m_mapAcceptSockQueue = {}
      /\ app.pc = "init"
  BY DEF Init
<1>8. OwnInv
  <2>1. \A k \in Kinds : \A i \in DOMAIN pool[k] : pool[k][i] # NULL
    BY <1>3, ElementOfSeq, Constants
  <2>2. PoolInv
    BY <1>3, <1>6, <1>7, <2>1 DEF PoolInv
  <2> QED
    BY <1>6, <1>7, <2>2 DEF OwnInv, PortInv, HoldInv
<1>9. HandleInv
  BY <1>6, <1>7 DEF HandleInv, Accepting, Fresh, Closer, At
<1>10. StopInv
  BY <1>7 DEF StopInv
<1> QED
  BY <1>4, <1>5, <1>8, <1>9, <1>10 DEF IInv

\* No variable changes.
LEMMA StutterIInv == ASSUME IInv, UNCHANGED vars PROVE IInv'
<1>0. TypeOK /\ ShapeInv
  BY DEF IInv
<1>1. UNCHANGED <<sock, idle, m_mapAcceptSockQueue, ctx, io, wk, accepts,
                  server, wronged>>
  BY DEF vars, io, accepts, server
<1>2. Stays /\ AppMoves
  BY <1>0, <1>1, WorkersStay, ServerSameMoves DEF ServerSame, server
<1>3. TypeOK'
  BY <1>0, <1>1, Types, TypesPrime DEF io, accepts, server
<1> QED
  BY <1>1, <1>2, <1>3, StaysStep, SocketsSame DEF io, server

\* Every step preserves it.
LEMMA NextIInv == IInv /\ [Next]_vars => IInv'
<1> SUFFICES ASSUME IInv, [Next]_vars PROVE IInv'
  OBVIOUS
<1>1. CASE Application
  BY <1>1, AppBefore, StartStep, TransmitStep, PostNullsStep,
     ReleaseResourceStep, ReleaseSocketStep, DestroyStep DEF Application
<1> QED
  BY <1>1, WorkerPreserves, ListenStep, PostAcceptStep, TimerStep, TimePasses,
     CompleteStep, StutterIInv DEF Next

\* The inductive invariant holds in every state CTcpServer reaches.
THEOREM Invariance == Spec => []IInv
BY InitIInv, NextIInv, PTL DEF Spec

\* Every variable of CTcpServer keeps its type; the semaphore that asks
\* ListenThread for accepts stays below its maximum.
THEOREM TypeCorrect == Spec => []TypeOK
<1>1. IInv => TypeOK
  BY DEF IInv
<1> QED
  BY <1>1, Invariance, PTL

\* Until ReleaseResource the map holds open connections only, and a worker
\* that closes a handle is the only one to do so: CloseClientSocket erases
\* the entry under the lock, so its closesocket outside the lock never hits a
\* handle that was closed or handed out again.
THEOREM NoHandleClosedTwice == Spec => []HandlesClosedOnce
<1>1. IInv => HandlesClosedOnce
  <2> SUFFICES ASSUME IInv PROVE HandlesClosedOnce
    OBVIOUS
  <2>1. CASE Released
    <3>1. \A w \in Workers : ~At(w, "closesocket")
      BY <2>1 DEF IInv, ShapeInv, At
    <3> QED
      BY <2>1, <3>1 DEF HandlesClosedOnce
  <2>2. CASE ~Released
    BY <2>2 DEF IInv, HandleInv, HandlesClosedOnce, Closer
  <2> QED
    BY <2>1, <2>2
<1> QED
  BY <1>1, Invariance, PTL

\* A context is at most once in its pool, and not while the kernel, the
\* completion port or a worker has it, although the error paths of
\* CompleteReceive give it back before they are done with the socket in it.
THEOREM PoolStaysExclusive == Spec => []PoolExclusive
<1>1. IInv => PoolExclusive
  BY DEF IInv, OwnInv, PoolInv, PoolExclusive
<1> QED
  BY <1>1, Invariance, PTL

\* StopServer waits for no thread that nothing will wake: for ListenThread
\* unless PauseServer suspended it, and for no worker without a packet.
THEOREM StopIsNotStuck == Spec => []StopNotStuck
<1>1. IInv => StopNotStuck
  <2> SUFFICES ASSUME IInv PROVE StopNotStuck
    OBVIOUS
  <2>1. app.pc = "joinListener" => listener = "end" \/ suspended = 0 \/ pauses > 0
    <3>1. pauses \in Nat /\ (app.pc = "joinListener" => suspended = pauses)
      BY Types, Constants DEF IInv, ShapeInv
    <3> QED
      BY <3>1
  <2> QED
    BY <2>1 DEF IInv, StopInv, StopNotStuck, Ending, Nulls
<1> QED
  BY <1>1, Invariance, PTL
=============================================================================
