------------------------- MODULE OrderedEcho_proofs -------------------------
(***************************************************************************)
(* Theorems about the echo server with ordered sends, for any finite set   *)
(* of workers and any number of overlapped receives.                       *)
(*                                                                         *)
(* First, whatever fails and however the packets are handled, the          *)
(* variables keep their types and OutstandingOps does not drift.  For that *)
(* a packet must not be a copy of one that is queued, so the invariant     *)
(* follows each number through the receives, the packets, the hands of the *)
(* workers, OutOfOrderSends and the sends.  Second, as long as the numbers *)
(* do not wrap the echo implements the ordered stream: a receive that      *)
(* could not be posted leaves a gap in the numbers, at which the echo      *)
(* stops.  Third, without a failed call and without a packet that          *)
(* overtakes the accept, nothing is used after it was freed.               *)
(***************************************************************************)
EXTENDS OrderedEcho, FiniteSetTheorems, SequenceTheorems, WellFoundedInduction,
        TLAPS

Pcs == {"get", "accept", "asend", "asendCount", "arecv", "arecvCount", "aerr",
        "aflag", "enter", "error", "sends", "sendCount", "repost", "recvCount",
        "zero", "tail", "leave", "close", "free"}
Ops == {"none", "accept", "read", "zero", "write"}
Rets == {"none", "repost", "zero", "tail", "leave"}
WorkerState == [pc : Pcs, op : Ops, k : Nat, ret : Rets, err : BOOLEAN,
                cleanup : BOOLEAN]
PacketState == [op : {"accept", "read", "zero", "write"}, k : Nat, ok : BOOLEAN]

-----------------------------------------------------------------------------
(* The invariant of the first part.                                        *)

\* Places at which the worker holds SockCritSec.
LockPcs == {"sends", "sendCount", "repost", "recvCount", "zero", "tail", "leave"}

LockInv == \A w \in Workers : wk[w].pc \in LockPcs => SockCritSec = w

\* The local variables of a worker fit its place.
ShapeInv ==
  \A w \in Workers :
    /\ wk[w].pc \in {"sends", "sendCount"} => wk[w].ret # "none"
    /\ wk[w].pc = "sendCount" => OutOfOrderSends # <<>>

StartPcs == {"get", "accept", "asend"}

\* The connection is not accepted yet, or its accept is not handled.
Starting(q, k, a) ==
  \/ a = 0
  \/ \E p \in q : p.op = "accept"
  \/ \E w \in Workers : k[w].pc \in {"accept", "asend"}

\* Until then nothing else has happened.
StartInv ==
  Starting(queue, wk, arrived) =>
    /\ issued = 0 /\ wire = <<>> /\ LastSendIssued = 0 /\ arrived \in {0, 1}
    /\ arrived = 0 => queue = {}
    /\ queue \subseteq {Packet("accept", 0, TRUE)}
    /\ \A w \in Workers :
         /\ wk[w].pc \in StartPcs
         /\ wk[w].pc # "get" =>
              /\ queue = {} /\ arrived = 1
              /\ \A v \in Workers \ {w} : wk[v].pc = "get"

\* Where the number of a receive may be, after the kernel has completed it:
\* in a packet, in the hand of a worker, in OutOfOrderSends or in a send.
Received(p) == p.op \in {"read", "zero"}
Hand(r) == r.pc = "enter" /\ r.op = "read"

\* x is the number of a receive that was posted before all of r.
Below(x, n, r) == x \in 1..n /\ \A a \in 1..Len(r) : x < r[a]

\* The receives are numbered as they are posted and complete in that order.
Numbered(r, n, q, k, l, t) ==
  /\ \A a \in 1..Len(r) : r[a] \in 1..n
  /\ \A a, b \in 1..Len(r) : a < b => r[a] < r[b]
  /\ \A p \in q : Received(p) => Below(p.k, n, r)
  /\ \A w \in Workers : Hand(k[w]) => Below(k[w].k, n, r)
  /\ \A a \in 1..Len(l) : Below(l[a], n, r)
  /\ \A a \in 1..Len(t) : t[a] = 0 \/ Below(t[a], n, r)

\* Each number is in one place; only the send that is being counted is still
\* the head of the list.
Distinct(q, k, l, t) ==
  /\ \A p1, p2 \in q : Received(p1) /\ Received(p2) /\ p1.k = p2.k => p1 = p2
  /\ \A w, v \in Workers : Hand(k[w]) /\ Hand(k[v]) /\ k[w].k = k[v].k => w = v
  /\ \A p \in q : \A w \in Workers : Received(p) /\ Hand(k[w]) => p.k # k[w].k
  /\ \A a, b \in 1..Len(l) : l[a] = l[b] => a = b
  /\ \A a \in 1..Len(l) :
       /\ \A p \in q : Received(p) => p.k # l[a]
       /\ \A w \in Workers : Hand(k[w]) => k[w].k # l[a]
  /\ \A a \in 1..Len(t) :
       /\ \A p \in q : Received(p) => p.k # t[a]
       /\ \A w \in Workers : Hand(k[w]) => k[w].k # t[a]
       /\ \A b \in 1..Len(l) : l[b] = t[a] =>
            b = 1 /\ \E w \in Workers : k[w].pc = "sendCount"

\* The sends that are posted and the packets of sends, each once.
Flying(f, q, t) ==
  /\ \A x \in f : \E a \in 1..Len(t) : t[a] = x
  /\ \A p \in q : p.op = "write" =>
       /\ \E a \in 1..Len(t) : t[a] = p.k
       /\ p.k \notin f
       /\ \A p2 \in q : p2.op = "write" /\ p2.k = p.k => p2 = p

\* What a worker adds to the operations of the connection: the packet it has
\* in hand, less the operation it has posted and not counted.
Bit(b) == IF b THEN 1 ELSE 0
Counts(r) ==
  \/ r.pc \in {"enter", "error", "repost", "recvCount", "zero", "tail"}
  \/ r.pc \in {"sends", "sendCount"} /\ r.ret # "leave"
Lags(r) == r.pc \in {"asendCount", "arecvCount", "sendCount", "recvCount"}

OpPackets(q) == {p \in q : p.op # "accept"}

CountInv == IsFiniteSet(sends) /\ IsFiniteSet(queue) /\ OpsCounted

IInv ==
  /\ TypeOK /\ LockInv /\ ShapeInv /\ StartInv
  /\ Numbered(recvs, issued, queue, wk, OutOfOrderSends, wire)
  /\ Distinct(queue, wk, OutOfOrderSends, wire)
  /\ Flying(sends, queue, wire)
  /\ CountInv

-----------------------------------------------------------------------------
(* The invariant of the second part.                                       *)

\* No number of a chunk wraps.
NoWrap == MaxData + 1 < SeqModulus

\* The accept could not be echoed: nothing is posted and nothing ever will be.
Barren ==
  /\ issued = 0 /\ queue = {} /\ arrived > 0 /\ wire = <<>>
  /\ \A w \in Workers : wk[w].pc \in {"get", "aerr", "aflag", "close", "free"}

\* The first chunk that is not echoed is the one LastSendIssued waits for,
\* unless a send failed: then nothing is sent any more.
LastInv ==
  /\ \A a \in 1..Len(wire) : wire[a] = a - 1
  /\ Len(wire) <= arrived
  /\ \/ LastSendIssued = Len(wire)
     \/ Barren
     \/ OutOfOrderSends # <<>> /\ Head(OutOfOrderSends) \in freedSends

\* A number whose data has been received and may still be echoed: the data
\* of a number below the gap is the chunk of that number.
Fits(x, g, a) == x # g /\ x <= a /\ (x < g => x < a)

\* g is the gap: the number of the first receive that was not posted, or the
\* next number.
Gap(g) ==
  /\ Len(wire) <= g
  /\ \A p \in queue : p.op = "read" /\ p.ok => Fits(p.k, g, arrived)
  /\ \A w \in Workers : Hand(wk[w]) => Fits(wk[w].k, g, arrived)
  /\ \A a \in 1..Len(OutOfOrderSends) : Fits(OutOfOrderSends[a], g, arrived)
  /\ s = "open" /\ peer = "open" =>
       /\ \A a \in 1..Len(recvs) :
            \/ recvs[a] = arrived + a - 1 /\ recvs[a] < g
            \/ recvs[a] = arrived + a /\ recvs[a] > g
       /\ \/ g = issued + 1 /\ issued + 1 = arrived + Len(recvs)
          \/ g <= issued /\ faulted /\ issued = arrived + Len(recvs)

GapInv ==
  arrived > 0 => \E g \in 1..(issued + 1) : Gap(g)

StreamInv == IInv /\ LastInv /\ GapInv

-----------------------------------------------------------------------------
(* The invariant of the third part.                                        *)

\* A worker that will free the connection.
Leaving(r) == r.pc \in {"close", "free"} \/ (r.pc = "leave" /\ r.cleanup)

\* The other workers wait for a packet.
Alone(w) == \A v \in Workers \ {w} : wk[v].pc = "get"

\* Nothing is left of the connection but w.
Quiet(w) ==
  /\ recvs = <<>> /\ sends = {} /\ queue = {} /\ OutstandingOps = 0
  /\ Alone(w)

\* The socket exists from the moment on at which the accept is handled.
OpenInv ==
  s = "none" => \/ arrived = 0
                \/ \E p \in queue : p.op = "accept"
                \/ \E w \in Workers : wk[w].pc = "accept"

\* Nothing is left of the connection but, maybe, workers that would free it.
Ended ==
  /\ recvs = <<>> /\ sends = {} /\ queue = {} /\ arrived > 0
  /\ \A w \in Workers : wk[w].pc \in {"get", "free"}

\* What holds as long as no call failed and no packet overtook the accept.
Clear ==
  /\ ~misuse /\ peer # "reset" /\ freedSends = {}
  /\ \A p \in queue : p.ok
  /\ \A w \in Workers :
       /\ wk[w].pc \notin {"error", "aerr", "aflag"}
       /\ wk[w].cleanup => wk[w].pc \in {"leave", "close", "free"}
       /\ Accepting(w) => Alone(w)
       /\ Leaving(wk[w]) => Quiet(w)
  /\ s = "closed" \/ freed => Ended
  /\ freed => \A w \in Workers : wk[w].pc = "get"

ClearInv == ~faulted /\ ~early => Clear

UseInv == IInv /\ OpenInv /\ ClearInv

-----------------------------------------------------------------------------
(* Types and how a step moves a worker.                                    *)

\* NULL is not a worker.
LEMMA Nulls == NULL \notin Workers /\ IsFiniteSet(Workers)
BY ConstantsAssumption

\* TypeOK with the records of workers and packets by name.
LEMMA Types ==
  TypeOK <=>
    /\ s \in {"none", "open", "closed"} /\ bClosing \in BOOLEAN
    /\ OutstandingOps \in Int /\ LastSendIssued \in 0..(SeqModulus - 1)
    /\ issued \in Nat /\ i \in 0..OverlappedCount
    /\ OutOfOrderSends \in Seq(Nat) /\ SockCritSec \in Workers \cup {NULL}
    /\ freed \in BOOLEAN /\ freedSends \subseteq Nat
    /\ peer \in {"open", "fin", "reset"} /\ arrived \in 0..(MaxData + 1)
    /\ recvs \in Seq(Nat) /\ sends \subseteq Nat /\ wire \in Seq(Nat)
    /\ queue \subseteq PacketState
    /\ wk \in [Workers -> WorkerState]
    /\ faulted \in BOOLEAN /\ early \in BOOLEAN /\ misuse \in BOOLEAN
BY Zenon DEF TypeOK, PacketState, WorkerState, Pcs, Ops, Rets

\* The same in the next state.
LEMMA TypesPrime ==
  ASSUME s' \in {"none", "open", "closed"}, bClosing' \in BOOLEAN,
         OutstandingOps' \in Int, LastSendIssued' \in 0..(SeqModulus - 1),
         issued' \in Nat, i' \in 0..OverlappedCount,
         OutOfOrderSends' \in Seq(Nat), SockCritSec' \in Workers \cup {NULL},
         freed' \in BOOLEAN, freedSends' \subseteq Nat,
         peer' \in {"open", "fin", "reset"}, arrived' \in 0..(MaxData + 1),
         recvs' \in Seq(Nat), sends' \subseteq Nat, wire' \in Seq(Nat),
         queue' \subseteq PacketState,
         wk' \in [Workers -> WorkerState],
         faulted' \in BOOLEAN, early' \in BOOLEAN, misuse' \in BOOLEAN
  PROVE  TypeOK'
BY Zenon DEF TypeOK, PacketState, WorkerState, Pcs, Ops, Rets

\* The step changes the record of w only.
Moved(w) ==
  /\ wk' \in [Workers -> WorkerState]
  /\ \A v \in Workers \ {w} : wk'[v] = wk[v]

\* The fields of the record of a worker.
LEMMA WorkerFacts ==
  ASSUME TypeOK, NEW w \in Workers
  PROVE  /\ wk[w] \in WorkerState
         /\ wk[w].pc \in Pcs /\ wk[w].op \in Ops /\ wk[w].k \in Nat
         /\ wk[w].ret \in Rets
<1>1. wk[w] \in WorkerState
  BY Types
<1> QED
  BY <1>1 DEF WorkerState

\* The record of a worker that waits for a packet.
LEMMA IdleFacts ==
  /\ Idle \in WorkerState /\ Idle.pc = "get" /\ Idle.cleanup = FALSE
  /\ Idle.op = "none" /\ Idle.ret = "none"
BY DEF Idle, WorkerState, Pcs, Ops, Rets

\* What Become does.
LEMMA BecomeMoves ==
  ASSUME TypeOK, NEW w \in Workers, NEW r \in WorkerState, Become(w, r)
  PROVE  Moved(w) /\ wk'[w] = r
<1>1. wk \in [Workers -> WorkerState] /\ wk' = [wk EXCEPT ![w] = r]
  BY Types DEF Become
<1> QED
  BY <1>1 DEF Moved

\* What Goto does.
LEMMA GotoMoves ==
  ASSUME TypeOK, NEW w \in Workers, NEW l \in Pcs, Goto(w, l)
  PROVE  /\ Moved(w) /\ wk'[w].pc = l
         /\ l = "get" => wk'[w].cleanup = FALSE
         /\ l # "get" => /\ wk'[w].op = wk[w].op /\ wk'[w].k = wk[w].k
                         /\ wk'[w].ret = wk[w].ret
                         /\ wk'[w].cleanup = wk[w].cleanup
<1>1. CASE l = "get"
  <2>1. Become(w, Idle)
    BY <1>1 DEF Goto
  <2>2. Moved(w) /\ wk'[w] = Idle
    BY <2>1, IdleFacts, BecomeMoves
  <2> QED
    BY <1>1, <2>2, IdleFacts
<1>2. CASE l # "get"
  <2>1. PICK q \in WorkerState : q = wk[w]
    BY WorkerFacts
  <2> DEFINE r == [q EXCEPT !.pc = l]
  <2>2. /\ r \in WorkerState /\ r.pc = l /\ r.op = q.op /\ r.k = q.k
        /\ r.ret = q.ret /\ r.cleanup = q.cleanup
    BY DEF WorkerState
  <2>3. Become(w, r)
    BY <1>2, <2>1 DEF Goto
  <2> HIDE DEF r
  <2>4. Moved(w) /\ wk'[w] = r
    BY <2>2, <2>3, BecomeMoves
  <2> QED
    BY <1>2, <2>1, <2>2, <2>4
<1> QED
  BY <1>1, <1>2

\* A sequence and its elements.
LEMMA SeqFacts ==
  ASSUME NEW q \in Seq(Nat)
  PROVE  /\ Len(q) \in Nat /\ DOMAIN q = 1..Len(q)
         /\ \A a \in 1..Len(q) : q[a] \in Nat
         /\ q = <<>> <=> Len(q) = 0
BY EmptySeq, LenProperties, ElementOfSeq

\* Append, element by element.
LEMMA AppendFacts ==
  ASSUME NEW q \in Seq(Nat), NEW x \in Nat
  PROVE  /\ Append(q, x) \in Seq(Nat) /\ Len(Append(q, x)) = Len(q) + 1
         /\ \A a \in 1..Len(q) : Append(q, x)[a] = q[a]
         /\ Append(q, x)[Len(q) + 1] = x
BY AppendProperties

\* Tail, element by element.
LEMMA TailFacts ==
  ASSUME NEW q \in Seq(Nat), q # <<>>
  PROVE  /\ Tail(q) \in Seq(Nat) /\ Len(Tail(q)) = Len(q) - 1
         /\ \A a \in 1..(Len(q) - 1) : Tail(q)[a] = q[a + 1]
         /\ Head(q) = q[1] /\ Len(q) >= 1
BY HeadTailProperties, SeqFacts

-----------------------------------------------------------------------------
(* The parts of the invariant, kept by the kinds of steps.                 *)

\* A step that leaves the numbers alone, and takes no worker to or from the
\* places where it has one in hand or counts a send.
LEMMA NumberedKept ==
  ASSUME NEW r, NEW n, NEW q, NEW q2, NEW k, NEW k2, NEW l, NEW t,
         Numbered(r, n, q, k, l, t),
         \A p \in q2 : Received(p) => p \in q,
         \A v \in Workers : Hand(k2[v]) => Hand(k[v]) /\ k2[v].k = k[v].k
  PROVE  Numbered(r, n, q2, k2, l, t)
BY DEF Numbered

\* Such a step does not bring a number to a second place.
LEMMA DistinctKept ==
  ASSUME NEW q, NEW q2, NEW k, NEW k2, NEW l, NEW t,
         Distinct(q, k, l, t),
         \A p \in q2 : Received(p) => p \in q,
         \A v \in Workers : Hand(k2[v]) => Hand(k[v]) /\ k2[v].k = k[v].k,
         \A v \in Workers : k[v].pc = "sendCount" => k2[v].pc = "sendCount"
  PROVE  Distinct(q2, k2, l, t)
BY DEF Distinct

\* Packets of receives do not matter to the sends.
LEMMA FlyingKept ==
  ASSUME NEW f, NEW q, NEW q2, NEW t, Flying(f, q, t),
         \A p \in q2 : p.op = "write" => p \in q
  PROVE  Flying(f, q2, t)
BY DEF Flying

\* The oldest receive completes.
LEMMA NumberedCompletes ==
  ASSUME NEW r \in Seq(Nat), r # <<>>, NEW n \in Nat, NEW q, NEW k, NEW l, NEW t,
         NEW p, p.k = Head(r), Numbered(r, n, q, k, l, t)
  PROVE  Numbered(Tail(r), n, q \cup {p}, k, l, t)
<1> DEFINE z == Tail(r)
<1>1. /\ z \in Seq(Nat) /\ Len(z) = Len(r) - 1 /\ Len(r) \in Nat /\ Len(r) >= 1
      /\ \A a \in 1..Len(z) : z[a] = r[a + 1] /\ a + 1 \in 1..Len(r)
      /\ Head(r) = r[1]
  BY TailFacts, SeqFacts
<1> HIDE DEF z
<1>2. \A x : Below(x, n, r) => Below(x, n, z)
  BY <1>1 DEF Below
<1>n. /\ \A a \in 1..Len(r) : r[a] \in 1..n
      /\ \A a, b \in 1..Len(r) : a < b => r[a] < r[b]
  BY DEF Numbered
<1>o. /\ 1 \in 1..Len(r)
      /\ \A a \in 1..Len(z) : a + 1 \in 1..Len(r) /\ 1 < a + 1
      /\ \A a, b \in 1..Len(z) : a < b => a + 1 < b + 1
  BY <1>1
<1>3. Below(p.k, n, z)
  BY <1>1, <1>n, <1>o DEF Below
<1>4. /\ \A a \in 1..Len(z) : z[a] \in 1..n
      /\ \A a, b \in 1..Len(z) : a < b => z[a] < z[b]
  BY <1>1, <1>n, <1>o
<1> QED
  BY <1>2, <1>3, <1>4 DEF Numbered, z

\* The number of the receive that completes was in no other place.
LEMMA DistinctCompletes ==
  ASSUME NEW r \in Seq(Nat), r # <<>>, NEW n \in Nat, NEW q, NEW k, NEW l, NEW t,
         NEW p, p.k = Head(r), Numbered(r, n, q, k, l, t), Distinct(q, k, l, t)
  PROVE  Distinct(q \cup {p}, k, l, t)
<1>1. Head(r) = r[1] /\ 1 \in 1..Len(r) /\ r[1] \in Nat /\ r[1] # 0
  BY TailFacts, SeqFacts DEF Numbered
<1>2. \A x : Below(x, n, r) => x # p.k
  BY <1>1 DEF Below
<1>3. /\ \A p2 \in q : Received(p2) => p2.k # p.k
      /\ \A w \in Workers : Hand(k[w]) => k[w].k # p.k
      /\ \A a \in 1..Len(l) : l[a] # p.k
      /\ \A a \in 1..Len(t) : t[a] # p.k
  BY <1>1, <1>2 DEF Numbered
<1> QED
  BY <1>3 DEF Distinct

\* A receive gets the next number, and is posted or not.
LEMMA NumberedIssued ==
  ASSUME NEW r \in Seq(Nat), NEW n \in Nat, NEW q, NEW k, NEW l, NEW t,
         Numbered(r, n, q, k, l, t)
  PROVE  /\ Numbered(r, n + 1, q, k, l, t)
         /\ Numbered(Append(r, n + 1), n + 1, q, k, l, t)
<1> DEFINE z == Append(r, n + 1)
<1>1. /\ z \in Seq(Nat) /\ Len(z) = Len(r) + 1 /\ Len(r) \in Nat
      /\ \A a \in 1..Len(r) : z[a] = r[a]
      /\ z[Len(z)] = n + 1
  BY AppendFacts, SeqFacts
<1>2. \A a \in 1..Len(z) : a \in 1..Len(r) \/ a = Len(z)
  BY <1>1
<1> HIDE DEF z
<1>3. \A x : Below(x, n, r) => Below(x, n + 1, r) /\ Below(x, n + 1, z)
  <2> SUFFICES ASSUME NEW x, Below(x, n, r)
               PROVE  Below(x, n + 1, r) /\ Below(x, n + 1, z)
    OBVIOUS
  <2>1. x \in 1..(n + 1) /\ x < n + 1
    BY DEF Below
  <2>2. \A a \in 1..Len(z) : x < z[a]
    BY <1>1, <1>2, <2>1 DEF Below
  <2> QED
    BY <2>1, <2>2 DEF Below
<1>4. \A a \in 1..Len(r) : r[a] \in 1..n
  BY DEF Numbered
<1>5. /\ \A a \in 1..Len(r) : r[a] \in 1..(n + 1) /\ r[a] < n + 1
      /\ n + 1 \in 1..(n + 1)
  BY <1>4
<1>6. \A a \in 1..Len(z) : z[a] \in 1..(n + 1)
  BY <1>1, <1>2, <1>5
<1>7. ASSUME NEW a \in 1..Len(z), NEW b \in 1..Len(z), a < b PROVE z[a] < z[b]
  <2>1. a \in 1..Len(r)
    BY <1>1, <1>7
  <2>2. CASE b \in 1..Len(r)
    BY <1>1, <1>7, <2>1, <2>2 DEF Numbered
  <2>3. CASE b = Len(z)
    BY <1>1, <1>5, <2>1, <2>3
  <2> QED
    BY <1>2, <2>2, <2>3
<1>8. Numbered(r, n + 1, q, k, l, t)
  BY <1>3, <1>5 DEF Numbered
<1>9. Numbered(z, n + 1, q, k, l, t)
  BY <1>3, <1>6, <1>7 DEF Numbered
<1> QED
  BY <1>8, <1>9 DEF z

\* A worker takes the packet of a receive off the queue.
LEMMA NumberedTaken ==
  ASSUME NEW r, NEW n, NEW q, NEW k, NEW k2, NEW l, NEW t, NEW w \in Workers,
         NEW p \in q, Numbered(r, n, q, k, l, t),
         \A v \in Workers \ {w} : k2[v] = k[v],
         Hand(k2[w]) => Received(p) /\ k2[w].k = p.k
  PROVE  Numbered(r, n, q \ {p}, k2, l, t)
BY DEF Numbered

\* A worker takes a number out of a packet into its hand.
LEMMA DistinctTaken ==
  ASSUME NEW q, NEW k, NEW k2, NEW l, NEW t, NEW w \in Workers,
         NEW p \in q, Distinct(q, k, l, t),
         \A v \in Workers \ {w} : k2[v] = k[v],
         k[w].pc # "sendCount", Hand(k2[w]) => Received(p) /\ k2[w].k = p.k
  PROVE  Distinct(q \ {p}, k2, l, t)
<1>1. \A a, b \in 1..Len(l) : l[a] = l[b] => a = b
  BY DEF Distinct
<1>2. \A p1, p2 \in q \ {p} :
        Received(p1) /\ Received(p2) /\ p1.k = p2.k => p1 = p2
  BY DEF Distinct
<1>3. \A v, u \in Workers :
        Hand(k2[v]) /\ Hand(k2[u]) /\ k2[v].k = k2[u].k => v = u
  BY DEF Distinct
<1>4. \A p1 \in q \ {p} : \A v \in Workers :
        Received(p1) /\ Hand(k2[v]) => p1.k # k2[v].k
  BY DEF Distinct
<1>5. \A a \in 1..Len(l) :
        /\ \A p1 \in q \ {p} : Received(p1) => p1.k # l[a]
        /\ \A v \in Workers : Hand(k2[v]) => k2[v].k # l[a]
  BY DEF Distinct
<1>6. \A a \in 1..Len(t) :
        /\ \A p1 \in q \ {p} : Received(p1) => p1.k # t[a]
        /\ \A v \in Workers : Hand(k2[v]) => k2[v].k # t[a]
        /\ \A b \in 1..Len(l) : l[b] = t[a] =>
             b = 1 /\ \E v \in Workers : k2[v].pc = "sendCount"
  BY DEF Distinct
<1> QED
  BY <1>1, <1>2, <1>3, <1>4, <1>5, <1>6 DEF Distinct

-----------------------------------------------------------------------------
(* InsertPendingSend.                                                      *)

\* A nonempty set of natural numbers has a least element.
LEMMA LeastElement ==
  ASSUME NEW T, T \subseteq Nat, T # {}
  PROVE  \E x \in T : \A y \in T : x <= y
<1>1. PICK x \in T : \A y \in T : ~ (<<y, x>> \in OpToRel(<, Nat))
  BY NatLessThanWellFounded, WFMin
<1>2. \A y \in T : ~ (y < x)
  BY <1>1 DEF OpToRel
<1> QED
  BY <1>2

\* The elements of the list up to n, x, and the rest.
LEMMA SplitFacts ==
  ASSUME NEW q \in Seq(Nat), NEW x \in Nat, NEW n \in 0..Len(q)
  PROVE  LET t == SubSeq(q, 1, n) \o <<x>> \o SubSeq(q, n + 1, Len(q)) IN
         /\ t \in Seq(Nat) /\ Len(t) = Len(q) + 1
         /\ \A j \in 1..n : t[j] = q[j]
         /\ t[n + 1] = x
         /\ \A j \in (n + 2)..(Len(q) + 1) : t[j] = q[j - 1]
<1> DEFINE a == SubSeq(q, 1, n)
           c == SubSeq(q, n + 1, Len(q))
           b == a \o <<x>>
           t == b \o c
<1>0. Len(q) \in Nat /\ n \in Nat /\ n <= Len(q) /\ \A j \in 1..Len(q) : q[j] \in Nat
  BY SeqFacts
<1>1. a \in Seq(Nat) /\ Len(a) = n /\ \A j \in 1..n : a[j] = q[j]
  <2>1. \A j \in 1..n : q[j] \in Nat
    BY <1>0
  <2>2. /\ SubSeq(q, 1, n) \in Seq(Nat)
        /\ Len(SubSeq(q, 1, n)) = IF 1 <= n THEN n - 1 + 1 ELSE 0
        /\ \A j \in 1..(n - 1 + 1) : SubSeq(q, 1, n)[j] = q[1 + j - 1]
    BY <2>1, <1>0, SubSeqProperties
  <2> QED
    BY <2>2, <1>0
<1>2. /\ c \in Seq(Nat) /\ Len(c) = Len(q) - n
      /\ \A j \in 1..(Len(q) - n) : c[j] = q[n + j]
  <2>1. \A j \in (n + 1)..Len(q) : q[j] \in Nat
    BY <1>0
  <2>2. /\ c \in Seq(Nat)
        /\ Len(c) = IF n + 1 <= Len(q) THEN Len(q) - (n + 1) + 1 ELSE 0
        /\ \A j \in 1..(Len(q) - (n + 1) + 1) : c[j] = q[(n + 1) + j - 1]
    BY <2>1, <1>0, SubSeqProperties
  <2> HIDE DEF c
  <2>3. (IF n + 1 <= Len(q) THEN Len(q) - (n + 1) + 1 ELSE 0) = Len(q) - n
    BY <1>0
  <2>4. ASSUME NEW j \in 1..(Len(q) - n) PROVE c[j] = q[n + j]
    <3>1. j \in 1..(Len(q) - (n + 1) + 1) /\ (n + 1) + j - 1 = n + j
      BY <1>0
    <3> QED
      BY <2>2, <3>1
  <2> QED
    BY <2>2, <2>3, <2>4
<1>3. <<x>> \in Seq(Nat) /\ Len(<<x>>) = 1 /\ <<x>>[1] = x
  OBVIOUS
<1>4. /\ b \in Seq(Nat) /\ Len(b) = n + 1 /\ b[n + 1] = x
      /\ \A j \in 1..n : b[j] = q[j]
  <2>1. /\ b \in Seq(Nat) /\ Len(b) = Len(a) + Len(<<x>>)
        /\ \A j \in 1..(Len(a) + Len(<<x>>)) :
             b[j] = IF j <= Len(a) THEN a[j] ELSE <<x>>[j - Len(a)]
    BY <1>1, <1>3, ConcatProperties
  <2> HIDE DEF a, b
  <2>2. b[n + 1] = <<x>>[1]
    <3>1. /\ n + 1 \in 1..(Len(a) + Len(<<x>>)) /\ ~(n + 1 <= Len(a))
          /\ n + 1 - Len(a) = 1
      BY <1>0, <1>1, <1>3
    <3> QED
      BY <2>1, <3>1
  <2> QED
    BY <2>1, <2>2, <1>0, <1>1, <1>3
<1> HIDE DEF a, b, c
<1>5. /\ t \in Seq(Nat) /\ Len(t) = Len(b) + Len(c)
      /\ \A j \in 1..(Len(b) + Len(c)) :
           t[j] = IF j <= Len(b) THEN b[j] ELSE c[j - Len(b)]
  BY <1>2, <1>4, ConcatProperties
<1> HIDE DEF t
<1>6. ASSUME NEW j \in (n + 2)..(Len(q) + 1) PROVE t[j] = q[j - 1]
  <2>1. /\ j \in 1..(Len(b) + Len(c)) /\ ~(j <= Len(b))
        /\ j - Len(b) \in 1..(Len(q) - n) /\ n + (j - Len(b)) = j - 1
    BY <1>0, <1>2, <1>4
  <2> QED
    BY <1>2, <1>5, <2>1
<1>7. ASSUME NEW j \in 1..(n + 1) PROVE t[j] = b[j]
  <2>1. j \in 1..(Len(b) + Len(c)) /\ j <= Len(b)
    BY <1>0, <1>2, <1>4
  <2> QED
    BY <1>5, <2>1
<1>8. Len(t) = Len(q) + 1
  BY <1>0, <1>2, <1>4, <1>5
<1>9. /\ \A j \in 1..n : t[j] = q[j]
      /\ t[n + 1] = x
  BY <1>0, <1>4, <1>7
<1> QED
  BY <1>5, <1>6, <1>8, <1>9 DEF a, b, c, t

\* It adds the buffer and nothing else.
LEMMA InsertFacts ==
  ASSUME NEW q \in Seq(Nat), NEW x \in Nat
  PROVE  LET t == InsertPendingSend(x, q) IN
         /\ t \in Seq(Nat) /\ Len(t) = Len(q) + 1
         /\ \A j \in 1..Len(t) : t[j] = x \/ \E h \in 1..Len(q) : t[j] = q[h]
         /\ (/\ \A j \in 1..Len(q) : q[j] # x
             /\ \A j, h \in 1..Len(q) : q[j] = q[h] => j = h)
            => \A j, h \in 1..Len(t) : t[j] = t[h] => j = h
<1> DEFINE later == {j \in DOMAIN q : Order(x) < Order(q[j])}
           least == CHOOSE j \in later : \A h \in later : j <= h
           n == IF later = {} THEN Len(q) ELSE least - 1
           t == SubSeq(q, 1, n) \o <<x>> \o SubSeq(q, n + 1, Len(q))
<1>0. DOMAIN q = 1..Len(q) /\ Len(q) \in Nat
  BY SeqFacts
<1>1. later # {} => least \in later
  <2>1. later \subseteq Nat
    BY <1>0
  <2> HIDE DEF later
  <2> QED
    BY <2>1, LeastElement
<1>2. n \in 0..Len(q)
  BY <1>0, <1>1
<1>3. InsertPendingSend(x, q) = t
  BY DEF InsertPendingSend
<1> HIDE DEF n
<1>4. /\ t \in Seq(Nat) /\ Len(t) = Len(q) + 1
      /\ \A j \in 1..n : t[j] = q[j]
      /\ t[n + 1] = x
      /\ \A j \in (n + 2)..(Len(q) + 1) : t[j] = q[j - 1]
  BY <1>2, SplitFacts
<1> HIDE DEF t
<1> DEFINE old(j) == IF j <= n THEN j ELSE j - 1
<1>5. ASSUME NEW j \in 1..Len(t)
      PROVE  \/ j = n + 1 /\ t[j] = x
             \/ j # n + 1 /\ old(j) \in 1..Len(q) /\ t[j] = q[old(j)]
  <2>1. CASE j \in 1..n
    <3>1. old(j) = j /\ j \in 1..Len(q) /\ j # n + 1
      BY <1>0, <1>2, <2>1
    <3> QED
      BY <1>4, <2>1, <3>1
  <2>2. CASE j = n + 1
    BY <1>4, <2>2
  <2>3. CASE j \in (n + 2)..(Len(q) + 1)
    <3>1. old(j) = j - 1 /\ j - 1 \in 1..Len(q) /\ j # n + 1
      BY <1>0, <1>2, <2>3
    <3> QED
      BY <1>4, <2>3, <3>1, SMTT(30)
  <2> QED
    BY <1>0, <1>2, <1>4, <2>1, <2>2, <2>3
<1>6. \A j \in 1..Len(t) : t[j] = x \/ \E h \in 1..Len(q) : t[j] = q[h]
  BY <1>5
<1>7. ASSUME \A j \in 1..Len(q) : q[j] # x,
             \A j, h \in 1..Len(q) : q[j] = q[h] => j = h,
             NEW j \in 1..Len(t), NEW h \in 1..Len(t), t[j] = t[h]
      PROVE  j = h
  <2>1. CASE j = n + 1 \/ h = n + 1
    BY <1>5, <1>7, <2>1
  <2>2. CASE j # n + 1 /\ h # n + 1
    <3>1. old(j) = old(h)
      BY <1>5, <1>7, <2>2
    <3> QED
      BY <1>0, <1>2, <1>4, <2>2, <3>1
  <2> QED
    BY <2>1, <2>2
<1> QED
  BY <1>3, <1>4, <1>6, <1>7

-----------------------------------------------------------------------------
(* The list and the sends.                                                 *)

\* The data a worker has in hand is put into the list.
LEMMA NumberedEntered ==
  ASSUME NEW r, NEW n, NEW q, NEW k, NEW k2, NEW l, NEW l2, NEW t,
         NEW w \in Workers, Numbered(r, n, q, k, l, t), Hand(k[w]),
         \A j \in 1..Len(l2) : l2[j] = k[w].k \/ \E h \in 1..Len(l) : l2[j] = l[h],
         \A v \in Workers \ {w} : k2[v] = k[v], ~Hand(k2[w])
  PROVE  Numbered(r, n, q, k2, l2, t)
BY DEF Numbered

\* The number in the hand of a worker is put into the list.
LEMMA DistinctEntered ==
  ASSUME NEW q, NEW k, NEW k2, NEW l, NEW l2, NEW t,
         NEW w \in Workers, Distinct(q, k, l, t), Hand(k[w]),
         \A j \in 1..Len(l2) : l2[j] = k[w].k \/ \E h \in 1..Len(l) : l2[j] = l[h],
         \A j, h \in 1..Len(l2) : l2[j] = l2[h] => j = h,
         \A v \in Workers : k[v].pc # "sendCount",
         \A v \in Workers \ {w} : k2[v] = k[v], ~Hand(k2[w])
  PROVE  Distinct(q, k2, l2, t)
<1>1. \A v \in Workers : Hand(k2[v]) => v # w /\ Hand(k[v]) /\ k2[v] = k[v]
  OBVIOUS
<1>2. \A v, u \in Workers :
        Hand(k2[v]) /\ Hand(k2[u]) /\ k2[v].k = k2[u].k => v = u
  BY <1>1 DEF Distinct
<1>3. \A p \in q : \A v \in Workers : Received(p) /\ Hand(k2[v]) => p.k # k2[v].k
  BY <1>1 DEF Distinct
<1>4. \A a \in 1..Len(l2) :
        /\ \A p \in q : Received(p) => p.k # l2[a]
        /\ \A v \in Workers : Hand(k2[v]) => k2[v].k # l2[a]
  BY <1>1 DEF Distinct
<1>5. \A a \in 1..Len(t) :
        /\ \A p \in q : Received(p) => p.k # t[a]
        /\ \A v \in Workers : Hand(k2[v]) => k2[v].k # t[a]
  BY <1>1 DEF Distinct
<1>6. \A a \in 1..Len(t) : \A b \in 1..Len(l2) : l2[b] # t[a]
  BY DEF Distinct
<1>7. \A p1, p2 \in q : Received(p1) /\ Received(p2) /\ p1.k = p2.k => p1 = p2
  BY DEF Distinct
<1> QED
  BY <1>2, <1>3, <1>4, <1>5, <1>6, <1>7 DEF Distinct

\* The head of the list is sent.
LEMMA NumberedSent ==
  ASSUME NEW r, NEW n, NEW q, NEW k, NEW l \in Seq(Nat), NEW t \in Seq(Nat),
         l # <<>>, Numbered(r, n, q, k, l, t)
  PROVE  Numbered(r, n, q, k, l, Append(t, Head(l)))
<1>1. Head(l) = l[1] /\ 1 \in 1..Len(l) /\ l[1] \in Nat
  BY TailFacts, SeqFacts
<1> DEFINE t2 == Append(t, Head(l))
<1>2. /\ Len(t2) = Len(t) + 1 /\ Len(t) \in Nat /\ t2[Len(t) + 1] = l[1]
      /\ \A a \in 1..Len(t) : t2[a] = t[a]
  BY <1>1, AppendFacts, SeqFacts
<1>3. \A a \in 1..Len(t2) : a \in 1..Len(t) \/ a = Len(t) + 1
  BY <1>2
<1> HIDE DEF t2
<1>4. \A a \in 1..Len(t2) : t2[a] = 0 \/ Below(t2[a], n, r)
  BY <1>1, <1>2, <1>3 DEF Numbered
<1> QED
  BY <1>4 DEF Numbered, t2

\* The head of the list is sent while its worker counts the send.
LEMMA DistinctSent ==
  ASSUME NEW q, NEW k, NEW k2, NEW l \in Seq(Nat), NEW t \in Seq(Nat),
         NEW w \in Workers, l # <<>>, Distinct(q, k, l, t),
         \A v \in Workers \ {w} : k2[v] = k[v], k2[w].pc = "sendCount"
  PROVE  Distinct(q, k2, l, Append(t, Head(l)))
<1>1. Head(l) = l[1] /\ 1 \in 1..Len(l) /\ l[1] \in Nat
  BY TailFacts, SeqFacts
<1> DEFINE t2 == Append(t, Head(l))
<1>2. /\ Len(t2) = Len(t) + 1 /\ Len(t) \in Nat /\ t2[Len(t) + 1] = l[1]
      /\ \A a \in 1..Len(t) : t2[a] = t[a]
  BY <1>1, AppendFacts, SeqFacts
<1>3. \A a \in 1..Len(t2) : a \in 1..Len(t) \/ a = Len(t) + 1
  BY <1>2
<1> HIDE DEF t2
<1>4. \A v \in Workers : Hand(k2[v]) => Hand(k[v]) /\ k2[v] = k[v]
  BY DEF Hand
<1>a. \A a \in 1..Len(t) :
        /\ \A p \in q : Received(p) => p.k # t[a]
        /\ \A v \in Workers : Hand(k[v]) => k[v].k # t[a]
        /\ \A b \in 1..Len(l) : l[b] = t[a] => b = 1
  BY DEF Distinct
<1>b. /\ \A p \in q : Received(p) => p.k # l[1]
      /\ \A v \in Workers : Hand(k[v]) => k[v].k # l[1]
      /\ \A b \in 1..Len(l) : l[b] = l[1] => b = 1
  BY <1>1 DEF Distinct
<1>5. ASSUME NEW a \in 1..Len(t2)
      PROVE  /\ \A p \in q : Received(p) => p.k # t2[a]
             /\ \A v \in Workers : Hand(k2[v]) => k2[v].k # t2[a]
             /\ \A b \in 1..Len(l) : l[b] = t2[a] => b = 1
  <2>1. CASE a \in 1..Len(t)
    BY <1>2, <1>4, <1>a, <2>1
  <2>2. CASE a = Len(t) + 1
    BY <1>2, <1>4, <1>b, <2>2
  <2> QED
    BY <1>3, <2>1, <2>2
<1>6. /\ \A p1, p2 \in q : Received(p1) /\ Received(p2) /\ p1.k = p2.k => p1 = p2
      /\ \A a, b \in 1..Len(l) : l[a] = l[b] => a = b
  BY DEF Distinct
<1>c. /\ \A v, u \in Workers :
           Hand(k[v]) /\ Hand(k[u]) /\ k[v].k = k[u].k => v = u
      /\ \A p \in q : \A v \in Workers :
           Received(p) /\ Hand(k[v]) => p.k # k[v].k
  BY DEF Distinct
<1>7. /\ \A v, u \in Workers :
           Hand(k2[v]) /\ Hand(k2[u]) /\ k2[v].k = k2[u].k => v = u
      /\ \A p \in q : \A v \in Workers :
           Received(p) /\ Hand(k2[v]) => p.k # k2[v].k
  BY <1>4, <1>c
<1>8. \A a \in 1..Len(l) :
        /\ \A p \in q : Received(p) => p.k # l[a]
        /\ \A v \in Workers : Hand(k2[v]) => k2[v].k # l[a]
  BY <1>4 DEF Distinct
<1>9. Distinct(q, k2, l, t2)
  BY <1>5, <1>6, <1>7, <1>8 DEF Distinct
<1> QED
  BY <1>9 DEF t2

\* A number that was never sent is sent.
LEMMA FlyingSent ==
  ASSUME NEW f, NEW q, NEW t \in Seq(Nat), NEW x \in Nat, Flying(f, q, t),
         \A a \in 1..Len(t) : t[a] # x
  PROVE  Flying(f \cup {x}, q, Append(t, x)) /\ x \notin f
<1> DEFINE t2 == Append(t, x)
<1>1. /\ Len(t2) = Len(t) + 1 /\ Len(t) \in Nat /\ t2[Len(t) + 1] = x
      /\ \A a \in 1..Len(t) : t2[a] = t[a]
  BY AppendFacts, SeqFacts
<1>2. Len(t) + 1 \in 1..Len(t2) /\ \A a \in 1..Len(t) : a \in 1..Len(t2)
  BY <1>1
<1> HIDE DEF t2
<1>3. \A y : (\E a \in 1..Len(t) : t[a] = y) => y # x /\ \E a \in 1..Len(t2) : t2[a] = y
  BY <1>1, <1>2
<1>4. \E a \in 1..Len(t2) : t2[a] = x
  BY <1>1, <1>2
<1>5. Flying(f \cup {x}, q, t2) /\ x \notin f
  BY <1>3, <1>4 DEF Flying
<1> QED
  BY <1>5 DEF t2

\* The send is counted and leaves the list.
LEMMA NumberedCounted ==
  ASSUME NEW r, NEW n, NEW q, NEW k, NEW l \in Seq(Nat), NEW t,
         l # <<>>, Numbered(r, n, q, k, l, t)
  PROVE  Numbered(r, n, q, k, Tail(l), t)
<1> DEFINE z == Tail(l)
<1>1. \A a \in 1..Len(z) : a + 1 \in 1..Len(l) /\ z[a] = l[a + 1]
  BY TailFacts, SeqFacts
<1> HIDE DEF z
<1>2. \A a \in 1..Len(z) : Below(z[a], n, r)
  BY <1>1 DEF Numbered
<1> QED
  BY <1>2 DEF Numbered, z

\* The send is counted and leaves the list.
LEMMA DistinctCounted ==
  ASSUME NEW q, NEW k, NEW k2, NEW l \in Seq(Nat), NEW t, NEW w \in Workers,
         l # <<>>, Distinct(q, k, l, t),
         \A v \in Workers \ {w} : k2[v] = k[v], k2[w].pc # "enter"
  PROVE  Distinct(q, k2, Tail(l), t)
<1> DEFINE z == Tail(l)
<1>1. /\ \A a \in 1..Len(z) : a + 1 \in 1..Len(l) /\ z[a] = l[a + 1] /\ a + 1 # 1
      /\ \A a, b \in 1..Len(z) : a + 1 = b + 1 => a = b
  BY TailFacts, SeqFacts
<1> HIDE DEF z
<1>2. \A v \in Workers : Hand(k2[v]) => Hand(k[v]) /\ k2[v] = k[v]
  BY DEF Hand
<1>3. \A a, b \in 1..Len(z) : z[a] = z[b] => a = b
  BY <1>1 DEF Distinct
<1>a. \A a \in 1..Len(l) :
        /\ \A p \in q : Received(p) => p.k # l[a]
        /\ \A v \in Workers : Hand(k[v]) => k[v].k # l[a]
        /\ \A b \in 1..Len(t) : l[a] = t[b] => a = 1
  BY DEF Distinct
<1>4. \A a \in 1..Len(z) :
        /\ \A p \in q : Received(p) => p.k # z[a]
        /\ \A v \in Workers : Hand(k2[v]) => k2[v].k # z[a]
        /\ \A b \in 1..Len(t) : z[a] # t[b]
  <2> SUFFICES ASSUME NEW a \in 1..Len(z)
               PROVE  /\ \A p \in q : Received(p) => p.k # z[a]
                      /\ \A v \in Workers : Hand(k2[v]) => k2[v].k # z[a]
                      /\ \A b \in 1..Len(t) : z[a] # t[b]
    OBVIOUS
  <2>1. PICK b \in 1..Len(l) : z[a] = l[b] /\ b # 1
    BY <1>1
  <2> QED
    BY <1>2, <1>a, <2>1
<1>5. Distinct(q, k2, z, t)
  BY <1>2, <1>3, <1>4 DEF Distinct
<1> QED
  BY <1>5 DEF z

\* The kernel completes a send.
LEMMA FlyingCompletes ==
  ASSUME NEW f, NEW q, NEW t, NEW x \in f, NEW p, p.op = "write", p.k = x,
         Flying(f, q, t)
  PROVE  Flying(f \ {x}, q \cup {p}, t)
BY DEF Flying

-----------------------------------------------------------------------------
(* Counting.                                                               *)

\* One element of a finite set comes, goes or stays.
LEMMA CardinalityMoves ==
  ASSUME NEW S, NEW T, NEW w, IsFiniteSet(S), S \ {w} = T \ {w}
  PROVE  /\ IsFiniteSet(T) /\ Cardinality(S) \in Nat /\ Cardinality(T) \in Nat
         /\ Cardinality(T) = Cardinality(S) + Bit(w \in T) - Bit(w \in S)
<1> DEFINE R == S \ {w}
<1>1. IsFiniteSet(R) /\ Cardinality(R) \in Nat /\ w \notin R
  BY FS_Subset, FS_CardinalityType
<1>2. IsFiniteSet(R \cup {w}) /\ Cardinality(R \cup {w}) = Cardinality(R) + 1
  BY <1>1, FS_AddElement
<1>3. /\ w \in S => S = R \cup {w}
      /\ w \notin S => S = R
      /\ w \in T => T = R \cup {w}
      /\ w \notin T => T = R
  OBVIOUS
<1> HIDE DEF R
<1>b. /\ w \in S => Bit(w \in S) = 1
      /\ w \notin S => Bit(w \in S) = 0
      /\ w \in T => Bit(w \in T) = 1
      /\ w \notin T => Bit(w \in T) = 0
  BY DEF Bit
<1>4. Cardinality(S) = Cardinality(R) + Bit(w \in S)
  <2>1. CASE w \in S
    BY <1>1, <1>2, <1>3, <1>b, <2>1
  <2>2. CASE w \notin S
    BY <1>1, <1>3, <1>b, <2>2
  <2> QED
    BY <2>1, <2>2
<1>5. IsFiniteSet(T) /\ Cardinality(T) = Cardinality(R) + Bit(w \in T)
  <2>1. CASE w \in T
    BY <1>1, <1>2, <1>3, <1>b, <2>1
  <2>2. CASE w \notin T
    BY <1>1, <1>3, <1>b, <2>2
  <2> QED
    BY <2>1, <2>2
<1>6. Bit(w \in S) \in {0, 1} /\ Bit(w \in T) \in {0, 1}
  BY DEF Bit
<1> QED
  BY <1>1, <1>4, <1>5, <1>6

\* What the workers add, when one of them moves.
Weight(r) == Bit(Counts(r)) - Bit(Lags(r))

\* How a step of w changes the two sets that OpsCounted weighs.
LEMMA WeightMoves ==
  ASSUME NEW w \in Workers, \A v \in Workers \ {w} : wk'[v] = wk[v]
  PROVE  /\ Cardinality(InHand) \in Nat /\ Cardinality(Uncounted) \in Nat
         /\ Cardinality(InHand') \in Nat /\ Cardinality(Uncounted') \in Nat
         /\ Cardinality(InHand') - Cardinality(Uncounted') =
              Cardinality(InHand) - Cardinality(Uncounted)
              + Weight(wk'[w]) - Weight(wk[w])
<1>1. /\ InHand = {v \in Workers : Counts(wk[v])}
      /\ InHand' = {v \in Workers : Counts(wk'[v])}
      /\ Uncounted = {v \in Workers : Lags(wk[v])}
      /\ Uncounted' = {v \in Workers : Lags(wk'[v])}
  BY DEF InHand, Uncounted, Counts, Lags
<1>2. /\ IsFiniteSet(InHand) /\ IsFiniteSet(Uncounted)
      /\ InHand \ {w} = InHand' \ {w} /\ Uncounted \ {w} = Uncounted' \ {w}
      /\ (w \in InHand <=> Counts(wk[w])) /\ (w \in InHand' <=> Counts(wk'[w]))
      /\ (w \in Uncounted <=> Lags(wk[w])) /\ (w \in Uncounted' <=> Lags(wk'[w]))
  <2>1. IsFiniteSet(InHand) /\ IsFiniteSet(Uncounted)
    BY <1>1, Nulls, FS_Subset
  <2> QED
    BY <1>1, <2>1
<1>3. /\ Cardinality(InHand) \in Nat /\ Cardinality(InHand') \in Nat
      /\ Cardinality(InHand') =
           Cardinality(InHand) + Bit(Counts(wk'[w])) - Bit(Counts(wk[w]))
  <2>1. /\ Bit(w \in InHand') = Bit(Counts(wk'[w]))
        /\ Bit(w \in InHand) = Bit(Counts(wk[w]))
    BY <1>2 DEF Bit
  <2> QED
    BY <1>2, <2>1, CardinalityMoves
<1>4. /\ Cardinality(Uncounted) \in Nat /\ Cardinality(Uncounted') \in Nat
      /\ Cardinality(Uncounted') =
           Cardinality(Uncounted) + Bit(Lags(wk'[w])) - Bit(Lags(wk[w]))
  <2>1. /\ Bit(w \in Uncounted') = Bit(Lags(wk'[w]))
        /\ Bit(w \in Uncounted) = Bit(Lags(wk[w]))
    BY <1>2 DEF Bit
  <2> QED
    BY <1>2, <2>1, CardinalityMoves
<1>5. \A b : Bit(b) \in {0, 1}
  BY DEF Bit
<1>6. /\ Bit(Counts(wk[w])) \in Int /\ Bit(Counts(wk'[w])) \in Int
      /\ Bit(Lags(wk[w])) \in Int /\ Bit(Lags(wk'[w])) \in Int
  BY DEF Bit
<1> QED
  BY <1>3, <1>4, <1>6 DEF Weight

\* OutstandingOps and what it counts change alike.
LEMMA CountKept ==
  ASSUME TypeOK, CountInv, NEW w \in Workers,
         \A v \in Workers \ {w} : wk'[v] = wk[v],
         IsFiniteSet(sends'), IsFiniteSet(queue'),
         recvs' \in Seq(Nat), OutstandingOps' \in Int,
         OutstandingOps' - OutstandingOps =
           (Len(recvs') - Len(recvs))
           + (Cardinality(sends') - Cardinality(sends))
           + (Cardinality(OpPackets(queue')) - Cardinality(OpPackets(queue)))
           + (Weight(wk'[w]) - Weight(wk[w]))
  PROVE  CountInv'
<1>1. /\ Cardinality(InHand) \in Nat /\ Cardinality(Uncounted) \in Nat
      /\ Cardinality(InHand') \in Nat /\ Cardinality(Uncounted') \in Nat
      /\ Cardinality(InHand') - Cardinality(Uncounted') =
           Cardinality(InHand) - Cardinality(Uncounted)
           + Weight(wk'[w]) - Weight(wk[w])
  BY WeightMoves
<1>2. /\ Cardinality(sends) \in Nat /\ Cardinality(sends') \in Nat
      /\ Cardinality(OpPackets(queue)) \in Nat
      /\ Cardinality(OpPackets(queue')) \in Nat
  BY FS_Subset, FS_CardinalityType DEF CountInv, OpPackets
<1>3. /\ OutstandingOps + Cardinality(Uncounted) =
           Len(recvs) + Cardinality(sends) + Cardinality(InHand)
           + Cardinality(OpPackets(queue))
      /\ OutstandingOps \in Int /\ Len(recvs) \in Nat /\ Len(recvs') \in Nat
  BY Types, SeqFacts DEF CountInv, OpsCounted, OpPackets
<1>4. Weight(wk[w]) \in Int /\ Weight(wk'[w]) \in Int
  BY DEF Weight, Bit
<1>5. OutstandingOps' + Cardinality(Uncounted') =
        Len(recvs') + Cardinality(sends') + Cardinality(InHand')
        + Cardinality(OpPackets(queue'))
  <2> DEFINE h == Cardinality(InHand)
             h2 == Cardinality(InHand')
             u == Cardinality(Uncounted)
             u2 == Cardinality(Uncounted')
             c == Cardinality(sends)
             c2 == Cardinality(sends')
             p == Cardinality(OpPackets(queue))
             p2 == Cardinality(OpPackets(queue'))
             l == Len(recvs)
             l2 == Len(recvs')
             a == Weight(wk[w])
             a2 == Weight(wk'[w])
             o == OutstandingOps
             o2 == OutstandingOps'
  <2>1. /\ h \in Int /\ h2 \in Int /\ u \in Int /\ u2 \in Int /\ c \in Int
        /\ c2 \in Int /\ p \in Int /\ p2 \in Int /\ l \in Int /\ l2 \in Int
        /\ a \in Int /\ a2 \in Int /\ o \in Int /\ o2 \in Int
    BY <1>1, <1>2, <1>3, <1>4
  <2>2. h2 - u2 = h - u + a2 - a
    BY <1>1
  <2>3. o + u = l + c + h + p
    BY <1>3
  <2>4. o2 - o = (l2 - l) + (c2 - c) + (p2 - p) + (a2 - a)
    OBVIOUS
  <2> HIDE DEF h, h2, u, u2, c, c2, p, p2, l, l2, a, a2, o, o2
  <2>5. o2 + u2 = l2 + c2 + h2 + p2
    BY <2>1, <2>2, <2>3, <2>4
  <2> QED
    BY <2>5 DEF h2, u2, c2, p2, l2, o2
<1> QED
  BY <1>5 DEF CountInv, OpsCounted, OpPackets

\* A worker beyond the accept has left the start behind.
LEMMA Started ==
  ASSUME StartInv, NEW w \in Workers, wk[w].pc \notin StartPcs
  PROVE  ~Starting(queue, wk, arrived)
BY DEF StartInv

\* After the start a step does not go back to it.
LEMMA StartKept ==
  ASSUME StartInv, NEW w \in Workers, ~Starting(queue, wk, arrived),
         \A v \in Workers \ {w} : wk'[v] = wk[v],
         wk'[w].pc \notin {"accept", "asend"}, arrived' = arrived,
         \A p \in queue' : p.op = "accept" => p \in queue
  PROVE  StartInv'
<1>1. ~Starting(queue', wk', arrived')
  BY DEF Starting
<1> QED
  BY <1>1 DEF StartInv

\* A step of w that keeps the lock, takes it or leaves it.
LEMMA LockKept ==
  ASSUME TypeOK, LockInv, NEW w \in Workers,
         \A v \in Workers \ {w} : wk'[v] = wk[v],
         \/ SockCritSec' = SockCritSec
            /\ (wk'[w].pc \in LockPcs => wk[w].pc \in LockPcs)
         \/ SockCritSec = NULL /\ SockCritSec' = w
         \/ wk[w].pc \in LockPcs /\ wk'[w].pc \notin LockPcs
  PROVE  LockInv'
<1>1. \A v \in Workers : wk[v].pc \in LockPcs => SockCritSec = v
  BY DEF LockInv
<1> SUFFICES ASSUME NEW v \in Workers, wk'[v].pc \in LockPcs
             PROVE  SockCritSec' = v
  BY DEF LockInv
<1>2. CASE v = w
  BY <1>1, <1>2
<1>3. CASE v # w
  <2>1. wk[v].pc \in LockPcs /\ SockCritSec = v
    BY <1>1, <1>3
  <2> QED
    BY <1>1, <1>3, <2>1, Nulls
<1> QED
  BY <1>2, <1>3

\* Nobody else is where the lock is held.
LEMMA SoleOwner ==
  ASSUME LockInv, NEW w \in Workers, wk[w].pc \in LockPcs \/ SockCritSec = NULL
  PROVE  \A v \in Workers \ {w} : wk[v].pc \notin LockPcs
BY Nulls DEF LockInv

-----------------------------------------------------------------------------
(* Steps of a worker that post, complete and dequeue nothing.              *)

\* A step of w that leaves the numbers and the packets alone.
Plain(w) ==
  /\ Moved(w) /\ wk[w].pc \notin StartPcs
  /\ wk'[w].pc \notin {"accept", "asend", "enter", "sendCount"}
  /\ wk[w].pc # "sendCount"
  /\ wk'[w].pc = "sends" => wk'[w].ret # "none"
  /\ UNCHANGED <<arrived, recvs, sends, queue, wire, OutOfOrderSends>>

\* The variables that no number depends on keep their types.
Tame ==
  /\ s' \in {"none", "open", "closed"} /\ bClosing' \in BOOLEAN
  /\ OutstandingOps' \in Int /\ LastSendIssued' \in 0..(SeqModulus - 1)
  /\ i' \in 0..OverlappedCount /\ SockCritSec' \in Workers \cup {NULL}
  /\ freed' \in BOOLEAN /\ freedSends' \subseteq Nat
  /\ peer' \in {"open", "fin", "reset"}
  /\ faulted' \in BOOLEAN /\ early' \in BOOLEAN /\ misuse' \in BOOLEAN

\* What a worker adds at each place.
LEMMA Weights ==
  ASSUME NEW r
  PROVE  /\ r.pc \in {"get", "accept", "asend", "arecv", "aerr", "aflag", "leave",
                      "close", "free", "recvCount"} => Weight(r) = 0
         /\ r.pc \in {"asendCount", "arecvCount"} => Weight(r) = -1
         /\ r.pc \in {"enter", "error", "repost", "zero", "tail"} => Weight(r) = 1
         /\ r.pc = "sends" => Weight(r) = IF r.ret = "leave" THEN 0 ELSE 1
         /\ r.pc = "sendCount" => Weight(r) = IF r.ret = "leave" THEN -1 ELSE 0
BY DEF Weight, Bit, Counts, Lags

\* A plain step that counts what it does keeps the invariant.
LEMMA PlainDone ==
  ASSUME IInv, NEW w \in Workers, Plain(w), Tame,
         issued' = issued \/ issued' = issued + 1,
         LockInv',
         OutstandingOps' - OutstandingOps = Weight(wk'[w]) - Weight(wk[w])
  PROVE  IInv'
<1>1. TypeOK /\ LockInv /\ ShapeInv /\ StartInv /\ CountInv
  BY DEF IInv
<1>2. /\ wk' \in [Workers -> WorkerState]
      /\ \A v \in Workers \ {w} : wk'[v] = wk[v]
      /\ wk'[w].pc \notin {"accept", "asend", "enter", "sendCount"}
      /\ arrived' = arrived /\ recvs' = recvs /\ sends' = sends /\ queue' = queue
      /\ wire' = wire /\ OutOfOrderSends' = OutOfOrderSends
  BY DEF Plain, Moved
<1>3. /\ issued \in Nat /\ recvs \in Seq(Nat) /\ OutOfOrderSends \in Seq(Nat)
      /\ wire \in Seq(Nat) /\ sends \subseteq Nat /\ queue \subseteq PacketState
      /\ peer \in {"open", "fin", "reset"} /\ arrived \in 0..(MaxData + 1)
  BY <1>1, Types
<1>4. TypeOK'
  <2>1. issued' \in Nat
    BY <1>3
  <2> QED
    BY <1>2, <1>3, <2>1, TypesPrime DEF Tame
<1>5. ShapeInv'
  BY <1>1, <1>2 DEF ShapeInv, Plain
<1>6. StartInv'
  <2>1. ~Starting(queue, wk, arrived)
    BY <1>1, Started DEF Plain
  <2> QED
    BY <1>1, <1>2, <2>1, StartKept
<1>7. \A v \in Workers : Hand(wk'[v]) => Hand(wk[v]) /\ wk'[v].k = wk[v].k
  BY <1>2 DEF Hand
<1>8. Numbered(recvs, issued, queue, wk', OutOfOrderSends, wire)
  BY <1>7, NumberedKept DEF IInv
<1>9. Numbered(recvs', issued', queue', wk', OutOfOrderSends', wire')
  BY <1>2, <1>3, <1>8, NumberedIssued
<1>10. Distinct(queue', wk', OutOfOrderSends', wire')
  <2>1. \A v \in Workers : wk[v].pc = "sendCount" => wk'[v].pc = "sendCount"
    BY <1>2 DEF Plain
  <2> QED
    BY <1>2, <1>7, <2>1, DistinctKept DEF IInv
<1>11. Flying(sends', queue', wire')
  BY <1>2 DEF IInv
<1>12. CountInv'
  <2>1. /\ IsFiniteSet(sends') /\ IsFiniteSet(queue') /\ recvs' \in Seq(Nat)
        /\ OutstandingOps' \in Int
    BY <1>1, <1>2, <1>3 DEF CountInv, Tame
  <2>2. /\ Len(recvs') - Len(recvs) = 0
        /\ Cardinality(sends') - Cardinality(sends) = 0
        /\ Cardinality(OpPackets(queue')) - Cardinality(OpPackets(queue)) = 0
    <3>1. /\ Len(recvs) \in Nat /\ Cardinality(sends) \in Nat
          /\ Cardinality(OpPackets(queue)) \in Nat
      BY <1>1, <1>3, SeqFacts, FS_Subset, FS_CardinalityType
      DEF CountInv, OpPackets
    <3> QED
      BY <1>2, <3>1
  <2>3. Weight(wk'[w]) - Weight(wk[w]) \in Int
    BY DEF Weight, Bit
  <2> QED
    BY <1>1, <1>2, <2>1, <2>2, <2>3, CountKept
<1> QED
  BY <1>4, <1>5, <1>6, <1>9, <1>10, <1>11, <1>12 DEF IInv

\* The next send number is one.
LEMMA NextSendNumber ==
  ASSUME TypeOK
  PROVE  (LastSendIssued + 1) % SeqModulus \in 0..(SeqModulus - 1)
BY ConstantsAssumption, Types

\* The types of the variables that no number depends on.
LEMMA TameTypes ==
  ASSUME TypeOK
  PROVE  /\ s \in {"none", "open", "closed"} /\ bClosing \in BOOLEAN
         /\ OutstandingOps \in Int /\ LastSendIssued \in 0..(SeqModulus - 1)
         /\ i \in 0..OverlappedCount /\ SockCritSec \in Workers \cup {NULL}
         /\ freed \in BOOLEAN /\ freedSends \subseteq Nat
         /\ peer \in {"open", "fin", "reset"}
         /\ faulted \in BOOLEAN /\ early \in BOOLEAN /\ misuse \in BOOLEAN
BY Types

\* A step of w that only moves w, and the lock if w takes or leaves it.
LEMMA MoveKept ==
  ASSUME IInv, NEW w \in Workers, Moved(w), Tame,
         wk[w].pc \notin StartPcs \cup {"sendCount"},
         wk'[w].pc \notin {"accept", "asend", "enter", "sendCount"},
         wk'[w].pc = "sends" => wk'[w].ret # "none",
         UNCHANGED <<arrived, recvs, sends, queue, wire, OutOfOrderSends>>,
         issued' = issued \/ issued' = issued + 1,
         \/ SockCritSec' = SockCritSec
            /\ (wk'[w].pc \in LockPcs => wk[w].pc \in LockPcs)
         \/ SockCritSec = NULL /\ SockCritSec' = w
         \/ wk[w].pc \in LockPcs /\ wk'[w].pc \notin LockPcs,
         OutstandingOps' = OutstandingOps + Weight(wk'[w]) - Weight(wk[w])
  PROVE  IInv'
<1>1. TypeOK /\ LockInv
  BY DEF IInv
<1>2. Plain(w)
  BY DEF Plain
<1>3. LockInv'
  BY <1>1, LockKept DEF Moved
<1>4. OutstandingOps' - OutstandingOps = Weight(wk'[w]) - Weight(wk[w])
  <2>1. Weight(wk[w]) \in Int /\ Weight(wk'[w]) \in Int /\ OutstandingOps \in Int
    BY <1>1, TameTypes DEF Weight, Bit
  <2> QED
    BY <2>1
<1> QED
  BY <1>2, <1>3, <1>4, PlainDone

\* A call failed in the accept: the two steps of its end.
LEMMA AcceptFailedKept ==
  ASSUME IInv, NEW w \in Workers, AcceptFailed(w) \/ AcceptFlag(w)
  PROVE  IInv'
<1>1. TypeOK /\ {"close", "aflag", "get"} \subseteq Pcs
  BY DEF IInv, Pcs
<1>2. wk[w].pc \in {"aerr", "aflag"}
  BY DEF AcceptFailed, AcceptFlag
<1>3. Moved(w) /\ wk'[w].pc \in {"close", "aflag", "get"}
  BY <1>1, GotoMoves DEF AcceptFailed, AcceptFlag
<1>4. Tame /\ issued' = issued /\ SockCritSec' = SockCritSec
      /\ OutstandingOps' = OutstandingOps
      /\ UNCHANGED <<arrived, recvs, sends, queue, wire, OutOfOrderSends>>
  BY <1>1, TameTypes
  DEF AcceptFailed, AcceptFlag, Tame, life, sendList, recvVars, sendVars, netVars,
      history
<1>5. OutstandingOps' = OutstandingOps + Weight(wk'[w]) - Weight(wk[w])
  <2>1. Weight(wk'[w]) = 0 /\ Weight(wk[w]) = 0
    BY <1>2, <1>3, Weights
  <2> QED
    BY <1>1, <1>4, <2>1, TameTypes
<1>6. /\ wk[w].pc \notin StartPcs \cup {"sendCount"}
      /\ wk'[w].pc \notin {"accept", "asend", "enter", "sendCount", "sends"}
      /\ wk'[w].pc \notin LockPcs
  BY <1>2, <1>3 DEF StartPcs, LockPcs
<1> QED
  BY <1>3, <1>4, <1>5, <1>6, MoveKept

\* The counts after a call, of the worker that accepts and of the others.
LEMMA CallCountedKept ==
  ASSUME IInv, NEW w \in Workers, AcceptCount(w) \/ RecvCount(w)
  PROVE  IInv'
<1>1. TypeOK /\ {"arecv", "tail"} \subseteq Pcs
  BY DEF IInv, Pcs
<1>2. \/ wk[w].pc \in {"asendCount", "arecvCount"} /\ Goto(w, "arecv")
      \/ wk[w].pc = "recvCount" /\ Goto(w, "tail")
  BY DEF AcceptCount, RecvCount
<1>3. /\ Moved(w)
      /\ \/ wk[w].pc \in {"asendCount", "arecvCount"} /\ wk'[w].pc = "arecv"
         \/ wk[w].pc = "recvCount" /\ wk'[w].pc = "tail"
  BY <1>1, <1>2, GotoMoves
<1>4. OutstandingOps' = OutstandingOps + 1 /\ OutstandingOps + 1 \in Int
  BY <1>1, TameTypes DEF AcceptCount, RecvCount
<1>5. Tame /\ issued' = issued /\ SockCritSec' = SockCritSec
      /\ UNCHANGED <<arrived, recvs, sends, queue, wire, OutOfOrderSends>>
  BY <1>1, <1>4, TameTypes
  DEF AcceptCount, RecvCount, Tame, life, sendList, recvVars, sendVars, netVars,
      history
<1>6. OutstandingOps' = OutstandingOps + Weight(wk'[w]) - Weight(wk[w])
  <2>1. \/ Weight(wk'[w]) = 0 /\ Weight(wk[w]) = -1
        \/ Weight(wk'[w]) = 1 /\ Weight(wk[w]) = 0
    BY <1>3, Weights
  <2> QED
    BY <1>1, <1>4, <2>1, TameTypes
<1>7. /\ wk[w].pc \notin StartPcs \cup {"sendCount"}
      /\ wk'[w].pc \notin {"accept", "asend", "enter", "sendCount", "sends"}
      /\ wk'[w].pc \in LockPcs => wk[w].pc \in LockPcs
  BY <1>3 DEF StartPcs, LockPcs
<1> QED
  BY <1>3, <1>5, <1>6, <1>7, MoveKept

\* The test after a receive of 0 bytes.
LEMMA ZeroTestKept ==
  ASSUME IInv, NEW w \in Workers, ZeroTest(w)
  PROVE  IInv'
<1>1. TypeOK
  BY DEF IInv
<1>2. PICK q \in WorkerState : q = wk[w]
  BY <1>1, WorkerFacts
<1> DEFINE b == OutstandingOps = 0 /\ OutOfOrderSends = <<>>
           r == [q EXCEPT !.pc = "tail", !.cleanup = b]
<1>b. b \in BOOLEAN
  BY Zenon
<1> HIDE DEF b
<1>3. r \in WorkerState /\ r.pc = "tail"
  BY <1>b DEF WorkerState, Pcs
<1>4. Become(w, r) /\ wk[w].pc = "zero"
  BY <1>2 DEF ZeroTest, b
<1> HIDE DEF r
<1>5. Moved(w) /\ wk'[w].pc = "tail"
  BY <1>1, <1>3, <1>4, BecomeMoves
<1>6. Tame /\ issued' = issued /\ SockCritSec' = SockCritSec
      /\ OutstandingOps' = OutstandingOps
      /\ UNCHANGED <<arrived, recvs, sends, queue, wire, OutOfOrderSends>>
  BY <1>1, TameTypes
  DEF ZeroTest, Tame, life, sendList, recvVars, sendVars, netVars, history
<1>7. OutstandingOps' = OutstandingOps + Weight(wk'[w]) - Weight(wk[w])
  <2>1. Weight(wk'[w]) = 1 /\ Weight(wk[w]) = 1
    BY <1>4, <1>5, Weights
  <2> QED
    BY <1>1, <1>6, <2>1, TameTypes
<1> QED
  BY <1>4, <1>5, <1>6, <1>7, MoveKept DEF StartPcs, LockPcs

\* LeaveCriticalSection at the end of HandleIo.
LEMMA LeaveKept ==
  ASSUME IInv, NEW w \in Workers, Leave(w)
  PROVE  IInv'
<1>1. TypeOK /\ {"close", "get"} \subseteq Pcs
  BY DEF IInv, Pcs
<1>2. wk[w].pc = "leave" /\ Moved(w) /\ wk'[w].pc \in {"close", "get"}
  BY <1>1, GotoMoves DEF Leave
<1>3. Tame /\ issued' = issued /\ OutstandingOps' = OutstandingOps
      /\ UNCHANGED <<arrived, recvs, sends, queue, wire, OutOfOrderSends>>
  BY <1>1, TameTypes
  DEF Leave, Tame, life, sendList, recvVars, sendVars, netVars, history
<1>4. OutstandingOps' = OutstandingOps + Weight(wk'[w]) - Weight(wk[w])
  <2>1. Weight(wk'[w]) = 0 /\ Weight(wk[w]) = 0
    BY <1>2, Weights
  <2> QED
    BY <1>1, <1>3, <2>1, TameTypes
<1> QED
  BY <1>2, <1>3, <1>4, MoveKept DEF StartPcs, LockPcs

\* An operation that completed with an error is taken off the count.
LEMMA HandleIoErrorKept ==
  ASSUME IInv, NEW w \in Workers, HandleIoError(w)
  PROVE  IInv'
<1>1. TypeOK /\ {"free", "get"} \subseteq Pcs
  BY DEF IInv, Pcs
<1>2. wk[w].pc = "error" /\ Moved(w) /\ wk'[w].pc \in {"free", "get"}
  BY <1>1, GotoMoves DEF HandleIoError
<1>3. OutstandingOps' = OutstandingOps - 1 /\ OutstandingOps - 1 \in Int
  BY <1>1, TameTypes DEF HandleIoError
<1>4. freedSends' \subseteq Nat
  BY <1>1, TameTypes, WorkerFacts DEF HandleIoError
<1>5. Tame /\ issued' = issued /\ SockCritSec' = SockCritSec
      /\ UNCHANGED <<arrived, recvs, sends, queue, wire, OutOfOrderSends>>
  BY <1>1, <1>3, <1>4, TameTypes
  DEF HandleIoError, Tame, life, recvVars, sendVars, netVars, history
<1>6. OutstandingOps' = OutstandingOps + Weight(wk'[w]) - Weight(wk[w])
  <2>1. Weight(wk'[w]) = 0 /\ Weight(wk[w]) = 1
    BY <1>2, Weights
  <2> QED
    BY <1>1, <1>3, <2>1, TameTypes
<1> QED
  BY <1>2, <1>5, <1>6, MoveKept DEF StartPcs, LockPcs

\* closesocket and FreeSocketObj.
LEMMA ClosesKept ==
  ASSUME IInv, NEW w \in Workers, CloseSocket(w) \/ FreeSocketObj(w)
  PROVE  IInv'
<1>1. TypeOK /\ {"free", "get"} \subseteq Pcs
  BY DEF IInv, Pcs
<1>2. /\ wk[w].pc \in {"close", "free"} /\ Moved(w)
      /\ wk'[w].pc \in {"free", "get"}
  BY <1>1, GotoMoves DEF CloseSocket, FreeSocketObj
<1>3. Tame /\ issued' = issued /\ SockCritSec' = SockCritSec
      /\ OutstandingOps' = OutstandingOps
      /\ UNCHANGED <<arrived, recvs, sends, queue, wire, OutOfOrderSends>>
  BY <1>1, TameTypes
  DEF CloseSocket, FreeSocketObj, Tame, sendList, recvVars, sendVars, netVars,
      history
<1>4. OutstandingOps' = OutstandingOps + Weight(wk'[w]) - Weight(wk[w])
  <2>1. Weight(wk'[w]) = 0 /\ Weight(wk[w]) = 0
    BY <1>2, Weights
  <2> QED
    BY <1>1, <1>3, <2>1, TameTypes
<1>5. /\ wk[w].pc \notin StartPcs \cup {"sendCount"}
      /\ wk'[w].pc \notin {"accept", "asend", "enter", "sendCount", "sends"}
      /\ wk'[w].pc \notin LockPcs
  BY <1>2 DEF StartPcs, LockPcs
<1> QED
  BY <1>2, <1>3, <1>4, <1>5, MoveKept

\* The end of HandleIo.
LEMMA HandleIoTailKept ==
  ASSUME IInv, NEW w \in Workers, HandleIoTail(w)
  PROVE  IInv'
<1>1. TypeOK
  BY DEF IInv
<1>2. PICK q \in WorkerState : q = wk[w]
  BY <1>1, WorkerFacts
<1> DEFINE r1 == [q EXCEPT !.pc = "leave", !.cleanup = TRUE]
           r2 == [q EXCEPT !.pc = "sends", !.ret = "leave"]
<1>3. /\ r1 \in WorkerState /\ r1.pc = "leave"
      /\ r2 \in WorkerState /\ r2.pc = "sends" /\ r2.ret = "leave"
  BY DEF WorkerState, Pcs, Rets
<1>4. (Become(w, r1) \/ Become(w, r2)) /\ wk[w].pc = "tail"
  BY <1>2 DEF HandleIoTail
<1> HIDE DEF r1, r2
<1>5. /\ Moved(w)
      /\ wk'[w].pc = "leave" \/ (wk'[w].pc = "sends" /\ wk'[w].ret = "leave")
  BY <1>1, <1>3, <1>4, BecomeMoves
<1>6. OutstandingOps' = OutstandingOps - 1 /\ OutstandingOps - 1 \in Int
  BY <1>1, TameTypes DEF HandleIoTail
<1>7. bClosing' \in BOOLEAN
  BY Zenon DEF HandleIoTail
<1>8. Tame /\ issued' = issued /\ SockCritSec' = SockCritSec
      /\ UNCHANGED <<arrived, recvs, sends, queue, wire, OutOfOrderSends>>
  BY <1>1, <1>6, <1>7, TameTypes
  DEF HandleIoTail, Tame, sendList, recvVars, sendVars, netVars, history
<1>9. OutstandingOps' = OutstandingOps + Weight(wk'[w]) - Weight(wk[w])
  <2>1. Weight(wk'[w]) = 0 /\ Weight(wk[w]) = 1
    BY <1>4, <1>5, Weights
  <2> QED
    BY <1>1, <1>6, <2>1, TameTypes
<1>10. /\ wk[w].pc \notin StartPcs \cup {"sendCount"} /\ wk[w].pc \in LockPcs
       /\ wk'[w].pc \notin {"accept", "asend", "enter", "sendCount"}
       /\ wk'[w].pc = "sends" => wk'[w].ret # "none"
  BY <1>4, <1>5 DEF StartPcs, LockPcs
<1> QED
  BY <1>5, <1>8, <1>9, <1>10, MoveKept

-----------------------------------------------------------------------------
(* PostRecv.                                                               *)

\* A receive is numbered and posted, by the worker that accepts or by another.
LEMMA PostedRecvKept ==
  ASSUME IInv, NEW w \in Workers, Tame, Moved(w),
         recvs' = Append(recvs, issued + 1), issued' = issued + 1,
         \/ wk[w].pc = "arecv" /\ wk'[w].pc = "arecvCount"
         \/ wk[w].pc = "repost" /\ wk'[w].pc = "recvCount",
         UNCHANGED <<arrived, sends, queue, wire, OutOfOrderSends, SockCritSec,
                     OutstandingOps>>
  PROVE  IInv'
<1>1. TypeOK /\ LockInv /\ ShapeInv /\ StartInv /\ CountInv
  BY DEF IInv
<1>2. /\ wk' \in [Workers -> WorkerState]
      /\ \A v \in Workers \ {w} : wk'[v] = wk[v]
  BY DEF Moved
<1>3. /\ issued \in Nat /\ recvs \in Seq(Nat) /\ OutOfOrderSends \in Seq(Nat)
      /\ wire \in Seq(Nat) /\ sends \subseteq Nat /\ queue \subseteq PacketState
      /\ arrived \in 0..(MaxData + 1)
  BY <1>1, Types
<1>4. issued' \in Nat /\ recvs' \in Seq(Nat) /\ Len(recvs') = Len(recvs) + 1
      /\ Len(recvs) \in Nat
  BY <1>3, AppendFacts, SeqFacts
<1>5. TypeOK'
  BY <1>2, <1>3, <1>4, TypesPrime DEF Tame
<1>6. ShapeInv'
  BY <1>1, <1>2 DEF ShapeInv
<1>7. LockInv'
  BY <1>1, <1>2, LockKept DEF LockPcs
<1>8. StartInv'
  <2>1. ~Starting(queue, wk, arrived)
    BY <1>1, Started DEF StartPcs
  <2> QED
    BY <1>1, <1>2, <2>1, StartKept
<1>9. \A v \in Workers : Hand(wk'[v]) => Hand(wk[v]) /\ wk'[v].k = wk[v].k
  BY <1>2 DEF Hand
<1>10. Numbered(recvs', issued', queue', wk', OutOfOrderSends', wire')
  <2>1. Numbered(recvs, issued, queue, wk', OutOfOrderSends, wire)
    BY <1>9, NumberedKept DEF IInv
  <2> QED
    BY <1>3, <2>1, NumberedIssued
<1>11. Distinct(queue', wk', OutOfOrderSends', wire')
  <2>1. \A v \in Workers : wk[v].pc = "sendCount" => wk'[v].pc = "sendCount"
    BY <1>2
  <2> QED
    BY <1>9, <2>1, DistinctKept DEF IInv
<1>12. Flying(sends', queue', wire')
  BY DEF IInv
<1>13. CountInv'
  <2>1. /\ IsFiniteSet(sends') /\ IsFiniteSet(queue')
        /\ OutstandingOps' \in Int /\ OutstandingOps' - OutstandingOps = 0
    BY <1>1, TameTypes DEF CountInv
  <2>2. /\ Len(recvs') - Len(recvs) = 1
        /\ Cardinality(sends') - Cardinality(sends) = 0
        /\ Cardinality(OpPackets(queue')) - Cardinality(OpPackets(queue)) = 0
    <3>1. Cardinality(sends) \in Nat /\ Cardinality(OpPackets(queue)) \in Nat
      BY <1>1, FS_Subset, FS_CardinalityType DEF CountInv, OpPackets
    <3> QED
      BY <1>4, <3>1
  <2>3. Weight(wk'[w]) - Weight(wk[w]) = -1
    <3>1. \/ Weight(wk'[w]) = -1 /\ Weight(wk[w]) = 0
          \/ Weight(wk'[w]) = 0 /\ Weight(wk[w]) = 1
      BY Weights
    <3> QED
      BY <3>1
  <2> QED
    BY <1>1, <1>2, <1>4, <2>1, <2>2, <2>3, CountKept
<1> QED
  BY <1>5, <1>6, <1>7, <1>8, <1>10, <1>11, <1>12, <1>13 DEF IInv

\* The loop of the worker that accepts.
LEMMA AcceptRecvKept ==
  ASSUME IInv, NEW w \in Workers, AcceptRecv(w)
  PROVE  IInv'
<1>1. TypeOK /\ {"arecvCount", "aerr", "get"} \subseteq Pcs /\ wk[w].pc = "arecv"
  BY DEF IInv, Pcs, AcceptRecv
<1>2. /\ SockCritSec' = SockCritSec /\ OutstandingOps' = OutstandingOps
      /\ UNCHANGED <<arrived, sends, queue, wire, OutOfOrderSends>>
  BY DEF AcceptRecv, sendList, sendVars, netVars
<1>3. Tame
  <2>1. i' \in 0..OverlappedCount
    BY <1>1, TameTypes, ConstantsAssumption DEF AcceptRecv, recvVars
  <2>2. faulted' \in BOOLEAN
    BY <1>1, TameTypes DEF AcceptRecv
  <2> QED
    BY <1>1, <2>1, <2>2, TameTypes
    DEF AcceptRecv, Tame, life, sendList, netVars
<1>4. CASE IssueRecv(w, "arecvCount")
  <2>1. Moved(w) /\ wk'[w].pc = "arecvCount"
    BY <1>1, <1>4, GotoMoves DEF IssueRecv
  <2> QED
    BY <1>1, <1>2, <1>3, <1>4, <2>1, PostedRecvKept DEF IssueRecv
<1>5. CASE /\ Goto(w, "aerr") \/ Goto(w, "get")
           /\ issued' = issued \/ issued' = issued + 1
           /\ recvs' = recvs
  <2>1. Moved(w) /\ wk'[w].pc \in {"aerr", "get"}
    BY <1>1, <1>5, GotoMoves
  <2>2. OutstandingOps' = OutstandingOps + Weight(wk'[w]) - Weight(wk[w])
    <3>1. Weight(wk'[w]) = 0 /\ Weight(wk[w]) = 0
      BY <1>1, <2>1, Weights
    <3> QED
      BY <1>1, <1>2, <3>1, TameTypes
  <2>3. /\ wk[w].pc \notin StartPcs \cup {"sendCount"}
        /\ wk'[w].pc \notin {"accept", "asend", "enter", "sendCount", "sends"}
        /\ wk'[w].pc \notin LockPcs
    BY <1>1, <2>1 DEF StartPcs, LockPcs
  <2> QED
    BY <1>2, <1>3, <1>5, <2>1, <2>2, <2>3, MoveKept
<1> QED
  BY <1>4, <1>5 DEF AcceptRecv, recvVars

\* The receive is posted again.
LEMMA RepostRecvKept ==
  ASSUME IInv, NEW w \in Workers, RepostRecv(w)
  PROVE  IInv'
<1>1. TypeOK /\ "recvCount" \in Pcs /\ wk[w].pc = "repost"
  BY DEF IInv, Pcs, RepostRecv
<1>2. /\ SockCritSec' = SockCritSec /\ OutstandingOps' = OutstandingOps
      /\ UNCHANGED <<arrived, sends, queue, wire, OutOfOrderSends>>
  BY DEF RepostRecv, sendList, sendVars, netVars
<1>3. Tame
  <2>1. faulted' \in BOOLEAN
    BY <1>1, TameTypes DEF RepostRecv
  <2> QED
    BY <1>1, <2>1, TameTypes
    DEF RepostRecv, Tame, life, sendList, netVars
<1>4. CASE IssueRecv(w, "recvCount")
  <2>1. Moved(w) /\ wk'[w].pc = "recvCount"
    BY <1>1, <1>4, GotoMoves DEF IssueRecv
  <2> QED
    BY <1>1, <1>2, <1>3, <1>4, <2>1, PostedRecvKept DEF IssueRecv
<1>5. CASE /\ Become(w, [wk[w] EXCEPT !.pc = "tail", !.err = TRUE])
           /\ issued' = issued + 1 /\ recvs' = recvs
  <2>1. PICK q \in WorkerState : q = wk[w]
    BY <1>1, WorkerFacts
  <2> DEFINE r == [q EXCEPT !.pc = "tail", !.err = TRUE]
  <2>2. r \in WorkerState /\ r.pc = "tail"
    BY DEF WorkerState, Pcs
  <2>3. Become(w, r)
    BY <1>5, <2>1
  <2> HIDE DEF r
  <2>4. Moved(w) /\ wk'[w].pc = "tail"
    BY <1>1, <2>2, <2>3, BecomeMoves
  <2>5. OutstandingOps' = OutstandingOps + Weight(wk'[w]) - Weight(wk[w])
    <3>1. Weight(wk'[w]) = 1 /\ Weight(wk[w]) = 1
      BY <1>1, <2>4, Weights
    <3> QED
      BY <1>1, <1>2, <3>1, TameTypes
  <2> QED
    BY <1>1, <1>2, <1>3, <1>5, <2>4, <2>5, MoveKept DEF StartPcs, LockPcs
<1> QED
  BY <1>4, <1>5 DEF RepostRecv

-----------------------------------------------------------------------------
(* OutOfOrderSends and DoSends.                                            *)

\* EnterCriticalSection and the first part of a branch.
LEMMA EnterKept ==
  ASSUME IInv, NEW w \in Workers, Enter(w)
  PROVE  IInv'
<1>1. TypeOK /\ LockInv /\ ShapeInv /\ StartInv /\ CountInv
  BY DEF IInv
<1>2. /\ wk[w].pc = "enter" /\ SockCritSec = NULL /\ SockCritSec' = w
      /\ UNCHANGED <<arrived, recvs, sends, queue, wire, issued, OutstandingOps>>
  BY DEF Enter, recvVars, sendVars, netVars
<1>3. /\ wk[w].op \in {"read", "zero", "write"}
      /\ Become(w, [wk[w] EXCEPT !.pc = "sends",
                      !.ret = CASE wk[w].op = "read" -> "repost"
                                [] wk[w].op = "zero" -> "zero"
                                [] wk[w].op = "write" -> "tail"])
  BY DEF Enter
<1>4. PICK q \in WorkerState : q = wk[w]
  BY <1>1, WorkerFacts
<1> DEFINE t == CASE wk[w].op = "read" -> "repost"
                  [] wk[w].op = "zero" -> "zero"
                  [] wk[w].op = "write" -> "tail"
           r == [q EXCEPT !.pc = "sends", !.ret = t]
<1>5. t \in {"repost", "zero", "tail"}
  BY <1>3
<1>6. Become(w, r)
  BY <1>3, <1>4
<1> HIDE DEF t
<1>7. r \in WorkerState /\ r.pc = "sends" /\ r.ret = t
  BY <1>5 DEF WorkerState, Pcs, Rets
<1> HIDE DEF r
<1>8. Moved(w) /\ wk'[w].pc = "sends" /\ wk'[w].ret = t
  BY <1>1, <1>6, <1>7, BecomeMoves
<1>9. Tame
  <2>1. bClosing' \in BOOLEAN
    BY <1>1, TameTypes DEF Enter
  <2> QED
    BY <1>1, <2>1, TameTypes
    DEF Enter, Tame, recvVars, sendVars, netVars, history
<1>10. Weight(wk'[w]) = 1 /\ Weight(wk[w]) = 1
  BY <1>2, <1>5, <1>8, Weights
<1>11. CASE wk[w].op # "read"
  <2>1. OutOfOrderSends' = OutOfOrderSends
    BY <1>11 DEF Enter
  <2>2. OutstandingOps' = OutstandingOps + Weight(wk'[w]) - Weight(wk[w])
    BY <1>1, <1>2, <1>10, TameTypes
  <2>3. /\ wk[w].pc \notin StartPcs \cup {"sendCount"}
        /\ wk'[w].pc \notin {"accept", "asend", "enter", "sendCount"}
        /\ wk'[w].ret # "none"
    BY <1>2, <1>5, <1>8 DEF StartPcs
  <2> QED
    BY <1>2, <1>8, <1>9, <2>1, <2>2, <2>3, MoveKept
<1>12. CASE wk[w].op = "read"
  <2>1. /\ OutOfOrderSends' = InsertPendingSend(wk[w].k, OutOfOrderSends)
        /\ Hand(wk[w]) /\ ~Hand(wk'[w]) /\ wk[w].k \in Nat
    BY <1>1, <1>2, <1>8, <1>12, WorkerFacts DEF Enter, Hand
  <2>2. PICK l \in Seq(Nat) : l = OutOfOrderSends
    BY <1>1, Types
  <2>3. /\ Distinct(queue, wk, l, wire)
        /\ Numbered(recvs, issued, queue, wk, l, wire)
    BY <2>2 DEF IInv
  <2>4. /\ \A j \in 1..Len(l) : l[j] # wk[w].k
        /\ \A j, h \in 1..Len(l) : l[j] = l[h] => j = h
    BY <2>1, <2>3 DEF Distinct
  <2> DEFINE x == wk[w].k
             l2 == InsertPendingSend(x, l)
  <2>x. x \in Nat /\ (\A j \in 1..Len(l) : l[j] # x)
    BY <2>1, <2>4
  <2> HIDE DEF x
  <2>5. /\ l2 \in Seq(Nat) /\ Len(l2) = Len(l) + 1
        /\ \A j \in 1..Len(l2) : l2[j] = x \/ \E h \in 1..Len(l) : l2[j] = l[h]
        /\ \A j, h \in 1..Len(l2) : l2[j] = l2[h] => j = h
    BY <2>x, <2>4, InsertFacts
  <2>l. l2 = OutOfOrderSends'
    BY <2>1, <2>2 DEF x
  <2>y. x = wk[w].k
    BY DEF x
  <2> HIDE DEF l2
  <2>6. /\ \A v \in Workers \ {w} : wk'[v] = wk[v]
        /\ wk' \in [Workers -> WorkerState]
    BY <1>8 DEF Moved
  <2>7. \A v \in Workers : wk[v].pc # "sendCount"
    BY <1>1, <1>2, SoleOwner DEF LockPcs
  <2>8. Numbered(recvs', issued', queue', wk', OutOfOrderSends', wire')
    <3>1. Numbered(recvs, issued, queue, wk', l2, wire)
      BY <2>1, <2>3, <2>5, <2>6, <2>y, NumberedEntered
    <3> QED
      BY <1>2, <2>l, <3>1
  <2>9. Distinct(queue', wk', OutOfOrderSends', wire')
    <3>1. Distinct(queue, wk', l2, wire)
      BY <2>1, <2>3, <2>5, <2>6, <2>7, <2>y, DistinctEntered
    <3> QED
      BY <1>2, <2>l, <3>1
  <2>10. TypeOK'
    <3>1. /\ issued \in Nat /\ recvs \in Seq(Nat) /\ wire \in Seq(Nat)
          /\ sends \subseteq Nat /\ queue \subseteq PacketState
          /\ arrived \in 0..(MaxData + 1)
      BY <1>1, Types
    <3> QED
      BY <1>2, <1>9, <2>5, <2>l, <2>6, <3>1, TypesPrime DEF Tame
  <2>11. LockInv'
    BY <1>1, <1>2, <2>6, LockKept
  <2>12. ShapeInv'
    BY <1>1, <1>5, <1>8, <2>6, <2>7 DEF ShapeInv
  <2>13. StartInv'
    <3>1. ~Starting(queue, wk, arrived)
      BY <1>1, <1>2, Started DEF StartPcs
    <3> QED
      BY <1>1, <1>2, <1>8, <2>6, <3>1, StartKept
  <2>14. Flying(sends', queue', wire')
    BY <1>2 DEF IInv
  <2>15. CountInv'
    <3>1. /\ IsFiniteSet(sends') /\ IsFiniteSet(queue')
          /\ OutstandingOps' \in Int /\ OutstandingOps' - OutstandingOps = 0
          /\ recvs' \in Seq(Nat)
      BY <1>1, <1>2, Types DEF CountInv
    <3>2. /\ Len(recvs') - Len(recvs) = 0
          /\ Cardinality(sends') - Cardinality(sends) = 0
          /\ Cardinality(OpPackets(queue')) - Cardinality(OpPackets(queue)) = 0
      <4>1. /\ Cardinality(sends) \in Nat /\ Cardinality(OpPackets(queue)) \in Nat
            /\ Len(recvs) \in Nat
        BY <1>1, Types, SeqFacts, FS_Subset, FS_CardinalityType
        DEF CountInv, OpPackets
      <4> QED
        BY <1>2, <4>1
    <3> QED
      BY <1>1, <1>10, <2>6, <3>1, <3>2, CountKept
  <2> QED
    BY <2>8, <2>9, <2>10, <2>11, <2>12, <2>13, <2>14, <2>15 DEF IInv
<1> QED
  BY <1>11, <1>12

\* A set of sends that gets one more.
LEMMA OneMoreSend ==
  ASSUME CountInv, NEW x, x \notin sends, sends' = sends \cup {x}
  PROVE  /\ IsFiniteSet(sends') /\ Cardinality(sends) \in Nat
         /\ Cardinality(sends') - Cardinality(sends) = 1
<1>1. /\ IsFiniteSet(sends) /\ IsFiniteSet(sends') /\ Cardinality(sends) \in Nat
      /\ Cardinality(sends') = Cardinality(sends) + 1
  BY FS_AddElement, FS_CardinalityType DEF CountInv
<1> QED
  BY <1>1

\* DoSends posts the head of the list.
LEMMA DoSendsPosted ==
  ASSUME IInv, NEW w \in Workers, wk[w].pc = "sends",
         OutOfOrderSends # <<>>, Tame, issued' = issued,
         Moved(w), wk'[w].pc = "sendCount", wk'[w].ret = wk[w].ret,
         sends' = sends \cup {Head(OutOfOrderSends)},
         wire' = Append(wire, Head(OutOfOrderSends)),
         UNCHANGED <<arrived, recvs, queue, OutOfOrderSends, SockCritSec,
                     OutstandingOps>>
  PROVE  IInv'
<1>1. TypeOK /\ LockInv /\ ShapeInv /\ StartInv /\ CountInv
  BY DEF IInv
<1>2. /\ wk' \in [Workers -> WorkerState]
      /\ \A v \in Workers \ {w} : wk'[v] = wk[v]
  BY DEF Moved
<1>3. PICK l \in Seq(Nat) : l = OutOfOrderSends
  BY <1>1, Types
<1>4. PICK t \in Seq(Nat) : t = wire
  BY <1>1, Types
<1> DEFINE x == Head(l)
<1>5. l # <<>> /\ x \in Nat /\ x = l[1] /\ 1 \in 1..Len(l)
  BY <1>3, TailFacts, SeqFacts
<1>6. \A v \in Workers : wk[v].pc # "sendCount"
  BY <1>1, SoleOwner DEF LockPcs
<1>7. \A a \in 1..Len(t) : t[a] # x
  BY <1>3, <1>4, <1>5, <1>6 DEF IInv, Distinct
<1>8. Numbered(recvs, issued, queue, wk, l, t) /\ Distinct(queue, wk, l, t)
      /\ Flying(sends, queue, t)
  BY <1>3, <1>4 DEF IInv
<1>9. sends' = sends \cup {x} /\ wire' = Append(t, x)
  BY <1>3, <1>4
<1>10. Numbered(recvs', issued', queue', wk', OutOfOrderSends', wire')
  <2>1. Numbered(recvs, issued, queue, wk, l, Append(t, x))
    BY <1>5, <1>8, NumberedSent
  <2>2. \A v \in Workers : Hand(wk'[v]) => Hand(wk[v]) /\ wk'[v].k = wk[v].k
    BY <1>2 DEF Hand
  <2>3. Numbered(recvs, issued, queue, wk', l, Append(t, x))
    BY <2>1, <2>2, NumberedKept
  <2> QED
    BY <1>3, <1>9, <2>3
<1>11. Distinct(queue', wk', OutOfOrderSends', wire')
  <2>1. Distinct(queue, wk', l, Append(t, x))
    BY <1>2, <1>5, <1>8, DistinctSent
  <2> QED
    BY <1>3, <1>9, <2>1
<1> HIDE DEF x
<1>12. Flying(sends', queue', wire') /\ x \notin sends
  <2>1. Flying(sends \cup {x}, queue, Append(t, x)) /\ x \notin sends
    BY <1>5, <1>7, <1>8, FlyingSent
  <2> QED
    BY <1>9, <2>1
<1>13. TypeOK'
  <2>1. /\ issued \in Nat /\ recvs \in Seq(Nat)
        /\ sends \subseteq Nat /\ queue \subseteq PacketState
        /\ arrived \in 0..(MaxData + 1)
    BY <1>1, Types
  <2>2. wire' \in Seq(Nat) /\ sends' \subseteq Nat
    BY <1>5, <1>9, <2>1, AppendFacts
  <2> QED
    BY <1>2, <1>3, <2>1, <2>2, TypesPrime DEF Tame
<1>14. LockInv'
  BY <1>1, <1>2, LockKept DEF LockPcs
<1>15. ShapeInv'
  BY <1>1, <1>2 DEF ShapeInv
<1>16. StartInv'
  <2>1. ~Starting(queue, wk, arrived)
    BY <1>1, Started DEF StartPcs
  <2> QED
    BY <1>1, <1>2, <2>1, StartKept
<1>17. CountInv'
  <2>1. /\ IsFiniteSet(sends') /\ Cardinality(sends') - Cardinality(sends) = 1
    BY <1>1, <1>9, <1>12, OneMoreSend
  <2>2. /\ IsFiniteSet(queue') /\ recvs' \in Seq(Nat)
        /\ OutstandingOps' \in Int /\ OutstandingOps' - OutstandingOps = 0
    BY <1>1, Types DEF CountInv
  <2>3. /\ Len(recvs') - Len(recvs) = 0
        /\ Cardinality(OpPackets(queue')) - Cardinality(OpPackets(queue)) = 0
    <3>1. /\ Cardinality(OpPackets(queue)) \in Nat /\ Len(recvs) \in Nat
      BY <1>1, Types, SeqFacts, FS_Subset, FS_CardinalityType
      DEF CountInv, OpPackets
    <3> QED
      BY <3>1
  <2>4. Weight(wk'[w]) - Weight(wk[w]) = -1
    BY Weights
  <2>5. OutstandingOps' - OutstandingOps =
          (Len(recvs') - Len(recvs))
          + (Cardinality(sends') - Cardinality(sends))
          + (Cardinality(OpPackets(queue')) - Cardinality(OpPackets(queue)))
          + (Weight(wk'[w]) - Weight(wk[w]))
    BY <2>1, <2>2, <2>3, <2>4
  <2> QED
    BY <1>1, <1>2, <2>1, <2>2, <2>5, CountKept
<1> QED
  BY <1>10, <1>11, <1>12, <1>13, <1>14, <1>15, <1>16, <1>17 DEF IInv

\* A round of DoSends.
LEMMA DoSendsKept ==
  ASSUME IInv, NEW w \in Workers, DoSends(w)
  PROVE  IInv'
<1>1. TypeOK /\ "sendCount" \in Pcs /\ wk[w].pc = "sends" /\ wk[w].ret # "none"
      /\ wk[w].ret \in Rets
  BY WorkerFacts DEF IInv, Pcs, DoSends, ShapeInv
<1>2. /\ SockCritSec' = SockCritSec /\ OutstandingOps' = OutstandingOps
      /\ UNCHANGED <<arrived, recvs, queue, OutOfOrderSends, issued>>
  BY DEF DoSends, recvVars, netVars
<1>3. Tame
  <2>1. faulted' \in BOOLEAN
    BY <1>1, TameTypes DEF DoSends
  <2>2. LastSendIssued' \in 0..(SeqModulus - 1)
    <3>1. \/ LastSendIssued' = LastSendIssued
          \/ LastSendIssued' = (LastSendIssued + 1) % SeqModulus
      BY DEF DoSends, IssueSend
    <3> QED
      BY <1>1, <3>1, TameTypes, NextSendNumber
  <2>3. freedSends' \subseteq Nat
    <3>1. NextIsDue => Head(OutOfOrderSends) \in Nat
      <4>1. PICK l \in Seq(Nat) : l = OutOfOrderSends
        BY <1>1, Types
      <4> QED
        BY <4>1, TailFacts, SeqFacts DEF NextIsDue
    <3> QED
      BY <1>1, <3>1, TameTypes DEF DoSends
  <2> QED
    BY <1>1, <2>1, <2>2, <2>3, TameTypes
    DEF DoSends, Tame, life, recvVars, netVars
<1>4. CASE NextIsDue /\ IssueSend(w, Head(OutOfOrderSends), "sendCount")
  <2>1. Moved(w) /\ wk'[w].pc = "sendCount" /\ wk'[w].ret = wk[w].ret
    BY <1>1, <1>4, GotoMoves DEF IssueSend
  <2> QED
    BY <1>1, <1>2, <1>3, <1>4, <2>1, DoSendsPosted DEF IssueSend, NextIsDue
<1>5. CASE Become(w, SendsFailed(wk[w])) /\ UNCHANGED sendVars
  <2>1. PICK q \in WorkerState : q = wk[w]
    BY <1>1, WorkerFacts
  <2> DEFINE r1 == [q EXCEPT !.pc = "leave", !.cleanup = TRUE]
             l == IF q.ret = "repost" THEN "tail" ELSE q.ret
             r2 == [q EXCEPT !.pc = l, !.err = TRUE]
             r == IF q.ret = "leave" THEN r1 ELSE r2
  <2>2. Become(w, r)
    BY <1>5, <2>1 DEF SendsFailed
  <2>3. q.ret # "leave" => l \in {"tail", "zero"}
    BY <1>1, <2>1 DEF Rets
  <2>4. r1 \in WorkerState /\ r1.pc = "leave"
    BY DEF WorkerState, Pcs
  <2>5. q.ret # "leave" => r2 \in WorkerState /\ r2.pc \in {"tail", "zero"}
    <3> HIDE DEF l
    <3> QED
      BY <2>3 DEF WorkerState, Pcs
  <2> HIDE DEF r1, r2
  <2>6. /\ r \in WorkerState
        /\ IF q.ret = "leave" THEN r.pc = "leave" ELSE r.pc \in {"tail", "zero"}
    BY <2>4, <2>5
  <2> HIDE DEF r
  <2>7. Moved(w) /\ wk'[w] = r
    BY <1>1, <2>2, <2>6, BecomeMoves
  <2>8. OutstandingOps' = OutstandingOps + Weight(wk'[w]) - Weight(wk[w])
    <3>1. /\ Weight(wk'[w]) = IF q.ret = "leave" THEN 0 ELSE 1
          /\ Weight(wk[w]) = IF q.ret = "leave" THEN 0 ELSE 1
      BY <1>1, <2>1, <2>6, <2>7, Weights
    <3> QED
      BY <1>1, <1>2, <3>1, TameTypes
  <2>9. wk'[w].pc \in {"leave", "tail", "zero"}
    BY <2>6, <2>7
  <2> QED
    BY <1>1, <1>2, <1>3, <1>5, <2>7, <2>8, <2>9, MoveKept
    DEF StartPcs, LockPcs, sendVars
<1>6. CASE Goto(w, wk[w].ret) /\ UNCHANGED sendVars
  <2>1. wk[w].ret \in Pcs /\ wk[w].ret \in {"repost", "zero", "tail", "leave"}
    BY <1>1 DEF Rets, Pcs
  <2>2. Moved(w) /\ wk'[w].pc = wk[w].ret
    BY <1>1, <1>6, <2>1, GotoMoves
  <2>3. OutstandingOps' = OutstandingOps + Weight(wk'[w]) - Weight(wk[w])
    <3>1. Weight(wk'[w]) = Weight(wk[w]) /\ Weight(wk[w]) \in Int
      BY <1>1, <2>1, <2>2, Weights
    <3> QED
      BY <1>1, <1>2, <3>1, TameTypes
  <2> QED
    BY <1>1, <1>2, <1>3, <1>6, <2>1, <2>2, <2>3, MoveKept
    DEF StartPcs, LockPcs, sendVars
<1> QED
  BY <1>4, <1>5, <1>6 DEF DoSends

\* The send is counted and its buffer leaves the list.
LEMMA SendCountKept ==
  ASSUME IInv, NEW w \in Workers, SendCount(w)
  PROVE  IInv'
<1>1. TypeOK /\ LockInv /\ ShapeInv /\ StartInv /\ CountInv /\ "sends" \in Pcs
  BY DEF IInv, Pcs
<1>2. /\ wk[w].pc = "sendCount" /\ OutOfOrderSends # <<>> /\ wk[w].ret # "none"
      /\ OutstandingOps' = OutstandingOps + 1
      /\ OutOfOrderSends' = Tail(OutOfOrderSends) /\ SockCritSec' = SockCritSec
      /\ UNCHANGED <<arrived, recvs, sends, queue, wire, issued>>
  BY <1>1 DEF SendCount, ShapeInv, recvVars, sendVars, netVars
<1>3. Moved(w) /\ wk'[w].pc = "sends" /\ wk'[w].ret = wk[w].ret
  BY <1>1, GotoMoves DEF SendCount
<1>4. /\ wk' \in [Workers -> WorkerState]
      /\ \A v \in Workers \ {w} : wk'[v] = wk[v]
  BY <1>3 DEF Moved
<1>5. PICK l \in Seq(Nat) : l = OutOfOrderSends
  BY <1>1, Types
<1>6. l # <<>> /\ OutOfOrderSends' = Tail(l) /\ Tail(l) \in Seq(Nat)
  BY <1>2, <1>5, TailFacts
<1>7. Numbered(recvs, issued, queue, wk, l, wire) /\ Distinct(queue, wk, l, wire)
  BY <1>5 DEF IInv
<1>8. Numbered(recvs', issued', queue', wk', OutOfOrderSends', wire')
  <2>1. Numbered(recvs, issued, queue, wk, Tail(l), wire)
    BY <1>6, <1>7, NumberedCounted
  <2>2. \A v \in Workers : Hand(wk'[v]) => Hand(wk[v]) /\ wk'[v].k = wk[v].k
    BY <1>3, <1>4 DEF Hand
  <2>3. Numbered(recvs, issued, queue, wk', Tail(l), wire)
    BY <2>1, <2>2, NumberedKept
  <2> QED
    BY <1>2, <1>6, <2>3
<1>9. Distinct(queue', wk', OutOfOrderSends', wire')
  <2>1. Distinct(queue, wk', Tail(l), wire)
    BY <1>3, <1>4, <1>6, <1>7, DistinctCounted
  <2> QED
    BY <1>2, <1>6, <2>1
<1>10. Flying(sends', queue', wire')
  BY <1>2 DEF IInv
<1>11. OutstandingOps' \in Int
  BY <1>1, <1>2, TameTypes
<1>12. TypeOK'
  <2>1. /\ issued \in Nat /\ recvs \in Seq(Nat) /\ wire \in Seq(Nat)
        /\ sends \subseteq Nat /\ queue \subseteq PacketState
        /\ arrived \in 0..(MaxData + 1)
    BY <1>1, Types
  <2>2. Tame
    BY <1>1, <1>11, TameTypes
    DEF SendCount, Tame, life, recvVars, netVars, history
  <2> QED
    BY <1>2, <1>4, <1>6, <2>1, <2>2, TypesPrime DEF Tame
<1>13. LockInv'
  BY <1>1, <1>2, <1>3, <1>4, LockKept DEF LockPcs
<1>14. ShapeInv'
  <2>1. \A v \in Workers \ {w} : wk'[v].pc # "sendCount"
    BY <1>1, <1>2, <1>4, SoleOwner DEF LockPcs
  <2> QED
    BY <1>1, <1>2, <1>3, <1>4, <2>1 DEF ShapeInv
<1>15. StartInv'
  <2>1. ~Starting(queue, wk, arrived)
    BY <1>1, <1>2, Started DEF StartPcs
  <2> QED
    BY <1>1, <1>2, <1>3, <1>4, <2>1, StartKept
<1>16. CountInv'
  <2>1. /\ IsFiniteSet(sends') /\ IsFiniteSet(queue') /\ recvs' \in Seq(Nat)
        /\ OutstandingOps' - OutstandingOps = 1
    BY <1>1, <1>2, Types DEF CountInv
  <2>2. /\ Len(recvs') - Len(recvs) = 0
        /\ Cardinality(sends') - Cardinality(sends) = 0
        /\ Cardinality(OpPackets(queue')) - Cardinality(OpPackets(queue)) = 0
    <3>1. /\ Cardinality(sends) \in Nat /\ Cardinality(OpPackets(queue)) \in Nat
          /\ Len(recvs) \in Nat
      BY <1>1, Types, SeqFacts, FS_Subset, FS_CardinalityType
      DEF CountInv, OpPackets
    <3> QED
      BY <1>2, <3>1
  <2>3. Weight(wk'[w]) - Weight(wk[w]) = 1
    BY <1>2, <1>3, Weights
  <2> QED
    BY <1>1, <1>4, <1>11, <2>1, <2>2, <2>3, CountKept
<1> QED
  BY <1>8, <1>9, <1>10, <1>12, <1>13, <1>14, <1>15, <1>16 DEF IInv

-----------------------------------------------------------------------------
(* The accept.                                                             *)

\* Before the echo of chunk 0 there is nothing but the worker that accepts.
LEMMA StartFacts ==
  ASSUME IInv, NEW w \in Workers, wk[w].pc \in {"accept", "asend"}
  PROVE  /\ issued = 0 /\ wire = <<>> /\ LastSendIssued = 0 /\ arrived = 1
         /\ queue = {} /\ recvs = <<>> /\ sends = {} /\ OutOfOrderSends = <<>>
         /\ \A v \in Workers \ {w} : wk[v].pc = "get"
<1>1. Starting(queue, wk, arrived)
  BY DEF Starting
<1>2. /\ issued = 0 /\ wire = <<>> /\ LastSendIssued = 0 /\ arrived = 1
      /\ queue = {} /\ \A v \in Workers \ {w} : wk[v].pc = "get"
  BY <1>1 DEF IInv, StartInv
<1>3. recvs \in Seq(Nat) /\ OutOfOrderSends \in Seq(Nat)
  BY Types DEF IInv
<1>4. Numbered(recvs, 0, queue, wk, OutOfOrderSends, wire)
  BY <1>2 DEF IInv
<1>5. Len(recvs) = 0
  <2>1. \A a \in 1..Len(recvs) : recvs[a] \in 1..0
    BY <1>4 DEF Numbered
  <2> QED
    BY <1>3, <2>1, SeqFacts
<1>6. Len(OutOfOrderSends) = 0
  <2>1. \A a \in 1..Len(OutOfOrderSends) : OutOfOrderSends[a] \in 1..0
    BY <1>4 DEF Numbered, Below
  <2> QED
    BY <1>3, <2>1, SeqFacts
<1>7. sends = {}
  <2>1. \A x \in sends : \E a \in 1..Len(wire) : wire[a] = x
    BY DEF IInv, Flying
  <2>2. Len(wire) = 0
    BY <1>2
  <2> QED
    BY <2>1, <2>2
<1> QED
  BY <1>2, <1>3, <1>5, <1>6, <1>7, SeqFacts

\* The invariant, of a connection with no receive, packet or list.
LEMMA BareDone ==
  ASSUME TypeOK, CountInv, NEW w \in Workers, Moved(w), Tame,
         \A v \in Workers \ {w} : wk[v].pc = "get",
         wk'[w].pc \in {"asend", "get", "asendCount", "aerr"},
         issued = 0, issued' = 0, recvs' = <<>>, queue' = {}, queue = {},
         recvs = <<>>, OutOfOrderSends' = <<>>, sends = {}, arrived = 1,
         arrived' = 1, OutstandingOps' = OutstandingOps,
         wk[w].pc \in {"accept", "asend"},
         wk'[w].pc = "asend" => wire' = <<>> /\ LastSendIssued' = 0,
         \/ wire' = <<>> /\ sends' = {} /\ wk'[w].pc # "asendCount"
         \/ wire' = << 0 >> /\ sends' = {0} /\ wk'[w].pc = "asendCount"
  PROVE  IInv'
<1>1. /\ wk' \in [Workers -> WorkerState]
      /\ \A v \in Workers \ {w} : wk'[v] = wk[v] /\ wk'[v].pc = "get"
  BY DEF Moved
<1>2. \A v \in Workers : wk'[v].pc \in {"asend", "get", "asendCount", "aerr"}
  BY <1>1
<1>e. <<>> \in Seq(Nat) /\ << 0 >> \in Seq(Nat) /\ Len(<<>>) = 0
      /\ {0} \subseteq Nat
  OBVIOUS
<1>3. /\ wire' \in Seq(Nat) /\ Len(recvs') = 0 /\ Len(OutOfOrderSends') = 0
      /\ recvs' \in Seq(Nat) /\ OutOfOrderSends' \in Seq(Nat)
      /\ sends' \subseteq Nat
  BY <1>e, Zenon
<1>4. TypeOK'
  <2>1. issued' \in Nat /\ queue' \subseteq PacketState
        /\ arrived' \in 0..(MaxData + 1)
    BY ConstantsAssumption
  <2> QED
    BY <1>1, <1>3, <2>1, TypesPrime DEF Tame
<1>5. LockInv' /\ ShapeInv'
  BY <1>2 DEF LockInv, ShapeInv, LockPcs
<1>6. StartInv'
  BY <1>1, <1>2 DEF StartInv, Starting, StartPcs
<1>7. \A v \in Workers : ~Hand(wk'[v])
  BY <1>2 DEF Hand
<1>8. \A a \in 1..Len(wire') : wire'[a] = 0
  OBVIOUS
<1>9. Numbered(recvs', issued', queue', wk', OutOfOrderSends', wire')
  BY <1>3, <1>7, <1>8 DEF Numbered
<1>10. Distinct(queue', wk', OutOfOrderSends', wire')
  BY <1>3, <1>7 DEF Distinct
<1>11. Flying(sends', queue', wire')
  BY DEF Flying
<1>12. CountInv'
  <2>0. /\ IsFiniteSet({}) /\ Cardinality({}) = 0
        /\ IsFiniteSet({0}) /\ Cardinality({0}) = 1
    BY FS_EmptySet, FS_Singleton
  <2>1. /\ IsFiniteSet(sends') /\ IsFiniteSet(queue')
        /\ Cardinality(sends) = 0
        /\ Cardinality(sends') = Bit(wk'[w].pc = "asendCount")
    BY <2>0 DEF Bit
  <2>2. Cardinality(sends') - Cardinality(sends) = Bit(wk'[w].pc = "asendCount")
    BY <2>1 DEF Bit
  <2>3. /\ Len(recvs') - Len(recvs) = 0
        /\ Cardinality(OpPackets(queue')) - Cardinality(OpPackets(queue)) = 0
        /\ OutstandingOps' - OutstandingOps = 0 /\ OutstandingOps' \in Int
    <3>1. Cardinality(OpPackets(queue)) \in Nat
      BY FS_Subset, FS_CardinalityType DEF CountInv, OpPackets
    <3> QED
      BY <1>3, <3>1, TameTypes
  <2>4. Weight(wk'[w]) - Weight(wk[w]) = 0 - Bit(wk'[w].pc = "asendCount")
    <3>1. Weight(wk[w]) = 0
      BY Weights
    <3>2. CASE wk'[w].pc = "asendCount"
      BY <3>1, <3>2, Weights DEF Bit
    <3>3. CASE wk'[w].pc # "asendCount"
      BY <3>1, <3>3, Weights DEF Bit
    <3> QED
      BY <3>2, <3>3
  <2>5. OutstandingOps' - OutstandingOps =
          (Len(recvs') - Len(recvs))
          + (Cardinality(sends') - Cardinality(sends))
          + (Cardinality(OpPackets(queue')) - Cardinality(OpPackets(queue)))
          + (Weight(wk'[w]) - Weight(wk[w]))
    BY <2>2, <2>3, <2>4 DEF Bit
  <2> QED
    BY <1>1, <1>3, <2>1, <2>3, <2>5, CountKept
<1> QED
  BY <1>4, <1>5, <1>6, <1>9, <1>10, <1>11, <1>12 DEF IInv

\* CreateIoCompletionPort.
LEMMA AssociateKept ==
  ASSUME IInv, NEW w \in Workers, Associate(w)
  PROVE  IInv'
<1>1. TypeOK /\ CountInv /\ {"asend", "get"} \subseteq Pcs /\ wk[w].pc = "accept"
  BY DEF IInv, Pcs, Associate
<1>2. /\ issued = 0 /\ wire = <<>> /\ LastSendIssued = 0 /\ arrived = 1
      /\ queue = {} /\ recvs = <<>> /\ sends = {} /\ OutOfOrderSends = <<>>
      /\ \A v \in Workers \ {w} : wk[v].pc = "get"
  BY <1>1, StartFacts
<1>3. Moved(w) /\ wk'[w].pc \in {"asend", "get"}
  BY <1>1, GotoMoves DEF Associate
<1>4. Tame
  BY <1>1, TameTypes
  DEF Associate, Tame, sendList, recvVars, sendVars, netVars
<1>5. UNCHANGED <<issued, recvs, queue, OutOfOrderSends, arrived, OutstandingOps,
                  wire, sends, LastSendIssued>>
  BY DEF Associate, sendList, recvVars, sendVars, netVars
<1> QED
  BY <1>1, <1>2, <1>3, <1>4, <1>5, BareDone

\* The echo of the data that came with the accept.
LEMMA AcceptSendKept ==
  ASSUME IInv, NEW w \in Workers, AcceptSend(w)
  PROVE  IInv'
<1>1. TypeOK /\ CountInv /\ {"asendCount", "aerr"} \subseteq Pcs
      /\ wk[w].pc = "asend"
  BY DEF IInv, Pcs, AcceptSend
<1>2. /\ issued = 0 /\ wire = <<>> /\ LastSendIssued = 0 /\ arrived = 1
      /\ queue = {} /\ recvs = <<>> /\ sends = {} /\ OutOfOrderSends = <<>>
      /\ \A v \in Workers \ {w} : wk[v].pc = "get"
  BY <1>1, StartFacts
<1>3. Tame
  <2>1. faulted' \in BOOLEAN
    BY <1>1, TameTypes DEF AcceptSend
  <2>2. LastSendIssued' = (LastSendIssued + 1) % SeqModulus
    BY DEF AcceptSend, IssueSend
  <2> QED
    BY <1>1, <2>1, <2>2, TameTypes, NextSendNumber
    DEF AcceptSend, Tame, life, recvVars, netVars
<1>4. UNCHANGED <<issued, recvs, queue, OutOfOrderSends, arrived, OutstandingOps>>
  BY DEF AcceptSend, recvVars, netVars
<1>5. CASE IssueSend(w, 0, "asendCount")
  <2>1. Moved(w) /\ wk'[w].pc = "asendCount"
    BY <1>1, <1>5, GotoMoves DEF IssueSend
  <2>2. wire' = << 0 >> /\ sends' = {0}
    BY <1>2, <1>5 DEF IssueSend
  <2> QED
    BY <1>1, <1>2, <1>3, <1>4, <2>1, <2>2, BareDone
<1>6. CASE Goto(w, "aerr") /\ UNCHANGED sendVars
  <2>1. Moved(w) /\ wk'[w].pc = "aerr"
    BY <1>1, <1>6, GotoMoves
  <2> QED
    BY <1>1, <1>2, <1>3, <1>4, <1>6, <2>1, BareDone DEF sendVars
<1> QED
  BY <1>5, <1>6 DEF AcceptSend

\* GetQueuedCompletionStatus.
LEMMA DequeueKept ==
  ASSUME IInv, NEW w \in Workers, NEW p \in queue, Dequeue(w, p)
  PROVE  IInv'
<1>1. TypeOK /\ LockInv /\ ShapeInv /\ StartInv /\ CountInv
  BY DEF IInv
<1>2. /\ wk[w].pc = "get" /\ queue' = queue \ {p}
      /\ UNCHANGED <<arrived, recvs, sends, wire, issued, OutstandingOps,
                     OutOfOrderSends, SockCritSec, LastSendIssued>>
  BY DEF Dequeue, recvVars, sendVars, sendList
<1>3. p \in PacketState /\ p.op \in {"accept", "read", "zero", "write"}
      /\ p.k \in Nat
  <2>1. p \in PacketState
    BY <1>1, Types
  <2> QED
    BY <2>1 DEF PacketState
<1> DEFINE l == IF p.op = "accept" THEN "accept" ELSE IF p.ok THEN "enter" ELSE "error"
           r == [Idle EXCEPT !.op = p.op, !.k = p.k, !.pc = l]
<1>4. r \in WorkerState /\ r.pc = l /\ r.op = p.op /\ r.k = p.k
  BY <1>3 DEF Idle, WorkerState, Pcs, Ops, Rets
<1>5. Become(w, r)
  BY DEF Dequeue
<1> HIDE DEF r
<1>6. Moved(w) /\ wk'[w] = r
  BY <1>1, <1>4, <1>5, BecomeMoves
<1>7. /\ wk' \in [Workers -> WorkerState]
      /\ \A v \in Workers \ {w} : wk'[v] = wk[v]
  BY <1>6 DEF Moved
<1>8. /\ wk'[w].pc \in {"accept", "enter", "error"} /\ wk'[w].k = p.k
      /\ wk'[w].op = p.op /\ (wk'[w].pc = "accept" <=> p.op = "accept")
  BY <1>4, <1>6
<1>9. TypeOK'
  <2>1. /\ issued \in Nat /\ recvs \in Seq(Nat) /\ wire \in Seq(Nat)
        /\ sends \subseteq Nat /\ queue' \subseteq PacketState
        /\ arrived \in 0..(MaxData + 1) /\ OutOfOrderSends \in Seq(Nat)
    BY <1>1, <1>2, Types
  <2>2. early' \in BOOLEAN
    BY Zenon DEF Dequeue
  <2>3. Tame
    BY <1>1, <2>2, TameTypes DEF Dequeue, Tame, life, sendList, recvVars
  <2> QED
    BY <1>2, <1>7, <2>1, <2>3, TypesPrime DEF Tame
<1>10. LockInv'
  BY <1>1, <1>2, <1>7, <1>8, LockKept DEF LockPcs
<1>11. ShapeInv'
  BY <1>1, <1>2, <1>7, <1>8 DEF ShapeInv
<1>12. StartInv'
  <2>1. CASE p.op = "accept"
    <3>1. Starting(queue, wk, arrived)
      BY <2>1 DEF Starting
    <3>2. /\ issued = 0 /\ wire = <<>> /\ LastSendIssued = 0 /\ arrived = 1
          /\ queue = {p}
      BY <1>1, <3>1, <2>1 DEF StartInv
    <3>3. \A v \in Workers : wk[v].pc = "get"
      BY <1>1, <3>1, <3>2 DEF StartInv
    <3> QED
      BY <1>2, <1>7, <1>8, <2>1, <3>2, <3>3 DEF StartInv, StartPcs
  <2>2. CASE p.op # "accept"
    <3>1. ~Starting(queue, wk, arrived)
      BY <1>1, <2>2 DEF StartInv, Packet
    <3> QED
      BY <1>1, <1>2, <1>7, <1>8, <2>2, <3>1, StartKept
  <2> QED
    BY <2>1, <2>2
<1>13. Hand(wk'[w]) => Received(p) /\ wk'[w].k = p.k
  BY <1>8 DEF Hand, Received
<1>14. Numbered(recvs', issued', queue', wk', OutOfOrderSends', wire')
  <2>1. Numbered(recvs, issued, queue \ {p}, wk', OutOfOrderSends, wire)
    BY <1>7, <1>13, NumberedTaken DEF IInv
  <2> QED
    BY <1>2, <2>1
<1>15. Distinct(queue', wk', OutOfOrderSends', wire')
  <2>1. Distinct(queue \ {p}, wk', OutOfOrderSends, wire)
    BY <1>2, <1>7, <1>13, DistinctTaken DEF IInv
  <2> QED
    BY <1>2, <2>1
<1>16. Flying(sends', queue', wire')
  <2>1. Flying(sends, queue \ {p}, wire)
    BY FlyingKept DEF IInv
  <2> QED
    BY <1>2, <2>1
<1>17. CountInv'
  <2>1. /\ IsFiniteSet(sends') /\ IsFiniteSet(queue') /\ recvs' \in Seq(Nat)
        /\ OutstandingOps' \in Int /\ OutstandingOps' - OutstandingOps = 0
    BY <1>1, <1>2, Types, FS_Subset DEF CountInv
  <2>2. /\ Len(recvs') - Len(recvs) = 0
        /\ Cardinality(sends') - Cardinality(sends) = 0
    <3>1. Cardinality(sends) \in Nat /\ Len(recvs) \in Nat
      BY <1>1, Types, SeqFacts, FS_CardinalityType DEF CountInv
    <3> QED
      BY <1>2, <3>1
  <2> DEFINE S == OpPackets(queue)
             T == OpPackets(queue')
  <2>3. IsFiniteSet(S) /\ S \ {p} = T \ {p} /\ p \notin T
        /\ (p \in S <=> p.op # "accept")
    BY <1>1, <1>2, FS_Subset DEF CountInv, OpPackets
  <2>4. /\ Cardinality(T) \in Nat /\ Cardinality(S) \in Nat
        /\ Cardinality(T) = Cardinality(S) + Bit(p \in T) - Bit(p \in S)
    BY <2>3, CardinalityMoves
  <2>5. Bit(p \in T) = 0 /\ Bit(p \in S) = Bit(p.op # "accept")
    BY <2>3 DEF Bit
  <2>6. Cardinality(T) - Cardinality(S) = 0 - Bit(p.op # "accept")
    BY <2>4, <2>5 DEF Bit
  <2>7. Weight(wk'[w]) - Weight(wk[w]) = Bit(p.op # "accept")
    BY <1>2, <1>8, Weights DEF Bit
  <2>8. OutstandingOps' - OutstandingOps =
          (Len(recvs') - Len(recvs))
          + (Cardinality(sends') - Cardinality(sends))
          + (Cardinality(OpPackets(queue')) - Cardinality(OpPackets(queue)))
          + (Weight(wk'[w]) - Weight(wk[w]))
    BY <2>1, <2>2, <2>6, <2>7 DEF Bit
  <2> QED
    BY <1>1, <1>7, <2>1, <2>8, CountKept
<1> QED
  BY <1>9, <1>10, <1>11, <1>12, <1>14, <1>15, <1>16, <1>17 DEF IInv

-----------------------------------------------------------------------------
(* The kernel and the client.                                              *)

\* A step that leaves the workers alone.
LEMMA CountKernel ==
  ASSUME TypeOK, CountInv, wk' = wk, IsFiniteSet(sends'), IsFiniteSet(queue'),
         recvs' \in Seq(Nat), OutstandingOps' = OutstandingOps,
         (Len(recvs') - Len(recvs))
           + (Cardinality(sends') - Cardinality(sends))
           + (Cardinality(OpPackets(queue')) - Cardinality(OpPackets(queue))) = 0
  PROVE  CountInv'
<1>1. InHand' = InHand /\ Uncounted' = Uncounted
  BY DEF InHand, Uncounted
<1>2. /\ Cardinality(sends) \in Nat /\ Cardinality(sends') \in Nat
      /\ Cardinality(OpPackets(queue)) \in Nat
      /\ Cardinality(OpPackets(queue')) \in Nat
      /\ Cardinality(InHand) \in Nat /\ Cardinality(Uncounted) \in Nat
  BY FS_Subset, FS_CardinalityType, Nulls
  DEF CountInv, OpPackets, InHand, Uncounted
<1>3. /\ OutstandingOps + Cardinality(Uncounted) =
           Len(recvs) + Cardinality(sends) + Cardinality(InHand)
           + Cardinality(OpPackets(queue))
      /\ OutstandingOps \in Int /\ Len(recvs) \in Nat /\ Len(recvs') \in Nat
  BY Types, SeqFacts DEF CountInv, OpsCounted, OpPackets
<1> DEFINE cs == Cardinality(sends)
           cs2 == Cardinality(sends')
           cq == Cardinality(OpPackets(queue))
           cq2 == Cardinality(OpPackets(queue'))
           lr == Len(recvs)
           lr2 == Len(recvs')
           ch == Cardinality(InHand)
           cu == Cardinality(Uncounted)
<1>4. OutstandingOps + cu = lr2 + cs2 + ch + cq2
  <2>1. (lr2 - lr) + (cs2 - cs) + (cq2 - cq) = 0
    OBVIOUS
  <2>2. /\ cs \in Nat /\ cs2 \in Nat /\ cq \in Nat /\ cq2 \in Nat
        /\ lr \in Nat /\ lr2 \in Nat /\ ch \in Nat /\ cu \in Nat
    BY <1>2, <1>3
  <2>3. OutstandingOps + cu = lr + cs + ch + cq /\ OutstandingOps \in Int
    BY <1>3
  <2> HIDE DEF cs, cs2, cq, cq2, lr, lr2, ch, cu
  <2> QED
    BY <2>1, <2>2, <2>3
<1> QED
  BY <1>1, <1>4 DEF CountInv, OpsCounted, OpPackets

\* A packet that was not queued is queued.
LEMMA OneMorePacket ==
  ASSUME CountInv, NEW p, p \notin queue, p.op # "accept",
         queue' = queue \cup {p}
  PROVE  /\ IsFiniteSet(queue')
         /\ Cardinality(OpPackets(queue')) - Cardinality(OpPackets(queue)) = 1
<1>1. /\ IsFiniteSet(OpPackets(queue)) /\ p \notin OpPackets(queue)
      /\ OpPackets(queue') = OpPackets(queue) \cup {p}
  BY FS_Subset DEF CountInv, OpPackets
<1>2. IsFiniteSet(queue')
  BY FS_AddElement DEF CountInv
<1>3. /\ Cardinality(OpPackets(queue)) \in Nat
      /\ Cardinality(OpPackets(queue')) = Cardinality(OpPackets(queue)) + 1
  BY <1>1, FS_AddElement, FS_CardinalityType
<1> QED
  BY <1>2, <1>3

\* The oldest receive completes.
LEMMA ReceiveCompletesKept ==
  ASSUME IInv, ReceiveCompletes
  PROVE  IInv'
<1>1. TypeOK /\ LockInv /\ ShapeInv /\ StartInv /\ CountInv
  BY DEF IInv
<1>2. /\ recvs # <<>> /\ recvs' = Tail(recvs) /\ wk' = wk
      /\ UNCHANGED <<sends, wire, issued, OutstandingOps, OutOfOrderSends,
                     SockCritSec, LastSendIssued>>
  BY DEF ReceiveCompletes, sendVars, sendList
<1>3. PICK r \in Seq(Nat) : r = recvs
  BY <1>1, Types
<1>4. r # <<>> /\ Head(r) \in Nat /\ Tail(r) \in Seq(Nat) /\ recvs' = Tail(r)
      /\ Head(r) = r[1] /\ 1 \in 1..Len(r) /\ Len(Tail(r)) = Len(r) - 1
      /\ Len(r) \in Nat
  BY <1>2, <1>3, TailFacts, SeqFacts
<1>5. PICK o \in {"read", "zero"} : \E b \in BOOLEAN :
        /\ queue' = queue \cup {Packet(o, Head(recvs), b)}
        /\ arrived' = arrived \/ (arrived <= MaxData /\ arrived' = arrived + 1)
  BY DEF ReceiveCompletes
<1>6. PICK b \in BOOLEAN : queue' = queue \cup {Packet(o, Head(r), b)}
  BY <1>3, <1>5
<1> DEFINE p == Packet(o, Head(r), b)
<1>7. p \in PacketState /\ p.k = Head(r) /\ p.op = o /\ Received(p)
      /\ queue' = queue \cup {p}
  BY <1>4, <1>6 DEF Packet, PacketState, Received
<1> HIDE DEF p
<1>8. Numbered(r, issued, queue, wk, OutOfOrderSends, wire)
      /\ Distinct(queue, wk, OutOfOrderSends, wire) /\ issued \in Nat
  BY <1>1, <1>3, Types DEF IInv
<1>9. p \notin queue
  <2>1. \A p2 \in queue : Received(p2) => p2.k < r[1] /\ p2.k \in Nat
    BY <1>4, <1>8 DEF Numbered, Below
  <2> QED
    BY <1>4, <1>7, <2>1
<1>10. ~Starting(queue, wk, arrived)
  <2>1. r[1] \in 1..issued
    BY <1>4, <1>8 DEF Numbered
  <2>2. issued # 0
    BY <1>8, <2>1
  <2> QED
    BY <1>1, <2>2 DEF StartInv
<1>11. arrived' \in 0..(MaxData + 1) /\ arrived' # 0
  <2>1. arrived # 0 /\ arrived \in 0..(MaxData + 1)
    BY <1>1, <1>10, Types DEF Starting
  <2> QED
    BY <1>5, <2>1, ConstantsAssumption
<1>12. TypeOK'
  <2>1. /\ issued \in Nat /\ wire \in Seq(Nat) /\ sends \subseteq Nat
        /\ OutOfOrderSends \in Seq(Nat) /\ queue \subseteq PacketState
        /\ wk \in [Workers -> WorkerState]
    BY <1>1, Types
  <2>2. queue' \subseteq PacketState
    BY <1>7, <2>1
  <2>3. Tame
    BY <1>1, TameTypes DEF ReceiveCompletes, Tame, life, sendList, history
  <2> QED
    BY <1>2, <1>4, <1>11, <2>1, <2>2, <2>3, TypesPrime DEF Tame
<1>13. LockInv' /\ ShapeInv'
  BY <1>1, <1>2 DEF LockInv, ShapeInv
<1>14. StartInv'
  <2>1. ~Starting(queue', wk', arrived')
    BY <1>2, <1>7, <1>10, <1>11 DEF Starting
  <2> QED
    BY <2>1 DEF StartInv
<1>15. Numbered(recvs', issued', queue', wk', OutOfOrderSends', wire')
  <2>1. Numbered(Tail(r), issued, queue \cup {p}, wk, OutOfOrderSends, wire)
    BY <1>4, <1>7, <1>8, NumberedCompletes
  <2> QED
    BY <1>2, <1>4, <1>7, <2>1
<1>16. Distinct(queue', wk', OutOfOrderSends', wire')
  <2>1. Distinct(queue \cup {p}, wk, OutOfOrderSends, wire)
    BY <1>4, <1>7, <1>8, DistinctCompletes
  <2> QED
    BY <1>2, <1>7, <2>1
<1>17. Flying(sends', queue', wire')
  <2>1. Flying(sends, queue \cup {p}, wire)
    BY <1>7, FlyingKept DEF IInv
  <2> QED
    BY <1>2, <1>7, <2>1
<1>18. CountInv'
  <2>1. /\ IsFiniteSet(queue')
        /\ Cardinality(OpPackets(queue')) - Cardinality(OpPackets(queue)) = 1
    BY <1>1, <1>7, <1>9, OneMorePacket
  <2>2. IsFiniteSet(sends') /\ Cardinality(sends') - Cardinality(sends) = 0
    <3>1. Cardinality(sends) \in Nat /\ IsFiniteSet(sends)
      BY <1>1, FS_CardinalityType DEF CountInv
    <3> QED
      BY <1>2, <3>1
  <2>3. Len(recvs') - Len(recvs) = -1
    BY <1>3, <1>4
  <2>4. (Len(recvs') - Len(recvs))
          + (Cardinality(sends') - Cardinality(sends))
          + (Cardinality(OpPackets(queue')) - Cardinality(OpPackets(queue))) = 0
    BY <2>1, <2>2, <2>3
  <2> QED
    BY <1>1, <1>2, <1>4, <2>1, <2>2, <2>4, CountKernel
<1> QED
  BY <1>12, <1>13, <1>14, <1>15, <1>16, <1>17, <1>18 DEF IInv

\* A send completes.
LEMMA SendCompletesKept ==
  ASSUME IInv, NEW k \in sends, SendCompletes(k)
  PROVE  IInv'
<1>1. TypeOK /\ LockInv /\ ShapeInv /\ StartInv /\ CountInv
  BY DEF IInv
<1>2. /\ sends' = sends \ {k} /\ wk' = wk
      /\ UNCHANGED <<recvs, wire, issued, OutstandingOps, OutOfOrderSends,
                     SockCritSec, LastSendIssued, arrived>>
  BY DEF SendCompletes, recvVars, sendList
<1>3. PICK b \in BOOLEAN : queue' = queue \cup {Packet("write", k, b)}
  BY DEF SendCompletes
<1>4. k \in Nat
  BY <1>1, Types
<1> DEFINE p == Packet("write", k, b)
<1>5. p \in PacketState /\ p.k = k /\ p.op = "write" /\ ~Received(p)
      /\ queue' = queue \cup {p}
  BY <1>3, <1>4 DEF Packet, PacketState, Received
<1> HIDE DEF p
<1>6. Flying(sends, queue, wire)
  BY DEF IInv
<1>7. p \notin queue
  BY <1>5, <1>6 DEF Flying
<1>8. ~Starting(queue, wk, arrived)
  <2>1. Len(wire) # 0
    <3>1. PICK a \in 1..Len(wire) : wire[a] = k
      BY <1>6 DEF Flying
    <3>2. wire \in Seq(Nat)
      BY <1>1, Types
    <3> QED
      BY <3>1, <3>2, SeqFacts
  <2>2. wire # <<>>
    BY <2>1
  <2> QED
    BY <1>1, <2>2 DEF StartInv
<1>9. TypeOK'
  <2>1. /\ issued \in Nat /\ wire \in Seq(Nat) /\ sends \subseteq Nat
        /\ OutOfOrderSends \in Seq(Nat) /\ queue \subseteq PacketState
        /\ wk \in [Workers -> WorkerState] /\ recvs \in Seq(Nat)
        /\ arrived \in 0..(MaxData + 1)
    BY <1>1, Types
  <2>2. queue' \subseteq PacketState /\ sends' \subseteq Nat
    BY <1>2, <1>5, <2>1
  <2>3. Tame
    BY <1>1, TameTypes DEF SendCompletes, Tame, life, sendList, recvVars, history
  <2> QED
    BY <1>2, <2>1, <2>2, <2>3, TypesPrime DEF Tame
<1>10. LockInv' /\ ShapeInv'
  BY <1>1, <1>2 DEF LockInv, ShapeInv
<1>11. StartInv'
  <2>1. ~Starting(queue', wk', arrived')
    BY <1>2, <1>5, <1>8 DEF Starting
  <2> QED
    BY <2>1 DEF StartInv
<1>12. Numbered(recvs', issued', queue', wk', OutOfOrderSends', wire')
  <2>1. Numbered(recvs, issued, queue \cup {p}, wk, OutOfOrderSends, wire)
    BY <1>5, NumberedKept DEF IInv
  <2> QED
    BY <1>2, <1>5, <2>1
<1>13. Distinct(queue', wk', OutOfOrderSends', wire')
  <2>1. Distinct(queue \cup {p}, wk, OutOfOrderSends, wire)
    BY <1>5, DistinctKept DEF IInv
  <2> QED
    BY <1>2, <1>5, <2>1
<1>14. Flying(sends', queue', wire')
  <2>1. Flying(sends \ {k}, queue \cup {p}, wire)
    BY <1>5, <1>6, FlyingCompletes
  <2> QED
    BY <1>2, <1>5, <2>1
<1>15. CountInv'
  <2>1. /\ IsFiniteSet(queue')
        /\ Cardinality(OpPackets(queue')) - Cardinality(OpPackets(queue)) = 1
    BY <1>1, <1>5, <1>7, OneMorePacket
  <2>2. IsFiniteSet(sends') /\ Cardinality(sends') - Cardinality(sends) = -1
    <3>1. /\ IsFiniteSet(sends) /\ Cardinality(sends) \in Nat
          /\ IsFiniteSet(sends') /\ Cardinality(sends') = Cardinality(sends) - 1
      BY <1>1, <1>2, FS_CardinalityType, FS_RemoveElement DEF CountInv
    <3> QED
      BY <3>1
  <2>3. recvs' \in Seq(Nat) /\ Len(recvs') - Len(recvs) = 0
    BY <1>1, <1>2, Types, SeqFacts
  <2>4. (Len(recvs') - Len(recvs))
          + (Cardinality(sends') - Cardinality(sends))
          + (Cardinality(OpPackets(queue')) - Cardinality(OpPackets(queue))) = 0
    BY <2>1, <2>2, <2>3
  <2> QED
    BY <1>1, <1>2, <2>1, <2>2, <2>3, <2>4, CountKernel
<1> QED
  BY <1>9, <1>10, <1>11, <1>12, <1>13, <1>14, <1>15 DEF IInv

\* The client connects.
LEMMA ClientConnectsKept ==
  ASSUME IInv, ClientConnects
  PROVE  IInv'
<1>1. TypeOK /\ LockInv /\ ShapeInv /\ StartInv /\ CountInv
  BY DEF IInv
<1> DEFINE p == Packet("accept", 0, TRUE)
<1>2. /\ arrived = 0 /\ arrived' = 1 /\ queue' = {p} /\ wk' = wk
      /\ UNCHANGED <<recvs, sends, wire, issued, OutstandingOps,
                     OutOfOrderSends, SockCritSec, LastSendIssued>>
  BY DEF ClientConnects, recvVars, sendVars, sendList
<1>3. p \in PacketState /\ p.op = "accept" /\ ~Received(p)
  BY DEF Packet, PacketState, Received
<1>4. /\ Starting(queue, wk, arrived) /\ queue = {}
      /\ issued = 0 /\ wire = <<>> /\ LastSendIssued = 0
      /\ \A w \in Workers : wk[w].pc = "get"
  BY <1>1, <1>2 DEF StartInv, Starting
<1>5. TypeOK'
  <2>1. /\ issued \in Nat /\ wire \in Seq(Nat) /\ sends \subseteq Nat
        /\ OutOfOrderSends \in Seq(Nat) /\ recvs \in Seq(Nat)
        /\ wk \in [Workers -> WorkerState]
    BY <1>1, Types
  <2>2. queue' \subseteq PacketState /\ arrived' \in 0..(MaxData + 1)
    <3>1. MaxData \in Nat
      BY ConstantsAssumption
    <3> HIDE DEF p
    <3> QED
      BY <1>2, <1>3, <3>1
  <2>3. Tame
    BY <1>1, TameTypes
    DEF ClientConnects, Tame, life, sendList, recvVars, history
  <2> QED
    BY <1>2, <2>1, <2>2, <2>3, TypesPrime DEF Tame
<1>6. LockInv' /\ ShapeInv'
  BY <1>1, <1>2 DEF LockInv, ShapeInv
<1>7. StartInv'
  <2>1. /\ issued' = 0 /\ wire' = <<>> /\ LastSendIssued' = 0 /\ arrived' = 1
        /\ queue' = {Packet("accept", 0, TRUE)}
        /\ \A w \in Workers : wk'[w].pc = "get"
    BY <1>2, <1>4
  <2>2. /\ arrived' \in {0, 1} /\ arrived' # 0
        /\ \A w \in Workers : wk'[w].pc \in StartPcs
    BY <2>1 DEF StartPcs
  <2>3. queue' \subseteq {Packet("accept", 0, TRUE)}
    BY <2>1, Zenon
  <2> HIDE DEF p
  <2> QED
    BY <2>1, <2>2, <2>3, Zenon DEF StartInv
<1> HIDE DEF p
<1>8. Numbered(recvs', issued', queue', wk', OutOfOrderSends', wire')
  <2>1. Numbered(recvs, issued, {p}, wk, OutOfOrderSends, wire)
    BY <1>3, NumberedKept DEF IInv
  <2> QED
    BY <1>2, <2>1
<1>9. Distinct(queue', wk', OutOfOrderSends', wire')
  <2>1. Distinct({p}, wk, OutOfOrderSends, wire)
    BY <1>3, DistinctKept DEF IInv
  <2> QED
    BY <1>2, <2>1
<1>10. Flying(sends', queue', wire')
  <2>1. Flying(sends, {p}, wire)
    BY <1>3, FlyingKept DEF IInv
  <2> QED
    BY <1>2, <2>1
<1>11. CountInv'
  <2>1. IsFiniteSet(queue') /\ IsFiniteSet(sends')
    BY <1>1, <1>2, FS_Singleton DEF CountInv
  <2>2. OpPackets(queue') = {} /\ OpPackets(queue) = {}
    BY <1>2, <1>3, <1>4 DEF OpPackets
  <2>3. UNCHANGED <<InHand, Uncounted>>
    BY <1>2 DEF InHand, Uncounted
  <2> QED
    BY <1>1, <1>2, <2>1, <2>2, <2>3 DEF CountInv, OpsCounted, OpPackets
<1> QED
  BY <1>5, <1>6, <1>7, <1>8, <1>9, <1>10, <1>11 DEF IInv

\* A step that the invariant of this part does not see: the client closes or
\* resets the connection, freed memory is used, nothing happens.
LEMMA UnseenKept ==
  ASSUME IInv,
         UNCHANGED <<life, OutstandingOps, SockCritSec, sendList, recvVars,
                     sendVars, arrived, queue, wk>>,
         peer' \in {"open", "fin", "reset"}, faulted' \in BOOLEAN,
         early' \in BOOLEAN, misuse' \in BOOLEAN
  PROVE  IInv'
<1>1. UNCHANGED <<recvs, sends, wire, issued, OutstandingOps, OutOfOrderSends,
                  SockCritSec, LastSendIssued, freedSends, i, s, bClosing,
                  freed, arrived, queue, wk>>
  BY DEF life, sendList, recvVars, sendVars
<1>2. TypeOK'
  BY <1>1, Types, TypesPrime DEF IInv
<1>3. LockInv' /\ ShapeInv' /\ StartInv' /\ CountInv'
  BY <1>1 DEF IInv, LockInv, ShapeInv, StartInv, CountInv, OpsCounted, InHand,
              Uncounted
<1>4. /\ Numbered(recvs', issued', queue', wk', OutOfOrderSends', wire')
      /\ Distinct(queue', wk', OutOfOrderSends', wire')
      /\ Flying(sends', queue', wire')
  BY <1>1 DEF IInv
<1> QED
  BY <1>2, <1>3, <1>4 DEF IInv

\* Those steps.
LEMMA ClientLeavesKept ==
  ASSUME IInv,
         ClientCloses \/ ClientResets \/ (\E w \in Workers : UseFreed(w))
         \/ UNCHANGED vars
  PROVE  IInv'
<1>1. /\ peer \in {"open", "fin", "reset"} /\ faulted \in BOOLEAN
      /\ early \in BOOLEAN /\ misuse \in BOOLEAN
  BY Types DEF IInv
<1>2. CASE ClientCloses
  BY <1>1, <1>2, UnseenKept DEF ClientCloses, history
<1>3. CASE ClientResets
  BY <1>1, <1>3, UnseenKept DEF ClientResets
<1>4. CASE \E w \in Workers : UseFreed(w)
  BY <1>1, <1>4, UnseenKept DEF UseFreed, netVars
<1>5. CASE UNCHANGED vars
  BY <1>1, <1>5, UnseenKept DEF vars, netVars, history
<1> QED
  BY <1>2, <1>3, <1>4, <1>5

-----------------------------------------------------------------------------
(* The first part put together.                                            *)

\* The invariant holds in the beginning.
LEMMA InitIInv == Init => IInv
<1> SUFFICES ASSUME Init PROVE IInv
  OBVIOUS
<1>1. TypeOK
  <2>1. wk \in [Workers -> WorkerState]
    BY IdleFacts DEF Init
  <2>2. /\ SeqModulus \in Nat \ {0} /\ OverlappedCount \in Nat \ {0}
        /\ MaxData \in Nat
    BY ConstantsAssumption
  <2>3. /\ s = "none" /\ bClosing = FALSE /\ OutstandingOps = 0
        /\ LastSendIssued = 0 /\ issued = 0 /\ i = 0 /\ OutOfOrderSends = <<>>
        /\ SockCritSec = NULL /\ freed = FALSE /\ freedSends = {}
        /\ peer = "open" /\ arrived = 0 /\ recvs = <<>> /\ sends = {}
        /\ wire = <<>> /\ queue = {} /\ faulted = FALSE /\ early = FALSE
        /\ misuse = FALSE
    BY DEF Init
  <2>4. <<>> \in Seq(Nat) /\ 0 \in 0..(SeqModulus - 1)
        /\ 0 \in 0..OverlappedCount /\ 0 \in 0..(MaxData + 1)
    BY <2>2, EmptySeq
  <2>5. OutstandingOps \in Int /\ issued \in Nat
    BY <2>3
  <2> QED
    BY <2>1, <2>3, <2>4, <2>5, Types
<1>2. \A w \in Workers : wk[w].pc = "get"
  BY IdleFacts DEF Init
<1>3. LockInv /\ ShapeInv /\ StartInv
  BY <1>2 DEF Init, LockInv, ShapeInv, StartInv, LockPcs, StartPcs
<1>4. /\ Numbered(recvs, issued, queue, wk, OutOfOrderSends, wire)
      /\ Distinct(queue, wk, OutOfOrderSends, wire)
      /\ Flying(sends, queue, wire)
  <2>1. Len(recvs) = 0 /\ Len(OutOfOrderSends) = 0 /\ Len(wire) = 0
    BY DEF Init
  <2>2. 1..Len(recvs) = {} /\ 1..Len(OutOfOrderSends) = {} /\ 1..Len(wire) = {}
    BY <2>1
  <2>3. \A w \in Workers : ~Hand(wk[w])
    BY <1>2 DEF Hand
  <2> QED
    BY <2>2, <2>3 DEF Init, Numbered, Distinct, Flying
<1>5. CountInv
  <2>1. InHand = {} /\ Uncounted = {} /\ {p \in queue : p.op # "accept"} = {}
        /\ sends = {} /\ queue = {}
    BY <1>2 DEF Init, InHand, Uncounted
  <2>2. IsFiniteSet({}) /\ Cardinality({}) = 0
    BY FS_EmptySet
  <2>3. Len(recvs) = 0 /\ OutstandingOps = 0
    BY DEF Init
  <2> QED
    BY <2>1, <2>2, <2>3 DEF CountInv, OpsCounted
<1> QED
  BY <1>1, <1>3, <1>4, <1>5 DEF IInv

\* Every step keeps the invariant.
LEMMA NextIInv == IInv /\ [Next]_vars => IInv'
<1> SUFFICES ASSUME IInv, [Next]_vars PROVE IInv'
  OBVIOUS
<1>1. CASE UNCHANGED vars
  BY <1>1, ClientLeavesKept
<1>2. CASE Client
  BY <1>2, ClientConnectsKept, ClientLeavesKept DEF Client
<1>3. CASE Kernel
  BY <1>3, ReceiveCompletesKept, SendCompletesKept DEF Kernel
<1>4. ASSUME NEW w \in Workers, Work(w) PROVE IInv'
  <2>1. CASE \E p \in queue : Dequeue(w, p)
    BY <2>1, DequeueKept
  <2>2. CASE Associate(w) \/ AcceptSend(w) \/ AcceptRecv(w)
    BY <2>2, AssociateKept, AcceptSendKept, AcceptRecvKept
  <2>3. CASE AcceptCount(w) \/ RecvCount(w)
    BY <2>3, CallCountedKept
  <2>4. CASE AcceptFailed(w) \/ AcceptFlag(w)
    BY <2>4, AcceptFailedKept
  <2>5. CASE Enter(w) \/ DoSends(w) \/ SendCount(w)
    BY <2>5, EnterKept, DoSendsKept, SendCountKept
  <2>6. CASE RepostRecv(w) \/ ZeroTest(w) \/ HandleIoTail(w) \/ Leave(w)
    BY <2>6, RepostRecvKept, ZeroTestKept, HandleIoTailKept, LeaveKept
  <2>7. CASE HandleIoError(w) \/ CloseSocket(w) \/ FreeSocketObj(w)
    BY <2>7, HandleIoErrorKept, ClosesKept
  <2>8. CASE UseFreed(w)
    BY <2>8, ClientLeavesKept
  <2> QED
    BY <1>4, <2>1, <2>2, <2>3, <2>4, <2>5, <2>6, <2>7, <2>8 DEF Work
<1> QED
  BY <1>1, <1>2, <1>3, <1>4 DEF Next

\* The invariant of the first part holds throughout, whatever call fails and
\* in whatever order the workers take the packets.
THEOREM Invariance == Spec => []IInv
BY InitIInv, NextIInv, PTL DEF Spec

\* Every variable of the connection stays in its range, whatever call fails:
\* no step takes a head of an empty list or writes outside a record.
THEOREM TypeCorrect == Spec => []TypeOK
<1>1. IInv => TypeOK
  BY DEF IInv
<1> QED
  BY <1>1, Invariance, PTL

\* OutstandingOps is the number of operations of the connection, but for those
\* whose increment is still to come: HandleIo takes each operation off the
\* count once, on every path, and PostSend and PostRecv count what they posted.
THEOREM OpsStayCounted == Spec => []OpsCounted
<1>1. IInv => OpsCounted
  BY DEF IInv, CountInv
<1> QED
  BY <1>1, Invariance, PTL

-----------------------------------------------------------------------------
(* Where a step takes its worker.                                          *)

Takes(w, from, to) ==
  Moved(w) /\ wk[w].pc \in from /\ wk'[w].pc \in to

\* The steps of the worker that accepts.
LEMMA AcceptSteps ==
  ASSUME IInv, NEW w \in Workers
  PROVE  /\ Associate(w) => Takes(w, {"accept"}, {"asend", "get"})
         /\ AcceptSend(w) => Takes(w, {"asend"}, {"asendCount", "aerr"})
         /\ AcceptRecv(w) => Takes(w, {"arecv"}, {"arecvCount", "aerr", "get"})
         /\ AcceptCount(w) => Takes(w, {"asendCount", "arecvCount"}, {"arecv"})
         /\ AcceptFailed(w) => Takes(w, {"aerr"}, {"close", "aflag"})
         /\ AcceptFlag(w) => Takes(w, {"aflag"}, {"get"})
<1>1. TypeOK
  BY DEF IInv
<1>2. ASSUME NEW l \in Pcs, Goto(w, l) PROVE Moved(w) /\ wk'[w].pc = l
  BY <1>1, <1>2, GotoMoves
<1>3. /\ {"asend", "get", "asendCount", "aerr", "arecvCount"} \subseteq Pcs
      /\ {"arecv", "close", "aflag"} \subseteq Pcs
  BY DEF Pcs
<1>4. Associate(w) => Takes(w, {"accept"}, {"asend", "get"})
  BY <1>2, <1>3 DEF Associate, Takes
<1>5. AcceptSend(w) => Takes(w, {"asend"}, {"asendCount", "aerr"})
  BY <1>2, <1>3 DEF AcceptSend, IssueSend, Takes
<1>6. AcceptRecv(w) => Takes(w, {"arecv"}, {"arecvCount", "aerr", "get"})
  BY <1>2, <1>3 DEF AcceptRecv, IssueRecv, Takes
<1>7. AcceptCount(w) => Takes(w, {"asendCount", "arecvCount"}, {"arecv"})
  BY <1>2, <1>3 DEF AcceptCount, Takes
<1>8. AcceptFailed(w) => Takes(w, {"aerr"}, {"close", "aflag"})
  BY <1>2, <1>3 DEF AcceptFailed, Takes
<1>9. AcceptFlag(w) => Takes(w, {"aflag"}, {"get"})
  BY <1>2, <1>3 DEF AcceptFlag, Takes
<1> QED
  BY <1>4, <1>5, <1>6, <1>7, <1>8, <1>9

\* The steps of HandleIo and of the end of the connection.
LEMMA HandleSteps ==
  ASSUME IInv, NEW w \in Workers
  PROVE  /\ SendCount(w) => Takes(w, {"sendCount"}, {"sends"})
         /\ RecvCount(w) => Takes(w, {"recvCount"}, {"tail"})
         /\ Leave(w) => Takes(w, {"leave"}, {"close", "get"})
         /\ HandleIoError(w) => Takes(w, {"error"}, {"free", "get"})
         /\ CloseSocket(w) => Takes(w, {"close"}, {"free"})
         /\ FreeSocketObj(w) => Takes(w, {"free"}, {"get"})
<1>1. TypeOK
  BY DEF IInv
<1>2. ASSUME NEW l \in Pcs, Goto(w, l) PROVE Moved(w) /\ wk'[w].pc = l
  BY <1>1, <1>2, GotoMoves
<1>3. {"sends", "tail", "close", "get", "free"} \subseteq Pcs
  BY DEF Pcs
<1>4. SendCount(w) => Takes(w, {"sendCount"}, {"sends"})
  BY <1>2, <1>3 DEF SendCount, Takes
<1>5. RecvCount(w) => Takes(w, {"recvCount"}, {"tail"})
  BY <1>2, <1>3 DEF RecvCount, Takes
<1>6. Leave(w) => Takes(w, {"leave"}, {"close", "get"})
  BY <1>2, <1>3 DEF Leave, Takes
<1>7. HandleIoError(w) => Takes(w, {"error"}, {"free", "get"})
  BY <1>2, <1>3 DEF HandleIoError, Takes
<1>8. CloseSocket(w) => Takes(w, {"close"}, {"free"})
  BY <1>2, <1>3 DEF CloseSocket, Takes
<1>9. FreeSocketObj(w) => Takes(w, {"free"}, {"get"})
  BY <1>2, <1>3 DEF FreeSocketObj, Takes
<1> QED
  BY <1>4, <1>5, <1>6, <1>7, <1>8, <1>9

\* The steps that change more of the record than its place.
LEMMA RecordSteps ==
  ASSUME IInv, NEW w \in Workers
  PROVE  /\ Enter(w) => /\ Takes(w, {"enter"}, {"sends"})
                        /\ wk'[w].cleanup = wk[w].cleanup
         /\ RepostRecv(w) => /\ Takes(w, {"repost"}, {"recvCount", "tail"})
                             /\ wk'[w].cleanup = wk[w].cleanup
         /\ ZeroTest(w) => /\ Takes(w, {"zero"}, {"tail"})
                           /\ wk'[w].cleanup => OutstandingOps = 0
<1>1. TypeOK
  BY DEF IInv
<1>2. PICK q \in WorkerState : q = wk[w]
  BY <1>1, WorkerFacts
<1>3. ASSUME Enter(w)
      PROVE  Takes(w, {"enter"}, {"sends"}) /\ wk'[w].cleanup = wk[w].cleanup
  <2>1. PICK t \in {"repost", "zero", "tail"} :
          Become(w, [q EXCEPT !.pc = "sends", !.ret = t])
    BY <1>2, <1>3 DEF Enter
  <2> DEFINE r == [q EXCEPT !.pc = "sends", !.ret = t]
  <2>2. r \in WorkerState /\ r.pc = "sends" /\ r.cleanup = q.cleanup
    BY DEF WorkerState, Pcs, Rets
  <2> HIDE DEF r
  <2>3. Moved(w) /\ wk'[w] = r
    BY <1>1, <2>1, <2>2, BecomeMoves DEF r
  <2> QED
    BY <1>2, <1>3, <2>2, <2>3 DEF Takes, Enter
<1>4. ASSUME RepostRecv(w)
      PROVE  /\ Takes(w, {"repost"}, {"recvCount", "tail"})
             /\ wk'[w].cleanup = wk[w].cleanup
  <2>1. CASE Goto(w, "recvCount")
    BY <1>1, <1>4, <2>1, GotoMoves DEF Takes, RepostRecv, Pcs
  <2>2. CASE Become(w, [wk[w] EXCEPT !.pc = "tail", !.err = TRUE])
    <3> DEFINE r == [q EXCEPT !.pc = "tail", !.err = TRUE]
    <3>1. r \in WorkerState /\ r.pc = "tail" /\ r.cleanup = q.cleanup
      BY DEF WorkerState, Pcs
    <3>2. Become(w, r)
      BY <1>2, <2>2
    <3> HIDE DEF r
    <3>3. Moved(w) /\ wk'[w] = r
      BY <1>1, <3>1, <3>2, BecomeMoves
    <3> QED
      BY <1>2, <1>4, <3>1, <3>3 DEF Takes, RepostRecv
  <2> QED
    BY <1>4, <2>1, <2>2 DEF RepostRecv, IssueRecv
<1>5. ASSUME ZeroTest(w)
      PROVE  /\ Takes(w, {"zero"}, {"tail"})
             /\ wk'[w].cleanup => OutstandingOps = 0
  <2> DEFINE b == OutstandingOps = 0 /\ OutOfOrderSends = <<>>
             r == [q EXCEPT !.pc = "tail", !.cleanup = b]
  <2>1. b \in BOOLEAN /\ (b => OutstandingOps = 0)
    BY Zenon
  <2>2. Become(w, r)
    BY <1>2, <1>5 DEF ZeroTest
  <2> HIDE DEF b
  <2>3. r \in WorkerState /\ r.pc = "tail" /\ (r.cleanup => b)
    BY <2>1 DEF WorkerState, Pcs
  <2> HIDE DEF r
  <2>4. Moved(w) /\ wk'[w] = r
    BY <1>1, <2>2, <2>3, BecomeMoves
  <2> QED
    BY <1>5, <2>1, <2>3, <2>4 DEF Takes, ZeroTest
<1> QED
  BY <1>3, <1>4, <1>5

\* The same for DoSends and the end of HandleIo.
LEMMA TailSteps ==
  ASSUME IInv, NEW w \in Workers
  PROVE  /\ DoSends(w) =>
              /\ Takes(w, {"sends"},
                       {"sendCount", "repost", "zero", "tail", "leave"})
              /\ wk'[w].cleanup => wk[w].cleanup \/ faulted'
         /\ HandleIoTail(w) =>
              /\ Takes(w, {"tail"}, {"leave", "sends"})
              /\ wk'[w].pc = "leave" => OutstandingOps' = 0
              /\ wk'[w].pc = "sends" => wk'[w].cleanup = wk[w].cleanup
<1>1. TypeOK /\ ShapeInv
  BY DEF IInv
<1>2. PICK q \in WorkerState : q = wk[w]
  BY <1>1, WorkerFacts
<1> DEFINE r1 == [q EXCEPT !.pc = "leave", !.cleanup = TRUE]
<1>3. r1 \in WorkerState /\ r1.pc = "leave"
  BY DEF WorkerState, Pcs
<1>4. ASSUME DoSends(w)
      PROVE  /\ Takes(w, {"sends"},
                      {"sendCount", "repost", "zero", "tail", "leave"})
             /\ wk'[w].cleanup => wk[w].cleanup \/ faulted'
  <2>1. /\ wk[w].pc = "sends" /\ q.ret \in {"repost", "zero", "tail", "leave"}
        /\ wk[w].ret = q.ret
    BY <1>1, <1>2, <1>4, WorkerFacts DEF DoSends, ShapeInv, Rets
  <2>2. CASE Goto(w, "sendCount") \/ Goto(w, wk[w].ret)
    <3>1. PICK l \in {"sendCount", "repost", "zero", "tail", "leave"} : Goto(w, l)
      BY <2>1, <2>2
    <3>2. l \in Pcs /\ l # "get"
      BY DEF Pcs
    <3> QED
      BY <1>1, <2>1, <3>1, <3>2, GotoMoves DEF Takes
  <2>3. CASE faulted' = TRUE /\ Become(w, SendsFailed(wk[w]))
    <3> DEFINE l == IF q.ret = "repost" THEN "tail" ELSE q.ret
               r2 == [q EXCEPT !.pc = l, !.err = TRUE]
    <3>1. Become(w, IF q.ret = "leave" THEN r1 ELSE r2)
      BY <1>2, <2>3 DEF SendsFailed
    <3>2. l \in {"tail", "zero", "leave"}
      BY <2>1
    <3> HIDE DEF l
    <3>3. r2 \in WorkerState /\ r2.pc = l
      BY <3>2 DEF WorkerState, Pcs
    <3> HIDE DEF r1, r2
    <3>4. Moved(w) /\ (wk'[w] = r1 \/ wk'[w] = r2)
      BY <1>1, <1>3, <3>1, <3>3, BecomeMoves
    <3> QED
      BY <1>3, <2>1, <2>3, <3>2, <3>3, <3>4 DEF Takes
  <2> QED
    BY <1>4, <2>2, <2>3 DEF DoSends, IssueSend
<1>5. ASSUME HandleIoTail(w)
      PROVE  /\ Takes(w, {"tail"}, {"leave", "sends"})
             /\ wk'[w].pc = "leave" => OutstandingOps' = 0
             /\ wk'[w].pc = "sends" => wk'[w].cleanup = wk[w].cleanup
  <2> DEFINE r2 == [q EXCEPT !.pc = "sends", !.ret = "leave"]
  <2>1. r2 \in WorkerState /\ r2.pc = "sends" /\ r2.cleanup = q.cleanup
    BY DEF WorkerState, Pcs, Rets
  <2>2. (OutstandingOps' = 0 /\ Become(w, r1)) \/ Become(w, r2)
    BY <1>2, <1>5 DEF HandleIoTail
  <2> HIDE DEF r1, r2
  <2>3. Moved(w) /\ ((OutstandingOps' = 0 /\ wk'[w] = r1) \/ wk'[w] = r2)
    BY <1>1, <1>3, <2>1, <2>2, BecomeMoves
  <2> QED
    BY <1>2, <1>3, <1>5, <2>1, <2>3 DEF Takes, HandleIoTail
<1> QED
  BY <1>4, <1>5

-----------------------------------------------------------------------------
(* The second part: the echo is the stream.                                *)

\* A gap stays one when data of a number only moves on, unless operations are
\* posted or complete on an open connection.
LEMMA GapKept ==
  ASSUME NEW g, Gap(g), UNCHANGED <<wire, arrived>>,
         \A p \in queue' : p.op = "read" /\ p.ok => p \in queue,
         \A v \in Workers : Hand(wk'[v]) => Hand(wk[v]) /\ wk'[v].k = wk[v].k,
         OutOfOrderSends' = OutOfOrderSends,
         s' = "open" /\ peer' = "open" =>
           /\ s = "open" /\ peer = "open" /\ UNCHANGED <<recvs, issued>>
           /\ faulted => faulted'
  PROVE  Gap(g)'
<1>1. Len(wire') <= g
  BY DEF Gap
<1>2. \A p \in queue' : p.op = "read" /\ p.ok => Fits(p.k, g, arrived')
  BY DEF Gap
<1>3. \A w \in Workers : Hand(wk'[w]) => Fits(wk'[w].k, g, arrived')
  BY DEF Gap
<1>4. \A a \in 1..Len(OutOfOrderSends') : Fits(OutOfOrderSends'[a], g, arrived')
  BY DEF Gap
<1>5. s' = "open" /\ peer' = "open" =>
        /\ \A a \in 1..Len(recvs') :
             \/ recvs'[a] = arrived' + a - 1 /\ recvs'[a] < g
             \/ recvs'[a] = arrived' + a /\ recvs'[a] > g
        /\ \/ g = issued' + 1 /\ issued' + 1 = arrived' + Len(recvs')
           \/ g <= issued' /\ faulted' /\ issued' = arrived' + Len(recvs')
  BY DEF Gap
<1> QED
  BY <1>1, <1>2, <1>3, <1>4, <1>5 DEF Gap

BarrenPcs == {"get", "aerr", "aflag", "close", "free"}

\* A step after which nothing more is echoed than before.
Silent ==
  /\ UNCHANGED <<wire, arrived, LastSendIssued, issued, OutOfOrderSends>>
  /\ freedSends \subseteq freedSends'
  /\ \A p \in queue' : p.op = "read" /\ p.ok => p \in queue
  /\ s' = "open" /\ peer' = "open" =>
       s = "open" /\ peer = "open" /\ recvs' = recvs /\ (faulted => faulted')

\* Such a step keeps the second invariant.
LEMMA SilentKept ==
  ASSUME LastInv, GapInv, Silent, Barren => Barren',
         \A v \in Workers : Hand(wk'[v]) => Hand(wk[v]) /\ wk'[v].k = wk[v].k
  PROVE  LastInv' /\ GapInv'
<1>1. LastInv'
  BY DEF LastInv, Silent
<1>2. GapInv'
  <2>1. CASE arrived > 0
    <3>1. PICK g \in 1..(issued + 1) : Gap(g)
      BY <2>1 DEF GapInv
    <3>2. Gap(g)'
      BY <3>1, GapKept DEF Silent
    <3> QED
      BY <3>1, <3>2 DEF GapInv, Silent
  <2>2. CASE ~(arrived > 0)
    BY <2>2 DEF GapInv, Silent
  <2> QED
    BY <2>1, <2>2
<1> QED
  BY <1>1, <1>2

\* A silent step of one worker.
LEMMA SilentStep ==
  ASSUME IInv, LastInv, GapInv, NEW w \in Workers, Moved(w), Silent,
         queue' = queue, wk'[w].pc # "enter",
         wk[w].pc \in BarrenPcs => wk'[w].pc \in BarrenPcs
  PROVE  LastInv' /\ GapInv'
<1>1. \A v \in Workers : Hand(wk'[v]) => Hand(wk[v]) /\ wk'[v].k = wk[v].k
  BY DEF Hand, Moved
<1>2. ASSUME Barren PROVE Barren'
  <2>1. \A v \in Workers : wk'[v].pc \in BarrenPcs
    BY <1>2 DEF Barren, BarrenPcs, Moved
  <2> QED
    BY <1>2, <2>1 DEF Barren, BarrenPcs, Silent
<1> QED
  BY <1>1, <1>2, SilentKept

\* The steps of the accept that do not post, and the ends of a connection.
LEMMA AcceptQuietStream ==
  ASSUME IInv, LastInv, GapInv, NEW w \in Workers,
         \/ AcceptCount(w) \/ AcceptFailed(w) \/ AcceptFlag(w)
         \/ HandleIoError(w) \/ CloseSocket(w) \/ FreeSocketObj(w)
  PROVE  LastInv' /\ GapInv'
<1>1. Silent /\ queue' = queue
  BY DEF Silent, AcceptCount, AcceptFailed, AcceptFlag, HandleIoError,
         CloseSocket, FreeSocketObj, life, sendList, recvVars, sendVars, netVars,
         history
<1>2. \/ Takes(w, {"asendCount", "arecvCount"}, {"arecv"})
      \/ Takes(w, {"aerr"}, {"close", "aflag"}) \/ Takes(w, {"aflag"}, {"get"})
      \/ Takes(w, {"error"}, {"free", "get"}) \/ Takes(w, {"close"}, {"free"})
      \/ Takes(w, {"free"}, {"get"})
  BY AcceptSteps, HandleSteps
<1> QED
  BY <1>1, <1>2, SilentStep DEF Takes, BarrenPcs

\* The steps of HandleIo that do not post.
LEMMA HandleQuietStream ==
  ASSUME IInv, LastInv, GapInv, NEW w \in Workers,
         \/ RecvCount(w) \/ ZeroTest(w) \/ HandleIoTail(w) \/ Leave(w)
  PROVE  LastInv' /\ GapInv'
<1>1. Silent /\ queue' = queue
  BY DEF Silent, RecvCount, ZeroTest, HandleIoTail, Leave, life, sendList,
         recvVars, sendVars, netVars, history
<1>2. \/ Takes(w, {"recvCount"}, {"tail"}) \/ Takes(w, {"zero"}, {"tail"})
      \/ Takes(w, {"tail"}, {"leave", "sends"})
      \/ Takes(w, {"leave"}, {"close", "get"})
  BY HandleSteps, RecordSteps, TailSteps
<1> QED
  BY <1>1, <1>2, SilentStep DEF Takes, BarrenPcs

\* The client leaves, freed memory is used, or nothing happens.
LEMMA ClientLeavesStream ==
  ASSUME IInv, LastInv, GapInv,
         ClientCloses \/ ClientResets \/ (\E w \in Workers : UseFreed(w))
         \/ UNCHANGED vars
  PROVE  LastInv' /\ GapInv'
<1>1. Silent /\ queue' = queue /\ wk' = wk
  BY DEF Silent, ClientCloses, ClientResets, UseFreed, vars, life, sendList,
         recvVars, sendVars, netVars, history
<1>2. Barren => Barren'
  BY <1>1 DEF Barren, Silent
<1>3. \A v \in Workers : Hand(wk'[v]) => Hand(wk[v]) /\ wk'[v].k = wk[v].k
  BY <1>1
<1> QED
  BY <1>1, <1>2, <1>3, SilentKept

\* A send completes.
LEMMA SendCompletesStream ==
  ASSUME IInv, LastInv, GapInv, NEW k \in sends, SendCompletes(k)
  PROVE  LastInv' /\ GapInv'
<1>1. PICK b \in BOOLEAN : queue' = queue \cup {Packet("write", k, b)}
  BY DEF SendCompletes
<1>2. Packet("write", k, b).op = "write"
  BY DEF Packet
<1>3. Silent /\ wk' = wk
  BY <1>1, <1>2 DEF Silent, SendCompletes, life, sendList, recvVars, history
<1>4. ~Barren
  <2>1. PICK a \in 1..Len(wire) : wire[a] = k
    BY DEF IInv, Flying
  <2>2. wire # <<>>
    <3>1. wire \in Seq(Nat)
      BY Types DEF IInv
    <3> QED
      BY <2>1, <3>1, SeqFacts
  <2> QED
    BY <2>2 DEF Barren
<1>5. \A v \in Workers : Hand(wk'[v]) => Hand(wk[v]) /\ wk'[v].k = wk[v].k
  BY <1>3
<1> QED
  BY <1>3, <1>4, <1>5, SilentKept

\* A packet is dequeued.
LEMMA DequeueStream ==
  ASSUME IInv, LastInv, GapInv, NEW w \in Workers, NEW p \in queue, Dequeue(w, p)
  PROVE  LastInv' /\ GapInv'
<1>1. /\ UNCHANGED <<wire, arrived, LastSendIssued, issued, OutOfOrderSends,
                     freedSends, s, peer, recvs, faulted>>
      /\ queue' = queue \ {p}
  BY DEF Dequeue, life, sendList, recvVars, sendVars
<1>2. ~Barren
  BY DEF Barren
<1>3. LastInv'
  BY <1>1, <1>2 DEF LastInv
<1>4. /\ \A v \in Workers \ {w} : wk'[v] = wk[v]
      /\ Hand(wk'[w]) => p.op = "read" /\ p.ok /\ wk'[w].k = p.k
  <2>1. TypeOK /\ p.k \in Nat /\ p.op \in Ops
    <3>1. TypeOK /\ p \in PacketState
      BY Types DEF IInv
    <3> QED
      BY <3>1 DEF PacketState, Ops
  <2> DEFINE l == IF p.op = "accept" THEN "accept"
                  ELSE IF p.ok THEN "enter" ELSE "error"
             r == [Idle EXCEPT !.op = p.op, !.k = p.k, !.pc = l]
  <2>2. Become(w, r)
    BY DEF Dequeue
  <2>3. l \in Pcs /\ (l = "enter" => p.ok)
    BY DEF Pcs
  <2> HIDE DEF l
  <2>4. r \in WorkerState /\ r.pc = l /\ r.op = p.op /\ r.k = p.k
    BY <2>1, <2>3, IdleFacts DEF WorkerState, Idle
  <2> HIDE DEF r
  <2>5. Moved(w) /\ wk'[w] = r
    BY <2>1, <2>2, <2>4, BecomeMoves
  <2> QED
    BY <2>3, <2>4, <2>5 DEF Moved, Hand
<1>5. GapInv'
  <2>1. CASE arrived > 0
    <3>1. PICK g \in 1..(issued + 1) : Gap(g)
      BY <2>1 DEF GapInv
    <3>2. \A v \in Workers : Hand(wk'[v]) => Fits(wk'[v].k, g, arrived')
      BY <1>1, <1>4, <3>1 DEF Gap
    <3>3. Gap(g)'
      BY <1>1, <3>1, <3>2 DEF Gap
    <3> QED
      BY <1>1, <3>1, <3>3 DEF GapInv
  <2>2. CASE ~(arrived > 0)
    BY <1>1, <2>2 DEF GapInv
  <2> QED
    BY <2>1, <2>2
<1> QED
  BY <1>3, <1>5

\* The connection is accepted and no receive is posted: the next number, 1,
\* is the gap.
Fresh ==
  /\ IInv /\ issued = 0 /\ arrived = 1 /\ Len(wire) <= 1
  /\ \A p \in queue : ~Received(p)
  /\ \A v \in Workers : ~Hand(wk[v])

\* Such a state has a gap.
LEMMA FreshGap == Fresh => GapInv
<1> SUFFICES ASSUME Fresh PROVE GapInv
  OBVIOUS
<1> USE DEF Fresh
<1>1. /\ recvs \in Seq(Nat) /\ OutOfOrderSends \in Seq(Nat)
      /\ Numbered(recvs, 0, queue, wk, OutOfOrderSends, wire)
  BY Types DEF IInv
<1>2. 1..Len(recvs) = {} /\ 1..Len(OutOfOrderSends) = {} /\ Len(recvs) = 0
  <2>1. /\ \A a \in 1..Len(recvs) : recvs[a] \in 1..0
        /\ \A a \in 1..Len(OutOfOrderSends) : OutOfOrderSends[a] \in 1..0
    BY <1>1 DEF Numbered, Below
  <2>2. Len(recvs) \in Nat /\ 1..0 = {}
    BY <1>1, SeqFacts
  <2> QED
    BY <2>1, <2>2
<1>3. Gap(1)
  <2>1. \A p \in queue : ~(p.op = "read")
    BY DEF Received
  <2>2. 1 = issued + 1 /\ issued + 1 = arrived + Len(recvs)
    BY <1>2
  <2> QED
    BY <1>2, <2>1, <2>2 DEF Gap
<1> QED
  BY <1>3 DEF GapInv

\* The client connects, or the accept is taken up.
LEMMA StartStream ==
  ASSUME IInv, IInv', ClientConnects \/ (\E w \in Workers : Associate(w))
  PROVE  LastInv' /\ GapInv'
<1>1. Starting(queue, wk, arrived)
  BY DEF Starting, ClientConnects, Associate
<1>2. /\ issued = 0 /\ wire = <<>> /\ LastSendIssued = 0 /\ arrived \in {0, 1}
      /\ queue \subseteq {Packet("accept", 0, TRUE)}
      /\ \A w \in Workers : wk[w].pc \in StartPcs
      /\ \A w \in Workers : wk[w].pc # "get" => queue = {} /\ arrived = 1
  BY <1>1 DEF IInv, StartInv
<1>3. /\ UNCHANGED <<issued, wire, LastSendIssued>> /\ arrived' = 1
      /\ queue' = {} \/ queue' = {Packet("accept", 0, TRUE)}
  BY <1>2 DEF ClientConnects, Associate, sendList, recvVars, sendVars, netVars
<1>4. \A v \in Workers : ~Hand(wk'[v])
  <2>1. CASE ClientConnects
    BY <1>2, <2>1 DEF ClientConnects, Hand, StartPcs
  <2>2. ASSUME NEW w \in Workers, Associate(w) PROVE \A v \in Workers : ~Hand(wk'[v])
    <3>1. Takes(w, {"accept"}, {"asend", "get"})
      BY <2>2, AcceptSteps
    <3> QED
      BY <1>2, <3>1 DEF Takes, Moved, Hand, StartPcs
  <2> QED
    BY <2>1, <2>2
<1>5. ~Received(Packet("accept", 0, TRUE))
  BY DEF Received, Packet
<1>6. Len(wire') = 0 /\ 1..Len(wire') = {}
  BY <1>2, <1>3
<1>7. \A p \in queue' : ~Received(p)
  BY <1>3, <1>5
<1>8. issued' = 0 /\ Len(wire') <= 1
  BY <1>2, <1>3, <1>6
<1>9. GapInv'
  <2>1. Fresh'
    BY <1>3, <1>4, <1>7, <1>8 DEF Fresh
  <2> QED
    BY <2>1, FreshGap, PTL
<1>10. LastInv'
  BY <1>2, <1>3, <1>6 DEF LastInv
<1> QED
  BY <1>9, <1>10

\* The data that came with the accept is echoed, or cannot be.
LEMMA AcceptSendStream ==
  ASSUME NoWrap, IInv, IInv', NEW w \in Workers, AcceptSend(w)
  PROVE  LastInv' /\ GapInv'
<1>1. /\ issued = 0 /\ wire = <<>> /\ LastSendIssued = 0 /\ arrived = 1
      /\ queue = {} /\ \A v \in Workers \ {w} : wk[v].pc = "get"
  BY StartFacts DEF AcceptSend
<1>2. UNCHANGED <<issued, arrived, queue>>
  BY DEF AcceptSend, recvVars, netVars
<1>3. Takes(w, {"asend"}, {"asendCount", "aerr"})
  BY AcceptSteps
<1>4. \/ wire' = << 0 >> /\ LastSendIssued' = 1
      \/ wire' = <<>> /\ wk'[w].pc = "aerr"
  <2>1. (0 + 1) % SeqModulus = 1
    BY ConstantsAssumption DEF NoWrap
  <2>2. CASE IssueSend(w, 0, "asendCount")
    <3>1. wire' = Append(<<>>, 0) /\ LastSendIssued' = 1
      BY <1>1, <2>1, <2>2 DEF IssueSend
    <3> QED
      BY <3>1
  <2>3. CASE Goto(w, "aerr") /\ UNCHANGED sendVars
    <3>1. wk'[w].pc = "aerr"
      BY <2>3, GotoMoves DEF IInv, Pcs
    <3> QED
      BY <1>1, <2>3, <3>1 DEF sendVars
  <2> QED
    BY <2>2, <2>3 DEF AcceptSend
<1>5. GapInv'
  <2>1. Len(wire') <= 1
    <3>1. CASE wire' = << 0 >>
      BY <3>1
    <3>2. CASE wire' = <<>>
      BY <3>2
    <3> QED
      BY <1>4, <3>1, <3>2
  <2>2. \A v \in Workers : ~Hand(wk'[v])
    BY <1>1, <1>3 DEF Takes, Moved, Hand
  <2>3. Fresh'
    BY <1>1, <1>2, <2>1, <2>2 DEF Fresh
  <2> QED
    BY <2>3, FreshGap, PTL
<1>6. LastInv'
  <2>1. CASE wire' = << 0 >> /\ LastSendIssued' = 1
    <3>1. Len(wire') = 1 /\ wire'[1] = 0
      BY <2>1
    <3> QED
      BY <1>1, <1>2, <2>1, <3>1 DEF LastInv
  <2>2. CASE wire' = <<>> /\ wk'[w].pc = "aerr"
    <3>1. Barren'
      BY <1>1, <1>2, <1>3, <2>2 DEF Barren, Takes, Moved
    <3>2. Len(wire') = 0
      BY <2>2
    <3> QED
      BY <1>1, <1>2, <3>1, <3>2 DEF LastInv
  <2> QED
    BY <1>4, <2>1, <2>2
<1> QED
  BY <1>5, <1>6

\* A receive is posted, or its number is lost because the call fails.
LEMMA PostStream ==
  ASSUME IInv, LastInv, GapInv, NEW w \in Workers, Moved(w),
         wk[w].pc \in {"arecv", "repost"}, wk'[w].pc # "enter",
         UNCHANGED <<wire, arrived, LastSendIssued, OutOfOrderSends, freedSends,
                     queue, s, peer>>,
         issued' = issued + 1,
         \/ recvs' = Append(recvs, issued + 1) /\ faulted' = faulted
         \/ recvs' = recvs /\ CallFails /\ faulted' = TRUE
  PROVE  LastInv' /\ GapInv'
<1>1. ~Barren
  BY DEF Barren
<1>2. LastInv'
  BY <1>1 DEF LastInv
<1>3. /\ issued \in Nat /\ arrived \in Nat /\ recvs \in Seq(Nat)
      /\ OutOfOrderSends \in Seq(Nat) /\ wire \in Seq(Nat)
      /\ Numbered(recvs, issued, queue, wk, OutOfOrderSends, wire)
  BY Types DEF IInv
<1>4. arrived > 0
  <2>1. ~Starting(queue, wk, arrived)
    BY Started DEF IInv, StartPcs
  <2> QED
    BY <1>3, <2>1 DEF Starting
<1>5. PICK g \in 1..(issued + 1) : Gap(g)
  BY <1>4 DEF GapInv
<1>6. \A v \in Workers : Hand(wk'[v]) => Hand(wk[v]) /\ wk'[v].k = wk[v].k
  BY DEF Hand, Moved
<1>7. /\ Len(recvs) \in Nat /\ Len(wire) \in Nat
      /\ \A a \in 1..Len(recvs) : recvs[a] \in 1..issued
      /\ \A p \in queue : p.op = "read" => p.k \in 1..issued
      /\ \A v \in Workers : Hand(wk[v]) => wk[v].k \in 1..issued
      /\ \A a \in 1..Len(OutOfOrderSends) : OutOfOrderSends[a] \in 1..issued
  BY <1>3, SeqFacts DEF Numbered, Below, Received
<1>8. CASE ~(s = "open" /\ peer = "open")
  <2>1. Gap(g)'
    BY <1>5, <1>6, <1>8, GapKept
  <2> QED
    BY <1>2, <1>3, <1>5, <2>1 DEF GapInv
<1>9. CASE s = "open" /\ peer = "open" /\ g <= issued
  <2>1. faulted /\ issued = arrived + Len(recvs)
    BY <1>3, <1>5, <1>9 DEF Gap
  <2>2. recvs' = Append(recvs, issued + 1) /\ faulted' = faulted
    BY <1>9, <2>1 DEF CallFails
  <2>3. PICK r \in Seq(Nat) : r = recvs
    BY <1>3
  <2>4. /\ Len(recvs') = Len(recvs) + 1 /\ recvs'[Len(recvs) + 1] = issued + 1
        /\ \A a \in 1..Len(recvs) : recvs'[a] = recvs[a]
    BY <1>3, <2>2, <2>3, AppendFacts
  <2>5. \A a \in 1..Len(recvs') :
          \/ recvs'[a] = arrived' + a - 1 /\ recvs'[a] < g
          \/ recvs'[a] = arrived' + a /\ recvs'[a] > g
    <3> TAKE a \in 1..Len(recvs')
    <3>1. CASE a \in 1..Len(recvs)
      BY <1>5, <1>9, <2>4, <3>1 DEF Gap
    <3>2. CASE a = Len(recvs) + 1
      BY <1>3, <1>7, <1>9, <2>1, <2>4, <3>2
    <3> QED
      BY <1>7, <2>4, <3>1, <3>2
  <2>6. g <= issued' /\ faulted' /\ issued' = arrived' + Len(recvs')
    BY <1>3, <1>7, <1>9, <2>1, <2>2, <2>4
  <2>7. Gap(g)'
    BY <1>5, <1>6, <2>5, <2>6 DEF Gap
  <2> QED
    BY <1>2, <1>3, <1>5, <2>7 DEF GapInv
<1>10. CASE s = "open" /\ peer = "open" /\ g = issued + 1
  <2>1. issued + 1 = arrived + Len(recvs)
    BY <1>3, <1>5, <1>10 DEF Gap
  <2>2. \A a \in 1..Len(recvs) : recvs[a] = arrived + a - 1 /\ recvs[a] < g
    BY <1>3, <1>5, <1>7, <1>10 DEF Gap
  <2>3. CASE recvs' = recvs /\ faulted' = TRUE
    <3>1. g <= issued' /\ faulted' /\ issued' = arrived' + Len(recvs')
      BY <1>3, <1>7, <1>10, <2>1, <2>3
    <3>2. Gap(g)'
      BY <1>5, <1>6, <2>2, <2>3, <3>1 DEF Gap
    <3> QED
      BY <1>2, <1>3, <1>5, <3>2 DEF GapInv
  <2>4. CASE recvs' = Append(recvs, issued + 1) /\ faulted' = faulted
    <3>1. PICK h \in Nat : h = issued + 2
      BY <1>3
    <3>2. /\ Len(recvs') = Len(recvs) + 1 /\ recvs'[Len(recvs) + 1] = issued + 1
          /\ \A a \in 1..Len(recvs) : recvs'[a] = recvs[a]
      <4>1. PICK r \in Seq(Nat) : r = recvs
        BY <1>3
      <4> QED
        BY <1>3, <2>4, <4>1, AppendFacts
    <3>3. \A a \in 1..Len(recvs') : recvs'[a] = arrived' + a - 1 /\ recvs'[a] < h
      <4> TAKE a \in 1..Len(recvs')
      <4>1. CASE a \in 1..Len(recvs)
        BY <1>3, <1>7, <1>10, <2>2, <3>1, <3>2, <4>1
      <4>2. CASE a = Len(recvs) + 1
        BY <1>3, <1>7, <2>1, <3>1, <3>2, <4>2
      <4> QED
        BY <1>7, <3>2, <4>1, <4>2
    <3>4. h = issued' + 1 /\ issued' + 1 = arrived' + Len(recvs')
      BY <1>3, <1>7, <2>1, <3>1, <3>2
    <3>5. ASSUME NEW x \in 1..issued, Fits(x, g, arrived) PROVE Fits(x, h, arrived')
      BY <1>3, <1>10, <3>1, <3>5 DEF Fits
    <3>6. Len(wire') <= h
      BY <1>3, <1>5, <1>7, <1>10, <3>1 DEF Gap
    <3>7. \A p \in queue' : p.op = "read" /\ p.ok => Fits(p.k, h, arrived')
      BY <1>5, <1>7, <3>5 DEF Gap
    <3>8. \A v \in Workers : Hand(wk'[v]) => Fits(wk'[v].k, h, arrived')
      BY <1>5, <1>6, <1>7, <3>5 DEF Gap
    <3>9. \A a \in 1..Len(OutOfOrderSends') :
            Fits(OutOfOrderSends'[a], h, arrived')
      BY <1>5, <1>7, <3>5 DEF Gap
    <3>10. Gap(h)'
      BY <3>3, <3>4, <3>6, <3>7, <3>8, <3>9 DEF Gap
    <3> QED
      BY <1>2, <1>3, <3>1, <3>10 DEF GapInv
  <2> QED
    BY <2>3, <2>4
<1> QED
  BY <1>3, <1>8, <1>9, <1>10

\* The worker of the accept, or of a receive, posts one.
LEMMA RecvStream ==
  ASSUME IInv, LastInv, GapInv, NEW w \in Workers, AcceptRecv(w) \/ RepostRecv(w)
  PROVE  LastInv' /\ GapInv'
<1>1. /\ UNCHANGED <<wire, arrived, LastSendIssued, OutOfOrderSends, freedSends,
                     queue, s, peer>>
  BY DEF AcceptRecv, RepostRecv, life, sendList, sendVars, netVars
<1>2. \/ Takes(w, {"arecv"}, {"arecvCount", "aerr", "get"})
      \/ Takes(w, {"repost"}, {"recvCount", "tail"})
  BY AcceptSteps, RecordSteps
<1>3. Moved(w) /\ wk[w].pc \in {"arecv", "repost"} /\ wk'[w].pc # "enter"
  BY <1>2 DEF Takes
<1>4. CASE /\ issued' = issued + 1
           /\ \/ recvs' = Append(recvs, issued + 1) /\ faulted' = faulted
              \/ recvs' = recvs /\ CallFails /\ faulted' = TRUE
  BY <1>1, <1>3, <1>4, PostStream
<1>5. CASE UNCHANGED <<recvVars, faulted>>
  <2>1. Silent
    BY <1>1, <1>5 DEF Silent, recvVars
  <2> QED
    BY <1>1, <1>3, <2>1, SilentStep DEF BarrenPcs
<1> QED
  BY <1>4, <1>5 DEF AcceptRecv, RepostRecv, IssueRecv

\* The oldest receive completes: its number is that of the next chunk, or
\* behind the gap.
LEMMA ReceiveCompletesStream ==
  ASSUME IInv, LastInv, GapInv, ReceiveCompletes
  PROVE  LastInv' /\ GapInv'
<1>1. /\ recvs # <<>> /\ recvs' = Tail(recvs) /\ wk' = wk
      /\ UNCHANGED <<wire, issued, OutOfOrderSends, LastSendIssued, freedSends,
                     s, peer, faulted>>
  BY DEF ReceiveCompletes, life, sendVars, sendList, history
<1>2. /\ issued \in Nat /\ arrived \in Nat /\ recvs \in Seq(Nat)
      /\ Numbered(recvs, issued, queue, wk, OutOfOrderSends, wire)
      /\ wire \in Seq(Nat)
  BY Types DEF IInv
<1>3. PICK r \in Seq(Nat) : r = recvs
  BY <1>2
<1>4. /\ Head(recvs) = recvs[1] /\ 1 \in 1..Len(recvs) /\ Len(recvs) \in Nat
      /\ Len(recvs') = Len(recvs) - 1
      /\ \A a \in 1..(Len(recvs) - 1) : recvs'[a] = recvs[a + 1]
  BY <1>1, <1>3, TailFacts, SeqFacts
<1>5. recvs[1] \in 1..issued /\ issued # 0
  BY <1>2, <1>4 DEF Numbered
<1>6. arrived > 0 /\ ~Barren
  <2>1. ~Starting(queue, wk, arrived)
    BY <1>5 DEF IInv, StartInv
  <2> QED
    BY <1>2, <1>5, <2>1 DEF Starting, Barren
<1>7. LastInv'
  <2>1. arrived' = arrived \/ arrived' = arrived + 1
    BY DEF ReceiveCompletes
  <2>2. Len(wire') <= arrived'
    BY <1>1, <1>2, <2>1, SeqFacts DEF LastInv
  <2> QED
    BY <1>1, <1>6, <2>2 DEF LastInv
<1>8. PICK g \in 1..(issued + 1) : Gap(g)
  BY <1>6 DEF GapInv
<1>9. CASE /\ s = "open" /\ peer = "open" /\ arrived' = arrived + 1
           /\ queue' = queue \cup {Packet("read", Head(recvs), TRUE)}
  <2> DEFINE p == Packet("read", Head(recvs), TRUE)
  <2>1. p.k = recvs[1] /\ queue' = queue \cup {p}
    BY <1>4, <1>9 DEF Packet
  <2> HIDE DEF p
  <2>2. Fits(recvs[1], g, arrived + 1)
    <3>1. \/ recvs[1] = arrived /\ recvs[1] < g
          \/ recvs[1] = arrived + 1 /\ recvs[1] > g
      BY <1>2, <1>4, <1>8, <1>9 DEF Gap
    <3> QED
      BY <1>2, <1>5, <1>8, <3>1 DEF Fits
  <2>3. ASSUME NEW x \in 1..issued, Fits(x, g, arrived)
        PROVE  Fits(x, g, arrived + 1)
    BY <1>2, <2>3 DEF Fits
  <2>4. /\ \A q \in queue : q.op = "read" => q.k \in 1..issued
        /\ \A v \in Workers : Hand(wk[v]) => wk[v].k \in 1..issued
        /\ \A a \in 1..Len(OutOfOrderSends) : OutOfOrderSends[a] \in 1..issued
    BY <1>2 DEF Numbered, Below, Received
  <2>5. \A q \in queue' : q.op = "read" /\ q.ok => Fits(q.k, g, arrived')
    BY <1>8, <1>9, <2>1, <2>2, <2>3, <2>4 DEF Gap
  <2>6. \A v \in Workers : Hand(wk'[v]) => Fits(wk'[v].k, g, arrived')
    BY <1>1, <1>8, <1>9, <2>3, <2>4 DEF Gap
  <2>7. \A a \in 1..Len(OutOfOrderSends') : Fits(OutOfOrderSends'[a], g, arrived')
    BY <1>1, <1>8, <1>9, <2>3, <2>4 DEF Gap
  <2>8. \A a \in 1..Len(recvs') :
          \/ recvs'[a] = arrived' + a - 1 /\ recvs'[a] < g
          \/ recvs'[a] = arrived' + a /\ recvs'[a] > g
    <3> TAKE a \in 1..Len(recvs')
    <3>1. a \in Nat /\ a + 1 \in 1..Len(recvs) /\ recvs'[a] = recvs[a + 1]
      BY <1>4
    <3>2. \/ recvs[a + 1] = arrived + (a + 1) - 1 /\ recvs[a + 1] < g
          \/ recvs[a + 1] = arrived + (a + 1) /\ recvs[a + 1] > g
      BY <1>8, <1>9, <3>1 DEF Gap
    <3> QED
      BY <1>2, <1>9, <3>1, <3>2
  <2>9. \/ g = issued' + 1 /\ issued' + 1 = arrived' + Len(recvs')
        \/ g <= issued' /\ faulted' /\ issued' = arrived' + Len(recvs')
    <3>1. \/ g = issued + 1 /\ issued + 1 = arrived + Len(recvs)
          \/ g <= issued /\ faulted /\ issued = arrived + Len(recvs)
      BY <1>8, <1>9 DEF Gap
    <3> QED
      BY <1>1, <1>2, <1>4, <1>9, <3>1
  <2>10. Len(wire') <= g
    BY <1>1, <1>8 DEF Gap
  <2>11. Gap(g)'
    BY <2>5, <2>6, <2>7, <2>8, <2>9, <2>10 DEF Gap
  <2> QED
    BY <1>1, <1>7, <1>8, <2>11 DEF GapInv
<1>10. CASE /\ ~(s = "open" /\ peer = "open") /\ arrived' = arrived
            /\ \E o \in {"read", "zero"} : \E b \in BOOLEAN :
                 /\ o = "zero" \/ b = FALSE
                 /\ queue' = queue \cup {Packet(o, Head(recvs), b)}
  <2>1. \A q \in queue' : q.op = "read" /\ q.ok => q \in queue
    BY <1>10 DEF Packet
  <2>2. Gap(g)'
    BY <1>1, <1>8, <1>10, <2>1, GapKept
  <2> QED
    BY <1>1, <1>7, <1>8, <2>2 DEF GapInv
<1> QED
  BY <1>9, <1>10 DEF ReceiveCompletes

\* The list after the data of a receive was put into it.
LEMMA EnterStream ==
  ASSUME IInv, LastInv, GapInv, NEW w \in Workers, Enter(w)
  PROVE  LastInv' /\ GapInv'
<1>1. /\ UNCHANGED <<wire, arrived, LastSendIssued, issued, freedSends, queue, s,
                     peer, recvs, faulted>>
      /\ wk[w].pc = "enter"
  BY DEF Enter, recvVars, sendVars, netVars, history
<1>2. Takes(w, {"enter"}, {"sends"})
  BY RecordSteps
<1>3. CASE wk[w].op # "read"
  <2>1. OutOfOrderSends' = OutOfOrderSends
    BY <1>3 DEF Enter
  <2>2. Silent
    BY <1>1, <2>1 DEF Silent
  <2> QED
    BY <1>1, <1>2, <2>2, SilentStep DEF Takes, BarrenPcs
<1>4. CASE wk[w].op = "read"
  <2>1. ~Barren
    BY <1>1 DEF Barren
  <2>2. ~(OutOfOrderSends # <<>> /\ Head(OutOfOrderSends) \in freedSends)
    BY <1>1, <1>4 DEF Enter, ReadsFreedSend
  <2>3. LastInv'
    BY <1>1, <2>1, <2>2 DEF LastInv
  <2>4. OutOfOrderSends' = InsertPendingSend(wk[w].k, OutOfOrderSends)
    BY <1>4 DEF Enter
  <2>5. \A a \in 1..Len(OutOfOrderSends') :
          \/ OutOfOrderSends'[a] = wk[w].k
          \/ \E b \in 1..Len(OutOfOrderSends) :
               OutOfOrderSends'[a] = OutOfOrderSends[b]
    <3>1. PICK l \in Seq(Nat) : l = OutOfOrderSends
      BY Types DEF IInv
    <3>2. PICK x \in Nat : x = wk[w].k
      BY WorkerFacts DEF IInv
    <3>3. \A a \in 1..Len(InsertPendingSend(x, l)) :
            \/ InsertPendingSend(x, l)[a] = x
            \/ \E b \in 1..Len(l) : InsertPendingSend(x, l)[a] = l[b]
      BY InsertFacts
    <3> QED
      BY <2>4, <3>1, <3>2, <3>3
  <2>6. Hand(wk[w])
    BY <1>1, <1>4 DEF Hand
  <2>7. CASE arrived > 0
    <3>1. PICK g \in 1..(issued + 1) : Gap(g)
      BY <2>7 DEF GapInv
    <3>2. \A a \in 1..Len(OutOfOrderSends') :
            Fits(OutOfOrderSends'[a], g, arrived')
      BY <1>1, <2>5, <2>6, <3>1 DEF Gap
    <3>3. \A v \in Workers : Hand(wk'[v]) => Fits(wk'[v].k, g, arrived')
      BY <1>1, <1>2, <3>1 DEF Gap, Takes, Moved, Hand
    <3>4. Gap(g)'
      BY <1>1, <3>1, <3>2, <3>3 DEF Gap
    <3> QED
      BY <1>1, <2>3, <3>1, <3>4 DEF GapInv
  <2>8. CASE ~(arrived > 0)
    BY <1>1, <2>3, <2>8 DEF GapInv
  <2> QED
    BY <2>7, <2>8
<1> QED
  BY <1>3, <1>4

\* A small number is its own remainder.
LEMMA NotWrapped ==
  ASSUME NEW k \in Nat, k < SeqModulus
  PROVE  k % SeqModulus = k
BY ConstantsAssumption

\* A round of DoSends: the head of the list is sent if it is the next chunk.
LEMMA DoSendsStream ==
  ASSUME NoWrap, IInv, LastInv, GapInv, NEW w \in Workers, DoSends(w)
  PROVE  LastInv' /\ GapInv'
<1>1. /\ UNCHANGED <<arrived, issued, OutOfOrderSends, queue, s, peer, recvs>>
      /\ wk[w].pc = "sends"
  BY DEF DoSends, life, recvVars, netVars
<1>2. Takes(w, {"sends"}, {"sendCount", "repost", "zero", "tail", "leave"})
  BY TailSteps
<1>3. \A v \in Workers : Hand(wk'[v]) => Hand(wk[v]) /\ wk'[v].k = wk[v].k
  BY <1>2 DEF Takes, Moved, Hand
<1>4. ~Barren /\ ~(OutOfOrderSends # <<>> /\ Head(OutOfOrderSends) \in freedSends)
  BY <1>1 DEF Barren, DoSends, ReadsFreedSend
<1>5. LastSendIssued = Len(wire)
  BY <1>4 DEF LastInv
<1>6. /\ arrived \in Nat /\ arrived <= MaxData + 1 /\ OutOfOrderSends \in Seq(Nat)
      /\ wire \in Seq(Nat) /\ issued \in Nat /\ MaxData \in Nat
      /\ SeqModulus \in Nat /\ Len(wire) \in Nat
  BY Types, SeqFacts, ConstantsAssumption DEF IInv
<1>7. arrived > 0
  <2>1. ~Starting(queue, wk, arrived)
    BY <1>1, Started DEF IInv, StartPcs
  <2> QED
    BY <1>6, <2>1 DEF Starting
<1>8. PICK g \in 1..(issued + 1) : Gap(g)
  BY <1>7 DEF GapInv
<1>9. CASE NextIsDue /\ IssueSend(w, Head(OutOfOrderSends), "sendCount")
           /\ UNCHANGED <<freedSends, faulted>>
  <2>1. PICK l \in Seq(Nat) : l = OutOfOrderSends
    BY <1>6
  <2>2. l # <<>> /\ Head(l) = l[1] /\ 1 \in 1..Len(l) /\ l[1] \in Nat
    BY <1>9, <2>1, TailFacts, SeqFacts DEF NextIsDue
  <2>3. PICK k \in Nat : k = Head(OutOfOrderSends) /\ k = OutOfOrderSends[1]
    BY <2>1, <2>2
  <2>4. Fits(k, g, arrived)
    BY <1>8, <2>1, <2>2, <2>3 DEF Gap
  <2>5. k = Len(wire)
    <3>1. k < SeqModulus
      BY <1>6, <2>4 DEF Fits, NoWrap
    <3>2. k % SeqModulus = k
      BY <3>1, NotWrapped
    <3> QED
      BY <1>5, <1>9, <2>3, <3>2 DEF NextIsDue, Order
  <2>6. k + 1 <= g /\ k + 1 <= arrived
    <3>1. Len(wire) <= g
      BY <1>8 DEF Gap
    <3> QED
      BY <1>6, <1>8, <2>4, <2>5, <3>1 DEF Fits
  <2>7. LastSendIssued' = k + 1
    <3>1. k + 1 < SeqModulus
      BY <1>6, <2>6 DEF NoWrap
    <3>2. (k + 1) % SeqModulus = k + 1
      <4>1. k + 1 \in Nat
        OBVIOUS
      <4> QED
        BY <3>1, <4>1, NotWrapped
    <3> QED
      BY <1>5, <1>9, <2>5, <3>2 DEF IssueSend
  <2>8. /\ Len(wire') = k + 1 /\ wire'[k + 1] = k
        /\ \A a \in 1..k : wire'[a] = wire[a]
    <3>1. PICK t \in Seq(Nat) : t = wire
      BY <1>6
    <3>2. wire' = Append(t, k)
      BY <1>9, <2>3, <3>1 DEF IssueSend
    <3> QED
      BY <2>5, <3>1, <3>2, AppendFacts
  <2>9. LastInv'
    <3>1. \A a \in 1..Len(wire') : wire'[a] = a - 1
      <4> TAKE a \in 1..Len(wire')
      <4>1. CASE a \in 1..k
        BY <2>5, <2>8, <4>1 DEF LastInv
      <4>2. CASE a = k + 1
        BY <2>8, <4>2
      <4> QED
        BY <2>8, <4>1, <4>2
    <3> QED
      BY <1>1, <2>6, <2>7, <2>8, <3>1 DEF LastInv
  <2>10. Gap(g)'
    <3>1. Len(wire') <= g
      BY <2>6, <2>8
    <3> QED
      BY <1>1, <1>3, <1>8, <1>9, <3>1 DEF Gap
  <2> QED
    BY <1>1, <1>8, <2>9, <2>10 DEF GapInv
<1>10. CASE /\ NextIsDue /\ faulted' = TRUE /\ UNCHANGED sendVars
            /\ freedSends' = freedSends \cup {Head(OutOfOrderSends)}
  <2>1. wire' = wire
    BY <1>10 DEF sendVars
  <2>2. LastInv'
    BY <1>1, <1>10, <2>1 DEF LastInv, NextIsDue
  <2>3. Gap(g)'
    BY <1>1, <1>3, <1>8, <1>10, <2>1, GapKept
  <2> QED
    BY <1>1, <1>8, <2>2, <2>3 DEF GapInv
<1>11. CASE UNCHANGED <<LastSendIssued, freedSends, sendVars, faulted>>
  <2>1. Silent
    BY <1>1, <1>11 DEF Silent, sendVars
  <2> QED
    BY <1>3, <1>4, <2>1, SilentKept
<1> QED
  BY <1>9, <1>10, <1>11 DEF DoSends

\* The buffer of the send that was counted leaves the list.
LEMMA SendCountStream ==
  ASSUME IInv, LastInv, GapInv, NEW w \in Workers, SendCount(w)
  PROVE  LastInv' /\ GapInv'
<1>1. /\ UNCHANGED <<wire, arrived, LastSendIssued, issued, freedSends, queue, s,
                     peer, recvs, faulted>>
      /\ wk[w].pc = "sendCount" /\ OutOfOrderSends' = Tail(OutOfOrderSends)
  BY DEF SendCount, life, recvVars, sendVars, netVars, history
<1>2. Takes(w, {"sendCount"}, {"sends"})
  BY HandleSteps
<1>3. ~Barren /\ ~(OutOfOrderSends # <<>> /\ Head(OutOfOrderSends) \in freedSends)
  BY <1>1 DEF Barren, SendCount, ReadsFreedSend
<1>4. LastInv'
  BY <1>1, <1>3 DEF LastInv
<1>5. \A a \in 1..Len(OutOfOrderSends') : \E b \in 1..Len(OutOfOrderSends) :
        OutOfOrderSends'[a] = OutOfOrderSends[b]
  <2>1. PICK l \in Seq(Nat) : l = OutOfOrderSends
    BY Types DEF IInv
  <2>2. l # <<>>
    BY <1>1, <2>1 DEF IInv, ShapeInv
  <2>3. /\ Len(Tail(l)) = Len(l) - 1 /\ Len(l) \in Nat
        /\ \A a \in 1..(Len(l) - 1) : Tail(l)[a] = l[a + 1]
    BY <2>2, TailFacts, SeqFacts
  <2>4. \A a \in 1..Len(Tail(l)) : \E b \in 1..Len(l) : Tail(l)[a] = l[b]
    <3> TAKE a \in 1..Len(Tail(l))
    <3>1. a + 1 \in 1..Len(l) /\ Tail(l)[a] = l[a + 1]
      BY <2>3
    <3> QED
      BY <3>1
  <2> QED
    BY <1>1, <2>1, <2>4
<1>6. GapInv'
  <2>1. CASE arrived > 0
    <3>1. PICK g \in 1..(issued + 1) : Gap(g)
      BY <2>1 DEF GapInv
    <3>2. \A a \in 1..Len(OutOfOrderSends') :
            Fits(OutOfOrderSends'[a], g, arrived')
      BY <1>1, <1>5, <3>1 DEF Gap
    <3>3. \A v \in Workers : Hand(wk'[v]) => Fits(wk'[v].k, g, arrived')
      BY <1>1, <1>2, <3>1 DEF Gap, Takes, Moved, Hand
    <3>4. Gap(g)'
      BY <1>1, <3>1, <3>2, <3>3 DEF Gap
    <3> QED
      BY <1>1, <3>1, <3>4 DEF GapInv
  <2>2. CASE ~(arrived > 0)
    BY <1>1, <2>2 DEF GapInv
  <2> QED
    BY <2>1, <2>2
<1> QED
  BY <1>4, <1>6

-----------------------------------------------------------------------------
(* The second part put together.                                           *)

\* The second invariant holds in the beginning.
LEMMA InitStreamInv == Init => StreamInv
<1> SUFFICES ASSUME Init PROVE StreamInv
  OBVIOUS
<1>1. Len(wire) = 0 /\ arrived = 0 /\ LastSendIssued = 0 /\ 1..Len(wire) = {}
  BY DEF Init
<1>2. LastInv /\ GapInv
  BY <1>1 DEF LastInv, GapInv
<1> QED
  BY <1>2, InitIInv DEF StreamInv

\* Every step keeps the second invariant, if no number wraps.
LEMMA NextStreamInv ==
  ASSUME NoWrap
  PROVE  StreamInv /\ [Next]_vars => StreamInv'
<1> SUFFICES ASSUME StreamInv, [Next]_vars PROVE StreamInv'
  OBVIOUS
<1>1. IInv /\ LastInv /\ GapInv
  BY DEF StreamInv
<1>2. IInv'
  BY <1>1, NextIInv
<1>3. CASE UNCHANGED vars
  BY <1>1, <1>2, <1>3, ClientLeavesStream DEF StreamInv
<1>4. CASE Client
  BY <1>1, <1>2, <1>4, StartStream, ClientLeavesStream DEF Client, StreamInv
<1>5. CASE Kernel
  BY <1>1, <1>2, <1>5, ReceiveCompletesStream, SendCompletesStream
  DEF Kernel, StreamInv
<1>6. ASSUME NEW w \in Workers, Work(w) PROVE LastInv' /\ GapInv'
  <2>1. CASE \E p \in queue : Dequeue(w, p)
    BY <1>1, <2>1, DequeueStream
  <2>2. CASE Associate(w) \/ AcceptSend(w)
    BY <1>1, <1>2, <2>2, StartStream, AcceptSendStream
  <2>3. CASE AcceptRecv(w) \/ RepostRecv(w)
    BY <1>1, <2>3, RecvStream
  <2>4. CASE \/ AcceptCount(w) \/ AcceptFailed(w) \/ AcceptFlag(w)
             \/ HandleIoError(w) \/ CloseSocket(w) \/ FreeSocketObj(w)
    BY <1>1, <2>4, AcceptQuietStream
  <2>5. CASE RecvCount(w) \/ ZeroTest(w) \/ HandleIoTail(w) \/ Leave(w)
    BY <1>1, <2>5, HandleQuietStream
  <2>6. CASE Enter(w) \/ DoSends(w) \/ SendCount(w)
    BY <1>1, <2>6, EnterStream, DoSendsStream, SendCountStream
  <2>7. CASE UseFreed(w)
    BY <1>1, <2>7, ClientLeavesStream
  <2> QED
    BY <1>6, <2>1, <2>2, <2>3, <2>4, <2>5, <2>6, <2>7 DEF Work
<1> QED
  BY <1>2, <1>3, <1>4, <1>5, <1>6 DEF Next, StreamInv

\* As long as the numbers do not wrap, the echo implements the ordered stream,
\* whatever call fails and however the workers are scheduled: each step of the
\* server is the arrival of a chunk, the echo of the next chunk that has
\* arrived, or invisible to the client.  A receive or a send that fails stops
\* the echo; it never makes the server skip, repeat or reorder data.
THEOREM EchoRefinesStream ==
  ASSUME NoWrap
  PROVE  Spec => EchoesStream
<1>1. Init => Stream!StreamInit
  BY DEF Init, Stream!StreamInit
<1>2. StreamInv /\ [Next]_vars => [Stream!StreamNext]_(Stream!StreamVars)
  <2> SUFFICES ASSUME StreamInv, [Next]_vars
               PROVE  Stream!StreamNext \/ UNCHANGED Stream!StreamVars
    OBVIOUS
  <2> USE DEF Stream!StreamVars
  <2>1. StreamInv'
    BY NextStreamInv
  <2>2. /\ arrived \in 0..(MaxData + 1) /\ arrived' \in 0..(MaxData + 1)
        /\ wire \in Seq(Nat) /\ wire' \in Seq(Nat) /\ MaxData \in Nat
    BY <2>1, Types, ConstantsAssumption DEF StreamInv, IInv, TypeOK
  <2>3. CASE UNCHANGED <<arrived, wire>>
    BY <2>3
  <2>4. CASE arrived' = arrived + 1 /\ wire' = wire
    BY <2>2, <2>4 DEF Stream!StreamNext, Stream!Arrive
  <2>5. ASSUME NEW k \in Nat, arrived' = arrived, wire' = Append(wire, k)
        PROVE  Stream!StreamNext
    <3>1. PICK t \in Seq(Nat) : t = wire
      BY <2>2
    <3>2. Len(wire') = Len(wire) + 1 /\ wire'[Len(wire) + 1] = k /\ Len(wire) \in Nat
      BY <2>5, <3>1, AppendFacts, SeqFacts
    <3>3. \A a \in 1..Len(wire') : wire'[a] = a - 1
      BY <2>1 DEF StreamInv, LastInv
    <3>4. k = Len(wire) /\ Len(wire') <= arrived'
      BY <2>1, <3>2, <3>3 DEF StreamInv, LastInv
    <3> QED
      BY <2>2, <2>5, <3>2, <3>4 DEF Stream!StreamNext, Stream!Deliver
  <2>6. CASE UNCHANGED vars
    BY <2>3, <2>6 DEF vars, sendVars, netVars
  <2>7. CASE Client
    <3>1. CASE ClientConnects
      BY <2>4, <3>1 DEF ClientConnects, sendVars
    <3>2. CASE ClientCloses \/ ClientResets
      BY <2>3, <3>2 DEF ClientCloses, ClientResets, sendVars
    <3> QED
      BY <2>7, <3>1, <3>2 DEF Client
  <2>8. CASE Kernel
    BY <2>3, <2>4, <2>8 DEF Kernel, ReceiveCompletes, SendCompletes, sendVars
  <2>9. ASSUME NEW w \in Workers, Work(w)
        PROVE  Stream!StreamNext \/ UNCHANGED Stream!StreamVars
    <3>1. CASE AcceptSend(w)
      BY <2>3, <2>5, <3>1 DEF AcceptSend, IssueSend, sendVars, netVars
    <3>2. CASE DoSends(w)
      <4>1. NextIsDue => Head(OutOfOrderSends) \in Nat
        <5>1. PICK l \in Seq(Nat) : l = OutOfOrderSends
          BY Types DEF StreamInv, IInv
        <5> QED
          BY <5>1, TailFacts, SeqFacts DEF NextIsDue
      <4> QED
        BY <2>3, <2>5, <3>2, <4>1 DEF DoSends, IssueSend, sendVars, netVars
    <3>3. CASE ~AcceptSend(w) /\ ~DoSends(w)
      <4>1. UNCHANGED <<arrived, wire>>
        BY <2>9, <3>3
        DEF Work, Dequeue, Associate, AcceptRecv, AcceptCount, AcceptFailed,
            AcceptFlag, Enter, SendCount, RepostRecv, RecvCount, ZeroTest,
            HandleIoTail, Leave, HandleIoError, CloseSocket, FreeSocketObj,
            UseFreed, sendVars, netVars
      <4> QED
        BY <2>3, <4>1
    <3> QED
      BY <3>1, <3>2, <3>3
  <2> QED
    BY <2>6, <2>7, <2>8, <2>9 DEF Next
<1> QED
  BY <1>1, <1>2, InitStreamInv, NextStreamInv, PTL
  DEF Spec, EchoesStream, Stream!StreamSafety

-----------------------------------------------------------------------------
(* The third part: nothing is used after it was freed.                     *)

\* A step that only moves a worker on does not ask for the cleanup.
LEMMA CleanupKept ==
  ASSUME IInv, NEW w \in Workers, NEW l \in Pcs, Goto(w, l)
  PROVE  wk'[w].cleanup => wk[w].cleanup /\ l # "get"
BY GotoMoves DEF IInv

\* The socket exists while a worker handles the connection.
LEMMA Opened ==
  ASSUME IInv, OpenInv, NEW w \in Workers,
         wk[w].pc \notin {"get", "accept"}
  PROVE  s # "none"
<1>1. CASE wk[w].pc = "asend"
  <2>1. queue = {} /\ arrived = 1 /\ \A v \in Workers \ {w} : wk[v].pc = "get"
    BY <1>1, StartFacts
  <2> QED
    BY <1>1, <2>1 DEF OpenInv
<1>2. CASE wk[w].pc # "asend"
  <2>1. ~Starting(queue, wk, arrived)
    BY <1>2, Started DEF IInv, StartPcs
  <2> QED
    BY <2>1 DEF OpenInv, Starting
<1> QED
  BY <1>1, <1>2

\* And while the kernel works for it.
LEMMA OpenedKernel ==
  ASSUME IInv, OpenInv, recvs # <<>> \/ sends # {}
  PROVE  s # "none" /\ arrived # 0
<1>1. CASE recvs # <<>>
  <2>1. PICK r \in Seq(Nat) : r = recvs
    BY Types DEF IInv
  <2>2. 1 \in 1..Len(recvs)
    BY <1>1, <2>1, TailFacts, SeqFacts
  <2>3. recvs[1] \in 1..issued /\ issued \in Nat
    BY <2>2, Types DEF IInv, Numbered
  <2>4. issued # 0
    BY <2>3
  <2> QED
    BY <2>4 DEF IInv, StartInv, Starting, OpenInv
<1>2. CASE sends # {}
  <2>1. PICK a \in 1..Len(wire) : wire[a] \in sends
    BY <1>2 DEF IInv, Flying
  <2>2. wire \in Seq(Nat)
    BY Types DEF IInv
  <2>3. wire # <<>>
    BY <2>1, <2>2, SeqFacts
  <2> QED
    BY <2>3 DEF IInv, StartInv, Starting, OpenInv
<1> QED
  BY <1>1, <1>2

\* A worker that is handling an operation is the only one that accepts, frees
\* or closes.
LEMMA OnlyOne ==
  ASSUME Clear, NEW w \in Workers, wk[w].pc # "get", NEW v \in Workers \ {w}
  PROVE  ~Accepting(v) /\ ~Leaving(wk[v])
BY DEF Clear, Quiet, Alone

\* A step of a worker that is not about to free the connection.
LEMMA ClearMove ==
  ASSUME IInv, Clear, NEW w \in Workers, Moved(w),
         wk[w].pc \notin {"get", "free"},
         UNCHANGED <<misuse, peer, freedSends, queue, freed>>,
         s' = s \/ s' = "open",
         wk'[w].pc \notin {"error", "aerr", "aflag"},
         wk'[w].cleanup => wk'[w].pc \in {"leave", "close", "free"},
         Accepting(w)' => Accepting(w),
         Leaving(wk'[w]) => Quiet(w)'
  PROVE  Clear'
<1>1. s # "closed" /\ ~freed
  BY DEF Clear, Ended
<1>2. ASSUME NEW v \in Workers
      PROVE  /\ wk'[v].pc \notin {"error", "aerr", "aflag"}
             /\ wk'[v].cleanup => wk'[v].pc \in {"leave", "close", "free"}
             /\ Accepting(v)' => Alone(v)'
             /\ Leaving(wk'[v]) => Quiet(v)'
  <2>1. CASE v = w
    <3>1. Accepting(w)' => Alone(w)'
      BY DEF Clear, Alone, Moved
    <3> QED
      BY <2>1, <3>1
  <2>2. CASE v # w
    <3>1. wk'[v] = wk[v] /\ ~Accepting(v) /\ ~Leaving(wk[v])
      BY <2>2, OnlyOne DEF Moved
    <3>2. ~Accepting(v)'
      BY <3>1 DEF Accepting
    <3> QED
      BY <3>1, <3>2 DEF Clear
  <2> QED
    BY <2>1, <2>2
<1>3. s' # "closed" /\ ~freed'
  BY <1>1
<1> QED
  BY <1>2, <1>3 DEF Clear

\* The accept.
LEMMA AcceptClear ==
  ASSUME IInv, Clear, ~faulted', NEW w \in Workers,
         \/ Associate(w) \/ AcceptSend(w) \/ AcceptRecv(w) \/ AcceptCount(w)
         \/ AcceptFailed(w) \/ AcceptFlag(w)
  PROVE  Clear'
<1>1. wk[w].pc \notin {"aerr", "aflag"} /\ ~AcceptFailed(w) /\ ~AcceptFlag(w)
  BY DEF Clear, AcceptFailed, AcceptFlag
<1>2. PICK l \in {"asend", "asendCount", "arecvCount", "arecv", "get"} : Goto(w, l)
  BY <1>1 DEF Associate, AcceptSend, AcceptRecv, AcceptCount, IssueSend, IssueRecv
<1>3. l \in Pcs
  BY DEF Pcs
<1>4. Moved(w) /\ wk'[w].pc = l
  BY <1>2, <1>3, GotoMoves DEF IInv
<1>5. wk[w].pc \in {"accept", "asend", "arecv", "asendCount", "arecvCount"}
  BY <1>1 DEF Associate, AcceptSend, AcceptRecv, AcceptCount
<1>6. ~wk'[w].cleanup
  BY <1>2, <1>3, <1>5, CleanupKept DEF Clear
<1>7. Accepting(w)
  BY <1>5 DEF Accepting
<1>8. ~Leaving(wk'[w])
  BY <1>4 DEF Leaving
<1>9. UNCHANGED <<misuse, peer, freedSends, queue, freed>> /\ (s' = s \/ s' = "open")
  BY <1>1 DEF Associate, AcceptSend, AcceptRecv, AcceptCount, life, sendList,
              netVars, history
<1> QED
  BY <1>4, <1>5, <1>6, <1>7, <1>8, <1>9, ClearMove

\* HandleIo, but for its end.
LEMMA HandleClear ==
  ASSUME IInv, Clear, ~faulted', NEW w \in Workers,
         \/ Enter(w) \/ DoSends(w) \/ SendCount(w) \/ RepostRecv(w)
         \/ RecvCount(w)
  PROVE  Clear'
<1>1. \/ Takes(w, {"enter"}, {"sends"}) /\ wk'[w].cleanup = wk[w].cleanup
      \/ /\ Takes(w, {"sends"}, {"sendCount", "repost", "zero", "tail", "leave"})
         /\ wk'[w].cleanup => wk[w].cleanup
      \/ Takes(w, {"sendCount"}, {"sends"}) /\ (wk'[w].cleanup => wk[w].cleanup)
      \/ /\ Takes(w, {"repost"}, {"recvCount", "tail"})
         /\ wk'[w].cleanup = wk[w].cleanup
      \/ Takes(w, {"recvCount"}, {"tail"}) /\ (wk'[w].cleanup => wk[w].cleanup)
  <2>1. CASE Enter(w) \/ RepostRecv(w)
    BY <2>1, RecordSteps
  <2>2. CASE DoSends(w)
    BY <2>2, TailSteps
  <2>3. CASE SendCount(w) \/ RecvCount(w)
    <3>1. "sends" \in Pcs /\ "tail" \in Pcs
      BY DEF Pcs
    <3> QED
      BY <2>3, <3>1, HandleSteps, CleanupKept DEF SendCount, RecvCount
  <2> QED
    BY <2>1, <2>2, <2>3
<1>2. /\ Moved(w) /\ ~wk[w].cleanup /\ ~wk'[w].cleanup
      /\ wk[w].pc \notin {"get", "free"}
      /\ wk'[w].pc \in {"sends", "sendCount", "repost", "zero", "tail", "leave",
                        "recvCount"}
  BY <1>1 DEF Takes, Clear
<1>3. ~Accepting(w)' /\ ~Leaving(wk'[w])
  BY <1>2 DEF Accepting, Leaving
<1>4. UNCHANGED <<misuse, peer, freedSends, queue, freed>> /\ s' = s
  BY DEF Enter, DoSends, SendCount, RepostRecv, RecvCount, life, sendList,
         netVars, history
<1> QED
  BY <1>2, <1>3, <1>4, ClearMove

\* At the end of HandleIo the operation in hand is counted, and when it is the
\* only one nothing else is left.
LEMMA HandCounted ==
  ASSUME IInv, Clear, NEW w \in Workers, wk[w].pc \in {"zero", "tail"}
  PROVE  /\ OutstandingOps # 0
         /\ OutstandingOps = 1 =>
              recvs = <<>> /\ sends = {} /\ queue = {} /\ Alone(w)
<1>1. \A v \in Workers \ {w} : wk[v].pc \notin LockPcs
  BY SoleOwner DEF IInv, LockPcs
<1>2. Uncounted = {}
  <2> SUFFICES ASSUME NEW v \in Workers,
                      wk[v].pc \in {"asendCount", "arecvCount", "sendCount",
                                    "recvCount"}
               PROVE  FALSE
    BY DEF Uncounted
  <2>1. v # w /\ wk[v].pc \notin LockPcs
    BY <1>1
  <2>2. ~Accepting(v)
    BY <2>1, OnlyOne
  <2> QED
    BY <2>1, <2>2 DEF LockPcs, Accepting
<1>3. w \in InHand
  BY DEF InHand
<1>4. /\ IsFiniteSet(InHand) /\ IsFiniteSet(sends) /\ IsFiniteSet(OpPackets(queue))
      /\ recvs \in Seq(Nat)
  <2>1. InHand \subseteq Workers /\ OpPackets(queue) \subseteq queue
    BY DEF InHand, OpPackets
  <2> QED
    BY <2>1, Nulls, FS_Subset, Types DEF IInv, CountInv
<1> DEFINE cs == Cardinality(sends)
           cq == Cardinality(OpPackets(queue))
           lr == Len(recvs)
           ch == Cardinality(InHand)
           ce == Cardinality(InHand \ {w})
<1>5. OutstandingOps = lr + cs + ch + cq
  <2>1. OutstandingOps + Cardinality(Uncounted) = lr + cs + ch + cq
    BY DEF IInv, CountInv, OpsCounted, OpPackets
  <2>2. Cardinality({}) = 0 /\ OutstandingOps \in Int
    BY FS_EmptySet, Types DEF IInv
  <2> HIDE DEF lr, cs, ch, cq
  <2> QED
    BY <1>2, <2>1, <2>2
<1>6. /\ cs \in Nat /\ cq \in Nat /\ lr \in Nat /\ ce \in Nat /\ ch = ce + 1
  <2>1. /\ cs \in Nat /\ cq \in Nat /\ lr \in Nat
    BY <1>4, FS_CardinalityType, SeqFacts
  <2>2. /\ IsFiniteSet(InHand \ {w})
        /\ Cardinality(InHand \ {w}) = Cardinality(InHand) - 1
    BY <1>3, <1>4, FS_RemoveElement
  <2>3. ce \in Nat /\ ch \in Nat
    BY <1>4, <2>2, FS_CardinalityType
  <2> QED
    BY <2>1, <2>2, <2>3
<1>7. /\ OutstandingOps # 0
      /\ OutstandingOps = 1 => lr = 0 /\ cs = 0 /\ cq = 0 /\ ce = 0
  <2> HIDE DEF lr, cs, ch, cq, ce
  <2> QED
    BY <1>5, <1>6
<1>8. ASSUME OutstandingOps = 1
      PROVE  recvs = <<>> /\ sends = {} /\ queue = {} /\ Alone(w)
  <2>1. recvs = <<>> /\ sends = {} /\ OpPackets(queue) = {} /\ InHand \ {w} = {}
    <3>1. IsFiniteSet(InHand \ {w})
      BY <1>3, <1>4, FS_RemoveElement
    <3> QED
      BY <1>4, <1>7, <1>8, <3>1, FS_EmptySet, SeqFacts
  <2>2. queue = {}
    <3>1. ~Starting(queue, wk, arrived)
      BY Started DEF IInv, StartPcs
    <3> QED
      BY <2>1, <3>1 DEF Starting, OpPackets
  <2>3. Alone(w)
    <3> SUFFICES ASSUME NEW v \in Workers \ {w} PROVE wk[v].pc = "get"
      BY DEF Alone
    <3>1. v \notin InHand /\ wk[v].pc \notin LockPcs
      BY <1>1, <2>1
    <3>2. ~Accepting(v) /\ ~Leaving(wk[v])
      BY OnlyOne
    <3>3. wk[v].pc \in Pcs
      BY WorkerFacts DEF IInv
    <3> QED
      BY <3>1, <3>2, <3>3 DEF InHand, LockPcs, Accepting, Leaving, Pcs
  <2> QED
    BY <2>1, <2>2, <2>3
<1> QED
  BY <1>7, <1>8

\* The end of HandleIo.
LEMMA EndClear ==
  ASSUME IInv, Clear, ~faulted', NEW w \in Workers,
         ZeroTest(w) \/ HandleIoTail(w) \/ Leave(w)
  PROVE  Clear'
<1>1. /\ UNCHANGED <<misuse, peer, freedSends, queue, freed, recvs, sends>>
      /\ s' = s
  BY DEF ZeroTest, HandleIoTail, Leave, life, sendList, recvVars, sendVars,
         netVars, history
<1>2. CASE ZeroTest(w)
  <2>1. /\ Takes(w, {"zero"}, {"tail"}) /\ (wk'[w].cleanup => OutstandingOps = 0)
    BY <1>2, RecordSteps
  <2>2. ~wk'[w].cleanup
    BY <2>1, HandCounted DEF Takes
  <2>3. ~Accepting(w)' /\ ~Leaving(wk'[w])
    BY <2>1 DEF Takes, Accepting, Leaving
  <2> QED
    BY <1>1, <2>1, <2>2, <2>3, ClearMove DEF Takes
<1>3. CASE HandleIoTail(w)
  <2>1. /\ Takes(w, {"tail"}, {"leave", "sends"})
        /\ wk'[w].pc = "leave" => OutstandingOps' = 0
        /\ wk'[w].pc = "sends" => wk'[w].cleanup = wk[w].cleanup
    BY <1>3, TailSteps
  <2>2. OutstandingOps' = OutstandingOps - 1 /\ OutstandingOps \in Int
    BY <1>3, Types DEF HandleIoTail, IInv
  <2>3. ASSUME Leaving(wk'[w]) PROVE Quiet(w)'
    <3>1. OutstandingOps = 1 /\ OutstandingOps' = 0
      BY <2>1, <2>2, <2>3 DEF Takes, Leaving
    <3>2. recvs = <<>> /\ sends = {} /\ queue = {} /\ Alone(w)
      BY <2>1, <3>1, HandCounted DEF Takes
    <3>3. Alone(w)'
      BY <2>1, <3>2 DEF Alone, Takes, Moved
    <3> QED
      BY <1>1, <3>1, <3>2, <3>3 DEF Quiet
  <2>4. wk'[w].cleanup => wk'[w].pc = "leave"
    BY <2>1 DEF Takes, Clear
  <2>5. ~Accepting(w)'
    BY <2>1 DEF Takes, Accepting
  <2> QED
    BY <1>1, <2>1, <2>3, <2>4, <2>5, ClearMove DEF Takes
<1>4. CASE Leave(w)
  <2>1. Takes(w, {"leave"}, {"close", "get"})
    BY <1>4, HandleSteps
  <2> DEFINE l == IF wk[w].cleanup THEN "close" ELSE "get"
  <2>2. Goto(w, l) /\ l \in Pcs /\ OutstandingOps' = OutstandingOps
    BY <1>4 DEF Leave, Pcs
  <2>3. wk'[w].pc = l /\ (wk'[w].cleanup => l # "get")
    <3> HIDE DEF l
    <3> QED
      BY <2>2, GotoMoves, CleanupKept DEF IInv
  <2>4. ASSUME Leaving(wk'[w]) PROVE Quiet(w)'
    <3>1. Leaving(wk[w])
      BY <2>1, <2>3, <2>4 DEF Leaving, Takes
    <3>2. Quiet(w)
      BY <3>1 DEF Clear
    <3>3. Alone(w)'
      BY <2>1, <3>2 DEF Alone, Quiet, Takes, Moved
    <3> QED
      BY <1>1, <2>2, <3>2, <3>3 DEF Quiet
  <2>5. ~Accepting(w)'
    BY <2>1 DEF Takes, Accepting
  <2>6. wk'[w].cleanup => wk'[w].pc = "close"
    BY <2>3
  <2> QED
    BY <1>1, <2>1, <2>4, <2>5, <2>6, ClearMove DEF Takes
<1> QED
  BY <1>2, <1>3, <1>4

\* The end of the connection.
LEMMA FreeClear ==
  ASSUME IInv, Clear, NEW w \in Workers,
         CloseSocket(w) \/ FreeSocketObj(w) \/ HandleIoError(w)
  PROVE  Clear'
<1>1. ~HandleIoError(w)
  BY DEF HandleIoError, Clear
<1>2. /\ UNCHANGED <<misuse, peer, freedSends, queue, recvs, sends, arrived,
                     OutstandingOps>>
  BY <1>1 DEF CloseSocket, FreeSocketObj, sendList, recvVars, sendVars, netVars,
              history
<1>3. Takes(w, {"close"}, {"free"}) \/ Takes(w, {"free"}, {"get"})
  BY <1>1, HandleSteps
<1>4. Quiet(w)
  BY <1>3 DEF Clear, Leaving, Takes
<1>5. Alone(w)'
  BY <1>3, <1>4 DEF Alone, Quiet, Takes, Moved
<1>6. Quiet(w)'
  BY <1>2, <1>4, <1>5 DEF Quiet
<1>7. Ended'
  <2>1. arrived > 0
    <3>1. ~Starting(queue, wk, arrived)
      BY <1>3, Started DEF IInv, StartPcs, Takes
    <3>2. arrived \in Nat
      BY Types DEF IInv
    <3> QED
      BY <3>1, <3>2 DEF Starting
  <2>2. \A v \in Workers : wk'[v].pc \in {"get", "free"}
    BY <1>3, <1>5 DEF Alone, Takes
  <2> QED
    BY <1>2, <1>4, <2>1, <2>2 DEF Ended, Quiet
<1>8. freed' => \A v \in Workers : wk'[v].pc = "get"
  <2>1. CASE CloseSocket(w)
    BY <2>1 DEF CloseSocket, Clear
  <2>2. CASE FreeSocketObj(w)
    <3>1. wk'[w].pc = "get"
      BY <2>2, HandleSteps DEF Takes
    <3> QED
      BY <1>5, <3>1 DEF Alone
  <2> QED
    BY <1>1, <2>1, <2>2
<1>9. ASSUME NEW v \in Workers
      PROVE  /\ wk'[v].pc \notin {"error", "aerr", "aflag"}
             /\ wk'[v].cleanup => wk'[v].pc \in {"leave", "close", "free"}
             /\ Accepting(v)' => Alone(v)'
             /\ Leaving(wk'[v]) => Quiet(v)'
  <2>1. ~Accepting(v)' /\ wk'[v].pc \in {"get", "free"}
    BY <1>7 DEF Ended, Accepting
  <2>2. CASE v = w
    <3>1. wk'[w].pc = "get" => ~wk'[w].cleanup
      <4>1. Goto(w, wk'[w].pc) /\ wk'[w].pc \in Pcs
        BY <1>1, <1>3 DEF CloseSocket, FreeSocketObj, Takes, Pcs
      <4>2. PICK l \in Pcs : l = wk'[w].pc /\ Goto(w, l)
        BY <4>1
      <4> QED
        BY <4>2, CleanupKept
    <3> QED
      BY <1>6, <2>1, <2>2, <3>1
  <2>3. CASE v # w
    <3>1. wk'[v] = wk[v] /\ wk[v].pc = "get"
      BY <1>3, <1>4, <2>3 DEF Takes, Moved, Quiet, Alone
    <3> QED
      BY <2>1, <3>1 DEF Clear, Leaving
  <2> QED
    BY <2>2, <2>3
<1> QED
  BY <1>2, <1>7, <1>8, <1>9 DEF Clear

\* A packet is dequeued.
LEMMA DequeueClear ==
  ASSUME IInv, OpenInv, NEW w \in Workers, NEW p \in queue, Dequeue(w, p)
  PROVE  OpenInv' /\ (Clear /\ ~early' => Clear')
<1>1. /\ UNCHANGED <<arrived, s, freed, misuse, peer, freedSends, faulted>>
      /\ queue' = queue \ {p} /\ wk[w].pc = "get"
  BY DEF Dequeue, life, sendList
<1>2. p \in PacketState
  BY Types DEF IInv
<1>3. /\ Moved(w) /\ ~wk'[w].cleanup
      /\ p.op = "accept" => wk'[w].pc = "accept"
      /\ p.op # "accept" /\ p.ok => wk'[w].pc = "enter"
  <2> DEFINE l == IF p.op = "accept" THEN "accept"
                  ELSE IF p.ok THEN "enter" ELSE "error"
             r == [Idle EXCEPT !.op = p.op, !.k = p.k, !.pc = l]
  <2>1. Become(w, r)
    BY DEF Dequeue
  <2>2. /\ l \in Pcs /\ (p.op = "accept" => l = "accept")
        /\ (p.op # "accept" /\ p.ok => l = "enter")
    BY DEF Pcs
  <2>3. p.k \in Nat /\ p.op \in Ops
    BY <1>2 DEF PacketState, Ops
  <2> HIDE DEF l
  <2>4. r \in WorkerState /\ r.pc = l /\ r.cleanup = FALSE
    BY <2>2, <2>3, IdleFacts DEF WorkerState, Idle
  <2> HIDE DEF r
  <2>5. Moved(w) /\ wk'[w] = r
    BY <2>1, <2>4, BecomeMoves DEF IInv
  <2> QED
    BY <2>2, <2>4, <2>5
<1>4. ASSUME Starting(queue, wk, arrived)
      PROVE  p.op = "accept" /\ \A v \in Workers : wk[v].pc = "get"
  <2>1. p = Packet("accept", 0, TRUE) /\ \A v \in Workers : wk[v].pc = "get"
    BY <1>4 DEF IInv, StartInv
  <2> QED
    BY <2>1 DEF Packet
<1>5. OpenInv'
  <2>1. CASE s = "none"
    <3>1. Starting(queue, wk, arrived)
      BY <2>1 DEF OpenInv, Starting
    <3> QED
      BY <1>3, <1>4, <3>1 DEF OpenInv
  <2>2. CASE s # "none"
    BY <1>1, <2>2 DEF OpenInv
  <2> QED
    BY <2>1, <2>2
<1>6. ASSUME Clear, ~early' PROVE Clear'
  <2>1. \A v \in Workers : ~Accepting(v) /\ ~Leaving(wk[v])
    BY <1>6 DEF Dequeue, Clear, Quiet
  <2>2. s' # "closed" /\ ~freed'
    BY <1>1, <1>6 DEF Clear, Ended
  <2>3. wk'[w].pc \in {"accept", "enter"} /\ ~Leaving(wk'[w])
    BY <1>3, <1>6 DEF Clear, Leaving
  <2>4. Accepting(w)' => Alone(w)'
    <3>1. CASE p.op = "accept"
      <4>1. Starting(queue, wk, arrived)
        BY <3>1 DEF Starting
      <4> QED
        BY <1>3, <1>4, <4>1 DEF Alone, Moved
    <3>2. CASE p.op # "accept"
      <4>1. wk'[w].pc = "enter"
        BY <1>3, <1>6, <3>2 DEF Clear
      <4> QED
        BY <4>1 DEF Accepting
    <3> QED
      BY <3>1, <3>2
  <2>5. ASSUME NEW v \in Workers
        PROVE  /\ wk'[v].pc \notin {"error", "aerr", "aflag"}
               /\ wk'[v].cleanup => wk'[v].pc \in {"leave", "close", "free"}
               /\ Accepting(v)' => Alone(v)'
               /\ Leaving(wk'[v]) => Quiet(v)'
    <3>1. CASE v = w
      BY <1>3, <2>3, <2>4, <3>1
    <3>2. CASE v # w
      <4>1. wk'[v] = wk[v]
        BY <1>3, <3>2 DEF Moved
      <4>2. ~Accepting(v)'
        BY <2>1, <4>1 DEF Accepting
      <4> QED
        BY <1>6, <2>1, <4>1, <4>2 DEF Clear
    <3> QED
      BY <3>1, <3>2
  <2> QED
    BY <1>1, <1>6, <2>2, <2>5 DEF Clear
<1> QED
  BY <1>5, <1>6

\* The kernel completes an operation.
LEMMA KernelClear ==
  ASSUME IInv, OpenInv, Kernel
  PROVE  OpenInv' /\ (Clear => Clear')
<1>1. /\ UNCHANGED <<s, freed, misuse, peer, freedSends, wk>>
      /\ recvs # <<>> \/ sends # {}
  BY DEF Kernel, ReceiveCompletes, SendCompletes, life, sendList, history
<1>2. s # "none"
  BY <1>1, OpenedKernel
<1>3. OpenInv'
  BY <1>1, <1>2 DEF OpenInv
<1>4. ASSUME Clear PROVE Clear'
  <2>1. s = "open" /\ ~freed /\ peer # "reset"
    <3>1. s \in {"none", "open", "closed"}
      BY Types DEF IInv
    <3> QED
      BY <1>1, <1>2, <1>4, <3>1 DEF Clear, Ended
  <2>2. \A p \in queue' : p.ok
    <3>1. CASE ReceiveCompletes
      <4>1. PICK o \in {"read", "zero"} :
              queue' = queue \cup {Packet(o, Head(recvs), TRUE)}
        BY <2>1, <3>1 DEF ReceiveCompletes
      <4> QED
        BY <1>4, <4>1 DEF Clear, Packet
    <3>2. ASSUME NEW k \in sends, SendCompletes(k) PROVE \A p \in queue' : p.ok
      <4>1. PICK b \in BOOLEAN : b /\ queue' = queue \cup {Packet("write", k, b)}
        BY <2>1, <3>2 DEF SendCompletes
      <4> QED
        BY <1>4, <4>1 DEF Clear, Packet
    <3> QED
      BY <3>1, <3>2 DEF Kernel
  <2>3. \A v \in Workers : ~Leaving(wk[v])
    BY <1>1, <1>4 DEF Clear, Quiet
  <2>4. ASSUME NEW v \in Workers PROVE Accepting(v)' => Alone(v)'
    BY <1>1, <1>4 DEF Clear, Accepting, Alone
  <2> QED
    BY <1>1, <1>4, <2>1, <2>2, <2>3, <2>4 DEF Clear
<1> QED
  BY <1>3, <1>4

\* The client connects.
LEMMA ClientConnectsClear ==
  ASSUME IInv, ClientConnects
  PROVE  OpenInv' /\ (Clear => Clear')
<1>1. /\ UNCHANGED <<s, freed, misuse, peer, freedSends, wk>> /\ arrived = 0
      /\ queue' = {Packet("accept", 0, TRUE)}
  BY DEF ClientConnects, life, sendList, history
<1>2. Packet("accept", 0, TRUE).op = "accept" /\ Packet("accept", 0, TRUE).ok
  BY DEF Packet
<1>3. OpenInv'
  BY <1>1, <1>2 DEF OpenInv
<1>4. ASSUME Clear PROVE Clear'
  <2>1. Starting(queue, wk, arrived)
    BY <1>1 DEF Starting
  <2>2. \A v \in Workers : wk[v].pc = "get"
    BY <1>1, <2>1 DEF IInv, StartInv
  <2>3. s # "closed" /\ ~freed
    BY <1>1, <1>4 DEF Clear, Ended
  <2>4. \A v \in Workers : ~Accepting(v)' /\ ~Leaving(wk'[v])
    BY <1>1, <2>2 DEF Accepting, Leaving
  <2> QED
    BY <1>1, <1>2, <1>4, <2>3, <2>4 DEF Clear
<1> QED
  BY <1>3, <1>4

\* The client leaves, freed memory is used, or nothing happens.
LEMMA ClientLeavesClear ==
  ASSUME IInv, OpenInv, ~faulted' => Clear,
         ClientCloses \/ ClientResets \/ (\E w \in Workers : UseFreed(w))
         \/ UNCHANGED vars
  PROVE  OpenInv' /\ (~faulted' => Clear')
<1>1. UNCHANGED <<s, freed, freedSends, wk, queue, recvs, sends, arrived,
                  OutstandingOps>>
  BY DEF ClientCloses, ClientResets, UseFreed, vars, life, sendList, recvVars,
         sendVars, netVars
<1>2. OpenInv'
  BY <1>1 DEF OpenInv
<1>3. ASSUME ~faulted' PROVE Clear'
  <2>1. Clear
    BY <1>3
  <2>2. ASSUME NEW w \in Workers, UseFreed(w) PROVE FALSE
    BY <2>1, <2>2 DEF UseFreed, Clear, ReadsFreedSend
  <2>3. ~misuse' /\ peer' # "reset"
    BY <1>3, <2>1, <2>2
    DEF Clear, ClientCloses, ClientResets, vars, netVars, history
  <2>4. \A v \in Workers : (Accepting(v)' => Alone(v)') /\ (Leaving(wk'[v]) => Quiet(v)')
    BY <1>1, <2>1 DEF Clear, Accepting, Alone, Quiet
  <2>5. s' = "closed" \/ freed' => Ended'
    BY <1>1, <2>1 DEF Clear, Ended
  <2> QED
    BY <1>1, <2>1, <2>3, <2>4, <2>5 DEF Clear
<1> QED
  BY <1>2, <1>3

\* A worker goes on: the socket exists from then on.
LEMMA WorkOpen ==
  ASSUME IInv, OpenInv, NEW w \in Workers, Work(w),
         ~(\E p \in queue : Dequeue(w, p)), ~UseFreed(w)
  PROVE  OpenInv'
<1>1. CASE Associate(w)
  BY <1>1 DEF Associate, OpenInv
<1>2. CASE ~Associate(w)
  <2>1. wk[w].pc \notin {"get", "accept"} /\ (s' = s \/ s' = "closed")
    BY <1>2
    DEF Work, AcceptSend, AcceptRecv, AcceptCount, AcceptFailed, AcceptFlag,
        Enter, DoSends, SendCount, RepostRecv, RecvCount, ZeroTest, HandleIoTail,
        Leave, HandleIoError, CloseSocket, FreeSocketObj, life
  <2>2. s # "none"
    BY <2>1, Opened
  <2> QED
    BY <2>1, <2>2 DEF OpenInv
<1> QED
  BY <1>1, <1>2

-----------------------------------------------------------------------------
(* The third part put together.                                            *)

\* The third invariant holds in the beginning.
LEMMA InitUseInv == Init => UseInv
<1> SUFFICES ASSUME Init PROVE UseInv
  OBVIOUS
<1>1. \A w \in Workers : wk[w].pc = "get" /\ ~wk[w].cleanup
  BY IdleFacts DEF Init
<1>2. OpenInv /\ Clear
  BY <1>1 DEF Init, OpenInv, Clear, Accepting, Leaving
<1> QED
  BY <1>2, InitIInv DEF UseInv, ClearInv

\* Every step keeps the third invariant.
LEMMA NextUseInv == UseInv /\ [Next]_vars => UseInv'
<1> SUFFICES ASSUME UseInv, [Next]_vars PROVE UseInv'
  OBVIOUS
<1>1. IInv /\ OpenInv /\ ClearInv
  BY DEF UseInv
<1>2. IInv'
  BY <1>1, NextIInv
<1>3. ~faulted' /\ ~early' => ~faulted /\ ~early
  <2>1. CASE UNCHANGED vars
    BY <2>1 DEF vars, history
  <2>2. CASE Client \/ Kernel
    BY <2>2 DEF Client, ClientConnects, ClientCloses, ClientResets, Kernel,
                ReceiveCompletes, SendCompletes, history
  <2>3. ASSUME NEW w \in Workers, Work(w)
        PROVE  ~faulted' /\ ~early' => ~faulted /\ ~early
    BY <2>3
    DEF Work, Dequeue, Associate, AcceptSend, AcceptRecv, AcceptCount,
        AcceptFailed, AcceptFlag, Enter, DoSends, SendCount, RepostRecv,
        RecvCount, ZeroTest, HandleIoTail, Leave, HandleIoError, CloseSocket,
        FreeSocketObj, UseFreed, history
  <2> QED
    BY <2>1, <2>2, <2>3 DEF Next
<1>4. ~faulted' /\ ~early' => Clear
  BY <1>1, <1>3 DEF ClearInv
<1>5. CASE \/ UNCHANGED vars \/ ClientCloses \/ ClientResets
           \/ \E w \in Workers : UseFreed(w)
  <2>1. early' = early
    BY <1>5 DEF vars, ClientCloses, ClientResets, UseFreed, history
  <2>2. CASE early
    <3>1. OpenInv'
      BY <1>1, <1>5
      DEF OpenInv, vars, ClientCloses, ClientResets, UseFreed, life, netVars
    <3> QED
      BY <1>2, <2>1, <2>2, <3>1 DEF UseInv, ClearInv
  <2>3. CASE ~early
    BY <1>1, <1>2, <1>4, <1>5, <2>1, <2>3, ClientLeavesClear DEF UseInv, ClearInv
  <2> QED
    BY <2>2, <2>3
<1>6. CASE ClientConnects
  BY <1>1, <1>2, <1>4, <1>6, ClientConnectsClear DEF UseInv, ClearInv
<1>7. CASE Kernel
  BY <1>1, <1>2, <1>4, <1>7, KernelClear DEF UseInv, ClearInv
<1>8. ASSUME NEW w \in Workers, NEW p \in queue, Dequeue(w, p) PROVE UseInv'
  BY <1>1, <1>2, <1>4, <1>8, DequeueClear DEF UseInv, ClearInv
<1>9. ASSUME NEW w \in Workers, Work(w), ~(\E p \in queue : Dequeue(w, p)),
             ~UseFreed(w)
      PROVE  UseInv'
  <2>1. OpenInv'
    BY <1>1, <1>9, WorkOpen
  <2>2. ASSUME ~faulted', ~early' PROVE Clear'
    <3>1. Clear
      BY <1>4, <2>2
    <3>2. CASE \/ Associate(w) \/ AcceptSend(w) \/ AcceptRecv(w)
               \/ AcceptCount(w) \/ AcceptFailed(w) \/ AcceptFlag(w)
      BY <1>1, <2>2, <3>1, <3>2, AcceptClear
    <3>3. CASE \/ Enter(w) \/ DoSends(w) \/ SendCount(w) \/ RepostRecv(w)
               \/ RecvCount(w)
      BY <1>1, <2>2, <3>1, <3>3, HandleClear
    <3>4. CASE ZeroTest(w) \/ HandleIoTail(w) \/ Leave(w)
      BY <1>1, <2>2, <3>1, <3>4, EndClear
    <3>5. CASE CloseSocket(w) \/ FreeSocketObj(w) \/ HandleIoError(w)
      BY <1>1, <3>1, <3>5, FreeClear
    <3> QED
      BY <1>9, <3>2, <3>3, <3>4, <3>5 DEF Work
  <2> QED
    BY <1>2, <2>1, <2>2 DEF UseInv, ClearInv
<1> QED
  BY <1>5, <1>6, <1>7, <1>8, <1>9 DEF Next, Client

\* As long as no call failed and no packet was dequeued during the accept, no
\* worker uses the SOCKET_OBJ or a send buffer after it was freed, and when the
\* SOCKET_OBJ is freed nothing of the connection is left: no operation, no
\* packet, no worker in HandleIo - although HandleIo tests OutstandingOps and
\* leaves the lock before it calls FreeSocketObj.
THEOREM NothingUsedAfterFree == Spec => []OutlivesUse
<1>1. UseInv => OutlivesUse
  <2> SUFFICES ASSUME UseInv, ~faulted, ~early
               PROVE  /\ ~misuse
                      /\ freed => recvs = <<>> /\ sends = {} /\ queue = {}
                                  /\ \A w \in Workers : wk[w].pc = "get"
    BY DEF OutlivesUse
  <2>1. Clear
    BY DEF UseInv, ClearInv
  <2> QED
    BY <2>1 DEF Clear, Ended
<1> QED
  BY <1>1, InitUseInv, NextUseInv, PTL DEF Spec
=============================================================================
