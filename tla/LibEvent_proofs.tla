--------------------------- MODULE LibEvent_proofs ---------------------------
(***************************************************************************)
(* The lists of free Conns of CLibEvent, for any number of workers, Conns  *)
(* and clients.                                                            *)
(*                                                                         *)
(* The list first: what taking the head and linking behind the tail do to  *)
(* a chain of Conns.  Then the inductive invariant, in parts: where the    *)
(* links of a worker lead, whatever has been put into its list (LinkInv);  *)
(* who uses a Conn that was handed out (UseInv); and that the rest is in   *)
(* the list (ListInv).                                                     *)
(***************************************************************************)
EXTENDS LibEvent, FiniteSetTheorems, TLAPS

-----------------------------------------------------------------------------
(* A list with its links nx, from h to t.                                  *)

\* The Conns p[0], ..., p[n], each linked to the one after it.
Chain(nx, h, t, n, p) ==
  /\ n \in Nat /\ p \in [0 .. n -> Conns]
  /\ \A i, j \in 0 .. n : p[i] = p[j] => i = j
  /\ p[0] = h /\ p[n] = t
  /\ \A i \in 0 .. n : i < n => nx[p[i]] = p[i + 1]

\* The set of the Conns in a chain.
Linked(n, p) == {p[i] : i \in 0 .. n}

\* The list from h to t has exactly the Conns in R.
IsList(nx, h, t, R) ==
  \E n \in Nat : \E p \in [0 .. n -> Conns] :
    Chain(nx, h, t, n, p) /\ R = Linked(n, p)

\* Only the links before the tail matter.
LEMMA ListFrame ==
  ASSUME NEW nx, NEW my, NEW h, NEW t, NEW R, IsList(nx, h, t, R),
         \A c \in R : c # t => my[c] = nx[c]
  PROVE  IsList(my, h, t, R)
<1>0. PICK n \in Nat : \E p \in [0 .. n -> Conns] :
        Chain(nx, h, t, n, p) /\ R = Linked(n, p)
  BY DEF IsList
<1>1. PICK p \in [0 .. n -> Conns] : Chain(nx, h, t, n, p) /\ R = Linked(n, p)
  BY <1>0
<1>2. ASSUME NEW i \in 0 .. n, i < n PROVE my[p[i]] = p[i + 1]
  <2>1. n \in 0 .. n /\ p[i] # t
    BY <1>1, <1>2 DEF Chain
  <2>2. p[i] \in R
    BY <1>1 DEF Linked
  <2>3. nx[p[i]] = p[i + 1]
    BY <1>1, <1>2 DEF Chain
  <2> QED
    BY <2>1, <2>2, <2>3
<1>3. Chain(my, h, t, n, p)
  BY <1>1, <1>2 DEF Chain
<1> QED
  BY <1>1, <1>3 DEF IsList

\* Head and tail are in the list.
LEMMA ListEnds ==
  ASSUME NEW nx, NEW h, NEW t, NEW R, IsList(nx, h, t, R)
  PROVE  h \in R /\ t \in R
<1>0. PICK n \in Nat : \E p \in [0 .. n -> Conns] :
        Chain(nx, h, t, n, p) /\ R = Linked(n, p)
  BY DEF IsList
<1>1. PICK p \in [0 .. n -> Conns] : Chain(nx, h, t, n, p) /\ R = Linked(n, p)
  BY <1>0
<1>2. 0 \in 0 .. n /\ n \in 0 .. n
  OBVIOUS
<1> QED
  BY <1>1, <1>2 DEF Chain, Linked

\* GetFreeConn takes the head of a list that has another Conn.
LEMMA ListTake ==
  ASSUME NEW nx, NEW h, NEW t, NEW R, IsList(nx, h, t, R), h # t
  PROVE  IsList(nx, nx[h], t, R \ {h})
<1>0. PICK n \in Nat : \E p \in [0 .. n -> Conns] :
        Chain(nx, h, t, n, p) /\ R = Linked(n, p)
  BY DEF IsList
<1>1. PICK p \in [0 .. n -> Conns] : Chain(nx, h, t, n, p) /\ R = Linked(n, p)
  BY <1>0
<1>2. n # 0 /\ n - 1 \in Nat
  <2>1. n # 0
    BY <1>1 DEF Chain
  <2> QED
    BY <2>1
<1> DEFINE q == [i \in 0 .. n - 1 |-> p[i + 1]]
<1>3. \A i \in 0 .. n - 1 : i + 1 \in 0 .. n /\ q[i] = p[i + 1]
  BY <1>2
<1>4. q \in [0 .. n - 1 -> Conns]
  BY <1>3
<1>5. 0 \in 0 .. n /\ nx[p[0]] = p[0 + 1] /\ p[0] = h /\ p[n] = t
  BY <1>1, <1>2 DEF Chain
<1>6. \A i, j \in 0 .. n : p[i] = p[j] => i = j
  BY <1>1 DEF Chain
<1>7. Chain(nx, nx[h], t, n - 1, q)
  <2>1. \A i, j \in 0 .. n - 1 : q[i] = q[j] => i = j
    BY <1>2, <1>3, <1>6
  <2>2. q[0] = nx[h] /\ q[n - 1] = t
    <3>1. 0 \in 0 .. n - 1 /\ n - 1 \in 0 .. n - 1 /\ (n - 1) + 1 = n
      BY <1>2
    <3>2. q[0] = p[0 + 1] /\ q[n - 1] = p[n]
      BY <1>3, <3>1
    <3> QED
      BY <1>5, <3>2
  <2>3. ASSUME NEW i \in 0 .. n - 1, i < n - 1 PROVE nx[q[i]] = q[i + 1]
    <3>1. i + 1 \in 0 .. n /\ i + 1 < n /\ i + 1 \in 0 .. n - 1
      BY <1>2, <2>3
    <3>2. nx[p[i + 1]] = p[i + 1 + 1]
      BY <1>1, <3>1 DEF Chain
    <3> QED
      BY <1>3, <3>1, <3>2
  <2> HIDE DEF q
  <2> QED
    BY <1>2, <1>4, <2>1, <2>2, <2>3 DEF Chain
<1>8. R \ {h} = Linked(n - 1, q)
  <2>1. ASSUME NEW x \in R \ {h} PROVE x \in Linked(n - 1, q)
    <3>1. PICK i \in 0 .. n : x = p[i]
      BY <1>1, <2>1 DEF Linked
    <3>2. i # 0
      BY <1>5, <2>1, <3>1
    <3>3. i - 1 \in 0 .. n - 1 /\ (i - 1) + 1 = i
      BY <3>1, <3>2
    <3>4. q[i - 1] = x
      BY <1>3, <3>1, <3>3
    <3> HIDE DEF q
    <3> QED
      BY <3>3, <3>4 DEF Linked
  <2>2. ASSUME NEW x \in Linked(n - 1, q) PROVE x \in R \ {h}
    <3>1. PICK i \in 0 .. n - 1 : x = q[i]
      BY <2>2 DEF Linked
    <3>2. i + 1 \in 0 .. n /\ x = p[i + 1] /\ i + 1 # 0
      BY <1>3, <3>1
    <3>3. p[i + 1] # p[0]
      BY <1>5, <1>6, <3>2
    <3> QED
      BY <1>1, <1>5, <3>2, <3>3 DEF Linked
  <2> QED
    BY <2>1, <2>2
<1> HIDE DEF q
<1> QED
  BY <1>2, <1>4, <1>7, <1>8 DEF IsList

\* PutFreeConn moves the tail to a Conn that the tail is linked to.
LEMMA ListPut ==
  ASSUME NEW nx, NEW h, NEW t, NEW R, IsList(nx, h, t, R),
         NEW c \in Conns, c \notin R, nx[t] = c
  PROVE  IsList(nx, h, c, R \cup {c})
<1>0. PICK n \in Nat : \E p \in [0 .. n -> Conns] :
        Chain(nx, h, t, n, p) /\ R = Linked(n, p)
  BY DEF IsList
<1>1. PICK p \in [0 .. n -> Conns] : Chain(nx, h, t, n, p) /\ R = Linked(n, p)
  BY <1>0
<1> DEFINE q == [i \in 0 .. n + 1 |-> IF i = n + 1 THEN c ELSE p[i]]
<1>2. q \in [0 .. n + 1 -> Conns]
  OBVIOUS
<1>3. q[n + 1] = c /\ \A i \in 0 .. n : i \in 0 .. n + 1 /\ q[i] = p[i]
  OBVIOUS
<1>4. \A i \in 0 .. n : p[i] # c
  BY <1>1 DEF Linked
<1>5. \A i \in 0 .. n + 1 : i = n + 1 \/ i \in 0 .. n
  OBVIOUS
<1> HIDE DEF q
<1>6. Chain(nx, h, c, n + 1, q)
  <2>1. \A i, j \in 0 .. n + 1 : q[i] = q[j] => i = j
    <3>1. \A i, j \in 0 .. n : p[i] = p[j] => i = j
      BY <1>1 DEF Chain
    <3> QED
      BY <1>3, <1>4, <1>5, <3>1
  <2>2. 0 \in 0 .. n /\ p[0] = h /\ p[n] = t /\ n \in 0 .. n
    BY <1>1 DEF Chain
  <2>3. ASSUME NEW i \in 0 .. n + 1, i < n + 1 PROVE nx[q[i]] = q[i + 1]
    <3>1. i \in 0 .. n /\ q[i] = p[i]
      BY <1>3, <2>3
    <3>2. CASE i = n
      BY <1>3, <2>2, <3>1, <3>2
    <3>3. CASE i < n
      <4>1. i + 1 \in 0 .. n /\ nx[p[i]] = p[i + 1]
        BY <1>1, <3>1, <3>3 DEF Chain
      <4> QED
        BY <1>3, <3>1, <4>1
    <3> QED
      BY <3>1, <3>2, <3>3
  <2>4. q[0] = h /\ q[n + 1] = c
    BY <1>3, <2>2
  <2> QED
    BY <1>2, <2>1, <2>3, <2>4 DEF Chain
<1>7. R \cup {c} = Linked(n + 1, q)
  <2>1. ASSUME NEW x \in R PROVE x \in Linked(n + 1, q)
    <3>1. PICK i \in 0 .. n : x = p[i]
      BY <1>1, <2>1 DEF Linked
    <3> QED
      BY <1>3, <3>1 DEF Linked
  <2>2. c \in Linked(n + 1, q)
    <3>1. n + 1 \in 0 .. n + 1
      OBVIOUS
    <3> QED
      BY <1>3, <3>1 DEF Linked
  <2>3. ASSUME NEW x \in Linked(n + 1, q) PROVE x \in R \cup {c}
    <3>1. PICK i \in 0 .. n + 1 : x = q[i]
      BY <2>3 DEF Linked
    <3> QED
      BY <1>1, <1>3, <1>5, <3>1 DEF Linked
  <2> QED
    BY <2>1, <2>2, <2>3
<1> QED
  BY <1>2, <1>6, <1>7 DEF IsList

\* A set of natural numbers has a least element.
LEMMA LeastNumber ==
  ASSUME NEW T, T \subseteq Nat, T # {}
  PROVE  \E x \in T : \A y \in T : x <= y
<1>1. PICK x \in T : \A y \in T : ~ (<<y, x>> \in OpToRel(<, Nat))
  BY NatLessThanWellFounded, WFMin
<1>2. \A y \in T : ~ (y < x)
  BY <1>1 DEF OpToRel
<1> QED
  BY <1>2

\* The list of w, followed for m links: f(k) is what k links lead to.
Walks(w, m, f) ==
  /\ f \in [0 .. m -> Conns \cup {NULL}]
  /\ \A k \in 0 .. m :
       f[k] = IF k = 0 \/ f[k - 1] = NULL
              THEN (IF k = 0 THEN head[w] ELSE NULL)
              ELSE next[f[k - 1]]

\* Links that lead to Conns can be followed any number of times.
LEMMA WalkExists ==
  ASSUME NEW w \in Workers, NEW m \in Nat,
         head[w] \in Conns, next \in [Conns -> Conns \cup {NULL}]
  PROVE  \E f : Walks(w, m, f)
<1> DEFINE T == {k \in Nat : ~ \E f : Walks(w, k, f)}
<1>1. CASE T # {}
  <2>1. PICK k \in T : \A j \in T : k <= j
    <3>1. T \subseteq Nat
      OBVIOUS
    <3> HIDE DEF T
    <3> QED
      BY <1>1, <3>1, LeastNumber
  <2>2. k \in Nat /\ ~ \E f : Walks(w, k, f)
    BY <2>1
  <2>3. CASE k = 0
    <3> DEFINE f == [i \in 0 .. 0 |-> head[w]]
    <3>1. Walks(w, 0, f)
      BY DEF Walks
    <3> QED
      BY <2>2, <2>3, <3>1
  <2>4. CASE k # 0
    <3>1. k - 1 \in Nat /\ k - 1 \notin T
      BY <2>1, <2>2, <2>4
    <3>2. PICK f : Walks(w, k - 1, f)
      BY <3>1
    <3> DEFINE x == IF f[k - 1] = NULL THEN NULL ELSE next[f[k - 1]]
               g == [i \in 0 .. k |-> IF i = k THEN x ELSE f[i]]
    <3>3. k - 1 \in 0 .. k - 1 /\ f \in [0 .. k - 1 -> Conns \cup {NULL}]
      BY <3>1, <3>2 DEF Walks
    <3>4. x \in Conns \cup {NULL}
      BY <3>3
    <3>5. \A i \in 0 .. k : i = k \/ i \in 0 .. k - 1
      BY <2>2
    <3>6. g[k] = x /\ \A i \in 0 .. k - 1 : i \in 0 .. k /\ g[i] = f[i]
      BY <2>2
    <3>7. g \in [0 .. k -> Conns \cup {NULL}]
      BY <3>3, <3>4, <3>5
    <3>8. x = IF f[k - 1] = NULL THEN NULL ELSE next[f[k - 1]]
      OBVIOUS
    <3> HIDE DEF x, g
    <3>9. ASSUME NEW i \in 0 .. k
          PROVE  g[i] = IF i = 0 \/ g[i - 1] = NULL
                        THEN (IF i = 0 THEN head[w] ELSE NULL)
                        ELSE next[g[i - 1]]
      <4>1. CASE i = k
        <5>1. i # 0 /\ g[i - 1] = f[k - 1] /\ g[i] = x
          BY <2>4, <3>3, <3>6, <4>1
        <5> QED
          BY <3>8, <5>1
      <4>2. CASE i # k
        <5>1. i \in 0 .. k - 1 /\ g[i] = f[i]
          BY <3>5, <3>6, <4>2
        <5>2. f[i] = IF i = 0 \/ f[i - 1] = NULL
                     THEN (IF i = 0 THEN head[w] ELSE NULL)
                     ELSE next[f[i - 1]]
          BY <3>2, <5>1 DEF Walks
        <5>3. i # 0 => i - 1 \in 0 .. k - 1 /\ g[i - 1] = f[i - 1]
          BY <3>6, <5>1
        <5> QED
          BY <5>1, <5>2, <5>3
      <4> QED
        BY <4>1, <4>2
    <3>10. Walks(w, k, g)
      BY <3>7, <3>9 DEF Walks
    <3> QED
      BY <2>2, <3>10
  <2> QED
    BY <2>3, <2>4
<1>2. CASE T = {}
  BY <1>2
<1> QED
  BY <1>1, <1>2

\* ListConn follows the links.
LEMMA ListConnWalks ==
  ASSUME NEW w \in Workers,
         head[w] \in Conns, next \in [Conns -> Conns \cup {NULL}]
  PROVE  \A k \in 0 .. ConnNum :
           ListConn(w)[k] = IF k = 0 \/ ListConn(w)[k - 1] = NULL
                            THEN (IF k = 0 THEN head[w] ELSE NULL)
                            ELSE next[ListConn(w)[k - 1]]
<1> DEFINE Step(f) == [n \in 0 .. ConnNum |->
                         IF n = 0 \/ f[n - 1] = NULL
                         THEN (IF n = 0 THEN head[w] ELSE NULL)
                         ELSE next[f[n - 1]]]
<1>1. PICK g : Walks(w, ConnNum, g)
  BY WalkExists, ConstantsAssumption
<1>2. g = Step(g)
  BY <1>1 DEF Walks
<1>3. ListConn(w) = CHOOSE f : f = Step(f)
  BY DEF ListConn
<1>4. ListConn(w) = Step(ListConn(w))
  <2>1. \E f : f = Step(f)
    BY <1>2
  <2> HIDE DEF Step
  <2> QED
    BY <1>3, <2>1, Zenon
<1> DEFINE at == ListConn(w)
<1>5. at = Step(at)
  BY <1>4
<1> HIDE DEF at
<1>6. \A k \in 0 .. ConnNum :
        at[k] = IF k = 0 \/ at[k - 1] = NULL
                THEN (IF k = 0 THEN head[w] ELSE NULL)
                ELSE next[at[k - 1]]
  BY <1>5
<1> QED
  BY <1>6 DEF at

\* On a list of R, ListConn reaches the tail and has then passed R, each Conn
\* of it once.
LEMMA ListConnIsList ==
  ASSUME NEW w \in Workers, NEW R, R \subseteq ConnsOf(w),
         IsList(next, head[w], tail[w], R),
         next \in [Conns -> Conns \cup {NULL}]
  PROVE  \E n \in 0 .. ConnNum :
           /\ ListConn(w)[n] = tail[w]
           /\ {ListConn(w)[i] : i \in 0 .. n} = R
           /\ Cardinality(R) = n + 1
<1>0. PICK n \in Nat : \E p \in [0 .. n -> Conns] :
        Chain(next, head[w], tail[w], n, p) /\ R = Linked(n, p)
  BY DEF IsList
<1>1. PICK p \in [0 .. n -> Conns] :
        Chain(next, head[w], tail[w], n, p) /\ R = Linked(n, p)
  BY <1>0
<1>2. Cardinality(R) = n + 1
  <2>1. p \in Bijection(0 .. n, R)
    BY <1>1 DEF Chain, Linked, Bijection, Injection, Surjection, IsInjective
  <2>2. Cardinality(0 .. n) = n + 1 /\ IsFiniteSet(0 .. n)
    BY FS_Interval
  <2> QED
    BY <2>1, <2>2, FS_Bijection DEF ExistsBijection
<1>3. n \in 0 .. ConnNum
  <2>1. IsFiniteSet({w}) /\ Cardinality({w}) = 1
    BY FS_Singleton
  <2>2. IsFiniteSet(0 .. ConnNum) /\ Cardinality(0 .. ConnNum) = ConnNum + 1
    BY ConstantsAssumption, FS_Interval
  <2>3. IsFiniteSet(ConnsOf(w)) /\ Cardinality(ConnsOf(w)) = ConnNum + 1
    <3>1. /\ IsFiniteSet({w} \X (0 .. ConnNum))
          /\ Cardinality({w} \X (0 .. ConnNum)) =
               Cardinality({w}) * Cardinality(0 .. ConnNum)
      BY <2>1, <2>2, FS_Product, Zenon
    <3> QED
      BY <2>1, <2>2, <3>1, ConstantsAssumption DEF ConnsOf
  <2>4. Cardinality(R) <= ConnNum + 1
    BY <2>3, FS_Subset
  <2> QED
    BY <1>2, <2>4, ConstantsAssumption
<1> DEFINE at == ListConn(w)
<1>4. \A k \in 0 .. ConnNum :
        at[k] = IF k = 0 \/ at[k - 1] = NULL
                THEN (IF k = 0 THEN head[w] ELSE NULL)
                ELSE next[at[k - 1]]
  <2>1. head[w] \in Conns
    BY <1>1 DEF Chain
  <2> QED
    BY <2>1, ListConnWalks
<1> HIDE DEF at
<1>5. \A i \in 0 .. n : at[i] = p[i]
  <2> DEFINE T == {i \in 0 .. n : at[i] # p[i]}
  <2>1. CASE T # {}
    <3>1. PICK i \in T : \A j \in T : i <= j
      <4>1. T \subseteq Nat
        OBVIOUS
      <4> HIDE DEF T
      <4> QED
        BY <2>1, <4>1, LeastNumber
    <3>2. i \in 0 .. n /\ i \in 0 .. ConnNum /\ at[i] # p[i]
      BY <1>3, <3>1, ConstantsAssumption
    <3>3. CASE i = 0
      <4>1. at[0] = head[w] /\ p[0] = head[w]
        BY <1>1, <1>4, <3>2, <3>3 DEF Chain
      <4> QED
        BY <3>2, <3>3, <4>1
    <3>4. CASE i # 0
      <4>1. i - 1 \in 0 .. n /\ i - 1 < n /\ i - 1 \notin T /\ (i - 1) + 1 = i
        BY <3>1, <3>2, <3>4
      <4>2. at[i - 1] = p[i - 1] /\ p[i - 1] # NULL
        BY <4>1, ConstantsAssumption
      <4>3. next[p[i - 1]] = p[i]
        BY <1>1, <4>1 DEF Chain
      <4> QED
        BY <1>4, <3>2, <3>4, <4>2, <4>3
    <3> QED
      BY <3>3, <3>4
  <2>2. CASE T = {}
    BY <2>2
  <2> QED
    BY <2>1, <2>2
<1>6. at[n] = tail[w]
  <2>1. n \in 0 .. n /\ p[n] = tail[w]
    BY <1>1 DEF Chain
  <2> QED
    BY <1>5, <2>1
<1>7. {at[i] : i \in 0 .. n} = R
  BY <1>1, <1>5 DEF Linked
<1> QED
  BY <1>2, <1>3, <1>6, <1>7 DEF at

-----------------------------------------------------------------------------
(* The inductive invariant.                                                *)

\* The places of a worker inside CloseConn, where it uses the Conn it closes.
Closing == {"disable", "close", "link", "tail"}

\* The links of a worker lead to Conns of that worker.  A link is NULL only
\* behind a tail to which nothing was ever linked, so that GetFreeConn does
\* not read past the end even when a Conn is in the list twice.
LinkInv ==
  /\ \A w \in Workers :
       /\ head[w] \in ConnsOf(w) /\ tail[w] \in ConnsOf(w)
       /\ wk[w].pc \in Closing => wk[w].c \in ConnsOf(w)
       /\ wk[w].pc = "tail" => next[tail[w]] = wk[w].c
       /\ \A c \in ConnsOf(w) :
            /\ next[c] \in ConnsOf(w) \cup {NULL}
            /\ next[c] = NULL => c = tail[w]
  /\ listener.pc = "take" => next[head[listener.w]] # NULL
  /\ listener.pc \in {"fd", "setfd", "enable"} => listener.c \in Conns

\* A Conn that a thread uses was handed out, no two threads use one Conn, and
\* a Conn in the list has no events that a socket could raise.
UseInv == ~spurious =>
  /\ \A w \in Workers :
       /\ wk[w].pc \in Closing => wk[w].c \in given /\ wk[w].c # listener.c
       /\ wk[w].pc \in Closing \ {"disable"} => ~bufev[wk[w].c].on
  /\ \A c \in Conns \ given : bufev[c].on => bufev[c].fd = NULL
  /\ listener.c # NULL => listener.c \in given
  /\ listener.pc = "take" => head[listener.w] # tail[listener.w]

\* The list of a worker has exactly its Conns that are not handed out.
ListInv == ~spurious =>
  \A w \in Workers : IsList(next, head[w], tail[w], ConnsOf(w) \ given)

IInv == TypeOK /\ LinkInv /\ UseInv /\ ListInv

-----------------------------------------------------------------------------
(* Types.                                                                  *)

ListenerState ==
  [pc : {"loop", "test", "take", "fd", "setfd", "enable", "ended"},
   k : Clients \cup {NULL}, w : Workers, c : Conns \cup {NULL}]

WorkerState ==
  [pc : {"loop", "disable", "close", "link", "tail", "hung", "ended"},
   c : Conns \cup {NULL}]

\* Every worker has Conns, and they are Conns.
LEMMA ConnFacts ==
  ASSUME NEW w \in Workers
  PROVE  /\ ConnsOf(w) \subseteq Conns
         /\ \A c \in ConnsOf(w) : c # NULL
         /\ \A v \in Workers : v # w => ConnsOf(v) \cap ConnsOf(w) = {}
BY ConstantsAssumption DEF ConnsOf, Conns

\* The worker that a Conn belongs to.
LEMMA ConnHasWorker ==
  ASSUME NEW c \in Conns
  PROVE  \E w \in Workers : c \in ConnsOf(w)
BY DEF Conns, ConnsOf

\* A thread that only moves on keeps its type.
LEMMA ListenerMoves ==
  ASSUME listener \in ListenerState,
         NEW l \in {"loop", "test", "take", "fd", "setfd", "enable", "ended"},
         ListenerAt(l)
  PROVE  /\ listener' \in ListenerState
         /\ listener'.pc = l /\ listener'.w = listener.w
         /\ listener'.c = listener.c /\ listener'.k = listener.k
BY DEF ListenerAt, ListenerState

LEMMA WorkerMoves ==
  ASSUME wk \in [Workers -> WorkerState], NEW w \in Workers,
         NEW l \in {"loop", "disable", "close", "link", "tail", "hung", "ended"},
         WorkerAt(w, l)
  PROVE  /\ wk' \in [Workers -> WorkerState]
         /\ wk'[w].pc = l /\ wk'[w].c = wk[w].c
         /\ \A v \in Workers : v # w => wk'[v] = wk[v]
BY DEF WorkerAt, WorkerState

\* A worker that begins or ends a callback.
LEMMA WorkerSets ==
  ASSUME wk \in [Workers -> WorkerState], NEW w \in Workers,
         NEW l \in {"loop", "disable", "close", "link", "tail", "hung", "ended"},
         NEW c \in Conns \cup {NULL},
         wk' = [wk EXCEPT ![w] = [pc |-> l, c |-> c]]
  PROVE  /\ wk' \in [Workers -> WorkerState]
         /\ wk'[w].pc = l /\ wk'[w].c = c
         /\ \A v \in Workers : v # w => wk'[v] = wk[v]
BY DEF WorkerState

\* What a callback finds, and how it begins to close a Conn.
LEMMA CloseBegins ==
  ASSUME NEW w \in Workers, NEW c \in Conns, BeginClose(w, c), spurious \in BOOLEAN
  PROVE  /\ spurious' \in BOOLEAN
         /\ ~spurious' => ~spurious /\ bufev[c].fd # NULL /\ listener.c # c
<1>1. spurious' = (spurious \/ bufev[c].fd = NULL \/ listener.c = c)
  BY DEF BeginClose
<1> QED
  BY <1>1, Zenon

LEMMA TypeParts ==
  TypeOK <=>
    /\ head \in [Workers -> Conns] /\ tail \in [Workers -> Conns]
    /\ next \in [Conns -> Conns \cup {NULL}]
    /\ fd \in [Conns -> Clients \cup {NULL}]
    /\ bufev \in [Conns -> [on : BOOLEAN, fd : Clients \cup {NULL}]]
    /\ partial \in [Conns -> BOOLEAN]
    /\ sock \in [Clients -> {"away", "open", "gone", "leaked", "closed"}]
    /\ nCurrentWorker \in Workers
    /\ listener \in ListenerState /\ wk \in [Workers -> WorkerState]
    /\ owner \in [pc : {"running", "listener", "worker", "stopped"}, i : Workers]
    /\ given \subseteq Conns /\ spurious \in BOOLEAN
BY DEF TypeOK, ListenerState, WorkerState

LEMMA TypePartsPrime ==
  TypeOK' <=>
    /\ head' \in [Workers -> Conns] /\ tail' \in [Workers -> Conns]
    /\ next' \in [Conns -> Conns \cup {NULL}]
    /\ fd' \in [Conns -> Clients \cup {NULL}]
    /\ bufev' \in [Conns -> [on : BOOLEAN, fd : Clients \cup {NULL}]]
    /\ partial' \in [Conns -> BOOLEAN]
    /\ sock' \in [Clients -> {"away", "open", "gone", "leaked", "closed"}]
    /\ nCurrentWorker' \in Workers
    /\ listener' \in ListenerState /\ wk' \in [Workers -> WorkerState]
    /\ owner' \in [pc : {"running", "listener", "worker", "stopped"}, i : Workers]
    /\ given' \subseteq Conns /\ spurious' \in BOOLEAN
BY DEF TypeOK, ListenerState, WorkerState

\* No client's action changes a type.
LEMMA ClientTypes ==
  ASSUME TypeOK, NEW k \in Clients, ClientGoes(k)
  PROVE  TypeOK'
BY TypeParts, TypePartsPrime DEF ClientGoes, listVars, connVars

\* What the listening thread writes has its type.
LEMMA ListenTypes ==
  ASSUME TypeOK, LinkInv, Listen
  PROVE  TypeOK'
<1> USE TypeParts
<1>1. ASSUME NEW k \in Clients, DoAccept(k) PROVE TypeOK'
  <2>1. nCurrentWorker' \in Workers
    BY <1>1, ConstantsAssumption DEF DoAccept, Workers
  <2>2. listener' \in ListenerState
    BY <1>1 DEF DoAccept, ListenerState
  <2>3. sock' \in [Clients -> {"away", "open", "gone", "leaked", "closed"}]
    BY <1>1 DEF DoAccept
  <2> QED
    BY <1>1, <2>1, <2>2, <2>3, TypePartsPrime DEF DoAccept, listVars, connVars
<1>2. CASE TestFreeConn
  <2>1. listener' \in ListenerState
    <3>1. CASE ListenerAt("take")
      BY <3>1, ListenerMoves
    <3>2. CASE listener' = [listener EXCEPT !.pc = "loop", !.k = NULL]
      BY <3>2 DEF ListenerState
    <3> QED
      BY <1>2, <3>1, <3>2 DEF TestFreeConn
  <2>2. sock' \in [Clients -> {"away", "open", "gone", "leaked", "closed"}]
    BY <1>2 DEF TestFreeConn
  <2> QED
    BY <1>2, <2>1, <2>2, TypePartsPrime DEF TestFreeConn, listVars, connVars
<1>3. CASE TakeFreeConn
  <2> DEFINE c == head[listener.w]
  <2>1. listener.w \in Workers /\ c \in Conns
    BY DEF ListenerState
  <2>2. next[c] \in Conns
    <3>1. next[c] # NULL
      BY <1>3 DEF TakeFreeConn, LinkInv
    <3> QED
      BY <2>1, <3>1
  <2>3. listener' \in ListenerState
    <3>1. listener' = [listener EXCEPT !.pc = "fd", !.c = c]
      BY <1>3 DEF TakeFreeConn
    <3> HIDE DEF c
    <3> QED
      BY <2>1, <3>1 DEF ListenerState
  <2>4. head' \in [Workers -> Conns] /\ given' \subseteq Conns
    BY <1>3, <2>1, <2>2 DEF TakeFreeConn
  <2> QED
    BY <1>3, <2>3, <2>4, TypePartsPrime DEF TakeFreeConn, connVars
<1>4. CASE SetConnFd
  <2>1. fd' \in [Conns -> Clients \cup {NULL}]
    <3>1. listener.k \in Clients \cup {NULL}
      BY DEF ListenerState
    <3> QED
      BY <1>4, <3>1 DEF SetConnFd
  <2>2. listener' \in ListenerState
    BY <1>4, ListenerMoves DEF SetConnFd
  <2> QED
    BY <1>4, <2>1, <2>2, TypePartsPrime DEF SetConnFd, listVars
<1>5. CASE BuffereventSetfd
  <2>1. listener.c \in Conns
    BY <1>5 DEF BuffereventSetfd, LinkInv
  <2>2. bufev' \in [Conns -> [on : BOOLEAN, fd : Clients \cup {NULL}]]
    BY <1>5, <2>1 DEF BuffereventSetfd
  <2>3. listener' \in ListenerState
    BY <1>5, ListenerMoves DEF BuffereventSetfd
  <2> QED
    BY <1>5, <2>2, <2>3, TypePartsPrime DEF BuffereventSetfd, listVars
<1>6. CASE EnableConn
  <2>1. listener.c \in Conns
    BY <1>6 DEF EnableConn, LinkInv
  <2>2. bufev' \in [Conns -> [on : BOOLEAN, fd : Clients \cup {NULL}]]
    BY <1>6, <2>1 DEF EnableConn
  <2>3. listener' \in ListenerState
    BY <1>6 DEF EnableConn, ListenerState
  <2> QED
    BY <1>6, <2>2, <2>3, TypePartsPrime DEF EnableConn, listVars
<1>7. CASE ListenerExits
  <2>1. listener' \in ListenerState
    BY <1>7, ListenerMoves DEF ListenerExits
  <2> QED
    BY <1>7, <2>1, TypePartsPrime DEF ListenerExits, listVars, connVars
<1> QED
  BY <1>1, <1>2, <1>3, <1>4, <1>5, <1>6, <1>7 DEF Listen, Accepting

\* What a worker writes has its type.
LEMMA WorkTypes ==
  ASSUME TypeOK, LinkInv, NEW w \in Workers, Work(w)
  PROVE  TypeOK'
<1> USE TypeParts
<1>1. ASSUME NEW c \in Conns, BeginClose(w, c)
      PROVE  wk' \in [Workers -> WorkerState] /\ spurious' \in BOOLEAN
  BY <1>1, WorkerSets, CloseBegins DEF BeginClose
<1>2. ASSUME NEW c \in Conns, DoRead(w, c) PROVE TypeOK'
  <2>1. wk' \in [Workers -> WorkerState] /\ spurious' \in BOOLEAN
    <3>1. CASE BeginClose(w, c)
      BY <1>1, <3>1
    <3>2. CASE UNCHANGED <<wk, spurious>>
      BY <3>2
    <3>3. CASE wk' = [wk EXCEPT ![w] = [pc |-> "hung", c |-> c]] /\ UNCHANGED spurious
      BY <3>3, WorkerSets
    <3> QED
      BY <1>2, <3>1, <3>2, <3>3 DEF DoRead
  <2>2. partial' \in [Conns -> BOOLEAN]
    BY <1>2 DEF DoRead
  <2> QED
    BY <1>2, <2>1, <2>2, TypePartsPrime DEF DoRead, listVars
<1>3. ASSUME NEW c \in Conns, DoError(w, c) PROVE TypeOK'
  <2>1. wk' \in [Workers -> WorkerState] /\ spurious' \in BOOLEAN
    BY <1>1, <1>3 DEF DoError
  <2> QED
    BY <1>3, <2>1, TypePartsPrime DEF DoError, listVars, connVars
<1>4. ASSUME NEW c \in Conns, DoErrorUnused(w, c) PROVE TypeOK'
  <2>1. wk' \in [Workers -> WorkerState] /\ spurious' \in BOOLEAN
    BY <1>1, <1>4 DEF DoErrorUnused
  <2> QED
    BY <1>4, <2>1, TypePartsPrime DEF DoErrorUnused, listVars, connVars
<1>5. wk[w].pc \in Closing => wk[w].c \in Conns
  BY ConnFacts DEF LinkInv
<1>6. CASE DisableConn(w)
  <2>1. wk[w].c \in Conns
    BY <1>5, <1>6 DEF DisableConn, Closing
  <2>2. bufev' \in [Conns -> [on : BOOLEAN, fd : Clients \cup {NULL}]]
    BY <1>6, <2>1 DEF DisableConn
  <2>3. partial' \in [Conns -> BOOLEAN] /\ wk' \in [Workers -> WorkerState]
    BY <1>6, WorkerMoves DEF DisableConn
  <2> QED
    BY <1>6, <2>2, <2>3, TypePartsPrime DEF DisableConn, listVars
<1>7. CASE CloseSocket(w)
  <2>1. sock' \in [Clients -> {"away", "open", "gone", "leaked", "closed"}]
    BY <1>7 DEF CloseSocket
  <2>2. wk' \in [Workers -> WorkerState]
    BY <1>7, WorkerMoves DEF CloseSocket
  <2> QED
    BY <1>7, <2>1, <2>2, TypePartsPrime DEF CloseSocket, listVars, connVars
<1>8. CASE LinkConn(w)
  <2>1. wk[w].c \in Conns
    BY <1>5, <1>8 DEF LinkConn, Closing
  <2>2. next' \in [Conns -> Conns \cup {NULL}] /\ wk' \in [Workers -> WorkerState]
    BY <1>8, <2>1, WorkerMoves DEF LinkConn
  <2> QED
    BY <1>8, <2>2, TypePartsPrime DEF LinkConn, connVars
<1>9. CASE MoveTail(w)
  <2>1. wk[w].c \in Conns
    BY <1>5, <1>9 DEF MoveTail, Closing
  <2>2. wk' \in [Workers -> WorkerState]
    BY <1>9, WorkerSets DEF MoveTail
  <2>3. tail' \in [Workers -> Conns] /\ given' \subseteq Conns
    BY <1>9, <2>1 DEF MoveTail
  <2> QED
    BY <1>9, <2>2, <2>3, TypePartsPrime DEF MoveTail, connVars
<1>10. CASE LoopEnds(w) \/ WorkerExits(w)
  <2>1. wk' \in [Workers -> WorkerState]
    BY <1>10, WorkerMoves DEF LoopEnds, WorkerExits
  <2> QED
    BY <1>10, <2>1, TypePartsPrime DEF LoopEnds, WorkerExits, listVars, connVars
<1> QED
  BY <1>2, <1>3, <1>4, <1>6, <1>7, <1>8, <1>9, <1>10 DEF Work, CloseConn

\* What StopServer writes has its type.
LEMMA StopTypes ==
  ASSUME TypeOK, Stop
  PROVE  TypeOK'
<1> USE TypeParts
<1>1. CASE StopServer \/ ListenerJoined
  <2>1. owner' \in [pc : {"running", "listener", "worker", "stopped"}, i : Workers]
    BY <1>1, ConstantsAssumption DEF StopServer, ListenerJoined, Workers
  <2> QED
    BY <1>1, <2>1, TypePartsPrime DEF StopServer, ListenerJoined, listVars, connVars
<1>2. ASSUME NEW w \in Workers, WorkerJoined(w) PROVE TypeOK'
  <2>1. w + 1 < WorkerNum => w + 1 \in Workers
    BY ConstantsAssumption DEF Workers
  <2>2. owner' \in [pc : {"running", "listener", "worker", "stopped"}, i : Workers]
    BY <1>2, <2>1 DEF WorkerJoined
  <2>3. sock' \in [Clients -> {"away", "open", "gone", "leaked", "closed"}]
    BY <1>2 DEF WorkerJoined
  <2> QED
    BY <1>2, <2>2, <2>3, TypePartsPrime DEF WorkerJoined, listVars, connVars
<1> QED
  BY <1>1, <1>2 DEF Stop

-----------------------------------------------------------------------------
(* Where the links lead.                                                   *)

\* The part of LinkInv that is about the worker w.
LinksOf(w) ==
  /\ head[w] \in ConnsOf(w) /\ tail[w] \in ConnsOf(w)
  /\ wk[w].pc \in Closing => wk[w].c \in ConnsOf(w)
  /\ wk[w].pc = "tail" => next[tail[w]] = wk[w].c
  /\ \A c \in ConnsOf(w) :
       /\ next[c] \in ConnsOf(w) \cup {NULL}
       /\ next[c] = NULL => c = tail[w]

LEMMA LinkParts ==
  LinkInv <=> /\ \A w \in Workers : LinksOf(w)
              /\ listener.pc = "take" => next[head[listener.w]] # NULL
              /\ listener.pc \in {"fd", "setfd", "enable"} => listener.c \in Conns
BY DEF LinkInv, LinksOf

LEMMA LinkPartsPrime ==
  LinkInv' <=> /\ \A w \in Workers : LinksOf(w)'
               /\ listener'.pc = "take" => next'[head'[listener'.w]] # NULL
               /\ listener'.pc \in {"fd", "setfd", "enable"} => listener'.c \in Conns
BY DEF LinkInv, LinksOf

\* Steps that touch neither the lists nor the workers.
LEMMA LinksFrame ==
  ASSUME NEW w \in Workers, LinksOf(w), UNCHANGED <<listVars, wk>>
  PROVE  LinksOf(w)'
BY DEF LinksOf, listVars

\* The listening thread follows links that GetFreeConn found to lead on.
LEMMA ListenLinks ==
  ASSUME TypeOK, LinkInv, Listen
  PROVE  LinkInv'
<1> USE TypeParts, LinkParts, LinkPartsPrime
<1>1. ASSUME NEW k \in Clients, DoAccept(k) PROVE LinkInv'
  <2>1. listener'.pc = "test" /\ UNCHANGED <<listVars, wk>>
    BY <1>1 DEF DoAccept
  <2> QED
    BY <2>1, LinksFrame
<1>2. CASE TestFreeConn
  <2>1. UNCHANGED <<listVars, wk>>
    BY <1>2 DEF TestFreeConn
  <2>2. CASE head[listener.w] # tail[listener.w]
    <3>1. listener'.pc = "take" /\ listener'.w = listener.w
      BY <1>2, <2>2, ListenerMoves DEF TestFreeConn
    <3>2. listener.w \in Workers
      BY DEF ListenerState
    <3>3. next[head[listener.w]] # NULL
      BY <2>2, <3>2 DEF LinksOf
    <3>4. next'[head'[listener'.w]] # NULL
      BY <2>1, <3>1, <3>3 DEF listVars
    <3> QED
      BY <2>1, <3>1, <3>4, LinksFrame
  <2>3. CASE ~ (head[listener.w] # tail[listener.w])
    <3>1. listener'.pc = "loop"
      BY <1>2, <2>3 DEF TestFreeConn, ListenerState
    <3> QED
      BY <2>1, <3>1, LinksFrame
  <2> QED
    BY <2>2, <2>3
<1>3. CASE TakeFreeConn
  <2> DEFINE v == listener.w
             c == head[v]
  <2>1. v \in Workers /\ c \in ConnsOf(v) /\ c \in Conns
    BY ConnFacts DEF ListenerState, LinksOf
  <2>2. next[c] \in ConnsOf(v)
    <3>1. next[c] # NULL
      BY <1>3 DEF TakeFreeConn
    <3> QED
      BY <2>1, <3>1 DEF LinksOf
  <2>3. listener' = [listener EXCEPT !.pc = "fd", !.c = c]
    BY <1>3 DEF TakeFreeConn
  <2>4. head' = [head EXCEPT ![v] = next[c]] /\ UNCHANGED <<tail, next, wk>>
    BY <1>3 DEF TakeFreeConn
  <2> HIDE DEF v, c
  <2>5. listener'.pc = "fd" /\ listener'.c = c
    BY <2>3 DEF ListenerState
  <2>6. ASSUME NEW w \in Workers PROVE LinksOf(w)'
    <3>1. head'[w] \in ConnsOf(w)
      BY <2>1, <2>2, <2>4 DEF LinksOf
    <3> QED
      BY <2>4, <3>1 DEF LinksOf
  <2> QED
    BY <2>1, <2>5, <2>6
<1>4. CASE SetConnFd \/ BuffereventSetfd
  <2>1. listener'.pc \in {"setfd", "enable"} /\ listener'.c = listener.c
    BY <1>4, ListenerMoves DEF SetConnFd, BuffereventSetfd
  <2>2. listener.c \in Conns /\ UNCHANGED <<listVars, wk>>
    BY <1>4 DEF SetConnFd, BuffereventSetfd
  <2> QED
    BY <2>1, <2>2, LinksFrame
<1>5. CASE EnableConn \/ ListenerExits
  <2>1. listener'.pc \in {"loop", "ended"}
    BY <1>5, ListenerMoves DEF EnableConn, ListenerExits, ListenerState
  <2>2. UNCHANGED <<listVars, wk>>
    BY <1>5 DEF EnableConn, ListenerExits
  <2> QED
    BY <2>1, <2>2, LinksFrame
<1> QED
  BY <1>1, <1>2, <1>3, <1>4, <1>5 DEF Listen, Accepting

\* A worker of which only the place changed, or that took hold of a Conn of
\* its own.
LEMMA WorkLinksFrame ==
  ASSUME TypeOK, LinkInv, NEW w \in Workers, UNCHANGED <<listVars, listener>>,
         \A v \in Workers : v # w => wk'[v] = wk[v],
         wk'[w].pc \in Closing => wk'[w].c \in ConnsOf(w),
         wk'[w].pc # "tail"
  PROVE  LinkInv'
<1>1. ASSUME NEW v \in Workers PROVE LinksOf(v)'
  <2>1. LinksOf(v)
    BY LinkParts
  <2>2. UNCHANGED <<head, tail, next>>
    BY DEF listVars
  <2>3. CASE v = w
    BY <2>1, <2>2, <2>3 DEF LinksOf
  <2>4. CASE v # w
    BY <2>1, <2>2, <2>4 DEF LinksOf
  <2> QED
    BY <2>3, <2>4
<1> QED
  BY <1>1, LinkParts, LinkPartsPrime DEF listVars

\* PutFreeConn links Conns of its worker only, and to the tail before it
\* moves the tail.
LEMMA WorkLinks ==
  ASSUME TypeOK, LinkInv, NEW w \in Workers, Work(w)
  PROVE  LinkInv'
<1> USE TypeParts
<1>1. ASSUME NEW c \in Conns, DoRead(w, c) \/ DoError(w, c) \/ DoErrorUnused(w, c)
      PROVE  LinkInv'
  <2>1. c \in ConnsOf(w) /\ UNCHANGED <<listVars, listener>> /\ wk[w].pc = "loop"
    BY <1>1 DEF DoRead, DoError, DoErrorUnused
  <2>2. \/ UNCHANGED wk
        \/ wk' = [wk EXCEPT ![w] = [pc |-> "disable", c |-> c]]
        \/ wk' = [wk EXCEPT ![w] = [pc |-> "hung", c |-> c]]
    BY <1>1 DEF DoRead, DoError, DoErrorUnused, BeginClose
  <2>3. CASE UNCHANGED wk
    BY <2>1, <2>3, WorkLinksFrame DEF Closing
  <2>4. CASE wk' = [wk EXCEPT ![w] = [pc |-> "disable", c |-> c]]
    <3>1. /\ wk'[w].pc = "disable" /\ wk'[w].c = c
          /\ \A v \in Workers : v # w => wk'[v] = wk[v]
      BY <2>4, WorkerSets
    <3> QED
      BY <2>1, <3>1, WorkLinksFrame
  <2>5. CASE wk' = [wk EXCEPT ![w] = [pc |-> "hung", c |-> c]]
    <3>1. wk'[w].pc = "hung" /\ \A v \in Workers : v # w => wk'[v] = wk[v]
      BY <2>5, WorkerSets
    <3> QED
      BY <2>1, <3>1, WorkLinksFrame DEF Closing
  <2> QED
    BY <2>2, <2>3, <2>4, <2>5
<1>2. CASE DisableConn(w) \/ CloseSocket(w)
  <2>1. /\ wk[w].pc \in Closing /\ wk'[w].pc \in {"close", "link"}
        /\ wk'[w].c = wk[w].c /\ \A v \in Workers : v # w => wk'[v] = wk[v]
    BY <1>2, WorkerMoves DEF DisableConn, CloseSocket, Closing
  <2>2. wk[w].c \in ConnsOf(w)
    BY <2>1 DEF LinkInv
  <2>3. UNCHANGED <<listVars, listener>>
    BY <1>2 DEF DisableConn, CloseSocket
  <2> QED
    BY <2>1, <2>2, <2>3, WorkLinksFrame
<1>3. CASE LinkConn(w)
  <2> DEFINE t == tail[w]
             c == wk[w].c
  <2>1. t \in ConnsOf(w) /\ c \in ConnsOf(w) /\ t \in Conns /\ c # NULL
    BY <1>3, ConnFacts DEF LinkConn, LinkInv, Closing
  <2>2. next' = [next EXCEPT ![t] = c] /\ UNCHANGED <<head, tail, listener>>
    BY <1>3 DEF LinkConn
  <2>3. /\ wk'[w].pc = "tail" /\ wk'[w].c = c
        /\ \A v \in Workers : v # w => wk'[v] = wk[v]
    BY <1>3, WorkerMoves DEF LinkConn
  <2>4. t = tail[w]
    OBVIOUS
  <2> HIDE DEF t, c
  <2>5. next'[t] = c /\ \A d \in Conns : d # t => next'[d] = next[d]
    BY <2>1, <2>2
  <2>6. ASSUME NEW v \in Workers PROVE LinksOf(v)'
    <3>1. LinksOf(v)
      BY LinkParts
    <3>2. CASE v = w
      <4>1. \A d \in ConnsOf(w) : /\ next'[d] \in ConnsOf(w) \cup {NULL}
                                  /\ next'[d] = NULL => d = tail[w]
        BY <2>1, <2>5, <3>1, <3>2, ConnFacts DEF LinksOf
      <4> QED
        BY <2>1, <2>2, <2>3, <2>4, <2>5, <3>1, <3>2, <4>1 DEF LinksOf
    <3>3. CASE v # w
      <4>1. t \notin ConnsOf(v) /\ ConnsOf(v) \subseteq Conns
        BY <2>1, <3>3, ConnFacts
      <4>2. \A d \in ConnsOf(v) : next'[d] = next[d]
        BY <2>5, <4>1
      <4> QED
        BY <2>2, <2>3, <3>1, <3>3, <4>2 DEF LinksOf
    <3> QED
      BY <3>2, <3>3
  <2>7. listener.pc = "take" => next'[head[listener.w]] # NULL
    <3>1. listener.w \in Workers /\ head[listener.w] \in Conns
      BY DEF ListenerState
    <3> QED
      BY <2>1, <2>5, <3>1 DEF LinkInv
  <2> QED
    BY <2>2, <2>6, <2>7, LinkParts, LinkPartsPrime
<1>4. CASE MoveTail(w)
  <2> DEFINE c == wk[w].c
  <2>1. c \in ConnsOf(w) /\ c # NULL /\ next[tail[w]] = c /\ tail[w] \in ConnsOf(w)
    BY <1>4, ConnFacts DEF MoveTail, LinkInv, Closing
  <2>2. tail' = [tail EXCEPT ![w] = c] /\ UNCHANGED <<head, next, listener>>
    BY <1>4 DEF MoveTail
  <2>3. wk'[w].pc = "loop" /\ \A v \in Workers : v # w => wk'[v] = wk[v]
    BY <1>4, WorkerSets DEF MoveTail
  <2> HIDE DEF c
  <2>4. tail'[w] = c /\ \A v \in Workers : v # w => tail'[v] = tail[v]
    BY <2>2
  <2>5. ASSUME NEW v \in Workers PROVE LinksOf(v)'
    <3>1. LinksOf(v)
      BY LinkParts
    <3>2. CASE v = w
      <4>1. \A d \in ConnsOf(w) : next[d] # NULL
        BY <2>1, <3>1, <3>2 DEF LinksOf
      <4> QED
        BY <2>1, <2>2, <2>3, <2>4, <3>1, <3>2, <4>1 DEF LinksOf, Closing
    <3>3. CASE v # w
      BY <2>2, <2>3, <2>4, <3>1, <3>3 DEF LinksOf
    <3> QED
      BY <3>2, <3>3
  <2> QED
    BY <2>2, <2>5, LinkParts, LinkPartsPrime
<1>5. CASE LoopEnds(w) \/ WorkerExits(w)
  <2>1. wk'[w].pc = "ended" /\ \A v \in Workers : v # w => wk'[v] = wk[v]
    BY <1>5, WorkerMoves DEF LoopEnds, WorkerExits
  <2>2. UNCHANGED <<listVars, listener>>
    BY <1>5 DEF LoopEnds, WorkerExits
  <2> QED
    BY <2>1, <2>2, WorkLinksFrame DEF Closing
<1> QED
  BY <1>1, <1>2, <1>3, <1>4, <1>5 DEF Work, CloseConn

-----------------------------------------------------------------------------
(* Who uses a Conn.                                                        *)

\* The parts of UseInv about one worker and about one Conn.
WorkerUses(w) ==
  /\ wk[w].pc \in Closing => wk[w].c \in given /\ wk[w].c # listener.c
  /\ wk[w].pc \in Closing \ {"disable"} => ~bufev[wk[w].c].on

Quiet(c) == c \notin given => (bufev[c].on => bufev[c].fd = NULL)

ListenerUses ==
  /\ listener.c # NULL => listener.c \in given
  /\ listener.pc = "take" => head[listener.w] # tail[listener.w]

LEMMA UseParts ==
  UseInv <=> (~spurious => /\ \A w \in Workers : WorkerUses(w)
                           /\ \A c \in Conns : Quiet(c)
                           /\ ListenerUses)
BY DEF UseInv, WorkerUses, Quiet, ListenerUses

LEMMA UsePartsPrime ==
  UseInv' <=> (~spurious' => /\ \A w \in Workers : WorkerUses(w)'
                             /\ \A c \in Conns : Quiet(c)'
                             /\ ListenerUses')
BY DEF UseInv, WorkerUses, Quiet, ListenerUses

\* The head of a list was not handed out.
LEMMA HeadIsFree ==
  ASSUME TypeOK, ListInv, ~spurious, NEW w \in Workers
  PROVE  head[w] \in ConnsOf(w) \ given
<1>1. IsList(next, head[w], tail[w], ConnsOf(w) \ given)
  BY DEF ListInv
<1> QED
  BY <1>1, ListEnds

\* DoAccept uses a Conn that no callback closes, or the run is spurious.
LEMMA ListenUse ==
  ASSUME TypeOK, LinkInv, UseInv, ListInv, Listen
  PROVE  UseInv'
<1> USE TypeParts
<1>1. UNCHANGED <<wk, spurious, tail, next>>
  BY DEF Listen, DoAccept, Accepting, TestFreeConn, TakeFreeConn, SetConnFd,
         BuffereventSetfd, EnableConn, ListenerExits, listVars
<1> SUFFICES ASSUME ~spurious
             PROVE  /\ \A w \in Workers : WorkerUses(w)'
                    /\ \A c \in Conns : Quiet(c)'
                    /\ ListenerUses'
  BY <1>1, UsePartsPrime
<1>2. /\ \A w \in Workers : WorkerUses(w)
      /\ \A c \in Conns : Quiet(c)
      /\ ListenerUses
  BY UseParts
<1>3. CASE UNCHANGED <<head, given, bufev>> /\ listener'.c \in {listener.c, NULL}
           /\ ListenerUses'
  <2>1. ASSUME NEW w \in Workers PROVE WorkerUses(w)'
    <3>1. wk[w].pc \in Closing => wk[w].c # NULL
      BY ConnFacts DEF LinkInv
    <3> QED
      BY <1>1, <1>2, <1>3, <3>1 DEF WorkerUses
  <2>2. ASSUME NEW c \in Conns PROVE Quiet(c)'
    BY <1>2, <1>3 DEF Quiet
  <2> QED
    BY <1>3, <2>1, <2>2
<1>4. ASSUME NEW k \in Clients, DoAccept(k)
      PROVE  UNCHANGED <<head, given, bufev>> /\ listener'.c = NULL /\ ListenerUses'
  BY <1>4 DEF DoAccept, listVars, connVars, ListenerUses
<1>5. CASE TestFreeConn
  <2>1. UNCHANGED <<head, given, bufev>>
    BY <1>5 DEF TestFreeConn, listVars, connVars
  <2>2. listener'.c = listener.c /\ listener'.w = listener.w
    BY <1>5, ListenerMoves DEF TestFreeConn, ListenerState
  <2>3. listener'.pc = "take" => head[listener.w] # tail[listener.w]
    BY <1>5 DEF TestFreeConn, ListenerState
  <2>4. ListenerUses'
    BY <1>1, <1>2, <2>1, <2>2, <2>3 DEF ListenerUses
  <2> QED
    BY <1>3, <2>1, <2>2, <2>4
<1>6. CASE TakeFreeConn
  <2> DEFINE c == head[listener.w]
  <2>1. listener.w \in Workers
    BY DEF ListenerState
  <2>2. c \notin given /\ c \in Conns
    BY <2>1, HeadIsFree, ConnFacts
  <2>3. listener' = [listener EXCEPT !.pc = "fd", !.c = c]
    BY <1>6 DEF TakeFreeConn
  <2>4. given' = given \cup {c} /\ UNCHANGED bufev
    BY <1>6 DEF TakeFreeConn, connVars
  <2> HIDE DEF c
  <2>5. listener'.pc = "fd" /\ listener'.c = c
    BY <2>3 DEF ListenerState
  <2>6. ASSUME NEW w \in Workers PROVE WorkerUses(w)'
    BY <1>1, <1>2, <2>2, <2>4, <2>5 DEF WorkerUses
  <2>7. ASSUME NEW d \in Conns PROVE Quiet(d)'
    BY <1>2, <2>4 DEF Quiet
  <2>8. ListenerUses'
    BY <2>4, <2>5 DEF ListenerUses
  <2> QED
    BY <2>6, <2>7, <2>8
<1>7. CASE SetConnFd
  <2>1. UNCHANGED <<head, given, bufev>>
    BY <1>7 DEF SetConnFd, listVars
  <2>2. listener'.c = listener.c /\ listener'.pc = "setfd"
    BY <1>7, ListenerMoves DEF SetConnFd
  <2>3. ListenerUses'
    BY <1>2, <2>1, <2>2 DEF ListenerUses
  <2> QED
    BY <1>3, <2>1, <2>2, <2>3
<1>8. CASE BuffereventSetfd \/ EnableConn
  <2> DEFINE c == listener.c
  <2>1. c \in Conns /\ c \in given
    <3>1. c \in Conns
      BY <1>8 DEF BuffereventSetfd, EnableConn, LinkInv
    <3> QED
      BY <1>2, <3>1, ConstantsAssumption DEF ListenerUses
  <2>2. given' = given /\ listener'.pc # "take" /\ listener'.c \in {c, NULL}
    BY <1>8, ListenerMoves DEF BuffereventSetfd, EnableConn, ListenerState
  <2>3. \A d \in Conns : d # c => bufev'[d] = bufev[d]
    BY <1>8 DEF BuffereventSetfd, EnableConn
  <2>4. ASSUME NEW w \in Workers PROVE WorkerUses(w)'
    <3>1. wk[w].pc \in Closing => wk[w].c \in Conns /\ wk[w].c # c /\ wk[w].c # NULL
      <4>1. WorkerUses(w)
        BY <1>2
      <4>2. wk[w].pc \in Closing => wk[w].c \in Conns /\ wk[w].c # NULL
        BY ConnFacts DEF LinkInv
      <4> QED
        BY <4>1, <4>2 DEF WorkerUses
    <3> HIDE DEF c
    <3> QED
      BY <1>1, <1>2, <2>2, <2>3, <3>1 DEF WorkerUses
  <2>5. ASSUME NEW d \in Conns PROVE Quiet(d)'
    BY <1>2, <2>1, <2>2, <2>3 DEF Quiet
  <2>6. ListenerUses'
    BY <2>1, <2>2 DEF ListenerUses
  <2> QED
    BY <2>4, <2>5, <2>6
<1>9. CASE ListenerExits
  <2>1. UNCHANGED <<head, given, bufev>>
    BY <1>9 DEF ListenerExits, listVars, connVars
  <2>2. listener'.c = listener.c /\ listener'.pc = "ended"
    BY <1>9, ListenerMoves DEF ListenerExits
  <2>3. ListenerUses'
    BY <1>2, <2>1, <2>2 DEF ListenerUses
  <2> QED
    BY <1>3, <2>1, <2>2, <2>3
<1> QED
  BY <1>3, <1>4, <1>5, <1>6, <1>7, <1>8, <1>9 DEF Listen, Accepting

\* A callback that closes a Conn in use by nobody else is the only one that
\* changes who uses what; it gives the Conn back without events.
LEMMA WorkUse ==
  ASSUME TypeOK, LinkInv, UseInv, ListInv, NEW w \in Workers, Work(w)
  PROVE  UseInv'
<1> USE TypeParts
<1>1. UNCHANGED <<head, listener>>
  BY DEF Work, CloseConn, DoRead, DoError, DoErrorUnused, DisableConn,
         CloseSocket, LinkConn, MoveTail, LoopEnds, WorkerExits, listVars
<1>2. ~spurious => /\ \A v \in Workers : WorkerUses(v)
                   /\ \A c \in Conns : Quiet(c)
                   /\ ListenerUses
  BY UseParts
<1>3. ASSUME ~spurious, UNCHANGED <<tail, given>>,
             \A v \in Workers : WorkerUses(v)', \A c \in Conns : Quiet(c)'
      PROVE  UseInv'
  <2>1. ListenerUses'
    BY <1>1, <1>2, <1>3 DEF ListenerUses
  <2> QED
    BY <1>3, <2>1, UsePartsPrime
<1>4. ASSUME ~spurious, UNCHANGED <<tail, given, bufev>>,
             \A v \in Workers : v # w => wk'[v] = wk[v], WorkerUses(w)'
      PROVE  UseInv'
  <2>1. ASSUME NEW v \in Workers PROVE WorkerUses(v)'
    <3>1. CASE v # w
      BY <1>1, <1>2, <1>4, <3>1 DEF WorkerUses
    <3> QED
      BY <1>4, <3>1
  <2>2. ASSUME NEW c \in Conns PROVE Quiet(c)'
    BY <1>2, <1>4 DEF Quiet
  <2> QED
    BY <1>3, <1>4, <2>1, <2>2
<1>5. ASSUME NEW c \in Conns, DoRead(w, c) \/ DoError(w, c) \/ DoErrorUnused(w, c)
      PROVE  UseInv'
  <2>1. /\ c \in ConnsOf(w) /\ UNCHANGED <<tail, given, bufev>>
        /\ bufev[c].on /\ wk[w].pc = "loop"
    BY <1>5 DEF DoRead, DoError, DoErrorUnused, listVars, connVars
  <2>2. \/ UNCHANGED <<wk, spurious>>
        \/ BeginClose(w, c)
        \/ wk' = [wk EXCEPT ![w] = [pc |-> "hung", c |-> c]] /\ UNCHANGED spurious
    BY <1>5 DEF DoRead, DoError, DoErrorUnused
  <2>3. CASE UNCHANGED <<wk, spurious>>
    <3>1. ~spurious => WorkerUses(w)'
      BY <1>1, <2>1, <2>3 DEF WorkerUses, Closing
    <3>2. CASE ~spurious
      BY <1>4, <2>1, <2>3, <3>1, <3>2
    <3>3. CASE spurious
      BY <2>3, <3>3, UsePartsPrime
    <3> QED
      BY <3>2, <3>3
  <2>4. CASE BeginClose(w, c)
    <3>1. /\ wk'[w].pc = "disable" /\ wk'[w].c = c
          /\ \A v \in Workers : v # w => wk'[v] = wk[v]
      BY <2>4, WorkerSets DEF BeginClose
    <3>2. CASE spurious'
      BY <3>2, UsePartsPrime
    <3>3. CASE ~spurious'
      <4>1. ~spurious /\ bufev[c].fd # NULL /\ listener.c # c
        BY <2>4, <3>3, CloseBegins
      <4>2. c \in given
        BY <1>2, <2>1, <4>1 DEF Quiet
      <4>3. WorkerUses(w)'
        BY <1>1, <2>1, <3>1, <4>1, <4>2 DEF WorkerUses, Closing
      <4> QED
        BY <1>4, <2>1, <3>1, <4>1, <4>3
    <3> QED
      BY <3>2, <3>3
  <2>5. CASE wk' = [wk EXCEPT ![w] = [pc |-> "hung", c |-> c]] /\ UNCHANGED spurious
    <3>1. wk'[w].pc = "hung" /\ \A v \in Workers : v # w => wk'[v] = wk[v]
      BY <2>5, WorkerSets
    <3>2. WorkerUses(w)'
      BY <3>1 DEF WorkerUses, Closing
    <3>3. CASE ~spurious
      BY <1>4, <2>1, <3>1, <3>2, <3>3
    <3>4. CASE spurious
      BY <2>5, <3>4, UsePartsPrime
    <3> QED
      BY <3>3, <3>4
  <2> QED
    BY <2>2, <2>3, <2>4, <2>5
<1>6. CASE spurious
  <2>1. CASE CloseConn(w) \/ LoopEnds(w) \/ WorkerExits(w)
    <3>1. UNCHANGED spurious
      BY <2>1 DEF CloseConn, DisableConn, CloseSocket, LinkConn, MoveTail,
                  LoopEnds, WorkerExits
    <3> QED
      BY <1>6, <3>1, UsePartsPrime
  <2> QED
    BY <1>5, <2>1 DEF Work
<1>7. CASE ~spurious /\ DisableConn(w)
  <2> DEFINE c == wk[w].c
  <2>1. /\ wk'[w].pc = "close" /\ wk'[w].c = c
        /\ \A v \in Workers : v # w => wk'[v] = wk[v]
    BY <1>7, WorkerMoves DEF DisableConn
  <2>2. c \in ConnsOf(w) /\ c \in Conns /\ c \in given /\ c # listener.c
    BY <1>2, <1>7, ConnFacts DEF DisableConn, LinkInv, Closing, WorkerUses
  <2>3. bufev' = [bufev EXCEPT ![c].on = FALSE] /\ UNCHANGED <<tail, given>>
    BY <1>7 DEF DisableConn, listVars
  <2> HIDE DEF c
  <2>4. \A d \in Conns : d # c => bufev'[d] = bufev[d]
    BY <2>3
  <2>5. ~bufev'[c].on
    BY <2>2, <2>3
  <2>6. ASSUME NEW v \in Workers PROVE WorkerUses(v)'
    <3>1. CASE v = w
      BY <1>1, <2>1, <2>2, <2>3, <2>5, <3>1 DEF WorkerUses
    <3>2. CASE v # w
      <4>1. wk[v].pc \in Closing => wk[v].c \in Conns /\ wk[v].c # c
        BY <2>2, <3>2, ConnFacts DEF LinkInv
      <4> QED
        BY <1>1, <1>2, <1>7, <2>1, <2>3, <2>4, <3>2, <4>1 DEF WorkerUses
    <3> QED
      BY <3>1, <3>2
  <2>7. ASSUME NEW d \in Conns PROVE Quiet(d)'
    BY <1>2, <1>7, <2>2, <2>3, <2>4 DEF Quiet
  <2> QED
    BY <1>3, <1>7, <2>3, <2>6, <2>7
<1>8. CASE ~spurious /\ (CloseSocket(w) \/ LinkConn(w))
  <2>1. /\ wk[w].pc \in Closing \ {"disable"} /\ wk'[w].pc \in {"link", "tail"}
        /\ wk'[w].c = wk[w].c /\ \A v \in Workers : v # w => wk'[v] = wk[v]
    BY <1>8, WorkerMoves DEF CloseSocket, LinkConn, Closing
  <2>2. UNCHANGED <<tail, given, bufev>>
    BY <1>8 DEF CloseSocket, LinkConn, listVars, connVars
  <2>3. WorkerUses(w)'
    <3>1. WorkerUses(w)
      BY <1>2, <1>8
    <3> QED
      BY <1>1, <2>1, <2>2, <3>1 DEF WorkerUses
  <2> QED
    BY <1>4, <1>8, <2>1, <2>2, <2>3
<1>9. CASE ~spurious /\ MoveTail(w)
  <2> DEFINE c == wk[w].c
  <2>1. wk'[w].pc = "loop" /\ \A v \in Workers : v # w => wk'[v] = wk[v]
    BY <1>9, WorkerSets DEF MoveTail
  <2>2. /\ c \in ConnsOf(w) /\ c \in Conns /\ c \in given /\ c # listener.c
        /\ ~bufev[c].on
    BY <1>2, <1>9, ConnFacts DEF MoveTail, LinkInv, Closing, WorkerUses
  <2>3. /\ tail' = [tail EXCEPT ![w] = c] /\ given' = given \ {c}
        /\ UNCHANGED <<bufev, spurious>>
    BY <1>9 DEF MoveTail, connVars
  <2> HIDE DEF c
  <2>4. ASSUME NEW v \in Workers PROVE WorkerUses(v)'
    <3>1. CASE v = w
      BY <2>1, <3>1 DEF WorkerUses, Closing
    <3>2. CASE v # w
      <4>1. wk[v].pc \in Closing => wk[v].c # c
        BY <2>2, <3>2, ConnFacts DEF LinkInv
      <4> QED
        BY <1>1, <1>2, <1>9, <2>1, <2>3, <3>2, <4>1 DEF WorkerUses
    <3> QED
      BY <3>1, <3>2
  <2>5. ASSUME NEW d \in Conns PROVE Quiet(d)'
    BY <1>2, <1>9, <2>2, <2>3 DEF Quiet
  <2>6. ListenerUses'
    <3>1. listener.w \in Workers
      BY DEF ListenerState
    <3>2. CASE listener.w = w
      <4>1. head[w] # c
        BY <1>9, <2>2, HeadIsFree
      <4> QED
        BY <1>1, <1>2, <1>9, <2>2, <2>3, <3>2, <4>1 DEF ListenerUses
    <3>3. CASE listener.w # w
      <4>1. tail'[listener.w] = tail[listener.w]
        BY <2>3, <3>1, <3>3
      <4> QED
        BY <1>1, <1>2, <1>9, <2>2, <2>3, <4>1 DEF ListenerUses
    <3> QED
      BY <3>2, <3>3
  <2> QED
    BY <2>4, <2>5, <2>6, UsePartsPrime
<1>10. CASE ~spurious /\ (LoopEnds(w) \/ WorkerExits(w))
  <2>1. wk'[w].pc = "ended" /\ \A v \in Workers : v # w => wk'[v] = wk[v]
    BY <1>10, WorkerMoves DEF LoopEnds, WorkerExits
  <2>2. UNCHANGED <<tail, given, bufev>>
    BY <1>10 DEF LoopEnds, WorkerExits, listVars, connVars
  <2>3. WorkerUses(w)'
    BY <2>1 DEF WorkerUses, Closing
  <2> QED
    BY <1>4, <1>10, <2>1, <2>2, <2>3
<1> QED
  BY <1>5, <1>6, <1>7, <1>8, <1>9, <1>10 DEF Work, CloseConn

-----------------------------------------------------------------------------
(* What is in the lists.                                                   *)

LEMMA ListInvFrame ==
  ASSUME ListInv, UNCHANGED <<listVars, given>>, ~spurious' => ~spurious
  PROVE  ListInv'
BY DEF ListInv, listVars, ConnsOf, Workers

\* GetFreeConn takes the head of one list.
LEMMA ListenLists ==
  ASSUME TypeOK, LinkInv, UseInv, ListInv, Listen
  PROVE  ListInv'
<1> USE TypeParts
<1>1. CASE (\E k \in Clients : DoAccept(k)) \/ TestFreeConn \/ SetConnFd
           \/ BuffereventSetfd \/ EnableConn \/ ListenerExits
  <2>1. UNCHANGED <<listVars, given, spurious>>
    BY <1>1 DEF DoAccept, TestFreeConn, SetConnFd, BuffereventSetfd, EnableConn,
                ListenerExits
  <2> QED
    BY <2>1, ListInvFrame
<1>2. CASE TakeFreeConn
  <2> SUFFICES ASSUME ~spurious, NEW w \in Workers
               PROVE  IsList(next', head'[w], tail'[w], ConnsOf(w) \ given')
    <3>1. UNCHANGED spurious
      BY <1>2 DEF TakeFreeConn
    <3> QED
      BY <3>1 DEF ListInv
  <2> DEFINE v == listener.w
             c == head[v]
  <2>1. v \in Workers /\ c \in ConnsOf(v)
    BY DEF ListenerState, LinkInv
  <2>2. /\ head' = [head EXCEPT ![v] = next[c]] /\ given' = given \cup {c}
        /\ UNCHANGED <<tail, next>>
    BY <1>2 DEF TakeFreeConn
  <2>3. IsList(next, head[w], tail[w], ConnsOf(w) \ given)
    BY DEF ListInv
  <2>4. CASE w = v
    <3>1. head[w] # tail[w]
      BY <1>2, <2>4 DEF TakeFreeConn, UseInv
    <3>2. IsList(next, next[head[w]], tail[w], (ConnsOf(w) \ given) \ {head[w]})
      BY <2>3, <3>1, ListTake
    <3>3. (ConnsOf(w) \ given) \ {head[w]} = ConnsOf(w) \ given'
      BY <2>2, <2>4
    <3>4. head'[w] = next[head[w]]
      BY <2>1, <2>2, <2>4
    <3> QED
      BY <2>2, <3>2, <3>3, <3>4
  <2>5. CASE w # v
    <3>1. ConnsOf(w) \ given' = ConnsOf(w) \ given
      BY <2>1, <2>2, <2>5, ConnFacts
    <3>2. head'[w] = head[w]
      BY <2>1, <2>2, <2>5
    <3> QED
      BY <2>2, <2>3, <3>1, <3>2
  <2> QED
    BY <2>4, <2>5
<1> QED
  BY <1>1, <1>2 DEF Listen, Accepting

\* PutFreeConn puts the Conn behind the tail, which no one else links to.
LEMMA WorkLists ==
  ASSUME TypeOK, LinkInv, UseInv, ListInv, NEW w \in Workers, Work(w)
  PROVE  ListInv'
<1> USE TypeParts
<1>1. ASSUME NEW c \in Conns, DoRead(w, c) \/ DoError(w, c) \/ DoErrorUnused(w, c)
      PROVE  ListInv'
  <2>1. UNCHANGED <<listVars, given>>
    BY <1>1 DEF DoRead, DoError, DoErrorUnused
  <2>2. BeginClose(w, c) \/ UNCHANGED spurious
    BY <1>1 DEF DoRead, DoError, DoErrorUnused
  <2>3. ~spurious' => ~spurious
    BY <2>2, CloseBegins
  <2> QED
    BY <2>1, <2>3, ListInvFrame
<1>2. CASE DisableConn(w) \/ CloseSocket(w) \/ LoopEnds(w) \/ WorkerExits(w)
  <2>1. UNCHANGED <<listVars, given, spurious>>
    BY <1>2 DEF DisableConn, CloseSocket, LoopEnds, WorkerExits
  <2> QED
    BY <2>1, ListInvFrame
<1>3. CASE LinkConn(w)
  <2> SUFFICES ASSUME ~spurious, NEW v \in Workers
               PROVE  IsList(next', head'[v], tail'[v], ConnsOf(v) \ given')
    <3>1. UNCHANGED spurious
      BY <1>3 DEF LinkConn
    <3> QED
      BY <3>1 DEF ListInv
  <2>1. IsList(next, head[v], tail[v], ConnsOf(v) \ given)
    BY DEF ListInv
  <2>2. next' = [next EXCEPT ![tail[w]] = wk[w].c] /\ UNCHANGED <<head, tail, given>>
    BY <1>3 DEF LinkConn
  <2>3. tail[w] \in ConnsOf(w)
    BY DEF LinkInv
  <2>4. ASSUME NEW c \in ConnsOf(v) \ given, c # tail[v] PROVE next'[c] = next[c]
    <3>1. c # tail[w] /\ c \in Conns
      BY <2>3, <2>4, ConnFacts
    <3> QED
      BY <2>2, <3>1
  <2> DEFINE my == next'
  <2>5. \A c \in ConnsOf(v) \ given : c # tail[v] => my[c] = next[c]
    BY <2>4
  <2> HIDE DEF my
  <2>6. IsList(my, head[v], tail[v], ConnsOf(v) \ given)
    BY <2>1, <2>5, ListFrame
  <2> QED
    BY <2>2, <2>6 DEF my
<1>4. CASE MoveTail(w)
  <2> SUFFICES ASSUME ~spurious, NEW v \in Workers
               PROVE  IsList(next', head'[v], tail'[v], ConnsOf(v) \ given')
    <3>1. UNCHANGED spurious
      BY <1>4 DEF MoveTail
    <3> QED
      BY <3>1 DEF ListInv
  <2> DEFINE c == wk[w].c
  <2>1. IsList(next, head[v], tail[v], ConnsOf(v) \ given)
    BY DEF ListInv
  <2>2. /\ tail' = [tail EXCEPT ![w] = c] /\ given' = given \ {c}
        /\ UNCHANGED <<head, next>>
    BY <1>4 DEF MoveTail
  <2>3. /\ c \in ConnsOf(w) /\ c \in Conns /\ c \in given
        /\ next[tail[w]] = c
    BY <1>4, ConnFacts DEF MoveTail, LinkInv, UseInv, Closing
  <2> HIDE DEF c
  <2>4. CASE v = w
    <3>1. IsList(next, head[v], c, (ConnsOf(v) \ given) \cup {c})
      BY <2>1, <2>3, <2>4, ListPut
    <3>2. (ConnsOf(v) \ given) \cup {c} = ConnsOf(v) \ given'
      BY <2>2, <2>3, <2>4
    <3>3. tail'[v] = c
      BY <2>2, <2>4
    <3> QED
      BY <2>2, <3>1, <3>2, <3>3
  <2>5. CASE v # w
    <3>1. ConnsOf(v) \ given' = ConnsOf(v) \ given
      BY <2>2, <2>3, <2>5, ConnFacts
    <3>2. tail'[v] = tail[v]
      BY <2>2, <2>5
    <3> QED
      BY <2>1, <2>2, <3>1, <3>2
  <2> QED
    BY <2>4, <2>5
<1> QED
  BY <1>1, <1>2, <1>3, <1>4 DEF Work, CloseConn

-----------------------------------------------------------------------------
(* The theorems.                                                           *)

\* The invariant holds initially.
LEMMA InitInvariant == Init => IInv
<1> SUFFICES ASSUME Init PROVE IInv
  OBVIOUS
<1>1. 0 \in Workers /\ 0 \in 0 .. ConnNum /\ ConnNum \in 0 .. ConnNum
  BY ConstantsAssumption DEF Workers
<1>2. ASSUME NEW w \in Workers, NEW i \in 0 .. ConnNum
      PROVE  /\ <<w, i>> \in Conns /\ <<w, i>> \in ConnsOf(w)
             /\ next[<<w, i>>] = IF i = ConnNum THEN NULL ELSE <<w, i + 1>>
             /\ i # ConnNum => i + 1 \in 0 .. ConnNum
  <2>1. <<w, i>> \in Conns /\ <<w, i>> \in ConnsOf(w)
    BY DEF Conns, ConnsOf
  <2>2. PICK c \in Conns : c = <<w, i>>
    BY <2>1
  <2>3. next[c] = IF c[2] = ConnNum THEN NULL ELSE <<c[1], c[2] + 1>>
    BY DEF Init
  <2>4. c[1] = w /\ c[2] = i
    BY <2>2
  <2>5. i # ConnNum => i + 1 \in 0 .. ConnNum
    BY ConstantsAssumption
  <2> QED
    BY <2>1, <2>2, <2>3, <2>4, <2>5
<1>3. ASSUME NEW w \in Workers, NEW c \in ConnsOf(w)
      PROVE  \E i \in 0 .. ConnNum : c = <<w, i>>
  BY DEF ConnsOf
<1>4. ASSUME NEW w \in Workers, NEW c \in ConnsOf(w)
      PROVE  /\ next[c] \in ConnsOf(w) \cup {NULL}
             /\ next[c] = NULL => c = <<w, ConnNum>>
  <2>1. PICK i \in 0 .. ConnNum : c = <<w, i>>
    BY <1>3
  <2>2. CASE i = ConnNum
    BY <1>2, <2>1, <2>2
  <2>3. CASE i # ConnNum
    <3>1. next[c] = <<w, i + 1>> /\ <<w, i + 1>> \in ConnsOf(w)
      BY <1>2, <2>1, <2>3
    <3> QED
      BY <3>1, ConnFacts
  <2> QED
    BY <2>2, <2>3
<1>5. TypeOK
  <2>1. head \in [Workers -> Conns] /\ tail \in [Workers -> Conns]
    BY <1>1, <1>2 DEF Init
  <2>2. next \in [Conns -> Conns \cup {NULL}]
    <3>1. ASSUME NEW c \in Conns PROVE next[c] \in Conns \cup {NULL}
      BY <1>4, ConnHasWorker, ConnFacts
    <3> QED
      BY <3>1 DEF Init
  <2>3. listener \in ListenerState /\ wk \in [Workers -> WorkerState]
    BY <1>1 DEF Init, ListenerState, WorkerState
  <2> QED
    BY <1>1, <2>1, <2>2, <2>3, TypeParts DEF Init
<1>6. LinkInv
  <2>1. \A w \in Workers : head[w] = <<w, 0>> /\ tail[w] = <<w, ConnNum>>
    BY DEF Init
  <2> QED
    BY <1>1, <1>2, <1>4, <2>1 DEF Init, LinkInv, Closing
<1>7. UseInv
  BY DEF Init, UseInv, Closing
<1>8. ListInv
  <2> SUFFICES ASSUME NEW w \in Workers
               PROVE  IsList(next, <<w, 0>>, <<w, ConnNum>>, ConnsOf(w))
    BY DEF Init, ListInv
  <2> DEFINE p == [i \in 0 .. ConnNum |-> <<w, i>>]
  <2>1. p \in [0 .. ConnNum -> Conns]
    BY <1>2
  <2>2. \A i, j \in 0 .. ConnNum : p[i] = p[j] => i = j
    OBVIOUS
  <2>3. p[0] = <<w, 0>> /\ p[ConnNum] = <<w, ConnNum>>
    BY <1>1
  <2>4. ASSUME NEW i \in 0 .. ConnNum, i < ConnNum PROVE next[p[i]] = p[i + 1]
    <3>1. i # ConnNum /\ i + 1 \in 0 .. ConnNum
      BY <2>4, ConstantsAssumption
    <3> QED
      BY <1>2, <3>1
  <2>5. ConnsOf(w) = Linked(ConnNum, p)
    BY <1>2, <1>3 DEF Linked
  <2> HIDE DEF p
  <2>6. Chain(next, <<w, 0>>, <<w, ConnNum>>, ConnNum, p)
    BY <2>1, <2>2, <2>3, <2>4, ConstantsAssumption DEF Chain
  <2> QED
    BY <2>1, <2>5, <2>6, ConstantsAssumption DEF IsList
<1> QED
  BY <1>5, <1>6, <1>7, <1>8 DEF IInv

\* Every step keeps the invariant.
LEMMA NextInvariant == IInv /\ [Next]_vars => IInv'
<1> SUFFICES ASSUME IInv, [Next]_vars PROVE IInv'
  OBVIOUS
<1> USE DEF IInv
<1>1. ASSUME UNCHANGED <<listVars, bufev, listener, wk, given, spurious>>
      PROVE  LinkInv' /\ UseInv' /\ ListInv'
  BY <1>1, ListInvFrame DEF LinkInv, UseInv, listVars, Closing
<1>2. ASSUME NEW k \in Clients, ClientGoes(k) PROVE IInv'
  BY <1>1, <1>2, ClientTypes DEF ClientGoes, connVars
<1>3. CASE Listen
  BY <1>3, ListenTypes, ListenLinks, ListenUse, ListenLists
<1>4. ASSUME NEW w \in Workers, Work(w) PROVE IInv'
  BY <1>4, WorkTypes, WorkLinks, WorkUse, WorkLists
<1>5. CASE Stop
  BY <1>1, <1>5, StopTypes
     DEF Stop, StopServer, ListenerJoined, WorkerJoined, connVars
<1>6. CASE UNCHANGED vars
  <2>1. TypeOK'
    BY <1>6 DEF TypeOK, vars, listVars, connVars
  <2> QED
    BY <1>1, <1>6, <2>1 DEF vars, connVars
<1> QED
  BY <1>2, <1>3, <1>4, <1>5, <1>6 DEF Next

\* IInv is an invariant of CLibEvent.
THEOREM Invariance == Spec => []IInv
BY InitInvariant, NextInvariant, PTL DEF Spec

\* Every variable keeps its type: GetFreeConn never follows the NULL behind
\* the tail, even after a Conn was put back that nobody had.
THEOREM TypeCorrect == Spec => []TypeOK
<1>1. IInv => TypeOK
  BY DEF IInv
<1> QED
  BY <1>1, Invariance, PTL

\* The list that DoAccept and the callbacks share without a lock holds
\* exactly the Conns that are not handed out, each once and up to the tail,
\* until a Conn is closed that no client had or that DoAccept had not
\* finished with.
THEOREM FreeListStaysExact == Spec => []FreeListExact
<1>1. IInv => FreeListExact
  <2> SUFFICES ASSUME IInv, ~spurious, NEW w \in Workers
               PROVE  \E n \in 0 .. ConnNum :
                        /\ ListConn(w)[n] = tail[w]
                        /\ {ListConn(w)[i] : i \in 0 .. n} = ConnsOf(w) \ given
                        /\ Cardinality(ConnsOf(w) \ given) = n + 1
    BY DEF FreeListExact
  <2>1. IsList(next, head[w], tail[w], ConnsOf(w) \ given)
    BY DEF IInv, ListInv
  <2>2. next \in [Conns -> Conns \cup {NULL}]
    BY DEF IInv, TypeOK
  <2> DEFINE R == ConnsOf(w) \ given
  <2>3. R \subseteq ConnsOf(w)
    OBVIOUS
  <2> HIDE DEF R
  <2>4. \E n \in 0 .. ConnNum :
          /\ ListConn(w)[n] = tail[w]
          /\ {ListConn(w)[i] : i \in 0 .. n} = R
          /\ Cardinality(R) = n + 1
    BY <2>1, <2>2, <2>3, ListConnIsList DEF R
  <2> QED
    BY <2>4 DEF R
<1> QED
  BY <1>1, Invariance, PTL
=============================================================================
