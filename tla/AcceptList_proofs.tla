-------------------------- MODULE AcceptList_proofs --------------------------
(***************************************************************************)
(* The accepts of iocp_server.cpp, for any number of workers, buffers and  *)
(* clients.                                                                *)
(*                                                                         *)
(* The lists first: what their links say of the buffers in them, and what  *)
(* adding and removing a buffer does.  Then the inductive invariant, in    *)
(* parts: who holds which buffer (HandsInv), the exact count, the exact    *)
(* lists (ListInv), and who will post an accept for the clients that wait  *)
(* (ServeInv, SignalInv).                                                  *)
(***************************************************************************)
EXTENDS AcceptList, FiniteSetTheorems, TLAPS

-----------------------------------------------------------------------------
(* A list with its links nx and its head h.                                *)

\* The buffers p[1], ..., p[n], each linked to the one after it.
Chain(nx, h, n, p) ==
  /\ n \in Nat /\ p \in [1..n -> Buffers]
  /\ \A i, j \in 1..n : p[i] = p[j] => i = j
  /\ n = 0 => h = NULL
  /\ n > 0 => h = p[1] /\ nx[p[n]] = NULL
  /\ \A i \in 1..n : i < n => nx[p[i]] = p[i + 1]

\* The set of the buffers in a chain.
Links(n, p) == {p[i] : i \in 1..n}

\* The list that starts at h has exactly the buffers in R, and ends.
IsList(nx, h, R) ==
  \E n \in Nat : \E p \in [1..n -> Buffers] : Chain(nx, h, n, p) /\ R = Links(n, p)

\* A set of natural numbers has a least element.
LEMMA LeastNumber ==
  ASSUME NEW T, T \subseteq Nat, T # {}
  PROVE  \E x \in T : \A y \in T : x <= y
<1>1. PICK x \in T : \A y \in T : ~ (<<y, x>> \in OpToRel(<, Nat))
  BY NatLessThanWellFounded, WFMin
<1>2. \A y \in T : ~ (y < x)
  BY <1>1 DEF OpToRel
<1> QED
  BY <1>2

\* A chain is no longer than there are buffers.
LEMMA ChainLength ==
  ASSUME NEW nx, NEW h, NEW n, NEW p, Chain(nx, h, n, p)
  PROVE  n <= Cardinality(Buffers) /\ Cardinality(Buffers) \in Nat
<1>1. n \in Nat /\ p \in Injection(1..n, Buffers)
  BY DEF Chain, Injection, IsInjective
<1>2. IsFiniteSet(Buffers) /\ Cardinality(Buffers) \in Nat
  BY ConstantsAssumption, FS_CardinalityType
<1>3. Cardinality(1..n) <= Cardinality(Buffers)
  BY <1>1, <1>2, FS_Injection
<1>4. Cardinality(1..n) = n
  BY <1>1, FS_Interval
<1> QED
  BY <1>1, <1>2, <1>3, <1>4

\* Walk follows the chain, and stays at NULL after its end.
LEMMA WalkIsChain ==
  ASSUME NEW h, NEW n, NEW p, Chain(next, h, n, p)
  PROVE  Walk(h) = [k \in 0..Cardinality(Buffers) |->
                      IF k < n THEN p[k + 1] ELSE NULL]
<1> DEFINE N == Cardinality(Buffers)
           g == [k \in 0..N |-> IF k < n THEN p[k + 1] ELSE NULL]
           Step(f) == [k \in 0..N |-> IF k = 0 THEN h
                         ELSE IF f[k - 1] = NULL THEN NULL ELSE next[f[k - 1]]]
<1>1. n <= N /\ N \in Nat /\ n \in Nat
  <2>1. n \in Nat
    BY DEF Chain
  <2>2. n <= Cardinality(Buffers) /\ Cardinality(Buffers) \in Nat
    BY ChainLength
  <2> QED
    BY <2>1, <2>2
<1> HIDE DEF N
<1>2. \A i \in 1..n : p[i] # NULL
  BY ConstantsAssumption DEF Chain
<1>3. g = Step(g)
  <2> SUFFICES ASSUME NEW k \in 0..N
               PROVE  g[k] = IF k = 0 THEN h
                             ELSE IF g[k - 1] = NULL THEN NULL ELSE next[g[k - 1]]
    OBVIOUS
  <2>1. CASE k = 0
    BY <1>1, <2>1 DEF Chain
  <2>2. CASE k > 0 /\ k - 1 < n
    <3>1. k - 1 \in 0..N /\ k \in 1..n
      BY <1>1, <2>2
    <3>2. g[k - 1] = p[k] /\ p[k] # NULL
      BY <1>2, <2>2, <3>1
    <3>3. CASE k < n
      <4>1. g[k] = p[k + 1] /\ next[p[k]] = p[k + 1]
        BY <3>1, <3>3 DEF Chain
      <4> QED
        BY <2>2, <3>2, <4>1
    <3>4. CASE k = n
      <4>1. g[k] = NULL /\ next[p[k]] = NULL
        BY <1>1, <3>1, <3>4 DEF Chain
      <4> QED
        BY <2>2, <3>2, <4>1
    <3> QED
      BY <1>1, <3>1, <3>3, <3>4
  <2>3. CASE k > 0 /\ ~ (k - 1 < n)
    <3>1. k - 1 \in 0..N /\ ~ (k < n)
      BY <1>1, <2>3
    <3> QED
      BY <2>3, <3>1
  <2> QED
    BY <2>1, <2>2, <2>3
<1>4. Walk(h) = Step(Walk(h))
  <2>1. Walk(h) = CHOOSE f : f = Step(f)
    BY DEF Walk, N
  <2>2. \E f : f = Step(f)
    BY <1>3
  <2> HIDE DEF Step
  <2> QED
    BY <2>1, <2>2, Zenon
<1> HIDE DEF g
<1>5. ASSUME NEW f, f = Step(f) PROVE f = g
  <2> DEFINE T == {k \in 0..N : f[k] # g[k]}
  <2>1. CASE T = {}
    <3>1. DOMAIN f = 0..N /\ f = [k \in 0..N |-> f[k]]
      BY <1>5
    <3>2. g = [k \in 0..N |-> g[k]]
      BY DEF g
    <3> QED
      BY <2>1, <3>1, <3>2
  <2>2. CASE T # {}
    <3>1. PICK k \in T : \A j \in T : k <= j
      <4>1. T \subseteq Nat
        BY <1>1
      <4> HIDE DEF T
      <4> QED
        BY <2>2, <4>1, LeastNumber
    <3>2. k # 0
      BY <1>1, <1>3, <1>5, <3>1
    <3>3. k - 1 \in 0..N /\ k - 1 \notin T /\ k \in 0..N
      BY <1>1, <3>1, <3>2
    <3>4. f[k - 1] = g[k - 1]
      BY <3>3
    <3>5. f[k] = Step(f)[k] /\ g[k] = Step(g)[k]
      BY <1>3, <1>5
    <3>6. f[k] = g[k]
      BY <3>2, <3>3, <3>4, <3>5
    <3> QED
      BY <3>1, <3>6
  <2> QED
    BY <2>1, <2>2
<1> QED
  BY <1>4, <1>5 DEF g, N

\* A list ends, and Listed gives its buffers.
LEMMA ListedIsList ==
  ASSUME NEW h, NEW R, IsList(next, h, R)
  PROVE  Ends(h) /\ Listed(h) = R
<1>1. PICK n \in Nat : \E p \in [1..n -> Buffers] : Chain(next, h, n, p) /\ R = Links(n, p)
  BY DEF IsList
<1>2. PICK p \in [1..n -> Buffers] : Chain(next, h, n, p) /\ R = Links(n, p)
  BY <1>1
<1> DEFINE N == Cardinality(Buffers)
<1>3. n <= N /\ N \in Nat
  BY <1>2, ChainLength
<1>4. Walk(h) = [k \in 0..N |-> IF k < n THEN p[k + 1] ELSE NULL]
  BY <1>2, WalkIsChain
<1> HIDE DEF N
<1>5. \A i \in 1..n : p[i] # NULL
  BY ConstantsAssumption
<1>6. Ends(h)
  BY <1>3, <1>4 DEF Ends, N
<1>7. Listed(h) = {Walk(h)[k] : k \in 0..N} \ {NULL}
  BY DEF Listed, N
<1>8. ASSUME NEW x \in Listed(h) PROVE x \in R
  <2>1. PICK k \in 0..N : x = Walk(h)[k] /\ x # NULL
    BY <1>7, <1>8
  <2>2. k < n /\ x = p[k + 1] /\ k + 1 \in 1..n
    BY <1>3, <1>4, <2>1
  <2> QED
    BY <1>2, <2>2 DEF Links
<1>9. ASSUME NEW x \in R PROVE x \in Listed(h)
  <2>1. PICK i \in 1..n : x = p[i]
    BY <1>2, <1>9 DEF Links
  <2>2. i - 1 \in 0..N /\ i - 1 < n /\ (i - 1) + 1 = i
    BY <1>3, <2>1
  <2>3. Walk(h)[i - 1] = x /\ x # NULL
    BY <1>4, <1>5, <2>1, <2>2
  <2> QED
    BY <1>7, <2>2, <2>3
<1> QED
  BY <1>6, <1>8, <1>9

\* The empty list.
LEMMA ListEmpty ==
  ASSUME NEW nx
  PROVE  IsList(nx, NULL, {})
<1> DEFINE p == [i \in 1..0 |-> NULL]
<1>1. p \in [1..0 -> Buffers] /\ Links(0, p) = {} /\ Chain(nx, NULL, 0, p)
  BY DEF Links, Chain
<1> QED
  BY <1>1 DEF IsList

\* What a list says of its head and its buffers.
LEMMA ListHead ==
  ASSUME NEW nx, NEW h, NEW R, IsList(nx, h, R)
  PROVE  R \subseteq Buffers /\ h \in R \cup {NULL} /\ (h = NULL => R = {})
<1>1. PICK n \in Nat : \E p \in [1..n -> Buffers] : Chain(nx, h, n, p) /\ R = Links(n, p)
  BY DEF IsList
<1>2. PICK p \in [1..n -> Buffers] : Chain(nx, h, n, p) /\ R = Links(n, p)
  BY <1>1
<1>3. R \subseteq Buffers
  BY <1>2 DEF Links
<1>4. CASE n = 0
  BY <1>2, <1>3, <1>4 DEF Links, Chain
<1>5. CASE n > 0
  <2>1. 1 \in 1..n /\ h = p[1] /\ h \in R /\ h \in Buffers
    BY <1>2, <1>5 DEF Links, Chain
  <2> QED
    BY <1>3, <2>1, ConstantsAssumption
<1> QED
  BY <1>4, <1>5

\* The link of a buffer outside the list does not matter.
LEMMA ListFrame ==
  ASSUME NEW nx, NEW h, NEW R, IsList(nx, h, R),
         NEW my, \A b \in R : my[b] = nx[b]
  PROVE  IsList(my, h, R)
<1>1. PICK n \in Nat : \E p \in [1..n -> Buffers] : Chain(nx, h, n, p) /\ R = Links(n, p)
  BY DEF IsList
<1>2. PICK p \in [1..n -> Buffers] : Chain(nx, h, n, p) /\ R = Links(n, p)
  BY <1>1
<1>3. \A i \in 1..n : my[p[i]] = nx[p[i]]
  BY <1>2 DEF Links
<1>4. n > 0 => n \in 1..n
  OBVIOUS
<1>5. Chain(my, h, n, p)
  BY <1>2, <1>3, <1>4 DEF Chain
<1> QED
  BY <1>2, <1>5 DEF IsList

\* A new first buffer, linked to the head before.
LEMMA ListPush ==
  ASSUME NEW nx, NEW h, NEW R, IsList(nx, h, R), NEW b \in Buffers, b \notin R,
         NEW my, my[b] = h, \A c \in R : my[c] = nx[c]
  PROVE  IsList(my, b, R \cup {b})
<1>1. PICK n \in Nat : \E p \in [1..n -> Buffers] : Chain(my, h, n, p) /\ R = Links(n, p)
  <2>1. IsList(my, h, R)
    BY ListFrame
  <2> QED
    BY <2>1 DEF IsList
<1>2. PICK p \in [1..n -> Buffers] : Chain(my, h, n, p) /\ R = Links(n, p)
  BY <1>1
<1> DEFINE q == [i \in 1..(n + 1) |-> IF i = 1 THEN b ELSE p[i - 1]]
<1>3. /\ q \in [1..(n + 1) -> Buffers] /\ q[1] = b
      /\ \A i \in 2..(n + 1) : i - 1 \in 1..n /\ q[i] = p[i - 1]
      /\ \A i \in 1..n : p[i] # b /\ i + 1 \in 2..(n + 1) /\ q[i + 1] = p[i]
  BY <1>2 DEF Links
<1> HIDE DEF q
<1>4. \A i, j \in 1..(n + 1) : q[i] = q[j] => i = j
  <2> SUFFICES ASSUME NEW i \in 1..(n + 1), NEW j \in 1..(n + 1), q[i] = q[j]
               PROVE  i = j
    OBVIOUS
  <2>1. CASE i = 1 \/ j = 1
    BY <1>3, <2>1
  <2>2. CASE i # 1 /\ j # 1
    <3>1. i \in 2..(n + 1) /\ j \in 2..(n + 1)
      BY <2>2
    <3>2. p[i - 1] = p[j - 1] /\ i - 1 \in 1..n /\ j - 1 \in 1..n
      BY <1>3, <3>1
    <3>3. i - 1 = j - 1
      BY <1>2, <3>2 DEF Chain
    <3> QED
      BY <3>1, <3>3
  <2> QED
    BY <2>1, <2>2
<1>5. n = 0 => h = NULL
  BY <1>2 DEF Chain
<1>6. n > 0 => h = p[1] /\ my[p[n]] = NULL /\ n \in 1..n /\ 1 \in 1..n
  BY <1>2 DEF Chain
<1>7. ASSUME NEW i \in 1..(n + 1), i < n + 1 PROVE my[q[i]] = q[i + 1]
  <2>1. CASE i = 1
    BY <1>3, <1>6, <1>7, <2>1
  <2>2. CASE i > 1
    <3>1. i \in 2..(n + 1) /\ i - 1 \in 1..n /\ i - 1 < n /\ i \in 1..n
      BY <1>7, <2>2
    <3>2. q[i] = p[i - 1] /\ q[i + 1] = p[i]
      BY <1>3, <3>1
    <3>3. my[p[i - 1]] = p[(i - 1) + 1]
      BY <1>2, <3>1 DEF Chain
    <3> QED
      BY <3>1, <3>2, <3>3
  <2> QED
    BY <2>1, <2>2
<1>8. my[q[n + 1]] = NULL
  BY <1>3, <1>5, <1>6
<1>9. Chain(my, b, n + 1, q)
  BY <1>3, <1>4, <1>7, <1>8 DEF Chain
<1>10. R \cup {b} = Links(n + 1, q)
  <2>1. ASSUME NEW x \in R PROVE x \in Links(n + 1, q)
    <3>1. PICK i \in 1..n : x = p[i]
      BY <1>2, <2>1 DEF Links
    <3>2. i + 1 \in 1..(n + 1) /\ q[i + 1] = x
      BY <1>3, <3>1
    <3> QED
      BY <3>2 DEF Links
  <2>2. b \in Links(n + 1, q)
    BY <1>3 DEF Links
  <2>3. ASSUME NEW x \in Links(n + 1, q) PROVE x \in R \cup {b}
    <3>1. PICK i \in 1..(n + 1) : x = q[i]
      BY <2>3 DEF Links
    <3>2. CASE i = 1
      BY <1>3, <3>1, <3>2
    <3>3. CASE i # 1
      <4>1. i \in 2..(n + 1)
        BY <3>3
      <4>2. i - 1 \in 1..n /\ x = p[i - 1]
        BY <1>3, <3>1, <4>1
      <4> QED
        BY <1>2, <4>2 DEF Links
    <3> QED
      BY <3>2, <3>3
  <2> QED
    BY <2>1, <2>2, <2>3
<1> QED
  BY <1>3, <1>9, <1>10 DEF IsList

\* The links my and the head g are nx and h with the i-th buffer taken out:
\* the one before it, or the head, has got its link.
TakenOut(nx, h, n, p, i, my, g) ==
  /\ i = 1 => g = nx[p[1]]
  /\ i > 1 => g = h /\ my[p[i - 1]] = nx[p[i]]
  /\ \A j \in 1..n : j # i - 1 /\ j # i => my[p[j]] = nx[p[j]]

\* The rest of the chain is a list.
LEMMA ChainDrop ==
  ASSUME NEW nx, NEW h, NEW n, NEW p, Chain(nx, h, n, p), NEW i \in 1..n,
         NEW my, NEW g, TakenOut(nx, h, n, p, i, my, g)
  PROVE  IsList(my, g, Links(n, p) \ {p[i]})
<1> DEFINE q == [j \in 1..(n - 1) |-> IF j < i THEN p[j] ELSE p[j + 1]]
           old(j) == IF j < i THEN j ELSE j + 1
<1> USE DEF TakenOut
<1>0. /\ n \in Nat /\ p \in [1..n -> Buffers] /\ n >= 1 /\ n - 1 \in Nat /\ n \in 1..n
      /\ \A a, c \in 1..n : p[a] = p[c] => a = c
      /\ h = p[1] /\ nx[p[n]] = NULL
      /\ \A j \in 1..n : j < n => nx[p[j]] = p[j + 1]
  <2>1. n \in Nat /\ n >= 1
    BY DEF Chain
  <2> QED
    BY <2>1 DEF Chain
<1>1. \A j \in 1..(n - 1) : old(j) \in 1..n /\ old(j) # i /\ q[j] = p[old(j)]
  BY <1>0
<1>2. \A j, k \in 1..(n - 1) : old(j) = old(k) => j = k
  BY <1>0
<1>3. q \in [1..(n - 1) -> Buffers]
  BY <1>0
<1>4. \A j, k \in 1..(n - 1) : q[j] = q[k] => j = k
  <2> HIDE DEF q, old
  <2> QED
    BY <1>0, <1>1, <1>2
<1>5. ASSUME NEW j \in 1..n, j # i
      PROVE  \E k \in 1..(n - 1) : q[k] = p[j]
  <2>1. CASE j < i
    <3>1. j \in 1..(n - 1) /\ q[j] = p[j]
      BY <1>0, <2>1
    <3> QED
      BY <3>1
  <2>2. CASE j > i
    <3>1. j - 1 \in 1..(n - 1) /\ ~ (j - 1 < i) /\ (j - 1) + 1 = j
      BY <1>0, <2>2
    <3>2. q[j - 1] = p[j]
      BY <3>1
    <3> QED
      BY <3>1, <3>2
  <2> QED
    BY <1>0, <1>5, <2>1, <2>2
<1>6. Links(n - 1, q) = Links(n, p) \ {p[i]}
  <2> HIDE DEF q, old
  <2>1. ASSUME NEW x \in Links(n - 1, q) PROVE x \in Links(n, p) \ {p[i]}
    <3>1. PICK j \in 1..(n - 1) : x = q[j]
      BY <2>1 DEF Links
    <3>2. old(j) \in 1..n /\ old(j) # i /\ x = p[old(j)]
      BY <1>1, <3>1
    <3>3. x # p[i]
      BY <1>0, <3>2
    <3> QED
      BY <3>2, <3>3 DEF Links
  <2>2. ASSUME NEW x \in Links(n, p) \ {p[i]} PROVE x \in Links(n - 1, q)
    <3>1. PICK j \in 1..n : x = p[j] /\ j # i
      BY <2>2 DEF Links
    <3>2. PICK k \in 1..(n - 1) : q[k] = x
      BY <1>5, <3>1
    <3> QED
      BY <3>2 DEF Links
  <2> QED
    BY <2>1, <2>2
<1>7. i < n => nx[p[i]] = p[i + 1]
  BY <1>0
<1>8. i = n => nx[p[i]] = NULL
  BY <1>0
<1>9. n - 1 = 0 => g = NULL
  BY <1>0, <1>8
<1>10. ASSUME n - 1 > 0 PROVE g = q[1] /\ my[q[n - 1]] = NULL
  <2>1. 1 \in 1..(n - 1) /\ n - 1 \in 1..(n - 1)
    BY <1>0, <1>10
  <2>2. CASE i = 1
    <3>1. q[1] = p[2] /\ g = p[2]
      BY <1>0, <1>7, <1>10, <2>1, <2>2
    <3>2. q[n - 1] = p[n] /\ n # i /\ n # i - 1
      BY <1>0, <1>10, <2>1, <2>2
    <3>3. my[p[n]] = nx[p[n]]
      BY <1>0, <3>2
    <3> QED
      BY <1>0, <3>1, <3>2, <3>3
  <2>3. CASE i > 1
    <3>1. q[1] = p[1] /\ g = p[1]
      BY <1>0, <2>1, <2>3
    <3>2. CASE i = n
      <4>1. q[n - 1] = p[n - 1] /\ my[p[n - 1]] = nx[p[n]]
        BY <1>0, <2>1, <2>3, <3>2
      <4> QED
        BY <1>0, <3>1, <4>1
    <3>3. CASE i # n
      <4>1. q[n - 1] = p[n] /\ n # i /\ n # i - 1
        BY <1>0, <2>1, <3>3
      <4>2. my[p[n]] = nx[p[n]]
        BY <1>0, <4>1
      <4> QED
        BY <1>0, <3>1, <4>1, <4>2
    <3> QED
      BY <3>2, <3>3
  <2> QED
    BY <2>2, <2>3
<1>11. ASSUME NEW j \in 1..(n - 1), j < n - 1 PROVE my[q[j]] = q[j + 1]
  <2>0. j + 1 \in 1..(n - 1)
    BY <1>0, <1>11
  <2>1. CASE j < i - 1
    <3>1. q[j] = p[j] /\ q[j + 1] = p[j + 1] /\ j \in 1..n /\ j # i /\ j # i - 1 /\ j < n
      BY <1>0, <2>0, <2>1
    <3>2. my[p[j]] = nx[p[j]] /\ nx[p[j]] = p[j + 1]
      BY <1>0, <3>1
    <3> QED
      BY <3>1, <3>2
  <2>2. CASE j = i - 1
    <3>1. q[j] = p[i - 1] /\ q[j + 1] = p[i + 1] /\ i > 1 /\ i < n
      BY <1>0, <1>11, <2>0, <2>2
    <3> QED
      BY <1>7, <3>1
  <2>3. CASE j >= i
    <3>1. /\ q[j] = p[j + 1] /\ q[j + 1] = p[(j + 1) + 1]
          /\ j + 1 \in 1..n /\ j + 1 # i /\ j + 1 # i - 1 /\ j + 1 < n
      BY <1>0, <1>11, <2>0, <2>3
    <3>2. my[p[j + 1]] = nx[p[j + 1]] /\ nx[p[j + 1]] = p[(j + 1) + 1]
      BY <1>0, <3>1
    <3> QED
      BY <3>1, <3>2
  <2> QED
    BY <2>1, <2>2, <2>3
<1> HIDE DEF q, old
<1>12. Chain(my, g, n - 1, q)
  BY <1>0, <1>3, <1>4, <1>9, <1>10, <1>11 DEF Chain
<1> QED
  BY <1>0, <1>3, <1>6, <1>12 DEF IsList

\* The first buffer is taken out and its link cleared.
LEMMA ListPop ==
  ASSUME NEW nx, NEW h, NEW R, IsList(nx, h, R), h # NULL,
         NEW my, \A c \in R \ {h} : my[c] = nx[c]
  PROVE  h \in R /\ IsList(my, nx[h], R \ {h})
<1>1. PICK n \in Nat : \E p \in [1..n -> Buffers] : Chain(nx, h, n, p) /\ R = Links(n, p)
  BY DEF IsList
<1>2. PICK p \in [1..n -> Buffers] : Chain(nx, h, n, p) /\ R = Links(n, p)
  BY <1>1
<1>3. n > 0 /\ 1 \in 1..n /\ h = p[1] /\ \A j \in 1..n : p[j] = p[1] => j = 1
  BY <1>2 DEF Chain
<1>4. h \in R
  BY <1>2, <1>3 DEF Links
<1>5. \A j \in 1..n : j # 1 => my[p[j]] = nx[p[j]]
  BY <1>2, <1>3 DEF Links
<1> DEFINE g == nx[h]
<1>6. PICK i \in 1..n : i = 1
  BY <1>3
<1>7. TakenOut(nx, h, n, p, i, my, g)
  BY <1>3, <1>5, <1>6 DEF TakenOut
<1> HIDE DEF g
<1>8. IsList(my, g, Links(n, p) \ {p[i]})
  BY <1>2, <1>7, ChainDrop
<1> QED
  BY <1>2, <1>3, <1>4, <1>6, <1>8 DEF g

\* RemovePendingAccept takes b, which is in the list, out of it; the links of
\* the buffers outside the list stay.
LEMMA RemoveFromList ==
  ASSUME next \in [Buffers -> Buffers \cup {NULL}],
         NEW R, IsList(next, PendingAccepts, R), NEW b \in R, Remove(b)
  PROVE  /\ IsList(next', PendingAccepts', R \ {b})
         /\ next' \in [Buffers -> Buffers \cup {NULL}]
         /\ PendingAccepts' \in Buffers \cup {NULL}
         /\ \A c \in Buffers \ R : next'[c] = next[c]
<1>1. PICK n \in Nat : \E p \in [1..n -> Buffers] :
        Chain(next, PendingAccepts, n, p) /\ R = Links(n, p)
  BY DEF IsList
<1>2. PICK p \in [1..n -> Buffers] : Chain(next, PendingAccepts, n, p) /\ R = Links(n, p)
  BY <1>1
<1>3. PICK i \in 1..n : b = p[i]
  BY <1>2 DEF Links
<1> DEFINE N == Cardinality(Buffers)
           f == Walk(PendingAccepts)
           stop == {k \in DOMAIN f : f[k] \in {b, NULL}}
           m == CHOOSE j \in stop : \A k \in stop : j <= k
<1>4. n <= N /\ N \in Nat
  BY <1>2, ChainLength
<1>5. f = [k \in 0..N |-> IF k < n THEN p[k + 1] ELSE NULL]
  BY <1>2, WalkIsChain
<1>6. \/ m = 0 /\ PendingAccepts' = next[b] /\ UNCHANGED next
      \/ /\ m > 0 /\ next' = [next EXCEPT ![f[m - 1]] = next[b]]
         /\ UNCHANGED PendingAccepts
  BY DEF Remove
<1> HIDE DEF N, f
<1>7. \A j, k \in 1..n : p[j] = p[k] => j = k
  BY <1>2 DEF Chain
<1>8. \A k \in 1..n : p[k] \in Buffers /\ p[k] \in R /\ p[k] # NULL
  BY <1>2, ConstantsAssumption DEF Links
<1>9. m = i - 1
  <2>1. i - 1 \in stop
    <3>1. i - 1 \in 0..N /\ i - 1 < n /\ (i - 1) + 1 = i
      BY <1>3, <1>4
    <3>2. f[i - 1] = b /\ DOMAIN f = 0..N
      BY <1>3, <1>5, <3>1
    <3> QED
      BY <3>1, <3>2
  <2>2. ASSUME NEW k \in stop PROVE k \in Nat /\ i - 1 <= k
    <3>1. k \in 0..N /\ f[k] \in {b, NULL} /\ k \in Nat
      BY <1>4, <1>5, <2>2
    <3>2. CASE k < n
      <4>1. f[k] = p[k + 1] /\ k + 1 \in 1..n
        BY <1>4, <1>5, <3>1, <3>2
      <4>2. p[k + 1] = p[i]
        BY <1>3, <1>8, <3>1, <4>1
      <4>3. k + 1 = i
        BY <1>7, <4>1, <4>2
      <4> QED
        BY <3>1, <4>3
    <3>3. CASE ~ (k < n)
      BY <3>1, <3>3
    <3> QED
      BY <3>2, <3>3
  <2> HIDE DEF stop
  <2>3. m \in stop /\ \A k \in stop : m <= k
    BY <2>1, <2>2
  <2> HIDE DEF m
  <2> QED
    BY <2>1, <2>2, <2>3
<1> HIDE DEF m
<1>10. b \in Buffers /\ next[b] \in Buffers \cup {NULL}
  BY <1>3, <1>8
<1>11. CASE i = 1
  <2>1. PendingAccepts' = next[b] /\ next' = next
    BY <1>6, <1>9, <1>11
  <2>2. /\ PendingAccepts' = next[p[1]]
        /\ \A j \in 1..n : j # i - 1 /\ j # i => next'[p[j]] = next[p[j]]
    BY <1>3, <1>11, <2>1
  <2> DEFINE my == next'
             g == PendingAccepts'
  <2>3. TakenOut(next, PendingAccepts, n, p, i, my, g)
    BY <1>11, <2>2 DEF TakenOut
  <2> HIDE DEF my, g
  <2>4. IsList(my, g, Links(n, p) \ {p[i]})
    BY <1>2, <2>3, ChainDrop
  <2> QED
    BY <1>2, <1>3, <1>10, <2>1, <2>4 DEF my, g
<1>12. CASE i > 1
  <2>1. i - 1 \in 1..n /\ i - 2 \in 0..N /\ i - 2 < n /\ (i - 2) + 1 = i - 1
    BY <1>4, <1>12
  <2>2. f[i - 2] = p[i - 1]
    BY <1>5, <2>1
  <2>3. next' = [next EXCEPT ![p[i - 1]] = next[b]] /\ PendingAccepts' = PendingAccepts
    <3>1. m > 0 /\ m - 1 = i - 2
      BY <1>9, <1>12
    <3> QED
      BY <1>6, <2>2, <3>1
  <2>4. next'[p[i - 1]] = next[b]
    BY <1>8, <2>1, <2>3
  <2>5. \A c \in Buffers : c # p[i - 1] => next'[c] = next[c]
    BY <2>3
  <2> DEFINE my == next'
             g == PendingAccepts'
  <2>6. TakenOut(next, PendingAccepts, n, p, i, my, g)
    BY <1>3, <1>7, <1>8, <1>12, <2>1, <2>3, <2>4, <2>5 DEF TakenOut
  <2>7. /\ next' \in [Buffers -> Buffers \cup {NULL}]
        /\ PendingAccepts' \in Buffers \cup {NULL}
    <3>1. PendingAccepts \in R \cup {NULL} /\ R \subseteq Buffers
      BY ListHead
    <3> QED
      BY <1>10, <2>3, <3>1
  <2>8. \A c \in Buffers \ R : next'[c] = next[c]
    BY <1>8, <2>1, <2>5
  <2> HIDE DEF my, g
  <2>9. IsList(my, g, Links(n, p) \ {p[i]})
    BY <1>2, <2>6, ChainDrop
  <2> QED
    BY <1>2, <1>3, <2>7, <2>8, <2>9 DEF my, g
<1> QED
  BY <1>3, <1>11, <1>12

-----------------------------------------------------------------------------
(* The inductive invariant.                                                *)

WorkerPcs == {"get", "ok", "error", "remove", "hung", "socket", "repost", "signal"}

WorkerState == [pc : WorkerPcs, b : Buffers \cup {NULL}]

\* Where a worker has a buffer in its hand.
Holding == {"ok", "error", "remove", "hung", "socket"}

\* Clients in the backlog have connected.
BackInv == backlog <= clients

\* A buffer in a worker's hand is in no other worker's hand, and the buffer
\* the main thread prepares is nobody else's.
HandsInv ==
  /\ \A w \in Workers : wk[w].pc \in Holding =>
        wk[w].b \in Buffers /\ buf[wk[w].b] = "worker"
  /\ \A v, w \in Workers :
        wk[v].pc \in Holding /\ wk[w].pc \in Holding /\ wk[v].b = wk[w].b => v = w
  /\ mn.pc \in {"insert", "post"} => mn.b \in Buffers /\ buf[mn.b] = "main"
  /\ mn.pc = "count" => mn.b \in Buffers /\ buf[mn.b] # "main"

\* A buffer is lost only by a failure.
LostInv == \A b \in Buffers : buf[b] = "lost" => failed

Freed == {b \in Buffers : buf[b] = "free"}

\* As long as no accept has failed, the links are those of two lists: the
\* free buffers, and what is to be listed with buffers that were lost.
ListInv == refused = 0 =>
  /\ IsList(next, gFreeBufferList, Freed)
  /\ \E R \in SUBSET Buffers :
       /\ IsList(next, PendingAccepts, R)
       /\ ToBeListed \subseteq R
       /\ \A b \in R : b \in ToBeListed \/ buf[b] = "lost"

\* Clients wait, and no event says so.
Unheard == ~failed /\ ~lost /\ backlog > 0 /\ Waiting = {} /\ ~AcceptEvent

\* Somebody will post an accept, or ask for one.
Hope ==
  \/ mn.pc \in {"insert", "post"}
  \/ mn.pc \in {"loop", "reset"} /\ mn.limit > 0
  \/ RepostCount > 0
  \/ \E w \in Workers : wk[w].pc \in {"remove", "hung", "socket", "repost"}

ServeInv == Unheard => PendingAcceptCount >= MaxAccepts \/ Hope

\* A worker that has asked for an accept has signalled it or will.
SignalInv ==
  ~lost /\ RepostCount > 0 => RepostAccept \/ \E w \in Workers : wk[w].pc = "signal"

IInv == TypeOK /\ BackInv /\ HandsInv /\ LostInv /\ AcceptsCounted /\ ListInv
        /\ ServeInv /\ SignalInv

\* A worker goes on, and the others stay.
LEMMA GotoFacts ==
  ASSUME TypeOK, NEW w \in Workers, NEW l \in WorkerPcs, Goto(w, l)
  PROVE  /\ wk' \in [Workers -> WorkerState]
         /\ wk'[w].pc = l /\ (l # "get" => wk'[w].b = wk[w].b)
         /\ \A v \in Workers : v # w => wk'[v] = wk[v]
<1> DEFINE r == [pc |-> l, b |-> IF l = "get" THEN NULL ELSE wk[w].b]
<1>1. wk \in [Workers -> WorkerState]
  BY DEF TypeOK, WorkerState, WorkerPcs
<1>2. r \in WorkerState /\ r.pc = l /\ (l # "get" => r.b = wk[w].b)
  BY <1>1 DEF WorkerState
<1>3. wk' = [wk EXCEPT ![w] = r]
  BY DEF Goto
<1> HIDE DEF r
<1> QED
  BY <1>1, <1>2, <1>3

-----------------------------------------------------------------------------
(* The types.                                                              *)

\* The types of everything but the threads.
DataOK ==
  /\ buf \in [Buffers -> {"heap", "free", "main", "posted", "ok", "error",
                          "worker", "used", "lost"}]
  /\ sclient \in [Buffers -> {"none", "open", "connected", "stale", "closed"}]
  /\ next \in [Buffers -> Buffers \cup {NULL}]
  /\ gFreeBufferList \in Buffers \cup {NULL}
  /\ PendingAccepts \in Buffers \cup {NULL}
  /\ PendingAcceptCount \in Int /\ RepostCount \in Nat
  /\ RepostAccept \in BOOLEAN /\ AcceptEvent \in BOOLEAN
  /\ ListenCritSec \in Workers \cup {NULL, Main}
  /\ clients \in 0..MaxClients /\ backlog \in 0..MaxClients
  /\ failed \in BOOLEAN /\ refused \in Nat
  /\ lost \in BOOLEAN /\ misuse \in BOOLEAN

MainState == [pc : {"wait", "reset", "loop", "insert", "post", "count", "sweep"},
              first : BOOLEAN, limit : Nat, b : Buffers \cup {NULL}]

\* The type invariant in these terms.
LEMMA TypeParts ==
  TypeOK <=> DataOK /\ mn \in MainState /\ wk \in [Workers -> WorkerState]
BY DEF TypeOK, DataOK, MainState, WorkerState, WorkerPcs

\* The same in the next state.
LEMMA TypePartsPrime ==
  TypeOK' <=> DataOK' /\ mn' \in MainState /\ wk' \in [Workers -> WorkerState]
BY DEF TypeOK, DataOK, MainState, WorkerState, WorkerPcs

\* FreeBufferObj keeps the types.
LEMMA FreeTypes ==
  ASSUME DataOK, NEW b \in Buffers, FreeBufferObj(b, "free")
  PROVE  /\ buf' \in [Buffers -> {"heap", "free", "main", "posted", "ok", "error",
                                  "worker", "used", "lost"}]
         /\ sclient' \in [Buffers -> {"none", "open", "connected", "stale", "closed"}]
         /\ next' \in [Buffers -> Buffers \cup {NULL}]
         /\ gFreeBufferList' \in Buffers \cup {NULL}
BY DEF DataOK, FreeBufferObj

\* A step of the clients and the kernel keeps the types.
LEMMA EnvironmentTypes ==
  ASSUME IInv, Environment
  PROVE  TypeOK' /\ BackInv'
<1>0. DataOK /\ mn \in MainState /\ wk \in [Workers -> WorkerState]
  BY TypeParts DEF IInv
<1> USE ConstantsAssumption DEF BackInv
<1>1. BackInv
  BY DEF IInv
<1>2. DataOK' /\ BackInv'
  <2>1. CASE ClientArrives
    <3>1. AcceptEvent' \in BOOLEAN
      <4>1. AcceptEvent \in BOOLEAN
        BY <1>0 DEF DataOK
      <4>2. AcceptEvent' = AcceptEvent \/ AcceptEvent' = (AcceptEvent \/ backlog = 0)
        BY <2>1 DEF ClientArrives
      <4> QED
        BY <4>1, <4>2, Zenon
    <3>2. clients' \in 0..MaxClients /\ backlog' \in 0..MaxClients /\ backlog' <= clients'
      BY <1>0, <1>1, <2>1 DEF ClientArrives, DataOK
    <3>3. sclient' \in [Buffers -> {"none", "open", "connected", "stale", "closed"}]
      BY <1>0, <2>1 DEF ClientArrives, DataOK
    <3> QED
      BY <1>0, <2>1, <3>1, <3>2, <3>3
      DEF ClientArrives, DataOK, listVars, repostVars, history
  <2>2. CASE ClientTaken
    <3>1. AcceptEvent' \in BOOLEAN
      <4>1. AcceptEvent' = (AcceptEvent \/ backlog > 1)
        BY <2>2 DEF ClientTaken
      <4> QED
        BY <4>1, Zenon
    <3>2. clients' \in 0..MaxClients /\ backlog' \in 0..MaxClients /\ backlog' <= clients'
      BY <1>0, <1>1, <2>2 DEF ClientTaken, DataOK
    <3>3. sclient' \in [Buffers -> {"none", "open", "connected", "stale", "closed"}]
      BY <1>0, <2>2 DEF ClientTaken, DataOK
    <3> QED
      BY <1>0, <2>2, <3>1, <3>2, <3>3
      DEF ClientTaken, DataOK, listVars, repostVars, history
  <2>3. ASSUME NEW b \in Buffers, TimePasses(b) PROVE DataOK' /\ BackInv'
    BY <1>0, <1>1, <2>3 DEF TimePasses, DataOK, listVars, repostVars, netVars, history
  <2>4. ASSUME NEW b \in Buffers, AcceptCompletes(b) PROVE DataOK' /\ BackInv'
    BY <1>0, <1>1, <2>4 DEF AcceptCompletes, DataOK, listVars, repostVars, netVars
  <2>5. ASSUME NEW b \in Buffers, ConnectionEnds(b) PROVE DataOK' /\ BackInv'
    <3>1. FreeBufferObj(b, "free")
      BY <2>5 DEF ConnectionEnds
    <3> QED
      BY <1>0, <1>1, <2>5, <3>1, FreeTypes DEF ConnectionEnds, DataOK, repostVars, netVars, history
  <2> QED
    BY <2>1, <2>2, <2>3, <2>4, <2>5 DEF Environment
<1>3. mn' = mn /\ wk' = wk
  BY DEF Environment, ClientArrives, ClientTaken, TimePasses, AcceptCompletes,
         ConnectionEnds
<1>4. TypeOK'
  <2>1. DataOK' /\ mn' \in MainState /\ wk' \in [Workers -> WorkerState]
    BY <1>0, <1>2, <1>3
  <2> QED
    BY <2>1, TypePartsPrime
<1> QED
  BY <1>2, <1>4

\* A step of the main thread keeps the types.
LEMMA MainTypes ==
  ASSUME IInv, MainStep
  PROVE  TypeOK' /\ BackInv'
<1>0. DataOK /\ mn \in MainState /\ wk \in [Workers -> WorkerState] /\ BackInv
  BY TypeParts DEF IInv
<1> SUFFICES ASSUME TRUE PROVE (DataOK' /\ mn' \in MainState) /\ BackInv'
  <2>1. wk' = wk
    BY DEF MainStep, TakeAcceptEvent, TakeRepost, ResetRepost, GetBufferObj,
           HandOutTwice, InsertPendingAccept, PostAccept, CountAccept, LoopEnds,
           Timeout, Sweep
  <2> QED
    BY <1>0, <2>1, TypePartsPrime
<1>1. BackInv'
  <2>1. UNCHANGED <<clients, backlog>>
    BY DEF MainStep, TakeAcceptEvent, TakeRepost, ResetRepost, GetBufferObj,
           HandOutTwice, InsertPendingAccept, PostAccept, CountAccept, LoopEnds,
           Timeout, Sweep, netVars
  <2> QED
    BY <1>0, <2>1 DEF BackInv
<1>2. mn.b = NULL \/ mn.b \in Buffers
  BY <1>0 DEF MainState
<1>3. CASE TakeAcceptEvent
  BY <1>0, <1>1, <1>3, ConstantsAssumption
  DEF TakeAcceptEvent, DataOK, MainState, listVars, repostVars, history
<1>4. CASE TakeRepost
  BY <1>0, <1>1, <1>4 DEF TakeRepost, DataOK, MainState, listVars, netVars, history
<1>5. CASE ResetRepost
  <2>1. lost' \in BOOLEAN
    <3>1. lost' = (lost \/ RepostCount > 0)
      BY <1>5 DEF ResetRepost
    <3> QED
      BY <3>1, Zenon
  <2> QED
    BY <1>0, <1>1, <1>5, <2>1 DEF ResetRepost, DataOK, MainState, MainGoto, listVars, netVars
<1>6. CASE GetBufferObj
  <2>1. mn.limit - 1 \in Nat
    <3>1. mn.limit \in Nat
      BY <1>0 DEF MainState
    <3>2. mn.limit > 0
      BY <1>6 DEF GetBufferObj, MorePosts
    <3> QED
      BY <3>1, <3>2
  <2>2. mn' \in MainState
    BY <1>0, <1>6, <2>1 DEF GetBufferObj, MainState, DataOK
  <2>3. /\ buf' \in [Buffers -> {"heap", "free", "main", "posted", "ok", "error",
                                  "worker", "used", "lost"}]
        /\ next' \in [Buffers -> Buffers \cup {NULL}]
        /\ gFreeBufferList' \in Buffers \cup {NULL} /\ failed' \in BOOLEAN
    BY <1>0, <1>6 DEF GetBufferObj, DataOK
  <2> QED
    BY <1>0, <1>1, <1>6, <2>2, <2>3 DEF GetBufferObj, DataOK, repostVars, netVars
<1>7. CASE HandOutTwice
  BY <1>0, <1>1, <1>7 DEF HandOutTwice, DataOK, MainState, listVars, repostVars, netVars
<1>8. CASE InsertPendingAccept
  BY <1>0, <1>1, <1>8
  DEF InsertPendingAccept, DataOK, MainState, MainGoto, repostVars, netVars, history
<1>9. CASE PostAccept
  <2>1. mn' \in MainState
    BY <1>0, <1>9 DEF PostAccept, MainState, MainGoto
  <2>2. /\ buf' \in [Buffers -> {"heap", "free", "main", "posted", "ok", "error",
                                  "worker", "used", "lost"}]
        /\ sclient' \in [Buffers -> {"none", "open", "connected", "stale", "closed"}]
        /\ failed' \in BOOLEAN
    BY <1>0, <1>9 DEF PostAccept, DataOK
  <2> QED
    BY <1>0, <1>1, <1>9, <2>1, <2>2
    DEF PostAccept, DataOK, listVars, repostVars, netVars
<1>10. CASE CountAccept
  <2>1. mn' \in MainState
    BY <1>0, <1>10 DEF CountAccept, MainState
  <2> QED
    BY <1>0, <1>1, <1>10, <2>1
    DEF CountAccept, DataOK, listVars, repostVars, netVars, history
<1>11. CASE LoopEnds
  BY <1>0, <1>1, <1>11
  DEF LoopEnds, DataOK, MainState, listVars, repostVars, netVars, history
<1>12. CASE Timeout
  BY <1>0, <1>1, <1>12
  DEF Timeout, DataOK, MainState, listVars, repostVars, netVars, history
<1>13. CASE Sweep
  <2>1. mn' \in MainState /\ ListenCritSec' \in Workers \cup {NULL, Main}
    BY <1>0, <1>2, <1>13 DEF Sweep, MainState, MainGoto, DataOK
  <2>2. sclient' \in [Buffers -> {"none", "open", "connected", "stale", "closed"}]
    BY <1>0, <1>13 DEF Sweep, DataOK
  <2> QED
    BY <1>0, <1>1, <1>13, <2>1, <2>2
    DEF Sweep, DataOK, listVars, repostVars, netVars, history
<1> QED
  BY <1>3, <1>4, <1>5, <1>6, <1>7, <1>8, <1>9, <1>10, <1>11, <1>12, <1>13
  DEF MainStep

\* A step of a worker keeps the types.
LEMMA WorkTypes ==
  ASSUME IInv, NEW w \in Workers, Work(w)
  PROVE  TypeOK' /\ BackInv'
<1>0. TypeOK /\ DataOK /\ mn \in MainState /\ wk \in [Workers -> WorkerState] /\ BackInv
      /\ HandsInv
  BY TypeParts DEF IInv
<1> SUFFICES ASSUME TRUE PROVE DataOK' /\ wk' \in [Workers -> WorkerState]
  <2>1. mn' = mn /\ UNCHANGED <<clients, backlog>>
    BY DEF Work, Dequeue, HandleError, CountDown, RemovePendingAccept, Associate,
           CountRepost, SignalRepost, netVars
  <2> QED
    BY <1>0, <2>1, TypePartsPrime DEF BackInv
<1>1. wk[w].pc \in Holding => wk[w].b \in Buffers
  BY <1>0 DEF HandsInv
<1>2. ASSUME NEW b \in Buffers, Dequeue(w, b)
      PROVE  DataOK' /\ wk' \in [Workers -> WorkerState]
  <2>1. [pc |-> buf[b], b |-> b] \in WorkerState
    BY <1>2 DEF Dequeue, WorkerState, WorkerPcs
  <2> QED
    BY <1>0, <1>2, <2>1 DEF Dequeue, DataOK, listVars, repostVars, netVars, history
<1>3. CASE HandleError(w)
  <2>1. wk' \in [Workers -> WorkerState]
    BY <1>0, <1>3, GotoFacts DEF HandleError, WorkerPcs
  <2>2. wk[w].b \in Buffers /\ FreeBufferObj(wk[w].b, "free")
    BY <1>1, <1>3 DEF HandleError, Holding
  <2> QED
    BY <1>0, <1>3, <2>1, <2>2, FreeTypes
    DEF HandleError, DataOK, repostVars, netVars
<1>4. CASE CountDown(w)
  <2>1. wk' \in [Workers -> WorkerState]
    BY <1>0, <1>4, GotoFacts DEF CountDown, WorkerPcs
  <2> QED
    BY <1>0, <1>4, <2>1 DEF CountDown, DataOK, listVars, repostVars, netVars, history
<1>5. CASE RemovePendingAccept(w)
  <2>1. wk' \in [Workers -> WorkerState]
    BY <1>0, <1>5, GotoFacts DEF RemovePendingAccept, WorkerPcs
  <2>2. wk[w].b \in Buffers
    BY <1>1, <1>5 DEF RemovePendingAccept, Holding
  <2>3. next[wk[w].b] \in Buffers \cup {NULL}
    BY <1>0, <2>2 DEF DataOK
  <2>4. /\ next' \in [Buffers -> Buffers \cup {NULL}]
        /\ PendingAccepts' \in Buffers \cup {NULL}
    <3>1. CASE Remove(wk[w].b)
      <4>1. \/ PendingAccepts' = next[wk[w].b] /\ next' = next
            \/ /\ \E a : next' = [next EXCEPT ![a] = next[wk[w].b]]
               /\ PendingAccepts' = PendingAccepts
        BY <3>1, Zenon DEF Remove
      <4> QED
        BY <1>0, <2>3, <4>1 DEF DataOK
    <3>2. CASE UNCHANGED <<next, PendingAccepts>>
      BY <1>0, <3>2 DEF DataOK
    <3> QED
      BY <1>5, <3>1, <3>2 DEF RemovePendingAccept
  <2> QED
    BY <1>0, <1>5, <2>1, <2>4 DEF RemovePendingAccept, DataOK, repostVars, netVars, history
<1>6. CASE Associate(w)
  <2>1. wk' \in [Workers -> WorkerState]
    BY <1>0, <1>6, GotoFacts DEF Associate, WorkerPcs
  <2>2. wk[w].b \in Buffers
    BY <1>1, <1>6 DEF Associate, Holding
  <2>3. /\ buf' \in [Buffers -> {"heap", "free", "main", "posted", "ok", "error",
                                  "worker", "used", "lost"}]
        /\ sclient' \in [Buffers -> {"none", "open", "connected", "stale", "closed"}]
        /\ next' \in [Buffers -> Buffers \cup {NULL}]
        /\ gFreeBufferList' \in Buffers \cup {NULL} /\ failed' \in BOOLEAN
    <3>1. CASE FreeBufferObj(wk[w].b, "free") /\ failed' = TRUE
      BY <1>0, <2>2, <3>1, FreeTypes
    <3>2. CASE /\ buf' = [buf EXCEPT ![wk[w].b] = "used"]
               /\ next' = [next EXCEPT ![wk[w].b] = NULL]
               /\ UNCHANGED <<sclient, gFreeBufferList, failed>>
      BY <1>0, <3>2 DEF DataOK
    <3>3. CASE /\ buf' = [buf EXCEPT ![wk[w].b] = "lost"] /\ failed' = TRUE
               /\ UNCHANGED <<sclient, next, gFreeBufferList>>
      BY <1>0, <3>3 DEF DataOK
    <3> QED
      BY <1>6, <3>1, <3>2, <3>3 DEF Associate
  <2> QED
    BY <1>0, <1>6, <2>1, <2>3 DEF Associate, DataOK, repostVars, netVars
<1>7. CASE CountRepost(w)
  <2>1. wk' \in [Workers -> WorkerState]
    BY <1>0, <1>7, GotoFacts DEF CountRepost, WorkerPcs
  <2> QED
    BY <1>0, <1>7, <2>1 DEF CountRepost, DataOK, listVars, netVars, history
<1>8. CASE SignalRepost(w)
  <2>1. wk' \in [Workers -> WorkerState]
    BY <1>0, <1>8, GotoFacts DEF SignalRepost, WorkerPcs
  <2> QED
    BY <1>0, <1>8, <2>1 DEF SignalRepost, DataOK, listVars, netVars, history
<1> QED
  BY <1>2, <1>3, <1>4, <1>5, <1>6, <1>7, <1>8 DEF Work

-----------------------------------------------------------------------------
(* Who holds which buffer.                                                 *)

\* What the main thread's and the workers' hands see of the state stays.
LEMMA HandsKept ==
  ASSUME HandsInv, UNCHANGED wk,
         \A b \in Buffers : buf[b] \in {"worker", "main"} => buf'[b] = buf[b],
         \A b \in Buffers : buf'[b] = "main" => buf[b] = "main",
         \/ mn' = mn
         \/ mn'.pc \notin {"insert", "post", "count"}
         \/ mn.pc = "insert" /\ mn'.pc = "post" /\ mn'.b = mn.b
  PROVE  HandsInv'
BY DEF HandsInv

\* A step of the clients and the kernel.
LEMMA EnvironmentHands ==
  ASSUME IInv, Environment
  PROVE  HandsInv' /\ LostInv'
<1>0. TypeOK /\ HandsInv /\ LostInv
  BY DEF IInv
<1>1. UNCHANGED <<mn, wk>>
  BY DEF Environment, ClientArrives, ClientTaken, TimePasses, AcceptCompletes,
         ConnectionEnds
<1>2. /\ \A b \in Buffers : buf[b] \in {"worker", "main"} => buf'[b] = buf[b]
      /\ \A b \in Buffers : buf'[b] \in {"main", "lost"} => buf'[b] = buf[b]
      /\ failed => failed'
  <2>1. CASE ClientArrives \/ ClientTaken \/ \E b \in Buffers : TimePasses(b)
    BY <2>1 DEF ClientArrives, ClientTaken, TimePasses, history
  <2>2. ASSUME NEW b \in Buffers, AcceptCompletes(b)
        PROVE  /\ \A c \in Buffers : buf[c] \in {"worker", "main"} => buf'[c] = buf[c]
               /\ \A c \in Buffers : buf'[c] \in {"main", "lost"} => buf'[c] = buf[c]
               /\ failed => failed'
    BY <1>0, <2>2 DEF AcceptCompletes, TypeOK
  <2>3. ASSUME NEW b \in Buffers, ConnectionEnds(b)
        PROVE  /\ \A c \in Buffers : buf[c] \in {"worker", "main"} => buf'[c] = buf[c]
               /\ \A c \in Buffers : buf'[c] \in {"main", "lost"} => buf'[c] = buf[c]
               /\ failed => failed'
    BY <1>0, <2>3 DEF ConnectionEnds, FreeBufferObj, TypeOK, history
  <2> QED
    BY <2>1, <2>2, <2>3 DEF Environment
<1>3. HandsInv'
  BY <1>0, <1>1, <1>2, HandsKept
<1>4. LostInv'
  BY <1>0, <1>2 DEF LostInv
<1> QED
  BY <1>3, <1>4

\* A step of the main thread.
LEMMA MainHands ==
  ASSUME IInv, MainStep
  PROVE  HandsInv' /\ LostInv'
<1>0. TypeOK /\ HandsInv /\ LostInv
  BY DEF IInv
<1>1. mn \in MainState /\ buf \in [Buffers -> {"heap", "free", "main", "posted",
                                     "ok", "error", "worker", "used", "lost"}]
  BY <1>0 DEF TypeOK, MainState
<1>2. CASE TakeAcceptEvent \/ TakeRepost \/ ResetRepost \/ HandOutTwice
           \/ CountAccept \/ LoopEnds \/ Timeout \/ Sweep
  <2>1. UNCHANGED <<buf, wk, failed>>
    BY <1>2 DEF TakeAcceptEvent, TakeRepost, ResetRepost, HandOutTwice, CountAccept,
               LoopEnds, Timeout, Sweep, history
  <2>2. mn' = mn \/ mn'.pc \notin {"insert", "post", "count"}
    <3>1. CASE HandOutTwice
      BY <3>1 DEF HandOutTwice
    <3>2. CASE TakeAcceptEvent \/ TakeRepost \/ ResetRepost \/ CountAccept
      BY <1>1, <3>2 DEF TakeAcceptEvent, TakeRepost, ResetRepost, CountAccept, MainGoto,
                        MainState
    <3>3. CASE LoopEnds \/ Timeout
      <4>1. mn' = [pc |-> "wait", first |-> FALSE, limit |-> 0, b |-> NULL]
              => mn'.pc = "wait"
        OBVIOUS
      <4>2. mn' = [mn EXCEPT !.pc = "sweep", !.b = PendingAccepts] => mn'.pc = "sweep"
        BY <1>1 DEF MainState
      <4> QED
        BY <3>3, <4>1, <4>2 DEF LoopEnds, Timeout
    <3>4. CASE Sweep
      <4>1. mn.pc = "sweep" /\ (MainGoto("wait") \/ mn' = [mn EXCEPT !.b = next[mn.b]])
        BY <3>4 DEF Sweep
      <4> QED
        BY <1>1, <4>1 DEF MainGoto, MainState
    <3> QED
      BY <1>2, <3>1, <3>2, <3>3, <3>4
  <2>3. HandsInv'
    BY <1>0, <2>1, <2>2, HandsKept
  <2> QED
    BY <1>0, <2>1, <2>3 DEF LostInv
<1>3. CASE InsertPendingAccept
  <2>1. UNCHANGED <<buf, wk, failed>>
    BY <1>3 DEF InsertPendingAccept, history
  <2>2. mn.pc = "insert" /\ mn'.pc = "post" /\ mn'.b = mn.b
    BY <1>1, <1>3 DEF InsertPendingAccept, MainGoto, MainState
  <2>3. HandsInv'
    BY <1>0, <2>1, <2>2, HandsKept
  <2> QED
    BY <1>0, <2>1, <2>3 DEF LostInv
<1>4. CASE GetBufferObj
  <2>1. UNCHANGED wk /\ mn.pc = "loop"
    BY <1>4 DEF GetBufferObj
  <2>2. ASSUME NEW b \in Buffers, buf[b] \in {"free", "heap"}, UNCHANGED failed,
               buf' = [buf EXCEPT ![b] = "main"], mn'.pc = "insert", mn'.b = b
        PROVE  HandsInv' /\ LostInv'
    <3>1. buf'[b] = "main" /\ \A c \in Buffers : c # b => buf'[c] = buf[c]
      BY <1>1, <2>2
    <3>2. \A w \in Workers : wk[w].pc \in Holding => wk[w].b # b
      BY <1>0, <2>2 DEF HandsInv
    <3>3. HandsInv'
      BY <1>0, <2>1, <2>2, <3>1, <3>2 DEF HandsInv
    <3> QED
      BY <1>0, <2>2, <3>1, <3>3 DEF LostInv
  <2>3. CASE gFreeBufferList # NULL
    <3>1. /\ buf[gFreeBufferList] = "free" /\ gFreeBufferList \in Buffers
          /\ buf' = [buf EXCEPT ![gFreeBufferList] = "main"] /\ UNCHANGED failed
          /\ mn' = [mn EXCEPT !.pc = "insert", !.limit = @ - 1, !.b = gFreeBufferList]
      BY <1>0, <1>4, <2>3 DEF GetBufferObj, TypeOK
    <3>2. mn'.pc = "insert" /\ mn'.b = gFreeBufferList
      BY <1>1, <3>1 DEF MainState
    <3> QED
      BY <2>2, <3>1, <3>2
  <2>4. ASSUME NEW b \in Buffers, buf[b] = "heap", buf' = [buf EXCEPT ![b] = "main"],
               mn' = [mn EXCEPT !.pc = "insert", !.limit = @ - 1, !.b = b],
               UNCHANGED failed
        PROVE  HandsInv' /\ LostInv'
    <3>1. mn'.pc = "insert" /\ mn'.b = b
      BY <1>1, <2>4 DEF MainState
    <3> QED
      BY <2>2, <2>4, <3>1
  <2>5. CASE failed' = TRUE /\ mn' = [mn EXCEPT !.limit = @ - 1] /\ UNCHANGED buf
    <3>1. mn'.pc = "loop"
      BY <1>1, <2>1, <2>5 DEF MainState
    <3>2. HandsInv'
      BY <1>0, <2>1, <2>5, <3>1, HandsKept
    <3> QED
      BY <2>5, <3>2 DEF LostInv
  <2> QED
    BY <1>4, <2>3, <2>4, <2>5 DEF GetBufferObj
<1>5. CASE PostAccept
  <2>1. UNCHANGED wk /\ mn.pc = "post" /\ mn.b \in Buffers /\ buf[mn.b] = "main"
    BY <1>0, <1>5 DEF PostAccept, HandsInv
  <2>2. \A w \in Workers : wk[w].pc \in Holding => wk[w].b # mn.b
    BY <1>0, <2>1 DEF HandsInv
  <2>3. CASE /\ buf' = [buf EXCEPT ![mn.b] = "posted"] /\ MainGoto("count")
             /\ UNCHANGED failed
    <3>1. mn'.pc = "count" /\ mn'.b = mn.b
      BY <1>1, <2>3 DEF MainGoto, MainState
    <3>2. buf'[mn.b] = "posted" /\ \A c \in Buffers : c # mn.b => buf'[c] = buf[c]
      BY <1>1, <2>1, <2>3
    <3>3. HandsInv'
      BY <1>0, <2>1, <2>2, <3>1, <3>2 DEF HandsInv
    <3> QED
      BY <1>0, <2>3, <3>2, <3>3 DEF LostInv
  <2>4. CASE /\ buf' = [buf EXCEPT ![mn.b] = "lost"] /\ failed' = TRUE
             /\ mn' = [mn EXCEPT !.pc = "loop", !.b = NULL]
    <3>1. mn'.pc = "loop"
      BY <1>1, <2>4 DEF MainState
    <3>2. \A c \in Buffers : c # mn.b => buf'[c] = buf[c]
      BY <1>1, <2>1, <2>4
    <3>3. HandsInv'
      BY <1>0, <2>1, <2>2, <3>1, <3>2 DEF HandsInv
    <3> QED
      BY <2>4, <3>3 DEF LostInv
  <2> QED
    BY <1>5, <2>3, <2>4 DEF PostAccept
<1> QED
  BY <1>2, <1>3, <1>4, <1>5 DEF MainStep

\* A worker moves on with the buffer in its hand, or gives it to a place
\* that is not a hand.
LEMMA WorkerHands ==
  ASSUME IInv, NEW w \in Workers, UNCHANGED mn,
         \A v \in Workers : v # w => wk'[v] = wk[v],
         \/ /\ UNCHANGED <<buf, failed>>
            /\ wk'[w].pc \in Holding => wk[w].pc \in Holding /\ wk'[w].b = wk[w].b
         \/ /\ wk[w].pc \in Holding /\ wk'[w].pc \notin Holding
            /\ \A c \in Buffers : c # wk[w].b => buf'[c] = buf[c]
            /\ buf'[wk[w].b] \in {"free", "used", "lost"}
            /\ buf'[wk[w].b] = "lost" => failed'
            /\ failed => failed'
  PROVE  HandsInv' /\ LostInv'
<1>0. HandsInv /\ LostInv
  BY DEF IInv
<1>1. CASE /\ UNCHANGED <<buf, failed>>
           /\ wk'[w].pc \in Holding => wk[w].pc \in Holding /\ wk'[w].b = wk[w].b
  BY <1>0, <1>1 DEF HandsInv, LostInv
<1>2. CASE /\ wk[w].pc \in Holding /\ wk'[w].pc \notin Holding
           /\ \A c \in Buffers : c # wk[w].b => buf'[c] = buf[c]
           /\ buf'[wk[w].b] \in {"free", "used", "lost"}
           /\ buf'[wk[w].b] = "lost" => failed'
           /\ failed => failed'
  <2>1. wk[w].b \in Buffers /\ buf[wk[w].b] = "worker"
    BY <1>0, <1>2 DEF HandsInv
  <2>2. \A v \in Workers : v # w /\ wk[v].pc \in Holding => wk[v].b # wk[w].b
    BY <1>0, <1>2 DEF HandsInv
  <2>3. HandsInv'
    BY <1>0, <1>2, <2>1, <2>2 DEF HandsInv
  <2> QED
    BY <1>0, <1>2, <2>3 DEF LostInv
<1> QED
  BY <1>1, <1>2

\* A step of a worker.
LEMMA WorkHands ==
  ASSUME IInv, NEW w \in Workers, Work(w)
  PROVE  HandsInv' /\ LostInv'
<1>0. TypeOK /\ HandsInv /\ LostInv
  BY DEF IInv
<1>1. wk \in [Workers -> WorkerState] /\ buf \in [Buffers -> {"heap", "free", "main",
           "posted", "ok", "error", "worker", "used", "lost"}]
  BY <1>0 DEF TypeOK, WorkerState, WorkerPcs
<1>2. wk[w].pc \in Holding => wk[w].b \in Buffers
  BY <1>0 DEF HandsInv
<1>3. ASSUME NEW b \in Buffers, Dequeue(w, b) PROVE HandsInv' /\ LostInv'
  <2>1. /\ wk[w].pc = "get" /\ buf[b] \in {"ok", "error"} /\ UNCHANGED <<mn, failed>>
        /\ buf' = [buf EXCEPT ![b] = "worker"]
        /\ wk' = [wk EXCEPT ![w] = [pc |-> buf[b], b |-> b]]
    BY <1>3 DEF Dequeue, history
  <2>2. /\ wk'[w].b = b /\ \A v \in Workers : v # w => wk'[v] = wk[v]
        /\ buf'[b] = "worker" /\ \A c \in Buffers : c # b => buf'[c] = buf[c]
    BY <1>1, <2>1
  <2>3. \A v \in Workers : wk[v].pc \in Holding => wk[v].b # b
    BY <1>0, <2>1 DEF HandsInv
  <2>4. HandsInv'
    BY <1>0, <2>1, <2>2, <2>3 DEF HandsInv
  <2> QED
    BY <1>0, <2>1, <2>2, <2>4 DEF LostInv
<1>4. CASE HandleError(w)
  <2>1. wk[w].pc = "error" /\ Goto(w, "get") /\ FreeBufferObj(wk[w].b, "free")
        /\ UNCHANGED <<mn, failed>>
    BY <1>4 DEF HandleError
  <2>2. wk'[w].pc = "get" /\ \A v \in Workers : v # w => wk'[v] = wk[v]
    BY <1>0, <2>1, GotoFacts DEF WorkerPcs
  <2>3. buf'[wk[w].b] = "free" /\ \A c \in Buffers : c # wk[w].b => buf'[c] = buf[c]
    BY <1>1, <1>2, <2>1 DEF FreeBufferObj, Holding
  <2> QED
    BY <2>1, <2>2, <2>3, WorkerHands DEF Holding
<1>5. CASE CountDown(w) \/ CountRepost(w) \/ SignalRepost(w)
  <2>1. UNCHANGED <<mn, buf, failed>>
    BY <1>5 DEF CountDown, CountRepost, SignalRepost, history
  <2>2. /\ \A v \in Workers : v # w => wk'[v] = wk[v]
        /\ wk'[w].pc \in Holding => wk[w].pc \in Holding /\ wk'[w].b = wk[w].b
    <3>1. CASE CountDown(w)
      BY <1>0, <3>1, GotoFacts DEF CountDown, WorkerPcs, Holding
    <3>2. CASE CountRepost(w)
      BY <1>0, <3>2, GotoFacts DEF CountRepost, WorkerPcs, Holding
    <3>3. CASE SignalRepost(w)
      BY <1>0, <3>3, GotoFacts DEF SignalRepost, WorkerPcs, Holding
    <3> QED
      BY <1>5, <3>1, <3>2, <3>3
  <2> QED
    BY <2>1, <2>2, WorkerHands
<1>6. CASE RemovePendingAccept(w)
  <2>1. UNCHANGED <<mn, buf, failed>> /\ wk[w].pc = "remove"
        /\ (Goto(w, "socket") \/ Goto(w, "hung"))
    BY <1>6 DEF RemovePendingAccept, history
  <2>2. /\ \A v \in Workers : v # w => wk'[v] = wk[v]
        /\ wk[w].pc \in Holding /\ wk'[w].b = wk[w].b
    BY <1>0, <2>1, GotoFacts DEF WorkerPcs, Holding
  <2> QED
    BY <2>1, <2>2, WorkerHands
<1>7. CASE Associate(w)
  <2>1. /\ wk[w].pc = "socket" /\ UNCHANGED mn /\ (failed => failed')
        /\ Goto(w, "repost") \/ Goto(w, "get")
    BY <1>7 DEF Associate
  <2>2. wk'[w].pc \in {"get", "repost"} /\ \A v \in Workers : v # w => wk'[v] = wk[v]
    BY <1>0, <2>1, GotoFacts DEF WorkerPcs
  <2>3. /\ buf'[wk[w].b] \in {"free", "used", "lost"}
        /\ buf'[wk[w].b] = "lost" => failed'
        /\ \A c \in Buffers : c # wk[w].b => buf'[c] = buf[c]
    <3>1. wk[w].b \in Buffers
      BY <1>2, <2>1 DEF Holding
    <3>2. \/ buf' = [buf EXCEPT ![wk[w].b] = "used"]
          \/ buf' = [buf EXCEPT ![wk[w].b] = "free"]
          \/ buf' = [buf EXCEPT ![wk[w].b] = "lost"] /\ failed' = TRUE
      BY <1>7 DEF Associate, FreeBufferObj
    <3> QED
      BY <1>1, <3>1, <3>2
  <2> QED
    BY <2>1, <2>2, <2>3, WorkerHands DEF Holding
<1> QED
  BY <1>3, <1>4, <1>5, <1>6, <1>7 DEF Work

-----------------------------------------------------------------------------
(* The count.                                                              *)

\* What is in Outstanding.
LEMMA OutstandingMember ==
  ASSUME NEW b
  PROVE  b \in Outstanding <=>
           \/ b \in Buffers /\ buf[b] \in {"posted", "ok", "error"}
           \/ \E w \in Workers : wk[w].pc \in {"ok", "error"} /\ b = wk[w].b
BY DEF Outstanding

\* The same in the next state.
LEMMA OutstandingMemberPrime ==
  ASSUME NEW b
  PROVE  b \in Outstanding' <=>
           \/ b \in Buffers /\ buf'[b] \in {"posted", "ok", "error"}
           \/ \E w \in Workers : wk'[w].pc \in {"ok", "error"} /\ b = wk'[w].b
BY DEF Outstanding

\* Outstanding is a finite set of buffers.
LEMMA OutstandingFinite ==
  ASSUME HandsInv
  PROVE  IsFiniteSet(Outstanding) /\ Cardinality(Outstanding) \in Nat
<1>1. Outstanding \in SUBSET Buffers
  BY OutstandingMember DEF HandsInv, Holding
<1> QED
  BY <1>1, ConstantsAssumption, FS_Subset, FS_CardinalityType

\* Nothing that is counted changes.
LEMMA CountKept ==
  ASSUME AcceptsCounted, UNCHANGED <<PendingAcceptCount, refused>>,
         mn'.pc = "count" <=> mn.pc = "count", Outstanding' = Outstanding
  PROVE  AcceptsCounted'
BY DEF AcceptsCounted

\* A step of the clients and the kernel leaves the count exact.
LEMMA EnvironmentCount ==
  ASSUME IInv, Environment
  PROVE  AcceptsCounted'
<1>0. TypeOK /\ AcceptsCounted
  BY DEF IInv
<1>1. UNCHANGED <<PendingAcceptCount, refused, mn, wk>>
  BY DEF Environment, ClientArrives, ClientTaken, TimePasses, AcceptCompletes,
         ConnectionEnds, history
<1>2. \A c \in Buffers : buf[c] \in {"posted", "ok", "error"}
                           <=> buf'[c] \in {"posted", "ok", "error"}
  <2>1. CASE ClientArrives \/ ClientTaken \/ \E b \in Buffers : TimePasses(b)
    BY <2>1 DEF ClientArrives, ClientTaken, TimePasses
  <2>2. CASE \E b \in Buffers : AcceptCompletes(b)
    BY <1>0, <2>2 DEF AcceptCompletes, TypeOK
  <2>3. CASE \E b \in Buffers : ConnectionEnds(b)
    BY <1>0, <2>3 DEF ConnectionEnds, FreeBufferObj, TypeOK
  <2> QED
    BY <2>1, <2>2, <2>3 DEF Environment
<1>3. Outstanding' = Outstanding
  BY <1>1, <1>2, OutstandingMember, OutstandingMemberPrime
<1> QED
  BY <1>0, <1>1, <1>3, CountKept

\* A step of the main thread leaves the count exact.
LEMMA MainCount ==
  ASSUME IInv, MainStep
  PROVE  AcceptsCounted'
<1>0. TypeOK /\ AcceptsCounted /\ HandsInv
  BY DEF IInv
<1>1. mn \in MainState /\ buf \in [Buffers -> {"heap", "free", "main", "posted",
                                     "ok", "error", "worker", "used", "lost"}]
  BY <1>0 DEF TypeOK, MainState
<1>2. wk' = wk /\ refused' = refused
  BY DEF MainStep, TakeAcceptEvent, TakeRepost, ResetRepost, GetBufferObj,
         HandOutTwice, InsertPendingAccept, PostAccept, CountAccept, LoopEnds,
         Timeout, Sweep, history
<1>3. ASSUME buf' = buf \/ \E b \in Buffers :
                  /\ buf[b] \in {"main", "free", "heap"}
                  /\ \E s \in {"main", "lost"} : buf' = [buf EXCEPT ![b] = s]
      PROVE  Outstanding' = Outstanding
  <2>1. \A c \in Buffers : buf[c] \in {"posted", "ok", "error"}
                             <=> buf'[c] \in {"posted", "ok", "error"}
    BY <1>1, <1>3
  <2> QED
    BY <1>2, <2>1, OutstandingMember, OutstandingMemberPrime
<1>4. CASE TakeAcceptEvent \/ TakeRepost \/ ResetRepost \/ HandOutTwice
           \/ InsertPendingAccept \/ LoopEnds \/ Timeout \/ Sweep
  <2>1. UNCHANGED <<buf, PendingAcceptCount>>
    BY <1>4 DEF TakeAcceptEvent, TakeRepost, ResetRepost, HandOutTwice,
               InsertPendingAccept, LoopEnds, Timeout, Sweep
  <2>2. mn.pc # "count" /\ mn'.pc # "count"
    <3>1. CASE TakeAcceptEvent \/ TakeRepost
      BY <1>1, <3>1 DEF TakeAcceptEvent, TakeRepost, MainState
    <3>2. CASE ResetRepost \/ HandOutTwice \/ InsertPendingAccept
      BY <1>1, <3>2 DEF ResetRepost, HandOutTwice, InsertPendingAccept, MainGoto,
                        MainState
    <3>3. CASE LoopEnds
      BY <3>3 DEF LoopEnds
    <3>4. CASE Timeout
      BY <1>1, <3>4 DEF Timeout, MainState
    <3>5. CASE Sweep
      <4>1. mn.pc = "sweep" /\ (MainGoto("wait") \/ mn' = [mn EXCEPT !.b = next[mn.b]])
        BY <3>5 DEF Sweep
      <4> QED
        BY <1>1, <4>1 DEF MainGoto, MainState
    <3> QED
      BY <1>4, <3>1, <3>2, <3>3, <3>4, <3>5
  <2> QED
    BY <1>0, <1>2, <1>3, <2>1, <2>2, CountKept
<1>5. CASE GetBufferObj
  <2>1. mn.pc = "loop" /\ UNCHANGED PendingAcceptCount
    BY <1>5 DEF GetBufferObj
  <2>2. mn'.pc \in {"loop", "insert"}
    BY <1>1, <1>5, <2>1 DEF GetBufferObj, MainState
  <2>3. Outstanding' = Outstanding
    <3>1. gFreeBufferList # NULL => gFreeBufferList \in Buffers
      BY <1>0 DEF TypeOK
    <3> QED
      BY <1>3, <1>5, <3>1 DEF GetBufferObj
  <2> QED
    BY <1>0, <1>2, <2>1, <2>2, <2>3, CountKept
<1>6. CASE PostAccept
  <2>1. /\ mn.pc = "post" /\ mn.b \in Buffers /\ buf[mn.b] = "main"
        /\ UNCHANGED PendingAcceptCount
    BY <1>0, <1>6 DEF PostAccept, HandsInv
  <2>2. CASE buf' = [buf EXCEPT ![mn.b] = "posted"] /\ MainGoto("count")
    <3>1. mn'.pc = "count"
      BY <1>1, <2>2 DEF MainGoto, MainState
    <3>2. buf'[mn.b] = "posted" /\ \A c \in Buffers : c # mn.b => buf'[c] = buf[c]
      BY <1>1, <2>1, <2>2
    <3>3. mn.b \notin Outstanding
      BY <1>0, <2>1, OutstandingMember DEF HandsInv, Holding
    <3>4. Outstanding' = Outstanding \cup {mn.b}
      BY <1>2, <2>1, <3>2, OutstandingMember, OutstandingMemberPrime
    <3>5. Cardinality(Outstanding') = Cardinality(Outstanding) + 1
      BY <1>0, <3>3, <3>4, OutstandingFinite, FS_AddElement
    <3>6. Cardinality(Outstanding) \in Nat
      BY <1>0, OutstandingFinite
    <3> QED
      BY <1>0, <1>2, <2>1, <3>1, <3>5, <3>6 DEF AcceptsCounted, TypeOK
  <2>3. CASE /\ buf' = [buf EXCEPT ![mn.b] = "lost"]
             /\ mn' = [mn EXCEPT !.pc = "loop", !.b = NULL]
    <3>1. mn'.pc = "loop"
      BY <1>1, <2>3 DEF MainState
    <3>2. Outstanding' = Outstanding
      BY <1>3, <2>1, <2>3
    <3> QED
      BY <1>0, <1>2, <2>1, <3>1, <3>2, CountKept
  <2> QED
    BY <1>6, <2>2, <2>3 DEF PostAccept
<1>7. CASE CountAccept
  <2>1. mn.pc = "count" /\ PendingAcceptCount' = PendingAcceptCount + 1 /\ buf' = buf
    BY <1>7 DEF CountAccept
  <2>2. mn'.pc = "loop"
    BY <1>1, <1>7 DEF CountAccept, MainState
  <2>3. Outstanding' = Outstanding
    BY <1>3, <2>1
  <2>4. Cardinality(Outstanding) \in Nat
    BY <1>0, OutstandingFinite
  <2> QED
    BY <1>0, <1>2, <2>1, <2>2, <2>3, <2>4 DEF AcceptsCounted, TypeOK
<1> QED
  BY <1>4, <1>5, <1>6, <1>7 DEF MainStep

\* A step of a worker leaves the count exact.
LEMMA WorkCount ==
  ASSUME IInv, NEW w \in Workers, Work(w)
  PROVE  AcceptsCounted'
<1>0. TypeOK /\ AcceptsCounted /\ HandsInv
  BY DEF IInv
<1>1. wk \in [Workers -> WorkerState] /\ buf \in [Buffers -> {"heap", "free", "main",
           "posted", "ok", "error", "worker", "used", "lost"}]
  BY <1>0 DEF TypeOK, WorkerState, WorkerPcs
<1>2. mn' = mn
  BY DEF Work, Dequeue, HandleError, CountDown, RemovePendingAccept, Associate,
         CountRepost, SignalRepost
<1>3. Cardinality(Outstanding) \in Nat /\ IsFiniteSet(Outstanding)
  BY <1>0, OutstandingFinite
<1>4. ASSUME NEW b \in Buffers, Dequeue(w, b) PROVE AcceptsCounted'
  <2>1. /\ wk[w].pc = "get" /\ buf[b] \in {"ok", "error"}
        /\ UNCHANGED <<PendingAcceptCount, refused>>
        /\ buf' = [buf EXCEPT ![b] = "worker"]
        /\ wk' = [wk EXCEPT ![w] = [pc |-> buf[b], b |-> b]]
    BY <1>4 DEF Dequeue, history
  <2>2. /\ wk'[w].b = b /\ wk'[w].pc \in {"ok", "error"}
        /\ \A v \in Workers : v # w => wk'[v] = wk[v]
        /\ buf'[b] = "worker" /\ \A c \in Buffers : c # b => buf'[c] = buf[c]
    BY <1>1, <2>1
  <2>3. Outstanding' = Outstanding
    <3>1. ASSUME NEW c \in Outstanding PROVE c \in Outstanding'
      BY <2>1, <2>2, OutstandingMember, OutstandingMemberPrime
    <3>2. ASSUME NEW c \in Outstanding' PROVE c \in Outstanding
      BY <2>1, <2>2, OutstandingMember, OutstandingMemberPrime
    <3> QED
      BY <3>1, <3>2
  <2> QED
    BY <1>0, <1>2, <2>1, <2>3, CountKept
\* The worker's buffer leaves Outstanding.
<1>5. ASSUME wk[w].pc \in {"ok", "error"}, wk'[w].pc \in {"get", "remove"},
             \A v \in Workers : v # w => wk'[v] = wk[v],
             \A c \in Buffers : c # wk[w].b => buf'[c] = buf[c],
             buf'[wk[w].b] \in {"worker", "free"}
      PROVE  Cardinality(Outstanding') = Cardinality(Outstanding) - 1
  <2>1. wk[w].b \in Buffers /\ buf[wk[w].b] = "worker"
        /\ \A v \in Workers : v # w /\ wk[v].pc \in Holding => wk[v].b # wk[w].b
    BY <1>0, <1>5 DEF HandsInv, Holding
  <2>2. wk[w].b \in Outstanding
    BY <1>5, OutstandingMember
  <2>3. Outstanding' = Outstanding \ {wk[w].b}
    <3>1. ASSUME NEW c \in Outstanding, c # wk[w].b PROVE c \in Outstanding'
      BY <1>5, <3>1, OutstandingMember, OutstandingMemberPrime
    <3>2. ASSUME NEW c \in Outstanding' PROVE c \in Outstanding /\ c # wk[w].b
      BY <1>5, <2>1, OutstandingMember, OutstandingMemberPrime DEF Holding
    <3> QED
      BY <3>1, <3>2
  <2> QED
    BY <1>3, <2>2, <2>3, FS_RemoveElement
<1>6. CASE HandleError(w)
  <2>1. wk[w].pc = "error" /\ Goto(w, "get") /\ FreeBufferObj(wk[w].b, "free")
        /\ refused' = refused + 1 /\ UNCHANGED PendingAcceptCount
    BY <1>6 DEF HandleError
  <2>2. wk'[w].pc = "get" /\ \A v \in Workers : v # w => wk'[v] = wk[v]
    BY <1>0, <2>1, GotoFacts DEF WorkerPcs
  <2>3. wk[w].b \in Buffers
    BY <1>0, <2>1 DEF HandsInv, Holding
  <2>4. buf'[wk[w].b] = "free" /\ \A c \in Buffers : c # wk[w].b => buf'[c] = buf[c]
    BY <1>1, <2>1, <2>3 DEF FreeBufferObj
  <2>5. Cardinality(Outstanding') = Cardinality(Outstanding) - 1
    BY <1>5, <2>1, <2>2, <2>4
  <2> QED
    BY <1>0, <1>2, <1>3, <2>1, <2>5 DEF AcceptsCounted, TypeOK
<1>7. CASE CountDown(w)
  <2>1. wk[w].pc = "ok" /\ Goto(w, "remove") /\ UNCHANGED <<buf, refused>>
        /\ PendingAcceptCount' = PendingAcceptCount - 1
    BY <1>7 DEF CountDown, history
  <2>2. wk'[w].pc = "remove" /\ \A v \in Workers : v # w => wk'[v] = wk[v]
    BY <1>0, <2>1, GotoFacts DEF WorkerPcs
  <2>3. buf[wk[w].b] = "worker"
    BY <1>0, <2>1 DEF HandsInv, Holding
  <2>4. Cardinality(Outstanding') = Cardinality(Outstanding) - 1
    BY <1>5, <2>1, <2>2, <2>3
  <2> QED
    BY <1>0, <1>2, <1>3, <2>1, <2>4 DEF AcceptsCounted, TypeOK
\* The worker had no accept that counts.
<1>8. ASSUME wk[w].pc \in {"remove", "socket", "repost", "signal"},
             wk'[w].pc \in {"get", "hung", "socket", "repost", "signal"},
             \A v \in Workers : v # w => wk'[v] = wk[v],
             \A c \in Buffers : buf[c] \in {"posted", "ok", "error"}
                                  <=> buf'[c] \in {"posted", "ok", "error"},
             UNCHANGED <<PendingAcceptCount, refused>>
      PROVE  AcceptsCounted'
  <2>1. Outstanding' = Outstanding
    <3>1. ASSUME NEW c \in Outstanding PROVE c \in Outstanding'
      BY <1>8, OutstandingMember, OutstandingMemberPrime
    <3>2. ASSUME NEW c \in Outstanding' PROVE c \in Outstanding
      BY <1>8, OutstandingMember, OutstandingMemberPrime
    <3> QED
      BY <3>1, <3>2
  <2> QED
    BY <1>0, <1>2, <1>8, <2>1, CountKept
<1>9. CASE RemovePendingAccept(w)
  <2>1. UNCHANGED <<buf, PendingAcceptCount, refused>> /\ wk[w].pc = "remove"
        /\ (Goto(w, "socket") \/ Goto(w, "hung"))
    BY <1>9 DEF RemovePendingAccept, history
  <2>2. wk'[w].pc \in {"socket", "hung"} /\ \A v \in Workers : v # w => wk'[v] = wk[v]
    BY <1>0, <2>1, GotoFacts DEF WorkerPcs
  <2> QED
    BY <1>8, <2>1, <2>2
<1>10. CASE Associate(w)
  <2>1. /\ wk[w].pc = "socket" /\ UNCHANGED <<PendingAcceptCount, refused>>
        /\ Goto(w, "repost") \/ Goto(w, "get")
    BY <1>10 DEF Associate
  <2>2. wk'[w].pc \in {"get", "repost"} /\ \A v \in Workers : v # w => wk'[v] = wk[v]
    BY <1>0, <2>1, GotoFacts DEF WorkerPcs
  <2>3. \A c \in Buffers : buf[c] \in {"posted", "ok", "error"}
                             <=> buf'[c] \in {"posted", "ok", "error"}
    <3>1. buf[wk[w].b] = "worker"
      BY <1>0, <2>1 DEF HandsInv, Holding
    <3>2. \E s \in {"used", "free", "lost"} : buf' = [buf EXCEPT ![wk[w].b] = s]
      BY <1>10 DEF Associate, FreeBufferObj
    <3> QED
      BY <1>1, <3>1, <3>2
  <2> QED
    BY <1>8, <2>1, <2>2, <2>3
<1>11. CASE CountRepost(w) \/ SignalRepost(w)
  <2>1. UNCHANGED <<buf, PendingAcceptCount, refused>> /\ wk[w].pc \in {"repost", "signal"}
        /\ (Goto(w, "signal") \/ Goto(w, "get"))
    BY <1>11 DEF CountRepost, SignalRepost, history
  <2>2. wk'[w].pc \in {"signal", "get"} /\ \A v \in Workers : v # w => wk'[v] = wk[v]
    BY <1>0, <2>1, GotoFacts DEF WorkerPcs
  <2> QED
    BY <1>8, <2>1, <2>2
<1> QED
  BY <1>4, <1>6, <1>7, <1>9, <1>10, <1>11 DEF Work

-----------------------------------------------------------------------------
(* The clients that wait.                                                  *)

\* Nobody begins to wait unheard, no accept is taken off the count, and the
\* hope stays.
LEMMA ServeKept ==
  ASSUME ServeInv, Unheard' => Unheard, Hope => Hope',
         PendingAcceptCount \in Int, UNCHANGED PendingAcceptCount
  PROVE  ServeInv'
BY DEF ServeInv

\* A step of the clients and the kernel.
LEMMA EnvironmentServe ==
  ASSUME IInv, Environment
  PROVE  ServeInv' /\ SignalInv'
<1>0. TypeOK /\ ServeInv /\ SignalInv
  BY DEF IInv
<1>1. UNCHANGED <<PendingAcceptCount, RepostCount, RepostAccept, lost, mn, wk>>
  BY DEF Environment, ClientArrives, ClientTaken, TimePasses, AcceptCompletes,
         ConnectionEnds, history, repostVars
<1>2. Unheard' => Unheard
  <2>1. CASE ClientArrives
    <3>1. \/ backlog = 0 /\ backlog' = backlog
          \/ /\ backlog' = backlog + 1 /\ AcceptEvent' = (AcceptEvent \/ backlog = 0)
             /\ UNCHANGED sclient
      BY <2>1 DEF ClientArrives
    <3>2. UNCHANGED <<buf, failed, lost>> /\ backlog \in Nat
      BY <1>0, <2>1, ConstantsAssumption DEF ClientArrives, history, TypeOK
    <3>3. CASE backlog = 0 /\ backlog' = backlog
      BY <3>3 DEF Unheard
    <3>4. CASE /\ backlog' = backlog + 1 /\ AcceptEvent' = (AcceptEvent \/ backlog = 0)
               /\ UNCHANGED sclient
      <4>1. ~AcceptEvent' => ~AcceptEvent /\ backlog # 0
        BY <3>4, Zenon
      <4>2. Waiting' = Waiting
        BY <3>2, <3>4 DEF Waiting
      <4> QED
        BY <3>2, <4>1, <4>2 DEF Unheard
    <3> QED
      BY <3>1, <3>3, <3>4
  <2>2. CASE ClientTaken
    <3>1. backlog' = backlog - 1 /\ AcceptEvent' = (AcceptEvent \/ backlog > 1)
          /\ backlog \in Nat
      BY <1>0, <2>2, ConstantsAssumption DEF ClientTaken, TypeOK
    <3>2. ~AcceptEvent' => ~ (backlog > 1)
      BY <3>1, Zenon
    <3> QED
      BY <3>1, <3>2 DEF Unheard
  <2>3. ASSUME NEW b \in Buffers, TimePasses(b) \/ AcceptCompletes(b) \/ ConnectionEnds(b)
        PROVE  Unheard' => Unheard
    <3>1. UNCHANGED <<backlog, AcceptEvent, lost>> /\ (failed => failed')
      BY <2>3 DEF TimePasses, AcceptCompletes, ConnectionEnds, netVars, history
    <3>2. /\ \A c \in Buffers : c # b => buf'[c] = buf[c] /\ sclient'[c] = sclient[c]
          /\ ~ (buf[b] = "posted" /\ sclient[b] = "open")
      <4>1. CASE TimePasses(b)
        BY <1>0, <4>1 DEF TimePasses, TypeOK
      <4>2. CASE AcceptCompletes(b)
        BY <1>0, <4>2 DEF AcceptCompletes, TypeOK
      <4>3. CASE ConnectionEnds(b)
        BY <1>0, <4>3 DEF ConnectionEnds, FreeBufferObj, TypeOK
      <4> QED
        BY <2>3, <4>1, <4>2, <4>3
    <3>3. Waiting \subseteq Waiting'
      BY <3>2 DEF Waiting
    <3> QED
      BY <3>1, <3>3 DEF Unheard
  <2> QED
    BY <2>1, <2>2, <2>3 DEF Environment
<1>3. Hope => Hope'
  BY <1>1 DEF Hope
<1>4. ServeInv'
  BY <1>0, <1>1, <1>2, <1>3, ServeKept DEF TypeOK
<1>5. SignalInv'
  BY <1>0, <1>1 DEF SignalInv
<1> QED
  BY <1>4, <1>5

\* A step of the main thread: it posts an accept, or gMaxAccepts are counted.
LEMMA MainServe ==
  ASSUME IInv, MainStep
  PROVE  ServeInv' /\ SignalInv'
<1>0. TypeOK /\ ServeInv /\ SignalInv /\ HandsInv
  BY DEF IInv
<1>1. /\ mn \in MainState /\ PendingAcceptCount \in Int /\ RepostCount \in Nat
      /\ MaxAccepts \in Nat /\ Burst \in Nat \ {0} /\ mn.limit \in Nat
  BY <1>0, ConstantsAssumption DEF TypeOK, MainState
<1>2. wk' = wk
  BY DEF MainStep, TakeAcceptEvent, TakeRepost, ResetRepost, GetBufferObj,
         HandOutTwice, InsertPendingAccept, PostAccept, CountAccept, LoopEnds,
         Timeout, Sweep
<1>3. ASSUME UNCHANGED <<RepostCount, RepostAccept>>, lost' = lost
      PROVE  SignalInv'
  BY <1>0, <1>2, <1>3 DEF SignalInv
<1>4. CASE TakeAcceptEvent
  <2>1. mn'.pc = "loop" /\ mn'.limit = Burst
    BY <1>1, <1>4 DEF TakeAcceptEvent, MainState
  <2>2. Hope'
    BY <1>1, <2>1 DEF Hope
  <2>3. SignalInv'
    BY <1>3, <1>4 DEF TakeAcceptEvent, repostVars, history
  <2> QED
    BY <2>2, <2>3 DEF ServeInv
<1>5. CASE TakeRepost
  <2>1. /\ mn.pc = "wait" /\ mn' = [mn EXCEPT !.pc = "reset", !.limit = RepostCount]
        /\ RepostCount' = 0
        /\ UNCHANGED <<buf, sclient, backlog, AcceptEvent, failed, lost, PendingAcceptCount>>
    BY <1>5 DEF TakeRepost, netVars, history
  <2>2. mn'.pc = "reset" /\ mn'.limit = RepostCount
    BY <1>1, <2>1 DEF MainState
  <2>3. Hope => Hope'
    BY <1>2, <2>1, <2>2 DEF Hope
  <2>4. Unheard' => Unheard
    BY <2>1 DEF Unheard, Waiting
  <2>5. ServeInv'
    BY <1>0, <1>1, <2>1, <2>3, <2>4, ServeKept
  <2>6. SignalInv'
    BY <2>1 DEF SignalInv
  <2> QED
    BY <2>5, <2>6
<1>6. CASE ResetRepost
  <2>1. /\ mn.pc = "reset" /\ MainGoto("loop") /\ lost' = (lost \/ RepostCount > 0)
        /\ UNCHANGED <<buf, sclient, backlog, AcceptEvent, failed, RepostCount,
                       PendingAcceptCount>>
    BY <1>6 DEF ResetRepost, netVars
  <2>2. mn'.pc = "loop" /\ mn'.limit = mn.limit
    BY <1>1, <2>1 DEF MainGoto, MainState
  <2>3. Hope => Hope'
    BY <1>2, <2>1, <2>2 DEF Hope
  <2>4. Unheard' => Unheard
    BY <2>1 DEF Unheard, Waiting
  <2>5. ServeInv'
    BY <1>0, <1>1, <2>1, <2>3, <2>4, ServeKept
  <2>6. SignalInv'
    BY <2>1 DEF SignalInv
  <2> QED
    BY <2>5, <2>6
<1>7. CASE GetBufferObj
  <2>1. mn'.pc = "insert" \/ failed' = TRUE
    BY <1>1, <1>7 DEF GetBufferObj, MainState
  <2>2. ServeInv'
    BY <2>1 DEF ServeInv, Unheard, Hope
  <2>3. SignalInv'
    BY <1>3, <1>7 DEF GetBufferObj, repostVars
  <2> QED
    BY <2>2, <2>3
<1>8. CASE HandOutTwice
  <2>1. UNCHANGED <<buf, sclient, backlog, AcceptEvent, failed, lost, RepostCount,
                    RepostAccept, PendingAcceptCount, mn>>
    BY <1>8 DEF HandOutTwice, netVars, repostVars
  <2>2. (Hope => Hope') /\ (Unheard' => Unheard)
    BY <1>2, <2>1 DEF Hope, Unheard, Waiting
  <2> QED
    BY <1>0, <1>1, <1>3, <2>1, <2>2, ServeKept
<1>9. CASE InsertPendingAccept
  <2>1. mn'.pc = "post"
    BY <1>1, <1>9 DEF InsertPendingAccept, MainGoto, MainState
  <2>2. ServeInv'
    BY <2>1 DEF ServeInv, Hope
  <2>3. SignalInv'
    BY <1>3, <1>9 DEF InsertPendingAccept, repostVars, history
  <2> QED
    BY <2>2, <2>3
<1>10. CASE PostAccept
  <2>1. mn.b \in Buffers
    BY <1>0, <1>10 DEF PostAccept, HandsInv
  <2>2. failed' = TRUE \/ (buf'[mn.b] = "posted" /\ sclient'[mn.b] = "open")
    BY <1>0, <1>10, <2>1 DEF PostAccept, TypeOK
  <2>3. ~Unheard'
    BY <2>1, <2>2 DEF Unheard, Waiting
  <2>4. SignalInv'
    BY <1>3, <1>10 DEF PostAccept, repostVars
  <2> QED
    BY <2>3, <2>4 DEF ServeInv
<1>11. CASE CountAccept
  <2>1. /\ mn.pc = "count" /\ PendingAcceptCount' = PendingAcceptCount + 1
        /\ UNCHANGED <<buf, sclient, backlog, AcceptEvent, failed, lost, RepostCount,
                       RepostAccept>>
    BY <1>11 DEF CountAccept, netVars, repostVars, history
  <2>2. (Hope => Hope') /\ (Unheard' => Unheard)
    BY <1>2, <2>1 DEF Hope, Unheard, Waiting
  <2> QED
    BY <1>0, <1>1, <1>3, <2>1, <2>2 DEF ServeInv
<1>12. CASE LoopEnds
  <2>1. /\ mn.pc = "loop" /\ ~MorePosts
        /\ UNCHANGED <<buf, sclient, backlog, AcceptEvent, failed, lost, RepostCount,
                       RepostAccept, PendingAcceptCount>>
    BY <1>12 DEF LoopEnds, netVars, repostVars, history
  <2>2. Unheard' => Unheard
    BY <2>1 DEF Unheard, Waiting
  <2>3. mn.limit > 0 => PendingAcceptCount >= MaxAccepts
    BY <1>1, <2>1 DEF MorePosts
  <2>4. Hope => Hope' \/ mn.limit > 0
    BY <1>2, <2>1 DEF Hope
  <2>5. ServeInv'
    BY <1>0, <1>1, <2>1, <2>2, <2>3, <2>4 DEF ServeInv
  <2> QED
    BY <1>3, <2>1, <2>5
<1>13. CASE Timeout
  <2>1. /\ mn.pc = "wait"
        /\ UNCHANGED <<buf, sclient, backlog, AcceptEvent, failed, lost, RepostCount,
                       RepostAccept, PendingAcceptCount>>
    BY <1>13 DEF Timeout, netVars, repostVars, history
  <2>2. (Hope => Hope') /\ (Unheard' => Unheard)
    BY <1>2, <2>1 DEF Hope, Unheard, Waiting
  <2> QED
    BY <1>0, <1>1, <1>3, <2>1, <2>2, ServeKept
<1>14. CASE Sweep
  <2>1. /\ mn.pc = "sweep"
        /\ UNCHANGED <<buf, backlog, AcceptEvent, failed, lost, RepostCount,
                       RepostAccept, PendingAcceptCount>>
    BY <1>14 DEF Sweep, netVars, repostVars, history
  <2>2. \A c \in Buffers : sclient[c] = "open" => sclient'[c] = "open"
    BY <1>0, <1>14 DEF Sweep, TypeOK
  <2>3. Waiting \subseteq Waiting'
    BY <2>1, <2>2 DEF Waiting
  <2>4. (Hope => Hope') /\ (Unheard' => Unheard)
    BY <1>2, <2>1, <2>3 DEF Hope, Unheard
  <2> QED
    BY <1>0, <1>1, <1>3, <2>1, <2>4, ServeKept
<1> QED
  BY <1>4, <1>5, <1>6, <1>7, <1>8, <1>9, <1>10, <1>11, <1>12, <1>13, <1>14
  DEF MainStep

\* A step of a worker: an accept it has taken off the count it asks for, or
\* it has failed.
LEMMA WorkServe ==
  ASSUME IInv, NEW w \in Workers, Work(w)
  PROVE  ServeInv' /\ SignalInv'
<1>0. TypeOK /\ ServeInv /\ SignalInv /\ HandsInv
  BY DEF IInv
<1>1. PendingAcceptCount \in Int /\ RepostCount \in Nat
      /\ wk \in [Workers -> WorkerState]
      /\ buf \in [Buffers -> {"heap", "free", "main", "posted", "ok", "error",
                              "worker", "used", "lost"}]
  BY <1>0 DEF TypeOK, WorkerState, WorkerPcs
<1>2. UNCHANGED <<backlog, AcceptEvent, lost, mn>> /\ (failed => failed')
  BY DEF Work, Dequeue, HandleError, CountDown, RemovePendingAccept, Associate,
         CountRepost, SignalRepost, netVars, history
\* Only a buffer that is not posted changes.
<1>3. ASSUME NEW b \in Buffers, buf[b] # "posted",
             \A c \in Buffers : c # b => buf'[c] = buf[c] /\ sclient'[c] = sclient[c]
      PROVE  Unheard' => Unheard
  <2>1. Waiting \subseteq Waiting'
    BY <1>3 DEF Waiting
  <2> QED
    BY <1>2, <2>1 DEF Unheard
<1>4. UNCHANGED <<buf, sclient>> => (Unheard' => Unheard)
  BY <1>2 DEF Unheard, Waiting
\* Nobody asks for an accept, and the requests stay.
<1>5. ASSUME UNCHANGED <<RepostCount, RepostAccept>>, wk[w].pc # "signal",
             \A v \in Workers : v # w => wk'[v] = wk[v]
      PROVE  SignalInv'
  BY <1>0, <1>2, <1>5 DEF SignalInv
<1>6. ASSUME NEW b \in Buffers, Dequeue(w, b) PROVE ServeInv' /\ SignalInv'
  <2>1. /\ wk[w].pc = "get" /\ buf[b] # "posted"
        /\ UNCHANGED <<PendingAcceptCount, RepostCount, RepostAccept, sclient>>
        /\ \A v \in Workers : v # w => wk'[v] = wk[v]
        /\ \A c \in Buffers : c # b => buf'[c] = buf[c]
    BY <1>1, <1>6 DEF Dequeue, repostVars
  <2>2. Hope => Hope'
    BY <1>2, <2>1 DEF Hope
  <2>3. Unheard' => Unheard
    BY <1>3, <2>1
  <2> QED
    BY <1>0, <1>1, <1>5, <2>1, <2>2, <2>3, ServeKept
<1>7. CASE HandleError(w)
  <2>1. /\ wk[w].pc = "error" /\ Goto(w, "get") /\ FreeBufferObj(wk[w].b, "free")
        /\ UNCHANGED <<PendingAcceptCount, RepostCount, RepostAccept>>
    BY <1>7 DEF HandleError, repostVars
  <2>2. \A v \in Workers : v # w => wk'[v] = wk[v]
    BY <1>0, <2>1, GotoFacts DEF WorkerPcs
  <2>3. wk[w].b \in Buffers /\ buf[wk[w].b] # "posted"
    BY <1>0, <2>1 DEF HandsInv, Holding
  <2>4. \A c \in Buffers : c # wk[w].b => buf'[c] = buf[c] /\ sclient'[c] = sclient[c]
    BY <1>0, <2>1 DEF FreeBufferObj, TypeOK
  <2>5. Hope => Hope'
    BY <1>2, <2>1, <2>2 DEF Hope
  <2>6. Unheard' => Unheard
    BY <1>3, <2>3, <2>4
  <2> QED
    BY <1>0, <1>1, <1>5, <2>1, <2>2, <2>5, <2>6, ServeKept
<1>8. CASE CountDown(w)
  <2>1. /\ wk[w].pc = "ok" /\ Goto(w, "remove") /\ UNCHANGED <<RepostCount, RepostAccept>>
    BY <1>8 DEF CountDown, repostVars
  <2>2. wk'[w].pc = "remove" /\ \A v \in Workers : v # w => wk'[v] = wk[v]
    BY <1>0, <2>1, GotoFacts DEF WorkerPcs
  <2>3. Hope'
    BY <2>2 DEF Hope
  <2> QED
    BY <1>5, <2>1, <2>2, <2>3 DEF ServeInv
<1>9. CASE RemovePendingAccept(w)
  <2>1. /\ wk[w].pc = "remove" /\ (Goto(w, "socket") \/ Goto(w, "hung"))
        /\ UNCHANGED <<RepostCount, RepostAccept>>
    BY <1>9 DEF RemovePendingAccept, repostVars
  <2>2. wk'[w].pc \in {"socket", "hung"} /\ \A v \in Workers : v # w => wk'[v] = wk[v]
    BY <1>0, <2>1, GotoFacts DEF WorkerPcs
  <2>3. Hope'
    BY <2>2 DEF Hope
  <2> QED
    BY <1>5, <2>1, <2>2, <2>3 DEF ServeInv
<1>10. CASE Associate(w)
  <2>1. /\ wk[w].pc = "socket" /\ (Goto(w, "repost") \/ (Goto(w, "get") /\ failed' = TRUE))
        /\ UNCHANGED <<RepostCount, RepostAccept>>
    BY <1>10 DEF Associate, repostVars
  <2>2. /\ wk'[w].pc = "repost" \/ failed' = TRUE
        /\ \A v \in Workers : v # w => wk'[v] = wk[v]
    BY <1>0, <2>1, GotoFacts DEF WorkerPcs
  <2>3. Hope' \/ ~Unheard'
    BY <2>2 DEF Hope, Unheard
  <2> QED
    BY <1>5, <2>1, <2>2, <2>3 DEF ServeInv
<1>11. CASE CountRepost(w)
  <2>1. Goto(w, "signal") /\ RepostCount' = RepostCount + 1
    BY <1>11 DEF CountRepost
  <2>2. wk'[w].pc = "signal"
    BY <1>0, <2>1, GotoFacts DEF WorkerPcs
  <2>3. Hope'
    BY <1>1, <2>1 DEF Hope
  <2> QED
    BY <2>2, <2>3 DEF ServeInv, SignalInv
<1>12. CASE SignalRepost(w)
  <2>1. /\ wk[w].pc = "signal" /\ Goto(w, "get") /\ RepostAccept' = TRUE
        /\ UNCHANGED <<buf, sclient, PendingAcceptCount, RepostCount>>
    BY <1>12 DEF SignalRepost
  <2>2. \A v \in Workers : v # w => wk'[v] = wk[v]
    BY <1>0, <2>1, GotoFacts DEF WorkerPcs
  <2>3. Hope => Hope'
    BY <1>2, <2>1, <2>2 DEF Hope
  <2>4. ServeInv'
    BY <1>0, <1>1, <1>4, <2>1, <2>3, ServeKept
  <2>5. SignalInv'
    BY <2>1 DEF SignalInv
  <2> QED
    BY <2>4, <2>5
<1> QED
  BY <1>6, <1>7, <1>8, <1>9, <1>10, <1>11, <1>12 DEF Work

-----------------------------------------------------------------------------
(* The lists.                                                              *)

\* What is to be listed.
LEMMA ToBeListedMember ==
  ASSUME NEW b
  PROVE  b \in ToBeListed <=>
           \/ b \in Buffers /\ buf[b] \in {"posted", "ok", "error"}
           \/ \E w \in Workers : wk[w].pc \in {"ok", "error", "remove"} /\ b = wk[w].b
           \/ b = mn.b /\ mn.pc \in {"post", "count"} /\ buf[b] = "main"
BY DEF ToBeListed

\* The same in the next state.
LEMMA ToBeListedMemberPrime ==
  ASSUME NEW b
  PROVE  b \in ToBeListed' <=>
           \/ b \in Buffers /\ buf'[b] \in {"posted", "ok", "error"}
           \/ \E w \in Workers : wk'[w].pc \in {"ok", "error", "remove"} /\ b = wk'[w].b
           \/ b = mn'.b /\ mn'.pc \in {"post", "count"} /\ buf'[b] = "main"
BY DEF ToBeListed

\* The buffers to be listed are in nobody else's use.
LEMMA ToBeListedStates ==
  ASSUME HandsInv, NEW b \in ToBeListed
  PROVE  b \in Buffers /\ buf[b] \in {"posted", "ok", "error", "worker", "main"}
<1>1. CASE b \in Buffers /\ buf[b] \in {"posted", "ok", "error"}
  BY <1>1
<1>2. CASE \E w \in Workers : wk[w].pc \in {"ok", "error", "remove"} /\ b = wk[w].b
  BY <1>2 DEF HandsInv, Holding
<1>3. CASE b = mn.b /\ mn.pc \in {"post", "count"} /\ buf[b] = "main"
  BY <1>3 DEF HandsInv
<1> QED
  BY <1>1, <1>2, <1>3, ToBeListedMember

\* The links stay; a buffer goes out of what is to be listed only when it is
\* lost.
LEMMA ListKept ==
  ASSUME ListInv, UNCHANGED <<next, gFreeBufferList, PendingAccepts, refused>>,
         \A b \in Buffers : buf[b] = "free" <=> buf'[b] = "free",
         \A b \in Buffers : buf[b] = "lost" => buf'[b] = "lost",
         \A b \in ToBeListed' : b \in ToBeListed,
         \A b \in ToBeListed : b \in ToBeListed' \/ buf'[b] = "lost"
  PROVE  ListInv'
<1> SUFFICES ASSUME refused = 0 PROVE ListInv'
  BY DEF ListInv
<1>1. IsList(next, gFreeBufferList, Freed)
  BY DEF ListInv
<1>2. PICK R \in SUBSET Buffers :
        /\ IsList(next, PendingAccepts, R) /\ ToBeListed \subseteq R
        /\ \A b \in R : b \in ToBeListed \/ buf[b] = "lost"
  BY DEF ListInv
<1>3. Freed' = Freed
  BY DEF Freed
<1>4. IsList(next', gFreeBufferList', Freed') /\ IsList(next', PendingAccepts', R)
  BY <1>1, <1>2, <1>3
<1>5. ToBeListed' \subseteq R /\ \A b \in R : b \in ToBeListed' \/ buf'[b] = "lost"
  BY <1>2
<1> QED
  BY <1>4, <1>5 DEF ListInv

\* A buffer that is in neither list is put on the free list.
LEMMA ListFrees ==
  ASSUME IInv, NEW b \in Buffers, buf[b] \in {"used", "worker"}, b \notin ToBeListed,
         FreeBufferObj(b, "free"), UNCHANGED <<PendingAccepts, refused>>,
         ToBeListed' = ToBeListed
  PROVE  ListInv'
<1> SUFFICES ASSUME refused = 0 PROVE ListInv'
  BY DEF ListInv
<1>0. TypeOK /\ HandsInv /\ ListInv
  BY DEF IInv
<1>1. IsList(next, gFreeBufferList, Freed) /\ b \notin Freed
  BY <1>0 DEF ListInv, Freed
<1>2. PICK R \in SUBSET Buffers :
        /\ IsList(next, PendingAccepts, R) /\ ToBeListed \subseteq R
        /\ \A c \in R : c \in ToBeListed \/ buf[c] = "lost"
  BY <1>0 DEF ListInv
<1>3. b \notin R
  BY <1>2
<1>4. /\ next'[b] = gFreeBufferList /\ \A c \in Buffers : c # b => next'[c] = next[c]
      /\ buf'[b] = "free" /\ \A c \in Buffers : c # b => buf'[c] = buf[c]
      /\ gFreeBufferList' = b
  BY <1>0 DEF FreeBufferObj, TypeOK
<1>5. Freed' = Freed \cup {b}
  BY <1>4 DEF Freed
<1>6. \A c \in Freed : next'[c] = next[c]
  BY <1>1, <1>4 DEF Freed
<1>7. \A c \in R : next'[c] = next[c]
  BY <1>2, <1>3, <1>4
<1> DEFINE my == next'
<1>8. my[b] = gFreeBufferList /\ (\A c \in Freed : my[c] = next[c])
      /\ \A c \in R : my[c] = next[c]
  BY <1>4, <1>6, <1>7
<1> HIDE DEF my
<1>9. IsList(my, b, Freed \cup {b})
  BY <1>1, <1>8, ListPush
<1>10. IsList(my, PendingAccepts, R)
  BY <1>2, <1>8, ListFrame
<1>11. \A c \in R : c \in ToBeListed' \/ buf'[c] = "lost"
  BY <1>2, <1>3, <1>4
<1> QED
  BY <1>2, <1>4, <1>5, <1>9, <1>10, <1>11 DEF ListInv, my

\* A step of the clients and the kernel leaves the lists exact.
LEMMA EnvironmentLists ==
  ASSUME IInv, Environment
  PROVE  ListInv'
<1>0. TypeOK /\ HandsInv /\ ListInv
  BY DEF IInv
<1>1. UNCHANGED <<mn, wk, refused, PendingAccepts>>
  BY DEF Environment, ClientArrives, ClientTaken, TimePasses, AcceptCompletes,
         ConnectionEnds, history, listVars
<1>2. CASE ClientArrives \/ ClientTaken \/ \E b \in Buffers : TimePasses(b)
  <2>1. UNCHANGED <<buf, next, gFreeBufferList>>
    BY <1>2 DEF ClientArrives, ClientTaken, TimePasses, listVars
  <2>2. ToBeListed' = ToBeListed
    BY <1>1, <2>1 DEF ToBeListed
  <2> QED
    BY <1>0, <1>1, <2>1, <2>2, ListKept
<1>3. ASSUME NEW b \in Buffers, AcceptCompletes(b) PROVE ListInv'
  <2>1. UNCHANGED <<next, gFreeBufferList>> /\ buf[b] = "posted"
    BY <1>3 DEF AcceptCompletes, listVars
  <2>2. buf'[b] \in {"ok", "error"} /\ \A c \in Buffers : c # b => buf'[c] = buf[c]
    BY <1>0, <1>3 DEF AcceptCompletes, TypeOK
  <2>3. ASSUME NEW c \in ToBeListed' PROVE c \in ToBeListed
    <3>1. CASE c = b
      BY <2>1, <3>1, ToBeListedMember
    <3>2. CASE c # b /\ c \in Buffers
      BY <1>1, <2>2, <3>2, ToBeListedMember, ToBeListedMemberPrime
    <3>3. CASE \E w \in Workers : wk[w].pc \in {"ok", "error", "remove"} /\ c = wk[w].b
      BY <3>3, ToBeListedMember
    <3>4. c = mn.b /\ mn.pc \in {"post", "count"} => c \in Buffers
      BY <1>0 DEF HandsInv
    <3> QED
      BY <1>1, <3>1, <3>2, <3>3, <3>4, ToBeListedMemberPrime
  <2>4. ASSUME NEW c \in ToBeListed PROVE c \in ToBeListed'
    <3>1. c \in Buffers
      BY <1>0, ToBeListedStates
    <3> QED
      BY <1>1, <2>2, <3>1, ToBeListedMember, ToBeListedMemberPrime
  <2> QED
    BY <1>0, <1>1, <2>1, <2>2, <2>3, <2>4, ListKept
<1>4. ASSUME NEW b \in Buffers, ConnectionEnds(b) PROVE ListInv'
  <2>1. buf[b] = "used" /\ FreeBufferObj(b, "free")
    BY <1>4 DEF ConnectionEnds
  <2>2. b \notin ToBeListed
    BY <1>0, <2>1, ToBeListedStates
  <2>3. buf'[b] = "free" /\ \A c \in Buffers : c # b => buf'[c] = buf[c]
    BY <1>0, <2>1 DEF FreeBufferObj, TypeOK
  <2>4. ASSUME NEW c \in ToBeListed' PROVE c \in ToBeListed
    <3>1. CASE c = b
      BY <1>1, <2>2, <2>3, <3>1, ToBeListedMember, ToBeListedMemberPrime
    <3>2. CASE c # b /\ c \in Buffers
      BY <1>1, <2>3, <3>2, ToBeListedMember, ToBeListedMemberPrime
    <3>3. CASE \E w \in Workers : wk[w].pc \in {"ok", "error", "remove"} /\ c = wk[w].b
      BY <3>3, ToBeListedMember
    <3>4. c = mn.b /\ mn.pc \in {"post", "count"} => c \in Buffers
      BY <1>0 DEF HandsInv
    <3> QED
      BY <1>1, <3>1, <3>2, <3>3, <3>4, ToBeListedMemberPrime
  <2>5. ASSUME NEW c \in ToBeListed PROVE c \in ToBeListed'
    <3>1. c \in Buffers /\ c # b
      BY <1>0, <2>2, ToBeListedStates
    <3> QED
      BY <1>1, <2>3, <3>1, ToBeListedMember, ToBeListedMemberPrime
  <2>6. ToBeListed' = ToBeListed
    BY <2>4, <2>5
  <2> QED
    BY <1>1, <2>1, <2>2, <2>6, ListFrees
<1> QED
  BY <1>2, <1>3, <1>4 DEF Environment

\* A step of the main thread leaves the lists exact.
LEMMA MainLists ==
  ASSUME IInv, MainStep
  PROVE  ListInv'
<1>0. TypeOK /\ HandsInv /\ ListInv
  BY DEF IInv
<1>1. mn \in MainState /\ next \in [Buffers -> Buffers \cup {NULL}]
      /\ buf \in [Buffers -> {"heap", "free", "main", "posted",
                              "ok", "error", "worker", "used", "lost"}]
  BY <1>0 DEF TypeOK, MainState
<1>2. wk' = wk /\ refused' = refused
  BY DEF MainStep, TakeAcceptEvent, TakeRepost, ResetRepost, GetBufferObj,
         HandOutTwice, InsertPendingAccept, PostAccept, CountAccept, LoopEnds,
         Timeout, Sweep, history
<1>3. CASE TakeAcceptEvent \/ TakeRepost \/ ResetRepost \/ HandOutTwice
           \/ CountAccept \/ LoopEnds \/ Timeout \/ Sweep
  <2>1. UNCHANGED <<buf, next, gFreeBufferList, PendingAccepts>>
    BY <1>3 DEF TakeAcceptEvent, TakeRepost, ResetRepost, HandOutTwice, CountAccept,
               LoopEnds, Timeout, Sweep, listVars
  <2>2. mn.pc # "post" /\ mn'.pc \notin {"post", "count"}
    <3>1. CASE TakeAcceptEvent \/ TakeRepost
      BY <1>1, <3>1 DEF TakeAcceptEvent, TakeRepost, MainState
    <3>2. CASE ResetRepost \/ HandOutTwice \/ CountAccept
      BY <1>1, <3>2 DEF ResetRepost, HandOutTwice, CountAccept, MainGoto, MainState
    <3>3. CASE LoopEnds
      BY <3>3 DEF LoopEnds
    <3>4. CASE Timeout
      BY <1>1, <3>4 DEF Timeout, MainState
    <3>5. CASE Sweep
      <4>1. mn.pc = "sweep" /\ (MainGoto("wait") \/ mn' = [mn EXCEPT !.b = next[mn.b]])
        BY <3>5 DEF Sweep
      <4> QED
        BY <1>1, <4>1 DEF MainGoto, MainState
    <3> QED
      BY <1>3, <3>1, <3>2, <3>3, <3>4, <3>5
  <2>3. ~ (mn.pc \in {"post", "count"} /\ buf[mn.b] = "main")
    BY <1>0, <2>2 DEF HandsInv
  <2>4. ToBeListed' = ToBeListed
    <3>1. ASSUME NEW c \in ToBeListed PROVE c \in ToBeListed'
      BY <1>2, <2>1, <2>3, ToBeListedMember, ToBeListedMemberPrime
    <3>2. ASSUME NEW c \in ToBeListed' PROVE c \in ToBeListed
      BY <1>2, <2>1, <2>2, ToBeListedMember, ToBeListedMemberPrime
    <3> QED
      BY <3>1, <3>2
  <2> QED
    BY <1>0, <1>2, <2>1, <2>4, ListKept
\* GetBufferObj takes a buffer that is in no other use.
<1>4. ASSUME NEW b \in Buffers, buf[b] \in {"free", "heap"}, mn.pc = "loop",
             buf' = [buf EXCEPT ![b] = "main"], mn'.pc = "insert"
      PROVE  /\ buf'[b] = "main" /\ \A c \in Buffers : c # b => buf'[c] = buf[c]
             /\ ToBeListed' = ToBeListed
  <2>1. buf'[b] = "main" /\ \A c \in Buffers : c # b => buf'[c] = buf[c]
    BY <1>1, <1>4
  <2>2. ASSUME NEW c \in ToBeListed PROVE c \in ToBeListed'
    <3>1. c \in Buffers /\ c # b
      BY <1>0, <1>4, ToBeListedStates
    <3> QED
      BY <1>2, <1>4, <2>1, <3>1, ToBeListedMember, ToBeListedMemberPrime
  <2>3. ASSUME NEW c \in ToBeListed' PROVE c \in ToBeListed
    <3>1. CASE c \in Buffers /\ buf'[c] \in {"posted", "ok", "error"}
      BY <2>1, <3>1, ToBeListedMember
    <3>2. CASE \E w \in Workers : wk[w].pc \in {"ok", "error", "remove"} /\ c = wk[w].b
      BY <3>2, ToBeListedMember
    <3> QED
      BY <1>2, <1>4, <3>1, <3>2, ToBeListedMemberPrime
  <2> QED
    BY <2>1, <2>2, <2>3
<1>5. CASE GetBufferObj
  <2>0. mn.pc = "loop" /\ UNCHANGED PendingAccepts
    BY <1>5 DEF GetBufferObj
  <2>1. CASE gFreeBufferList # NULL
    <3>1. /\ buf[gFreeBufferList] = "free" /\ gFreeBufferList' = next[gFreeBufferList]
          /\ next' = [next EXCEPT ![gFreeBufferList] = NULL]
          /\ buf' = [buf EXCEPT ![gFreeBufferList] = "main"]
          /\ mn' = [mn EXCEPT !.pc = "insert", !.limit = @ - 1, !.b = gFreeBufferList]
      BY <1>5, <2>1 DEF GetBufferObj
    <3>2. gFreeBufferList \in Buffers /\ mn'.pc = "insert"
      BY <1>0, <1>1, <2>1, <3>1 DEF TypeOK, MainState
    <3>3. PICK b \in Buffers : b = gFreeBufferList
      BY <3>2
    <3>4. /\ buf'[b] = "main" /\ \A c \in Buffers : c # b => buf'[c] = buf[c]
          /\ ToBeListed' = ToBeListed
      BY <1>4, <2>0, <3>1, <3>2, <3>3
    <3>5. \A c \in Buffers : c # b => next'[c] = next[c]
      BY <1>1, <3>1, <3>3
    <3> SUFFICES ASSUME refused = 0 PROVE ListInv'
      BY <1>2 DEF ListInv
    <3>6. IsList(next, b, Freed)
      BY <1>0, <3>3 DEF ListInv
    <3>7. PICK R \in SUBSET Buffers :
            /\ IsList(next, PendingAccepts, R) /\ ToBeListed \subseteq R
            /\ \A c \in R : c \in ToBeListed \/ buf[c] = "lost"
      BY <1>0 DEF ListInv
    <3>8. b \notin R
      <4>1. b \notin ToBeListed
        BY <1>0, <3>1, <3>3, ToBeListedStates
      <4> QED
        BY <3>1, <3>3, <3>7, <4>1
    <3>9. b # NULL /\ Freed' = Freed \ {b}
      BY <2>1, <3>3, <3>4 DEF Freed
    <3> DEFINE my == next'
    <3>10. (\A c \in Freed \ {b} : my[c] = next[c]) /\ \A c \in R : my[c] = next[c]
      BY <3>5, <3>7, <3>8 DEF Freed
    <3> HIDE DEF my
    <3>11. IsList(my, next[b], Freed \ {b})
      BY <3>6, <3>9, <3>10, ListPop
    <3>12. IsList(my, PendingAccepts, R)
      BY <3>7, <3>10, ListFrame
    <3>13. \A c \in R : c \in ToBeListed' \/ buf'[c] = "lost"
      BY <3>4, <3>7, <3>8
    <3>14. gFreeBufferList' = next[b] /\ ToBeListed' \subseteq R
      BY <3>1, <3>3, <3>4, <3>7
    <3> QED
      BY <2>0, <3>9, <3>11, <3>12, <3>13, <3>14 DEF ListInv, my
  <2>2. ASSUME NEW b \in Buffers, buf[b] = "heap", buf' = [buf EXCEPT ![b] = "main"],
               mn' = [mn EXCEPT !.pc = "insert", !.limit = @ - 1, !.b = b],
               UNCHANGED <<next, gFreeBufferList>>
        PROVE  ListInv'
    <3>1. mn'.pc = "insert"
      BY <1>1, <2>2 DEF MainState
    <3>2. /\ buf'[b] = "main" /\ \A c \in Buffers : c # b => buf'[c] = buf[c]
          /\ ToBeListed' = ToBeListed
      BY <1>4, <2>0, <2>2, <3>1
    <3> QED
      BY <1>0, <1>2, <2>0, <2>2, <3>2, ListKept
  <2>3. CASE mn' = [mn EXCEPT !.limit = @ - 1] /\ UNCHANGED <<buf, next, gFreeBufferList>>
    <3>1. mn'.pc = "loop"
      BY <1>1, <2>0, <2>3 DEF MainState
    <3>2. ToBeListed' = ToBeListed
      <4>1. ASSUME NEW c \in ToBeListed PROVE c \in ToBeListed'
        BY <1>2, <2>0, <2>3, ToBeListedMember, ToBeListedMemberPrime
      <4>2. ASSUME NEW c \in ToBeListed' PROVE c \in ToBeListed
        BY <1>2, <2>3, <3>1, ToBeListedMember, ToBeListedMemberPrime
      <4> QED
        BY <4>1, <4>2
    <3> QED
      BY <1>0, <1>2, <2>0, <2>3, <3>2, ListKept
  <2> QED
    BY <1>5, <2>1, <2>2, <2>3 DEF GetBufferObj
<1>6. CASE InsertPendingAccept
  <2>1. /\ mn.pc = "insert" /\ next' = [next EXCEPT ![mn.b] = PendingAccepts]
        /\ PendingAccepts' = mn.b /\ UNCHANGED <<buf, gFreeBufferList>>
    BY <1>6 DEF InsertPendingAccept
  <2>2. mn'.pc = "post" /\ mn'.b = mn.b
    BY <1>1, <1>6 DEF InsertPendingAccept, MainGoto, MainState
  <2>3. PICK b \in Buffers : b = mn.b /\ buf[b] = "main"
    BY <1>0, <2>1 DEF HandsInv
  <2>4. next'[b] = PendingAccepts /\ \A c \in Buffers : c # b => next'[c] = next[c]
    BY <1>1, <2>1, <2>3
  <2>5. b \notin ToBeListed
    <3>1. \A w \in Workers : wk[w].pc \in {"ok", "error", "remove"} => wk[w].b # b
      BY <1>0, <2>3 DEF HandsInv, Holding
    <3> QED
      BY <2>1, <2>3, <3>1, ToBeListedMember
  <2>6. ToBeListed' = ToBeListed \cup {b}
    <3>1. ASSUME NEW c \in ToBeListed PROVE c \in ToBeListed'
      BY <1>2, <2>1, ToBeListedMember, ToBeListedMemberPrime
    <3>2. b \in ToBeListed'
      BY <2>1, <2>2, <2>3, ToBeListedMemberPrime
    <3>3. ASSUME NEW c \in ToBeListed', c # b PROVE c \in ToBeListed
      BY <1>2, <2>1, <2>2, <2>3, <3>3, ToBeListedMember, ToBeListedMemberPrime
    <3> QED
      BY <3>1, <3>2, <3>3
  <2> SUFFICES ASSUME refused = 0 PROVE ListInv'
    BY <1>2 DEF ListInv
  <2>7. IsList(next, gFreeBufferList, Freed) /\ b \notin Freed
    BY <1>0, <2>3 DEF ListInv, Freed
  <2>8. PICK R \in SUBSET Buffers :
          /\ IsList(next, PendingAccepts, R) /\ ToBeListed \subseteq R
          /\ \A c \in R : c \in ToBeListed \/ buf[c] = "lost"
    BY <1>0 DEF ListInv
  <2>9. b \notin R
    BY <2>3, <2>5, <2>8
  <2> DEFINE my == next'
  <2>10. my[b] = PendingAccepts /\ (\A c \in Freed : my[c] = next[c])
         /\ \A c \in R : my[c] = next[c]
    BY <2>4, <2>7, <2>8, <2>9 DEF Freed
  <2> HIDE DEF my
  <2>11. IsList(my, b, R \cup {b})
    BY <2>8, <2>9, <2>10, ListPush
  <2>12. IsList(my, gFreeBufferList, Freed)
    BY <2>7, <2>10, ListFrame
  <2>13. Freed' = Freed
    BY <2>1 DEF Freed
  <2> DEFINE Q == R \cup {b}
  <2>14. /\ Q \in SUBSET Buffers /\ ToBeListed' \subseteq Q
         /\ \A c \in Q : c \in ToBeListed' \/ buf'[c] = "lost"
    BY <2>1, <2>6, <2>8
  <2>15. IsList(next', gFreeBufferList', Freed') /\ IsList(next', PendingAccepts', Q)
    BY <2>1, <2>3, <2>11, <2>12, <2>13 DEF my
  <2> HIDE DEF Q
  <2> QED
    BY <2>14, <2>15 DEF ListInv
<1>7. CASE PostAccept
  <2>1. mn.pc = "post" /\ mn.b \in Buffers /\ buf[mn.b] = "main"
        /\ UNCHANGED <<next, gFreeBufferList, PendingAccepts>>
    BY <1>0, <1>7 DEF PostAccept, HandsInv, listVars
  <2>2. buf'[mn.b] \in {"posted", "lost"} /\ \A c \in Buffers : c # mn.b => buf'[c] = buf[c]
    BY <1>1, <1>7, <2>1 DEF PostAccept
  <2>3. mn'.pc \in {"count", "loop"} /\ (mn'.pc = "count" => mn'.b = mn.b)
    <3>1. CASE MainGoto("count")
      BY <1>1, <3>1 DEF MainGoto, MainState
    <3>2. CASE mn' = [mn EXCEPT !.pc = "loop", !.b = NULL]
      BY <1>1, <3>2 DEF MainState
    <3> QED
      BY <1>7, <3>1, <3>2 DEF PostAccept
  <2>4. ASSUME NEW c \in ToBeListed PROVE c \in ToBeListed' \/ buf'[c] = "lost"
    <3>1. c \in Buffers
      BY <1>0, ToBeListedStates
    <3>2. CASE c = mn.b
      BY <2>2, <3>1, <3>2, ToBeListedMemberPrime
    <3>3. CASE c # mn.b
      BY <1>2, <2>2, <3>1, <3>3, ToBeListedMember, ToBeListedMemberPrime
    <3> QED
      BY <3>2, <3>3
  <2>5. ASSUME NEW c \in ToBeListed' PROVE c \in ToBeListed
    <3>1. CASE c = mn.b
      BY <2>1, <3>1, ToBeListedMember
    <3>2. CASE c # mn.b
      BY <1>2, <2>2, <2>3, <3>2, ToBeListedMember, ToBeListedMemberPrime
    <3> QED
      BY <3>1, <3>2
  <2> QED
    BY <1>0, <1>2, <2>1, <2>2, <2>4, <2>5, ListKept
<1> QED
  BY <1>3, <1>5, <1>6, <1>7 DEF MainStep

\* A step of a worker leaves the lists exact, as long as no accept has
\* failed.
LEMMA WorkLists ==
  ASSUME IInv, NEW w \in Workers, Work(w)
  PROVE  ListInv'
<1>0. TypeOK /\ HandsInv /\ ListInv
  BY DEF IInv
<1>1. wk \in [Workers -> WorkerState] /\ next \in [Buffers -> Buffers \cup {NULL}]
      /\ refused \in Nat
      /\ buf \in [Buffers -> {"heap", "free", "main", "posted", "ok", "error",
                              "worker", "used", "lost"}]
  BY <1>0 DEF TypeOK, WorkerState, WorkerPcs
<1>2. mn' = mn
  BY DEF Work, Dequeue, HandleError, CountDown, RemovePendingAccept, Associate,
         CountRepost, SignalRepost
<1>3. mn.pc \in {"post", "count"} => mn.b \in Buffers
  BY <1>0 DEF HandsInv
<1>4. ASSUME NEW b \in Buffers, Dequeue(w, b) PROVE ListInv'
  <2>1. /\ wk[w].pc = "get" /\ buf[b] \in {"ok", "error"}
        /\ UNCHANGED <<next, gFreeBufferList, PendingAccepts, refused>>
        /\ buf' = [buf EXCEPT ![b] = "worker"]
        /\ wk' = [wk EXCEPT ![w] = [pc |-> buf[b], b |-> b]]
    BY <1>4 DEF Dequeue, history, listVars
  <2>2. /\ wk'[w].b = b /\ wk'[w].pc \in {"ok", "error"}
        /\ \A v \in Workers : v # w => wk'[v] = wk[v]
        /\ buf'[b] = "worker" /\ \A c \in Buffers : c # b => buf'[c] = buf[c]
    BY <1>1, <2>1
  <2>3. ASSUME NEW c \in ToBeListed PROVE c \in ToBeListed'
    <3>1. c \in Buffers
      BY <1>0, ToBeListedStates
    <3>2. CASE c = b
      BY <2>2, <3>2, ToBeListedMemberPrime
    <3>3. CASE c # b
      BY <1>2, <2>1, <2>2, <3>1, <3>3, ToBeListedMember, ToBeListedMemberPrime
    <3> QED
      BY <3>2, <3>3
  <2>4. ASSUME NEW c \in ToBeListed' PROVE c \in ToBeListed
    <3>1. CASE c = b
      BY <2>1, <3>1, ToBeListedMember
    <3>2. CASE c # b
      <4>1. CASE c \in Buffers
        BY <1>2, <2>2, <3>2, <4>1, ToBeListedMember, ToBeListedMemberPrime
      <4>2. CASE c \notin Buffers
        BY <1>2, <1>3, <2>2, <3>2, <4>2, ToBeListedMember, ToBeListedMemberPrime
      <4> QED
        BY <4>1, <4>2
    <3> QED
      BY <3>1, <3>2
  <2> QED
    BY <1>0, <2>1, <2>2, <2>3, <2>4, ListKept
<1>5. CASE HandleError(w)
  <2>1. refused' = refused + 1
    BY <1>5 DEF HandleError
  <2> QED
    BY <1>1, <2>1 DEF ListInv
\* The worker has nothing that is to be listed, or keeps it.
<1>6. ASSUME UNCHANGED <<buf, next, gFreeBufferList, PendingAccepts, refused>>,
             \A v \in Workers : v # w => wk'[v] = wk[v],
             wk[w].pc \in {"ok", "error", "remove"} <=> wk'[w].pc \in {"ok", "error", "remove"},
             wk[w].pc \in {"ok", "error", "remove"} => wk'[w].b = wk[w].b
      PROVE  ListInv'
  <2>1. ASSUME NEW c \in ToBeListed PROVE c \in ToBeListed'
    BY <1>2, <1>6, ToBeListedMember, ToBeListedMemberPrime
  <2>2. ASSUME NEW c \in ToBeListed' PROVE c \in ToBeListed
    BY <1>2, <1>6, ToBeListedMember, ToBeListedMemberPrime
  <2> QED
    BY <1>0, <1>6, <2>1, <2>2, ListKept
<1>7. CASE CountDown(w)
  <2>1. wk[w].pc = "ok" /\ Goto(w, "remove")
        /\ UNCHANGED <<buf, next, gFreeBufferList, PendingAccepts, refused>>
    BY <1>7 DEF CountDown, history, listVars
  <2>2. /\ wk'[w].pc = "remove" /\ wk'[w].b = wk[w].b
        /\ \A v \in Workers : v # w => wk'[v] = wk[v]
    BY <1>0, <2>1, GotoFacts DEF WorkerPcs
  <2> QED
    BY <1>6, <2>1, <2>2
<1>8. CASE RemovePendingAccept(w)
  <2>1. /\ wk[w].pc = "remove" /\ UNCHANGED <<buf, gFreeBufferList, refused>>
        /\ (Goto(w, "socket") \/ Goto(w, "hung"))
    BY <1>8 DEF RemovePendingAccept, history
  <2>2. wk'[w].pc \in {"socket", "hung"} /\ \A v \in Workers : v # w => wk'[v] = wk[v]
    BY <1>0, <2>1, GotoFacts DEF WorkerPcs
  <2>3. PICK b \in Buffers : b = wk[w].b /\ buf[b] = "worker"
    BY <1>0, <2>1 DEF HandsInv, Holding
  <2>4. \A v \in Workers : v # w /\ wk[v].pc \in Holding => wk[v].b # b
    BY <1>0, <2>1, <2>3 DEF HandsInv, Holding
  <2>5. b \in ToBeListed
    BY <2>1, <2>3, ToBeListedMember
  <2>6. ToBeListed' = ToBeListed \ {b}
    <3>1. ASSUME NEW c \in ToBeListed, c # b PROVE c \in ToBeListed'
      BY <1>2, <2>1, <2>2, <2>3, <3>1, ToBeListedMember, ToBeListedMemberPrime
    <3>2. ASSUME NEW c \in ToBeListed' PROVE c \in ToBeListed
      BY <1>2, <2>1, <2>2, ToBeListedMember, ToBeListedMemberPrime
    <3>3. b \notin ToBeListed'
      <4>1. ~ (b \in Buffers /\ buf'[b] \in {"posted", "ok", "error"})
        BY <2>1, <2>3
      <4>2. ~ \E v \in Workers : wk'[v].pc \in {"ok", "error", "remove"} /\ b = wk'[v].b
        BY <2>2, <2>4 DEF Holding
      <4>3. buf'[b] # "main"
        BY <2>1, <2>3
      <4> QED
        BY <4>1, <4>2, <4>3, ToBeListedMemberPrime
    <3> QED
      BY <3>1, <3>2, <3>3
  <2> SUFFICES ASSUME refused = 0 PROVE ListInv'
    BY <2>1 DEF ListInv
  <2>7. IsList(next, gFreeBufferList, Freed)
    BY <1>0 DEF ListInv
  <2>8. PICK R \in SUBSET Buffers :
          /\ IsList(next, PendingAccepts, R) /\ ToBeListed \subseteq R
          /\ \A c \in R : c \in ToBeListed \/ buf[c] = "lost"
    BY <1>0 DEF ListInv
  <2>9. b \in Listed(PendingAccepts) /\ b \in R
    BY <2>5, <2>8, ListedIsList
  <2>10. Remove(b)
    BY <1>8, <2>3, <2>9 DEF RemovePendingAccept
  <2>11. /\ IsList(next', PendingAccepts', R \ {b})
         /\ \A c \in Buffers \ R : next'[c] = next[c]
    BY <1>1, <2>8, <2>9, <2>10, RemoveFromList
  <2>12. \A c \in Freed : c \in Buffers \ R
    BY <1>0, <2>8, ToBeListedStates DEF Freed
  <2>13. Freed' = Freed
    BY <2>1 DEF Freed
  <2> DEFINE my == next'
  <2>14. \A c \in Freed : my[c] = next[c]
    BY <2>11, <2>12
  <2> HIDE DEF my
  <2>15. IsList(my, gFreeBufferList, Freed)
    BY <2>7, <2>14, ListFrame
  <2> DEFINE Q == R \ {b}
  <2>16. /\ Q \in SUBSET Buffers /\ ToBeListed' \subseteq Q
         /\ \A c \in Q : c \in ToBeListed' \/ buf'[c] = "lost"
    BY <2>1, <2>6, <2>8
  <2>17. IsList(next', gFreeBufferList', Freed') /\ IsList(next', PendingAccepts', Q)
    BY <2>1, <2>11, <2>13, <2>15 DEF my
  <2> HIDE DEF Q
  <2> QED
    BY <2>16, <2>17 DEF ListInv
<1>9. CASE Associate(w)
  <2>1. /\ wk[w].pc = "socket" /\ (Goto(w, "repost") \/ Goto(w, "get"))
        /\ UNCHANGED <<PendingAccepts, refused>>
    BY <1>9 DEF Associate
  <2>2. wk'[w].pc \in {"get", "repost"} /\ \A v \in Workers : v # w => wk'[v] = wk[v]
    BY <1>0, <2>1, GotoFacts DEF WorkerPcs
  <2>3. PICK b \in Buffers : b = wk[w].b /\ buf[b] = "worker"
    BY <1>0, <2>1 DEF HandsInv, Holding
  <2>4. \A v \in Workers : wk[v].pc \in {"ok", "error", "remove"} => wk[v].b # b
    BY <1>0, <2>1, <2>3 DEF HandsInv, Holding
  <2>5. b \notin ToBeListed
    BY <2>3, <2>4, ToBeListedMember
  <2>6. /\ buf'[b] \in {"used", "free", "lost"}
        /\ \A c \in Buffers : c # b => buf'[c] = buf[c]
    <3>1. \E s \in {"used", "free", "lost"} : buf' = [buf EXCEPT ![b] = s]
      BY <1>9, <2>3 DEF Associate, FreeBufferObj
    <3> QED
      BY <1>1, <3>1
  <2>7. ToBeListed' = ToBeListed
    <3>1. ASSUME NEW c \in ToBeListed PROVE c \in ToBeListed'
      <4>1. c \in Buffers /\ c # b
        BY <1>0, <2>5, ToBeListedStates
      <4> QED
        BY <1>2, <2>1, <2>2, <2>6, <4>1, ToBeListedMember, ToBeListedMemberPrime
    <3>2. ASSUME NEW c \in ToBeListed' PROVE c \in ToBeListed
      <4>1. CASE c = b
        BY <1>2, <2>2, <2>4, <2>6, <4>1, ToBeListedMember, ToBeListedMemberPrime
      <4>2. CASE c # b /\ c \in Buffers
        BY <1>2, <2>2, <2>6, <4>2, ToBeListedMember, ToBeListedMemberPrime
      <4>3. CASE c \notin Buffers
        BY <1>2, <1>3, <2>2, <4>3, ToBeListedMember, ToBeListedMemberPrime
      <4> QED
        BY <4>1, <4>2, <4>3
    <3> QED
      BY <3>1, <3>2
  <2>8. CASE FreeBufferObj(b, "free")
    BY <2>1, <2>3, <2>5, <2>7, <2>8, ListFrees
  <2>9. CASE buf' = [buf EXCEPT ![b] = "lost"] /\ UNCHANGED <<next, gFreeBufferList>>
    <3>1. buf'[b] = "lost"
      BY <1>1, <2>9
    <3> QED
      BY <1>0, <2>1, <2>3, <2>6, <2>7, <2>9, <3>1, ListKept
  <2>10. CASE /\ buf' = [buf EXCEPT ![b] = "used"] /\ next' = [next EXCEPT ![b] = NULL]
              /\ UNCHANGED gFreeBufferList
    <3> SUFFICES ASSUME refused = 0 PROVE ListInv'
      BY <2>1 DEF ListInv
    <3>1. IsList(next, gFreeBufferList, Freed) /\ b \notin Freed
      BY <1>0, <2>3 DEF ListInv, Freed
    <3>2. PICK R \in SUBSET Buffers :
            /\ IsList(next, PendingAccepts, R) /\ ToBeListed \subseteq R
            /\ \A c \in R : c \in ToBeListed \/ buf[c] = "lost"
      BY <1>0 DEF ListInv
    <3>3. b \notin R
      BY <2>3, <2>5, <3>2
    <3>4. buf'[b] = "used" /\ \A c \in Buffers : c # b => next'[c] = next[c]
      BY <1>1, <2>10
    <3>5. Freed' = Freed
      BY <2>3, <2>6, <3>4 DEF Freed
    <3> DEFINE my == next'
    <3>6. (\A c \in Freed : my[c] = next[c]) /\ \A c \in R : my[c] = next[c]
      BY <3>1, <3>2, <3>3, <3>4 DEF Freed
    <3> HIDE DEF my
    <3>7. IsList(my, gFreeBufferList, Freed) /\ IsList(my, PendingAccepts, R)
      BY <3>1, <3>2, <3>6, ListFrame
    <3>8. \A c \in R : c \in ToBeListed' \/ buf'[c] = "lost"
      BY <2>6, <2>7, <3>2, <3>3
    <3> QED
      BY <2>1, <2>7, <2>10, <3>2, <3>5, <3>7, <3>8 DEF ListInv, my
  <2> QED
    BY <1>9, <2>3, <2>8, <2>9, <2>10 DEF Associate
<1>10. CASE CountRepost(w) \/ SignalRepost(w)
  <2>1. wk[w].pc \in {"repost", "signal"} /\ (Goto(w, "signal") \/ Goto(w, "get"))
        /\ UNCHANGED <<buf, next, gFreeBufferList, PendingAccepts, refused>>
    BY <1>10 DEF CountRepost, SignalRepost, history, listVars
  <2>2. wk'[w].pc \in {"signal", "get"} /\ \A v \in Workers : v # w => wk'[v] = wk[v]
    BY <1>0, <2>1, GotoFacts DEF WorkerPcs
  <2> QED
    BY <1>6, <2>1, <2>2
<1> QED
  BY <1>4, <1>5, <1>7, <1>8, <1>9, <1>10 DEF Work

-----------------------------------------------------------------------------
(* The theorems.                                                           *)

\* The invariant holds initially.
LEMMA InitInvariant == Init => IInv
<1> SUFFICES ASSUME Init PROVE IInv
  OBVIOUS
<1>1. TypeOK
  <2>1. mn \in MainState
    BY ConstantsAssumption DEF Init, MainState
  <2>2. wk \in [Workers -> WorkerState]
    BY DEF Init, WorkerState, WorkerPcs
  <2>3. DataOK
    <3>1. /\ buf \in [Buffers -> {"heap", "free", "main", "posted", "ok", "error",
                                  "worker", "used", "lost"}]
          /\ sclient \in [Buffers -> {"none", "open", "connected", "stale", "closed"}]
          /\ next \in [Buffers -> Buffers \cup {NULL}]
      BY DEF Init
    <3>2. /\ gFreeBufferList = NULL /\ PendingAccepts = NULL /\ ListenCritSec = NULL
          /\ PendingAcceptCount = 0 /\ RepostCount = 0 /\ refused = 0
      BY DEF Init
    <3>3. clients \in 0..MaxClients /\ backlog \in 0..MaxClients
      BY ConstantsAssumption DEF Init
    <3>4. /\ RepostAccept \in BOOLEAN /\ AcceptEvent \in BOOLEAN /\ failed \in BOOLEAN
          /\ lost \in BOOLEAN /\ misuse \in BOOLEAN
      BY DEF Init
    <3> QED
      BY <3>1, <3>2, <3>3, <3>4 DEF DataOK
  <2> QED
    BY <2>1, <2>2, <2>3, TypeParts
<1>2. mn.pc = "loop" /\ \A w \in Workers : wk[w].pc = "get"
  BY DEF Init
<1>3. \A b \in Buffers : buf[b] = "heap"
  BY DEF Init
<1>4. BackInv /\ HandsInv /\ LostInv
  BY <1>2, <1>3 DEF Init, BackInv, HandsInv, LostInv, Holding
<1>5. Outstanding = {} /\ ToBeListed = {} /\ Freed = {}
  <2>1. \A b : b \notin Outstanding
    BY <1>2, <1>3, OutstandingMember
  <2>2. \A b : b \notin ToBeListed
    BY <1>2, <1>3, ToBeListedMember
  <2> QED
    BY <1>3, <2>1, <2>2 DEF Freed
<1>6. AcceptsCounted
  <2>1. Cardinality(Outstanding) = 0
    BY <1>5, FS_EmptySet
  <2> QED
    BY <1>2, <2>1 DEF Init, AcceptsCounted
<1>7. ListInv
  <2>1. gFreeBufferList = NULL /\ PendingAccepts = NULL
    BY DEF Init
  <2>2. IsList(next, NULL, {})
    BY ListEmpty
  <2> QED
    BY <1>5, <2>1, <2>2 DEF ListInv
<1>8. ServeInv /\ SignalInv
  BY DEF Init, ServeInv, Unheard, SignalInv
<1> QED
  BY <1>1, <1>4, <1>6, <1>7, <1>8 DEF IInv

\* Every step keeps the invariant.
LEMMA NextInvariant == IInv /\ [Next]_vars => IInv'
<1> SUFFICES ASSUME IInv, [Next]_vars PROVE IInv'
  OBVIOUS
<1>1. CASE Environment
  BY <1>1, EnvironmentTypes, EnvironmentHands, EnvironmentCount, EnvironmentLists,
     EnvironmentServe DEF IInv
<1>2. CASE MainStep
  BY <1>2, MainTypes, MainHands, MainCount, MainLists, MainServe DEF IInv
<1>3. ASSUME NEW w \in Workers, Work(w) PROVE IInv'
  BY <1>3, WorkTypes, WorkHands, WorkCount, WorkLists, WorkServe DEF IInv
<1>4. CASE UNCHANGED vars
  <2>1. UNCHANGED <<buf, sclient, next, gFreeBufferList, PendingAccepts,
                    PendingAcceptCount, RepostCount, RepostAccept, AcceptEvent,
                    clients, backlog, ListenCritSec, mn, wk, failed, refused, lost,
                    misuse>>
    BY <1>4 DEF vars, listVars, repostVars, netVars, history
  <2>2. TypeOK' /\ BackInv' /\ HandsInv' /\ LostInv'
    BY <2>1 DEF IInv, TypeOK, BackInv, HandsInv, LostInv
  <2>3. AcceptsCounted' /\ ListInv'
    BY <2>1 DEF IInv, AcceptsCounted, Outstanding, ListInv, Freed, ToBeListed
  <2>4. ServeInv' /\ SignalInv'
    BY <2>1 DEF IInv, ServeInv, Unheard, Waiting, Hope, SignalInv
  <2> QED
    BY <2>2, <2>3, <2>4 DEF IInv
<1> QED
  BY <1>1, <1>2, <1>3, <1>4 DEF Next

\* IInv is an invariant of the accepts of iocp_server.cpp.
THEOREM Invariance == Spec => []IInv
BY InitInvariant, NextInvariant, PTL DEF Spec

\* Every variable keeps its type: a buffer is where it may be, and no thread
\* follows a link to something that is not a buffer.
THEOREM TypeCorrect == Spec => []TypeOK
<1>1. IInv => TypeOK
  BY DEF IInv
<1> QED
  BY <1>1, Invariance, PTL

\* PendingAcceptCount counts the outstanding accepts and every accept that
\* ever failed: HandleIo returns without taking a failed one off.
THEOREM AcceptsStayCounted == Spec => []AcceptsCounted
<1>1. IInv => AcceptsCounted
  BY DEF IInv
<1> QED
  BY <1>1, Invariance, PTL

\* Until an accept fails, PendingAccepts and gFreeBufferList, which share
\* their link, hold exactly the pending accepts and the free buffers, and end.
THEOREM ListsStayExact == Spec => []ListsExact
<1>1. IInv => ListsExact
  <2> SUFFICES ASSUME IInv, refused = 0
               PROVE  /\ Ends(PendingAccepts) /\ Ends(gFreeBufferList)
                      /\ ToBeListed \subseteq Listed(PendingAccepts)
                      /\ ~failed => Listed(PendingAccepts) = ToBeListed
                      /\ Listed(gFreeBufferList) = Freed
                      /\ Listed(PendingAccepts) \cap Listed(gFreeBufferList) = {}
    BY DEF ListsExact, Freed
  <2>1. ListInv /\ HandsInv /\ LostInv
    BY DEF IInv
  <2>2. IsList(next, gFreeBufferList, Freed)
    BY <2>1 DEF ListInv
  <2>3. PICK R \in SUBSET Buffers :
          /\ IsList(next, PendingAccepts, R) /\ ToBeListed \subseteq R
          /\ \A b \in R : b \in ToBeListed \/ buf[b] = "lost"
    BY <2>1 DEF ListInv
  <2>4. Ends(gFreeBufferList) /\ Listed(gFreeBufferList) = Freed
    BY <2>2, ListedIsList
  <2>5. Ends(PendingAccepts) /\ Listed(PendingAccepts) = R
    BY <2>3, ListedIsList
  <2>6. ~failed => R = ToBeListed
    BY <2>1, <2>3 DEF LostInv
  <2>7. R \cap Freed = {}
    BY <2>1, <2>3, ToBeListedStates DEF Freed
  <2> QED
    BY <2>3, <2>4, <2>5, <2>6, <2>7
<1> QED
  BY <1>1, Invariance, PTL

\* When everyone is idle and clients wait, gMaxAccepts accepts are counted,
\* unless a call failed or ResetEvent undid a SetEvent: FD_ACCEPT and
\* RepostAccept together forget nobody.
THEOREM NobodyStranded == Spec => []NoClientStranded
<1>1. IInv => NoClientStranded
  <2> SUFFICES ASSUME IInv, Stranded, ~failed, ~lost
               PROVE  PendingAcceptCount >= MaxAccepts
    BY DEF NoClientStranded
  <2>1. ServeInv /\ SignalInv
    BY DEF IInv
  <2>2. Unheard
    BY DEF Stranded, Unheard
  <2>3. ~ (RepostCount > 0)
    BY <2>1 DEF Stranded, SignalInv
  <2>4. ~Hope
    BY <2>3 DEF Stranded, Hope
  <2> QED
    BY <2>1, <2>2, <2>4 DEF ServeInv
<1> QED
  BY <1>1, Invariance, PTL
=============================================================================
