-------------------------- MODULE CommitmentProofs --------------------------
(***************************************************************************)
(* Proofs about Merkle, for arrays of every length: the layers fit what is *)
(* allocated for them, the verifier follows the path from the leaf to the  *)
(* root, and it says "ok" exactly to the claim that was opened, so the     *)
(* three loops implement CommittedArray, and so do those of LayeredMerkle. *)
(* A hash is injective, as a term is; nothing else is used of it.          *)
(*                                                                         *)
(* And about Trapdoor, for every degree, modulus and set of noise that its *)
(* assumption admits: the basis of the authority is in the kernel of its   *)
(* row, and what verification leaves of a commitment is A . t exactly for  *)
(* the identity that was committed to.                                     *)
(***************************************************************************)
EXTENDS MCCommitments, TLAPS, SequenceTheorems, WellFoundedInduction

(* Every nonempty set of natural numbers has a least element.              *)
LEMMA LeastNatural ==
  ASSUME NEW T \in SUBSET Nat, T # {}
  PROVE  \E k \in T : \A m \in T : k <= m
<1> DEFINE R == OpToRel(<, Nat)
<1>1. IsWellFoundedOn(R, Nat)
  BY NatLessThanWellFounded
<1>2. \A x, y \in Nat : y < x => << y, x >> \in R
  BY DEF OpToRel
<1> HIDE DEF R
<1>3. PICK x \in T : \A y \in T : ~ (<< y, x >> \in R)
  BY <1>1, WFMin
<1>4. ASSUME NEW y \in T PROVE x <= y
  <2>1. x \in Nat /\ y \in Nat
    OBVIOUS
  <2>2. ~ (<< y, x >> \in R)
    BY <1>3
  <2>3. ~ (y < x)
    BY <1>2, <2>1, <2>2, Zenon
  <2> QED BY <2>1, <2>3
<1> QED BY <1>4

(* Induction, for the numbers of which something holds as a set.           *)
LEMMA UpToInduction ==
  ASSUME NEW P, NEW L \in Nat, 0 \in P,
         \A m \in Nat : m < L /\ m \in P => m + 1 \in P
  PROVE  \A m \in 0..L : m \in P
<1> DEFINE T == {m \in 0..L : m \notin P}
<1>1. SUFFICES ASSUME T # {} PROVE FALSE
  OBVIOUS
<1>2. PICK m \in T : \A x \in T : m <= x
  <2>1. T \in SUBSET Nat
    OBVIOUS
  <2> HIDE DEF T
  <2> QED BY <1>1, <2>1, LeastNatural
<1>3. m \in Nat /\ m <= L /\ m # 0 /\ m \notin P
  OBVIOUS
<1>4. m - 1 \in 0..L /\ m - 1 \in Nat /\ m - 1 < L /\ ~ (m <= m - 1) /\ (m - 1) + 1 = m
  BY <1>3
<1>5. m - 1 \in P
  BY <1>2, <1>4
<1> QED BY <1>3, <1>4, <1>5

-----------------------------------------------------------------------------
(* The functions of Merkle that are defined by recursion exist: a value    *)
(* may be computed from the value at a smaller number.                     *)
UpTo(f, B, base, prev, step, k) ==
  \A m \in 0..k : f[m] = IF m \in B THEN base[m] ELSE step[m, f[prev[m]]]

LEMMA RecursionUnique ==
  ASSUME NEW S, NEW B \in SUBSET Nat, NEW base, NEW prev \in [Nat -> Nat], NEW step,
         \A m \in Nat \ B : prev[m] < m,
         NEW f, NEW g, NEW k \in Nat, NEW l \in Nat,
         UpTo(f, B, base, prev, step, k), UpTo(g, B, base, prev, step, l)
  PROVE  \A m \in Nat : m <= k /\ m <= l => f[m] = g[m]
<1> DEFINE T == {m \in Nat : m <= k /\ m <= l /\ f[m] # g[m]}
<1>1. SUFFICES ASSUME T # {} PROVE FALSE
  OBVIOUS
<1>2. PICK m \in T : \A x \in T : m <= x
  BY <1>1, LeastNatural
<1>3. m \in 0..k /\ m \in 0..l /\ f[m] # g[m]
  OBVIOUS
<1>6. /\ f[m] = IF m \in B THEN base[m] ELSE step[m, f[prev[m]]]
      /\ g[m] = IF m \in B THEN base[m] ELSE step[m, g[prev[m]]]
  BY <1>3 DEF UpTo
<1>4. CASE m \in B
  BY <1>3, <1>4, <1>6
<1>5. CASE m \notin B
  <2>1. prev[m] \in Nat /\ prev[m] < m
    BY <1>3, <1>5
  <2>2. f[prev[m]] = g[prev[m]]
    BY <1>2, <1>3, <2>1
  <2> QED BY <1>3, <1>5, <1>6, <2>2
<1> QED BY <1>4, <1>5

LEMMA RecursionUpTo ==
  ASSUME NEW S, NEW B \in SUBSET Nat, NEW base \in [Nat -> S],
         NEW prev \in [Nat -> Nat], NEW step \in [Nat \X S -> S],
         \A m \in Nat \ B : prev[m] < m
  PROVE  \A k \in Nat : \E f \in [Nat -> S] : UpTo(f, B, base, prev, step, k)
<1> DEFINE T == {k \in Nat : ~ \E f \in [Nat -> S] : UpTo(f, B, base, prev, step, k)}
<1>1. SUFFICES ASSUME T # {} PROVE FALSE
  OBVIOUS
<1>2. PICK k \in T : \A x \in T : k <= x
  BY <1>1, LeastNatural
<1>3. PICK f \in [Nat -> S] :
        \A m \in 0..(k - 1) : f[m] = IF m \in B THEN base[m] ELSE step[m, f[prev[m]]]
  <2>1. CASE k = 0
    BY <2>1
  <2>2. CASE k # 0
    <3>1. k - 1 \in Nat /\ k - 1 \notin T
      BY <1>2, <2>2
    <3> QED BY <3>1 DEF UpTo
  <2> QED BY <2>1, <2>2
<1> DEFINE v == IF k \in B THEN base[k] ELSE step[k, f[prev[k]]]
           g == [m \in Nat |-> IF m = k THEN v ELSE f[m]]
<1>4. v \in S
  OBVIOUS
<1>5. g \in [Nat -> S]
  BY <1>4
<1>6. ASSUME NEW m \in 0..k
      PROVE  g[m] = IF m \in B THEN base[m] ELSE step[m, g[prev[m]]]
  <2>1. m \in Nat /\ prev[m] \in Nat /\ (m \notin B => prev[m] < m)
    OBVIOUS
  <2>2. m \notin B => g[prev[m]] = f[prev[m]]
    <3>1. m \notin B => prev[m] \in Nat /\ prev[m] # k
      BY <2>1
    <3> QED BY <3>1
  <2>3. CASE m = k
    BY <2>1, <2>2, <2>3
  <2>4. CASE m # k
    <3>1. m \in 0..(k - 1)
      BY <2>4
    <3>2. f[m] = IF m \in B THEN base[m] ELSE step[m, f[prev[m]]]
      BY <1>3, <3>1
    <3>3. g[m] = f[m]
      BY <2>1, <2>4
    <3> QED BY <2>2, <3>2, <3>3
  <2> QED BY <2>3, <2>4
<1> HIDE DEF g
<1>7. UpTo(g, B, base, prev, step, k)
  BY <1>6 DEF UpTo
<1> QED BY <1>5, <1>7

Descends(B, prev) == \A m \in Nat \ B : prev[m] < m
Solves(f, B, base, prev, step) ==
  \A m \in Nat : f[m] = IF m \in B THEN base[m] ELSE step[m, f[prev[m]]]

LEMMA Recursion ==
  ASSUME NEW S, NEW B \in SUBSET Nat, NEW base \in [Nat -> S],
         NEW prev \in [Nat -> Nat], NEW step \in [Nat \X S -> S],
         Descends(B, prev)
  PROVE  \E f \in [Nat -> S] : Solves(f, B, base, prev, step)
<1> DEFINE G(k) == CHOOSE f \in [Nat -> S] : UpTo(f, B, base, prev, step, k)
           F == [m \in Nat |-> G(m)[m]]
<1>0. \A m \in Nat \ B : prev[m] < m
  BY DEF Descends
<1>1. \A k \in Nat : G(k) \in [Nat -> S] /\ UpTo(G(k), B, base, prev, step, k)
  BY <1>0, RecursionUpTo
<1> HIDE DEF G
<1>2. F \in [Nat -> S]
  BY <1>1
<1>3. ASSUME NEW m \in Nat
      PROVE  F[m] = IF m \in B THEN base[m] ELSE step[m, F[prev[m]]]
  <2>1. UpTo(G(m), B, base, prev, step, m)
    BY <1>1
  <2>2. G(m)[m] = IF m \in B THEN base[m] ELSE step[m, G(m)[prev[m]]]
    <3>1. m \in 0..m
      OBVIOUS
    <3> QED BY <2>1, <3>1 DEF UpTo
  <2>3. ASSUME m \notin B PROVE G(m)[prev[m]] = G(prev[m])[prev[m]]
    <3>1. prev[m] \in Nat /\ prev[m] < m
      BY <1>0, <2>3
    <3>2. UpTo(G(prev[m]), B, base, prev, step, prev[m])
      BY <1>1, <3>1
    <3>3. \A x \in Nat : x <= m /\ x <= prev[m] => G(m)[x] = G(prev[m])[x]
      BY <1>0, <2>1, <3>1, <3>2, RecursionUnique
    <3> QED BY <3>1, <3>3
  <2> QED BY <2>2, <2>3
<1> HIDE DEF F
<1>4. Solves(F, B, base, prev, step)
  BY <1>3 DEF Solves
<1> QED BY <1>2, <1>4

(* The counts of layers and of nodes that are made out of m, the powers of *)
(* two, and where the layers begin.                                        *)
LayersOf[m \in Nat] == IF m <= 1 THEN 1 ELSE 1 + LayersOf[(m + 1) \div 2]
NodesOf[m \in Nat] == IF m <= 1 THEN m ELSE m + NodesOf[(m + 1) \div 2]

LEMMA LayersEquation ==
  \A m \in Nat : /\ LayersOf[m] \in Nat
                 /\ LayersOf[m] = IF m <= 1 THEN 1 ELSE 1 + LayersOf[(m + 1) \div 2]
<1> DEFINE base == [m \in Nat |-> 1]
           prev == [m \in Nat |-> (m + 1) \div 2]
           step == [x \in Nat \X Nat |-> 1 + x[2]]
           B == {0, 1}
<1>1. /\ base \in [Nat -> Nat] /\ prev \in [Nat -> Nat] /\ step \in [Nat \X Nat -> Nat]
      /\ B \in SUBSET Nat /\ Descends(B, prev)
  BY DEF Descends
<1>2. ASSUME NEW m \in Nat
      PROVE  /\ m \notin B => prev[m] = (m + 1) \div 2 /\ (m + 1) \div 2 \in Nat /\ (m + 1) \div 2 < m
             /\ m \in B => base[m] = 1
             /\ \A v \in Nat : step[m, v] = 1 + v
             /\ m \in B <=> m <= 1
  <2>1. m \in B <=> m <= 1
    OBVIOUS
  <2>2. m \notin B => (m + 1) \div 2 \in Nat /\ (m + 1) \div 2 < m
    OBVIOUS
  <2>3. m \notin B => prev[m] = (m + 1) \div 2
    BY <2>1
  <2>4. \A v \in Nat : step[m, v] = 1 + v
    OBVIOUS
  <2> QED BY <2>1, <2>2, <2>3, <2>4
<1> HIDE DEF base, prev, step, B
<1>3. PICK f \in [Nat -> Nat] : Solves(f, B, base, prev, step)
  BY <1>1, Recursion
<1>4. ASSUME NEW m \in Nat
      PROVE  f[m] = IF m <= 1 THEN 1 ELSE 1 + f[(m + 1) \div 2]
  <2>1. f[m] = IF m \in B THEN base[m] ELSE step[m, f[prev[m]]]
    BY <1>3 DEF Solves
  <2> QED BY <1>2, <2>1
<1>5. f = [m \in Nat |-> IF m <= 1 THEN 1 ELSE 1 + f[(m + 1) \div 2]]
  BY <1>4
<1>6. LayersOf = [m \in Nat |-> IF m <= 1 THEN 1 ELSE 1 + LayersOf[(m + 1) \div 2]]
  BY <1>5 DEF LayersOf
<1>7. \A m \in Nat : LayersOf[m] = IF m <= 1 THEN 1 ELSE 1 + LayersOf[(m + 1) \div 2]
  BY <1>6, Zenon
<1> DEFINE T == {m \in Nat : LayersOf[m] \notin Nat}
<1>8. ASSUME T # {} PROVE FALSE
  <2>1. PICK m \in T : \A x \in T : m <= x
    BY <1>8, LeastNatural
  <2>2. m \in Nat /\ LayersOf[m] \notin Nat
    OBVIOUS
  <2>3. ~ (m <= 1) => LayersOf[(m + 1) \div 2] \in Nat
    <3>1. ~ (m <= 1) => (m + 1) \div 2 \in Nat /\ (m + 1) \div 2 < m
      BY <1>2, <2>2
    <3> QED BY <2>1, <2>2, <3>1
  <2> QED BY <1>7, <2>2, <2>3
<1> QED BY <1>7, <1>8

LEMMA NodesEquation ==
  \A m \in Nat : /\ NodesOf[m] \in Nat
                 /\ NodesOf[m] = IF m <= 1 THEN m ELSE m + NodesOf[(m + 1) \div 2]
<1> DEFINE base == [m \in Nat |-> m]
           prev == [m \in Nat |-> (m + 1) \div 2]
           step == [x \in Nat \X Nat |-> x[1] + x[2]]
           B == {0, 1}
<1>1. /\ base \in [Nat -> Nat] /\ prev \in [Nat -> Nat] /\ step \in [Nat \X Nat -> Nat]
      /\ B \in SUBSET Nat /\ Descends(B, prev)
  BY DEF Descends
<1>2. ASSUME NEW m \in Nat
      PROVE  /\ m \notin B => prev[m] = (m + 1) \div 2 /\ (m + 1) \div 2 \in Nat /\ (m + 1) \div 2 < m
             /\ m \in B => base[m] = m
             /\ \A v \in Nat : step[m, v] = m + v
             /\ m \in B <=> m <= 1
  <2>1. m \in B <=> m <= 1
    OBVIOUS
  <2>2. m \notin B => (m + 1) \div 2 \in Nat /\ (m + 1) \div 2 < m
    OBVIOUS
  <2>3. m \notin B => prev[m] = (m + 1) \div 2
    BY <2>1
  <2>4. \A v \in Nat : step[m, v] = m + v
    OBVIOUS
  <2> QED BY <2>1, <2>2, <2>3, <2>4
<1> HIDE DEF base, prev, step, B
<1>3. PICK f \in [Nat -> Nat] : Solves(f, B, base, prev, step)
  BY <1>1, Recursion
<1>4. ASSUME NEW m \in Nat
      PROVE  f[m] = IF m <= 1 THEN m ELSE m + f[(m + 1) \div 2]
  <2>1. f[m] = IF m \in B THEN base[m] ELSE step[m, f[prev[m]]]
    BY <1>3 DEF Solves
  <2> QED BY <1>2, <2>1
<1>5. f = [m \in Nat |-> IF m <= 1 THEN m ELSE m + f[(m + 1) \div 2]]
  BY <1>4
<1>6. NodesOf = [m \in Nat |-> IF m <= 1 THEN m ELSE m + NodesOf[(m + 1) \div 2]]
  BY <1>5 DEF NodesOf
<1>7. \A m \in Nat : NodesOf[m] = IF m <= 1 THEN m ELSE m + NodesOf[(m + 1) \div 2]
  BY <1>6, Zenon
<1> DEFINE T == {m \in Nat : NodesOf[m] \notin Nat}
<1>8. ASSUME T # {} PROVE FALSE
  <2>1. PICK m \in T : \A x \in T : m <= x
    BY <1>8, LeastNatural
  <2>2. m \in Nat /\ NodesOf[m] \notin Nat
    OBVIOUS
  <2>3. ~ (m <= 1) => NodesOf[(m + 1) \div 2] \in Nat
    <3>1. ~ (m <= 1) => (m + 1) \div 2 \in Nat /\ (m + 1) \div 2 < m
      BY <1>2, <2>2
    <3> QED BY <2>1, <2>2, <3>1
  <2> QED BY <1>7, <2>2, <2>3
<1> QED BY <1>7, <1>8

LEMMA TwoToEquation ==
  \A m \in Nat : /\ TwoTo[m] \in Nat
                 /\ TwoTo[m] = IF m = 0 THEN 1 ELSE 2 * TwoTo[m - 1]
<1> DEFINE base == [m \in Nat |-> 1]
           prev == [m \in Nat |-> IF m = 0 THEN 0 ELSE m - 1]
           step == [x \in Nat \X Nat |-> 2 * x[2]]
           B == {0}
<1>1. /\ base \in [Nat -> Nat] /\ prev \in [Nat -> Nat] /\ step \in [Nat \X Nat -> Nat]
      /\ B \in SUBSET Nat /\ Descends(B, prev)
  BY DEF Descends
<1>2. ASSUME NEW m \in Nat
      PROVE  /\ m \notin B => prev[m] = m - 1 /\ m - 1 \in Nat /\ m - 1 < m
             /\ m \in B => base[m] = 1
             /\ \A v \in Nat : step[m, v] = 2 * v
             /\ m \in B <=> m = 0
  <2>1. m \in B <=> m = 0
    OBVIOUS
  <2>2. m \notin B => m - 1 \in Nat /\ m - 1 < m
    OBVIOUS
  <2>3. m \notin B => prev[m] = m - 1
    BY <2>1
  <2>4. \A v \in Nat : step[m, v] = 2 * v
    OBVIOUS
  <2> QED BY <2>1, <2>2, <2>3, <2>4
<1> HIDE DEF base, prev, step, B
<1>3. PICK f \in [Nat -> Nat] : Solves(f, B, base, prev, step)
  BY <1>1, Recursion
<1>4. ASSUME NEW m \in Nat
      PROVE  f[m] = IF m = 0 THEN 1 ELSE 2 * f[m - 1]
  <2>1. f[m] = IF m \in B THEN base[m] ELSE step[m, f[prev[m]]]
    BY <1>3 DEF Solves
  <2> QED BY <1>2, <2>1
<1>5. f = [m \in Nat |-> IF m = 0 THEN 1 ELSE 2 * f[m - 1]]
  BY <1>4
<1>6. TwoTo = [m \in Nat |-> IF m = 0 THEN 1 ELSE 2 * TwoTo[m - 1]]
  BY <1>5 DEF TwoTo
<1>7. \A m \in Nat : TwoTo[m] = IF m = 0 THEN 1 ELSE 2 * TwoTo[m - 1]
  BY <1>6, Zenon
<1> DEFINE T == {m \in Nat : TwoTo[m] \notin Nat}
<1>8. ASSUME T # {} PROVE FALSE
  <2>1. PICK m \in T : \A x \in T : m <= x
    BY <1>8, LeastNatural
  <2>2. m \in Nat /\ TwoTo[m] \notin Nat
    OBVIOUS
  <2>3. ~ (m = 0) => TwoTo[m - 1] \in Nat
    <3>1. ~ (m = 0) => m - 1 \in Nat /\ m - 1 < m
      BY <1>2, <2>2
    <3> QED BY <2>1, <2>2, <3>1
  <2> QED BY <1>7, <2>2, <2>3
<1> QED BY <1>7, <1>8

(* An array of at most 2^k elements has at most k layers above its leaves. *)
LEMMA LayersBound ==
  \A k \in Nat : \A m \in Nat : m <= TwoTo[k] => LayersOf[m] <= k + 1
<1> DEFINE T == {k \in Nat : ~ \A m \in Nat : m <= TwoTo[k] => LayersOf[m] <= k + 1}
<1>1. SUFFICES ASSUME T # {} PROVE FALSE
  OBVIOUS
<1>2. PICK k \in T : \A x \in T : k <= x
  BY <1>1, LeastNatural
<1>3. PICK m \in Nat : m <= TwoTo[k] /\ ~ (LayersOf[m] <= k + 1)
  OBVIOUS
<1>4. k \in Nat /\ TwoTo[k] \in Nat /\ LayersOf[m] \in Nat
  BY TwoToEquation, LayersEquation
<1>5. m > 1 /\ LayersOf[m] = 1 + LayersOf[(m + 1) \div 2]
  BY <1>3, <1>4, LayersEquation
<1>6. k # 0
  BY <1>3, <1>5, TwoToEquation
<1>7. k - 1 \in Nat /\ TwoTo[k - 1] \in Nat /\ TwoTo[k] = 2 * TwoTo[k - 1]
  BY <1>4, <1>6, TwoToEquation
<1>8. (m + 1) \div 2 \in Nat /\ (m + 1) \div 2 <= TwoTo[k - 1]
  BY <1>3, <1>7
<1>9. LayersOf[(m + 1) \div 2] \in Nat /\ LayersOf[(m + 1) \div 2] <= (k - 1) + 1
  <2>1. k - 1 \notin T
    BY <1>2, <1>4, <1>7
  <2>2. \A x \in Nat : x <= TwoTo[k - 1] => LayersOf[x] <= (k - 1) + 1
    BY <2>1, <1>7
  <2> QED BY <1>8, <2>2, LayersEquation
<1> QED BY <1>3, <1>4, <1>5, <1>9

(* Where the layers begin, for any sequence c of counts.                   *)
Starts(c) ==
  LET start[m \in 0..Len(c)] == IF m = 0 THEN 0 ELSE start[m - 1] + c[m]
  IN  start

LEMMA StartsEquation ==
  ASSUME NEW c \in Seq(Nat)
  PROVE  /\ Starts(c)[0] = 0
         /\ \A m \in 0..Len(c) : Starts(c)[m] \in Nat
         /\ \A m \in 1..Len(c) : Starts(c)[m] = Starts(c)[m - 1] + c[m]
<1>4. Len(c) \in Nat /\ \A m \in 1..Len(c) : c[m] \in Nat
  OBVIOUS
<1> DEFINE base == [m \in Nat |-> 0]
           prev == [m \in Nat |-> IF m = 0 THEN 0 ELSE m - 1]
           step == [x \in Nat \X Nat |-> IF x[1] \in 1..Len(c) THEN x[2] + c[x[1]] ELSE 0]
           B == {0}
<1>1. /\ base \in [Nat -> Nat] /\ prev \in [Nat -> Nat] /\ step \in [Nat \X Nat -> Nat]
      /\ B \in SUBSET Nat /\ Descends(B, prev)
  BY DEF Descends
<1>2. ASSUME NEW m \in 0..Len(c)
      PROVE  /\ m \in B <=> m = 0
             /\ base[m] = 0
             /\ m \notin B => prev[m] = m - 1 /\ m - 1 \in Nat /\ m \in 1..Len(c)
             /\ m \notin B => \A v \in Nat : step[m, v] = v + c[m]
  <2>1. m \in Nat /\ Len(c) \in Nat
    OBVIOUS
  <2>2. m \notin B => prev[m] = m - 1 /\ m - 1 \in Nat /\ m \in 1..Len(c)
    BY <2>1
  <2>3. m \notin B => \A v \in Nat : step[m, v] = v + c[m]
    BY <2>1, <2>2
  <2> QED BY <2>1, <2>2, <2>3
<1> HIDE DEF base, prev, step, B
<1>3. PICK f \in [Nat -> Nat] : Solves(f, B, base, prev, step)
  BY <1>1, Recursion
<1> DEFINE g == [m \in 0..Len(c) |-> f[m]]
<1>5. ASSUME NEW m \in 0..Len(c)
      PROVE  g[m] = IF m = 0 THEN 0 ELSE g[m - 1] + c[m]
  <2>1. m \in Nat
    BY <1>4
  <2>2. f[m] = IF m \in B THEN base[m] ELSE step[m, f[prev[m]]]
    BY <1>3, <2>1 DEF Solves
  <2>3. m # 0 => m - 1 \in 0..Len(c)
    BY <1>4
  <2> QED BY <1>2, <2>2, <2>3
<1> HIDE DEF g
<1>6. g = [m \in 0..Len(c) |-> IF m = 0 THEN 0 ELSE g[m - 1] + c[m]]
  <2>1. g = [m \in 0..Len(c) |-> g[m]]
    BY DEF g
  <2> QED BY <1>5, <2>1
<1>7. Starts(c) = [m \in 0..Len(c) |-> IF m = 0 THEN 0 ELSE Starts(c)[m - 1] + c[m]]
  BY <1>6 DEF Starts
<1> DEFINE S == Starts(c)
<1> HIDE DEF S
<1>8. \A m \in 0..Len(c) : S[m] = IF m = 0 THEN 0 ELSE S[m - 1] + c[m]
  BY <1>7, Zenon DEF S
<1> DEFINE P == {m \in 0..Len(c) : S[m] \in Nat}
<1>9. \A m \in 0..Len(c) : m \in P
  <2>1. 0 \in P
    BY <1>4, <1>8
  <2>2. ASSUME NEW m \in Nat, m < Len(c), m \in P PROVE m + 1 \in P
    <3>1. m + 1 \in 0..Len(c) /\ m + 1 \in 1..Len(c) /\ m + 1 # 0 /\ (m + 1) - 1 = m
      BY <1>4, <2>2
    <3>2. S[m] \in Nat /\ c[m + 1] \in Nat
      BY <1>4, <2>2, <3>1
    <3>3. S[m + 1] = S[m] + c[m + 1]
      BY <1>8, <3>1
    <3>4. \A x, y \in Nat : x + y \in Nat
      OBVIOUS
    <3>5. S[m + 1] \in Nat
      BY <3>2, <3>3, <3>4, Zenon
    <3> QED BY <3>1, <3>5
  <2> HIDE DEF P
  <2> QED BY <1>4, <2>1, <2>2, UpToInduction
<1>10. /\ S[0] = 0
       /\ \A m \in 0..Len(c) : S[m] \in Nat
       /\ \A m \in 1..Len(c) : S[m] = S[m - 1] + c[m]
  <2>1. S[0] = 0
    BY <1>4, <1>8
  <2>2. ASSUME NEW m \in 0..Len(c) PROVE S[m] \in Nat
    BY <1>4, <1>9
  <2>3. ASSUME NEW m \in 1..Len(c) PROVE S[m] = S[m - 1] + c[m]
    BY <1>4, <1>8
  <2> QED BY <2>1, <2>2, <2>3
<1> QED BY <1>10 DEF S

LEMMA StartsAppend ==
  ASSUME NEW c \in Seq(Nat), NEW v \in Nat
  PROVE  /\ \A m \in 0..Len(c) : Starts(Append(c, v))[m] = Starts(c)[m]
         /\ Starts(Append(c, v))[Len(c) + 1] = Starts(c)[Len(c)] + v
<1> DEFINE e == Append(c, v)
           S == Starts(c)
           E == Starts(e)
<1>1. /\ e \in Seq(Nat) /\ Len(c) \in Nat /\ Len(e) = Len(c) + 1
      /\ \A m \in 1..Len(c) : e[m] = c[m]
      /\ e[Len(c) + 1] = v
  OBVIOUS
<1> HIDE DEF e
<1>2. S[0] = 0 /\ \A m \in 1..Len(c) : S[m] = S[m - 1] + c[m]
  BY StartsEquation
<1>3. E[0] = 0 /\ \A m \in 1..Len(e) : E[m] = E[m - 1] + e[m]
  BY <1>1, StartsEquation
<1> HIDE DEF S, E
<1> DEFINE P == {m \in 0..Len(c) : E[m] = S[m]}
<1>5. \A m \in 0..Len(c) : E[m] = S[m]
  <2>1. 0 \in P
    BY <1>1, <1>2, <1>3
  <2>2. ASSUME NEW m \in Nat, m < Len(c), m \in P PROVE m + 1 \in P
    <3>1. /\ m + 1 \in 0..Len(c) /\ m + 1 \in 1..Len(c) /\ m + 1 \in 1..Len(e)
          /\ (m + 1) - 1 = m
      BY <1>1, <2>2
    <3>2. E[m + 1] = E[m] + e[m + 1] /\ S[m + 1] = S[m] + c[m + 1]
      BY <1>2, <1>3, <3>1
    <3> QED BY <1>1, <2>2, <3>1, <3>2
  <2>3. \A m \in 0..Len(c) : m \in P
    <3> HIDE DEF P
    <3> QED BY <1>1, <2>1, <2>2, UpToInduction
  <2> QED BY <2>3
<1>6. E[Len(c) + 1] = S[Len(c)] + v
  <2>1. Len(c) + 1 \in 1..Len(e) /\ (Len(c) + 1) - 1 = Len(c) /\ Len(c) \in 0..Len(c)
    BY <1>1
  <2> QED BY <1>1, <1>3, <1>5, <2>1
<1> QED BY <1>5, <1>6 DEF e, S, E

-----------------------------------------------------------------------------
(* Sequences of terms, of which no set is known.                           *)
IsSeq(q) == Len(q) \in Nat /\ q = [i \in 1..Len(q) |-> q[i]]

LEMMA TermsConcat ==
  ASSUME NEW q, NEW r, IsSeq(q), IsSeq(r)
  PROVE  /\ IsSeq(q \o r)
         /\ Len(q \o r) = Len(q) + Len(r)
         /\ \A i \in 1..Len(q) : (q \o r)[i] = q[i]
         /\ \A i \in 1..Len(r) : (q \o r)[Len(q) + i] = r[i]
<1> DEFINE U == {q[i] : i \in 1..Len(q)} \cup {r[i] : i \in 1..Len(r)}
<1>1. q \in Seq(U) /\ r \in Seq(U)
  <2>1. q \in [1..Len(q) -> U] /\ r \in [1..Len(r) -> U]
    BY DEF IsSeq
  <2>2. Len(q) \in Nat /\ Len(r) \in Nat
    BY DEF IsSeq
  <2> HIDE DEF U
  <2> QED BY <2>1, <2>2
<1> HIDE DEF U
<1>2. q \o r \in Seq(U)
  BY <1>1
<1>3. /\ Len(q \o r) = Len(q) + Len(r)
      /\ \A i \in 1..Len(q) : (q \o r)[i] = q[i]
      /\ \A i \in 1..Len(r) : (q \o r)[Len(q) + i] = r[i]
  BY <1>1
<1>4. IsSeq(q \o r)
  BY <1>2, LenProperties DEF IsSeq
<1> QED BY <1>3, <1>4

LEMMA TermsAppend ==
  ASSUME NEW q, NEW e, IsSeq(q)
  PROVE  /\ IsSeq(Append(q, e))
         /\ Len(Append(q, e)) = Len(q) + 1
         /\ \A i \in 1..Len(q) : Append(q, e)[i] = q[i]
         /\ Append(q, e)[Len(q) + 1] = e
<1> DEFINE U == {q[i] : i \in 1..Len(q)} \cup {e}
<1>1. q \in Seq(U) /\ e \in U
  <2>1. q \in [1..Len(q) -> U]
    BY DEF IsSeq
  <2>2. Len(q) \in Nat
    BY DEF IsSeq
  <2>3. e \in U
    OBVIOUS
  <2> HIDE DEF U
  <2> QED BY <2>1, <2>2, <2>3
<1> HIDE DEF U
<1>2. Append(q, e) \in Seq(U)
  BY <1>1
<1>3. /\ Len(Append(q, e)) = Len(q) + 1
      /\ \A i \in 1..Len(q) : Append(q, e)[i] = q[i]
      /\ Append(q, e)[Len(q) + 1] = e
  BY <1>1
<1>4. IsSeq(Append(q, e))
  BY <1>2, LenProperties DEF IsSeq
<1> QED BY <1>3, <1>4

(* Quotient and remainder, and that they are the only ones.                *)
LEMMA DivMod ==
  ASSUME NEW x \in Nat, NEW b \in Nat \ {0}
  PROVE  /\ x \div b \in Nat
         /\ x % b \in 0..(b - 1)
         /\ x = (x \div b) * b + (x % b)
<1>1. x \div b \in Nat
  OBVIOUS
<1>2. x % b \in 0..(b - 1)
  OBVIOUS
<1>3. x = (x \div b) * b + (x % b)
  OBVIOUS
<1> QED BY <1>1, <1>2, <1>3

(* A quotient by 2^(k + 1) is half of the one by 2^k.                      *)
LEMMA HalfAgain ==
  ASSUME NEW x \in Nat, NEW k \in Nat
  PROVE  /\ x \div TwoTo[k] \in Nat
         /\ x \div TwoTo[k + 1] = (x \div TwoTo[k]) \div 2
<1> DEFINE b == TwoTo[k]
           d == x \div b
           r == x % b
           u == d \div 2
           v == d % 2
<1>1. b \in Nat /\ TwoTo[k + 1] = 2 * b
  BY TwoToEquation
<1>2. b # 0
  <2> DEFINE P == {m \in Nat : TwoTo[m] # 0}
  <2>1. 0 \in P
    BY TwoToEquation
  <2>2. ASSUME NEW m \in Nat, m < k, m \in P PROVE m + 1 \in P
    BY <2>2, TwoToEquation
  <2>3. \A m \in 0..k : m \in P
    <3> HIDE DEF P
    <3> QED BY <2>1, <2>2, UpToInduction
  <2> QED BY <2>3
<1>3. d \in Nat /\ r \in 0..(b - 1) /\ x = d * b + r
  BY <1>1, <1>2, DivMod
<1>4. u \in Nat /\ v \in 0..1 /\ d = 2 * u + v
  BY <1>3
<1> HIDE DEF b, d, r, u, v
<1>5. d * b = u * (2 * b) + v * b
  BY <1>1, <1>3, <1>4
<1>6. v * b \in 0..b
  <2>1. v = 0 \/ v = 1
    BY <1>4
  <2> QED BY <1>1, <2>1
<1>7. x = u * (2 * b) + (v * b + r) /\ v * b + r \in Nat /\ v * b + r < 2 * b
  <2> DEFINE y == v * b
             z == u * (2 * b)
  <2>1. y \in 0..b /\ z \in Nat /\ b \in Nat /\ r \in 0..(b - 1) /\ x = (z + y) + r
    BY <1>1, <1>3, <1>4, <1>5, <1>6
  <2> HIDE DEF y, z
  <2>2. x = z + (y + r) /\ y + r \in Nat /\ y + r < 2 * b
    BY <2>1
  <2> QED BY <2>2 DEF y, z
<1>8. x \div (2 * b) = u
  <2> DEFINE m == v * b + r
             a == 2 * b
  <2>1. a \in Nat \ {0} /\ m \in 0..(a - 1) /\ x = u * a + m
    BY <1>1, <1>2, <1>7
  <2> HIDE DEF a, m
  <2>2. x \div a = u
    BY <2>1, <1>4
  <2> QED BY <2>2 DEF a
<1> QED BY <1>1, <1>3, <1>8 DEF b, d, u

-----------------------------------------------------------------------------
(* Node x of layer l, from 0 on, of a flat buffer b whose layers have the  *)
(* counts c, and what has to stand above the nodes 2 x and 2 x + 1.        *)
NodeIn(b, c, l, x) == b[Starts(c)[l] + x + 1]
ParentIn(b, c, l, x) ==
  HashNode(NodeIn(b, c, l, 2 * x),
           IF 2 * x + 1 < c[l + 1] THEN NodeIn(b, c, l, 2 * x + 1) ELSE NodeIn(b, c, l, 2 * x))

(* A flat buffer: its layers fill it; each is half of the one below, and   *)
(* made of its nodes; the lowest has the leaves.                           *)
Filled(b, c) == IsSeq(b) /\ c \in Seq(Nat \ {0}) /\ Len(b) = Starts(c)[Len(c)]

LeavesIn(b, c) ==
  c # << >> => /\ c[1] = n
               /\ \A x \in 0..(n - 1) : NodeIn(b, c, 0, x) = HashLeaf(x, CoeffAt(x))

LinkedIn(b, c) ==
  \A l \in 1..(Len(c) - 1) :
    /\ c[l] > 1 /\ c[l + 1] = (c[l] + 1) \div 2
    /\ \A x \in 0..(c[l + 1] - 1) : NodeIn(b, c, l, x) = ParentIn(b, c, l - 1, x)

(* The layers follow one another in the buffer.                            *)
LEMMA LayerPlaces ==
  ASSUME NEW b, NEW c, Filled(b, c)
  PROVE  /\ Len(b) \in Nat /\ Len(c) \in Nat
         /\ \A l \in 0..(Len(c) - 1) :
              /\ Starts(c)[l] \in Nat
              /\ c[l + 1] \in Nat \ {0}
              /\ Starts(c)[l + 1] = Starts(c)[l] + c[l + 1]
              /\ \A x \in 0..(c[l + 1] - 1) : Starts(c)[l] + x + 1 \in 1..Len(b)
<1> DEFINE S == Starts(c)
           K == Len(c)
<1>1. c \in Seq(Nat) /\ K \in Nat /\ \A l \in 1..K : c[l] \in Nat \ {0}
  BY DEF Filled
<1>2. /\ S[0] = 0
      /\ \A l \in 0..K : S[l] \in Nat
      /\ \A l \in 1..K : S[l] = S[l - 1] + c[l]
  BY <1>1, StartsEquation
<1>3. Len(b) = S[K] /\ Len(b) \in Nat
  BY DEF Filled, IsSeq
<1> HIDE DEF S, K
<1>4. ASSUME NEW l \in 0..(K - 1)
      PROVE  l \in 0..K /\ l + 1 \in 1..K /\ l + 1 \in 0..K /\ S[l + 1] = S[l] + c[l + 1]
  <2>1. l \in 0..K /\ l + 1 \in 1..K /\ l + 1 \in 0..K /\ (l + 1) - 1 = l
    BY <1>1
  <2> QED BY <1>2, <2>1
(* By induction from the last layer down.                                  *)
<1> DEFINE P == {m \in 0..K : S[K - m] <= S[K]}
<1>5. \A m \in 0..K : m \in P
  <2>1. 0 \in P
    BY <1>1, <1>2
  <2>2. ASSUME NEW m \in Nat, m < K, m \in P PROVE m + 1 \in P
    <3> DEFINE l == K - (m + 1)
    <3>1. l \in 0..(K - 1) /\ l + 1 = K - m /\ m + 1 \in 0..K /\ K \in 0..K
      BY <1>1, <2>2
    <3>2. S[l + 1] <= S[K]
      BY <2>2, <3>1
    <3>3. /\ S[l + 1] = S[l] + c[l + 1] /\ c[l + 1] \in Nat
          /\ S[l] \in Nat /\ S[l + 1] \in Nat /\ S[K] \in Nat
      BY <1>1, <1>2, <1>4, <3>1
    <3>4. S[l] <= S[K]
      BY <3>2, <3>3
    <3> QED BY <3>1, <3>4
  <2> HIDE DEF P
  <2> QED BY <1>1, <2>1, <2>2, UpToInduction
<1>6. ASSUME NEW l \in 0..(K - 1)
      PROVE  /\ S[l] \in Nat
             /\ c[l + 1] \in Nat \ {0}
             /\ S[l + 1] = S[l] + c[l + 1]
             /\ \A x \in 0..(c[l + 1] - 1) : S[l] + x + 1 \in 1..Len(b)
  <2>1. S[l] \in Nat /\ S[l + 1] \in Nat /\ c[l + 1] \in Nat \ {0}
    BY <1>1, <1>2, <1>4
  <2>2. S[l + 1] = S[l] + c[l + 1]
    BY <1>4
  <2>3. S[l + 1] <= S[K]
    <3>1. K - (l + 1) \in 0..K /\ K - (K - (l + 1)) = l + 1
      BY <1>1
    <3>2. K - (l + 1) \in P
      BY <1>5, <3>1
    <3> QED BY <3>1, <3>2
  <2>4. ASSUME NEW x \in 0..(c[l + 1] - 1) PROVE S[l] + x + 1 \in 1..Len(b)
    <3> DEFINE y == c[l + 1]
               z == S[l]
    <3>1. /\ z \in Nat /\ y \in Nat /\ x \in 0..(y - 1) /\ z + y <= Len(b)
          /\ Len(b) \in Nat
      BY <1>3, <2>1, <2>2, <2>3
    <3> HIDE DEF y, z
    <3>2. z + x + 1 \in 1..Len(b)
      BY <3>1
    <3> QED BY <3>2 DEF z
  <2> QED BY <2>1, <2>2, <2>4
<1> QED BY <1>1, <1>3, <1>6 DEF S, K

(* u is what has to follow the layers of b.                                *)
Follows(b, c, u) ==
  /\ IsSeq(u) /\ Len(u) > 0
  /\ c = << >> => /\ Len(u) = n
                  /\ \A x \in 0..(n - 1) : u[x + 1] = HashLeaf(x, CoeffAt(x))
  /\ c # << >> => /\ c[Len(c)] > 1 /\ Len(u) = (c[Len(c)] + 1) \div 2
                  /\ \A x \in 0..(Len(u) - 1) : u[x + 1] = ParentIn(b, c, Len(c) - 1, x)

(* The buffer with one more layer: what was there stays in its place.      *)
LEMMA LayerAdded ==
  ASSUME NEW b, NEW c, NEW u, Filled(b, c), IsSeq(u), Len(u) > 0
  PROVE  /\ Filled(b \o u, Append(c, Len(u)))
         /\ \A l \in 0..(Len(c) - 1) : \A x \in 0..(c[l + 1] - 1) :
              NodeIn(b \o u, Append(c, Len(u)), l, x) = NodeIn(b, c, l, x)
         /\ \A x \in 0..(Len(u) - 1) :
              NodeIn(b \o u, Append(c, Len(u)), Len(c), x) = u[x + 1]
<1> DEFINE e == Append(c, Len(u))
           q == b \o u
           S == Starts(c)
           E == Starts(e)
<1>1. /\ c \in Seq(Nat) /\ c \in Seq(Nat \ {0}) /\ Len(c) \in Nat
      /\ Len(u) \in Nat \ {0}
      /\ IsSeq(b) /\ Len(b) \in Nat /\ Len(b) = S[Len(c)]
  BY DEF Filled, IsSeq
<1>2. /\ e \in Seq(Nat \ {0}) /\ Len(e) = Len(c) + 1
  BY <1>1
<1>3. /\ IsSeq(q) /\ Len(q) = Len(b) + Len(u)
      /\ \A i \in 1..Len(b) : q[i] = b[i]
      /\ \A i \in 1..Len(u) : q[Len(b) + i] = u[i]
  BY <1>1, TermsConcat
<1>4. /\ \A m \in 0..Len(c) : E[m] = S[m]
      /\ E[Len(c) + 1] = S[Len(c)] + Len(u)
  BY <1>1, StartsAppend
<1>5. \A l \in 0..(Len(c) - 1) :
        /\ S[l] \in Nat /\ c[l + 1] \in Nat \ {0}
        /\ \A x \in 0..(c[l + 1] - 1) : S[l] + x + 1 \in 1..Len(b)
  BY LayerPlaces
<1> HIDE DEF e, q, S, E
<1>6. Filled(q, e)
  BY <1>1, <1>2, <1>3, <1>4 DEF Filled, E
<1>7. ASSUME NEW l \in 0..(Len(c) - 1), NEW x \in 0..(c[l + 1] - 1)
      PROVE  q[E[l] + x + 1] = b[S[l] + x + 1]
  <2>1. l \in 0..Len(c)
    BY <1>1
  <2>2. S[l] + x + 1 \in 1..Len(b)
    BY <1>5
  <2> QED BY <1>3, <1>4, <2>1, <2>2
<1>8. ASSUME NEW x \in 0..(Len(u) - 1) PROVE q[E[Len(c)] + x + 1] = u[x + 1]
  <2>1. x + 1 \in 1..Len(u) /\ x \in Nat /\ Len(c) \in 0..Len(c)
    BY <1>1
  <2>2. E[Len(c)] = Len(b)
    BY <1>1, <1>4, <2>1
  <2>3. E[Len(c)] + x + 1 = Len(b) + (x + 1)
    <3>1. \A y \in Nat : y + x + 1 = y + (x + 1)
      BY <2>1
    <3> QED BY <1>1, <2>2, <3>1, Zenon
  <2> QED BY <1>3, <2>1, <2>3
<1> QED BY <1>6, <1>7, <1>8 DEF NodeIn, e, q, S, E

LEMMA TreeGrows ==
  ASSUME NEW b, NEW c, NEW u, Filled(b, c), LeavesIn(b, c), LinkedIn(b, c), Follows(b, c, u)
  PROVE  /\ LeavesIn(b \o u, Append(c, Len(u)))
         /\ LinkedIn(b \o u, Append(c, Len(u)))
<1> DEFINE e == Append(c, Len(u))
           q == b \o u
           K == Len(c)
<1>1. /\ c \in Seq(Nat \ {0}) /\ K \in Nat /\ Len(u) \in Nat \ {0} /\ IsSeq(u)
      /\ \A l \in 1..K : c[l] \in Nat \ {0}
      /\ c # << >> => K > 0
      /\ c = << >> => K = 0
  BY DEF Filled, IsSeq, Follows
<1>2. /\ Len(e) = K + 1
      /\ \A l \in 1..K : e[l] = c[l]
      /\ e[K + 1] = Len(u)
      /\ e # << >>
  BY <1>1
<1>3. /\ \A l \in 0..(K - 1) : \A x \in 0..(c[l + 1] - 1) : NodeIn(q, e, l, x) = NodeIn(b, c, l, x)
      /\ \A x \in 0..(Len(u) - 1) : NodeIn(q, e, K, x) = u[x + 1]
  BY <1>1, LayerAdded
<1> HIDE DEF e, q, K
<1>4. LeavesIn(q, e)
  <2>1. CASE c = << >>
    <3>1. K = 0 /\ Len(u) = n /\ \A x \in 0..(n - 1) : u[x + 1] = HashLeaf(x, CoeffAt(x))
      BY <1>1, <2>1 DEF Follows
    <3> QED BY <1>2, <1>3, <3>1 DEF LeavesIn
  <2>2. CASE c # << >>
    <3>1. 0 \in 0..(K - 1) /\ 1 \in 1..K /\ 0 + 1 = 1
      BY <1>1, <2>2
    <3>2. c[1] = n /\ \A x \in 0..(n - 1) : NodeIn(b, c, 0, x) = HashLeaf(x, CoeffAt(x))
      BY <2>2 DEF LeavesIn
    <3>3. e[1] = n
      BY <1>2, <3>1, <3>2
    <3>4. \A x \in 0..(n - 1) : NodeIn(q, e, 0, x) = NodeIn(b, c, 0, x)
      BY <1>3, <3>1, <3>2
    <3> QED BY <3>2, <3>3, <3>4 DEF LeavesIn
  <2> QED BY <2>1, <2>2
(* Parents of the nodes of an old layer are what they were.                *)
<1>5. ASSUME NEW l \in 0..(K - 1), NEW x \in Nat, x < (c[l + 1] + 1) \div 2
      PROVE  ParentIn(q, e, l, x) = ParentIn(b, c, l, x)
  <2>1. l + 1 \in 1..K /\ e[l + 1] = c[l + 1] /\ c[l + 1] \in Nat
    BY <1>1, <1>2
  <2>2. 2 * x \in 0..(c[l + 1] - 1)
    BY <1>5, <2>1
  <2>3. 2 * x + 1 < c[l + 1] => 2 * x + 1 \in 0..(c[l + 1] - 1)
    BY <2>1
  <2>4. NodeIn(q, e, l, 2 * x) = NodeIn(b, c, l, 2 * x)
    BY <1>3, <2>2
  <2>5. 2 * x + 1 < c[l + 1] => NodeIn(q, e, l, 2 * x + 1) = NodeIn(b, c, l, 2 * x + 1)
    BY <1>3, <2>3
  <2> QED BY <2>1, <2>4, <2>5 DEF ParentIn
<1>6. ASSUME NEW l \in 1..(Len(e) - 1)
      PROVE  /\ e[l] > 1 /\ e[l + 1] = (e[l] + 1) \div 2
             /\ \A x \in 0..(e[l + 1] - 1) : NodeIn(q, e, l, x) = ParentIn(q, e, l - 1, x)
  <2>0. l \in 1..K /\ l - 1 \in 0..(K - 1) /\ (l - 1) + 1 = l
    BY <1>1, <1>2
  <2>1. CASE l < K
    <3>1. l \in 1..(K - 1) /\ l \in 0..(K - 1) /\ l + 1 \in 1..K
      BY <1>1, <2>1
    <3>2. /\ c[l] > 1 /\ c[l + 1] = (c[l] + 1) \div 2
          /\ \A x \in 0..(c[l + 1] - 1) : NodeIn(b, c, l, x) = ParentIn(b, c, l - 1, x)
      BY <3>1 DEF LinkedIn, K
    <3>3. e[l] = c[l] /\ e[l + 1] = c[l + 1] /\ c[l] \in Nat /\ c[l + 1] \in Nat
      BY <1>1, <1>2, <2>0, <3>1
    <3>4. ASSUME NEW x \in 0..(c[l + 1] - 1)
          PROVE  NodeIn(q, e, l, x) = ParentIn(q, e, l - 1, x)
      <4>1. NodeIn(q, e, l, x) = NodeIn(b, c, l, x)
        BY <1>3, <3>1
      <4>2. x \in Nat /\ x < (c[(l - 1) + 1] + 1) \div 2
        BY <2>0, <3>2, <3>3
      <4>3. ParentIn(q, e, l - 1, x) = ParentIn(b, c, l - 1, x)
        BY <1>5, <2>0, <4>2
      <4> QED BY <3>2, <4>1, <4>3
    <3> QED BY <3>2, <3>3, <3>4
  <2>2. CASE l = K
    <3>1. c # << >>
      BY <1>1, <2>0
    <3>2. /\ c[K] > 1 /\ Len(u) = (c[K] + 1) \div 2
          /\ \A x \in 0..(Len(u) - 1) : u[x + 1] = ParentIn(b, c, K - 1, x)
      BY <3>1 DEF Follows, K
    <3>3. e[K] = c[K] /\ e[K + 1] = Len(u) /\ c[K] \in Nat
      BY <1>1, <1>2, <2>0, <2>2
    <3>4. ASSUME NEW x \in 0..(Len(u) - 1)
          PROVE  NodeIn(q, e, K, x) = ParentIn(q, e, K - 1, x)
      <4>1. NodeIn(q, e, K, x) = u[x + 1]
        BY <1>3
      <4>2. x \in Nat /\ x < (c[(K - 1) + 1] + 1) \div 2
        BY <1>1, <2>0, <2>2, <3>2
      <4>3. ParentIn(q, e, K - 1, x) = ParentIn(b, c, K - 1, x)
        BY <1>5, <2>0, <2>2, <4>2
      <4> QED BY <3>2, <4>1, <4>3
    <3> QED BY <2>2, <3>2, <3>3, <3>4
  <2> QED BY <1>1, <2>0, <2>1, <2>2
<1>7. LinkedIn(q, e)
  BY <1>6 DEF LinkedIn
<1> QED BY <1>4, <1>7 DEF e, q

-----------------------------------------------------------------------------
(* The path from node x of the lowest layer to the root stays inside the   *)
(* layers, and ends in the last node of the buffer.                        *)
LEMMA PathStaysInside ==
  ASSUME NEW b, NEW c, Filled(b, c), LeavesIn(b, c), LinkedIn(b, c),
         c # << >>, NEW x \in Nat, x < n, n \in Nat
  PROVE  \A l \in 0..(Len(c) - 1) : x \div TwoTo[l] \in 0..(c[l + 1] - 1)
<1> DEFINE K == Len(c)
           P == {l \in 0..(K - 1) : x \div TwoTo[l] \in 0..(c[l + 1] - 1)}
<1>1. /\ K \in Nat /\ K # 0
      /\ \A l \in 0..(K - 1) : c[l + 1] \in Nat \ {0}
      /\ K - 1 \in Nat
  <2>1. c \in Seq(Nat \ {0})
    BY DEF Filled
  <2> QED BY <2>1
<1>2. 0 \in P
  <2>1. TwoTo[0] = 1 /\ x \div 1 = x
    BY TwoToEquation
  <2>2. c[1] = n
    BY DEF LeavesIn
  <2> QED BY <1>1, <2>1, <2>2
<1>3. ASSUME NEW m \in Nat, m < K - 1, m \in P PROVE m + 1 \in P
  <2>1. /\ m + 1 \in 1..(K - 1) /\ m + 1 \in 0..(K - 1) /\ m \in 0..(K - 1)
    BY <1>1, <1>3
  <2>2. c[m + 2] = (c[m + 1] + 1) \div 2 /\ (m + 1) + 1 = m + 2
    BY <2>1 DEF LinkedIn
  <2>3. /\ x \div TwoTo[m] \in Nat
        /\ x \div TwoTo[m + 1] = (x \div TwoTo[m]) \div 2
    BY HalfAgain
  <2>4. x \div TwoTo[m] \in 0..(c[m + 1] - 1) /\ c[m + 1] \in Nat
    BY <1>1, <1>3, <2>1
  <2>5. (x \div TwoTo[m]) \div 2 \in 0..(((c[m + 1] + 1) \div 2) - 1)
    BY <2>4
  <2> QED BY <2>1, <2>2, <2>3, <2>5
<1>4. \A m \in 0..(K - 1) : m \in P
  <2> HIDE DEF P
  <2> QED BY <1>1, <1>2, <1>3, UpToInduction
<1> QED BY <1>4

LEMMA RootIsLast ==
  ASSUME NEW b, NEW c, Filled(b, c), c # << >>, c[Len(c)] = 1
  PROVE  b[Len(b)] = NodeIn(b, c, Len(c) - 1, 0)
<1>1. c \in Seq(Nat \ {0}) /\ Len(c) \in Nat /\ Len(c) # 0
  BY DEF Filled
<1>2. Len(c) - 1 \in 0..(Len(c) - 1) /\ (Len(c) - 1) + 1 = Len(c)
  BY <1>1
<1>3. /\ Starts(c)[Len(c) - 1] \in Nat
      /\ Starts(c)[Len(c)] = Starts(c)[Len(c) - 1] + 1
  BY <1>2, LayerPlaces
<1>4. Len(b) = Starts(c)[Len(c)]
  BY DEF Filled
<1>5. Len(b) = Starts(c)[Len(c) - 1] + 0 + 1
  BY <1>3, <1>4
<1> QED BY <1>5 DEF NodeIn

(* A node and its sibling, in the order the parity of its index tells,     *)
(* make its parent.                                                        *)
LEMMA SiblingsMakeParent ==
  ASSUME NEW b, NEW c, Filled(b, c), LinkedIn(b, c),
         NEW l \in Nat, l + 1 < Len(c), NEW p \in 0..(c[l + 1] - 1)
  PROVE  LET u == NodeIn(b, c, l, p)
             s == NodeIn(b, c, l, Sibling(p, c[l + 1]))
         IN  NodeIn(b, c, l + 1, p \div 2) = IF p % 2 = 0 THEN HashNode(u, s) ELSE HashNode(s, u)
<1>1. Len(c) \in Nat /\ c[l + 1] \in Nat
  <2>1. Len(c) \in Nat /\ c \in Seq(Nat \ {0})
    BY DEF Filled
  <2> QED BY <2>1
<1>2. l + 1 \in 1..(Len(c) - 1) /\ (l + 1) - 1 = l
  BY <1>1
<1>3. /\ c[(l + 1) + 1] = (c[l + 1] + 1) \div 2
      /\ \A x \in 0..(c[(l + 1) + 1] - 1) : NodeIn(b, c, l + 1, x) = ParentIn(b, c, (l + 1) - 1, x)
  BY <1>2 DEF LinkedIn
<1>4. p \div 2 \in 0..(((c[l + 1] + 1) \div 2) - 1)
  BY <1>1
<1>5. NodeIn(b, c, l + 1, p \div 2) = ParentIn(b, c, l, p \div 2)
  BY <1>2, <1>3, <1>4
<1>6. CASE p % 2 = 0
  <2>1. 2 * (p \div 2) = p
    BY <1>1, <1>6
  <2>2. Sibling(p, c[l + 1]) = IF p + 1 < c[l + 1] THEN p + 1 ELSE p
    BY <1>1, <1>6 DEF Sibling
  <2> QED BY <1>5, <1>6, <2>1, <2>2 DEF ParentIn
<1>7. CASE p % 2 # 0
  <2>1. 2 * (p \div 2) = p - 1 /\ 2 * (p \div 2) + 1 = p
    BY <1>1, <1>7
  <2>2. Sibling(p, c[l + 1]) = p - 1
    BY <1>1, <1>7 DEF Sibling
  <2>3. p < c[l + 1]
    BY <1>1
  <2> QED BY <1>5, <1>7, <2>1, <2>2, <2>3 DEF ParentIn
<1> QED BY <1>6, <1>7

-----------------------------------------------------------------------------
(* The inductive invariant.  The tree that has been built so far is one,   *)
(* and cur is the layer that comes next; together with the layers still to *)
(* be made it fills exactly what was allocated.                            *)
TreeRight ==
  /\ coeffs \in Seq(Values)
  /\ Filled(buf, layer_counts)
  /\ LeavesIn(buf, layer_counts)
  /\ LinkedIn(buf, layer_counts)

Building ==
  pc = "build" =>
    /\ IsSeq(cur)
    /\ cur = << >> => n = 0 /\ layer_counts = << >> /\ buf = << >>
    /\ cur # << >> => /\ Follows(buf, layer_counts, cur)
                      /\ Len(layer_counts) + LayersOf[Len(cur)] = LayersOf[n]
                      /\ Len(buf) + NodesOf[Len(cur)] = NodesOf[n]

Started == pc \in {"prove", "verify", "done"}

Built ==
  /\ pc = "empty" => n = 0 /\ layer_counts = << >> /\ buf = << >>
  /\ pc = "built" \/ Started => /\ layer_counts # << >>
                                /\ layer_counts[Len(layer_counts)] = 1
                                /\ Len(layer_counts) = LayersOf[n]
                                /\ Len(buf) = NodesOf[n]

(* The steps are the siblings of the nodes on the path from the leaf that  *)
(* was opened.                                                             *)
OnPath(l) == opened \div TwoTo[l]
PathNode(l) == NodeIn(buf, layer_counts, l, OnPath(l))
SiblingNode(l) == NodeIn(buf, layer_counts, l, Sibling(OnPath(l), layer_counts[l + 1]))

Proving ==
  /\ ~ Started => steps = << >>
  /\ Started => /\ IsSeq(steps) /\ Len(steps) < Len(layer_counts)
                /\ opened \in 0..(n - 1)
                /\ \A l \in 0..(Len(steps) - 1) : steps[l + 1] = SiblingNode(l)
  /\ pc = "prove" => /\ idx = OnPath(Len(steps))
                     /\ offset = Starts(layer_counts)[Len(steps)]

(* The verifier is on the path exactly if the claim is the one that the    *)
(* proof was made for: the hash of a layer tells the hash below it.        *)
ClaimRight == claim.index = opened /\ claim.coeff = CoeffAt(opened)

Verifying ==
  /\ pc \in {"verify", "done"} =>
       /\ Len(steps) + 1 = Len(layer_counts)
       /\ taken \in 0..Len(steps)
       /\ claim.index = opened => idx = OnPath(taken)
       /\ current = PathNode(taken) <=> ClaimRight
  /\ pc # "done" => answer = "none"
  /\ pc = "done" => /\ taken = Len(steps)
                    /\ answer = IF ClaimRight THEN "ok" ELSE "err"

IInv ==
  /\ pc \in {"build", "empty", "built", "prove", "verify", "done"}
  /\ claim \in [index : Nat, coeff : Values \cup {0}]
  /\ TreeRight /\ Building /\ Built /\ Proving /\ Verifying

-----------------------------------------------------------------------------
(* The same numbers as in the allocation loops of Merkle.                  *)
LEMMA Allocated ==
  LayersNeeded = LayersOf[n] /\ NodesNeeded = NodesOf[n]
BY DEF LayersNeeded, NodesNeeded, LayersOf, NodesOf

LEMMA ArrayLength ==
  ASSUME coeffs \in Seq(Values)
  PROVE  n \in Nat /\ \A i \in 0..(n - 1) : CoeffAt(i) \in Values
<1>1. Len(coeffs) \in Nat
  OBVIOUS
<1>2. ASSUME NEW i \in 0..(Len(coeffs) - 1) PROVE coeffs[i + 1] \in Values
  <2>1. i + 1 \in 1..Len(coeffs)
    BY <1>1
  <2> QED BY <2>1
<1> QED BY <1>1, <1>2 DEF n, CoeffAt

LEMMA NoTerms == IsSeq(<< >>) /\ Len(<< >>) = 0
BY DEF IsSeq

LEMMA LengthZero ==
  ASSUME NEW q, IsSeq(q)
  PROVE  q = << >> <=> Len(q) = 0
<1>1. ASSUME Len(q) = 0 PROVE q = << >>
  <2>1. q = [i \in 1..0 |-> q[i]]
    BY <1>1 DEF IsSeq
  <2>2. 1..0 = {}
    OBVIOUS
  <2> QED BY <2>1, <2>2
<1> QED BY <1>1, NoTerms

LEMMA InitHolds == Init => IInv
<1> SUFFICES ASSUME Init PROVE IInv
  OBVIOUS
<1>1. coeffs \in Seq(Values)
  BY MerkleAssumption DEF Init
<1>2. n \in Nat
  BY <1>1, ArrayLength
<1>3. /\ pc = "build" /\ buf = << >> /\ layer_counts = << >> /\ steps = << >>
      /\ answer = "none" /\ claim = [index |-> 0, coeff |-> 0]
      /\ cur = [i \in 1..n |-> HashLeaf(i - 1, CoeffAt(i - 1))]
  BY DEF Init
<1>4. Len(cur) = n /\ IsSeq(cur)
  BY <1>2, <1>3 DEF IsSeq
<1>5. Starts(layer_counts)[0] = 0 /\ layer_counts \in Seq(Nat \ {0}) /\ Len(layer_counts) = 0
  <2>1. layer_counts \in Seq(Nat) /\ layer_counts \in Seq(Nat \ {0}) /\ Len(layer_counts) = 0
    BY <1>3
  <2> QED BY <2>1, StartsEquation
<1>6. Len(buf) = 0 /\ IsSeq(buf)
  BY <1>3, NoTerms
<1>7. TreeRight
  <2>1. Filled(buf, layer_counts)
    BY <1>5, <1>6 DEF Filled
  <2>2. LeavesIn(buf, layer_counts)
    BY <1>3 DEF LeavesIn
  <2>3. LinkedIn(buf, layer_counts)
    BY <1>5 DEF LinkedIn
  <2> QED BY <1>1, <2>1, <2>2, <2>3 DEF TreeRight
<1>8. Building
  <2>1. cur = << >> => n = 0 /\ layer_counts = << >> /\ buf = << >>
    BY <1>3, <1>4, LengthZero
  <2>2. ASSUME cur # << >> PROVE Follows(buf, layer_counts, cur)
    <3>1. Len(cur) > 0
      BY <1>2, <1>4, <2>2, LengthZero
    <3>2. ASSUME NEW x \in 0..(n - 1) PROVE cur[x + 1] = HashLeaf(x, CoeffAt(x))
      <4>1. x + 1 \in 1..n /\ (x + 1) - 1 = x
        BY <1>2
      <4> QED BY <1>3, <4>1
    <3> QED BY <1>3, <1>4, <3>1, <3>2 DEF Follows
  <2>3. LayersOf[n] \in Nat /\ NodesOf[n] \in Nat
    BY <1>2, LayersEquation, NodesEquation
  <2>4. /\ Len(layer_counts) + LayersOf[Len(cur)] = LayersOf[n]
        /\ Len(buf) + NodesOf[Len(cur)] = NodesOf[n]
    BY <1>4, <1>5, <1>6, <2>3
  <2> QED BY <1>4, <2>1, <2>2, <2>4 DEF Building
<1>9. Built /\ Proving /\ Verifying
  BY <1>3 DEF Built, Proving, Verifying, Started
<1> QED BY <1>3, <1>7, <1>8, <1>9 DEF IInv

(* One round of the loop: what follows the layer that was added is made of *)
(* it.                                                                     *)
LEMMA NextFollows ==
  ASSUME NEW b, NEW c, Filled(b, c), Follows(b, c, cur), Len(cur) > 1
  PROVE  /\ Follows(b \o cur, Append(c, Len(cur)), NextLayer)
         /\ Len(NextLayer) = (Len(cur) + 1) \div 2
<1> DEFINE e == Append(c, Len(cur))
           q == b \o cur
           h == (Len(cur) + 1) \div 2
<1>1. IsSeq(cur) /\ Len(cur) \in Nat /\ c \in Seq(Nat \ {0}) /\ Len(c) \in Nat
  BY DEF Follows, IsSeq, Filled
<1>2. Len(e) = Len(c) + 1 /\ e # << >> /\ e[Len(e)] = Len(cur) /\ Len(e) - 1 = Len(c)
      /\ e[Len(c) + 1] = Len(cur)
  BY <1>1
<1>3. \A x \in 0..(Len(cur) - 1) : NodeIn(q, e, Len(c), x) = cur[x + 1]
  BY <1>1, LayerAdded
<1>4. h \in Nat /\ h > 0 /\ \A x \in 0..(h - 1) : x + 1 \in 1..h
  BY <1>1
<1>5. Len(NextLayer) = h /\ IsSeq(NextLayer)
  BY <1>4 DEF NextLayer, IsSeq
<1> HIDE DEF e, q
<1>6. ASSUME NEW x \in 0..(h - 1) PROVE NextLayer[x + 1] = ParentIn(q, e, Len(e) - 1, x)
  <2>1. /\ x + 1 \in 1..h /\ 2 * (x + 1) - 1 = 2 * x + 1 /\ 2 * (x + 1) = (2 * x + 1) + 1
        /\ 2 * x \in 0..(Len(cur) - 1)
        /\ 2 * (x + 1) <= Len(cur) <=> 2 * x + 1 < Len(cur)
        /\ 2 * x + 1 < Len(cur) => 2 * x + 1 \in 0..(Len(cur) - 1)
    BY <1>1
  <2>2. NodeIn(q, e, Len(c), 2 * x) = cur[2 * x + 1]
    BY <1>3, <2>1
  <2>3. 2 * x + 1 < Len(cur) => NodeIn(q, e, Len(c), 2 * x + 1) = cur[(2 * x + 1) + 1]
    BY <1>3, <2>1
  <2>4. NextLayer[x + 1] = HashNode(cur[2 * (x + 1) - 1],
            IF 2 * (x + 1) <= Len(cur) THEN cur[2 * (x + 1)] ELSE cur[2 * (x + 1) - 1])
    BY <2>1 DEF NextLayer
  <2> QED BY <1>2, <2>1, <2>2, <2>3, <2>4 DEF ParentIn
<1>7. Follows(q, e, NextLayer)
  BY <1>1, <1>2, <1>4, <1>5, <1>6 DEF Follows
<1> QED BY <1>5, <1>7 DEF e, q

-----------------------------------------------------------------------------
(* What a step leaves alone.                                               *)
LEMMA SameArray ==
  ASSUME UNCHANGED coeffs
  PROVE  n' = n /\ \A i : CoeffAt(i)' = CoeffAt(i)
BY DEF n, CoeffAt

LEMMA TreeStep ==
  ASSUME UNCHANGED coeffs, coeffs \in Seq(Values),
         Filled(buf', layer_counts'), LeavesIn(buf', layer_counts'),
         LinkedIn(buf', layer_counts')
  PROVE  TreeRight'
<1>1. LeavesIn(buf, layer_counts)'
  BY DEF LeavesIn, n, CoeffAt, NodeIn, Starts
<1>2. Filled(buf, layer_counts)'
  BY DEF Filled, Starts, IsSeq
<1>3. LinkedIn(buf, layer_counts)'
  BY DEF LinkedIn, NodeIn, ParentIn, Starts
<1> QED BY <1>1, <1>2, <1>3 DEF TreeRight

LEMMA SameTree ==
  ASSUME UNCHANGED << coeffs, buf, layer_counts >>, TreeRight
  PROVE  TreeRight'
BY TreeStep DEF TreeRight

LEMMA BuildLayerHolds ==
  ASSUME IInv, BuildLayer
  PROVE  IInv'
<1>1. /\ pc = "build" /\ cur # << >> /\ UNCHANGED coeffs /\ coeffs \in Seq(Values)
      /\ buf' = buf \o cur /\ layer_counts' = Append(layer_counts, Len(cur))
  BY DEF IInv, TreeRight, BuildLayer
<1>2. /\ Filled(buf, layer_counts) /\ LeavesIn(buf, layer_counts) /\ LinkedIn(buf, layer_counts)
      /\ Follows(buf, layer_counts, cur)
      /\ IsSeq(cur) /\ Len(cur) \in Nat \ {0}
      /\ IsSeq(buf) /\ layer_counts \in Seq(Nat \ {0})
      /\ Len(layer_counts) + LayersOf[Len(cur)] = LayersOf[n]
      /\ Len(buf) + NodesOf[Len(cur)] = NodesOf[n]
  BY <1>1 DEF IInv, TreeRight, Building, Filled, Follows, IsSeq
<1>3. n \in Nat /\ n' = n
  BY <1>1, ArrayLength, SameArray
<1>4. TreeRight'
  BY <1>1, <1>2, LayerAdded, TreeGrows, TreeStep
<1>5. /\ Len(layer_counts') = Len(layer_counts) + 1 /\ layer_counts' # << >>
      /\ layer_counts'[Len(layer_counts')] = Len(cur)
      /\ Len(buf') = Len(buf) + Len(cur)
      /\ Len(buf) \in Nat /\ Len(layer_counts) \in Nat
  <2>1. Len(layer_counts) \in Nat /\ Len(buf) \in Nat
    BY <1>2 DEF IsSeq
  <2>2. Len(buf') = Len(buf) + Len(cur)
    BY <1>1, <1>2, TermsConcat
  <2>3. /\ Len(layer_counts') = Len(layer_counts) + 1
        /\ layer_counts' # << >>
        /\ layer_counts'[Len(layer_counts')] = Len(cur)
    BY <1>1, <1>2
  <2> QED BY <2>1, <2>2, <2>3
<1>6. /\ pc' \in {"build", "built"} /\ UNCHANGED << steps, answer, claim >>
      /\ steps = << >> /\ answer = "none"
  BY <1>1 DEF BuildLayer, IInv, Proving, Verifying, Started
<1>7. Building' /\ Built'
  <2>1. CASE Len(cur) = 1
    <3>1. pc' = "built"
      BY <2>1 DEF BuildLayer
    <3>2. LayersOf[1] = 1 /\ NodesOf[1] = 1
      BY LayersEquation, NodesEquation
    <3>3. Len(layer_counts') = LayersOf[n] /\ Len(buf') = NodesOf[n]
      BY <1>2, <1>5, <2>1, <3>2
    <3> QED BY <1>3, <1>5, <2>1, <3>1, <3>3 DEF Building, Built, Started
  <2>2. CASE Len(cur) # 1
    <3>1. pc' = "build" /\ cur' = NextLayer /\ Len(cur) > 1
      <4>1. pc' = pc /\ cur' = NextLayer
        BY <2>2 DEF BuildLayer
      <4>2. Len(cur) > 1
        <5>1. \A k \in Nat \ {0} : k # 1 => k > 1
          OBVIOUS
        <5>2. Len(cur) \in Nat \ {0}
          BY <1>2
        <5> QED BY <2>2, <5>1, <5>2, Zenon
      <4> QED BY <1>1, <4>1, <4>2
    <3>2. Follows(buf', layer_counts', NextLayer) /\ Len(NextLayer) = (Len(cur) + 1) \div 2
      BY <1>1, <1>2, <3>1, NextFollows
    <3>3. IsSeq(NextLayer) /\ NextLayer # << >>
      <4>1. IsSeq(NextLayer) /\ Len(NextLayer) > 0
        BY <3>2 DEF Follows
      <4>2. Len(NextLayer) # 0
        BY <4>1 DEF IsSeq
      <4> QED BY <4>1, <4>2, LengthZero
    <3>4. Follows(buf, layer_counts, cur)'
      <4>1. Follows(buf', layer_counts', cur')
        BY <3>1, <3>2
      <4> QED BY <4>1, <1>5 DEF Follows, ParentIn, NodeIn, Starts, IsSeq
    <3>5. /\ LayersOf[Len(cur)] = 1 + LayersOf[(Len(cur) + 1) \div 2]
          /\ NodesOf[Len(cur)] = Len(cur) + NodesOf[(Len(cur) + 1) \div 2]
          /\ LayersOf[(Len(cur) + 1) \div 2] \in Nat /\ NodesOf[(Len(cur) + 1) \div 2] \in Nat
      <4>1. (Len(cur) + 1) \div 2 \in Nat
        BY <1>2
      <4> QED BY <1>2, <3>1, <4>1, LayersEquation, NodesEquation
    <3>6. /\ Len(layer_counts') + LayersOf[Len(cur')] = LayersOf[n]
          /\ Len(buf') + NodesOf[Len(cur')] = NodesOf[n]
      <4>1. \A k, u, v \in Nat : (k + u) + v = k + (u + v)
        OBVIOUS
      <4>2. Len(cur') = (Len(cur) + 1) \div 2
        BY <3>1, <3>2
      <4>8. LayersOf[Len(cur')] \in Nat /\ NodesOf[Len(cur')] \in Nat
        BY <3>5, <4>2
      <4>3. Len(cur) \in Nat /\ 1 \in Nat /\ Len(layer_counts) \in Nat /\ Len(buf) \in Nat
        BY <1>2, <1>5
      <4>4. Len(layer_counts) + (1 + LayersOf[Len(cur')]) = LayersOf[n]
        BY <1>2, <3>5, <4>2, Zenon
      <4>5. Len(buf) + (Len(cur) + NodesOf[Len(cur')]) = NodesOf[n]
        BY <1>2, <3>5, <4>2, Zenon
      <4>6. (Len(layer_counts) + 1) + LayersOf[Len(cur')] = LayersOf[n]
        BY <4>1, <4>3, <4>4, <4>8, Zenon
      <4>7. (Len(buf) + Len(cur)) + NodesOf[Len(cur')] = NodesOf[n]
        BY <4>1, <4>3, <4>5, <4>8, Zenon
      <4> QED BY <1>5, <4>6, <4>7, Zenon
    <3> QED BY <1>3, <3>1, <3>3, <3>4, <3>6 DEF Building, Built, Started
  <2> QED BY <2>1, <2>2
<1>8. Proving' /\ Verifying'
  BY <1>6 DEF Proving, Verifying, Started
<1> QED BY <1>4, <1>6, <1>7, <1>8 DEF IInv

LEMMA BuildNothingHolds ==
  ASSUME IInv, BuildNothing
  PROVE  IInv'
<1>1. /\ pc = "build" /\ cur = << >> /\ pc' = "empty"
      /\ UNCHANGED << coeffs, buf, layer_counts, steps, answer, claim >>
  BY DEF BuildNothing, tree
<1>2. /\ TreeRight' /\ claim' \in [index : Nat, coeff : Values \cup {0}]
  BY <1>1, SameTree DEF IInv
<1>3. n' = n /\ n = 0 /\ layer_counts = << >> /\ buf = << >>
  BY <1>1, SameArray DEF IInv, Building
<1>4. steps = << >> /\ answer = "none"
  BY <1>1 DEF IInv, Proving, Verifying, Started
<1>5. Building' /\ Built' /\ Proving' /\ Verifying'
  BY <1>1, <1>3, <1>4 DEF Building, Built, Proving, Verifying, Started
<1> QED BY <1>1, <1>2, <1>5 DEF IInv

-----------------------------------------------------------------------------
(* While a proof is made and checked the tree stays, and every layer has   *)
(* a node on the path.                                                     *)
LEMMA StartedTree ==
  ASSUME IInv, pc = "built" \/ Started
  PROVE  /\ n \in Nat /\ layer_counts # << >> /\ Len(layer_counts) \in Nat
         /\ Filled(buf, layer_counts) /\ LeavesIn(buf, layer_counts)
         /\ LinkedIn(buf, layer_counts)
         /\ Started => /\ opened \in 0..(n - 1)
                       /\ IsSeq(steps) /\ Len(steps) \in Nat /\ Len(steps) < Len(layer_counts)
                       /\ \A l \in 0..(Len(layer_counts) - 1) :
                            OnPath(l) \in 0..(layer_counts[l + 1] - 1)
<1>1. /\ n \in Nat /\ layer_counts # << >>
      /\ Filled(buf, layer_counts) /\ LeavesIn(buf, layer_counts)
      /\ LinkedIn(buf, layer_counts)
  BY ArrayLength DEF IInv, TreeRight, Built
<1>2. Len(layer_counts) \in Nat
  BY <1>1, LayerPlaces
<1>3. ASSUME Started
      PROVE  /\ opened \in 0..(n - 1)
             /\ IsSeq(steps) /\ Len(steps) \in Nat /\ Len(steps) < Len(layer_counts)
  BY <1>3 DEF IInv, Proving, IsSeq
<1>4. ASSUME Started
      PROVE  \A l \in 0..(Len(layer_counts) - 1) : OnPath(l) \in 0..(layer_counts[l + 1] - 1)
  <2>1. opened \in Nat /\ opened < n
    BY <1>1, <1>3, <1>4
  <2> QED BY <1>1, <2>1, PathStaysInside DEF OnPath
<1> QED BY <1>1, <1>2, <1>3, <1>4

LEMMA SameNodes ==
  ASSUME UNCHANGED << buf, layer_counts, opened >>
  PROVE  \A l : /\ OnPath(l)' = OnPath(l)
                /\ PathNode(l)' = PathNode(l)
                /\ SiblingNode(l)' = SiblingNode(l)
BY DEF OnPath, PathNode, SiblingNode, NodeIn, Starts, Sibling

LEMMA BeginProofHolds ==
  ASSUME IInv, BeginProof
  PROVE  IInv'
<1>1. /\ pc = "built" /\ pc' = "prove" /\ opened' \in 0..(n - 1) /\ idx' = opened'
      /\ offset' = 0 /\ steps' = << >>
      /\ UNCHANGED << coeffs, buf, layer_counts, claim, answer >>
  BY DEF BeginProof, tree
<1>2. /\ TreeRight' /\ claim' \in [index : Nat, coeff : Values \cup {0}]
  BY <1>1, SameTree DEF IInv
<1>3. n' = n /\ n \in Nat /\ answer = "none"
  BY <1>1, SameArray, StartedTree DEF IInv, Verifying
<1>4. Building' /\ Built' /\ Verifying'
  BY <1>1, <1>3 DEF IInv, Building, Built, Verifying, Started
<1>5. Len(layer_counts) \in Nat /\ layer_counts # << >> /\ layer_counts \in Seq(Nat \ {0})
  BY <1>1, StartedTree DEF Filled
<1>6. Len(layer_counts) > 0
  BY <1>5
<1>7. Starts(layer_counts)[0] = 0
  BY <1>5, StartsEquation
<1>8. opened' \div TwoTo[0] = opened'
  <2>1. TwoTo[0] = 1 /\ opened' \in Nat
    BY <1>1, <1>3, TwoToEquation
  <2>2. \A y \in Nat : y \div 1 = y
    OBVIOUS
  <2> QED BY <2>1, <2>2, Zenon
<1>9. Proving'
  <2>1. IsSeq(steps') /\ Len(steps') = 0 /\ 0..(0 - 1) = {}
    BY <1>1, NoTerms
  <2>2. IsSeq(steps)'
    BY <2>1 DEF IsSeq
  <2>3. \A l \in 0..(Len(steps') - 1) : steps'[l + 1] = SiblingNode(l)'
    BY <2>1
  <2>4. idx' = opened' \div TwoTo[Len(steps')]
    BY <1>1, <1>8, <2>1
  <2>5. offset' = Starts(layer_counts')[Len(steps')]
    BY <1>1, <1>7, <2>1
  <2>6. Started' /\ pc' = "prove" /\ Len(steps') < Len(layer_counts') /\ opened' \in 0..(n' - 1)
    BY <1>1, <1>3, <1>6, <2>1 DEF Started
  <2> QED BY <2>2, <2>3, <2>4, <2>5, <2>6 DEF Proving, OnPath, Starts
<1> QED BY <1>1, <1>2, <1>4, <1>9 DEF IInv

LEMMA ProveLayerHolds ==
  ASSUME IInv, ProveLayer
  PROVE  IInv'
<1> DEFINE k == Len(steps)
           count == layer_counts[k + 1]
           s == buf[offset + Sibling(idx, count) + 1]
<1>1. /\ pc = "prove" /\ k + 1 < Len(layer_counts)
      /\ steps' = Append(steps, s) /\ offset' = offset + count /\ idx' = idx \div 2
      /\ UNCHANGED << pc, coeffs, buf, layer_counts, opened, claim, answer >>
  BY DEF ProveLayer, tree
<1>2. Started
  BY <1>1 DEF Started
<1>3. /\ n \in Nat /\ Len(layer_counts) \in Nat
      /\ Filled(buf, layer_counts)
      /\ opened \in 0..(n - 1) /\ IsSeq(steps) /\ k \in Nat
      /\ \A l \in 0..(Len(layer_counts) - 1) : OnPath(l) \in 0..(layer_counts[l + 1] - 1)
  BY <1>2, StartedTree
<1>4. /\ idx = OnPath(k) /\ offset = Starts(layer_counts)[k]
      /\ \A l \in 0..(k - 1) : steps[l + 1] = SiblingNode(l)
  BY <1>1, <1>2 DEF IInv, Proving
<1>5. /\ TreeRight' /\ claim' \in [index : Nat, coeff : Values \cup {0}]
  BY <1>1, SameTree DEF IInv
<1>6. n' = n /\ answer = "none" /\ Started'
  BY <1>1, <1>2, SameArray DEF IInv, Verifying, Started
<1>7. Building' /\ Built' /\ Verifying'
  BY <1>1, <1>2, <1>6 DEF IInv, Building, Built, Verifying, Started
<1>8. s = SiblingNode(k)
  BY <1>4 DEF SiblingNode, NodeIn
<1> HIDE DEF s
<1>9. /\ IsSeq(steps') /\ Len(steps') = k + 1
      /\ \A l \in 1..k : steps'[l] = steps[l]
      /\ steps'[k + 1] = s
  BY <1>1, <1>3, TermsAppend
<1>10. ASSUME NEW l \in 0..(Len(steps') - 1)
       PROVE  steps'[l + 1] = SiblingNode(l)
  <2>1. l = k \/ (l \in 0..(k - 1) /\ l + 1 \in 1..k)
    BY <1>3, <1>9
  <2> QED BY <1>4, <1>8, <1>9, <2>1
<1>11. /\ opened' \div TwoTo[k + 1] = (opened \div TwoTo[k]) \div 2
  BY <1>1, <1>3, HalfAgain
<1>12. Starts(layer_counts)[k + 1] = Starts(layer_counts)[k] + count
  <2>1. k \in 0..(Len(layer_counts) - 1)
    BY <1>1, <1>3
  <2> QED BY <1>3, <2>1, LayerPlaces
<1>13. Proving'
  <2>1. \A l \in 0..(Len(steps') - 1) : steps'[l + 1] = SiblingNode(l)'
    BY <1>1, <1>10, SameNodes
  <2>2. idx' = opened' \div TwoTo[Len(steps')]
    BY <1>1, <1>4, <1>9, <1>11 DEF OnPath
  <2>3. offset' = Starts(layer_counts')[Len(steps')]
    BY <1>1, <1>4, <1>9, <1>12
  <2>4. /\ IsSeq(steps)' /\ Len(steps') < Len(layer_counts') /\ opened' \in 0..(n' - 1)
    BY <1>1, <1>3, <1>6, <1>9 DEF IsSeq
  <2> QED BY <1>6, <2>1, <2>2, <2>3, <2>4 DEF Proving, OnPath, Starts
<1> QED BY <1>1, <1>2, <1>5, <1>7, <1>13 DEF IInv

LEMMA BeginVerifyHolds ==
  ASSUME IInv, BeginVerify
  PROVE  IInv'
<1>1. PICK i \in 0..(n + 1), v \in Values :
        /\ pc = "prove" /\ Len(steps) + 1 = Len(layer_counts) /\ pc' = "verify"
        /\ claim' = [index |-> i, coeff |-> v]
        /\ current' = HashLeaf(i, v) /\ idx' = i /\ taken' = 0
        /\ UNCHANGED << coeffs, buf, layer_counts, opened, steps, answer >>
  BY DEF BeginVerify, tree
<1>2. Started /\ Started'
  BY <1>1 DEF Started
<1>3. /\ n \in Nat /\ layer_counts # << >> /\ Len(layer_counts) \in Nat
      /\ Filled(buf, layer_counts) /\ LeavesIn(buf, layer_counts)
      /\ opened \in 0..(n - 1) /\ IsSeq(steps) /\ Len(steps) \in Nat
  BY <1>2, StartedTree
<1>4. n' = n /\ answer = "none" /\ \A x : CoeffAt(x)' = CoeffAt(x)
  BY <1>1, SameArray DEF IInv, Verifying
<1>5. /\ TreeRight' /\ claim' \in [index : Nat, coeff : Values \cup {0}]
  BY <1>1, <1>3, SameTree DEF IInv
<1>6. Building' /\ Built'
  BY <1>1, <1>2, <1>4 DEF IInv, Building, Built, Started
<1>7. Proving'
  BY <1>1, <1>2, <1>4, SameNodes DEF IInv, Proving, IsSeq
<1>8. opened \div TwoTo[0] = opened
  <2>1. TwoTo[0] = 1 /\ opened \in Nat
    BY <1>3, TwoToEquation
  <2>2. \A y \in Nat : y \div 1 = y
    OBVIOUS
  <2> QED BY <2>1, <2>2, Zenon
<1>9. PathNode(0) = HashLeaf(opened, CoeffAt(opened))
  BY <1>3, <1>8 DEF PathNode, OnPath, LeavesIn
<1>10. current' = PathNode(0) <=> (i = opened /\ v = CoeffAt(opened))
  BY <1>1, <1>9 DEF HashLeaf
<1>11. ClaimRight' <=> (i = opened /\ v = CoeffAt(opened))
  BY <1>1, <1>4 DEF ClaimRight, CoeffAt
<1>12. Verifying'
  <2>1. taken' \in 0..Len(steps') /\ Len(steps') + 1 = Len(layer_counts')
    BY <1>1, <1>3
  <2>2. claim'.index = opened' => idx' = opened' \div TwoTo[taken']
    BY <1>1, <1>8
  <2>3. PathNode(taken)' = PathNode(0)
    BY <1>1 DEF PathNode, OnPath, NodeIn, Starts
  <2>4. (current = PathNode(taken))' <=> ClaimRight'
    BY <1>10, <1>11, <2>3
  <2> QED BY <1>1, <1>4, <2>1, <2>2, <2>4 DEF Verifying, OnPath
<1> QED BY <1>1, <1>5, <1>6, <1>7, <1>12 DEF IInv

(* A hash of two nodes tells which they are, so one step up is right       *)
(* exactly if the hash it starts from is.                                  *)
LEMMA HashNodeInjective ==
  ASSUME NEW a, NEW b, NEW c, NEW d
  PROVE  HashNode(a, b) = HashNode(c, d) <=> (a = c /\ b = d)
BY DEF HashNode

LEMMA StepUpRight ==
  ASSUME NEW h, NEW u, NEW s, NEW p
  PROVE  (IF p % 2 = 0 THEN HashNode(h, s) ELSE HashNode(s, h))
           = (IF p % 2 = 0 THEN HashNode(u, s) ELSE HashNode(s, u)) <=> h = u
<1>1. CASE p % 2 = 0
  BY <1>1, HashNodeInjective
<1>2. CASE p % 2 # 0
  BY <1>2, HashNodeInjective
<1> QED BY <1>1, <1>2

LEMMA VerifyStepHolds ==
  ASSUME IInv, VerifyStep
  PROVE  IInv'
<1> DEFINE p == OnPath(taken)
           s == steps[taken + 1]
<1>1. /\ pc = "verify" /\ taken < Len(steps)
      /\ current' = IF idx % 2 = 0 THEN HashNode(current, s) ELSE HashNode(s, current)
      /\ idx' = idx \div 2 /\ taken' = taken + 1
      /\ UNCHANGED << pc, coeffs, buf, layer_counts, opened, steps, claim, answer >>
  BY DEF VerifyStep, tree
<1>2. Started /\ Started'
  BY <1>1 DEF Started
<1>3. /\ n \in Nat /\ layer_counts # << >> /\ Len(layer_counts) \in Nat
      /\ Filled(buf, layer_counts) /\ LinkedIn(buf, layer_counts)
      /\ opened \in 0..(n - 1) /\ IsSeq(steps) /\ Len(steps) \in Nat
      /\ \A l \in 0..(Len(layer_counts) - 1) : OnPath(l) \in 0..(layer_counts[l + 1] - 1)
  BY <1>2, StartedTree
<1>4. /\ Len(steps) + 1 = Len(layer_counts) /\ taken \in Nat /\ answer = "none"
      /\ claim.index = opened => idx = p
      /\ current = PathNode(taken) <=> ClaimRight
      /\ \A l \in 0..(Len(steps) - 1) : steps[l + 1] = SiblingNode(l)
  BY <1>1, <1>2, <1>3 DEF IInv, Verifying, Proving
<1>5. n' = n /\ \A x : CoeffAt(x)' = CoeffAt(x)
  BY <1>1, SameArray
<1>6. /\ TreeRight' /\ claim' \in [index : Nat, coeff : Values \cup {0}]
  BY <1>1, SameTree DEF IInv
<1>7. Building' /\ Built'
  BY <1>1, <1>2, <1>5 DEF IInv, Building, Built, Started
<1>8. Proving'
  BY <1>1, <1>2, <1>5, SameNodes DEF IInv, Proving, IsSeq
<1>9. /\ taken \in 0..(Len(layer_counts) - 1) /\ taken \in 0..(Len(steps) - 1)
      /\ taken + 1 < Len(layer_counts) /\ taken + 1 \in 0..Len(steps)
  BY <1>1, <1>3, <1>4
<1>10. p \in 0..(layer_counts[taken + 1] - 1) /\ s = SiblingNode(taken)
  BY <1>3, <1>4, <1>9
<1>11. OnPath(taken + 1) = p \div 2 /\ p \in Nat
  <2>1. opened \in Nat
    BY <1>3
  <2> QED BY <1>4, <2>1, HalfAgain DEF OnPath
<1> DEFINE u == PathNode(taken)
<1>12. PathNode(taken + 1) = IF p % 2 = 0 THEN HashNode(u, s) ELSE HashNode(s, u)
  <2>1. NodeIn(buf, layer_counts, taken + 1, p \div 2)
          = IF p % 2 = 0 THEN HashNode(u, s) ELSE HashNode(s, u)
    <3> HIDE DEF p
    <3> QED BY <1>3, <1>4, <1>9, <1>10, SiblingsMakeParent DEF PathNode, SiblingNode, p
  <2> QED BY <1>11, <2>1 DEF PathNode
<1>13. current' = PathNode(taken + 1) <=> ClaimRight
  <2>1. CASE claim.index = opened
    <3>1. idx = p
      BY <1>4, <2>1
    <3> HIDE DEF p, s, u
    <3>2. current = u <=> ClaimRight
      BY <1>4 DEF u
    <3>3. (IF p % 2 = 0 THEN HashNode(current, s) ELSE HashNode(s, current))
           = (IF p % 2 = 0 THEN HashNode(u, s) ELSE HashNode(s, u)) <=> current = u
      BY StepUpRight
    <3> QED BY <1>1, <1>12, <3>1, <3>2, <3>3, Zenon
  <2>2. CASE claim.index # opened
    <3> HIDE DEF p, s, u
    <3>1. ~ ClaimRight
      BY <2>2 DEF ClaimRight
    <3>2. current # u
      BY <1>4, <3>1 DEF u
    <3>3. current' # PathNode(taken + 1)
      BY <1>1, <1>12, <3>2, HashNodeInjective
    <3> QED BY <3>1, <3>3
  <2> QED BY <2>1, <2>2
<1>14. Verifying'
  <2>1. claim'.index = opened' => idx' = opened' \div TwoTo[taken']
    BY <1>1, <1>4, <1>11 DEF OnPath
  <2>2. PathNode(taken)' = PathNode(taken + 1) /\ ClaimRight' = ClaimRight
    BY <1>1, <1>5 DEF PathNode, OnPath, NodeIn, Starts, ClaimRight, CoeffAt
  <2>3. (current = PathNode(taken))' <=> ClaimRight'
    BY <1>13, <2>2
  <2> QED BY <1>1, <1>4, <1>9, <2>1, <2>3 DEF Verifying, OnPath
<1> QED BY <1>1, <1>6, <1>7, <1>8, <1>14 DEF IInv

(* The last node of the path is the root.                                  *)
LEMMA PathEnds ==
  ASSUME IInv, Started, Len(steps) + 1 = Len(layer_counts)
  PROVE  buf[Len(buf)] = PathNode(Len(steps))
<1>1. /\ layer_counts # << >> /\ Filled(buf, layer_counts) /\ Len(steps) \in Nat
      /\ Len(layer_counts) \in Nat
      /\ \A l \in 0..(Len(layer_counts) - 1) : OnPath(l) \in 0..(layer_counts[l + 1] - 1)
  BY StartedTree
<1>2. layer_counts[Len(layer_counts)] = 1
  BY DEF IInv, Built
<1>3. Len(steps) = Len(layer_counts) - 1 /\ Len(steps) \in 0..(Len(layer_counts) - 1)
  BY <1>1
<1>4. OnPath(Len(steps)) \in 0..(layer_counts[Len(steps) + 1] - 1)
  BY <1>1, <1>3
<1>5. OnPath(Len(steps)) = 0
  BY <1>2, <1>4
<1>6. buf[Len(buf)] = NodeIn(buf, layer_counts, Len(layer_counts) - 1, 0)
  BY <1>1, <1>2, RootIsLast
<1> QED BY <1>3, <1>5, <1>6 DEF PathNode

LEMMA VerifyEndHolds ==
  ASSUME IInv, VerifyEnd
  PROVE  IInv' /\ answer = "none" /\ answer' = IF ClaimRight THEN "ok" ELSE "err"
<1>1. /\ pc = "verify" /\ taken = Len(steps) /\ pc' = "done"
      /\ answer' = IF current = buf[Len(buf)] THEN "ok" ELSE "err"
      /\ UNCHANGED << coeffs, buf, layer_counts, opened, steps, idx, claim, taken, current >>
  BY DEF VerifyEnd, tree
<1>2. Started /\ Started'
  BY <1>1 DEF Started
<1>3. n' = n /\ \A x : CoeffAt(x)' = CoeffAt(x)
  BY <1>1, SameArray
<1>4. /\ TreeRight' /\ claim' \in [index : Nat, coeff : Values \cup {0}]
  BY <1>1, SameTree DEF IInv
<1>5. Building' /\ Built'
  BY <1>1, <1>2, <1>3 DEF IInv, Building, Built, Started
<1>6. Proving'
  BY <1>1, <1>2, <1>3, SameNodes DEF IInv, Proving, IsSeq
<1>7. /\ Len(steps) + 1 = Len(layer_counts) /\ taken \in 0..Len(steps) /\ answer = "none"
      /\ claim.index = opened => idx = OnPath(taken)
      /\ current = PathNode(taken) <=> ClaimRight
  BY <1>1 DEF IInv, Verifying
<1>8. answer' = IF ClaimRight THEN "ok" ELSE "err"
  BY <1>1, <1>2, <1>7, PathEnds
<1>9. PathNode(taken)' = PathNode(taken) /\ ClaimRight' = ClaimRight /\ OnPath(taken)' = OnPath(taken)
  BY <1>1, <1>3 DEF PathNode, OnPath, NodeIn, Starts, ClaimRight, CoeffAt
<1>10. Verifying'
  BY <1>1, <1>7, <1>8, <1>9 DEF Verifying
<1> QED BY <1>1, <1>4, <1>5, <1>6, <1>7, <1>8, <1>10 DEF IInv

LEMMA StutterHolds ==
  ASSUME IInv, UNCHANGED vars
  PROVE  IInv'
<1>1. /\ UNCHANGED << pc, coeffs, cur, buf, layer_counts, opened, steps, idx, offset >>
      /\ UNCHANGED << claim, taken, current, answer >>
  BY DEF vars
<1>2. n' = n /\ \A x : CoeffAt(x)' = CoeffAt(x)
  BY <1>1, SameArray
<1>3. TreeRight'
  BY <1>1, SameTree DEF IInv
<1>4. Started' = Started
  BY <1>1 DEF Started
<1>5. Building' /\ Built'
  BY <1>1, <1>2, <1>4
     DEF IInv, Building, Built, Follows, ParentIn, NodeIn, Starts, IsSeq
<1>6. Proving'
  BY <1>1, <1>2, <1>4, SameNodes DEF IInv, Proving, IsSeq, OnPath, Starts
<1>7. Verifying'
  BY <1>1, <1>2 DEF IInv, Verifying, PathNode, OnPath, NodeIn, Starts, ClaimRight, CoeffAt
<1> QED BY <1>1, <1>3, <1>5, <1>6, <1>7 DEF IInv

LEMMA NextHolds == IInv /\ [Next]_vars => IInv'
BY BuildLayerHolds, BuildNothingHolds, BeginProofHolds, ProveLayerHolds,
   BeginVerifyHolds, VerifyStepHolds, VerifyEndHolds, StutterHolds DEF Next

(* The invariant, of every array of every length.                          *)
THEOREM InvariantHolds == Spec => []IInv
BY InitHolds, NextHolds, PTL DEF Spec

-----------------------------------------------------------------------------
(* Nothing is written beyond what was allocated, of layer_counts, of buf   *)
(* and of the steps of a proof: the loops of merkle.c that count and the   *)
(* loop that fills agree.                                                  *)
THEOREM AllocationsHold == Spec => []AllocationsSuffice
<1>1. ASSUME IInv PROVE AllocationsSuffice
  <2>1. /\ coeffs \in Seq(Values) /\ Filled(buf, layer_counts) /\ n \in Nat
        /\ IsSeq(buf) /\ layer_counts \in Seq(Nat \ {0})
    BY <1>1, ArrayLength DEF IInv, TreeRight, Filled
  <2>2. /\ Len(layer_counts) \in Nat /\ Len(buf) \in Nat
        /\ LayersOf[n] \in Nat /\ NodesOf[n] \in Nat
    BY <2>1, LayersEquation, NodesEquation DEF IsSeq
  <2>3. LayersNeeded = LayersOf[n] /\ NodesNeeded = NodesOf[n]
    BY Allocated
  <2>4. CASE pc = "build" /\ cur # << >>
    <3>1. /\ Len(cur) \in Nat \ {0}
          /\ Len(layer_counts) + LayersOf[Len(cur)] = LayersOf[n]
          /\ Len(buf) + NodesOf[Len(cur)] = NodesOf[n]
          /\ steps = << >>
      BY <1>1, <2>4 DEF IInv, Building, Follows, IsSeq, Proving, Started
    <3>2. /\ LayersOf[Len(cur)] \in Nat
          /\ NodesOf[Len(cur)] \in Nat /\ Len(cur) <= NodesOf[Len(cur)]
      <4>1. LayersOf[Len(cur)] \in Nat /\ NodesOf[Len(cur)] \in Nat
        BY <3>1, LayersEquation, NodesEquation
      <4>2. Len(cur) <= NodesOf[Len(cur)]
        <5>1. CASE Len(cur) <= 1
          BY <3>1, <5>1, NodesEquation
        <5>2. CASE ~ (Len(cur) <= 1)
          <6>1. (Len(cur) + 1) \div 2 \in Nat
            BY <3>1
          <6> QED BY <3>1, <5>2, <6>1, NodesEquation
        <5> QED BY <5>1, <5>2
      <4> QED BY <4>1, <4>2
    <3>3. Len(steps) = 0 /\ Len(steps) <= MaxSteps
      BY <3>1, MerkleAssumption
    <3>4. /\ Len(layer_counts) <= LayersOf[n]
          /\ Len(buf) <= NodesOf[n]
          /\ Len(buf) + Len(cur) <= NodesOf[n]
      BY <2>2, <3>1, <3>2
    <3> QED BY <2>3, <2>4, <3>3, <3>4 DEF AllocationsSuffice
  <2>5. CASE (pc = "build" /\ cur = << >>) \/ pc = "empty"
    <3>1. n = 0 /\ layer_counts = << >> /\ buf = << >> /\ steps = << >>
      BY <1>1, <2>5 DEF IInv, Building, Built, Proving, Started
    <3>2. Len(steps) <= MaxSteps /\ Len(layer_counts) = 0 /\ Len(buf) = 0
      BY <3>1, MerkleAssumption
    <3>3. pc = "build" => Len(cur) = 0
      BY <2>5
    <3> QED BY <2>2, <2>3, <2>5, <3>2, <3>3 DEF AllocationsSuffice
  <2>6. CASE pc = "built" \/ Started
    <3>1. /\ Len(layer_counts) = LayersOf[n] /\ Len(buf) = NodesOf[n] /\ pc # "build"
      BY <1>1, <2>6 DEF IInv, Built, Started
    <3>2. Len(steps) \in Nat /\ Len(steps) < Len(layer_counts)
      <4>1. CASE Started
        BY <1>1, <4>1, StartedTree
      <4>2. CASE ~ Started
        <5>1. steps = << >> /\ layer_counts # << >>
          BY <1>1, <2>6, <4>2 DEF IInv, Proving, Built
        <5>2. Len(steps) = 0 /\ Len(layer_counts) > 0
          BY <2>1, <5>1
        <5> QED BY <5>2
      <4> QED BY <4>1, <4>2
    <3>3. n <= TwoTo[MaxSteps] => Len(steps) <= MaxSteps
      <4>1. n <= TwoTo[MaxSteps] => LayersOf[n] <= MaxSteps + 1
        BY <2>1, LayersBound, MerkleAssumption
      <4> QED BY <2>2, <3>1, <3>2, <4>1, MerkleAssumption
    <3> QED BY <2>2, <2>3, <3>1, <3>3 DEF AllocationsSuffice
  <2> QED BY <1>1, <2>4, <2>5, <2>6 DEF IInv, Started
<1> QED BY <1>1, InvariantHolds, PTL

(* With the claim the proof was made for, the verifier goes through the    *)
(* nodes of the path from the leaf to the root, in every layer.            *)
THEOREM PathFollowed == Spec => []FollowsPath
<1>1. ASSUME IInv PROVE FollowsPath
  <2>1. SUFFICES ASSUME pc \in {"verify", "done"},
                        claim = [index |-> opened, coeff |-> CoeffAt(opened)]
                 PROVE  current = buf[LayerStart(taken) + (opened \div TwoTo[taken]) + 1]
    BY DEF FollowsPath
  <2>2. current = PathNode(taken)
    BY <1>1, <2>1 DEF IInv, Verifying, ClaimRight
  <2>3. LayerStart(taken) = Starts(layer_counts)[taken]
    BY DEF LayerStart, Starts
  <2> QED BY <2>2, <2>3 DEF PathNode, OnPath, NodeIn
<1> QED BY <1>1, InvariantHolds, PTL

(* A step of the three loops is one of the commitment, or none.            *)
LEMMA StepImplements ==
  ASSUME IInv, [Next]_vars
  PROVE  [Commitment!Ask \/ Commitment!Answer]_(Commitment!vars)
<1> DEFINE array == [i \in 0..(n - 1) |-> CoeffAt(i)]
<1>1. ASSUME UNCHANGED coeffs PROVE UNCHANGED array
  BY <1>1 DEF n, CoeffAt
<1>2. CASE BuildLayer \/ BuildNothing \/ ProveLayer \/ VerifyStep \/ UNCHANGED vars
  <2>1. UNCHANGED << coeffs, opened, claim, answer >>
    BY <1>2 DEF BuildLayer, BuildNothing, ProveLayer, VerifyStep, vars
  <2> QED BY <1>1, <2>1 DEF Commitment!vars
<1>3. CASE BeginProof \/ BeginVerify
  <2>1. UNCHANGED coeffs /\ answer = "none" /\ answer' = "none"
    BY <1>3 DEF BeginProof, BeginVerify, IInv, Verifying
  <2> QED BY <1>1, <2>1 DEF Commitment!Ask
<1>4. CASE VerifyEnd
  <2>1. answer = "none" /\ answer' = IF ClaimRight THEN "ok" ELSE "err"
    BY <1>4, VerifyEndHolds
  <2>2. UNCHANGED << coeffs, opened, claim >>
    BY <1>4 DEF VerifyEnd
  <2>3. array[opened] = CoeffAt(opened)
    <3>1. Started
      BY <1>4 DEF VerifyEnd, Started
    <3> QED BY <3>1, StartedTree
  <2>4. ClaimRight <=> claim.index = opened /\ claim.coeff = array[opened]
    BY <2>3 DEF ClaimRight
  <2> HIDE DEF array
  <2> QED BY <1>1, <2>1, <2>2, <2>4 DEF Commitment!Answer, array
<1> QED BY <1>2, <1>3, <1>4 DEF Next

(* The three loops implement the commitment: the verifier accepts a claim  *)
(* about the element that was opened if it is true, and refuses any other. *)
THEOREM CommitmentImplemented == Spec => ImplementsCommitment
<1>1. Init => Commitment!Init
  BY DEF Init, Commitment!Init
<1> QED BY <1>1, StepImplements, InvariantHolds, PTL
        DEF Spec, ImplementsCommitment, Commitment!Spec

-----------------------------------------------------------------------------
(* LayeredMerkle: node x of layer l of the layers rows, both from 0 on,    *)
(* how many there are, and what has to stand above two of them.            *)
Wide(rows, l) == Len(rows[l + 1])
At(rows, l, x) == rows[l + 1][x + 1]
ParentAt(rows, l, x) ==
  HashNode(At(rows, l, 2 * x),
           IF 2 * x + 1 < Wide(rows, l) THEN At(rows, l, 2 * x + 1) ELSE At(rows, l, 2 * x))

LeavesAt(rows) ==
  /\ Wide(rows, 0) = n
  /\ \A x \in 0..(n - 1) : At(rows, 0, x) = HashLeaf(x, CoeffAt(x))

LinkedAt(rows) ==
  \A l \in 0..(Len(rows) - 2) :
    /\ Wide(rows, l) > 1 /\ Wide(rows, l + 1) = (Wide(rows, l) + 1) \div 2
    /\ \A x \in 0..(Wide(rows, l + 1) - 1) : At(rows, l + 1, x) = ParentAt(rows, l, x)

Layers(rows) ==
  /\ IsSeq(rows) /\ Len(rows) > 0
  /\ \A l \in 0..(Len(rows) - 1) : Wide(rows, l) \in Nat \ {0}
  /\ LeavesAt(rows) /\ LinkedAt(rows)

TopWidth(rows) == Wide(rows, Len(rows) - 1)

LEMMA LayerIsAdded ==
  ASSUME NEW rows, NEW u, Layers(rows), TopWidth(rows) > 1,
         Len(u) = (TopWidth(rows) + 1) \div 2,
         \A x \in 0..(Len(u) - 1) : u[x + 1] = ParentAt(rows, Len(rows) - 1, x)
  PROVE  Layers(Append(rows, u)) /\ TopWidth(Append(rows, u)) = Len(u)
<1> DEFINE q == Append(rows, u)
           L == Len(rows)
<1>1. IsSeq(rows) /\ L \in Nat /\ L > 0
  BY DEF Layers, IsSeq
<1>2. /\ IsSeq(q) /\ Len(q) = L + 1
      /\ \A i \in 1..L : q[i] = rows[i]
      /\ q[L + 1] = u
  BY <1>1, TermsAppend
<1>3. /\ \A l \in 0..(L - 1) : Wide(rows, l) \in Nat \ {0}
      /\ Wide(rows, L - 1) > 1
      /\ Len(u) = (Wide(rows, L - 1) + 1) \div 2
      /\ \A x \in 0..(Len(u) - 1) : u[x + 1] = ParentAt(rows, L - 1, x)
  BY DEF Layers, TopWidth
<1> HIDE DEF q, L
<1>4. ASSUME NEW l \in 0..(L - 1)
      PROVE  /\ Wide(q, l) = Wide(rows, l)
             /\ \A x : At(q, l, x) = At(rows, l, x)
             /\ \A x : ParentAt(q, l, x) = ParentAt(rows, l, x)
  <2>1. l + 1 \in 1..L
    BY <1>1
  <2>2. q[l + 1] = rows[l + 1]
    BY <1>2, <2>1
  <2> QED BY <2>2 DEF Wide, At, ParentAt
<1>5. Wide(q, L) = Len(u) /\ \A x : At(q, L, x) = u[x + 1]
  BY <1>2 DEF Wide, At
<1>6. Len(u) \in Nat \ {0}
  <2>1. Wide(rows, L - 1) \in Nat
    BY <1>1, <1>3
  <2> QED BY <1>3, <2>1
<1>7. ASSUME NEW l \in 0..(Len(q) - 1) PROVE Wide(q, l) \in Nat \ {0}
  <2>1. l \in 0..(L - 1) \/ l = L
    BY <1>1, <1>2
  <2> QED BY <1>3, <1>4, <1>5, <1>6, <2>1
<1>8. LeavesAt(q)
  <2>1. 0 \in 0..(L - 1)
    BY <1>1
  <2>2. LeavesAt(rows)
    BY DEF Layers
  <2> QED BY <1>4, <2>1, <2>2 DEF LeavesAt
<1>9. ASSUME NEW l \in 0..(Len(q) - 2)
      PROVE  /\ Wide(q, l) > 1 /\ Wide(q, l + 1) = (Wide(q, l) + 1) \div 2
             /\ \A x \in 0..(Wide(q, l + 1) - 1) : At(q, l + 1, x) = ParentAt(q, l, x)
  <2>1. l \in 0..(L - 1) /\ (l = L - 1 \/ (l \in 0..(L - 2) /\ l + 1 \in 0..(L - 1)))
    BY <1>1, <1>2
  <2>2. CASE l = L - 1
    <3>1. l + 1 = L
      BY <1>1, <2>2
    <3> QED BY <1>3, <1>4, <1>5, <2>1, <2>2, <3>1
  <2>3. CASE l \in 0..(L - 2) /\ l + 1 \in 0..(L - 1)
    <3>1. /\ Wide(rows, l) > 1 /\ Wide(rows, l + 1) = (Wide(rows, l) + 1) \div 2
          /\ \A x \in 0..(Wide(rows, l + 1) - 1) : At(rows, l + 1, x) = ParentAt(rows, l, x)
      BY <2>3 DEF Layers, LinkedAt, L
    <3> QED BY <1>4, <2>1, <2>3, <3>1
  <2> QED BY <2>1, <2>2, <2>3
<1>10. Layers(q)
  <2>1. LinkedAt(q)
    BY <1>9 DEF LinkedAt
  <2>2. Len(q) > 0
    BY <1>1, <1>2
  <2> QED BY <1>2, <1>7, <1>8, <2>1, <2>2 DEF Layers
<1>11. TopWidth(q) = Len(u)
  <2>1. Len(q) - 1 = L
    BY <1>1, <1>2
  <2> QED BY <1>5, <2>1 DEF TopWidth
<1> QED BY <1>10, <1>11 DEF q

(* Lengths with no odd factor are even, and so is every half of them.      *)
LEMMA HalfOfPower ==
  ASSUME NEW m \in Nat, m > 1, Layered!PowerOfTwo(m)
  PROVE  /\ m % 2 = 0 /\ (m + 1) \div 2 = m \div 2
         /\ Layered!PowerOfTwo((m + 1) \div 2)
<1>1. m % 2 = 0
  <2>1. m \in 2..m /\ 1 \in 1..m /\ m = m * 1
    OBVIOUS
  <2> QED BY <2>1 DEF Layered!PowerOfTwo
<1> DEFINE h == m \div 2
<1>2. h \in Nat /\ m = 2 * h /\ (m + 1) \div 2 = h
  BY <1>1
<1> HIDE DEF h
<1>3. ASSUME NEW d \in 2..h, NEW e \in 1..h, h = d * e PROVE d % 2 = 0
  <2>1. d \in 2..m /\ 2 * e \in 1..m
    BY <1>2
  <2>2. m = d * (2 * e)
    <3>1. m = 2 * (d * e)
      BY <1>2, <1>3
    <3>2. d \in Int /\ e \in Int
      BY <1>2
    <3> QED BY <3>1, <3>2
  <2> QED BY <2>1, <2>2 DEF Layered!PowerOfTwo
<1>4. Layered!PowerOfTwo(h)
  BY <1>3 DEF Layered!PowerOfTwo
<1> QED BY <1>1, <1>2, <1>4 DEF h

(* The path to the root stays inside the layers.                           *)
LEMMA PathInLayers ==
  ASSUME NEW rows, Layers(rows), NEW x \in Nat, x < n, n \in Nat
  PROVE  \A l \in 0..(Len(rows) - 1) : x \div TwoTo[l] \in 0..(Wide(rows, l) - 1)
<1> DEFINE L == Len(rows)
           P == {l \in 0..(L - 1) : x \div TwoTo[l] \in 0..(Wide(rows, l) - 1)}
<1>1. /\ L \in Nat /\ L # 0 /\ L - 1 \in Nat
      /\ \A l \in 0..(L - 1) : Wide(rows, l) \in Nat \ {0}
  BY DEF Layers, IsSeq
<1>2. 0 \in P
  <2>1. TwoTo[0] = 1 /\ x \div 1 = x
    BY TwoToEquation
  <2>2. Wide(rows, 0) = n
    BY DEF Layers, LeavesAt
  <2> QED BY <1>1, <2>1, <2>2
<1>3. ASSUME NEW m \in Nat, m < L - 1, m \in P PROVE m + 1 \in P
  <2>1. m \in 0..(L - 2) /\ m + 1 \in 0..(L - 1) /\ m \in 0..(L - 1)
    BY <1>1, <1>3
  <2>2. Wide(rows, m + 1) = (Wide(rows, m) + 1) \div 2
    BY <2>1 DEF Layers, LinkedAt
  <2>3. /\ x \div TwoTo[m] \in Nat
        /\ x \div TwoTo[m + 1] = (x \div TwoTo[m]) \div 2
    BY HalfAgain
  <2>4. x \div TwoTo[m] \in 0..(Wide(rows, m) - 1) /\ Wide(rows, m) \in Nat
    BY <1>1, <1>3, <2>1
  <2>5. (x \div TwoTo[m]) \div 2 \in 0..(((Wide(rows, m) + 1) \div 2) - 1)
    BY <2>4
  <2> QED BY <2>1, <2>2, <2>3, <2>5
<1>4. \A m \in 0..(L - 1) : m \in P
  <2> HIDE DEF P
  <2> QED BY <1>1, <1>2, <1>3, UpToInduction
<1> QED BY <1>4

LEMMA SiblingsInLayers ==
  ASSUME NEW rows, Layers(rows), NEW l \in 0..(Len(rows) - 2), NEW p \in 0..(Wide(rows, l) - 1)
  PROVE  LET u == At(rows, l, p)
             s == At(rows, l, Sibling(p, Wide(rows, l)))
         IN  At(rows, l + 1, p \div 2) = IF p % 2 = 0 THEN HashNode(u, s) ELSE HashNode(s, u)
<1>1. Wide(rows, l) \in Nat /\ Len(rows) \in Nat
  BY DEF Layers, IsSeq
<1>2. /\ Wide(rows, l + 1) = (Wide(rows, l) + 1) \div 2
      /\ \A x \in 0..(Wide(rows, l + 1) - 1) : At(rows, l + 1, x) = ParentAt(rows, l, x)
  BY DEF Layers, LinkedAt
<1>3. p \div 2 \in 0..(((Wide(rows, l) + 1) \div 2) - 1)
  BY <1>1
<1>4. At(rows, l + 1, p \div 2) = ParentAt(rows, l, p \div 2)
  BY <1>2, <1>3
<1>5. CASE p % 2 = 0
  <2>1. 2 * (p \div 2) = p
    BY <1>1, <1>5
  <2>2. Sibling(p, Wide(rows, l)) = IF p + 1 < Wide(rows, l) THEN p + 1 ELSE p
    BY <1>1, <1>5 DEF Sibling
  <2> QED BY <1>4, <1>5, <2>1, <2>2 DEF ParentAt
<1>6. CASE p % 2 # 0
  <2>1. 2 * (p \div 2) = p - 1 /\ 2 * (p \div 2) + 1 = p
    BY <1>1, <1>6
  <2>2. Sibling(p, Wide(rows, l)) = p - 1
    BY <1>1, <1>6 DEF Sibling
  <2>3. p < Wide(rows, l)
    BY <1>1
  <2> QED BY <1>4, <1>6, <2>1, <2>2, <2>3 DEF ParentAt
<1> QED BY <1>5, <1>6

-----------------------------------------------------------------------------
(* The inductive invariant of LayeredMerkle.  The layers of C++ have no    *)
(* odd factor, so no node of theirs is the last of an odd layer; the steps *)
(* are the siblings of the path, and the verifier is on the path exactly   *)
(* if the claim is the one that the proof was made for.                    *)
AtOnPath(l) == At(layers, l, OnPath(l))
SiblingAt(l) == At(layers, l, Sibling(OnPath(l), Wide(layers, l)))

LayersRight ==
  /\ lang \in {"Rust", "C++"}
  /\ coeffs \in Seq(Values)
  /\ Layers(layers)
  /\ lang = "C++" => Layered!PowerOfTwo(TopWidth(layers))
  /\ pc # "layer" => TopWidth(layers) = 1

Opening ==
  /\ pc \in {"open", "check", "answered"} =>
       /\ IsSeq(steps) /\ Len(steps) < Len(layers)
       /\ opened \in 0..(n - 1)
       /\ \A l \in 0..(Len(steps) - 1) : steps[l + 1] = SiblingAt(l)
  /\ pc = "open" => idx = OnPath(Len(steps))

Checking ==
  /\ pc = "check" =>
       /\ Len(steps) + 1 = Len(layers)
       /\ taken \in 0..Len(steps)
       /\ claim.index = opened => idx = OnPath(taken)
       /\ current = AtOnPath(taken) <=> ClaimRight
  /\ pc # "answered" => answer = "none"

LayeredInv ==
  /\ pc \in {"layer", "layered", "open", "check", "answered"}
  /\ LayersRight /\ Opening /\ Checking

LEMMA LayeredStarts == ASSUME Layered!Init PROVE LayeredInv
<1>1. /\ pc = "layer" /\ lang \in {"Rust", "C++"} /\ answer = "none"
      /\ coeffs \in Arrays /\ Len(coeffs) > 0
      /\ lang = "C++" => Layered!PowerOfTwo(Len(coeffs))
      /\ layers = << [x \in 1..Len(coeffs) |-> Layered!LeafHash(x - 1, coeffs[x])] >>
  BY DEF Layered!Init, Layered!n
<1>2. coeffs \in Seq(Values) /\ n \in Nat /\ n > 0 /\ n = Len(coeffs)
  BY <1>1, MerkleAssumption, ArrayLength DEF n
<1> DEFINE u == [x \in 1..n |-> Layered!LeafHash(x - 1, coeffs[x])]
<1>3. layers = << u >> /\ Len(u) = n
  BY <1>1, <1>2
<1>4. ASSUME NEW x \in 0..(n - 1) PROVE u[x + 1] = HashLeaf(x, CoeffAt(x))
  <2>1. x + 1 \in 1..n /\ (x + 1) - 1 = x
    BY <1>2
  <2> QED BY <2>1 DEF HashLeaf, CoeffAt, Layered!LeafHash
<1> HIDE DEF u
<1>5. /\ IsSeq(layers) /\ Len(layers) = 1 /\ layers[1] = u
      /\ layers[0 + 1] = u
  BY <1>3 DEF IsSeq
<1>6. Wide(layers, 0) = n /\ TopWidth(layers) = n
  <2>1. Len(layers) - 1 = 0
    BY <1>5
  <2> QED BY <1>3, <1>5, <2>1 DEF Wide, TopWidth
<1>7. Layers(layers)
  <2>1. LeavesAt(layers)
    BY <1>4, <1>5, <1>6 DEF LeavesAt, At
  <2>2. LinkedAt(layers)
    BY <1>5 DEF LinkedAt
  <2>3. \A l \in 0..(Len(layers) - 1) : Wide(layers, l) \in Nat \ {0}
    BY <1>2, <1>5, <1>6
  <2> QED BY <1>5, <2>1, <2>2, <2>3 DEF Layers
<1> QED BY <1>1, <1>2, <1>6, <1>7 DEF LayeredInv, LayersRight, Opening, Checking

(* What a step leaves alone.                                               *)
LEMMA SameLayers ==
  ASSUME UNCHANGED << lang, coeffs, layers >>, LayersRight, pc = "layer" <=> pc' = "layer"
  PROVE  LayersRight'
<1>1. Layers(layers)'
  BY DEF LayersRight, Layers, LeavesAt, LinkedAt, Wide, At, ParentAt, IsSeq, n, CoeffAt
<1>2. TopWidth(layers)' = TopWidth(layers)
  BY DEF TopWidth, Wide
<1> QED BY <1>1, <1>2 DEF LayersRight, Layered!PowerOfTwo

LEMMA SamePath ==
  ASSUME UNCHANGED << layers, opened >>
  PROVE  \A l : /\ OnPath(l)' = OnPath(l)
                /\ AtOnPath(l)' = AtOnPath(l)
                /\ SiblingAt(l)' = SiblingAt(l)
BY DEF OnPath, AtOnPath, SiblingAt, At, Wide, Sibling

LEMMA LayerIsBuilt ==
  ASSUME LayeredInv, Layered!BuildLayer
  PROVE  LayeredInv'
<1> DEFINE w == TopWidth(layers)
           u == Layered!NextLayer
           rows == Append(layers, u)
<1>1. /\ pc = "layer" /\ answer = "none" /\ LayersRight
      /\ UNCHANGED << lang, coeffs, answer >>
  BY DEF LayeredInv, Checking, Layered!BuildLayer
<1>2. /\ Layers(layers) /\ coeffs \in Seq(Values) /\ lang \in {"Rust", "C++"}
      /\ lang = "C++" => Layered!PowerOfTwo(w)
      /\ Len(layers) \in Nat /\ Len(layers) > 0 /\ w \in Nat \ {0}
  <2>1. Layers(layers) /\ Len(layers) \in Nat /\ Len(layers) > 0
    BY <1>1 DEF LayersRight, Layers, IsSeq
  <2>2. Len(layers) - 1 \in 0..(Len(layers) - 1)
    BY <2>1
  <2>3. w \in Nat \ {0}
    BY <2>1, <2>2 DEF Layers, TopWidth
  <2> QED BY <1>1, <2>1, <2>3 DEF LayersRight
<1>3. /\ Len(Layered!Top) = w
      /\ \A x \in Nat : Layered!Top[x + 1] = At(layers, Len(layers) - 1, x)
  <2>1. (Len(layers) - 1) + 1 = Len(layers)
    BY <1>2
  <2> QED BY <2>1 DEF Layered!Top, TopWidth, Wide, At
<1>4. Opening' /\ Checking'
  BY <1>1 DEF Opening, Checking, Layered!BuildLayer
<1>5. CASE ~ (w > 1)
  <2>1. pc' = "layered" /\ UNCHANGED << lang, coeffs, layers >> /\ w = 1
    BY <1>1, <1>2, <1>3, <1>5 DEF Layered!BuildLayer
  <2>2. Layers(layers)'
    BY <1>2, <2>1 DEF Layers, LeavesAt, LinkedAt, Wide, At, ParentAt, IsSeq, n, CoeffAt
  <2>3. TopWidth(layers)' = w
    BY <2>1 DEF TopWidth, Wide
  <2>4. LayersRight'
    BY <1>2, <2>1, <2>2, <2>3 DEF LayersRight, Layered!PowerOfTwo
  <2> QED BY <1>4, <2>1, <2>4 DEF LayeredInv
<1>6. CASE w > 1
  <2>1. pc' = pc /\ layers' = rows
    BY <1>1, <1>3, <1>6 DEF Layered!BuildLayer
  <2> DEFINE h == (w + 1) \div 2
  <2>2. h \in Nat /\ h > 0 /\ \A x \in 0..(h - 1) : x + 1 \in 1..h
    BY <1>2
  <2>3. Len(u) = h
    BY <1>3, <2>2 DEF Layered!NextLayer
(* The C++ tree never comes to its exception for an odd layer.             *)
  <2>4. lang = "C++" => w % 2 = 0 /\ Layered!PowerOfTwo(h)
    BY <1>2, <1>6, HalfOfPower
  <2>5. ASSUME NEW x \in 0..(h - 1) PROVE u[x + 1] = ParentAt(layers, Len(layers) - 1, x)
    <3> HIDE DEF w, h
    <3>1. /\ x \in Nat /\ x + 1 \in 1..h /\ 2 * (x + 1) - 1 = 2 * x + 1
          /\ 2 * (x + 1) = (2 * x + 1) + 1
          /\ 2 * x \in Nat /\ 2 * x + 1 \in Nat
          /\ 2 * (x + 1) <= w <=> 2 * x + 1 < w
      BY <1>2, <2>2
    <3>2. lang = "C++" => 2 * x + 1 < w
      BY <1>2, <2>4, <3>1 DEF h
    <3>3. u[x + 1] = IF 2 * x + 1 < w
                     THEN Layered!NodeHash(Layered!Top[2 * x + 1], Layered!Top[(2 * x + 1) + 1])
                     ELSE Layered!LastNode(Layered!Top[2 * x + 1])
      <4>1. u[x + 1] = IF 2 * (x + 1) <= w
                       THEN Layered!NodeHash(Layered!Top[2 * (x + 1) - 1], Layered!Top[2 * (x + 1)])
                       ELSE Layered!LastNode(Layered!Top[2 * (x + 1) - 1])
        BY <1>3, <3>1 DEF Layered!NextLayer, h
      <4> QED BY <3>1, <4>1
    <3>4. ~ (2 * x + 1 < w) => lang # "C++"
      BY <3>2
    <3>5. /\ Layered!Top[2 * x + 1] = At(layers, Len(layers) - 1, 2 * x)
          /\ Layered!Top[(2 * x + 1) + 1] = At(layers, Len(layers) - 1, 2 * x + 1)
      BY <1>3, <3>1
    <3>6. w = Wide(layers, Len(layers) - 1)
      BY DEF w, TopWidth
    <3> QED BY <3>3, <3>4, <3>5, <3>6
            DEF ParentAt, Layered!LastNode, Layered!NodeHash, HashNode
  <2>6. Layers(rows) /\ TopWidth(rows) = h
    <3> HIDE DEF u, rows
    <3> QED BY <1>2, <1>6, <2>3, <2>5, LayerIsAdded DEF rows
  <2> HIDE DEF rows, u, h, w
  <2>7. Layers(layers)'
    <3>1. Layers(layers')
      BY <2>1, <2>6
    <3> QED BY <1>1, <3>1 DEF Layers, LeavesAt, LinkedAt, Wide, At, ParentAt, IsSeq, n, CoeffAt
  <2>8. TopWidth(layers)' = h
    BY <2>1, <2>6 DEF TopWidth, Wide
  <2>9. LayersRight'
    BY <1>1, <1>2, <2>1, <2>4, <2>7, <2>8 DEF LayersRight, Layered!PowerOfTwo
  <2> QED BY <1>1, <1>4, <2>1, <2>9 DEF LayeredInv
<1> QED BY <1>5, <1>6

LEMMA LayeredProofBegins ==
  ASSUME LayeredInv, Layered!BeginProof
  PROVE  LayeredInv'
<1>1. /\ pc = "layered" /\ pc' = "open" /\ opened' \in 0..(n - 1) /\ idx' = opened'
      /\ steps' = << >> /\ UNCHANGED << lang, coeffs, layers, claim, answer >>
      /\ LayersRight /\ answer = "none"
  BY DEF LayeredInv, Checking, Layered!BeginProof, Layered!n, n
<1>2. LayersRight'
  BY <1>1, SameLayers
<1>3. Len(layers) > 0 /\ n \in Nat /\ n' = n
  BY <1>1, ArrayLength, SameArray DEF LayersRight, Layers
<1>4. opened' \div TwoTo[0] = opened'
  <2>1. TwoTo[0] = 1 /\ opened' \in Nat
    BY <1>1, <1>3, TwoToEquation
  <2>2. \A y \in Nat : y \div 1 = y
    OBVIOUS
  <2> QED BY <2>1, <2>2, Zenon
<1>5. Opening'
  <2>1. IsSeq(steps') /\ Len(steps') = 0 /\ 0..(0 - 1) = {}
    BY <1>1, NoTerms
  <2>2. IsSeq(steps)'
    BY <2>1 DEF IsSeq
  <2>3. \A l \in 0..(Len(steps') - 1) : steps'[l + 1] = SiblingAt(l)'
    BY <2>1
  <2>4. idx' = opened' \div TwoTo[Len(steps')]
    BY <1>1, <1>4, <2>1
  <2>5. Len(steps') < Len(layers') /\ opened' \in 0..(n' - 1)
    BY <1>1, <1>3, <2>1
  <2> QED BY <1>1, <2>2, <2>3, <2>4, <2>5 DEF Opening, OnPath
<1>6. Checking'
  BY <1>1 DEF Checking
<1> QED BY <1>1, <1>2, <1>5, <1>6 DEF LayeredInv

(* What is known of the tree once an element has been opened.              *)
LEMMA OpenedTree ==
  ASSUME LayeredInv, pc \in {"open", "check"}
  PROVE  /\ n \in Nat /\ Layers(layers) /\ TopWidth(layers) = 1 /\ LayersRight
         /\ Len(layers) \in Nat /\ Len(layers) > 0 /\ answer = "none"
         /\ IsSeq(steps) /\ Len(steps) \in Nat /\ Len(steps) < Len(layers)
         /\ opened \in 0..(n - 1)
         /\ \A l \in 0..(Len(steps) - 1) : steps[l + 1] = SiblingAt(l)
         /\ \A l \in 0..(Len(layers) - 1) : OnPath(l) \in 0..(Wide(layers, l) - 1)
<1>1. /\ n \in Nat /\ Layers(layers) /\ TopWidth(layers) = 1 /\ LayersRight /\ answer = "none"
  BY ArrayLength DEF LayeredInv, LayersRight, Checking
<1>2. Len(layers) \in Nat /\ Len(layers) > 0
  BY <1>1 DEF Layers, IsSeq
<1>3. /\ IsSeq(steps) /\ Len(steps) \in Nat /\ Len(steps) < Len(layers)
      /\ opened \in 0..(n - 1)
      /\ \A l \in 0..(Len(steps) - 1) : steps[l + 1] = SiblingAt(l)
  BY DEF LayeredInv, Opening, IsSeq
<1>4. opened \in Nat /\ opened < n
  BY <1>1, <1>3
<1> QED BY <1>1, <1>2, <1>3, <1>4, PathInLayers DEF OnPath

LEMMA LayerIsProved ==
  ASSUME LayeredInv, Layered!ProveLayer
  PROVE  LayeredInv'
<1> DEFINE k == Len(steps)
           w == Wide(layers, k)
           s == At(layers, k, Sibling(idx, w))
<1>1. /\ pc = "open" /\ k + 1 < Len(layers) /\ idx' = idx \div 2
      /\ UNCHANGED << lang, pc, coeffs, layers, opened, claim, answer >>
  BY DEF Layered!ProveLayer
<1>2. /\ n \in Nat /\ LayersRight /\ Layers(layers) /\ Len(layers) \in Nat /\ k \in Nat
      /\ IsSeq(steps) /\ opened \in 0..(n - 1) /\ answer = "none"
      /\ \A l \in 0..(k - 1) : steps[l + 1] = SiblingAt(l)
      /\ \A l \in 0..(Len(layers) - 1) : OnPath(l) \in 0..(Wide(layers, l) - 1)
  BY <1>1, OpenedTree
<1>3. idx = OnPath(k) /\ k \in 0..(Len(layers) - 1)
  BY <1>1, <1>2 DEF LayeredInv, Opening
<1>4. idx \in 0..(w - 1) /\ w \in Nat
  BY <1>2, <1>3 DEF Layers
<1>5. steps' = Append(steps, s)
  <2> DEFINE y == IF idx % 2 = 0 THEN idx + 1 ELSE idx - 1
             z == IF y < w THEN y ELSE idx
  <2>1. z = Sibling(idx, w) /\ z \in Nat /\ 1 + z = z + 1
    <3>1. idx \in Nat /\ w \in Nat /\ idx < w
      BY <1>4
    <3>2. idx % 2 # 0 => idx - 1 \in Nat
      BY <3>1
    <3>3. y \in Nat
      BY <3>1, <3>2
    <3>4. ~ (y < w) <=> y >= w
      BY <3>1, <3>3
    <3>5. z = Sibling(idx, w)
      BY <3>4 DEF Sibling
    <3>6. z \in Nat
      BY <3>1, <3>3
    <3> HIDE DEF z
    <3> QED BY <3>5, <3>6
  <2>2. steps' = Append(steps, layers[k + 1][1 + z])
    BY DEF Layered!ProveLayer, Wide
  <2> HIDE DEF y, z, w, k
  <2> QED BY <2>1, <2>2 DEF At
<1>6. LayersRight'
  BY <1>1, <1>2, SameLayers
<1>7. s = SiblingAt(k)
  BY <1>3 DEF SiblingAt
<1> HIDE DEF s
<1>8. /\ IsSeq(steps') /\ Len(steps') = k + 1
      /\ \A l \in 1..k : steps'[l] = steps[l]
      /\ steps'[k + 1] = s
  BY <1>2, <1>5, TermsAppend
<1>9. ASSUME NEW l \in 0..(Len(steps') - 1)
      PROVE  steps'[l + 1] = SiblingAt(l)
  <2>1. l = k \/ (l \in 0..(k - 1) /\ l + 1 \in 1..k)
    BY <1>2, <1>8
  <2> QED BY <1>2, <1>7, <1>8, <2>1
<1>10. opened \div TwoTo[k + 1] = (opened \div TwoTo[k]) \div 2
  BY <1>2, HalfAgain
<1>11. Opening'
  <2>1. \A l \in 0..(Len(steps') - 1) : steps'[l + 1] = SiblingAt(l)'
    BY <1>1, <1>9, SamePath
  <2>2. idx' = opened' \div TwoTo[Len(steps')]
    BY <1>1, <1>3, <1>8, <1>10 DEF OnPath
  <2>3. /\ IsSeq(steps)' /\ Len(steps') < Len(layers') /\ opened' \in 0..(n' - 1)
    BY <1>1, <1>2, <1>8, SameArray DEF IsSeq
  <2> QED BY <2>1, <2>2, <2>3 DEF Opening, OnPath
<1>12. Checking'
  BY <1>1, <1>2 DEF Checking
<1> QED BY <1>1, <1>6, <1>11, <1>12 DEF LayeredInv

LEMMA LayeredCheckBegins ==
  ASSUME LayeredInv, Layered!BeginVerify
  PROVE  LayeredInv'
<1>1. PICK i \in 0..(Layered!n + 1), v \in Values :
        /\ pc = "open" /\ Len(steps) + 1 = Len(layers) /\ pc' = "check"
        /\ claim' = [index |-> i, coeff |-> v]
        /\ current' = Layered!LeafHash(claim'.index, claim'.coeff)
        /\ idx' = claim'.index /\ taken' = 0
        /\ UNCHANGED << lang, coeffs, layers, opened, steps, answer >>
  BY DEF Layered!BeginVerify
<1>2. /\ n \in Nat /\ LayersRight /\ Layers(layers) /\ Len(steps) \in Nat
      /\ opened \in 0..(n - 1) /\ answer = "none"
  BY <1>1, OpenedTree
<1>3. claim'.index = i /\ claim'.coeff = v /\ current' = HashLeaf(i, v) /\ idx' = i
  BY <1>1 DEF Layered!LeafHash, HashLeaf
<1>4. LayersRight'
  BY <1>1, <1>2, SameLayers
<1>5. Opening'
  BY <1>1, SameArray, SamePath DEF LayeredInv, Opening, IsSeq
<1>6. opened \div TwoTo[0] = opened
  <2>1. TwoTo[0] = 1 /\ opened \in Nat
    BY <1>2, TwoToEquation
  <2>2. \A y \in Nat : y \div 1 = y
    OBVIOUS
  <2> QED BY <2>1, <2>2, Zenon
<1>7. AtOnPath(0) = HashLeaf(opened, CoeffAt(opened))
  BY <1>2, <1>6 DEF AtOnPath, OnPath, Layers, LeavesAt
<1>8. current' = AtOnPath(0) <=> (i = opened /\ v = CoeffAt(opened))
  BY <1>3, <1>7 DEF HashLeaf
<1>9. ClaimRight' <=> (i = opened /\ v = CoeffAt(opened))
  BY <1>1, <1>3 DEF ClaimRight, CoeffAt
<1>10. Checking'
  <2>1. taken' \in 0..Len(steps') /\ Len(steps') + 1 = Len(layers')
    BY <1>1, <1>2
  <2>2. claim'.index = opened' => idx' = opened' \div TwoTo[taken']
    BY <1>1, <1>3, <1>6
  <2>3. AtOnPath(taken)' = AtOnPath(0)
    BY <1>1 DEF AtOnPath, OnPath, At
  <2>4. (current = AtOnPath(taken))' <=> ClaimRight'
    BY <1>8, <1>9, <2>3
  <2> QED BY <1>1, <1>2, <2>1, <2>2, <2>4 DEF Checking, OnPath
<1> QED BY <1>1, <1>4, <1>5, <1>10 DEF LayeredInv

LEMMA LayeredStepIsRight ==
  ASSUME LayeredInv, Layered!VerifyStep
  PROVE  LayeredInv'
<1> DEFINE p == OnPath(taken)
           s == steps[taken + 1]
           u == AtOnPath(taken)
<1>1. /\ pc = "check" /\ taken < Len(steps)
      /\ current' = IF idx % 2 = 0 THEN HashNode(current, s) ELSE HashNode(s, current)
      /\ idx' = idx \div 2 /\ taken' = taken + 1
      /\ UNCHANGED << lang, pc, coeffs, layers, opened, steps, claim, answer >>
  BY DEF Layered!VerifyStep, Layered!NodeHash, HashNode
<1>2. /\ n \in Nat /\ LayersRight /\ Layers(layers) /\ Len(layers) \in Nat
      /\ opened \in 0..(n - 1) /\ Len(steps) \in Nat /\ answer = "none"
      /\ \A l \in 0..(Len(steps) - 1) : steps[l + 1] = SiblingAt(l)
      /\ \A l \in 0..(Len(layers) - 1) : OnPath(l) \in 0..(Wide(layers, l) - 1)
  BY <1>1, OpenedTree
<1>3. /\ Len(steps) + 1 = Len(layers) /\ taken \in Nat
      /\ claim.index = opened => idx = p
      /\ current = u <=> ClaimRight
  BY <1>1, <1>2 DEF LayeredInv, Checking
<1>4. /\ taken \in 0..(Len(layers) - 1) /\ taken \in 0..(Len(steps) - 1)
      /\ taken \in 0..(Len(layers) - 2) /\ taken + 1 \in 0..Len(steps)
  BY <1>1, <1>2, <1>3
<1>5. p \in 0..(Wide(layers, taken) - 1) /\ s = SiblingAt(taken)
  BY <1>2, <1>4
<1>6. OnPath(taken + 1) = p \div 2
  <2>1. opened \in Nat
    BY <1>2
  <2> QED BY <1>3, <2>1, HalfAgain DEF OnPath
<1>7. AtOnPath(taken + 1) = IF p % 2 = 0 THEN HashNode(u, s) ELSE HashNode(s, u)
  <2>1. At(layers, taken + 1, p \div 2)
          = IF p % 2 = 0 THEN HashNode(u, s) ELSE HashNode(s, u)
    <3> HIDE DEF p
    <3> QED BY <1>2, <1>4, <1>5, SiblingsInLayers DEF AtOnPath, SiblingAt, p
  <2> QED BY <1>6, <2>1 DEF AtOnPath
<1> HIDE DEF p, s, u
<1>8. current' = AtOnPath(taken + 1) <=> ClaimRight
  <2>1. CASE claim.index = opened
    <3>1. idx = p
      BY <1>3, <2>1
    <3>2. (IF p % 2 = 0 THEN HashNode(current, s) ELSE HashNode(s, current))
            = (IF p % 2 = 0 THEN HashNode(u, s) ELSE HashNode(s, u)) <=> current = u
      BY StepUpRight
    <3> QED BY <1>1, <1>3, <1>7, <3>1, <3>2, Zenon
  <2>2. CASE claim.index # opened
    <3>1. ~ ClaimRight
      BY <2>2 DEF ClaimRight
    <3>2. current # u
      BY <1>3, <3>1
    <3>3. current' # AtOnPath(taken + 1)
      BY <1>1, <1>7, <3>2, HashNodeInjective
    <3> QED BY <3>1, <3>3
  <2> QED BY <2>1, <2>2
<1>9. LayersRight'
  BY <1>1, <1>2, SameLayers
<1>10. Opening'
  BY <1>1, SameArray, SamePath DEF LayeredInv, Opening, IsSeq
<1>11. Checking'
  <2>1. claim'.index = opened' => idx' = opened' \div TwoTo[taken']
    BY <1>1, <1>3, <1>6 DEF OnPath, p
  <2>2. AtOnPath(taken)' = AtOnPath(taken + 1) /\ ClaimRight' = ClaimRight
    BY <1>1 DEF AtOnPath, OnPath, At, ClaimRight, CoeffAt
  <2>3. (current = AtOnPath(taken))' <=> ClaimRight'
    BY <1>8, <2>2
  <2> QED BY <1>1, <1>2, <1>3, <1>4, <2>1, <2>3 DEF Checking, OnPath
<1> QED BY <1>1, <1>9, <1>10, <1>11 DEF LayeredInv

LEMMA LayeredAnswerIsRight ==
  ASSUME LayeredInv, Layered!VerifyEnd
  PROVE  LayeredInv' /\ answer = "none" /\ answer' = IF ClaimRight THEN "ok" ELSE "err"
<1>1. /\ pc = "check" /\ taken = Len(steps) /\ pc' = "answered"
      /\ answer' = IF current = layers[Len(layers)][1] THEN "ok" ELSE "err"
      /\ UNCHANGED << lang, coeffs, layers, opened, steps, idx, claim, taken, current >>
  BY DEF Layered!VerifyEnd, Layered!Root, Layered!Top
<1>2. /\ n \in Nat /\ LayersRight /\ Layers(layers) /\ TopWidth(layers) = 1
      /\ Len(layers) \in Nat /\ Len(layers) > 0 /\ Len(steps) \in Nat /\ answer = "none"
      /\ \A l \in 0..(Len(layers) - 1) : OnPath(l) \in 0..(Wide(layers, l) - 1)
  BY <1>1, OpenedTree
<1>3. Len(steps) + 1 = Len(layers) /\ (current = AtOnPath(taken) <=> ClaimRight)
  BY <1>1 DEF LayeredInv, Checking
<1>4. taken = Len(layers) - 1 /\ taken \in 0..(Len(layers) - 1) /\ taken + 1 = Len(layers)
  BY <1>1, <1>2, <1>3
<1>5. OnPath(taken) = 0
  <2>1. OnPath(taken) \in 0..(Wide(layers, taken) - 1) /\ Wide(layers, taken) = 1
    BY <1>2, <1>4 DEF TopWidth
  <2> QED BY <2>1
<1>6. AtOnPath(taken) = layers[Len(layers)][1]
  BY <1>4, <1>5 DEF AtOnPath, At
<1>7. answer' = IF ClaimRight THEN "ok" ELSE "err"
  BY <1>1, <1>3, <1>6
<1>8. LayersRight'
  BY <1>1, <1>2, SameLayers
<1>9. Opening' /\ Checking'
  BY <1>1, SameArray, SamePath DEF LayeredInv, Opening, IsSeq, Checking
<1> QED BY <1>1, <1>2, <1>7, <1>8, <1>9 DEF LayeredInv

LEMMA LayeredNextHolds ==
  ASSUME LayeredInv, Layered!Next
  PROVE  LayeredInv'
BY LayerIsBuilt, LayeredProofBegins, LayerIsProved, LayeredCheckBegins,
   LayeredStepIsRight, LayeredAnswerIsRight DEF Layered!Next

-----------------------------------------------------------------------------
(* Every tree implements the commitment: in whatever language it is built  *)
(* and opened, the verifier accepts what is true of the opened element and *)
(* refuses any other claim.                                                *)
SameClaim == UNCHANGED << coeffs, opened, claim, answer >>

LEMMA ArrayKept ==
  ASSUME UNCHANGED coeffs
  PROVE  UNCHANGED [i \in 0..(n - 1) |-> CoeffAt(i)]
BY DEF n, CoeffAt

LEMMA NothingAsked ==
  ASSUME SameClaim
  PROVE  UNCHANGED Commitment!vars
BY ArrayKept DEF SameClaim, Commitment!vars

LEMMA LayeredStepImplements ==
  ASSUME LayeredInv, Layered!Next
  PROVE  [Commitment!Ask \/ Commitment!Answer]_(Commitment!vars)
<1> DEFINE array == [i \in 0..(n - 1) |-> CoeffAt(i)]
<1>1. CASE Layered!BuildLayer \/ Layered!ProveLayer \/ Layered!VerifyStep
  <2>1. SameClaim
    BY <1>1 DEF Layered!BuildLayer, Layered!ProveLayer, Layered!VerifyStep, SameClaim
  <2> QED BY <2>1, NothingAsked
<1>2. CASE Layered!BeginProof \/ Layered!BeginVerify
  <2>1. UNCHANGED coeffs /\ answer = "none" /\ answer' = "none"
    BY <1>2 DEF Layered!BeginProof, Layered!BeginVerify, LayeredInv, Checking
  <2> QED BY <2>1, ArrayKept DEF Commitment!Ask
<1>3. CASE Layered!VerifyEnd
  <2>1. answer = "none" /\ answer' = IF ClaimRight THEN "ok" ELSE "err"
    BY <1>3, LayeredAnswerIsRight
  <2>2. UNCHANGED << coeffs, opened, claim >> /\ pc = "check"
    BY <1>3 DEF Layered!VerifyEnd
  <2>3. array[opened] = CoeffAt(opened)
    BY <2>2, OpenedTree
  <2>4. ClaimRight <=> claim.index = opened /\ claim.coeff = array[opened]
    BY <2>3 DEF ClaimRight
  <2>5. UNCHANGED array
    BY <2>2, ArrayKept
  <2> HIDE DEF array
  <2> QED BY <2>1, <2>2, <2>4, <2>5 DEF Commitment!Answer, array
<1> QED BY <1>1, <1>2, <1>3 DEF Layered!Next

LEMMA LayeredStutter ==
  ASSUME LayeredInv, UNCHANGED << lang, layers, treeVars >>
  PROVE  LayeredInv'
<1>1. /\ UNCHANGED << lang, coeffs, layers >> /\ UNCHANGED << pc, opened, steps, idx >>
      /\ UNCHANGED << claim, taken, current, answer >>
  BY DEF treeVars
<1>2. LayersRight'
  BY <1>1, SameLayers DEF LayeredInv
<1>3. Opening'
  BY <1>1, SameArray, SamePath DEF LayeredInv, Opening, IsSeq
<1>4. Checking'
  BY <1>1, SameArray, SamePath DEF LayeredInv, Checking, ClaimRight
<1> QED BY <1>1, <1>2, <1>3, <1>4 DEF LayeredInv

TreesRight ==
  /\ part \in {"flat", "layered", "identity"}
  /\ part = "flat" => IInv
  /\ part = "layered" => LayeredInv

LEMMA TreesAlways == MCSpec => []TreesRight
<1>1. ASSUME MCInit PROVE TreesRight
  BY <1>1, InitHolds, LayeredStarts DEF MCInit, TreesRight
<1>2. ASSUME TreesRight, [MCNext]_all PROVE TreesRight'
  <2>1. CASE MCNext
    <3>1. CASE part = "flat" /\ Next /\ UNCHANGED part
      BY <1>2, <3>1, NextHolds DEF TreesRight
    <3>2. CASE part = "layered" /\ Layered!Next /\ UNCHANGED part
      BY <1>2, <3>2, LayeredNextHolds DEF TreesRight
    <3>3. CASE part = "identity" /\ UNCHANGED part
      BY <3>3 DEF TreesRight
    <3> QED BY <2>1, <3>1, <3>2, <3>3 DEF MCNext
  <2>2. CASE UNCHANGED all
    <3>1. UNCHANGED part /\ UNCHANGED vars /\ UNCHANGED << lang, layers, treeVars >>
      BY <2>2 DEF all, vars, flatVars, treeVars
    <3> QED BY <1>2, <3>1, StutterHolds, LayeredStutter DEF TreesRight
  <2> QED BY <1>2, <2>1, <2>2
<1> QED BY <1>1, <1>2, PTL DEF MCSpec

(* The trees of all three languages implement the commitment, for arrays   *)
(* of every length: merkle.c with its flat buffer, merkle.rs with a vector *)
(* for every layer, and merkle.cpp, which moves the last node of an odd    *)
(* layer up as it is, for the lengths without such layers.                 *)
THEOREM EveryTreeImplements == MCSpec => ImplementsCommitment
<1>1. MCInit => Commitment!Init
  BY DEF MCInit, Init, Layered!Init, Commitment!Init
<1>2. ASSUME TreesRight, [MCNext]_all
      PROVE  [Commitment!Ask \/ Commitment!Answer]_(Commitment!vars)
  <2>1. CASE part = "flat" /\ Next
    BY <1>2, <2>1, StepImplements DEF TreesRight
  <2>2. CASE part = "layered" /\ Layered!Next
    BY <1>2, <2>2, LayeredStepImplements DEF TreesRight
  <2>3. CASE UNCHANGED treeVars
    <3>1. SameClaim
      BY <2>3 DEF treeVars, SameClaim
    <3> QED BY <3>1, NothingAsked
  <2> QED BY <1>2, <2>1, <2>2, <2>3 DEF MCNext, all
<1> QED BY <1>1, <1>2, TreesAlways, PTL DEF MCSpec, ImplementsCommitment, Commitment!Spec

-----------------------------------------------------------------------------
(* Identity commitments.  The constants of module Trapdoor are written     *)
(* Size (that they are numbers), Short (what is known of noise).           *)
LEMMA Size ==
  /\ N \in Nat \ {0} /\ Q \in Nat \ {0} /\ Byte \in Nat \ {0} /\ 2 * (N * 4 + 2) < Q
  /\ Noise \subseteq [Identity!Coeffs -> -2..2] /\ Identity!Coeffs = 0..(N - 1)
  /\ Byte <= Q /\ Q % Byte = 1
BY RingOfThisSize DEF Identity!TrapdoorAssumption, Identity!Coeffs

(* The partial sums of g.                                                  *)
Sums(f, g) ==
  /\ f \in [0..N -> Int] /\ f[0] = 0
  /\ \A i \in Identity!Coeffs : f[i + 1] = f[i] + g[i]

SumsUpTo(f, g, k) ==
  /\ f \in [0..N -> Int] /\ f[0] = 0
  /\ \A i \in Identity!Coeffs : i < k => f[i + 1] = f[i] + g[i]

(* Partial sums exist, by induction over the places.                       *)
LEMMA SumsExist ==
  ASSUME NEW g \in [Identity!Coeffs -> Int]
  PROVE  \E f : Sums(f, g)
<1> DEFINE P == {k \in 0..N : \E f : SumsUpTo(f, g, k)}
<1>1. 0 \in P
  <2>1. SumsUpTo([i \in 0..N |-> 0], g, 0)
    BY Size DEF SumsUpTo
  <2> QED BY <2>1, Size
<1>2. ASSUME NEW k \in Nat, k < N, k \in P PROVE k + 1 \in P
  <2>1. PICK f : SumsUpTo(f, g, k)
    BY <1>2
  <2>2. f \in [0..N -> Int] /\ k \in Identity!Coeffs /\ k \in 0..N /\ k + 1 \in 0..N
    BY <1>2, <2>1, Size DEF SumsUpTo
  <2> DEFINE h == [f EXCEPT ![k + 1] = f[k] + g[k]]
  <2>3. h \in [0..N -> Int] /\ h[0] = 0 /\ h[k + 1] = h[k] + g[k]
    BY <2>1, <2>2 DEF SumsUpTo
  <2>4. ASSUME NEW i \in Identity!Coeffs, i < k PROVE h[i + 1] = h[i] + g[i]
    <3>1. f[i + 1] = f[i] + g[i] /\ i \in 0..N /\ i + 1 \in 0..N /\ i # k + 1 /\ i + 1 # k + 1
      BY <2>1, <2>2, <2>4, Size DEF SumsUpTo
    <3> QED BY <2>2, <3>1
  <2> HIDE DEF h
  <2>5. SumsUpTo(h, g, k + 1)
    <3>1. ASSUME NEW i \in Identity!Coeffs, i < k + 1 PROVE h[i + 1] = h[i] + g[i]
      <4>1. i < k \/ i = k
        BY <2>2, <3>1, Size
      <4> QED BY <2>3, <2>4, <4>1
    <3> QED BY <2>3, <3>1 DEF SumsUpTo
  <2> QED BY <2>2, <2>5
<1> HIDE DEF P
<1>3. N \in P
  <2>1. N \in Nat /\ N \in 0..N
    BY Size
  <2> QED BY <1>1, <1>2, <2>1, UpToInduction
<1>4. PICK f : SumsUpTo(f, g, N)
  BY <1>3 DEF P
<1>5. \A i \in Identity!Coeffs : i < N
  BY Size
<1> QED BY <1>4, <1>5 DEF Sums, SumsUpTo

(* Sum of the code, a recursive function, is the last partial sum.         *)
LEMMA SumIs ==
  ASSUME NEW g \in [Identity!Coeffs -> Int]
  PROVE  \E f : Sums(f, g) /\ Identity!Sum(g) = f[N]
<1> DEFINE Rec(f) == f = [i \in 0..N |-> IF i = 0 THEN 0 ELSE f[i - 1] + g[i - 1]]
<1>1. PICK f0 : Sums(f0, g)
  BY SumsExist
<1>2. Rec(f0)
  <2>1. ASSUME NEW i \in 0..N PROVE f0[i] = IF i = 0 THEN 0 ELSE f0[i - 1] + g[i - 1]
    <3>1. CASE i = 0
      BY <1>1, <3>1 DEF Sums
    <3>2. CASE i # 0
      <4>1. i - 1 \in Identity!Coeffs /\ (i - 1) + 1 = i
        BY <3>2, Size
      <4>2. f0[(i - 1) + 1] = f0[i - 1] + g[i - 1]
        BY <1>1, <4>1 DEF Sums
      <4> QED BY <3>2, <4>1, <4>2
    <3> QED BY <3>1, <3>2
  <2>2. f0 = [i \in 0..N |-> f0[i]]
    BY <1>1 DEF Sums
  <2> QED BY <2>1, <2>2
<1> DEFINE s == CHOOSE f : Rec(f)
<1>3. Rec(s)
  BY <1>2
<1>4. Identity!Sum(g) = s[N]
  BY DEF Identity!Sum
<1> HIDE DEF s
<1>5. \A i \in 0..N : s[i] = IF i = 0 THEN 0 ELSE s[i - 1] + g[i - 1]
  BY <1>3
<1>6. ASSUME NEW i \in Identity!Coeffs PROVE s[i + 1] = s[i] + g[i]
  <2>1. i + 1 \in 0..N /\ i + 1 # 0 /\ (i + 1) - 1 = i
    BY Size
  <2> QED BY <1>5, <2>1
<1>7. \A i \in 0..N : s[i] \in Int
  <2> DEFINE P == {i \in 0..N : s[i] \in Int}
  <2>1. 0 \in P
    BY <1>5, Size
  <2>2. ASSUME NEW k \in Nat, k < N, k \in P PROVE k + 1 \in P
    <3>1. k \in Identity!Coeffs /\ k + 1 \in 0..N
      BY <2>2, Size
    <3> QED BY <1>6, <2>2, <3>1
  <2> HIDE DEF P
  <2>3. \A i \in 0..N : i \in P
    BY <2>1, <2>2, Size, UpToInduction
  <2> QED BY <2>3 DEF P
<1>8. Sums(s, g)
  <2>1. s[0] = 0
    BY <1>5, Size
  <2>2. s = [i \in 0..N |-> s[i]]
    BY <1>3
  <2>3. s \in [0..N -> Int]
    BY <1>7, <2>2
  <2> QED BY <1>6, <2>1, <2>3 DEF Sums
<1> QED BY <1>4, <1>8

(* It is a number.                                                         *)
LEMMA SumType ==
  ASSUME NEW g \in [Identity!Coeffs -> Int]
  PROVE  Identity!Sum(g) \in Int
<1>1. N \in 0..N
  BY Size
<1> QED BY <1>1, SumIs DEF Sums

(* What the sums below need of N places.                                   *)
LEMMA Places ==
  /\ N \in Nat /\ 0 \in 0..N /\ N \in 0..N
  /\ \A k \in Nat : k < N => k \in Identity!Coeffs /\ k \in 0..N /\ k + 1 \in 0..N
BY Size

(* The sum of two functions is the sum of their sums.                      *)
LEMMA SumAdds ==
  ASSUME NEW g \in [Identity!Coeffs -> Int], NEW h \in [Identity!Coeffs -> Int],
         NEW u \in [Identity!Coeffs -> Int], \A i \in Identity!Coeffs : u[i] = g[i] + h[i]
  PROVE  Identity!Sum(u) = Identity!Sum(g) + Identity!Sum(h)
<1>1. PICK fg : Sums(fg, g) /\ Identity!Sum(g) = fg[N]
  BY SumIs
<1>2. PICK fh : Sums(fh, h) /\ Identity!Sum(h) = fh[N]
  BY SumIs
<1>3. PICK fu : Sums(fu, u) /\ Identity!Sum(u) = fu[N]
  BY SumIs
<1> DEFINE P == {k \in 0..N : fu[k] = fg[k] + fh[k]}
<1>4. 0 \in P
  BY <1>1, <1>2, <1>3, Places DEF Sums
<1>5. ASSUME NEW k \in Nat, k < N, k \in P PROVE k + 1 \in P
  <2>1. k \in Identity!Coeffs /\ k \in 0..N /\ k + 1 \in 0..N
    BY <1>5, Places
  <2>2. fu[k + 1] = fu[k] + u[k] /\ fg[k + 1] = fg[k] + g[k] /\ fh[k + 1] = fh[k] + h[k]
    BY <1>1, <1>2, <1>3, <2>1 DEF Sums
  <2>3. fg[k] \in Int /\ fh[k] \in Int /\ u[k] = g[k] + h[k] /\ g[k] \in Int /\ h[k] \in Int
    BY <1>1, <1>2, <2>1 DEF Sums
  <2> QED BY <1>5, <2>1, <2>2, <2>3
<1> HIDE DEF P
<1>6. N \in P
  BY <1>4, <1>5, Places, UpToInduction
<1> QED BY <1>1, <1>2, <1>3, <1>6 DEF P

(* A sum changes its sign with its terms.                                  *)
LEMMA SumNegates ==
  ASSUME NEW g \in [Identity!Coeffs -> Int],
         NEW u \in [Identity!Coeffs -> Int], \A i \in Identity!Coeffs : u[i] = -g[i]
  PROVE  Identity!Sum(u) = -Identity!Sum(g)
<1>1. PICK fg : Sums(fg, g) /\ Identity!Sum(g) = fg[N]
  BY SumIs
<1>2. PICK fu : Sums(fu, u) /\ Identity!Sum(u) = fu[N]
  BY SumIs
<1> DEFINE P == {k \in 0..N : fu[k] = -fg[k]}
<1>3. 0 \in P
  BY <1>1, <1>2, Places DEF Sums
<1>4. ASSUME NEW k \in Nat, k < N, k \in P PROVE k + 1 \in P
  <2>1. k \in Identity!Coeffs /\ k \in 0..N /\ k + 1 \in 0..N
    BY <1>4, Places
  <2>2. fu[k + 1] = fu[k] + u[k] /\ fg[k + 1] = fg[k] + g[k]
    BY <1>1, <1>2, <2>1 DEF Sums
  <2>3. fg[k] \in Int /\ u[k] = -g[k] /\ g[k] \in Int
    BY <1>1, <2>1 DEF Sums
  <2> QED BY <1>4, <2>1, <2>2, <2>3
<1> HIDE DEF P
<1>5. N \in P
  BY <1>3, <1>4, Places, UpToInduction
<1> QED BY <1>1, <1>2, <1>5 DEF P

(* A sum of which only one term is not 0.                                  *)
LEMMA SumSingle ==
  ASSUME NEW g \in [Identity!Coeffs -> Int], NEW m \in Identity!Coeffs,
         \A i \in Identity!Coeffs : i # m => g[i] = 0
  PROVE  Identity!Sum(g) = g[m]
<1>1. PICK f : Sums(f, g) /\ Identity!Sum(g) = f[N]
  BY SumIs
<1> DEFINE P == {k \in 0..N : f[k] = IF k <= m THEN 0 ELSE g[m]}
<1>2. m \in Nat /\ m < N /\ g[m] \in Int
  BY Size
<1>3. 0 \in P
  BY <1>1, <1>2, Places DEF Sums
<1>4. ASSUME NEW k \in Nat, k < N, k \in P PROVE k + 1 \in P
  <2>1. k \in Identity!Coeffs /\ k \in 0..N /\ k + 1 \in 0..N
    BY <1>4, Places
  <2>2. f[k + 1] = f[k] + g[k] /\ g[k] \in Int
    BY <1>1, <2>1 DEF Sums
  <2>3. f[k] = IF k <= m THEN 0 ELSE g[m]
    BY <1>4
  <2>4. CASE k = m
    BY <1>2, <2>1, <2>2, <2>3, <2>4
  <2>5. CASE k # m
    <3>1. g[k] = 0 /\ (k <= m <=> k + 1 <= m)
      BY <1>2, <2>1, <2>5
    <3> QED BY <1>2, <2>1, <2>2, <2>3, <3>1
  <2> QED BY <2>4, <2>5
<1> HIDE DEF P
<1>5. N \in P
  BY <1>3, <1>4, Places, UpToInduction
<1>6. f[N] = IF N <= m THEN 0 ELSE g[m]
  BY <1>5 DEF P
<1> QED BY <1>1, <1>2, <1>6, Places

(* The sum of N terms that are at most 4.                                  *)
LEMMA SumBounded ==
  ASSUME NEW g \in [Identity!Coeffs -> Int],
         \A i \in Identity!Coeffs : -4 <= g[i] /\ g[i] <= 4
  PROVE  -(N * 4) <= Identity!Sum(g) /\ Identity!Sum(g) <= N * 4
<1>1. PICK f : Sums(f, g) /\ Identity!Sum(g) = f[N]
  BY SumIs
<1> DEFINE P == {k \in 0..N : -(k * 4) <= f[k] /\ f[k] <= k * 4}
<1>2. 0 \in P
  BY <1>1, Places DEF Sums
<1>3. ASSUME NEW k \in Nat, k < N, k \in P PROVE k + 1 \in P
  <2>1. k \in Identity!Coeffs /\ k \in 0..N /\ k + 1 \in 0..N
    BY <1>3, Places
  <2>2. f[k + 1] = f[k] + g[k] /\ g[k] \in Int /\ f[k] \in Int /\ -4 <= g[k] /\ g[k] <= 4
    BY <1>1, <2>1 DEF Sums
  <2>3. -(k * 4) <= f[k] /\ f[k] <= k * 4
    BY <1>3
  <2> QED BY <2>1, <2>2, <2>3
<1> HIDE DEF P
<1>4. N \in P
  BY <1>2, <1>3, Places, UpToInduction
<1> QED BY <1>1, <1>4 DEF P

-----------------------------------------------------------------------------
(* Arithmetic modulo Q.                                                    *)
Multiple(x) == \E d \in Int : x = Q * d

(* Multiples are closed under sums, differences and signs.                 *)
LEMMA MultipleSum ==
  ASSUME NEW x \in Int, NEW y \in Int, Multiple(x), Multiple(y)
  PROVE  Multiple(x + y) /\ Multiple(-x) /\ Multiple(x - y)
<1>1. PICK d \in Int : x = Q * d
  BY DEF Multiple
<1>2. PICK e \in Int : y = Q * e
  BY DEF Multiple
<1>3. x + y = Q * (d + e) /\ -x = Q * (-d) /\ x - y = Q * (d - e)
  BY <1>1, <1>2, Size
<1>4. d + e \in Int /\ -d \in Int /\ d - e \in Int
  OBVIOUS
<1> QED BY <1>3, <1>4 DEF Multiple

(* The first of them.                                                      *)
LEMMA MultipleQ == Multiple(0) /\ Multiple(Q)
<1>1. 0 = Q * 0 /\ Q = Q * 1 /\ 0 \in Int /\ 1 \in Int
  BY Size
<1> QED BY <1>1 DEF Multiple

(* A multiple of Q that is smaller than Q is 0.                            *)
LEMMA MultipleSmall ==
  ASSUME NEW x \in Int, Multiple(x), -Q < x, x < Q
  PROVE  x = 0
<1>1. PICK d \in Int : x = Q * d
  BY DEF Multiple
<1>2. CASE d >= 1
  <2>1. Q * d >= Q
    BY <1>2, Size
  <2> QED BY <1>1, <2>1, Size
<1>3. CASE d <= -1
  <2>1. Q * (-d) >= Q /\ Q * (-d) = -(Q * d)
    BY <1>3, Size
  <2> QED BY <1>1, <2>1, Size
<1>4. CASE d = 0
  BY <1>1, <1>4, Size
<1> QED BY <1>2, <1>3, <1>4

(* The same as DivMod, for a dividend that may be negative.                *)
LEMMA DivModInt ==
  ASSUME NEW x \in Int, NEW b \in Nat \ {0}
  PROVE  /\ x \div b \in Int
         /\ x % b \in 0..(b - 1)
         /\ x = (x \div b) * b + (x % b)
<1>1. x \div b \in Int
  OBVIOUS
<1>2. x % b \in 0..(b - 1)
  OBVIOUS
<1>3. x = (x \div b) * b + (x % b)
  OBVIOUS
<1> QED BY <1>1, <1>2, <1>3

(* What % gives for a number of any sign.                                  *)
LEMMA ModMultiple ==
  ASSUME NEW x \in Int
  PROVE  /\ x % Q \in Int /\ 0 <= x % Q /\ x % Q < Q
         /\ Multiple(x - (x % Q))
         /\ x % Q = 0 <=> Multiple(x)
<1>1. /\ x = (x \div Q) * Q + (x % Q) /\ 0 <= x % Q /\ x % Q < Q
      /\ x \div Q \in Int /\ x % Q \in Int
  <2>1. x \div Q \in Int /\ x % Q \in 0..(Q - 1) /\ x = (x \div Q) * Q + (x % Q)
    BY Size, DivModInt
  <2> DEFINE w == x % Q
  <2> HIDE DEF w
  <2>2. w \in 0..(Q - 1) => w \in Int /\ 0 <= w /\ w < Q
    BY Size
  <2> QED BY <2>1, <2>2 DEF w
<1> DEFINE w == x % Q
           d == x \div Q
<1>2. Multiple(x - w)
  <2>1. x = d * Q + w /\ d \in Int /\ w \in Int
    BY <1>1
  <2> HIDE DEF w, d
  <2>2. x - w = Q * d
    BY <2>1, Size
  <2> QED BY <2>1, <2>2 DEF Multiple
<1>3. ASSUME Multiple(x) PROVE w = 0
  <2>0. w \in Int /\ 0 <= w /\ w < Q
    BY <1>1
  <2> HIDE DEF w
  <2>1. Multiple(w)
    <3>1. x - w \in Int /\ x - (x - w) = w
      BY <2>0
    <3>2. Multiple(x - (x - w))
      BY <1>2, <1>3, <3>1, MultipleSum
    <3> QED BY <3>1, <3>2
  <2> QED BY <2>0, <2>1, MultipleSmall, Size
<1>4. ASSUME w = 0 PROVE Multiple(x)
  <2> HIDE DEF w
  <2>1. x - w = x
    BY <1>4
  <2> QED BY <1>2, <2>1
<1> QED BY <1>1, <1>2, <1>3, <1>4

(* Centring stays in the class, and changes nothing below half of Q.       *)
LEMMA CentredIs ==
  ASSUME NEW x \in Int
  PROVE  /\ Identity!Centred(x) \in Int /\ Multiple(Identity!Centred(x) - x)
         /\ -Q < 2 * x /\ 2 * x < Q => Identity!Centred(x) = x
<1> DEFINE r == Identity!Remainder(x)
           s == IF r < 0 THEN r + Q ELSE r
           c == IF s > Q \div 2 THEN s - Q ELSE s
<1>1. r \in Int /\ -Q < r /\ r < Q /\ Multiple(r - x)
  <2>1. CASE x < 0
    <3>1. -x \in Int /\ (-x) % Q \in Int /\ 0 <= (-x) % Q /\ (-x) % Q < Q
          /\ Multiple((-x) - ((-x) % Q))
      BY ModMultiple
    <3>2. r = -((-x) % Q)
      BY <2>1 DEF Identity!Remainder
    <3>3. r - x = (-x) - ((-x) % Q)
      BY <3>1, <3>2
    <3> QED BY <3>1, <3>2, <3>3, Size
  <2>2. CASE ~ (x < 0)
    <3>1. x % Q \in Int /\ 0 <= x % Q /\ x % Q < Q /\ Multiple(x - (x % Q))
      BY ModMultiple
    <3>2. r = x % Q
      BY <2>2 DEF Identity!Remainder
    <3>3. Multiple(-(x - (x % Q))) /\ -(x - (x % Q)) = r - x
      BY <3>1, <3>2, MultipleSum
    <3> QED BY <3>1, <3>2, <3>3, Size
  <2> QED BY <2>1, <2>2
<1>2. Identity!Centred(x) = c
  BY DEF Identity!Centred
<1> HIDE DEF r
<1>3. s \in Int /\ 0 <= s /\ s < Q /\ Multiple(s - x)
  <2>1. CASE r < 0
    <3>1. Multiple((r - x) + Q) /\ (r - x) + Q = s - x
      BY <1>1, <2>1, MultipleSum, MultipleQ, Size
    <3> QED BY <1>1, <2>1, <3>1, Size
  <2>2. CASE ~ (r < 0)
    BY <1>1, <2>2
  <2> QED BY <2>1, <2>2
<1> HIDE DEF s
<1>4. c \in Int /\ 2 * c <= Q /\ -Q < 2 * c /\ Multiple(c - x)
  <2>1. CASE s > Q \div 2
    <3>1. c = s - Q
      BY <2>1
    <3>2. Multiple((s - x) - Q)
      BY <1>3, MultipleSum, MultipleQ, Size
    <3>3. (s - x) - Q = c - x
      BY <1>3, <3>1, Size
    <3> HIDE DEF c
    <3> QED BY <1>3, <2>1, <3>1, <3>2, <3>3, Size
  <2>2. CASE ~ (s > Q \div 2)
    BY <1>3, <2>2, Size
  <2> QED BY <2>1, <2>2
<1> HIDE DEF c
<1>5. ASSUME -Q < 2 * x, 2 * x < Q PROVE c = x
  <2>1. c - x \in Int /\ -Q < c - x /\ c - x < Q
    BY <1>4, <1>5, Size
  <2>2. c - x = 0
    BY <1>4, <2>1, MultipleSmall
  <2> QED BY <1>4, <2>2
<1> QED BY <1>2, <1>4, <1>5

-----------------------------------------------------------------------------
(* The product of the code and that of the ring are sums of the same terms.*)
LEMMA FoldedType ==
  ASSUME NEW a \in [Identity!Coeffs -> Int], NEW b \in [Identity!Coeffs -> Int],
         NEW x \in Identity!Coeffs
  PROVE  Identity!Folded(a, b, x) \in [Identity!Coeffs -> Int]
<1>1. ASSUME NEW i \in Identity!Coeffs PROVE Identity!Folded(a, b, x)[i] \in Int
  <2>1. CASE i <= x
    <3>1. x - i \in Identity!Coeffs
      BY <2>1, Size
    <3>2. a[i] \in Int /\ b[x - i] \in Int
      BY <3>1
    <3> QED BY <2>1, <3>2 DEF Identity!Folded
  <2>2. CASE ~ (i <= x)
    <3>1. x + N - i \in Identity!Coeffs
      BY <2>2, Size
    <3>2. a[i] \in Int /\ b[x + N - i] \in Int
      BY <3>1
    <3> QED BY <2>2, <3>2 DEF Identity!Folded
  <2> QED BY <2>1, <2>2
<1> QED BY <1>1 DEF Identity!Folded

(* A coefficient that the code computes is the centred sum of the ring.    *)
LEMMA SchoolbookIs ==
  ASSUME NEW a \in [Identity!Coeffs -> Int], NEW b \in [Identity!Coeffs -> Int],
         NEW x \in Identity!Coeffs
  PROVE  Identity!Schoolbook(a, b)[x] = Identity!Centred(Identity!Sum(Identity!Folded(a, b, x)))
<1> DEFINE term(y) == [i \in Identity!Coeffs |->
                         IF y - i \in Identity!Coeffs THEN a[i] * b[y - i] ELSE 0]
           g == term(x)
           h == term(x + N)
           m == [i \in Identity!Coeffs |-> -h[i]]
           u == Identity!Folded(a, b, x)
<1>1. g \in [Identity!Coeffs -> Int] /\ h \in [Identity!Coeffs -> Int]
  OBVIOUS
<1>2. m \in [Identity!Coeffs -> Int] /\ u \in [Identity!Coeffs -> Int]
  BY <1>1, FoldedType
<1>3. ASSUME NEW i \in Identity!Coeffs PROVE u[i] = g[i] + m[i]
  <2>1. CASE i <= x
    <3>1. x - i \in Identity!Coeffs /\ (x + N) - i \notin Identity!Coeffs
      BY <2>1, Size
    <3>2. g[i] = a[i] * b[x - i] /\ h[i] = 0 /\ u[i] = a[i] * b[x - i] /\ g[i] \in Int
      BY <1>1, <2>1, <3>1 DEF Identity!Folded
    <3>3. m[i] = -h[i]
      OBVIOUS
    <3> HIDE DEF g, h, m, u
    <3>4. m[i] = -h[i] /\ g[i] \in Int /\ h[i] \in Int
      BY <1>1, <3>3
    <3> QED BY <3>2, <3>4
  <2>2. CASE ~ (i <= x)
    <3>1. x - i \notin Identity!Coeffs /\ (x + N) - i \in Identity!Coeffs
      BY <2>2, Size
    <3>2. g[i] = 0 /\ h[i] = a[i] * b[(x + N) - i] /\ u[i] = -(a[i] * b[x + N - i])
      BY <2>2, <3>1 DEF Identity!Folded
    <3>5. (x + N) - i = x + N - i
      BY Size
    <3>3. m[i] = -h[i]
      OBVIOUS
    <3> HIDE DEF g, h, m, u
    <3>4. m[i] = -h[i] /\ g[i] \in Int /\ h[i] \in Int /\ m[i] \in Int
      BY <1>1, <1>2, <3>3
    <3> QED BY <3>2, <3>4, <3>5
  <2> QED BY <2>1, <2>2
<1>4. \A i \in Identity!Coeffs : m[i] = -h[i]
  OBVIOUS
<1>5. x \in 0..(2 * N - 1) /\ x + N \in 0..(2 * N - 1)
  BY Size
<1>6. /\ Identity!Convolution(a, b)[x] = Identity!Sum(g)
      /\ Identity!Convolution(a, b)[x + N] = Identity!Sum(h)
  BY <1>5, Zenon DEF Identity!Convolution
<1>7. Identity!Schoolbook(a, b)[x]
        = Identity!Centred(Identity!Convolution(a, b)[x] - Identity!Convolution(a, b)[x + N])
  BY Zenon DEF Identity!Schoolbook
<1> HIDE DEF g, h, m, u
<1>8. Identity!Sum(u) = Identity!Sum(g) + Identity!Sum(m) /\ Identity!Sum(m) = -Identity!Sum(h)
  BY <1>1, <1>2, <1>3, <1>4, SumAdds, SumNegates
<1>9. Identity!Sum(g) - Identity!Sum(h) = Identity!Sum(u)
  BY <1>1, <1>8, SumType
<1> QED BY <1>6, <1>7, <1>9 DEF u

-----------------------------------------------------------------------------
(* A coefficient of the product in the ring, and what it is for the        *)
(* factors of which the authority is made.                                 *)
Product(a, b, x) == Identity!Sum(Identity!Folded(a, b, x))

(* It is a number.                                                         *)
LEMMA ProductType ==
  ASSUME NEW a \in [Identity!Coeffs -> Int], NEW b \in [Identity!Coeffs -> Int],
         NEW x \in Identity!Coeffs
  PROVE  Product(a, b, x) \in Int
BY FoldedType, SumType DEF Product

(* The two constant polynomials.                                           *)
LEMMA Units ==
  /\ Identity!One \in [Identity!Coeffs -> Int] /\ Identity!Zero \in [Identity!Coeffs -> Int]
  /\ 0 \in Identity!Coeffs /\ Identity!One[0] = 1
  /\ \A i \in Identity!Coeffs : Identity!Zero[i] = 0 /\ (i # 0 => Identity!One[i] = 0)
BY Size DEF Identity!One, Identity!Zero

(* One times b.                                                            *)
LEMMA ProductOneLeft ==
  ASSUME NEW b \in [Identity!Coeffs -> Int], NEW x \in Identity!Coeffs
  PROVE  Product(Identity!One, b, x) = b[x]
<1> DEFINE u == Identity!Folded(Identity!One, b, x)
<1>1. u \in [Identity!Coeffs -> Int]
  BY FoldedType, Units
<1>2. u[0] = b[x]
  <2>1. 0 <= x /\ x - 0 = x /\ b[x] \in Int
    BY Size
  <2> QED BY <2>1, Units DEF Identity!Folded
<1>3. ASSUME NEW i \in Identity!Coeffs, i # 0 PROVE u[i] = 0
  <2>1. CASE i <= x
    <3>1. x - i \in Identity!Coeffs
      BY <2>1, Size
    <3>2. u[i] = Identity!One[i] * b[x - i] /\ Identity!One[i] = 0 /\ b[x - i] \in Int
      BY <1>3, <2>1, <3>1, Units DEF Identity!Folded
    <3> QED BY <3>2
  <2>2. CASE ~ (i <= x)
    <3>1. x + N - i \in Identity!Coeffs
      BY <2>2, Size
    <3>2. u[i] = -(Identity!One[i] * b[x + N - i]) /\ Identity!One[i] = 0 /\ b[x + N - i] \in Int
      BY <1>3, <2>2, <3>1, Units DEF Identity!Folded
    <3> QED BY <3>2
  <2> QED BY <2>1, <2>2
<1> HIDE DEF u
<1>4. Identity!Sum(u) = u[0]
  BY <1>1, <1>3, Units, SumSingle
<1> QED BY <1>2, <1>4 DEF Product, u

(* a times one.                                                            *)
LEMMA ProductOneRight ==
  ASSUME NEW a \in [Identity!Coeffs -> Int], NEW x \in Identity!Coeffs
  PROVE  Product(a, Identity!One, x) = a[x]
<1> DEFINE u == Identity!Folded(a, Identity!One, x)
<1>1. u \in [Identity!Coeffs -> Int]
  BY FoldedType, Units
<1>2. u[x] = a[x]
  <2>1. x <= x /\ x - x = 0 /\ a[x] \in Int
    BY Size
  <2>2. u[x] = a[x] * Identity!One[x - x]
    BY <2>1 DEF Identity!Folded
  <2> QED BY <2>1, <2>2, Units
<1>3. ASSUME NEW i \in Identity!Coeffs, i # x PROVE u[i] = 0
  <2>1. CASE i <= x
    <3>1. x - i \in Identity!Coeffs /\ x - i # 0
      BY <1>3, <2>1, Size
    <3>2. u[i] = a[i] * Identity!One[x - i] /\ Identity!One[x - i] = 0 /\ a[i] \in Int
      BY <2>1, <3>1, Units DEF Identity!Folded
    <3> QED BY <3>2
  <2>2. CASE ~ (i <= x)
    <3>1. x + N - i \in Identity!Coeffs /\ x + N - i # 0
      BY <2>2, Size
    <3>2. u[i] = -(a[i] * Identity!One[x + N - i]) /\ Identity!One[x + N - i] = 0 /\ a[i] \in Int
      BY <2>2, <3>1, Units DEF Identity!Folded
    <3> QED BY <3>2
  <2> QED BY <2>1, <2>2
<1> HIDE DEF u
<1>4. Identity!Sum(u) = u[x]
  BY <1>1, <1>3, SumSingle
<1> QED BY <1>2, <1>4 DEF Product, u

(* a times zero.                                                           *)
LEMMA ProductZeroRight ==
  ASSUME NEW a \in [Identity!Coeffs -> Int], NEW x \in Identity!Coeffs
  PROVE  Product(a, Identity!Zero, x) = 0
<1> DEFINE u == Identity!Folded(a, Identity!Zero, x)
<1>1. u \in [Identity!Coeffs -> Int]
  BY FoldedType, Units
<1>2. ASSUME NEW i \in Identity!Coeffs PROVE u[i] = 0
  <2>1. CASE i <= x
    <3>1. x - i \in Identity!Coeffs
      BY <2>1, Size
    <3>2. u[i] = a[i] * Identity!Zero[x - i] /\ Identity!Zero[x - i] = 0 /\ a[i] \in Int
      BY <2>1, <3>1, Units DEF Identity!Folded
    <3> QED BY <3>2
  <2>2. CASE ~ (i <= x)
    <3>1. x + N - i \in Identity!Coeffs
      BY <2>2, Size
    <3>2. u[i] = -(a[i] * Identity!Zero[x + N - i]) /\ Identity!Zero[x + N - i] = 0 /\ a[i] \in Int
      BY <2>2, <3>1, Units DEF Identity!Folded
    <3> QED BY <3>2
  <2> QED BY <2>1, <2>2
<1> HIDE DEF u
<1>3. Identity!Sum(u) = u[0]
  BY <1>1, <1>2, Units, SumSingle
<1> QED BY <1>2, <1>3, Units DEF Product, u

(* The polynomial with all signs changed.                                  *)
LEMMA NegateType ==
  ASSUME NEW a \in [Identity!Coeffs -> Int]
  PROVE  /\ Identity!Negate(a) \in [Identity!Coeffs -> Int]
         /\ \A x \in Identity!Coeffs : Identity!Negate(a)[x] = -a[x]
BY DEF Identity!Negate

(* A product changes its sign with a factor.                               *)
LEMMA ProductNegateLeft ==
  ASSUME NEW a \in [Identity!Coeffs -> Int], NEW b \in [Identity!Coeffs -> Int],
         NEW x \in Identity!Coeffs
  PROVE  Product(Identity!Negate(a), b, x) = -Product(a, b, x)
<1> DEFINE g == Identity!Folded(a, b, x)
           u == Identity!Folded(Identity!Negate(a), b, x)
<1>1. g \in [Identity!Coeffs -> Int] /\ u \in [Identity!Coeffs -> Int]
  BY FoldedType, NegateType
<1>2. ASSUME NEW i \in Identity!Coeffs PROVE u[i] = -g[i]
  <2>1. CASE i <= x
    <3>1. x - i \in Identity!Coeffs
      BY <2>1, Size
    <3>2. /\ u[i] = Identity!Negate(a)[i] * b[x - i] /\ Identity!Negate(a)[i] = -a[i]
          /\ g[i] = a[i] * b[x - i] /\ a[i] \in Int /\ b[x - i] \in Int
      BY <2>1, <3>1, NegateType DEF Identity!Folded
    <3> HIDE DEF g, u
    <3> QED BY <3>2
  <2>2. CASE ~ (i <= x)
    <3>1. x + N - i \in Identity!Coeffs
      BY <2>2, Size
    <3>2. /\ u[i] = -(Identity!Negate(a)[i] * b[x + N - i]) /\ Identity!Negate(a)[i] = -a[i]
          /\ g[i] = -(a[i] * b[x + N - i]) /\ a[i] \in Int /\ b[x + N - i] \in Int
      BY <2>2, <3>1, NegateType DEF Identity!Folded
    <3> HIDE DEF g, u
    <3> QED BY <3>2
  <2> QED BY <2>1, <2>2
<1> HIDE DEF g, u
<1>3. Identity!Sum(u) = -Identity!Sum(g)
  BY <1>1, <1>2, SumNegates
<1> QED BY <1>3 DEF Product, u, g

(* Noise, which is from -2 to 2.                                           *)
Short == [Identity!Coeffs -> -2..2]

(* Noise is short.                                                         *)
LEMMA ShortType == Noise \subseteq Short /\ Short \subseteq [Identity!Coeffs -> Int]
BY Size DEF Short

(* A product of two coefficients of noise.                                 *)
LEMMA SmallProduct ==
  ASSUME NEW y \in -2..2, NEW z \in -2..2
  PROVE  y * z \in Int /\ -4 <= y * z /\ y * z <= 4
<1>1. y = -2 \/ y = -1 \/ y = 0 \/ y = 1 \/ y = 2
  OBVIOUS
<1> QED BY <1>1

(* So a product of noise stays between -4N and 4N.                         *)
LEMMA ProductOfShort ==
  ASSUME NEW a \in Short, NEW b \in Short, NEW x \in Identity!Coeffs
  PROVE  -(N * 4) <= Product(a, b, x) /\ Product(a, b, x) <= N * 4
<1> DEFINE u == Identity!Folded(a, b, x)
<1>0. a \in [Identity!Coeffs -> Int] /\ b \in [Identity!Coeffs -> Int]
  BY ShortType
<1>1. u \in [Identity!Coeffs -> Int]
  BY <1>0, FoldedType
<1>2. ASSUME NEW i \in Identity!Coeffs PROVE -4 <= u[i] /\ u[i] <= 4
  <2>1. CASE i <= x
    <3>1. x - i \in Identity!Coeffs
      BY <2>1, Size
    <3>2. u[i] = a[i] * b[x - i]
      BY <2>1 DEF Identity!Folded
    <3>3. a[i] \in -2..2 /\ b[x - i] \in -2..2
      BY <3>1 DEF Short
    <3> HIDE DEF u
    <3> QED BY <3>2, <3>3, SmallProduct
  <2>2. CASE ~ (i <= x)
    <3>1. x + N - i \in Identity!Coeffs
      BY <2>2, Size
    <3>2. u[i] = -(a[i] * b[x + N - i])
      BY <2>2 DEF Identity!Folded
    <3>3. a[i] \in -2..2 /\ b[x + N - i] \in -2..2
      BY <3>1 DEF Short
    <3>4. a[i] * b[x + N - i] \in Int /\ -4 <= a[i] * b[x + N - i] /\ a[i] * b[x + N - i] <= 4
      BY <3>3, SmallProduct
    <3> HIDE DEF u
    <3> QED BY <3>2, <3>4
  <2> QED BY <2>1, <2>2
<1> HIDE DEF u
<1> QED BY <1>1, <1>2, SumBounded DEF Product, u

-----------------------------------------------------------------------------
(* The row of the authority times a vector: the sum of three products, as  *)
(* the code and the ring compute it.                                       *)
Vectors == [0..2 -> [Identity!Coeffs -> Int]]

RowProduct(row, v, x) ==
  Product(row[0], v[0], x) + Product(row[1], v[1], x) + Product(row[2], v[2], x)

(* poly_mul_schoolbook is the product, up to multiples of Q.               *)
LEMMA CodeProduct ==
  ASSUME NEW a \in [Identity!Coeffs -> Int], NEW b \in [Identity!Coeffs -> Int]
  PROVE  /\ Identity!Schoolbook(a, b) \in [Identity!Coeffs -> Int]
         /\ \A x \in Identity!Coeffs :
              /\ Identity!Schoolbook(a, b)[x] = Identity!Centred(Product(a, b, x))
              /\ Multiple(Identity!Schoolbook(a, b)[x] - Product(a, b, x))
<1>1. ASSUME NEW x \in Identity!Coeffs
      PROVE  /\ Identity!Schoolbook(a, b)[x] = Identity!Centred(Product(a, b, x))
             /\ Multiple(Identity!Schoolbook(a, b)[x] - Product(a, b, x))
             /\ Identity!Schoolbook(a, b)[x] \in Int
  <2>1. Identity!Schoolbook(a, b)[x] = Identity!Centred(Product(a, b, x))
    BY SchoolbookIs DEF Product
  <2>2. Product(a, b, x) \in Int
    BY ProductType
  <2>3. /\ Identity!Centred(Product(a, b, x)) \in Int
        /\ Multiple(Identity!Centred(Product(a, b, x)) - Product(a, b, x))
    BY <2>2, CentredIs
  <2> QED BY <2>1, <2>3
<1>2. Identity!Schoolbook(a, b) = [x \in Identity!Coeffs |-> Identity!Schoolbook(a, b)[x]]
  BY DEF Identity!Schoolbook
<1> QED BY <1>1, <1>2

(* So is the product in the ring.                                          *)
LEMMA RingProduct ==
  ASSUME NEW a \in [Identity!Coeffs -> Int], NEW b \in [Identity!Coeffs -> Int]
  PROVE  /\ Identity!Times(a, b) \in [Identity!Coeffs -> Int]
         /\ \A x \in Identity!Coeffs : Multiple(Identity!Times(a, b)[x] - Product(a, b, x))
<1>1. ASSUME NEW x \in Identity!Coeffs
      PROVE  /\ Multiple(Identity!Times(a, b)[x] - Product(a, b, x))
             /\ Identity!Times(a, b)[x] \in Int
  <2> DEFINE s == Product(a, b, x)
  <2>1. Identity!Times(a, b)[x] = s % Q
    BY DEF Identity!Times, Product
  <2>2. s \in Int
    BY ProductType
  <2> HIDE DEF s
  <2>3. s % Q \in Int /\ Multiple(s - (s % Q))
    BY <2>2, ModMultiple
  <2> DEFINE w == s % Q
  <2> HIDE DEF w
  <2>4. w \in Int /\ Multiple(s - w) /\ s - w \in Int
    BY <2>2, <2>3 DEF w
  <2>5. Multiple(-(s - w)) /\ -(s - w) = w - s
    BY <2>2, <2>4, MultipleSum
  <2> QED BY <2>1, <2>4, <2>5 DEF s, w
<1>2. Identity!Times(a, b) = [x \in Identity!Coeffs |-> Identity!Times(a, b)[x]]
  BY DEF Identity!Times
<1> QED BY <1>1, <1>2

(* Congruence of sums of three.                                            *)
LEMMA MultipleOfThree ==
  ASSUME NEW a1 \in Int, NEW a2 \in Int, NEW a3 \in Int,
         NEW b1 \in Int, NEW b2 \in Int, NEW b3 \in Int,
         Multiple(a1 - b1), Multiple(a2 - b2), Multiple(a3 - b3)
  PROVE  Multiple((a1 + a2 + a3) - (b1 + b2 + b3))
<1>1. Multiple((a1 - b1) + (a2 - b2))
  BY MultipleSum
<1>2. Multiple(((a1 - b1) + (a2 - b2)) + (a3 - b3))
  BY <1>1, MultipleSum
<1>3. ((a1 - b1) + (a2 - b2)) + (a3 - b3) = (a1 + a2 + a3) - (b1 + b2 + b3)
  OBVIOUS
<1> QED BY <1>2, <1>3

(* The row times a vector: code and ring are congruent.                    *)
LEMMA RowsAgree ==
  ASSUME authority.a_row \in Vectors, NEW v \in Vectors, NEW x \in Identity!Coeffs
  PROVE  /\ RowProduct(authority.a_row, v, x) \in Int
         /\ Identity!RowTimes(authority.a_row, v)[x] \in Int
         /\ Identity!Image(v)[x] \in Int
         /\ Multiple(Identity!RowTimes(authority.a_row, v)[x] - RowProduct(authority.a_row, v, x))
         /\ Multiple(Identity!Image(v)[x] - RowProduct(authority.a_row, v, x))
<1> DEFINE row == authority.a_row
<1>1. \A j \in 0..2 : row[j] \in [Identity!Coeffs -> Int] /\ v[j] \in [Identity!Coeffs -> Int]
  BY DEF Vectors
<1>2. 0 \in 0..2 /\ 1 \in 0..2 /\ 2 \in 0..2
  OBVIOUS
<1> DEFINE s(j) == Identity!Schoolbook(row[j], v[j])[x]
           w(j) == Identity!Times(row[j], v[j])[x]
           p(j) == Product(row[j], v[j], x)
<1>3. Identity!RowTimes(row, v)[x] = s(0) + s(1) + s(2)
  BY DEF Identity!RowTimes, Identity!Add
<1>4. Identity!Image(v)[x] = w(0) + w(1) + w(2)
  BY DEF Identity!Image, Identity!Add
<1>5. RowProduct(row, v, x) = p(0) + p(1) + p(2)
  BY DEF RowProduct
<1>6. \A j \in 0..2 : /\ s(j) \in Int /\ w(j) \in Int /\ p(j) \in Int
                      /\ Multiple(s(j) - p(j)) /\ Multiple(w(j) - p(j))
  <2>1. SUFFICES ASSUME NEW j \in 0..2
                 PROVE  /\ s(j) \in Int /\ w(j) \in Int /\ p(j) \in Int
                        /\ Multiple(s(j) - p(j)) /\ Multiple(w(j) - p(j))
    OBVIOUS
  <2>2. row[j] \in [Identity!Coeffs -> Int] /\ v[j] \in [Identity!Coeffs -> Int]
    BY <1>1
  <2>3. s(j) \in Int /\ Multiple(s(j) - p(j))
    BY <2>2, CodeProduct
  <2>4. w(j) \in Int /\ Multiple(w(j) - p(j))
    BY <2>2, RingProduct
  <2>5. p(j) \in Int
    BY <2>2, ProductType
  <2> QED BY <2>3, <2>4, <2>5
<1> HIDE DEF s, w, p
<1>7. /\ s(0) \in Int /\ w(0) \in Int /\ p(0) \in Int
      /\ Multiple(s(0) - p(0)) /\ Multiple(w(0) - p(0))
  BY <1>2, <1>6
<1>8. /\ s(1) \in Int /\ w(1) \in Int /\ p(1) \in Int
      /\ Multiple(s(1) - p(1)) /\ Multiple(w(1) - p(1))
  BY <1>2, <1>6
<1>9. /\ s(2) \in Int /\ w(2) \in Int /\ p(2) \in Int
      /\ Multiple(s(2) - p(2)) /\ Multiple(w(2) - p(2))
  BY <1>2, <1>6
<1>10. Multiple((s(0) + s(1) + s(2)) - (p(0) + p(1) + p(2)))
  BY <1>7, <1>8, <1>9, MultipleOfThree
<1>11. Multiple((w(0) + w(1) + w(2)) - (p(0) + p(1) + p(2)))
  BY <1>7, <1>8, <1>9, MultipleOfThree
<1>12. s(0) + s(1) + s(2) \in Int /\ w(0) + w(1) + w(2) \in Int /\ p(0) + p(1) + p(2) \in Int
  BY <1>7, <1>8, <1>9
<1> QED BY <1>3, <1>4, <1>5, <1>10, <1>11, <1>12

-----------------------------------------------------------------------------
(* The basis is in the kernel.  Products of noise are below half of Q and  *)
(* are not changed by centring, nor is the last coefficient of the row.    *)
Authorised ==
  \E r12, r13, r23 \in Noise : authority = Identity!Authority(r12, r13, r23)

(* Reading a vector.                                                       *)
LEMMA VectorParts ==
  ASSUME NEW a, NEW b, NEW c
  PROVE  /\ Identity!Vector(a, b, c)[0] = a /\ Identity!Vector(a, b, c)[1] = b
         /\ Identity!Vector(a, b, c)[2] = c
BY DEF Identity!Vector

(* And its type.                                                           *)
LEMMA VectorType ==
  ASSUME NEW a \in [Identity!Coeffs -> Int], NEW b \in [Identity!Coeffs -> Int],
         NEW c \in [Identity!Coeffs -> Int]
  PROVE  Identity!Vector(a, b, c) \in Vectors
BY DEF Identity!Vector, Vectors

(* The third part of the row, coefficient by coefficient.                  *)
LEMMA RowEnd ==
  ASSUME NEW r12 \in Short, NEW r13 \in Short, NEW r23 \in Short
  PROVE  LET c == Identity!Add(Identity!Schoolbook(r12, r23), Identity!Negate(r13))
         IN  /\ c \in [Identity!Coeffs -> Int]
             /\ \A x \in Identity!Coeffs :
                  /\ c[x] = Product(r12, r23, x) - r13[x]
                  /\ -Q < 2 * c[x] /\ 2 * c[x] < Q
<1> DEFINE c == Identity!Add(Identity!Schoolbook(r12, r23), Identity!Negate(r13))
<1>1. /\ r12 \in [Identity!Coeffs -> Int] /\ r13 \in [Identity!Coeffs -> Int]
      /\ r23 \in [Identity!Coeffs -> Int]
  BY ShortType
<1>2. ASSUME NEW x \in Identity!Coeffs
      PROVE  /\ c[x] \in Int /\ c[x] = Product(r12, r23, x) - r13[x]
             /\ -Q < 2 * c[x] /\ 2 * c[x] < Q
  <2> DEFINE p == Product(r12, r23, x)
  <2>1. p \in Int /\ -(N * 4) <= p /\ p <= N * 4
    BY <1>1, ProductType, ProductOfShort
  <2>2. r13[x] \in Int /\ -2 <= r13[x] /\ r13[x] <= 2
    BY DEF Short
  <2>3. Identity!Schoolbook(r12, r23)[x] = Identity!Centred(p)
    BY <1>1, CodeProduct
  <2>4. c[x] = Identity!Schoolbook(r12, r23)[x] + Identity!Negate(r13)[x]
    BY DEF Identity!Add
  <2>5. Identity!Negate(r13)[x] = -r13[x]
    BY <1>1, NegateType
  <2> HIDE DEF p, c
  <2>6. Identity!Centred(p) = p
    <3>1. -Q < 2 * p /\ 2 * p < Q
      BY <2>1, Size
    <3> QED BY <2>1, <3>1, CentredIs
  <2>7. c[x] = p - r13[x]
    BY <2>1, <2>2, <2>3, <2>4, <2>5, <2>6
  <2>8. c[x] \in Int /\ -Q < 2 * c[x] /\ 2 * c[x] < Q
    BY <2>1, <2>2, <2>7, Size
  <2> QED BY <2>7, <2>8 DEF p
<1>3. c = [x \in Identity!Coeffs |-> c[x]]
  BY DEF Identity!Add
<1> HIDE DEF c
<1>4. c \in [Identity!Coeffs -> Int]
  BY <1>2, <1>3
<1> QED BY <1>2, <1>4 DEF c

(* The sum of the three products is 0 for each vector of the basis.        *)
LEMMA BasisVanishes ==
  ASSUME NEW r12 \in Short, NEW r13 \in Short, NEW r23 \in Short, NEW x \in Identity!Coeffs
  PROVE  LET row == Identity!Authority(r12, r13, r23).a_row
             basis1 == Identity!Authority(r12, r13, r23).basis1
             basis2 == Identity!Authority(r12, r13, r23).basis2
         IN  /\ row \in Vectors /\ basis1 \in Vectors /\ basis2 \in Vectors
             /\ RowProduct(row, basis1, x) = 0 /\ Identity!RowTimes(row, basis1)[x] = 0
             /\ RowProduct(row, basis2, x) = 0 /\ Identity!RowTimes(row, basis2)[x] = 0
<1> DEFINE m == Identity!Negate(r12)
           c == Identity!Add(Identity!Schoolbook(r12, r23), Identity!Negate(r13))
           row == Identity!Vector(Identity!One, m, c)
           basis1 == Identity!Vector(r12, Identity!One, Identity!Zero)
           basis2 == Identity!Vector(r13, r23, Identity!One)
           p == Product(r12, r23, x)
<1>1. /\ r12 \in [Identity!Coeffs -> Int] /\ r13 \in [Identity!Coeffs -> Int]
      /\ r23 \in [Identity!Coeffs -> Int]
  BY ShortType
<1>2. /\ Identity!Authority(r12, r13, r23).a_row = row
      /\ Identity!Authority(r12, r13, r23).basis1 = basis1
      /\ Identity!Authority(r12, r13, r23).basis2 = basis2
  BY DEF Identity!Authority
<1>3. /\ c \in [Identity!Coeffs -> Int] /\ c[x] = p - r13[x]
      /\ -Q < 2 * c[x] /\ 2 * c[x] < Q
  BY RowEnd
<1>4. m \in [Identity!Coeffs -> Int] /\ m[x] = -r12[x]
  BY <1>1, NegateType
<1>5. p \in Int /\ -Q < 2 * p /\ 2 * p < Q
  <2>1. p \in Int /\ -(N * 4) <= p /\ p <= N * 4
    BY <1>1, ProductType, ProductOfShort
  <2> HIDE DEF p
  <2> QED BY <2>1, Size
<1>6. /\ r12[x] \in -2..2 /\ r13[x] \in -2..2 /\ c[x] \in Int
  BY <1>3 DEF Short
<1>7. /\ row[0] = Identity!One /\ row[1] = m /\ row[2] = c
      /\ basis1[0] = r12 /\ basis1[1] = Identity!One /\ basis1[2] = Identity!Zero
      /\ basis2[0] = r13 /\ basis2[1] = r23 /\ basis2[2] = Identity!One
  BY VectorParts
<1>8. row \in Vectors /\ basis1 \in Vectors /\ basis2 \in Vectors
  BY <1>1, <1>3, <1>4, Units, VectorType
<1>9. /\ Product(Identity!One, r12, x) = r12[x] /\ Product(m, Identity!One, x) = -r12[x]
      /\ Product(c, Identity!Zero, x) = 0
  BY <1>1, <1>3, <1>4, ProductOneLeft, ProductOneRight, ProductZeroRight
<1>10. /\ Product(Identity!One, r13, x) = r13[x] /\ Product(m, r23, x) = -p
       /\ Product(c, Identity!One, x) = p - r13[x]
  BY <1>1, <1>3, ProductOneLeft, ProductOneRight, ProductNegateLeft
<1>11. /\ Identity!RowTimes(row, basis1)[x]
             = Identity!Schoolbook(Identity!One, r12)[x] + Identity!Schoolbook(m, Identity!One)[x]
                 + Identity!Schoolbook(c, Identity!Zero)[x]
       /\ Identity!RowTimes(row, basis2)[x]
             = Identity!Schoolbook(Identity!One, r13)[x] + Identity!Schoolbook(m, r23)[x]
                 + Identity!Schoolbook(c, Identity!One)[x]
  <2> HIDE DEF row, basis1, basis2, m, c
  <2> QED BY <1>7 DEF Identity!RowTimes, Identity!Add
<1>12. /\ Identity!Schoolbook(Identity!One, r12)[x] = Identity!Centred(r12[x])
       /\ Identity!Schoolbook(m, Identity!One)[x] = Identity!Centred(-r12[x])
       /\ Identity!Schoolbook(c, Identity!Zero)[x] = Identity!Centred(0)
  BY <1>1, <1>3, <1>4, <1>9, Units, CodeProduct
<1>13. /\ Identity!Schoolbook(Identity!One, r13)[x] = Identity!Centred(r13[x])
       /\ Identity!Schoolbook(m, r23)[x] = Identity!Centred(-p)
       /\ Identity!Schoolbook(c, Identity!One)[x] = Identity!Centred(p - r13[x])
  BY <1>1, <1>3, <1>4, <1>10, Units, CodeProduct
<1>14. /\ RowProduct(row, basis1, x) = r12[x] + (-r12[x]) + 0
       /\ RowProduct(row, basis2, x) = r13[x] + (-p) + (p - r13[x])
  <2> HIDE DEF row, basis1, basis2, m, c, p
  <2> QED BY <1>7, <1>9, <1>10 DEF RowProduct
<1> HIDE DEF row, basis1, basis2, m, c, p
<1>15. /\ Identity!Centred(r12[x]) = r12[x] /\ Identity!Centred(-r12[x]) = -r12[x]
       /\ Identity!Centred(0) = 0
  <2>1. /\ r12[x] \in Int /\ -Q < 2 * r12[x] /\ 2 * r12[x] < Q
        /\ -r12[x] \in Int /\ -Q < 2 * (-r12[x]) /\ 2 * (-r12[x]) < Q
        /\ 0 \in Int /\ -Q < 2 * 0 /\ 2 * 0 < Q
    BY <1>6, Size
  <2> QED BY <2>1, CentredIs
<1>16. /\ Identity!Centred(r13[x]) = r13[x] /\ Identity!Centred(-p) = -p
       /\ Identity!Centred(p - r13[x]) = p - r13[x]
  <2>1. r13[x] \in Int /\ -Q < 2 * r13[x] /\ 2 * r13[x] < Q
    BY <1>6, Size
  <2>2. -p \in Int /\ -Q < 2 * (-p) /\ 2 * (-p) < Q
    BY <1>5, Size
  <2>3. p - r13[x] \in Int /\ -Q < 2 * (p - r13[x]) /\ 2 * (p - r13[x]) < Q
    BY <1>3, <1>6
  <2> QED BY <2>1, <2>2, <2>3, CentredIs
<1>17. r12[x] + (-r12[x]) + 0 = 0 /\ r13[x] + (-p) + (p - r13[x]) = 0
  BY <1>5, <1>6
<1>18. RowProduct(row, basis1, x) = 0 /\ RowProduct(row, basis2, x) = 0
  BY <1>14, <1>17
<1>19. Identity!RowTimes(row, basis1)[x] = 0
  BY <1>11, <1>12, <1>15, <1>17
<1>20. Identity!RowTimes(row, basis2)[x] = 0
  BY <1>11, <1>13, <1>16, <1>17
<1> QED BY <1>2, <1>8, <1>18, <1>19, <1>20

(* What KernelExact says, once the authority is made.                      *)
LEMMA BasisInKernel ==
  ASSUME Authorised
  PROVE  \A b \in {authority.basis1, authority.basis2} :
           /\ Identity!Congruent(Identity!Image(b), Identity!Zero)
           /\ Identity!RowTimes(authority.a_row, b) = Identity!Zero
<1>1. PICK r12 \in Noise, r13 \in Noise, r23 \in Noise :
        authority = Identity!Authority(r12, r13, r23)
  BY DEF Authorised
<1>2. r12 \in Short /\ r13 \in Short /\ r23 \in Short
  BY <1>1, ShortType
<1>3. SUFFICES ASSUME NEW b \in {authority.basis1, authority.basis2}
               PROVE  /\ Identity!Congruent(Identity!Image(b), Identity!Zero)
                      /\ Identity!RowTimes(authority.a_row, b) = Identity!Zero
  OBVIOUS
<1>4. ASSUME NEW x \in Identity!Coeffs
      PROVE  /\ authority.a_row \in Vectors /\ b \in Vectors
             /\ RowProduct(authority.a_row, b, x) = 0
             /\ Identity!RowTimes(authority.a_row, b)[x] = 0
  <2>1. LET row == authority.a_row
        IN  /\ row \in Vectors /\ authority.basis1 \in Vectors /\ authority.basis2 \in Vectors
            /\ RowProduct(row, authority.basis1, x) = 0
            /\ Identity!RowTimes(row, authority.basis1)[x] = 0
            /\ RowProduct(row, authority.basis2, x) = 0
            /\ Identity!RowTimes(row, authority.basis2)[x] = 0
    BY <1>1, <1>2, BasisVanishes
  <2>2. CASE b = authority.basis1
    BY <2>1, <2>2
  <2>3. CASE b = authority.basis2
    BY <2>1, <2>3
  <2> QED BY <1>3, <2>2, <2>3
<1>5. Identity!RowTimes(authority.a_row, b) = Identity!Zero
  <2>1. Identity!RowTimes(authority.a_row, b)
          = [x \in Identity!Coeffs |-> Identity!RowTimes(authority.a_row, b)[x]]
    BY DEF Identity!RowTimes, Identity!Add
  <2> QED BY <1>4, <2>1 DEF Identity!Zero
<1>6. ASSUME NEW x \in Identity!Coeffs
      PROVE  (Identity!Image(b)[x] - Identity!Zero[x]) % Q = 0
  <2> DEFINE y == Identity!Image(b)[x]
  <2>1. y \in Int /\ Multiple(y - RowProduct(authority.a_row, b, x))
    BY <1>4, RowsAgree
  <2>2. RowProduct(authority.a_row, b, x) = 0 /\ Identity!Zero[x] = 0
    BY <1>4, Units
  <2> HIDE DEF y
  <2>3. y - RowProduct(authority.a_row, b, x) = y /\ y - Identity!Zero[x] = y
    BY <2>1, <2>2
  <2>4. y % Q = 0
    BY <2>1, <2>3, ModMultiple
  <2> QED BY <2>3, <2>4 DEF y
<1> QED BY <1>5, <1>6 DEF Identity!Congruent

-----------------------------------------------------------------------------
(* Encoded identities: in C and C++ congruent only when the identities are *)
(* the same; in Rust they are all 0.                                       *)
LEMMA EncodedByte ==
  ASSUME NEW name \in Ids
  PROVE  \E m, k \in Nat \ {0} :
           /\ N = m * k /\ DOMAIN name = 0..(m - 1)
           /\ \A other \in Ids : other \in [0..(m - 1) -> 0..(Byte - 1)]
           /\ \A other \in Ids :
                Identity!EncodeIdentity(other)
                  = [x \in Identity!Coeffs |->
                       IF x % k = 0 THEN other[x \div k] % (IF lang = "Rust" THEN Q % Byte ELSE Q)
                                    ELSE 0]
<1>1. PICK m \in 1..N : N % m = 0 /\ Ids \subseteq [0..(m - 1) -> 0..(Byte - 1)]
  BY RingOfThisSize DEF Identity!TrapdoorAssumption
<1> DEFINE k == N \div m
<1>2. m \in Nat \ {0} /\ k \in Nat /\ N = k * m
  <2>1. m \in Nat \ {0} /\ N \in Nat
    BY Size
  <2>2. k \in Nat /\ N = k * m + (N % m)
    BY <2>1, DivMod
  <2> HIDE DEF k
  <2> QED BY <1>1, <2>1, <2>2
<1>3. k # 0 /\ N = m * k
  <2> HIDE DEF k
  <2> QED BY <1>2, Size
<1>4. ASSUME NEW other \in Ids
      PROVE  /\ other \in [0..(m - 1) -> 0..(Byte - 1)]
             /\ (CHOOSE count \in 1..N : DOMAIN other = 0..(count - 1)) = m
  <2>1. other \in [0..(m - 1) -> 0..(Byte - 1)]
    BY <1>1
  <2> DEFINE count == CHOOSE n1 \in 1..N : DOMAIN other = 0..(n1 - 1)
  <2>2. DOMAIN other = 0..(m - 1)
    BY <2>1
  <2>3. count \in 1..N /\ DOMAIN other = 0..(count - 1)
    BY <1>1, <2>2
  <2> HIDE DEF count
  <2>4. count = m
    <3>1. count \in Nat /\ m \in Nat /\ count >= 1 /\ m >= 1 /\ 0..(count - 1) = 0..(m - 1)
      BY <2>2, <2>3, <1>1
    <3>2. count - 1 \in 0..(m - 1) /\ m - 1 \in 0..(count - 1)
      BY <3>1
    <3> QED BY <3>1, <3>2
  <2> QED BY <2>1, <2>4 DEF count
<1>5. ASSUME NEW other \in Ids
      PROVE  Identity!EncodeIdentity(other)
               = [x \in Identity!Coeffs |->
                    IF x % k = 0 THEN other[x \div k] % (IF lang = "Rust" THEN Q % Byte ELSE Q)
                                 ELSE 0]
  <2> DEFINE count == CHOOSE n1 \in 1..N : DOMAIN other = 0..(n1 - 1)
  <2>1. Identity!EncodeIdentity(other)
          = [x \in Identity!Coeffs |->
               IF x % (N \div count) = 0
               THEN other[x \div (N \div count)] % (IF lang = "Rust" THEN Q % Byte ELSE Q)
               ELSE 0]
    BY Zenon DEF Identity!EncodeIdentity
  <2>2. count = m
    BY <1>4
  <2> HIDE DEF count
  <2>3. N \div count = k
    BY <2>2
  <2> QED BY <2>1, <2>3
<1>6. DOMAIN name = 0..(m - 1)
  BY <1>4
<1> QED BY <1>2, <1>3, <1>4, <1>5, <1>6

(* What two encodings tell of the identities.                              *)
LEMMA EncodingDecides ==
  ASSUME NEW a \in Ids, NEW b \in Ids
  PROVE  /\ Identity!EncodeIdentity(a) \in [Identity!Coeffs -> Int]
         /\ Identity!EncodeIdentity(b) \in [Identity!Coeffs -> Int]
         /\ lang # "Rust" =>
              ((\A x \in Identity!Coeffs :
                  Multiple(Identity!EncodeIdentity(a)[x] - Identity!EncodeIdentity(b)[x]))
                 => a = b)
<1> DEFINE modulus == IF lang = "Rust" THEN Q % Byte ELSE Q
<1>1. PICK m \in Nat \ {0}, k \in Nat \ {0} :
        /\ N = m * k /\ DOMAIN a = 0..(m - 1)
        /\ \A other \in Ids : other \in [0..(m - 1) -> 0..(Byte - 1)]
        /\ \A other \in Ids :
             Identity!EncodeIdentity(other)
               = [x \in Identity!Coeffs |-> IF x % k = 0 THEN other[x \div k] % modulus ELSE 0]
  BY EncodedByte
<1>2. modulus \in Nat \ {0}
  BY Size
<1>3. ASSUME NEW x \in Identity!Coeffs PROVE x \div k \in 0..(m - 1)
  <2>1. x \in Nat /\ x < N
    BY Size
  <2>2. x \div k \in Nat /\ x % k \in 0..(k - 1) /\ x = (x \div k) * k + (x % k)
    BY <2>1, DivMod
  <2> DEFINE y == x \div k
             w == x % k
  <2> HIDE DEF y, w
  <2>3. y \in Nat /\ w \in Nat /\ x = y * k + w
    BY <2>2 DEF y, w
  <2>4. y * k < m * k
    <3>1. N = m * k /\ x < N /\ m * k \in Nat /\ y * k \in Nat
      BY <1>1, <2>1, <2>3
    <3> QED BY <2>3, <3>1
  <2>5. y < m
    <3>1. SUFFICES ASSUME y >= m PROVE FALSE
      BY <2>3
    <3>2. y * k >= m * k
      BY <2>3, <3>1
    <3> QED BY <2>3, <2>4, <3>2
  <2>6. y \in 0..(m - 1)
    BY <2>3, <2>5
  <2> QED BY <2>6 DEF y
<1>4. ASSUME NEW other \in Ids
      PROVE  Identity!EncodeIdentity(other) \in [Identity!Coeffs -> Int]
  <2>1. ASSUME NEW x \in Identity!Coeffs PROVE other[x \div k] % modulus \in Int
    <3>1. other[x \div k] \in 0..(Byte - 1)
      BY <1>1, <1>3
    <3> QED BY <1>2, <3>1, Size
  <2>2. Identity!EncodeIdentity(other)
          = [x \in Identity!Coeffs |-> IF x % k = 0 THEN other[x \div k] % modulus ELSE 0]
    BY <1>1
  <2> HIDE DEF modulus
  <2> QED BY <2>1, <2>2
<1>5. ASSUME lang # "Rust",
             \A x \in Identity!Coeffs :
               Multiple(Identity!EncodeIdentity(a)[x] - Identity!EncodeIdentity(b)[x])
      PROVE  a = b
  <2>1. modulus = Q
    BY <1>5
  <2>2. ASSUME NEW j \in 0..(m - 1) PROVE a[j] = b[j]
    <3> DEFINE x == j * k
    <3>1. x \in Identity!Coeffs /\ x \in Nat
      <4>1. j \in Nat /\ j + 1 <= m
        OBVIOUS
      <4>2. (j + 1) * k <= m * k /\ (j + 1) * k = j * k + k /\ j * k \in Nat
        BY <4>1
      <4>3. j * k + k <= N
        BY <1>1, <4>2
      <4> QED BY <4>2, <4>3, Size
    <3>2. x % k = 0 /\ x \div k = j
      <4>1. x \div k \in Nat /\ x % k \in 0..(k - 1) /\ x = (x \div k) * k + (x % k)
        BY <3>1, DivMod
      <4> DEFINE y == x \div k
                 w == x % k
      <4> HIDE DEF y, w
      <4>2. y \in Nat /\ w \in Nat /\ w < k /\ j * k = y * k + w /\ j \in Nat
        BY <4>1 DEF y, w
      <4>3. y = j
        <5>1. CASE y < j
          <6>1. (y + 1) * k <= j * k /\ (y + 1) * k = y * k + k
            BY <4>2, <5>1
          <6> QED BY <4>2, <6>1
        <5>2. CASE y > j
          <6>1. (j + 1) * k <= y * k /\ (j + 1) * k = j * k + k
            BY <4>2, <5>2
          <6> QED BY <4>2, <6>1
        <5> QED BY <4>2, <5>1, <5>2
      <4>4. w = 0
        BY <4>2, <4>3
      <4> QED BY <4>3, <4>4 DEF y, w
    <3>3. /\ Identity!EncodeIdentity(a)[x] = a[j] % Q
          /\ Identity!EncodeIdentity(b)[x] = b[j] % Q
      <4> HIDE DEF x, modulus
      <4> QED BY <1>1, <2>1, <3>1, <3>2
    <3>4. a[j] \in 0..(Byte - 1) /\ b[j] \in 0..(Byte - 1)
      BY <1>1
    <3>5. /\ a[j] \in Int /\ 0 <= a[j] /\ a[j] < Q /\ a[j] % Q = a[j]
          /\ b[j] \in Int /\ 0 <= b[j] /\ b[j] < Q /\ b[j] % Q = b[j]
      <4>1. ASSUME NEW y \in 0..(Byte - 1)
            PROVE  y \in Int /\ 0 <= y /\ y < Q /\ y % Q = y
        <5>1. y \in Nat /\ y < Q
          BY Size
        <5>2. y % Q \in Int /\ Multiple(y - (y % Q)) /\ 0 <= y % Q /\ y % Q < Q
          BY <5>1, ModMultiple
        <5> DEFINE w == y % Q
        <5> HIDE DEF w
        <5>4. w \in Int /\ Multiple(y - w) /\ 0 <= w /\ w < Q
          BY <5>2 DEF w
        <5>5. y - w \in Int /\ -Q < y - w /\ y - w < Q
          BY <5>1, <5>4, Size
        <5>6. y - w = 0
          BY <5>4, <5>5, MultipleSmall
        <5>7. w = y
          BY <5>1, <5>4, <5>6
        <5> QED BY <5>1, <5>7 DEF w
      <4> QED BY <3>4, <4>1
    <3>6. Multiple(a[j] - b[j])
      <4>1. Multiple(Identity!EncodeIdentity(a)[x] - Identity!EncodeIdentity(b)[x])
        BY <1>5, <3>1
      <4> HIDE DEF x
      <4> QED BY <3>3, <3>5, <4>1
    <3>7. a[j] - b[j] = 0
      <4>1. a[j] - b[j] \in Int /\ -Q < a[j] - b[j] /\ a[j] - b[j] < Q
        <5>1. \A y, z \in Int : 0 <= y /\ y < Q /\ 0 <= z /\ z < Q
                                => y - z \in Int /\ -Q < y - z /\ y - z < Q
          BY Size
        <5> QED BY <3>5, <5>1
      <4> QED BY <3>6, <4>1, MultipleSmall
    <3> QED BY <3>5, <3>7
  <2>3. a \in [0..(m - 1) -> 0..(Byte - 1)] /\ b \in [0..(m - 1) -> 0..(Byte - 1)]
    BY <1>1
  <2> QED BY <2>2, <2>3
<1> QED BY <1>4, <1>5

-----------------------------------------------------------------------------
(* What the three functions leave behind.                                  *)
Committed ==
  /\ \E t0, t1, t2 \in Noise : t = Identity!Vector(t0, t1, t2)
  /\ commit.u = Identity!Add(Identity!RowTimes(authority.a_row, t), Identity!EncodeIdentity(id))
  /\ commit.t_commitment = << "t", t >>
  /\ commit.challenge = Identity!Challenge(<< "t", t >>, id)

Answered ==
  /\ target = Identity!Minus(commit.u, Identity!EncodeIdentity(claimed))
  /\ result = IF Identity!Challenge(commit.t_commitment, claimed) = commit.challenge
              THEN "ok" ELSE "err"

IdentityInv ==
  /\ stage \in {"start", "authority", "committed", "traced"}
  /\ id \in Ids /\ claimed \in Ids
  /\ stage # "start" => Authorised
  /\ stage \in {"committed", "traced"} => Committed
  /\ stage = "traced" => Answered

(* The invariant holds in the initial states.                              *)
LEMMA IdentityStarts == ASSUME Identity!Init PROVE IdentityInv
BY DEF Identity!Init, IdentityInv

(* And each of the three functions keeps it.                               *)
LEMMA IdentityKept ==
  ASSUME IdentityInv, Identity!Next
  PROVE  IdentityInv'
<1>1. CASE Identity!GenerateAuthority
  <2>1. Authorised'
    BY <1>1 DEF Identity!GenerateAuthority, Authorised, Identity!Authority, Identity!Vector,
                Identity!Add, Identity!Negate, Identity!Schoolbook, Identity!One, Identity!Zero
  <2>2. stage' = "authority" /\ id' = id /\ claimed' = claimed
    BY <1>1 DEF Identity!GenerateAuthority
  <2> QED BY <2>1, <2>2 DEF IdentityInv
<1>2. CASE Identity!CommitIdentity
  <2>1. /\ stage = "authority" /\ stage' = "committed" /\ id' = id /\ claimed' = claimed
        /\ authority' = authority /\ lang' = lang
    BY <1>2 DEF Identity!CommitIdentity
  <2>2. Authorised'
    BY <2>1 DEF IdentityInv, Authorised
  <2>3. Committed'
    <3>1. PICK t0 \in Noise, t1 \in Noise, t2 \in Noise : t' = Identity!Vector(t0, t1, t2)
      BY <1>2 DEF Identity!CommitIdentity
    <3>2. commit' = [u |-> Identity!Add(Identity!RowTimes(authority.a_row, t'),
                                        Identity!EncodeIdentity(id)),
                     t_commitment |-> << "t", t' >>,
                     challenge |-> Identity!Challenge(<< "t", t' >>, id)]
      BY <1>2 DEF Identity!CommitIdentity
    <3>3. (Identity!EncodeIdentity(id))' = Identity!EncodeIdentity(id)
      BY <2>1 DEF Identity!EncodeIdentity
    <3> QED BY <2>1, <3>1, <3>2, <3>3 DEF Committed
  <2> QED BY <2>1, <2>2, <2>3 DEF IdentityInv
<1>3. CASE Identity!VerifyAndTrace
  <2>1. /\ stage = "committed" /\ stage' = "traced" /\ id' = id /\ claimed' \in Ids
        /\ authority' = authority /\ lang' = lang /\ t' = t /\ commit' = commit
    BY <1>3 DEF Identity!VerifyAndTrace
  <2>2. Authorised' /\ Committed'
    <3>1. (Identity!EncodeIdentity(id))' = Identity!EncodeIdentity(id)
      BY <2>1 DEF Identity!EncodeIdentity
    <3> QED BY <2>1, <3>1 DEF IdentityInv, Authorised, Committed
  <2>3. Answered'
    <3>1. /\ target' = Identity!Minus(commit.u, Identity!EncodeIdentity(claimed'))
          /\ result' = IF Identity!Challenge(commit.t_commitment, claimed') = commit.challenge
                       THEN "ok" ELSE "err"
      BY <1>3 DEF Identity!VerifyAndTrace
    <3>2. (Identity!Minus(commit.u, Identity!EncodeIdentity(claimed)))'
            = Identity!Minus(commit.u, Identity!EncodeIdentity(claimed'))
      BY <2>1 DEF Identity!EncodeIdentity, Identity!Minus
    <3> QED BY <2>1, <3>1, <3>2 DEF Answered
  <2> QED BY <2>1, <2>2, <2>3 DEF IdentityInv
<1> QED BY <1>1, <1>2, <1>3 DEF Identity!Next

(* The row of the authority and t are vectors of polynomials.              *)
LEMMA RowAndT ==
  ASSUME Authorised, Committed
  PROVE  authority.a_row \in Vectors /\ t \in Vectors
<1>1. authority.a_row \in Vectors
  <2>1. PICK r12 \in Noise, r13 \in Noise, r23 \in Noise :
          authority = Identity!Authority(r12, r13, r23)
    BY DEF Authorised
  <2>2. r12 \in Short /\ r13 \in Short /\ r23 \in Short /\ 0 \in Identity!Coeffs
    BY <2>1, ShortType, Units
  <2> QED BY <2>1, <2>2, BasisVanishes
<1>2. t \in Vectors
  <2>1. PICK t0 \in Noise, t1 \in Noise, t2 \in Noise : t = Identity!Vector(t0, t1, t2)
    BY DEF Committed
  <2>2. /\ t0 \in [Identity!Coeffs -> Int] /\ t1 \in [Identity!Coeffs -> Int]
        /\ t2 \in [Identity!Coeffs -> Int]
    BY <2>1, ShortType
  <2> QED BY <2>1, <2>2, VectorType
<1> QED BY <1>1, <1>2

(* With target - image = d in one coefficient.                             *)
LEMMA Remains ==
  ASSUME Authorised, Committed, Answered, id \in Ids, claimed \in Ids, lang # "Rust",
         NEW x \in Identity!Coeffs
  PROVE  (target[x] - Identity!Image(t)[x]) % Q = 0
           <=> Multiple(Identity!EncodeIdentity(id)[x] - Identity!EncodeIdentity(claimed)[x])
<1> DEFINE row == Identity!RowTimes(authority.a_row, t)[x]
           i == Identity!Image(t)[x]
           p == RowProduct(authority.a_row, t, x)
           e == Identity!EncodeIdentity(id)[x]
           f == Identity!EncodeIdentity(claimed)[x]
           r == row - i
           g == e - f
           d == target[x] - i
<1>1. row \in Int /\ i \in Int /\ p \in Int /\ Multiple(row - p) /\ Multiple(i - p)
  BY RowAndT, RowsAgree
<1>2. e \in Int /\ f \in Int
  BY EncodingDecides
<1>3. commit.u[x] = row + e
  BY DEF Committed, Identity!Add
<1>4. target[x] = commit.u[x] + (-f)
  BY DEF Answered, Identity!Minus, Identity!Add, Identity!Negate
<1> HIDE DEF row, i, p, e, f
<1>5. Multiple(r) /\ r \in Int /\ g \in Int
  <2>1. Multiple((row - p) - (i - p)) /\ (row - p) - (i - p) = r
    BY <1>1, MultipleSum
  <2> QED BY <1>1, <1>2, <2>1
<1>6. d = r + g /\ d \in Int
  BY <1>1, <1>2, <1>3, <1>4
<1> HIDE DEF r, g, d
<1>7. ASSUME Multiple(g) PROVE Multiple(d)
  BY <1>5, <1>6, <1>7, MultipleSum
<1>8. ASSUME Multiple(d) PROVE Multiple(g)
  <2>1. Multiple(d - r) /\ d - r = g
    BY <1>5, <1>6, <1>8, MultipleSum
  <2> QED BY <2>1
<1>9. d % Q = 0 <=> Multiple(d)
  BY <1>6, ModMultiple
<1> QED BY <1>7, <1>8, <1>9 DEF d, g, e, f, i

(* What AnswerIsTheAlgebra says, from the invariant.                       *)
LEMMA AnswerFollows ==
  ASSUME IdentityInv
  PROVE  Identity!AnswerIsTheAlgebra
<1>1. SUFFICES ASSUME stage = "traced"
      PROVE  /\ result = "ok" <=> claimed = id
             /\ lang # "Rust" => (result = "ok" <=> Identity!Congruent(target, Identity!Image(t)))
  BY DEF Identity!AnswerIsTheAlgebra
<1>2. Authorised /\ Committed /\ Answered /\ id \in Ids /\ claimed \in Ids
  BY <1>1 DEF IdentityInv
<1>3. result = "ok" <=> claimed = id
  BY <1>2 DEF Committed, Answered, Identity!Challenge
<1>4. SUFFICES ASSUME lang # "Rust"
      PROVE  Identity!Congruent(target, Identity!Image(t)) <=> claimed = id
  BY <1>3
<1>5. Identity!Congruent(target, Identity!Image(t))
        <=> \A x \in Identity!Coeffs :
              Multiple(Identity!EncodeIdentity(id)[x] - Identity!EncodeIdentity(claimed)[x])
  <2>1. \A x \in Identity!Coeffs :
          (target[x] - Identity!Image(t)[x]) % Q = 0
            <=> Multiple(Identity!EncodeIdentity(id)[x] - Identity!EncodeIdentity(claimed)[x])
    BY <1>2, <1>4, Remains
  <2> QED BY <2>1 DEF Identity!Congruent
<1>6. \A x \in Identity!Coeffs : Identity!EncodeIdentity(id)[x] \in Int
  BY <1>2, EncodingDecides
<1>7. ASSUME claimed = id
      PROVE  Identity!Congruent(target, Identity!Image(t))
  <2>1. ASSUME NEW x \in Identity!Coeffs
        PROVE  Multiple(Identity!EncodeIdentity(id)[x] - Identity!EncodeIdentity(claimed)[x])
    <3>1. Identity!EncodeIdentity(id)[x] - Identity!EncodeIdentity(claimed)[x] = 0
      BY <1>6, <1>7
    <3> QED BY <3>1, MultipleQ
  <2> QED BY <1>5, <2>1
<1>8. Identity!Congruent(target, Identity!Image(t)) => claimed = id
  BY <1>2, <1>4, <1>5, EncodingDecides
<1> QED BY <1>7, <1>8

(* The invariant on the part of a behaviour that commits to an identity.   *)
IdentityPart == part = "identity" => IdentityInv

(* It is an invariant of every behaviour of MCCommitments.                 *)
LEMMA IdentityAlways == MCSpec => []IdentityPart
<1>1. ASSUME MCInit PROVE IdentityPart
  BY <1>1, IdentityStarts DEF MCInit, IdentityPart
<1>2. ASSUME IdentityPart, [MCNext]_all PROVE IdentityPart'
  <2>1. CASE MCNext
    <3>1. CASE part = "identity" /\ Identity!Next /\ part' = part
      BY <1>2, <3>1, IdentityKept DEF IdentityPart
    <3>2. CASE part # "identity" /\ part' = part
      BY <3>2 DEF IdentityPart
    <3> QED BY <2>1, <3>1, <3>2 DEF MCNext
  <2>2. CASE UNCHANGED all
    <3>1. /\ part' = part /\ stage' = stage /\ authority' = authority /\ t' = t /\ id' = id
          /\ commit' = commit /\ claimed' = claimed /\ target' = target /\ result' = result
          /\ lang' = lang
      BY <2>2 DEF all, identityVars
    <3>2. (Identity!EncodeIdentity(id))' = Identity!EncodeIdentity(id)
      BY <3>1 DEF Identity!EncodeIdentity
    <3>3. (Identity!Minus(commit.u, Identity!EncodeIdentity(claimed)))'
            = Identity!Minus(commit.u, Identity!EncodeIdentity(claimed))
      BY <3>1 DEF Identity!EncodeIdentity, Identity!Minus
    <3> QED BY <1>2, <3>1, <3>2, <3>3 DEF IdentityPart, IdentityInv, Authorised, Committed, Answered
  <2> QED BY <1>2, <2>1, <2>2
<1> QED BY <1>1, <1>2, PTL DEF MCSpec

(* generate_trapdoor_authority keeps what its comments promise for every   *)
(* degree, modulus and noise: both vectors of the basis are in the kernel  *)
(* of the row, and the sums of the code are 0 without a reduction.         *)
THEOREM BasisInKernelAlways == MCSpec => []KernelExact
<1>1. ASSUME IdentityPart PROVE KernelExact
  BY <1>1, BasisInKernel DEF IdentityPart, IdentityInv, KernelExact, Identity!KernelExact
<1> QED BY <1>1, IdentityAlways, PTL

(* authority_verify_and_trace accepts the committed identity and no other; *)
(* what it leaves of u is A . t exactly then in C and C++.                 *)
THEOREM AnswersAreTheAlgebra == MCSpec => []AnswerIsTheAlgebra
<1>1. ASSUME IdentityPart PROVE AnswerIsTheAlgebra
  BY <1>1, AnswerFollows DEF IdentityPart, AnswerIsTheAlgebra
<1> QED BY <1>1, IdentityAlways, PTL

=============================================================================
