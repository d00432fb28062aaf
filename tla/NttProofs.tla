----------------------------- MODULE NttProofs ------------------------------
(***************************************************************************)
(* Proofs about ShuffledNTT: for every ring size, every number of threads  *)
(* and every set of seeds and key schedules, the loops keep their types,   *)
(* use the root of the block they are in, and apply every butterfly of a   *)
(* block exactly once to the array as it was before the block; so they     *)
(* implement the transforms of OrderedNTT, which know neither seed nor     *)
(* order, and no sum of theirs leaves the range of 16 bits.  And modulo Q  *)
(* they compute what they are meant to: td18_ntt the residues of its input *)
(* modulo the factors of X^N + 1, and td18_invntt, after the products of   *)
(* the residues, the product of two polynomials modulo X^N + 1.            *)
(***************************************************************************)
EXTENDS ShuffledNTT, TLAPS, WellFoundedInduction

-----------------------------------------------------------------------------
(* The Feistel network permutes the indices of a block, whatever the four  *)
(* round keys are: every round can be undone, because it only xors one     *)
(* part with a function of the other.  The powers of two are known by      *)
(* their recurrence alone, so the facts about them are proved by looking   *)
(* at the least number at which they would fail.                           *)

(* Every nonempty set of natural numbers has a least element.              *)
LEMMA LeastNatural ==
  ASSUME NEW T \in SUBSET Nat, T # {}
  PROVE  \E n \in T : \A m \in T : n <= m
<1> DEFINE R == OpToRel(<, Nat)
<1>1. IsWellFoundedOn(R, Nat)
  BY NatLessThanWellFounded
<1>2. \A x, y \in Nat : y < x => << y, x >> \in R
  BY DEF OpToRel
<1> HIDE DEF R
<1>3. PICK x \in T : \A y \in T : ~ (<< y, x >> \in R)
  BY <1>1, WFMin
<1>4. ASSUME NEW y \in T PROVE x <= y
  <2>1. x \in Nat /\ y \in Nat
    OBVIOUS
  <2>2. ~ (<< y, x >> \in R)
    BY <1>3
  <2>3. ~ (y < x)
    BY <1>2, <2>1, <2>2, Zenon
  <2> QED BY <2>1, <2>3
<1> QED BY <1>4

(* Quotient and remainder, and that they are the only ones.                *)
LEMMA DivMod ==
  ASSUME NEW x \in Nat, NEW b \in Nat \ {0}
  PROVE  /\ x \div b \in Nat
         /\ x % b \in 0..(b - 1)
         /\ x = (x \div b) * b + (x % b)
<1>1. x \div b \in Nat
  OBVIOUS
<1>2. x % b \in 0..(b - 1)
  OBVIOUS
<1>3. x = (x \div b) * b + (x % b)
  OBVIOUS
<1> QED BY <1>1, <1>2, <1>3

LEMMA DivModUnique ==
  ASSUME NEW a \in Nat, NEW b \in Nat \ {0}, NEW c \in 0..(b - 1)
  PROVE  /\ (a * b + c) \div b = a
         /\ (a * b + c) % b = c
<1> DEFINE x == a * b + c
           d == x \div b
           m == x % b
<1>1. x \in Nat
  OBVIOUS
<1>2. d \in Nat /\ m \in 0..(b - 1) /\ x = d * b + m
  BY <1>1, DivMod
<1> HIDE DEF d, m
<1>3. CASE d > a
  <2>1. (d - a) * b >= b
    BY <1>2, <1>3
  <2> QED BY <1>2, <2>1
<1>4. CASE d < a
  <2>1. (a - d) * b >= b
    BY <1>2, <1>4
  <2> QED BY <1>2, <2>1
<1>5. d = a
  BY <1>2, <1>3, <1>4
<1>6. m = c
  BY <1>2, <1>5
<1> QED BY <1>5, <1>6 DEF d, m

-----------------------------------------------------------------------------
(* The powers of two are positive, ...                                     *)
LEMMA Pow2Positive ==
  \A i \in 0..MaxBits : Pow2[i] \in Nat \ {0}
<1> DEFINE T == {i \in 0..MaxBits : Pow2[i] = 0}
<1>0. T \in SUBSET Nat
  BY Pow2Assumption
<1>1. \A i \in 0..MaxBits : Pow2[i] \in Nat
  BY Pow2Assumption
<1>2. ASSUME T # {} PROVE FALSE
  <2> HIDE DEF T
  <2>1. PICK n \in T : \A m \in T : n <= m
    BY <1>0, <1>2, LeastNatural
  <2> USE DEF T
  <2>2. n # 0
    BY Pow2Assumption
  <2>3. n \in 1..MaxBits /\ n - 1 \in 0..MaxBits /\ ~ (n <= n - 1)
    BY <2>2, Pow2Assumption
  <2>4. Pow2[n] = 2 * Pow2[n - 1]
    BY <2>3, Pow2Assumption
  <2>5. Pow2[n - 1] = 0
    BY <1>1, <2>3, <2>4
  <2> QED BY <2>1, <2>3, <2>5
<1> QED BY <1>1, <1>2

(* ... multiplicative ...                                                  *)
LEMMA Pow2Sum ==
  ASSUME NEW j \in 0..MaxBits
  PROVE  \A i \in 0..(MaxBits - j) : Pow2[i + j] = Pow2[i] * Pow2[j]
<1> DEFINE T == {i \in 0..(MaxBits - j) : Pow2[i + j] # Pow2[i] * Pow2[j]}
<1>0. T \in SUBSET Nat
  BY Pow2Assumption
<1>1. ASSUME T # {} PROVE FALSE
  <2> HIDE DEF T
  <2>1. PICK n \in T : \A m \in T : n <= m
    BY <1>0, <1>1, LeastNatural
  <2> USE DEF T
  <2>2. n \in 0..(MaxBits - j) /\ Pow2[n + j] # Pow2[n] * Pow2[j]
    OBVIOUS
  <2>3. Pow2[j] \in Nat
    BY Pow2Assumption
  <2>4. n # 0
    BY <2>2, <2>3, Pow2Assumption
  <2>5. /\ n - 1 \in 0..(MaxBits - j) /\ ~ (n <= n - 1)
        /\ n \in 1..MaxBits /\ n + j \in 1..MaxBits /\ n - 1 \in 0..MaxBits
    BY <2>2, <2>4, Pow2Assumption
  <2>6. Pow2[(n - 1) + j] = Pow2[n - 1] * Pow2[j]
    BY <2>1, <2>5
  <2>7. Pow2[n] = 2 * Pow2[n - 1] /\ Pow2[n + j] = 2 * Pow2[(n + j) - 1]
    BY <2>5, Pow2Assumption
  <2>8. (n + j) - 1 = (n - 1) + j
    BY <2>5
  <2>9. Pow2[n - 1] \in Nat
    BY <2>5, Pow2Assumption
  <2>10. Pow2[n + j] = 2 * (Pow2[n - 1] * Pow2[j])
    BY <2>6, <2>7, <2>8
  <2> QED BY <2>2, <2>3, <2>7, <2>9, <2>10
<1> QED BY <1>1

(* ... and increasing.                                                     *)
LEMMA Pow2Monotone ==
  ASSUME NEW i \in 0..MaxBits, NEW j \in i..MaxBits
  PROVE  Pow2[i] <= Pow2[j]
<1>1. j - i \in 0..(MaxBits - i) /\ j - i \in 0..MaxBits /\ (j - i) + i = j
  BY Pow2Assumption
<1>2. Pow2[j] = Pow2[j - i] * Pow2[i]
  BY <1>1, Pow2Sum
<1>3. Pow2[j - i] \in Nat \ {0} /\ Pow2[i] \in Nat \ {0}
  BY <1>1, Pow2Positive
<1> QED BY <1>2, <1>3

-----------------------------------------------------------------------------
(* One round keeps the width of the part it changes and undoes itself.     *)
LEMMA MixInvolution ==
  ASSUME NEW half \in 0..MaxBits, NEW w \in half..MaxBits,
         NEW left \in 0..(Pow2[w] - 1), NEW right \in Nat, NEW key \in Nat
  PROVE  /\ Mix(left, right, key, half) \in 0..(Pow2[w] - 1)
         /\ Mix(Mix(left, right, key, half), right, key, half) = left
<1> DEFINE f == FeistelRound(right, key, half)
<1>1. Pow2[half] \in Nat \ {0} /\ Pow2[w] \in Nat /\ Pow2[half] <= Pow2[w]
  BY Pow2Positive, Pow2Monotone, Pow2Assumption
<1>2. right * key \in Nat
  OBVIOUS
<1>3. (right * key) \div Pow2[half] \in Nat
  BY <1>1, <1>2, DivMod
<1>4. f \in 0..(Pow2[half] - 1)
  BY <1>1, <1>3, DivMod DEF FeistelRound
<1>5. f \in 0..(Pow2[w] - 1)
  BY <1>1, <1>4
<1>6. w \in 0..MaxBits
  BY Pow2Assumption
<1> HIDE DEF f
<1>7. /\ BitXor(left, f) \in 0..(Pow2[w] - 1)
      /\ BitXor(BitXor(left, f), f) = left
  BY <1>5, <1>6, XorAssumption
<1> QED BY <1>7 DEF Mix, f

(* An index of that many bits consists of a left part below A and a right part  *)
(* below B, and rounds keep those bounds.                                  *)
LEMMA Parts ==
  ASSUME NEW width \in 2..MaxBits
  PROVE  /\ Pow2[Half(width)] \in Nat \ {0}
         /\ Pow2[width - Half(width)] \in Nat \ {0}
         /\ Pow2[width] = Pow2[width - Half(width)] * Pow2[Half(width)]
         /\ \A left \in 0..(Pow2[width - Half(width)] - 1), right \in Nat, key \in Nat :
              /\ Mix(left, right, key, Half(width)) \in 0..(Pow2[width - Half(width)] - 1)
              /\ Mix(Mix(left, right, key, Half(width)), right, key, Half(width)) = left
         /\ \A left \in 0..(Pow2[Half(width)] - 1), right \in Nat, key \in Nat :
              /\ Mix(left, right, key, Half(width)) \in 0..(Pow2[Half(width)] - 1)
              /\ Mix(Mix(left, right, key, Half(width)), right, key, Half(width)) = left
<1> DEFINE h == Half(width)
           w == width - h
<1>0. width \in Nat /\ MaxBits \in Nat /\ 2 <= width /\ width <= MaxBits
  BY Pow2Assumption
<1>1. h \in 1..MaxBits /\ w \in h..MaxBits
  BY <1>0 DEF Half
<1> HIDE DEF h
<1>2. /\ h \in 0..MaxBits /\ w \in 0..MaxBits /\ h \in h..MaxBits
      /\ w \in 0..(MaxBits - h) /\ w + h = width
  BY <1>0, <1>1
<1> HIDE DEF w
<1>3. Pow2[h] \in Nat \ {0} /\ Pow2[w] \in Nat \ {0}
  BY <1>2, Pow2Positive
<1>4. Pow2[width] = Pow2[w] * Pow2[h]
  BY <1>2, Pow2Sum
<1>5. \A left \in 0..(Pow2[w] - 1), right \in Nat, key \in Nat :
        /\ Mix(left, right, key, h) \in 0..(Pow2[w] - 1)
        /\ Mix(Mix(left, right, key, h), right, key, h) = left
  BY <1>1, <1>2, MixInvolution
<1>6. \A left \in 0..(Pow2[h] - 1), right \in Nat, key \in Nat :
        /\ Mix(left, right, key, h) \in 0..(Pow2[h] - 1)
        /\ Mix(Mix(left, right, key, h), right, key, h) = left
  BY <1>2, MixInvolution
<1> QED BY <1>3, <1>4, <1>5, <1>6 DEF h, w

LEMMA SplitIndex ==
  ASSUME NEW a \in Nat \ {0}, NEW b \in Nat \ {0}, NEW x \in 0..(a * b - 1)
  PROVE  /\ x \div b \in 0..(a - 1)
         /\ x % b \in 0..(b - 1)
         /\ x = (x \div b) * b + (x % b)
<1> DEFINE d == x \div b
           m == x % b
<1>1. x \in Nat /\ x < a * b
  OBVIOUS
<1>2. d \in Nat /\ m \in 0..(b - 1) /\ x = d * b + m
  BY <1>1, DivMod
<1> HIDE DEF d, m
<1>3. ASSUME d >= a PROVE FALSE
  <2>1. d * b >= a * b
    BY <1>2, <1>3
  <2>2. d * b \in Nat /\ a * b \in Nat
    BY <1>2
  <2> QED BY <1>1, <1>2, <2>1, <2>2
<1>4. d \in 0..(a - 1)
  BY <1>2, <1>3
<1> QED BY <1>2, <1>4 DEF d, m

LEMMA JoinIndex ==
  ASSUME NEW a \in Nat \ {0}, NEW b \in Nat \ {0},
         NEW p \in 0..(a - 1), NEW q \in 0..(b - 1)
  PROVE  p * b + q \in 0..(a * b - 1)
<1>1. p * b + q \in Nat /\ a * b \in Nat
  OBVIOUS
<1>2. (a - 1 - p) * b >= 0
  OBVIOUS
<1>3. (a - 1 - p) * b = a * b - b - p * b
  OBVIOUS
<1>4. p * b \in Nat
  OBVIOUS
<1> QED BY <1>1, <1>2, <1>3, <1>4

-----------------------------------------------------------------------------
(* The network run backwards.                                              *)
FeistelInverse(y, width, keys) ==
  IF width <= 1 THEN y
  ELSE LET half == Half(width)
           q4 == y \div Pow2[half]
           q5 == y % Pow2[half]
           q3 == Mix(q5, q4, keys[4], half)
           q2 == Mix(q4, q3, keys[3], half)
           q1 == Mix(q3, q2, keys[2], half)
           q0 == Mix(q2, q1, keys[1], half)
       IN  q0 * Pow2[half] + q1

(* feistel_permute stays inside the block, and running it backwards gives  *)
(* the index back.                                                         *)
LEMMA FeistelForward ==
  ASSUME NEW width \in 0..MaxBits, NEW keys \in [1..4 -> Nat],
         NEW x \in 0..(Pow2[width] - 1)
  PROVE  /\ FeistelPermute(x, width, keys) \in 0..(Pow2[width] - 1)
         /\ FeistelInverse(FeistelPermute(x, width, keys), width, keys) = x
<1>1. CASE width <= 1
  BY <1>1 DEF FeistelPermute, FeistelInverse
<1>2. CASE width > 1
  <2> DEFINE h == Half(width)
             A == Pow2[width - h]
             B == Pow2[h]
             p0 == x \div B
             p1 == x % B
             p2 == Mix(p0, p1, keys[1], h)
             p3 == Mix(p1, p2, keys[2], h)
             p4 == Mix(p2, p3, keys[3], h)
             p5 == Mix(p3, p4, keys[4], h)
  <2>1. width \in 2..MaxBits
    BY <1>2
  <2>2. A \in Nat \ {0} /\ B \in Nat \ {0}
    BY <2>1, Parts
  <2>n. ~ (width <= 1)
    BY <2>1
  <2>p. Pow2[width] = A * B
    BY <2>1, Parts
  <2>m. /\ \A left \in 0..(A - 1), right \in Nat, key \in Nat :
             /\ Mix(left, right, key, h) \in 0..(A - 1)
             /\ Mix(Mix(left, right, key, h), right, key, h) = left
        /\ \A left \in 0..(B - 1), right \in Nat, key \in Nat :
             /\ Mix(left, right, key, h) \in 0..(B - 1)
             /\ Mix(Mix(left, right, key, h), right, key, h) = left
    BY <2>1, Parts
  <2>k. keys[1] \in Nat /\ keys[2] \in Nat /\ keys[3] \in Nat /\ keys[4] \in Nat
    OBVIOUS
  <2> DEFINE y == p4 * B + p5
  <2>x. FeistelPermute(x, width, keys) = p4 * B + (p5 % B)
    BY <2>n, Zenon DEF FeistelPermute
  <2>y. LET q4 == y \div B
            q5 == y % B
            q3 == Mix(q5, q4, keys[4], h)
            q2 == Mix(q4, q3, keys[3], h)
            q1 == Mix(q3, q2, keys[2], h)
            q0 == Mix(q2, q1, keys[1], h)
        IN  FeistelInverse(y, width, keys) = q0 * B + q1
    <3> HIDE DEF y
    <3> QED BY <2>n, Zenon DEF FeistelInverse
  <2> HIDE DEF h, A, B
  <2>3. p0 \in 0..(A - 1) /\ p1 \in 0..(B - 1)
    BY <2>2, <2>p, SplitIndex
  <2>s. x = p0 * B + p1
    BY <2>2, <2>p, SplitIndex
  <2> HIDE DEF p0, p1
  <2>4. p2 \in 0..(A - 1) /\ Mix(p2, p1, keys[1], h) = p0
    <3>1. p1 \in Nat
      BY <2>2, <2>3
    <3> QED BY <2>3, <2>k, <2>m, <3>1, Zenon
  <2> HIDE DEF p2
  <2>5. p3 \in 0..(B - 1) /\ Mix(p3, p2, keys[2], h) = p1
    BY <2>2, <2>3, <2>4, <2>k, <2>m
  <2> HIDE DEF p3
  <2>6. p4 \in 0..(A - 1) /\ Mix(p4, p3, keys[3], h) = p2
    BY <2>2, <2>4, <2>5, <2>k, <2>m
  <2> HIDE DEF p4
  <2>7. p5 \in 0..(B - 1) /\ Mix(p5, p4, keys[4], h) = p3
    BY <2>2, <2>5, <2>6, <2>k, <2>m
  <2> HIDE DEF p5
  <2>8. y \in 0..(A * B - 1)
    BY <2>2, <2>6, <2>7, JoinIndex
  <2>9. y \div B = p4 /\ y % B = p5
    <3>1. p4 \in Nat
      BY <2>2, <2>6
    <3>2. p5 \in 0..(B - 1)
      BY <2>7
    <3> QED BY <2>2, <3>1, <3>2, DivModUnique
  <2>10. p5 = p5 % B
    BY <2>2, <2>7
  <2> HIDE DEF y
  <2>11. FeistelInverse(y, width, keys) = x
    BY <2>y, <2>9, <2>s, <2>4, <2>5, <2>6, <2>7
  <2> QED BY <2>x, <2>p, <2>8, <2>10, <2>11 DEF y
<1> QED BY <1>1, <1>2

(* Every index of the block is reached from one of the block.              *)
LEMMA FeistelBackward ==
  ASSUME NEW width \in 0..MaxBits, NEW keys \in [1..4 -> Nat],
         NEW y \in 0..(Pow2[width] - 1)
  PROVE  /\ FeistelInverse(y, width, keys) \in 0..(Pow2[width] - 1)
         /\ FeistelPermute(FeistelInverse(y, width, keys), width, keys) = y
<1>1. CASE width <= 1
  BY <1>1 DEF FeistelPermute, FeistelInverse
<1>2. CASE width > 1
  <2> DEFINE h == Half(width)
             A == Pow2[width - h]
             B == Pow2[h]
             q4 == y \div B
             q5 == y % B
             q3 == Mix(q5, q4, keys[4], h)
             q2 == Mix(q4, q3, keys[3], h)
             q1 == Mix(q3, q2, keys[2], h)
             q0 == Mix(q2, q1, keys[1], h)
             x == q0 * B + q1
  <2>1. width \in 2..MaxBits
    BY <1>2
  <2>2. A \in Nat \ {0} /\ B \in Nat \ {0}
    BY <2>1, Parts
  <2>n. ~ (width <= 1)
    BY <2>1
  <2>p. Pow2[width] = A * B
    BY <2>1, Parts
  <2>m. /\ \A left \in 0..(A - 1), right \in Nat, key \in Nat :
             /\ Mix(left, right, key, h) \in 0..(A - 1)
             /\ Mix(Mix(left, right, key, h), right, key, h) = left
        /\ \A left \in 0..(B - 1), right \in Nat, key \in Nat :
             /\ Mix(left, right, key, h) \in 0..(B - 1)
             /\ Mix(Mix(left, right, key, h), right, key, h) = left
    BY <2>1, Parts
  <2>k. keys[1] \in Nat /\ keys[2] \in Nat /\ keys[3] \in Nat /\ keys[4] \in Nat
    OBVIOUS
  <2>x. x = FeistelInverse(y, width, keys)
    BY <2>n, Zenon DEF FeistelInverse
  <2>y. LET p0 == x \div B
            p1 == x % B
            p2 == Mix(p0, p1, keys[1], h)
            p3 == Mix(p1, p2, keys[2], h)
            p4 == Mix(p2, p3, keys[3], h)
            p5 == Mix(p3, p4, keys[4], h)
        IN  FeistelPermute(x, width, keys) = p4 * B + (p5 % B)
    <3> HIDE DEF x
    <3> QED BY <2>n, Zenon DEF FeistelPermute
  <2> HIDE DEF h, A, B
  <2>3. q4 \in 0..(A - 1) /\ q5 \in 0..(B - 1)
    BY <2>2, <2>p, SplitIndex
  <2>s. y = q4 * B + q5
    BY <2>2, <2>p, SplitIndex
  <2> HIDE DEF q4, q5
  <2>4. q3 \in 0..(B - 1) /\ Mix(q3, q4, keys[4], h) = q5
    <3>1. q4 \in Nat
      BY <2>2, <2>3
    <3> QED BY <2>3, <2>k, <2>m, <3>1, Zenon
  <2> HIDE DEF q3
  <2>5. q2 \in 0..(A - 1) /\ Mix(q2, q3, keys[3], h) = q4
    BY <2>2, <2>3, <2>4, <2>k, <2>m
  <2> HIDE DEF q2
  <2>6. q1 \in 0..(B - 1) /\ Mix(q1, q2, keys[2], h) = q3
    BY <2>2, <2>4, <2>5, <2>k, <2>m
  <2> HIDE DEF q1
  <2>7. q0 \in 0..(A - 1) /\ Mix(q0, q1, keys[1], h) = q2
    BY <2>2, <2>5, <2>6, <2>k, <2>m
  <2> HIDE DEF q0
  <2>8. x \in 0..(A * B - 1)
    BY <2>2, <2>6, <2>7, JoinIndex
  <2>9. x \div B = q0 /\ x % B = q1
    <3>1. q0 \in Nat
      BY <2>2, <2>7
    <3>2. q1 \in 0..(B - 1)
      BY <2>6
    <3> QED BY <2>2, <3>1, <3>2, DivModUnique
  <2>10. q5 = q5 % B
    BY <2>2, <2>3
  <2> HIDE DEF x
  <2>11. FeistelPermute(x, width, keys) = y
    BY <2>y, <2>9, <2>s, <2>4, <2>5, <2>6, <2>7, <2>10
  <2> QED BY <2>x, <2>p, <2>8, <2>11
<1> QED BY <1>1, <1>2

(* The order in which the butterflies of a block run is a permutation of   *)
(* the block: no index is repeated and none is left out, for every width,  *)
(* every seed and every key schedule.                                      *)
THEOREM FeistelBijection ==
  ASSUME NEW width \in 0..MaxBits, NEW keys \in [1..4 -> Nat]
  PROVE  /\ \A x \in 0..(Pow2[width] - 1) :
              FeistelPermute(x, width, keys) \in 0..(Pow2[width] - 1)
         /\ \A x1, x2 \in 0..(Pow2[width] - 1) :
              FeistelPermute(x1, width, keys) = FeistelPermute(x2, width, keys) => x1 = x2
         /\ \A y \in 0..(Pow2[width] - 1) :
              \E x \in 0..(Pow2[width] - 1) : FeistelPermute(x, width, keys) = y
<1>1. \A x \in 0..(Pow2[width] - 1) :
        /\ FeistelPermute(x, width, keys) \in 0..(Pow2[width] - 1)
        /\ FeistelInverse(FeistelPermute(x, width, keys), width, keys) = x
  BY FeistelForward
<1>2. \A y \in 0..(Pow2[width] - 1) :
        /\ FeistelInverse(y, width, keys) \in 0..(Pow2[width] - 1)
        /\ FeistelPermute(FeistelInverse(y, width, keys), width, keys) = y
  BY FeistelBackward
<1>3. ASSUME NEW x1 \in 0..(Pow2[width] - 1), NEW x2 \in 0..(Pow2[width] - 1),
             FeistelPermute(x1, width, keys) = FeistelPermute(x2, width, keys)
      PROVE  x1 = x2
  BY <1>1, <1>3
<1> QED BY <1>1, <1>2, <1>3

-----------------------------------------------------------------------------

(* The sizes of a layer with blocks of 2 * Pow2[b] elements.               *)
LEMMA LayerSizes ==
  ASSUME NEW b \in 1..(MaxBits - 1)
  PROVE  /\ Pow2[b] \in Nat /\ Pow2[b] >= 2
         /\ Pow2[MaxBits - 1 - b] \in Nat \ {0}
         /\ RingSize = Pow2[MaxBits - 1 - b] * (2 * Pow2[b])
         /\ 2 * Pow2[MaxBits - 1 - b] <= RingSize \div 2
<1>1. /\ MaxBits \in Nat /\ b \in 1..MaxBits /\ b \in 0..MaxBits /\ b - 1 \in 0..MaxBits
      /\ MaxBits \in 1..MaxBits
      /\ MaxBits - 1 - b \in 0..MaxBits /\ MaxBits - 1 - b \in 0..(MaxBits - b)
      /\ (MaxBits - 1 - b) + b = MaxBits - 1
  BY RingAssumption, Pow2Assumption
<1>2. Pow2[b - 1] \in Nat \ {0} /\ Pow2[b] = 2 * Pow2[b - 1]
  BY <1>1, Pow2Positive, Pow2Assumption
<1>3. Pow2[b] \in Nat /\ Pow2[b] >= 2
  BY <1>2
<1>4. Pow2[MaxBits - 1 - b] \in Nat \ {0}
  BY <1>1, Pow2Positive
<1>5. Pow2[MaxBits - 1] = Pow2[MaxBits - 1 - b] * Pow2[b]
  BY <1>1, Pow2Sum
<1>6. RingSize = 2 * Pow2[MaxBits - 1]
  BY <1>1, Pow2Assumption DEF RingSize
<1> DEFINE m == Pow2[MaxBits - 1 - b]
           l == Pow2[b]
<1> HIDE DEF m, l
<1>7. m \in Nat \ {0} /\ l \in Nat /\ l >= 2 /\ RingSize = 2 * (m * l)
  BY <1>3, <1>4, <1>5, <1>6 DEF m, l
<1>8. RingSize = m * (2 * l)
  BY <1>7
<1>9. m * l \in Nat /\ 2 * m <= m * l
  BY <1>7
<1>10. RingSize \div 2 = m * l
  BY <1>7, <1>9
<1> QED BY <1>3, <1>4, <1>8, <1>9, <1>10 DEF m, l

(* The arithmetic of the butterflies yields integers.                      *)
LEMMA MontgomeryType ==
  \A a \in Int : MontgomeryReduce(a) \in Int
BY DEF MontgomeryReduce, Int16, QINV, Q

LEMMA BarrettType ==
  \A a \in Int : BarrettReduce(a) \in Int
BY DEF BarrettReduce, BarrettV, Int16, Q

LEMMA FqMulType ==
  \A a, b \in Int : FqMul(a, b) \in Int
BY MontgomeryType DEF FqMul

LEMMA ButterflyType ==
  ASSUME NEW a \in Int, NEW b \in Int, NEW z \in Int
  PROVE  /\ NttLo(a, b, z) \in Int /\ NttHi(a, b, z) \in Int
         /\ InvLo(a, b, z) \in Int /\ InvHi(a, b, z) \in Int
<1>1. FqMul(z, b) \in Int
  BY FqMulType
<1>2. Int16(b - a) \in Int /\ Int16(a + b) \in Int
  BY DEF Int16
<1>3. FqMul(z, Int16(b - a)) \in Int
  BY <1>2, FqMulType
<1>4. NttLo(a, b, z) \in Int /\ NttHi(a, b, z) \in Int
  BY <1>1 DEF NttLo, NttHi, Int16
<1>5. InvLo(a, b, z) \in Int
  BY <1>2, BarrettType DEF InvLo
<1> QED BY <1>3, <1>4, <1>5 DEF InvHi

(* What a whole block does, element by element.                            *)
LEMMA BlockType ==
  ASSUME NEW f \in [Indices -> Int], NEW z \in Int, NEW len \in Nat, NEW st \in Nat,
         st + 2 * len <= RingSize
  PROVE  /\ NttBlockAt(f, st, len, z) \in [Indices -> Int]
         /\ InvBlockAt(f, st, len, z) \in [Indices -> Int]
<1>1. RingSize \in Nat
  BY RingAssumption, Pow2Assumption DEF RingSize
<1>2. ASSUME NEW i \in Indices
      PROVE  /\ NttBlockAt(f, st, len, z)[i] \in Int
             /\ InvBlockAt(f, st, len, z)[i] \in Int
  <2>1. CASE i \in st..(st + len - 1)
    <3>1. i + len \in Indices /\ f[i] \in Int
      BY <1>1, <2>1 DEF Indices
    <3>2. f[i + len] \in Int
      BY <3>1
    <3> QED BY <2>1, <3>1, <3>2, ButterflyType DEF NttBlockAt, InvBlockAt
  <2>2. CASE i \in (st + len)..(st + 2 * len - 1)
    <3>1. i - len \in Indices /\ f[i] \in Int /\ i \notin st..(st + len - 1)
      BY <1>1, <2>2 DEF Indices
    <3>2. f[i - len] \in Int
      BY <3>1
    <3> QED BY <2>2, <3>1, <3>2, ButterflyType DEF NttBlockAt, InvBlockAt
  <2>3. CASE i \notin st..(st + len - 1) /\ i \notin (st + len)..(st + 2 * len - 1)
    BY <2>3 DEF NttBlockAt, InvBlockAt
  <2> QED BY <2>1, <2>2, <2>3
<1> QED BY <1>2 DEF NttBlockAt, InvBlockAt

-----------------------------------------------------------------------------
OneMoreStep(f, whole, len, st, V, x) ==
  LET g == Applied(whole, f, V, st, len)
      j == st + x
  IN  /\ j \in Indices /\ j + len \in Indices
      /\ g \in [Indices -> Int]
      /\ g[j] = f[j] /\ g[j + len] = f[j + len]
      /\ Butterfly(g, j, len, whole[j], whole[j + len])
           = Applied(whole, f, V \cup {x}, st, len)

(* A butterfly at a slot that was not visited reads what was there before  *)
(* the block, and leaves the array with one more slot visited.             *)
LEMMA OneMore ==
  ASSUME NEW f \in [Indices -> Int], NEW whole \in [Indices -> Int],
         NEW len \in Nat, NEW st \in Nat, st + 2 * len <= RingSize,
         NEW V \in SUBSET (0..(len - 1)), NEW x \in 0..(len - 1), x \notin V
  PROVE  OneMoreStep(f, whole, len, st, V, x)
<1> DEFINE g == Applied(whole, f, V, st, len)
           j == st + x
           h == Butterfly(g, j, len, whole[j], whole[j + len])
<1>1. RingSize \in Nat
  BY RingAssumption, Pow2Assumption DEF RingSize
<1>2. j \in Indices /\ j + len \in Indices
  BY <1>1 DEF Indices
<1>3. g \in [Indices -> Int]
  BY DEF Applied
<1>4. j - st = x /\ j - st - len \notin V /\ j + len - st \notin V /\ j + len - st - len = x
  OBVIOUS
<1>5. g[j] = f[j] /\ g[j + len] = f[j + len]
  BY <1>2, <1>4 DEF Applied
<1>6. ASSUME NEW i \in Indices
      PROVE  h[i] = Applied(whole, f, V \cup {x}, st, len)[i]
  <2>0. h[i] = IF i = j + len THEN whole[j + len] ELSE IF i = j THEN whole[j] ELSE g[i]
    BY <1>2, <1>3 DEF Butterfly
  <2>1. CASE i = j \/ i = j + len
    <3>1. i - st = x \/ i - st - len = x
      BY <2>1, <1>4
    <3>2. Applied(whole, f, V \cup {x}, st, len)[i] = whole[i]
      BY <3>1 DEF Applied
    <3> QED BY <2>0, <2>1, <3>2
  <2>2. CASE i # j /\ i # j + len
    <3>1. i - st # x /\ i - st - len # x
      BY <2>2, <1>1 DEF Indices
    <3> QED BY <2>0, <2>2, <3>1 DEF Applied
  <2> QED BY <2>1, <2>2
<1>7. h \in [Indices -> Int] /\ DOMAIN h = Indices
  BY <1>2, <1>3 DEF Butterfly
<1>8. h = Applied(whole, f, V \cup {x}, st, len)
  BY <1>6, <1>7 DEF Applied
<1> QED BY <1>2, <1>3, <1>5, <1>8 DEF OneMoreStep

(* Nothing is visited when a block begins ...                              *)
LEMMA NoneVisited ==
  ASSUME NEW f \in [Indices -> Int], NEW whole, NEW st, NEW len
  PROVE  Applied(whole, f, {}, st, len) = f
BY DEF Applied

(* ... and everything when it ends.                                        *)
LEMMA AllVisited ==
  ASSUME NEW f \in [Indices -> Int], NEW z \in Int, NEW len \in Nat, NEW st \in Nat,
         st + 2 * len <= RingSize
  PROVE  /\ Applied(NttBlockAt(f, st, len, z), f, 0..(len - 1), st, len)
              = NttBlockAt(f, st, len, z)
         /\ Applied(InvBlockAt(f, st, len, z), f, 0..(len - 1), st, len)
              = InvBlockAt(f, st, len, z)
<1>1. RingSize \in Nat
  BY RingAssumption, Pow2Assumption DEF RingSize
<1>2. ASSUME NEW i \in Indices,
             i - st \notin 0..(len - 1), i - st - len \notin 0..(len - 1)
      PROVE  NttBlockAt(f, st, len, z)[i] = f[i] /\ InvBlockAt(f, st, len, z)[i] = f[i]
  <2>1. i \notin st..(st + len - 1) /\ i \notin (st + len)..(st + 2 * len - 1)
    BY <1>1, <1>2 DEF Indices
  <2> QED BY <2>1 DEF NttBlockAt, InvBlockAt
<1>3. \A i \in Indices :
        Applied(NttBlockAt(f, st, len, z), f, 0..(len - 1), st, len)[i]
          = NttBlockAt(f, st, len, z)[i]
  BY <1>2 DEF Applied
<1>4. \A i \in Indices :
        Applied(InvBlockAt(f, st, len, z), f, 0..(len - 1), st, len)[i]
          = InvBlockAt(f, st, len, z)[i]
  BY <1>2 DEF Applied
<1>5. Applied(NttBlockAt(f, st, len, z), f, 0..(len - 1), st, len) = NttBlockAt(f, st, len, z)
  BY <1>3 DEF Applied, NttBlockAt
<1>6. Applied(InvBlockAt(f, st, len, z), f, 0..(len - 1), st, len) = InvBlockAt(f, st, len, z)
  BY <1>4 DEF Applied, InvBlockAt
<1> QED BY <1>5, <1>6

(* The values a butterfly writes are those of the whole block.             *)
LEMMA BlockElements ==
  ASSUME NEW f \in [Indices -> Int], NEW z, NEW len \in Nat, NEW st \in Nat,
         st + 2 * len <= RingSize, NEW x \in 0..(len - 1)
  PROVE  LET j == st + x
         IN  /\ NttBlockAt(f, st, len, z)[j] = NttLo(f[j], f[j + len], z)
             /\ NttBlockAt(f, st, len, z)[j + len] = NttHi(f[j], f[j + len], z)
             /\ InvBlockAt(f, st, len, z)[j] = InvLo(f[j], f[j + len], z)
             /\ InvBlockAt(f, st, len, z)[j + len] = InvHi(f[j], f[j + len], z)
<1> DEFINE j == st + x
<1>1. RingSize \in Nat
  BY RingAssumption, Pow2Assumption DEF RingSize
<1>2. /\ j \in Indices /\ j + len \in Indices
      /\ j \in st..(st + len - 1)
      /\ j + len \notin st..(st + len - 1)
      /\ j + len \in (st + len)..(st + 2 * len - 1)
      /\ (j + len) - len = j
  BY <1>1 DEF Indices
<1> HIDE DEF j
<1>3. /\ NttBlockAt(f, st, len, z)[j] = NttLo(f[j], f[j + len], z)
      /\ InvBlockAt(f, st, len, z)[j] = InvLo(f[j], f[j + len], z)
  BY <1>2 DEF NttBlockAt, InvBlockAt
<1>4. /\ NttBlockAt(f, st, len, z)[j + len] = NttHi(f[j], f[j + len], z)
      /\ InvBlockAt(f, st, len, z)[j + len] = InvHi(f[j], f[j + len], z)
  BY <1>2 DEF NttBlockAt, InvBlockAt
<1> QED BY <1>3, <1>4 DEF j

-----------------------------------------------------------------------------
(* TypeOK and RootMatchesBlock need each other (the root is read from the  *)
(* table, the butterflies write inside the array), and PartialBlock needs  *)
(* both: together they are inductive.                                      *)
IInv == TypeOK /\ RootMatchesBlock /\ PartialBlock

(* Where a thread is in the middle of a transform.                         *)
LEMMA InsideBlock ==
  ASSUME IInv, NEW s \in Sessions, pc[s] \in {"ntt", "invntt"}
  PROVE  /\ HalfBlock(s) \in Nat /\ HalfBlock(s) >= 2
         /\ Blocks(s) \in Nat \ {0} /\ RingSize = Blocks(s) * (2 * HalfBlock(s))
         /\ start[s] \in Nat /\ start[s] + 2 * HalfBlock(s) <= RingSize
         /\ idx[s] \in 0..(HalfBlock(s) - 1)
         /\ k[s] \in 1..((RingSize \div 2) - 1) /\ Zeta[k[s]] \in Int
<1> DEFINE m == Blocks(s)
           l == HalfBlock(s)
<1>1. /\ l \in Nat /\ l >= 2 /\ m \in Nat \ {0} /\ RingSize = m * (2 * l) /\ 2 * m <= RingSize \div 2
  BY LayerSizes DEF IInv, TypeOK, HalfBlock, Blocks
<1>2. k[s] \in m..(2 * m - 1)
  BY DEF IInv, RootMatchesBlock, RootAt
<1>3. start[s] = (k[s] - m) * (2 * l) \/ start[s] = (2 * m - 1 - k[s]) * (2 * l)
  BY DEF IInv, RootMatchesBlock, RootAt
<1>4. idx[s] \in Nat /\ start[s] \in Nat /\ idx[s] < l
  BY DEF IInv, TypeOK, RootMatchesBlock, RootAt
<1> HIDE DEF m, l
<1>5. PICK d \in 0..(m - 1) : start[s] = d * (2 * l)
  <2>1. k[s] - m \in 0..(m - 1) /\ 2 * m - 1 - k[s] \in 0..(m - 1)
    BY <1>1, <1>2
  <2> QED BY <1>3, <2>1
<1>6. start[s] + 2 * l <= RingSize
  <2>1. (d + 1) * (2 * l) <= m * (2 * l)
    BY <1>1, <1>5
  <2>2. (d + 1) * (2 * l) = d * (2 * l) + 2 * l
    BY <1>1, <1>5
  <2> QED BY <1>1, <1>5, <2>1, <2>2
<1>7. k[s] \in 1..((RingSize \div 2) - 1)
  BY <1>1, <1>2
<1>8. Zeta[k[s]] \in Int
  BY <1>7, RingAssumption
<1> QED BY <1>1, <1>4, <1>6, <1>7, <1>8 DEF m, l

(* The slot of the next butterfly is a new one, and after the last of a    *)
(* block all slots were visited.                                           *)
LEMMA NewSlot ==
  ASSUME IInv, NEW s \in Sessions, pc[s] \in {"ntt", "invntt"}
  PROVE  /\ Visited(s) \in SUBSET (0..(HalfBlock(s) - 1))
         /\ Slot(s, idx[s]) \in 0..(HalfBlock(s) - 1)
         /\ Slot(s, idx[s]) \notin Visited(s)
         /\ Visited(s) \cup {Slot(s, idx[s])} = {Slot(s, x) : x \in 0..idx[s]}
         /\ idx[s] + 1 = HalfBlock(s) =>
              Visited(s) \cup {Slot(s, idx[s])} = 0..(HalfBlock(s) - 1)
<1>1. bits[s] \in 0..MaxBits /\ RoundKey[seed[s]] \in [1..4 -> Nat]
  BY SeedAssumption, RingAssumption, Pow2Assumption DEF IInv, TypeOK
<1>2. idx[s] \in 0..(HalfBlock(s) - 1) /\ HalfBlock(s) \in Nat
  BY InsideBlock
<1>3. /\ \A x \in 0..(HalfBlock(s) - 1) : Slot(s, x) \in 0..(HalfBlock(s) - 1)
      /\ \A x1, x2 \in 0..(HalfBlock(s) - 1) : Slot(s, x1) = Slot(s, x2) => x1 = x2
      /\ \A y \in 0..(HalfBlock(s) - 1) : \E x \in 0..(HalfBlock(s) - 1) : Slot(s, x) = y
  BY <1>1, FeistelBijection, Zenon DEF Slot, HalfBlock
<1>4. \A x \in 0..(idx[s] - 1) : x \in 0..(HalfBlock(s) - 1) /\ x # idx[s]
  BY <1>2
<1>5. Visited(s) \in SUBSET (0..(HalfBlock(s) - 1))
  BY <1>3, <1>4 DEF Visited
<1>6. Slot(s, idx[s]) \notin Visited(s)
  BY <1>2, <1>3, <1>4 DEF Visited
<1>7. 0..idx[s] = (0..(idx[s] - 1)) \cup {idx[s]}
  BY <1>2
<1>8. Visited(s) \cup {Slot(s, idx[s])} = {Slot(s, x) : x \in 0..idx[s]}
  BY <1>7 DEF Visited
<1>9. ASSUME idx[s] + 1 = HalfBlock(s)
      PROVE  {Slot(s, x) : x \in 0..idx[s]} = 0..(HalfBlock(s) - 1)
  <2>1. 0..idx[s] = 0..(HalfBlock(s) - 1)
    BY <1>2, <1>9
  <2>2. {Slot(s, x) : x \in 0..(HalfBlock(s) - 1)} = 0..(HalfBlock(s) - 1)
    <3> DEFINE D == 0..(HalfBlock(s) - 1)
    <3> HIDE DEF D
    <3>1. \A x \in D : Slot(s, x) \in D
      BY <1>3 DEF D
    <3>2. \A y \in D : \E x \in D : Slot(s, x) = y
      BY <1>3 DEF D
    <3>3. {Slot(s, x) : x \in D} = D
      BY <3>1, <3>2
    <3> QED BY <3>3 DEF D
  <2> QED BY <2>1, <2>2, Zenon
<1> QED BY <1>2, <1>3, <1>5, <1>6, <1>8, <1>9

(* One butterfly of either transform.                                      *)
LEMMA NttProgress ==
  ASSUME IInv, NEW s \in Sessions, pc[s] = "ntt"
  PROVE  /\ NttButterflyAt(r[s], Element(s), HalfBlock(s), Zeta[k[s]])
              = Applied(NttBlockAt(base[s], start[s], HalfBlock(s), Zeta[k[s]]), base[s],
                        Visited(s) \cup {Slot(s, idx[s])}, start[s], HalfBlock(s))
         /\ NttButterflyAt(r[s], Element(s), HalfBlock(s), Zeta[k[s]]) \in [Indices -> Int]
<1> DEFINE f == base[s]
           st == start[s]
           l == HalfBlock(s)
           z == Zeta[k[s]]
           x == Slot(s, idx[s])
           V == Visited(s)
           whole == NttBlockAt(f, st, l, z)
           j == st + x
           g == Applied(whole, f, V, st, l)
<1>1. l \in Nat /\ st \in Nat /\ st + 2 * l <= RingSize /\ z \in Int
  BY InsideBlock
<1>2. V \in SUBSET (0..(l - 1)) /\ x \in 0..(l - 1) /\ x \notin V
  BY NewSlot
<1>3. f \in [Indices -> Int] /\ r[s] = g
  BY DEF IInv, TypeOK, PartialBlock, PartialAt
<1>4. Element(s) = j
  BY DEF Element
<1> HIDE DEF f, st, l, z, x, V
<1>5. whole \in [Indices -> Int]
  BY <1>1, <1>3, BlockType
<1>6. whole[j] = NttLo(f[j], f[j + l], z) /\ whole[j + l] = NttHi(f[j], f[j + l], z)
  BY <1>1, <1>2, <1>3, BlockElements
<1> HIDE DEF whole
<1>7. /\ g[j] = f[j] /\ g[j + l] = f[j + l]
      /\ Butterfly(g, j, l, whole[j], whole[j + l]) = Applied(whole, f, V \cup {x}, st, l)
  <2>1. OneMoreStep(f, whole, l, st, V, x)
    BY <1>1, <1>2, <1>3, <1>5, OneMore
  <2> QED BY <2>1 DEF OneMoreStep
<1>8. NttButterflyAt(g, j, l, z) = Applied(whole, f, V \cup {x}, st, l)
  BY <1>6, <1>7, Zenon DEF NttButterflyAt
<1>9. Applied(whole, f, V \cup {x}, st, l) \in [Indices -> Int]
  BY <1>3, <1>5 DEF Applied
<1> QED BY <1>3, <1>4, <1>8, <1>9 DEF f, st, l, z, x, V, whole

LEMMA InvProgress ==
  ASSUME IInv, NEW s \in Sessions, pc[s] = "invntt"
  PROVE  /\ InvButterflyAt(r[s], Element(s), HalfBlock(s), Zeta[k[s]])
              = Applied(InvBlockAt(base[s], start[s], HalfBlock(s), Zeta[k[s]]), base[s],
                        Visited(s) \cup {Slot(s, idx[s])}, start[s], HalfBlock(s))
         /\ InvButterflyAt(r[s], Element(s), HalfBlock(s), Zeta[k[s]]) \in [Indices -> Int]
<1> DEFINE f == base[s]
           st == start[s]
           l == HalfBlock(s)
           z == Zeta[k[s]]
           x == Slot(s, idx[s])
           V == Visited(s)
           whole == InvBlockAt(f, st, l, z)
           j == st + x
           g == Applied(whole, f, V, st, l)
<1>1. l \in Nat /\ st \in Nat /\ st + 2 * l <= RingSize /\ z \in Int
  BY InsideBlock
<1>2. V \in SUBSET (0..(l - 1)) /\ x \in 0..(l - 1) /\ x \notin V
  BY NewSlot
<1>3. f \in [Indices -> Int] /\ r[s] = g
  BY DEF IInv, TypeOK, PartialBlock, PartialAt
<1>4. Element(s) = j
  BY DEF Element
<1> HIDE DEF f, st, l, z, x, V
<1>5. whole \in [Indices -> Int]
  BY <1>1, <1>3, BlockType
<1>6. whole[j] = InvLo(f[j], f[j + l], z) /\ whole[j + l] = InvHi(f[j], f[j + l], z)
  BY <1>1, <1>2, <1>3, BlockElements
<1> HIDE DEF whole
<1>7. /\ g[j] = f[j] /\ g[j + l] = f[j + l]
      /\ Butterfly(g, j, l, whole[j], whole[j + l]) = Applied(whole, f, V \cup {x}, st, l)
  <2>1. OneMoreStep(f, whole, l, st, V, x)
    BY <1>1, <1>2, <1>3, <1>5, OneMore
  <2> QED BY <2>1 DEF OneMoreStep
<1>8. InvButterflyAt(g, j, l, z) = Applied(whole, f, V \cup {x}, st, l)
  BY <1>6, <1>7, Zenon DEF InvButterflyAt
<1>9. Applied(whole, f, V \cup {x}, st, l) \in [Indices -> Int]
  BY <1>3, <1>5 DEF Applied
<1> QED BY <1>3, <1>4, <1>8, <1>9 DEF f, st, l, z, x, V, whole

-----------------------------------------------------------------------------
(* What a step of one thread leaves alone at another.                      *)
Untouched(t) ==
  /\ pc'[t] = pc[t] /\ seed'[t] = seed[t] /\ r'[t] = r[t] /\ base'[t] = base[t]
  /\ bits'[t] = bits[t] /\ start'[t] = start[t] /\ k'[t] = k[t] /\ idx'[t] = idx[t]

LEMMA Frame ==
  ASSUME IInv, NEW t \in Sessions, Untouched(t)
  PROVE  RootAt(t)' /\ PartialAt(t)'
<1>1. RootAt(t) /\ PartialAt(t)
  BY DEF IInv, RootMatchesBlock, PartialBlock
<1>2. HalfBlock(t)' = HalfBlock(t) /\ Blocks(t)' = Blocks(t)
  BY DEF Untouched, HalfBlock, Blocks
<1>3. Visited(t)' = Visited(t)
  BY Zenon DEF Untouched, Visited, Slot
<1>4. RootAt(t)'
  BY <1>1, <1>2 DEF Untouched, RootAt
<1>5. PartialAt(t)'
  BY <1>1, <1>2, <1>3 DEF Untouched, PartialAt
<1> QED BY <1>4, <1>5

(* Outside the transforms there is little to show.                         *)
LEMMA OutsideBlock ==
  ASSUME NEW t \in Sessions, pc'[t] \notin {"ntt", "invntt"}, r'[t] = base'[t]
  PROVE  RootAt(t)' /\ PartialAt(t)'
BY DEF RootAt, PartialAt

LEMMA InitInv == Init => IInv
<1> SUFFICES ASSUME Init PROVE IInv
  OBVIOUS
<1>1. MaxBits - 1 \in 1..(MaxBits - 1)
  BY RingAssumption, Pow2Assumption
<1>2. TypeOK
  BY <1>1, SeedAssumption, InputAssumption DEF Init, TypeOK, Phases
<1>3. RootMatchesBlock
  BY DEF Init, RootMatchesBlock, RootAt
<1>4. PartialBlock
  BY DEF Init, PartialBlock, PartialAt
<1> QED BY <1>2, <1>3, <1>4 DEF IInv

LEMMA StoreInv ==
  ASSUME IInv, NEW s \in Sessions, BeginStoreSeed(s) \/ EndStoreSeed(s)
  PROVE  IInv'
<1>1. TypeOK'
  <2>1. CASE BeginStoreSeed(s)
    BY <2>1 DEF IInv, TypeOK, BeginStoreSeed, Move, loop, Phases
  <2>2. CASE EndStoreSeed(s)
    <3>1. Raced(s, own[s]) \subseteq Seeds
      BY DEF IInv, TypeOK, Raced
    <3>2. g_ntt_seed' \in Seeds
      BY <2>2, <3>1 DEF EndStoreSeed
    <3> QED BY <2>2, <3>2 DEF IInv, TypeOK, EndStoreSeed, Move, loop, Phases
  <2> QED BY <2>1, <2>2
<1>2. /\ pc[s] \notin {"ntt", "invntt"} /\ pc'[s] \notin {"ntt", "invntt"}
      /\ UNCHANGED << r, base, bits, start, k, idx, seed >>
      /\ \A t \in Sessions \ {s} : pc'[t] = pc[t]
  BY DEF IInv, TypeOK, BeginStoreSeed, EndStoreSeed, Move, loop
<1>3. r'[s] = base'[s]
  BY <1>2 DEF IInv, PartialBlock, PartialAt
<1>4. \A t \in Sessions \ {s} : Untouched(t)
  BY <1>2 DEF Untouched
<1>5. \A t \in Sessions : RootAt(t)' /\ PartialAt(t)'
  BY <1>2, <1>3, <1>4, Frame, OutsideBlock
<1> QED BY <1>1, <1>5 DEF IInv, RootMatchesBlock, PartialBlock

(* The heads of the transforms, which enter the first block.               *)
LEMMA BeginInv ==
  ASSUME IInv, NEW s \in Sessions, BeginNtt(s) \/ BeginInvNtt(s)
  PROVE  IInv'
<1>1. /\ MaxBits - 1 \in 1..(MaxBits - 1) /\ 1 \in 1..(MaxBits - 1)
      /\ MaxBits - 1 - (MaxBits - 1) = 0 /\ MaxBits - 1 - 1 = MaxBits - 2
  BY RingAssumption, Pow2Assumption
<1>2. /\ RingSize = Pow2[0] * (2 * Pow2[MaxBits - 1]) /\ Pow2[MaxBits - 1] >= 2
      /\ Pow2[MaxBits - 1] \in Nat
  BY <1>1, LayerSizes
<1>3. /\ RingSize = Pow2[MaxBits - 2] * (2 * Pow2[1]) /\ Pow2[MaxBits - 2] \in Nat \ {0}
      /\ Pow2[1] = 2 /\ Pow2[0] = 1
  BY <1>1, LayerSizes, RingAssumption, Pow2Assumption
<1>4. (RingSize \div 2) - 1 = 2 * Pow2[MaxBits - 2] - 1
  BY <1>3
<1>5. \A v \in Seeds : Raced(s, v) \subseteq Seeds
  BY DEF Raced
<1>6. g_ntt_seed \in Seeds
  BY DEF IInv, TypeOK
<1>7. /\ seed' \in [Sessions -> Seeds]
      /\ UNCHANGED << g_ntt_seed, own, r, base, input >>
      /\ idx' = [idx EXCEPT ![s] = 0] /\ start' = [start EXCEPT ![s] = 0]
      /\ pc[s] \notin {"ntt", "invntt"}
  BY <1>5, <1>6 DEF IInv, TypeOK, BeginNtt, BeginInvNtt, Move
<1>8. TypeOK'
  <2>1. CASE BeginNtt(s)
    BY <1>1, <1>7, <2>1 DEF IInv, TypeOK, BeginNtt, Move, Phases
  <2>2. CASE BeginInvNtt(s)
    <3>1. (RingSize \div 2) - 1 \in Nat
      BY <1>3, <1>4
    <3> QED BY <1>1, <1>7, <2>2, <3>1 DEF IInv, TypeOK, BeginInvNtt, Move, Phases
  <2> QED BY <2>1, <2>2
<1>9. \A t \in Sessions \ {s} : Untouched(t)
  BY DEF IInv, TypeOK, BeginNtt, BeginInvNtt, Move, Untouched
<1>10. RootAt(s)'
  <2>1. CASE BeginNtt(s)
    <3>1. /\ pc'[s] = "ntt" /\ bits'[s] = MaxBits - 1 /\ start'[s] = 0
          /\ k'[s] = 1 /\ idx'[s] = 0
      BY <2>1 DEF IInv, TypeOK, BeginNtt, Move
    <3>2. Blocks(s)' = 1 /\ HalfBlock(s)' = Pow2[MaxBits - 1]
      BY <1>1, <1>3, <3>1 DEF Blocks, HalfBlock
    <3> QED BY <1>2, <3>1, <3>2 DEF RootAt
  <2>2. CASE BeginInvNtt(s)
    <3>1. /\ pc'[s] = "invntt" /\ bits'[s] = 1 /\ start'[s] = 0
          /\ k'[s] = (RingSize \div 2) - 1 /\ idx'[s] = 0
      BY <2>2 DEF IInv, TypeOK, BeginInvNtt, Move
    <3>2. Blocks(s)' = Pow2[MaxBits - 2] /\ HalfBlock(s)' = 2
      BY <1>1, <1>3, <3>1 DEF Blocks, HalfBlock
    <3> QED BY <1>3, <1>4, <3>1, <3>2 DEF RootAt
  <2> QED BY <2>1, <2>2
<1>11. PartialAt(s)'
  <2>1. r'[s] = base'[s] /\ base'[s] \in [Indices -> Int] /\ idx'[s] = 0
    BY <1>7 DEF IInv, TypeOK, PartialBlock, PartialAt
  <2>2. Visited(s)' = {}
    BY <2>1 DEF Visited
  <2> QED BY <2>1, <2>2, NoneVisited DEF PartialAt
<1>12. \A t \in Sessions : RootAt(t)' /\ PartialAt(t)'
  BY <1>9, <1>10, <1>11, Frame
<1> QED BY <1>8, <1>12 DEF IInv, RootMatchesBlock, PartialBlock

(* The element-wise passes.                                                *)
LEMMA PassType ==
  ASSUME NEW f \in [Indices -> Int]
  PROVE  /\ PolyReduce(f) \in [Indices -> Int]
         /\ PolyScale(f) \in [Indices -> Int]
<1>1. PolyReduce(f) \in [Indices -> Int]
  BY BarrettType DEF PolyReduce
<1>2. PolyScale(f) \in [Indices -> Int]
  BY FqMulType, RingAssumption DEF PolyScale
<1> QED BY <1>1, <1>2

LEMMA BaseMulType ==
  ASSUME NEW a0 \in Int, NEW a1 \in Int, NEW b0 \in Int, NEW b1 \in Int,
         NEW z \in Int
  PROVE  /\ Int16(FqMul(a0, b1) + FqMul(a1, b0)) \in Int
         /\ Int16(FqMul(FqMul(a1, b1), z) + FqMul(a0, b0)) \in Int
<1>1. /\ FqMul(a0, b1) \in Int /\ FqMul(a1, b0) \in Int
      /\ FqMul(a1, b1) \in Int /\ FqMul(a0, b0) \in Int
  BY FqMulType
<1>2. FqMul(FqMul(a1, b1), z) \in Int
  BY <1>1, FqMulType
<1> QED BY <1>1, <1>2 DEF Int16

LEMMA ProductType ==
  ASSUME NEW f \in [Indices -> Int]
  PROVE  PolyReduce(PolyBaseMul(f, OperandHat)) \in [Indices -> Int]
<1>1. 1 \in 1..(MaxBits - 1)
  BY RingAssumption, Pow2Assumption
<1>2. PICK m \in Nat \ {0} : RingSize = 4 * m
  <2>1. Pow2[1] = 2
    BY RingAssumption, Pow2Assumption
  <2>2. Pow2[MaxBits - 1 - 1] \in Nat \ {0} /\ RingSize = Pow2[MaxBits - 1 - 1] * (2 * 2)
    BY <1>1, <2>1, LayerSizes
  <2> QED BY <2>2
<1>3. ASSUME NEW i \in Indices
      PROVE  PolyBaseMul(f, OperandHat)[i] \in Int
  <2> DEFINE p == i - (i % 2)
             root == Zeta[(RingSize \div 4) + (i \div 4)]
             z == IF i % 4 < 2 THEN root ELSE -root
  <2>1. p \in Indices /\ p + 1 \in Indices
    BY <1>2 DEF Indices
  <2>2. (RingSize \div 4) + (i \div 4) \in 1..((RingSize \div 2) - 1)
    BY <1>2 DEF Indices
  <2>3. z \in Int
    BY <2>2, RingAssumption
  <2>4. /\ f[p] \in Int /\ f[p + 1] \in Int
        /\ OperandHat[p] \in Int /\ OperandHat[p + 1] \in Int
    BY <2>1, RingAssumption
  <2>5. PolyBaseMul(f, OperandHat)[i]
          = IF i % 2 = 1
            THEN Int16(FqMul(f[p], OperandHat[p + 1]) + FqMul(f[p + 1], OperandHat[p]))
            ELSE Int16(FqMul(FqMul(f[p + 1], OperandHat[p + 1]), z)
                         + FqMul(f[p], OperandHat[p]))
    BY DEF PolyBaseMul, BaseMul
  <2> HIDE DEF p, z
  <2>6. /\ Int16(FqMul(f[p], OperandHat[p + 1]) + FqMul(f[p + 1], OperandHat[p])) \in Int
        /\ Int16(FqMul(FqMul(f[p + 1], OperandHat[p + 1]), z)
                    + FqMul(f[p], OperandHat[p])) \in Int
    BY <2>3, <2>4, BaseMulType
  <2> QED BY <2>5, <2>6
<1>4. PolyBaseMul(f, OperandHat) \in [Indices -> Int]
  BY <1>3 DEF PolyBaseMul
<1> QED BY <1>4, PassType

LEMMA PassInv ==
  ASSUME IInv, NEW s \in Sessions, Reduce(s) \/ Product(s) \/ Scale(s)
  PROVE  IInv'
<1>1. r[s] \in [Indices -> Int] /\ pc[s] \notin {"ntt", "invntt"}
  BY DEF IInv, TypeOK, Reduce, Product, Scale, Move
<1>2. PICK f \in [Indices -> Int] : r' = [r EXCEPT ![s] = f]
  <2>1. /\ PolyReduce(r[s]) \in [Indices -> Int] /\ PolyScale(r[s]) \in [Indices -> Int]
        /\ PolyReduce(PolyBaseMul(r[s], OperandHat)) \in [Indices -> Int]
    BY <1>1, PassType, ProductType
  <2>2. CASE Reduce(s)
    BY <2>1, <2>2 DEF Reduce
  <2>3. CASE Product(s)
    BY <2>1, <2>3 DEF Product
  <2>4. CASE Scale(s)
    BY <2>1, <2>4 DEF Scale
  <2> QED BY <2>2, <2>3, <2>4
<1>3. /\ base' = [base EXCEPT ![s] = r'[s]]
      /\ UNCHANGED << g_ntt_seed, own, seed, bits, start, k, idx, input >>
      /\ \E p \in Phases \ {"ntt", "invntt"} : pc' = [pc EXCEPT ![s] = p]
  BY DEF Reduce, Product, Scale, Move, loop, Phases
<1>4. TypeOK'
  BY <1>2, <1>3 DEF IInv, TypeOK
<1>5. \A t \in Sessions \ {s} : Untouched(t)
  BY <1>2, <1>3 DEF IInv, TypeOK, Untouched
<1>6. pc'[s] \notin {"ntt", "invntt"} /\ r'[s] = base'[s]
  BY <1>2, <1>3 DEF IInv, TypeOK
<1>7. \A t \in Sessions : RootAt(t)' /\ PartialAt(t)'
  BY <1>5, <1>6, Frame, OutsideBlock
<1> QED BY <1>4, <1>7 DEF IInv, RootMatchesBlock, PartialBlock

-----------------------------------------------------------------------------
(* The d-th of m blocks of 2 * l elements: either another follows or it is *)
(* the last.                                                               *)
LEMMA Following ==
  ASSUME NEW m \in Nat \ {0}, NEW l \in Nat \ {0}, NEW d \in 0..(m - 1), NEW st,
         st = d * (2 * l)
  PROVE  /\ st + 2 * l < m * (2 * l) =>
              d + 1 \in 0..(m - 1) /\ st + 2 * l = (d + 1) * (2 * l)
         /\ st + 2 * l >= m * (2 * l) => d = m - 1
<1>1. (d + 1) * (2 * l) = d * (2 * l) + 2 * l
  OBVIOUS
<1>2. CASE d + 1 <= m - 1
  <2>1. (d + 1) * (2 * l) <= (m - 1) * (2 * l)
    BY <1>2
  <2>2. (m - 1) * (2 * l) = m * (2 * l) - 2 * l
    OBVIOUS
  <2>3. (d + 1) * (2 * l) \in Nat /\ m * (2 * l) \in Nat
    OBVIOUS
  <2> QED BY <1>1, <1>2, <2>1, <2>2, <2>3
<1>3. CASE d = m - 1
  BY <1>1, <1>3
<1> QED BY <1>2, <1>3

(* The neighbours of a layer.                                              *)
LEMMA NextLayer ==
  ASSUME NEW b \in 2..(MaxBits - 1)
  PROVE  /\ b - 1 \in 1..(MaxBits - 1)
         /\ Pow2[MaxBits - 1 - (b - 1)] = 2 * Pow2[MaxBits - 1 - b]
         /\ Pow2[b] = 2 * Pow2[b - 1]
<1>1. MaxBits \in Nat /\ b \in Int /\ b >= 2 /\ b <= MaxBits - 1
  BY RingAssumption, Pow2Assumption
<1>2. MaxBits - 1 - (b - 1) \in 1..MaxBits /\ b \in 1..MaxBits /\ b - 1 \in 1..(MaxBits - 1)
      /\ (MaxBits - 1 - (b - 1)) - 1 = MaxBits - 1 - b
  BY <1>1
<1>3. \A i \in 1..MaxBits : Pow2[i] = 2 * Pow2[i - 1]
  BY Pow2Assumption
<1> QED BY <1>2, <1>3

(* Entering a block, or leaving the transform, after the array was saved.  *)
LEMMA FreshBlock ==
  ASSUME NEW s \in Sessions, r'[s] \in [Indices -> Int], base'[s] = r'[s], idx'[s] = 0
  PROVE  PartialAt(s)'
<1>1. Visited(s)' = {}
  BY DEF Visited
<1> QED BY <1>1, NoneVisited DEF PartialAt

(* One more butterfly of the same block.                                   *)
LEMMA SameBlockInv ==
  ASSUME IInv, NEW s \in Sessions, pc[s] \in {"ntt", "invntt"}, SameBlock(s), UNCHANGED seed,
         pc[s] = "ntt" =>
           r'[s] = Applied(NttBlockAt(base[s], start[s], HalfBlock(s), Zeta[k[s]]), base[s],
                           Visited(s) \cup {Slot(s, idx[s])}, start[s], HalfBlock(s)),
         pc[s] = "invntt" =>
           r'[s] = Applied(InvBlockAt(base[s], start[s], HalfBlock(s), Zeta[k[s]]), base[s],
                           Visited(s) \cup {Slot(s, idx[s])}, start[s], HalfBlock(s))
  PROVE  RootAt(s)' /\ PartialAt(s)'
<1>1. /\ UNCHANGED << pc, bits, start, k, base, seed >>
      /\ idx'[s] = idx[s] + 1 /\ idx[s] + 1 < HalfBlock(s) /\ idx[s] \in Nat
  BY DEF SameBlock, IInv, TypeOK
<1>2. HalfBlock(s)' = HalfBlock(s) /\ Blocks(s)' = Blocks(s)
  BY <1>1 DEF HalfBlock, Blocks
<1>3. Visited(s)' = {Slot(s, x) : x \in 0..idx[s]}
  <2>1. idx'[s] - 1 = idx[s]
    BY <1>1
  <2> QED BY <1>1, <2>1, Zenon DEF Visited, Slot
<1>4. Visited(s)' = Visited(s) \cup {Slot(s, idx[s])}
  BY <1>3, NewSlot
<1>5. RootAt(s)'
  BY <1>1, <1>2 DEF IInv, RootMatchesBlock, RootAt
<1>6. PartialAt(s)'
  BY <1>1, <1>2, <1>4 DEF PartialAt
<1> QED BY <1>5, <1>6

(* The next block of the same layer, and the first of the next layer.      *)
LEMMA NextBlockRoot ==
  ASSUME IInv, NEW s \in Sessions,
         \/ pc[s] = "ntt" /\ NextBlock(s, k[s] + 1)
         \/ pc[s] = "invntt" /\ NextBlock(s, k[s] - 1)
  PROVE  RootAt(s)' /\ k'[s] \in Nat /\ start'[s] \in Nat
<1> DEFINE m == Blocks(s)
           l == HalfBlock(s)
<1>1. l \in Nat \ {0} /\ m \in Nat \ {0} /\ RingSize = m * (2 * l)
  BY InsideBlock
<1>2. /\ start[s] + 2 * l < RingSize /\ idx'[s] = 0 /\ start'[s] = start[s] + 2 * l
      /\ UNCHANGED << pc, bits >>
  BY DEF NextBlock, IInv, TypeOK
<1>3. l' = l /\ m' = m
  BY <1>2 DEF HalfBlock, Blocks
<1>4. CASE pc[s] = "ntt"
  <2>1. k[s] - m \in 0..(m - 1) /\ start[s] = (k[s] - m) * (2 * l) /\ k'[s] = k[s] + 1
    BY <1>1, <1>4 DEF IInv, TypeOK, RootMatchesBlock, RootAt, NextBlock
  <2>n. k[s] \in Nat
    BY DEF IInv, TypeOK
  <2> HIDE DEF m, l
  <2>2. (k[s] - m) + 1 \in 0..(m - 1) /\ start'[s] = ((k[s] - m) + 1) * (2 * l)
    BY <1>1, <1>2, <2>1, Following
  <2>3. k'[s] \in m..(2 * m - 1) /\ start'[s] = (k'[s] - m) * (2 * l)
    BY <1>1, <2>1, <2>2, <2>n
  <2>4. start'[s] \in Nat
    BY <1>1, <2>2
  <2> QED BY <1>1, <1>2, <1>3, <1>4, <2>3, <2>4 DEF RootAt, m, l
<1>5. CASE pc[s] = "invntt"
  <2>1. /\ 2 * m - 1 - k[s] \in 0..(m - 1) /\ start[s] = (2 * m - 1 - k[s]) * (2 * l)
        /\ k'[s] = k[s] - 1
    BY <1>1, <1>5 DEF IInv, TypeOK, RootMatchesBlock, RootAt, NextBlock
  <2>n. k[s] \in Nat
    BY DEF IInv, TypeOK
  <2> HIDE DEF m, l
  <2>2. /\ (2 * m - 1 - k[s]) + 1 \in 0..(m - 1)
        /\ start'[s] = ((2 * m - 1 - k[s]) + 1) * (2 * l)
    BY <1>1, <1>2, <2>1, Following
  <2>3. k'[s] \in m..(2 * m - 1) /\ start'[s] = (2 * m - 1 - k'[s]) * (2 * l)
    BY <1>1, <2>1, <2>2, <2>n
  <2>4. start'[s] \in Nat
    BY <1>1, <2>2
  <2> QED BY <1>1, <1>2, <1>3, <1>5, <2>3, <2>4 DEF RootAt, m, l
<1> QED BY <1>4, <1>5

LEMMA LastBlockRoot ==
  ASSUME IInv, NEW s \in Sessions,
         \/ pc[s] = "ntt" /\ LastBlock(s, k[s] + 1, 1, bits[s] - 1, "reduce")
         \/ pc[s] = "invntt" /\ LastBlock(s, k[s] - 1, MaxBits - 1, bits[s] + 1, "scale")
  PROVE  /\ RootAt(s)' /\ k'[s] \in Nat /\ start'[s] \in Nat /\ bits'[s] \in 1..(MaxBits - 1)
         /\ pc'[s] \in Phases
<1> DEFINE m == Blocks(s)
           l == HalfBlock(s)
<1>1. l \in Nat \ {0} /\ m \in Nat \ {0} /\ RingSize = m * (2 * l)
  BY InsideBlock
<1>2. /\ start[s] + 2 * l >= RingSize /\ idx'[s] = 0 /\ start'[s] = 0
      /\ bits[s] \in 1..(MaxBits - 1) /\ k[s] \in Nat /\ MaxBits \in Nat
  BY Pow2Assumption DEF LastBlock, IInv, TypeOK
<1>3. CASE pc[s] = "ntt"
  <2>1. k[s] - m \in 0..(m - 1) /\ start[s] = (k[s] - m) * (2 * l) /\ k'[s] = k[s] + 1
    BY <1>1, <1>3 DEF IInv, TypeOK, RootMatchesBlock, RootAt, LastBlock
  <2>2. k'[s] = 2 * m
    <3> HIDE DEF m, l
    <3>1. k[s] - m = m - 1
      BY <1>1, <1>2, <2>1, Following
    <3>2. k[s] \in Nat /\ m \in Nat /\ k'[s] = k[s] + 1
      BY <1>1, <1>2, <2>1
    <3> QED BY <3>1, <3>2
  <2>3. CASE bits[s] # 1
    <3>1. pc'[s] = "ntt" /\ bits'[s] = bits[s] - 1 /\ bits[s] \in 2..(MaxBits - 1)
      BY <1>2, <1>3, <2>3 DEF LastBlock, IInv, TypeOK
    <3>2. /\ bits[s] - 1 \in 1..(MaxBits - 1)
          /\ Pow2[MaxBits - 1 - (bits[s] - 1)] = 2 * m /\ l = 2 * Pow2[bits[s] - 1]
      BY <3>1, NextLayer DEF Blocks, HalfBlock
    <3>3. Blocks(s)' = 2 * m /\ l = 2 * HalfBlock(s)'
      BY <3>1, <3>2 DEF Blocks, HalfBlock
    <3> DEFINE h == HalfBlock(s)'
    <3>4. h \in Nat \ {0}
      BY <3>1, <3>2, LayerSizes DEF HalfBlock
    <3> HIDE DEF m, l, h
    <3>5. /\ k'[s] \in (2 * m)..(2 * (2 * m) - 1) /\ start'[s] = (k'[s] - 2 * m) * (2 * h)
          /\ idx'[s] < h
      BY <1>1, <1>2, <2>2, <3>4
    <3>6. RootAt(s)'
      BY <3>1, <3>3, <3>5 DEF RootAt, h
    <3>7. k'[s] \in Nat /\ start'[s] \in Nat /\ bits'[s] \in 1..(MaxBits - 1)
      BY <1>1, <1>2, <2>2, <3>1, <3>2
    <3> QED BY <3>1, <3>6, <3>7 DEF Phases
  <2>4. CASE bits[s] = 1
    <3>1. pc'[s] = "reduce" /\ bits'[s] = bits[s]
      BY <1>3, <2>4 DEF LastBlock, IInv, TypeOK
    <3>2. k'[s] \in Nat
      BY <1>1, <2>2
    <3> QED BY <1>2, <3>1, <3>2 DEF RootAt, Phases
  <2> QED BY <2>3, <2>4
<1>4. CASE pc[s] = "invntt"
  <2>1. /\ 2 * m - 1 - k[s] \in 0..(m - 1) /\ start[s] = (2 * m - 1 - k[s]) * (2 * l)
        /\ k'[s] = k[s] - 1
    BY <1>1, <1>4 DEF IInv, TypeOK, RootMatchesBlock, RootAt, LastBlock
  <2>2. k'[s] = m - 1
    <3> HIDE DEF m, l
    <3>1. 2 * m - 1 - k[s] = m - 1
      BY <1>1, <1>2, <2>1, Following
    <3> QED BY <1>1, <1>2, <2>1, <3>1
  <2>3. CASE bits[s] # MaxBits - 1
    <3>0. pc'[s] = "invntt" /\ bits'[s] = bits[s] + 1
      BY <1>4, <2>3 DEF LastBlock, IInv, TypeOK
    <3>r. /\ (bits[s] + 1) - 1 = bits[s]
          /\ bits[s] + 1 \in 2..(MaxBits - 1) /\ bits[s] + 1 \in 1..(MaxBits - 1)
      <4> HIDE DEF m, l
      <4>1. bits[s] \in 1..(MaxBits - 1) /\ MaxBits \in Nat
        BY <1>2
      <4> QED BY <4>1, <2>3
    <3>1. /\ pc'[s] = "invntt" /\ bits'[s] = bits[s] + 1 /\ (bits[s] + 1) - 1 = bits[s]
          /\ bits[s] + 1 \in 2..(MaxBits - 1) /\ bits[s] + 1 \in 1..(MaxBits - 1)
      BY <3>0, <3>r
    <3>2. m = 2 * Pow2[MaxBits - 1 - (bits[s] + 1)]
      BY <3>1, NextLayer DEF Blocks
    <3> DEFINE h == HalfBlock(s)'
               b == Blocks(s)'
    <3>3. m = 2 * b /\ b \in Nat \ {0} /\ h \in Nat \ {0}
      BY <3>1, <3>2, LayerSizes DEF Blocks, HalfBlock
    <3> HIDE DEF m, l, h, b
    <3>4. /\ k'[s] \in b..(2 * b - 1) /\ start'[s] = (2 * b - 1 - k'[s]) * (2 * h)
          /\ idx'[s] < h
      BY <1>2, <2>2, <3>3
    <3>5. RootAt(s)'
      BY <3>1, <3>4 DEF RootAt, h, b
    <3>6. k'[s] \in Nat /\ start'[s] \in Nat /\ bits'[s] \in 1..(MaxBits - 1)
      BY <1>1, <1>2, <2>2, <3>1
    <3> QED BY <3>1, <3>5, <3>6 DEF Phases
  <2>4. CASE bits[s] = MaxBits - 1
    <3>1. pc'[s] = "scale" /\ bits'[s] = bits[s]
      BY <1>4, <2>4 DEF LastBlock, IInv, TypeOK
    <3>2. k'[s] \in Nat
      BY <1>1, <2>2
    <3> QED BY <1>2, <3>1, <3>2 DEF RootAt, Phases
  <2> QED BY <2>3, <2>4
<1> QED BY <1>3, <1>4

(* A butterfly, whichever block comes after it.                            *)
LEMMA ButterflyWrite ==
  ASSUME IInv, NEW s \in Sessions, NttButterfly(s) \/ InvButterfly(s)
  PROVE  /\ pc[s] \in {"ntt", "invntt"}
         /\ r'[s] \in [Indices -> Int] /\ r' = [r EXCEPT ![s] = r'[s]]
         /\ UNCHANGED << g_ntt_seed, own, seed, input >>
         /\ pc[s] = "ntt" =>
              r'[s] = Applied(NttBlockAt(base[s], start[s], HalfBlock(s), Zeta[k[s]]), base[s],
                              Visited(s) \cup {Slot(s, idx[s])}, start[s], HalfBlock(s))
         /\ pc[s] = "invntt" =>
              r'[s] = Applied(InvBlockAt(base[s], start[s], HalfBlock(s), Zeta[k[s]]), base[s],
                              Visited(s) \cup {Slot(s, idx[s])}, start[s], HalfBlock(s))
<1>1. r \in [Sessions -> [Indices -> Int]]
  BY DEF IInv, TypeOK
<1>2. CASE NttButterfly(s)
  <2>1. /\ pc[s] = "ntt" /\ UNCHANGED << g_ntt_seed, own, seed, input >>
        /\ r' = [r EXCEPT ![s] = NttButterflyAt(r[s], Element(s), HalfBlock(s), Zeta[k[s]])]
    BY <1>2 DEF NttButterfly
  <2>2. r'[s] = NttButterflyAt(r[s], Element(s), HalfBlock(s), Zeta[k[s]])
    BY <1>1, <2>1
  <2> QED BY <2>1, <2>2, NttProgress
<1>3. CASE InvButterfly(s)
  <2>1. /\ pc[s] = "invntt" /\ UNCHANGED << g_ntt_seed, own, seed, input >>
        /\ r' = [r EXCEPT ![s] = InvButterflyAt(r[s], Element(s), HalfBlock(s), Zeta[k[s]])]
    BY <1>3 DEF InvButterfly
  <2>2. r'[s] = InvButterflyAt(r[s], Element(s), HalfBlock(s), Zeta[k[s]])
    BY <1>1, <2>1
  <2> QED BY <2>1, <2>2, InvProgress
<1> QED BY <1>2, <1>3

LEMMA ButterflyInv ==
  ASSUME IInv, NEW s \in Sessions, NttButterfly(s) \/ InvButterfly(s)
  PROVE  IInv'
<1>1. /\ pc[s] \in {"ntt", "invntt"}
      /\ r'[s] \in [Indices -> Int] /\ r' = [r EXCEPT ![s] = r'[s]]
      /\ UNCHANGED << g_ntt_seed, own, seed, input >>
  BY ButterflyWrite
<1>2. CASE SameBlock(s)
  <2>1. TypeOK'
    <3>1. idx[s] + 1 \in Nat
      BY DEF IInv, TypeOK
    <3> QED BY <1>1, <1>2, <3>1 DEF IInv, TypeOK, SameBlock
  <2>2. \A t \in Sessions \ {s} : Untouched(t)
    BY <1>1, <1>2 DEF IInv, TypeOK, SameBlock, Untouched
  <2>3. RootAt(s)' /\ PartialAt(s)'
    BY <1>1, <1>2, ButterflyWrite, SameBlockInv
  <2>4. \A t \in Sessions : RootAt(t)' /\ PartialAt(t)'
    BY <2>2, <2>3, Frame
  <2> QED BY <2>1, <2>4 DEF IInv, RootMatchesBlock, PartialBlock
<1>3. CASE \/ pc[s] = "ntt" /\ NextBlock(s, k[s] + 1)
           \/ pc[s] = "invntt" /\ NextBlock(s, k[s] - 1)
  <2>1. RootAt(s)' /\ k'[s] \in Nat /\ start'[s] \in Nat
    BY <1>3, NextBlockRoot
  <2>2. /\ idx' = [idx EXCEPT ![s] = 0] /\ start' = [start EXCEPT ![s] = start'[s]]
        /\ k' = [k EXCEPT ![s] = k'[s]] /\ base' = [base EXCEPT ![s] = r'[s]]
        /\ UNCHANGED << pc, bits >>
    BY <1>3 DEF IInv, TypeOK, NextBlock
  <2>3. TypeOK'
    BY <1>1, <2>1, <2>2 DEF IInv, TypeOK
  <2>4. \A t \in Sessions \ {s} : Untouched(t)
    BY <1>1, <2>2 DEF IInv, TypeOK, Untouched
  <2>5. PartialAt(s)'
    <3>1. base'[s] = r'[s] /\ idx'[s] = 0
      BY <2>2 DEF IInv, TypeOK
    <3> QED BY <1>1, <3>1, FreshBlock
  <2>6. \A t \in Sessions : RootAt(t)' /\ PartialAt(t)'
    BY <2>1, <2>4, <2>5, Frame
  <2> QED BY <2>3, <2>6 DEF IInv, RootMatchesBlock, PartialBlock
<1>4. CASE \/ pc[s] = "ntt" /\ LastBlock(s, k[s] + 1, 1, bits[s] - 1, "reduce")
           \/ pc[s] = "invntt" /\ LastBlock(s, k[s] - 1, MaxBits - 1, bits[s] + 1, "scale")
  <2>1. /\ RootAt(s)' /\ k'[s] \in Nat /\ start'[s] \in Nat /\ bits'[s] \in 1..(MaxBits - 1)
        /\ pc'[s] \in Phases
    BY <1>4, LastBlockRoot
  <2>2. /\ idx' = [idx EXCEPT ![s] = 0] /\ start' = [start EXCEPT ![s] = start'[s]]
        /\ k' = [k EXCEPT ![s] = k'[s]] /\ base' = [base EXCEPT ![s] = r'[s]]
        /\ pc' = [pc EXCEPT ![s] = pc'[s]] /\ bits' = [bits EXCEPT ![s] = bits'[s]]
    BY <1>4 DEF IInv, TypeOK, LastBlock
  <2>3. TypeOK'
    BY <1>1, <2>1, <2>2 DEF IInv, TypeOK
  <2>4. \A t \in Sessions \ {s} : Untouched(t)
    BY <1>1, <2>2 DEF IInv, TypeOK, Untouched
  <2>5. PartialAt(s)'
    <3>1. base'[s] = r'[s] /\ idx'[s] = 0
      BY <2>2 DEF IInv, TypeOK
    <3> QED BY <1>1, <3>1, FreshBlock
  <2>6. \A t \in Sessions : RootAt(t)' /\ PartialAt(t)'
    BY <2>1, <2>4, <2>5, Frame
  <2> QED BY <2>3, <2>6 DEF IInv, RootMatchesBlock, PartialBlock
<1> QED BY <1>2, <1>3, <1>4 DEF NttButterfly, InvButterfly

LEMMA NextInv == IInv /\ [Next]_vars => IInv'
<1> SUFFICES ASSUME IInv, [Next]_vars PROVE IInv'
  OBVIOUS
<1>1. ASSUME NEW s \in Sessions, Step(s) PROVE IInv'
  <2>1. CASE BeginStoreSeed(s) \/ EndStoreSeed(s)
    BY <2>1, StoreInv
  <2>2. CASE BeginNtt(s) \/ BeginInvNtt(s)
    BY <2>2, BeginInv
  <2>3. CASE NttButterfly(s) \/ InvButterfly(s)
    BY <2>3, ButterflyInv
  <2>4. CASE Reduce(s) \/ Product(s) \/ Scale(s)
    BY <2>4, PassInv
  <2> QED BY <1>1, <2>1, <2>2, <2>3, <2>4 DEF Step
<1>2. CASE UNCHANGED vars
  <2>1. TypeOK'
    BY <1>2 DEF IInv, TypeOK, vars
  <2>2. \A t \in Sessions : Untouched(t)
    BY <1>2 DEF vars, Untouched
  <2>3. \A t \in Sessions : RootAt(t)' /\ PartialAt(t)'
    BY <2>2, Frame
  <2> QED BY <2>1, <2>3 DEF IInv, RootMatchesBlock, PartialBlock
<1> QED BY <1>1, <1>2 DEF Next

-----------------------------------------------------------------------------
(* The inductive invariant holds in every reachable state.                 *)
THEOREM Invariance == Spec => []IInv
BY InitInv, NextInv, PTL DEF Spec

(* Type correctness: among the rest, no index leaves the coefficient array *)
(* and every seed is one that some session stored.                         *)
THEOREM TypeCorrect == Spec => []TypeOK
<1>1. IInv => TypeOK
  BY DEF IInv
<1> QED BY <1>1, Invariance, PTL

(* The root that td18_ntt and td18_invntt read is that of the block they   *)
(* are in, whatever the ring size.                                         *)
THEOREM RootsCorrect == Spec => []RootMatchesBlock
<1>1. IInv => RootMatchesBlock
  BY DEF IInv
<1> QED BY <1>1, Invariance, PTL

(* In the middle of a block exactly the visited butterflies were applied,  *)
(* whatever seeds the threads raced on.                                    *)
THEOREM PartialCorrect == Spec => []PartialBlock
<1>1. IInv => PartialBlock
  BY DEF IInv
<1> QED BY <1>1, Invariance, PTL

-----------------------------------------------------------------------------
(* The operators of the abstract specification are those of this one.      *)
LEMMA SameOperators ==
  /\ Ordered!RingSize = RingSize
  /\ \A f, st, len, z :
       /\ Ordered!NttBlockAt(f, st, len, z) = NttBlockAt(f, st, len, z)
       /\ Ordered!InvBlockAt(f, st, len, z) = InvBlockAt(f, st, len, z)
  /\ \A f : /\ Ordered!PolyReduce(f) = PolyReduce(f)
            /\ Ordered!PolyScale(f) = PolyScale(f)
            /\ Ordered!PolyReduce(Ordered!PolyBaseMul(f, OperandHat))
                 = PolyReduce(PolyBaseMul(f, OperandHat))
BY DEF Ordered!RingSize, RingSize, Ordered!Indices, Indices, Ordered!NttBlockAt, NttBlockAt,
       Ordered!InvBlockAt, InvBlockAt, Ordered!NttLo, NttLo, Ordered!NttHi, NttHi,
       Ordered!InvLo, InvLo, Ordered!InvHi, InvHi, Ordered!FqMul, FqMul,
       Ordered!MontgomeryReduce, MontgomeryReduce, Ordered!BarrettReduce, BarrettReduce,
       Ordered!Int16, Int16, Ordered!Q, Q, Ordered!QINV, QINV, Ordered!BarrettV, BarrettV,
       Ordered!PolyReduce, PolyReduce, Ordered!PolyScale, PolyScale,
       Ordered!PolyBaseMul, PolyBaseMul, Ordered!BaseMul, BaseMul

(* The phase of a session as the abstract specification sees it.           *)
Phase == [s \in Sessions |-> IF pc[s] \in {"call", "storing"} THEN "ready" ELSE pc[s]]

LEMMA InitRefines == Init => Ordered!Init
BY DEF Init, Ordered!Init

LEMMA StoreRefines ==
  ASSUME IInv, NEW s \in Sessions, BeginStoreSeed(s) \/ EndStoreSeed(s)
  PROVE  UNCHANGED Ordered!vars
<1>1. UNCHANGED << base, bits, start, k >>
  BY DEF BeginStoreSeed, EndStoreSeed, loop
<1>2. Phase' = Phase
  BY DEF IInv, TypeOK, BeginStoreSeed, EndStoreSeed, Move, Phase
<1> QED BY <1>1, <1>2 DEF Ordered!vars, Phase

LEMMA MoveRefines ==
  ASSUME IInv, NEW s \in Sessions, NEW p \in Phases \ {"call", "storing"},
         NEW q \in Phases \ {"call", "storing"}, Move(s, p, q)
  PROVE  Ordered!Move(s, p, q)
<1>1. Phase[s] = p /\ Phase' = [Phase EXCEPT ![s] = q]
  BY DEF IInv, TypeOK, Move, Phase, Phases
<1> QED BY <1>1 DEF Ordered!Move, Phase

(* The array before a pass is the saved one.                               *)
LEMMA Saved ==
  ASSUME IInv, NEW s \in Sessions, pc[s] \notin {"ntt", "invntt"}
  PROVE  r[s] = base[s]
BY DEF IInv, PartialBlock, PartialAt

LEMMA PassRefines ==
  ASSUME IInv, NEW s \in Sessions, Reduce(s) \/ Product(s) \/ Scale(s)
  PROVE  Ordered!Step(s)
<1>1. /\ r \in [Sessions -> [Indices -> Int]] /\ base \in [Sessions -> [Indices -> Int]]
  BY DEF IInv, TypeOK
<1>2. CASE Reduce(s)
  <2>1. Ordered!Move(s, "reduce", "product")
    BY <1>2, MoveRefines DEF Reduce, Phases
  <2>2. /\ base' = [base EXCEPT ![s] = PolyReduce(base[s])]
        /\ UNCHANGED << bits, start, k >>
    <3>1. r[s] = base[s]
      BY <1>2, Saved DEF Reduce, Move
    <3> QED BY <1>1, <1>2, <3>1 DEF Reduce, loop
  <2> QED BY <2>1, <2>2, SameOperators DEF Ordered!Step, Ordered!Reduce
<1>3. CASE Product(s)
  <2>1. Ordered!Move(s, "product", "inv_ready")
    BY <1>3, MoveRefines DEF Product, Phases
  <2>2. /\ base' = [base EXCEPT ![s] = PolyReduce(PolyBaseMul(base[s], OperandHat))]
        /\ UNCHANGED << bits, start, k >>
    <3>1. r[s] = base[s]
      BY <1>3, Saved DEF Product, Move
    <3> QED BY <1>1, <1>3, <3>1 DEF Product, loop
  <2> QED BY <2>1, <2>2, SameOperators DEF Ordered!Step, Ordered!Product
<1>4. CASE Scale(s)
  <2>1. Ordered!Move(s, "scale", "done")
    BY <1>4, MoveRefines DEF Scale, Phases
  <2>2. /\ base' = [base EXCEPT ![s] = PolyScale(base[s])]
        /\ UNCHANGED << bits, start, k >>
    <3>1. r[s] = base[s]
      BY <1>4, Saved DEF Scale, Move
    <3> QED BY <1>1, <1>4, <3>1 DEF Scale, loop
  <2> QED BY <2>1, <2>2, SameOperators DEF Ordered!Step, Ordered!Scale
<1> QED BY <1>2, <1>3, <1>4

LEMMA BeginRefines ==
  ASSUME IInv, NEW s \in Sessions, BeginNtt(s) \/ BeginInvNtt(s)
  PROVE  Ordered!Step(s)
<1>1. CASE BeginNtt(s)
  <2>1. Ordered!Move(s, "ready", "ntt")
    BY <1>1, MoveRefines DEF BeginNtt, Phases
  <2>2. Ordered!BeginNtt(s)
    BY <1>1, <2>1 DEF BeginNtt, Ordered!BeginNtt
  <2> QED BY <2>2 DEF Ordered!Step
<1>2. CASE BeginInvNtt(s)
  <2>1. Ordered!Move(s, "inv_ready", "invntt")
    BY <1>2, MoveRefines DEF BeginInvNtt, Phases
  <2>2. Ordered!BeginInvNtt(s)
    BY <1>2, <2>1, SameOperators DEF BeginInvNtt, Ordered!BeginInvNtt
  <2> QED BY <2>2 DEF Ordered!Step
<1> QED BY <1>1, <1>2

(* The butterfly at the last slot leaves the whole block transformed.      *)
LEMMA BlockDone ==
  ASSUME IInv, NEW s \in Sessions, NttButterfly(s) \/ InvButterfly(s),
         idx[s] + 1 = HalfBlock(s)
  PROVE  /\ pc[s] = "ntt" =>
              r'[s] = NttBlockAt(base[s], start[s], HalfBlock(s), Zeta[k[s]])
         /\ pc[s] = "invntt" =>
              r'[s] = InvBlockAt(base[s], start[s], HalfBlock(s), Zeta[k[s]])
<1> DEFINE l == HalfBlock(s)
<1>1. /\ l \in Nat /\ start[s] \in Nat /\ start[s] + 2 * l <= RingSize /\ Zeta[k[s]] \in Int
      /\ base[s] \in [Indices -> Int] /\ pc[s] \in {"ntt", "invntt"}
  BY ButterflyWrite, InsideBlock DEF IInv, TypeOK
<1>2. Visited(s) \cup {Slot(s, idx[s])} = 0..(l - 1)
  BY <1>1, NewSlot
<1>3. /\ Applied(NttBlockAt(base[s], start[s], l, Zeta[k[s]]), base[s],
                 0..(l - 1), start[s], l) = NttBlockAt(base[s], start[s], l, Zeta[k[s]])
      /\ Applied(InvBlockAt(base[s], start[s], l, Zeta[k[s]]), base[s],
                 0..(l - 1), start[s], l) = InvBlockAt(base[s], start[s], l, Zeta[k[s]])
  BY <1>1, AllVisited
<1> QED BY <1>2, <1>3, ButterflyWrite, Zenon

(* A butterfly in the middle of a block is no step of the abstract         *)
(* specification; the last one of a block is the block.                    *)
LEMMA ButterflyRefines ==
  ASSUME IInv, NEW s \in Sessions, NttButterfly(s) \/ InvButterfly(s)
  PROVE  Ordered!Step(s) \/ UNCHANGED Ordered!vars
<1>1. CASE SameBlock(s)
  <2>1. UNCHANGED << pc, base, bits, start, k >>
    BY <1>1 DEF SameBlock
  <2>2. Phase' = Phase
    BY <2>1 DEF Phase
  <2> QED BY <2>1, <2>2 DEF Ordered!vars, Phase
<1> DEFINE l == HalfBlock(s)
<1>2. /\ l \in Nat /\ start[s] \in Nat /\ start[s] + 2 * l <= RingSize /\ Zeta[k[s]] \in Int
      /\ base[s] \in [Indices -> Int] /\ pc[s] \in {"ntt", "invntt"}
      /\ bits[s] \in 1..(MaxBits - 1) /\ MaxBits \in Nat /\ idx[s] \in Nat
  BY ButterflyWrite, InsideBlock, Pow2Assumption DEF IInv, TypeOK
<1>3. ASSUME idx[s] + 1 = l
      PROVE  /\ pc[s] = "ntt" => r'[s] = NttBlockAt(base[s], start[s], l, Zeta[k[s]])
             /\ pc[s] = "invntt" => r'[s] = InvBlockAt(base[s], start[s], l, Zeta[k[s]])
  BY <1>3, BlockDone
<1>4. Phase[s] = pc[s] /\ Ordered!HalfBlock(s) = l
  BY <1>2 DEF Phase, Ordered!HalfBlock, HalfBlock
<1>5. CASE NttButterfly(s) /\ ~ SameBlock(s)
  <2>1. /\ pc[s] = "ntt" /\ idx[s] + 1 = l
        /\ k' = [k EXCEPT ![s] = k[s] + 1] /\ base' = [base EXCEPT ![s] = r'[s]]
    BY <1>5 DEF NttButterfly, NextBlock, LastBlock
  <2>2. base' = [base EXCEPT ![s] = NttBlockAt(base[s], start[s], l, Zeta[k[s]])]
    BY <1>3, <2>1
  <2>3. CASE NextBlock(s, k[s] + 1)
    <3>1. /\ start[s] + 2 * l < RingSize /\ start' = [start EXCEPT ![s] = start[s] + 2 * l]
          /\ UNCHANGED << pc, bits >>
      BY <2>3 DEF NextBlock
    <3>2. Phase' = Phase
      BY <3>1 DEF Phase
    <3> HIDE DEF l
    <3> QED BY <1>4, <2>1, <2>2, <3>1, <3>2, SameOperators
            DEF Ordered!Step, Ordered!NttBlock, Phase
  <2>4. CASE LastBlock(s, k[s] + 1, 1, bits[s] - 1, "reduce")
    <3>1. start[s] + 2 * l >= RingSize /\ start' = [start EXCEPT ![s] = 0]
      BY <2>4 DEF LastBlock
    <3>2. CASE bits[s] # 1
      <4>1. bits' = [bits EXCEPT ![s] = bits[s] - 1] /\ UNCHANGED pc
        BY <2>4, <3>2 DEF LastBlock
      <4>2. Phase' = Phase /\ bits[s] > 1
        BY <1>2, <3>2, <4>1 DEF Phase
      <4> HIDE DEF l
      <4> QED BY <1>4, <2>1, <2>2, <3>1, <4>1, <4>2, SameOperators
              DEF Ordered!Step, Ordered!NttBlock, Phase
    <3>3. CASE bits[s] = 1
      <4>1. pc' = [pc EXCEPT ![s] = "reduce"] /\ UNCHANGED bits
        BY <2>4, <3>3 DEF LastBlock
      <4>2. Phase' = [Phase EXCEPT ![s] = "reduce"]
        BY <4>1 DEF Phase, IInv, TypeOK
      <4> HIDE DEF l
      <4> QED BY <1>4, <2>1, <2>2, <3>1, <3>3, <4>1, <4>2, SameOperators
              DEF Ordered!Step, Ordered!NttBlock, Phase
    <3> QED BY <3>2, <3>3
  <2> QED BY <1>5, <2>3, <2>4 DEF NttButterfly
<1>6. CASE InvButterfly(s) /\ ~ SameBlock(s)
  <2>1. /\ pc[s] = "invntt" /\ idx[s] + 1 = l
        /\ k' = [k EXCEPT ![s] = k[s] - 1] /\ base' = [base EXCEPT ![s] = r'[s]]
    BY <1>6 DEF InvButterfly, NextBlock, LastBlock
  <2>2. base' = [base EXCEPT ![s] = InvBlockAt(base[s], start[s], l, Zeta[k[s]])]
    BY <1>3, <2>1
  <2>3. CASE NextBlock(s, k[s] - 1)
    <3>1. /\ start[s] + 2 * l < RingSize /\ start' = [start EXCEPT ![s] = start[s] + 2 * l]
          /\ UNCHANGED << pc, bits >>
      BY <2>3 DEF NextBlock
    <3>2. Phase' = Phase
      BY <3>1 DEF Phase
    <3> HIDE DEF l
    <3> QED BY <1>4, <2>1, <2>2, <3>1, <3>2, SameOperators
            DEF Ordered!Step, Ordered!InvBlock, Phase
  <2>4. CASE LastBlock(s, k[s] - 1, MaxBits - 1, bits[s] + 1, "scale")
    <3>1. start[s] + 2 * l >= RingSize /\ start' = [start EXCEPT ![s] = 0]
      BY <2>4 DEF LastBlock
    <3>2. CASE bits[s] # MaxBits - 1
      <4>1. bits' = [bits EXCEPT ![s] = bits[s] + 1] /\ UNCHANGED pc
        BY <2>4, <3>2 DEF LastBlock
      <4>2. Phase' = Phase
        BY <4>1 DEF Phase
      <4> HIDE DEF l
      <4>3. bits[s] < MaxBits - 1
        BY <1>2, <3>2
      <4> QED BY <1>4, <2>1, <2>2, <3>1, <4>1, <4>2, <4>3, SameOperators
              DEF Ordered!Step, Ordered!InvBlock, Phase
    <3>3. CASE bits[s] = MaxBits - 1
      <4>1. pc' = [pc EXCEPT ![s] = "scale"] /\ UNCHANGED bits
        BY <2>4, <3>3 DEF LastBlock
      <4>2. Phase' = [Phase EXCEPT ![s] = "scale"]
        BY <4>1 DEF Phase, IInv, TypeOK
      <4> HIDE DEF l
      <4> QED BY <1>4, <2>1, <2>2, <3>1, <3>3, <4>1, <4>2, SameOperators
              DEF Ordered!Step, Ordered!InvBlock, Phase
    <3> QED BY <3>2, <3>3
  <2> QED BY <1>6, <2>3, <2>4 DEF InvButterfly
<1> QED BY <1>1, <1>5, <1>6

LEMMA NextRefines == IInv /\ [Next]_vars => [Ordered!Next]_(Ordered!vars)
<1> SUFFICES ASSUME IInv, [Next]_vars PROVE Ordered!Next \/ UNCHANGED Ordered!vars
  OBVIOUS
<1>1. ASSUME NEW s \in Sessions, Step(s)
      PROVE  Ordered!Step(s) \/ UNCHANGED Ordered!vars
  BY <1>1, StoreRefines, PassRefines, BeginRefines, ButterflyRefines DEF Step
<1>2. CASE UNCHANGED vars
  BY <1>2 DEF vars, Ordered!vars
<1> QED BY <1>1, <1>2 DEF Next, Ordered!Next

(* The loops of ntt.c, shuffled by whatever seeds the threads store and    *)
(* race on, implement the transforms that know no seed and no order.       *)
THEOREM Refinement == Spec => ImplementsOrdered
<1>1. Init => Ordered!Init
  BY InitRefines
<1>2. IInv /\ [Next]_vars => [Ordered!Next]_(Ordered!vars)
  BY NextRefines
<1> QED BY <1>1, <1>2, Invariance, PTL DEF Spec, ImplementsOrdered, Ordered!Spec

-----------------------------------------------------------------------------
(* How large the results of the reductions are.                            *)
LEMMA MontgomeryBound ==
  ASSUME NEW a \in Int, Below(a, 54525953)
  PROVE  Below(MontgomeryReduce(a), Q)
<1> DEFINE t == Int16(Int16(a) * QINV)
           u == a - t * Q
<1>1. \A x \in Int : Int16(x) \in Int /\ -32768 <= Int16(x) /\ Int16(x) <= 32767
  BY DEF Int16
<1>2. Int16(a) * QINV \in Int
  BY <1>1 DEF QINV
<1>3. t \in Int /\ -32768 <= t /\ t <= 32767
  BY <1>1, <1>2
<1> HIDE DEF t
<1>4. u \in Int /\ -163610624 <= u /\ u <= 163610624
  BY <1>3 DEF Below, Q
<1> HIDE DEF u
<1>5. u \div 65536 \in Int /\ -2497 <= u \div 65536 /\ u \div 65536 <= 2497
  BY <1>4
<1>6. \A x \in Int : -2497 <= x /\ x <= 2497 => Int16(x) = x
  BY DEF Int16
<1>7. MontgomeryReduce(a) = Int16(u \div 65536)
  BY DEF MontgomeryReduce, u, t
<1> QED BY <1>5, <1>6, <1>7 DEF Below, Q

LEMMA BarrettBound ==
  ASSUME NEW a \in Int, Below(a, 29962)
  PROVE  Below(BarrettReduce(a), Q)
<1> DEFINE t == (20159 * a + 33554432) \div 67108864
<1>1. t \in Int /\ 67108864 * t <= 20159 * a + 33554432
      /\ 20159 * a + 33554432 < 67108864 * t + 67108864
  OBVIOUS
<1>2. BarrettReduce(a) = Int16(a - Int16(t * Q))
  BY DEF BarrettReduce, BarrettV, Q
<1> HIDE DEF t
<1>3. -1665 <= a - 3329 * t /\ a - 3329 * t <= 1665
  BY <1>1 DEF Below
<1>4. -9 <= t /\ t <= 9
  BY <1>1 DEF Below
<1>5. \A x \in Int : -32768 <= x /\ x <= 32767 => Int16(x) = x
  BY DEF Int16
<1>6. Int16(t * Q) = 3329 * t
  BY <1>1, <1>4, <1>5 DEF Q
<1>7. Int16(a - 3329 * t) = a - 3329 * t
  BY <1>1, <1>3, <1>5
<1>8. BarrettReduce(a) = a - 3329 * t
  <2>1. Int16(a - Int16(t * Q)) = Int16(a - 3329 * t)
    BY <1>6
  <2> QED BY <1>2, <1>7, <2>1
<1>9. Below(a - 3329 * t, Q)
  BY <1>1, <1>3 DEF Below, Q
<1> QED BY <1>8, <1>9

LEMMA ProductBound ==
  ASSUME NEW a \in Int, NEW b \in Int, NEW m \in Nat, NEW n \in Nat,
         -m <= a, a <= m, -n <= b, b <= n
  PROVE  -(m * n) <= a * b /\ a * b <= m * n
<1>1. CASE a >= 0 /\ b >= 0
  <2>1. 0 <= a * b /\ a * b <= m * b /\ m * b <= m * n
    BY <1>1
  <2> QED BY <2>1
<1>2. CASE a >= 0 /\ b < 0
  <2>1. 0 <= a * (-b) /\ a * (-b) <= m * (-b) /\ m * (-b) <= m * n /\ a * (-b) = -(a * b)
    BY <1>2
  <2> QED BY <2>1
<1>3. CASE a < 0 /\ b >= 0
  <2>1. 0 <= (-a) * b /\ (-a) * b <= m * b /\ m * b <= m * n /\ (-a) * b = -(a * b)
    BY <1>3
  <2> QED BY <2>1
<1>4. CASE a < 0 /\ b < 0
  <2>1. 0 <= (-a) * (-b) /\ (-a) * (-b) <= m * (-b) /\ m * (-b) <= m * n /\ (-a) * (-b) = a * b
    BY <1>4
  <2> QED BY <2>1
<1> QED BY <1>1, <1>2, <1>3, <1>4

(* fqmul with a root, and with a factor below Q.                           *)
LEMMA FqMulBound ==
  ASSUME NEW a \in Int, NEW b \in Int,
         (Below(a, 1665) /\ Below(b, 32768)) \/ (Below(a, Q) /\ Below(b, Q))
  PROVE  FqMul(a, b) \in Int /\ Below(FqMul(a, b), Q)
<1>1. a * b \in Int /\ Below(a * b, 54525953)
  <2>1. CASE Below(a, 1665) /\ Below(b, 32768)
    <3>1. -1664 <= a /\ a <= 1664 /\ -32767 <= b /\ b <= 32767
      BY <2>1 DEF Below
    <3>2. -(1664 * 32767) <= a * b /\ a * b <= 1664 * 32767
      BY <3>1, ProductBound
    <3> QED BY <3>2 DEF Below
  <2>2. CASE Below(a, Q) /\ Below(b, Q)
    <3>1. -3328 <= a /\ a <= 3328 /\ -3328 <= b /\ b <= 3328
      BY <2>2 DEF Below, Q
    <3>2. -(3328 * 3328) <= a * b /\ a * b <= 3328 * 3328
      BY <3>1, ProductBound
    <3> QED BY <3>2 DEF Below
  <2> QED BY <2>1, <2>2
<1>2. Below(MontgomeryReduce(a * b), Q)
  BY <1>1, MontgomeryBound
<1> QED BY <1>2, FqMulType DEF FqMul

(* The two butterflies.  The forward one adds less than Q, the inverse one *)
(* gives back reduced coefficients.                                        *)
LEMMA NttBound ==
  ASSUME NEW a \in Int, NEW b \in Int, NEW z \in Int, NEW limit \in Int,
         Below(z, 1665), Below(a, limit), Below(b, limit), limit + Q < 32768
  PROVE  Below(NttLo(a, b, z), limit + Q) /\ Below(NttHi(a, b, z), limit + Q)
<1>1. Below(b, 32768)
  BY DEF Below, Q
<1>2. FqMul(z, b) \in Int /\ Below(FqMul(z, b), Q)
  BY <1>1, FqMulBound
<1>3. \A x \in Int : -32768 <= x /\ x <= 32767 => Int16(x) = x
  BY DEF Int16
<1> DEFINE m == FqMul(z, b)
<1>4. NttLo(a, b, z) = Int16(a + m) /\ NttHi(a, b, z) = Int16(a - m) /\ m \in Int /\ Below(m, Q)
  BY <1>2 DEF NttLo, NttHi
<1> HIDE DEF m
<1>5. Below(a + m, limit + Q) /\ Below(a - m, limit + Q)
  BY <1>4 DEF Below, Q
<1>6. Int16(a + m) = a + m /\ Int16(a - m) = a - m
  BY <1>3, <1>4, <1>5 DEF Below, Q
<1> QED BY <1>4, <1>5, <1>6

LEMMA InvBound ==
  ASSUME NEW a \in Int, NEW b \in Int, NEW z \in Int,
         Below(z, 1665), Below(a, Q), Below(b, Q)
  PROVE  Below(InvLo(a, b, z), Q) /\ Below(InvHi(a, b, z), Q)
<1>1. \A x \in Int : -32768 <= x /\ x <= 32767 => Int16(x) = x
  BY DEF Int16
<1>2. /\ a + b \in Int /\ b - a \in Int /\ Below(a + b, 29962) /\ Below(b - a, 32768)
      /\ Int16(a + b) = a + b /\ Int16(b - a) = b - a
  BY <1>1 DEF Below, Q
<1>3. Below(BarrettReduce(a + b), Q)
  BY <1>2, BarrettBound
<1>4. Below(FqMul(z, b - a), Q)
  BY <1>2, FqMulBound
<1> QED BY <1>2, <1>3, <1>4 DEF InvLo, InvHi

-----------------------------------------------------------------------------
(* The bounds of the array before a block.  A layer of the forward         *)
(* transform has added its Q only to the blocks it has passed.             *)
LayerLimit(b) == (MaxBits - b) * Q

AllBelow(f, limit) == \A i \in Indices : Below(f[i], limit)
RestBelow(f, first, limit) == \A i \in Indices : i >= first => Below(f[i], limit)

BoundAt(s) ==
  /\ pc[s] = "ntt" =>
       /\ AllBelow(base[s], LayerLimit(bits[s]) + Q)
       /\ RestBelow(base[s], start[s], LayerLimit(bits[s]))
  /\ pc[s] = "reduce" => AllBelow(base[s], MaxBits * Q)
  /\ pc[s] \notin {"ntt", "reduce"} => AllBelow(base[s], Q)

BaseBound == \A s \in Sessions : BoundAt(s)

LEMMA Limits ==
  /\ MaxBits \in Nat /\ MaxBits <= 9 /\ MaxBits * Q < 29962
  /\ \A b \in 1..(MaxBits - 1) :
       /\ LayerLimit(b) \in Int /\ LayerLimit(b) >= Q /\ LayerLimit(b) + Q <= MaxBits * Q
       /\ b > 1 => LayerLimit(b - 1) = LayerLimit(b) + Q
       /\ b = 1 => LayerLimit(b) + Q = MaxBits * Q
       /\ b = MaxBits - 1 => LayerLimit(b) = Q
<1>1. MaxBits \in Nat /\ MaxBits * 3329 < 32768
  BY Pow2Assumption, BoundAssumption DEF Q
<1>2. MaxBits <= 9
  BY <1>1
<1>3. MaxBits * Q < 29962
  BY <1>1, <1>2 DEF Q
<1>4. ASSUME NEW b \in 1..(MaxBits - 1)
      PROVE  /\ LayerLimit(b) \in Int /\ LayerLimit(b) >= Q /\ LayerLimit(b) + Q <= MaxBits * Q
             /\ b > 1 => LayerLimit(b - 1) = LayerLimit(b) + Q
             /\ b = 1 => LayerLimit(b) + Q = MaxBits * Q
             /\ b = MaxBits - 1 => LayerLimit(b) = Q
  BY <1>1 DEF LayerLimit, Q
<1> QED BY <1>1, <1>2, <1>3, <1>4

LEMMA Wider ==
  ASSUME NEW f \in [Indices -> Int], NEW l \in Int, NEW m \in Int, l <= m, AllBelow(f, l)
  PROVE  AllBelow(f, m)
BY DEF AllBelow, Below

(* A block of the forward transform.                                       *)
LEMMA NttBlockBound ==
  ASSUME NEW f \in [Indices -> Int], NEW z \in Int, NEW len \in Nat, NEW st \in Nat,
         st + 2 * len <= RingSize, NEW limit \in Int, limit + Q < 32768, Below(z, 1665),
         AllBelow(f, limit + Q), RestBelow(f, st, limit)
  PROVE  /\ AllBelow(NttBlockAt(f, st, len, z), limit + Q)
         /\ RestBelow(NttBlockAt(f, st, len, z), st + 2 * len, limit)
<1>1. RingSize \in Nat
  BY RingAssumption, Pow2Assumption DEF RingSize
<1> DEFINE g == NttBlockAt(f, st, len, z)
<1>2. ASSUME NEW i \in Indices
      PROVE  /\ Below(g[i], limit + Q)
             /\ i >= st + 2 * len => g[i] = f[i]
  <2>1. CASE i \in st..(st + len - 1)
    <3>1. i \in Indices /\ i + len \in Indices /\ i >= st /\ i + len >= st /\ ~(i >= st + 2 * len)
      BY <1>1, <2>1 DEF Indices
    <3>2. Below(f[i], limit) /\ Below(f[i + len], limit) /\ f[i] \in Int /\ f[i + len] \in Int
      BY <3>1 DEF RestBelow
    <3>3. g[i] = NttLo(f[i], f[i + len], z)
      BY <2>1 DEF NttBlockAt
    <3> QED BY <3>1, <3>2, <3>3, NttBound
  <2>2. CASE i \in (st + len)..(st + 2 * len - 1)
    <3>1. i \in Indices /\ i - len \in Indices /\ i >= st /\ i - len >= st /\ ~(i >= st + 2 * len)
          /\ i \notin st..(st + len - 1)
      BY <1>1, <2>2 DEF Indices
    <3>2. Below(f[i], limit) /\ Below(f[i - len], limit) /\ f[i] \in Int /\ f[i - len] \in Int
      BY <3>1 DEF RestBelow
    <3>3. g[i] = NttHi(f[i - len], f[i], z)
      BY <2>2, <3>1 DEF NttBlockAt
    <3> QED BY <3>1, <3>2, <3>3, NttBound
  <2>3. CASE i \notin st..(st + len - 1) /\ i \notin (st + len)..(st + 2 * len - 1)
    <3>1. g[i] = f[i]
      BY <2>3 DEF NttBlockAt
    <3> QED BY <3>1 DEF AllBelow
  <2> QED BY <2>1, <2>2, <2>3
<1>3. AllBelow(g, limit + Q)
  BY <1>2 DEF AllBelow
<1> HIDE DEF g
<1>4. RestBelow(g, st + 2 * len, limit)
  <2>1. ASSUME NEW i \in Indices, i >= st + 2 * len PROVE Below(g[i], limit)
    <3>1. g[i] = f[i] /\ i >= st
      BY <1>1, <1>2, <2>1 DEF Indices
    <3> QED BY <3>1 DEF RestBelow
  <2> QED BY <2>1 DEF RestBelow
<1> QED BY <1>3, <1>4 DEF g

LEMMA InvBlockBound ==
  ASSUME NEW f \in [Indices -> Int], NEW z \in Int, NEW len \in Nat, NEW st \in Nat,
         st + 2 * len <= RingSize, Below(z, 1665), AllBelow(f, Q)
  PROVE  AllBelow(InvBlockAt(f, st, len, z), Q)
<1>1. RingSize \in Nat
  BY RingAssumption, Pow2Assumption DEF RingSize
<1> DEFINE g == InvBlockAt(f, st, len, z)
<1>2. ASSUME NEW i \in Indices PROVE Below(g[i], Q)
  <2>1. CASE i \in st..(st + len - 1)
    <3>1. i + len \in Indices
      BY <1>1, <2>1 DEF Indices
    <3>2. Below(f[i], Q) /\ Below(f[i + len], Q) /\ f[i] \in Int /\ f[i + len] \in Int
      BY <3>1 DEF AllBelow
    <3>3. g[i] = InvLo(f[i], f[i + len], z)
      BY <2>1 DEF InvBlockAt
    <3> QED BY <3>2, <3>3, InvBound
  <2>2. CASE i \in (st + len)..(st + 2 * len - 1)
    <3>1. i - len \in Indices /\ i \notin st..(st + len - 1)
      BY <1>1, <2>2 DEF Indices
    <3>2. Below(f[i], Q) /\ Below(f[i - len], Q) /\ f[i] \in Int /\ f[i - len] \in Int
      BY <3>1 DEF AllBelow
    <3>3. g[i] = InvHi(f[i - len], f[i], z)
      BY <2>2, <3>1 DEF InvBlockAt
    <3> QED BY <3>2, <3>3, InvBound
  <2>3. CASE i \notin st..(st + len - 1) /\ i \notin (st + len)..(st + 2 * len - 1)
    <3>1. g[i] = f[i]
      BY <2>3 DEF InvBlockAt
    <3> QED BY <3>1 DEF AllBelow
  <2> QED BY <2>1, <2>2, <2>3
<1> QED BY <1>2 DEF AllBelow

(* The passes over the array.                                              *)
LEMMA PassBound ==
  ASSUME NEW f \in [Indices -> Int]
  PROVE  /\ AllBelow(f, MaxBits * Q) => AllBelow(PolyReduce(f), Q)
         /\ AllBelow(f, Q) => AllBelow(PolyScale(f), Q)
<1>1. ASSUME AllBelow(f, MaxBits * Q), NEW i \in Indices PROVE Below(PolyReduce(f)[i], Q)
  <2>1. f[i] \in Int /\ Below(f[i], 29962)
    BY <1>1, Limits DEF AllBelow, Below, Q
  <2>2. PolyReduce(f)[i] = BarrettReduce(f[i])
    BY DEF PolyReduce
  <2> QED BY <2>1, <2>2, BarrettBound
<1>2. ASSUME AllBelow(f, Q), NEW i \in Indices PROVE Below(PolyScale(f)[i], Q)
  <2>1. f[i] \in Int /\ Below(f[i], Q) /\ InvF \in Int /\ Below(InvF, Q)
    BY <1>2, RingAssumption, BoundAssumption DEF AllBelow
  <2>2. PolyScale(f)[i] = FqMul(f[i], InvF)
    BY DEF PolyScale
  <2> QED BY <2>1, <2>2, FqMulBound
<1> QED BY <1>1, <1>2 DEF AllBelow

LEMMA BaseMulBound ==
  ASSUME NEW a0 \in Int, NEW a1 \in Int, NEW b0 \in Int, NEW b1 \in Int, NEW z \in Int,
         Below(a0, Q), Below(a1, Q), Below(b0, Q), Below(b1, Q), Below(z, 1665)
  PROVE  /\ Below(BarrettReduce(Int16(FqMul(a0, b1) + FqMul(a1, b0))), Q)
         /\ Below(BarrettReduce(Int16(FqMul(FqMul(a1, b1), z) + FqMul(a0, b0))), Q)
<1>1. /\ FqMul(a0, b1) \in Int /\ Below(FqMul(a0, b1), Q)
      /\ FqMul(a1, b0) \in Int /\ Below(FqMul(a1, b0), Q)
      /\ FqMul(a1, b1) \in Int /\ Below(FqMul(a1, b1), Q)
      /\ FqMul(a0, b0) \in Int /\ Below(FqMul(a0, b0), Q)
  BY FqMulBound
<1>2. Below(z, Q)
  BY DEF Below, Q
<1>3. FqMul(FqMul(a1, b1), z) \in Int /\ Below(FqMul(FqMul(a1, b1), z), Q)
  BY <1>1, <1>2, FqMulBound
<1>4. ASSUME NEW x \in Int, NEW y \in Int, Below(x, Q), Below(y, Q)
      PROVE  Int16(x + y) \in Int /\ Below(Int16(x + y), 29962)
  <2>1. Int16(x + y) = x + y
    BY <1>4 DEF Int16, Below, Q
  <2> QED BY <1>4, <2>1 DEF Below, Q
<1> QED BY <1>1, <1>3, <1>4, BarrettBound

LEMMA ProductPassBound ==
  ASSUME NEW f \in [Indices -> Int], AllBelow(f, Q)
  PROVE  AllBelow(PolyReduce(PolyBaseMul(f, OperandHat)), Q)
<1>1. 1 \in 1..(MaxBits - 1)
  BY RingAssumption, Pow2Assumption
<1>2. PICK m \in Nat \ {0} : RingSize = 4 * m
  <2>1. Pow2[1] = 2
    BY RingAssumption, Pow2Assumption
  <2>2. Pow2[MaxBits - 1 - 1] \in Nat \ {0} /\ RingSize = Pow2[MaxBits - 1 - 1] * (2 * 2)
    BY <1>1, <2>1, LayerSizes
  <2> QED BY <2>2
<1>3. ASSUME NEW i \in Indices
      PROVE  Below(PolyReduce(PolyBaseMul(f, OperandHat))[i], Q)
  <2> DEFINE p == i - (i % 2)
             root == Zeta[(RingSize \div 4) + (i \div 4)]
             z == IF i % 4 < 2 THEN root ELSE -root
  <2>1. p \in Indices /\ p + 1 \in Indices
    BY <1>2 DEF Indices
  <2>2. (RingSize \div 4) + (i \div 4) \in 1..((RingSize \div 2) - 1)
    BY <1>2 DEF Indices
  <2>3. root \in Int /\ Below(root, 1665)
    BY <2>2, RingAssumption, BoundAssumption
  <2> DEFINE even == FqMul(FqMul(f[p + 1], OperandHat[p + 1]), z) + FqMul(f[p], OperandHat[p])
             odd == FqMul(f[p], OperandHat[p + 1]) + FqMul(f[p + 1], OperandHat[p])
  <2>4. PolyReduce(PolyBaseMul(f, OperandHat))[i] =
          IF i % 2 = 1 THEN BarrettReduce(Int16(odd)) ELSE BarrettReduce(Int16(even))
    BY DEF PolyReduce, PolyBaseMul, BaseMul
  <2>5. /\ f[p] \in Int /\ f[p + 1] \in Int /\ OperandHat[p] \in Int /\ OperandHat[p + 1] \in Int
        /\ Below(f[p], Q) /\ Below(f[p + 1], Q) /\ Below(OperandHat[p], Q) /\ Below(OperandHat[p + 1], Q)
    BY <2>1, RingAssumption, BoundAssumption DEF AllBelow
  <2> HIDE DEF root
  <2>6. z \in Int /\ Below(z, 1665)
    BY <2>3 DEF Below
  <2> HIDE DEF p, z
  <2>7. Below(BarrettReduce(Int16(odd)), Q) /\ Below(BarrettReduce(Int16(even)), Q)
    <3> DEFINE a0 == f[p]
               a1 == f[p + 1]
               b0 == OperandHat[p]
               b1 == OperandHat[p + 1]
    <3>1. /\ a0 \in Int /\ a1 \in Int /\ b0 \in Int /\ b1 \in Int
          /\ Below(a0, Q) /\ Below(a1, Q) /\ Below(b0, Q) /\ Below(b1, Q)
      BY <2>5
    <3>2. /\ odd = FqMul(a0, b1) + FqMul(a1, b0)
          /\ even = FqMul(FqMul(a1, b1), z) + FqMul(a0, b0)
      OBVIOUS
    <3> HIDE DEF a0, a1, b0, b1, even, odd
    <3>3. /\ Below(BarrettReduce(Int16(FqMul(a0, b1) + FqMul(a1, b0))), Q)
          /\ Below(BarrettReduce(Int16(FqMul(FqMul(a1, b1), z) + FqMul(a0, b0))), Q)
      BY <3>1, <2>6, BaseMulBound
    <3> QED BY <3>2, <3>3
  <2> HIDE DEF even, odd
  <2>8. CASE i % 2 = 1
    BY <2>4, <2>7, <2>8
  <2>9. CASE i % 2 # 1
    BY <2>4, <2>7, <2>9
  <2> QED BY <2>8, <2>9
<1> QED BY <1>3 DEF AllBelow


-----------------------------------------------------------------------------
(* The bounds before a block are inductive.                                *)
LEMMA FrameBound ==
  ASSUME NEW t \in Sessions, BoundAt(t), pc'[t] = pc[t], base'[t] = base[t],
         bits'[t] = bits[t], start'[t] = start[t]
  PROVE  BoundAt(t)'
<1>1. LayerLimit(bits[t])' = LayerLimit(bits[t])
  BY DEF LayerLimit
<1> QED BY <1>1 DEF BoundAt, AllBelow, RestBelow

LEMMA InitBound == Init => BaseBound
<1> SUFFICES ASSUME Init, NEW s \in Sessions PROVE BoundAt(s)
  BY DEF BaseBound
<1>1. pc[s] = "call" /\ base[s] \in Inputs
  BY DEF Init
<1>2. AllBelow(base[s], Q)
  BY <1>1, BoundAssumption DEF AllBelow
<1> QED BY <1>1, <1>2 DEF BoundAt

(* A thread that enters td18_ntt has all layers before it.                 *)
LEMMA BeginBound ==
  ASSUME IInv, NEW s \in Sessions, BoundAt(s), BeginNtt(s) \/ BeginInvNtt(s)
  PROVE  BoundAt(s)'
<1>1. AllBelow(base[s], Q) /\ base'[s] = base[s] /\ base[s] \in [Indices -> Int]
  BY DEF IInv, TypeOK, BoundAt, BeginNtt, BeginInvNtt, Move
<1>2. CASE BeginNtt(s)
  <2>1. pc'[s] = "ntt" /\ bits'[s] = MaxBits - 1
    BY <1>2 DEF IInv, TypeOK, BeginNtt, Move
  <2>2. MaxBits - 1 \in 1..(MaxBits - 1)
    BY RingAssumption, Pow2Assumption
  <2>3. LayerLimit(MaxBits - 1) = Q
    BY <2>2, Limits
  <2>4. Q \in Int /\ Q + Q \in Int /\ Q <= Q + Q
    BY DEF Q
  <2>5. AllBelow(base[s], Q + Q)
    BY <1>1, <2>4, Wider
  <2>6. RestBelow(base[s], start'[s], Q)
    BY <1>1 DEF AllBelow, RestBelow
  <2> QED BY <1>1, <2>1, <2>3, <2>5, <2>6 DEF BoundAt
<1>3. CASE BeginInvNtt(s)
  <2>1. pc'[s] = "invntt"
    BY <1>3 DEF IInv, TypeOK, BeginInvNtt, Move
  <2> QED BY <1>1, <2>1 DEF BoundAt
<1> QED BY <1>2, <1>3

LEMMA PassesBound ==
  ASSUME IInv, NEW s \in Sessions, BoundAt(s), Reduce(s) \/ Product(s) \/ Scale(s)
  PROVE  BoundAt(s)'
<1>1. /\ r[s] = base[s] /\ base[s] \in [Indices -> Int]
      /\ r \in [Sessions -> [Indices -> Int]] /\ base \in [Sessions -> [Indices -> Int]]
  BY Saved DEF IInv, TypeOK, Reduce, Product, Scale, Move
<1>2. CASE Reduce(s)
  <2>1. /\ pc[s] = "reduce" /\ pc'[s] = "product" /\ base'[s] = PolyReduce(base[s])
    BY <1>1, <1>2 DEF IInv, TypeOK, Reduce, Move
  <2>2. AllBelow(PolyReduce(base[s]), Q)
    BY <1>1, <2>1, PassBound DEF BoundAt
  <2> QED BY <2>1, <2>2 DEF BoundAt
<1>3. CASE Product(s)
  <2>1. /\ pc[s] = "product" /\ pc'[s] = "inv_ready"
        /\ base'[s] = PolyReduce(PolyBaseMul(base[s], OperandHat))
    BY <1>1, <1>3 DEF IInv, TypeOK, Product, Move
  <2>2. AllBelow(base[s], Q)
    BY <2>1 DEF BoundAt
  <2>3. AllBelow(PolyReduce(PolyBaseMul(base[s], OperandHat)), Q)
    BY <1>1, <2>2, ProductPassBound
  <2> QED BY <2>1, <2>3 DEF BoundAt
<1>4. CASE Scale(s)
  <2>1. /\ pc[s] = "scale" /\ pc'[s] = "done" /\ base'[s] = PolyScale(base[s])
    BY <1>1, <1>4 DEF IInv, TypeOK, Scale, Move
  <2>2. AllBelow(PolyScale(base[s]), Q)
    BY <1>1, <2>1, PassBound DEF BoundAt
  <2> QED BY <2>1, <2>2 DEF BoundAt
<1> QED BY <1>2, <1>3, <1>4

(* What the block a thread is in does to the bounds, once it is complete.  *)
LEMMA WholeBlockBound ==
  ASSUME IInv, NEW s \in Sessions, BoundAt(s), pc[s] \in {"ntt", "invntt"}
  PROVE  /\ pc[s] = "ntt" =>
              LET whole == NttBlockAt(base[s], start[s], HalfBlock(s), Zeta[k[s]])
              IN  /\ AllBelow(whole, LayerLimit(bits[s]) + Q)
                  /\ RestBelow(whole, start[s] + 2 * HalfBlock(s), LayerLimit(bits[s]))
         /\ pc[s] = "invntt" =>
              AllBelow(InvBlockAt(base[s], start[s], HalfBlock(s), Zeta[k[s]]), Q)
<1>1. /\ HalfBlock(s) \in Nat /\ start[s] \in Nat /\ start[s] + 2 * HalfBlock(s) <= RingSize
      /\ Zeta[k[s]] \in Int /\ Below(Zeta[k[s]], 1665) /\ base[s] \in [Indices -> Int]
  BY InsideBlock, BoundAssumption DEF IInv, TypeOK
<1>2. /\ LayerLimit(bits[s]) \in Int /\ LayerLimit(bits[s]) + Q < 32768
  <2>1. bits[s] \in 1..(MaxBits - 1)
    BY DEF IInv, TypeOK
  <2>2. LayerLimit(bits[s]) \in Int /\ LayerLimit(bits[s]) + Q <= MaxBits * Q
    BY <2>1, Limits
  <2> QED BY <2>2, Limits DEF Q
<1>3. CASE pc[s] = "ntt"
  BY <1>1, <1>2, <1>3, NttBlockBound DEF BoundAt
<1>4. CASE pc[s] = "invntt"
  BY <1>1, <1>4, InvBlockBound DEF BoundAt
<1> QED BY <1>3, <1>4


LEMMA ButterflyBound ==
  ASSUME IInv, NEW s \in Sessions, BoundAt(s), NttButterfly(s) \/ InvButterfly(s)
  PROVE  BoundAt(s)'
<1> DEFINE whole == r'[s]
<1>1. /\ pc \in [Sessions -> Phases] /\ bits \in [Sessions -> 1..(MaxBits - 1)]
      /\ start \in [Sessions -> Nat] /\ base \in [Sessions -> [Indices -> Int]]
      /\ whole \in [Indices -> Int] /\ pc[s] \in {"ntt", "invntt"}
      /\ bits[s] \in 1..(MaxBits - 1) /\ MaxBits \in Nat
      /\ start[s] + 2 * HalfBlock(s) <= RingSize
      /\ HalfBlock(s) \in Nat /\ start[s] \in Nat /\ RingSize \in Nat
  <2>1. RingSize \in Nat /\ MaxBits \in Nat
    BY RingAssumption, Pow2Assumption DEF RingSize
  <2> QED BY <2>1, ButterflyWrite, InsideBlock DEF IInv, TypeOK
<1>2. CASE SameBlock(s)
  <2>1. UNCHANGED << pc, base, bits, start >>
    BY <1>2 DEF SameBlock
  <2> QED BY <2>1, FrameBound
<1>3. ASSUME idx[s] + 1 = HalfBlock(s)
      PROVE  /\ pc[s] = "ntt" =>
                  /\ AllBelow(whole, LayerLimit(bits[s]) + Q)
                  /\ RestBelow(whole, start[s] + 2 * HalfBlock(s), LayerLimit(bits[s]))
             /\ pc[s] = "invntt" => AllBelow(whole, Q)
  BY <1>1, <1>3, BlockDone, WholeBlockBound
<1>4. CASE NttButterfly(s) /\ ~ SameBlock(s)
  <2>1. /\ pc[s] = "ntt" /\ base'[s] = whole
        /\ AllBelow(whole, LayerLimit(bits[s]) + Q)
        /\ RestBelow(whole, start[s] + 2 * HalfBlock(s), LayerLimit(bits[s]))
    BY <1>1, <1>3, <1>4 DEF NttButterfly, NextBlock, LastBlock
  <2> HIDE DEF whole
  <2>2. CASE NextBlock(s, k[s] + 1)
    <3>1. pc'[s] = "ntt" /\ bits'[s] = bits[s] /\ start'[s] = start[s] + 2 * HalfBlock(s)
      BY <1>1, <2>1, <2>2 DEF NextBlock
    <3> QED BY <2>1, <3>1 DEF BoundAt
  <2>3. CASE LastBlock(s, k[s] + 1, 1, bits[s] - 1, "reduce") /\ bits[s] # 1
    <3>1. pc'[s] = "ntt" /\ bits'[s] = bits[s] - 1 /\ start'[s] = 0
      BY <1>1, <2>1, <2>3 DEF LastBlock
    <3>2. /\ bits[s] - 1 \in 1..(MaxBits - 1)
          /\ LayerLimit(bits[s] - 1) = LayerLimit(bits[s]) + Q
      BY <1>1, <2>3, Limits
    <3>3. AllBelow(whole, LayerLimit(bits[s] - 1))
      BY <2>1, <3>2
    <3>4. LayerLimit(bits[s] - 1) \in Int /\ LayerLimit(bits[s] - 1) + Q \in Int
          /\ LayerLimit(bits[s] - 1) <= LayerLimit(bits[s] - 1) + Q
      BY <3>2, Limits DEF Q
    <3>5. AllBelow(whole, LayerLimit(bits[s] - 1) + Q)
      BY <1>1, <3>3, <3>4, Wider DEF whole
    <3>6. RestBelow(whole, 0, LayerLimit(bits[s] - 1))
      BY <3>3 DEF AllBelow, RestBelow
    <3> QED BY <2>1, <3>1, <3>5, <3>6 DEF BoundAt
  <2>4. CASE LastBlock(s, k[s] + 1, 1, bits[s] - 1, "reduce") /\ bits[s] = 1
    <3>1. pc'[s] = "reduce"
      BY <1>1, <2>1, <2>4 DEF LastBlock
    <3>2. AllBelow(whole, MaxBits * Q)
      BY <1>1, <2>1, <2>4, Limits
    <3> QED BY <2>1, <3>1, <3>2 DEF BoundAt
  <2> QED BY <1>4, <2>2, <2>3, <2>4 DEF NttButterfly
<1>5. CASE InvButterfly(s) /\ ~ SameBlock(s)
  <2>1. pc[s] = "invntt" /\ base'[s] = whole /\ AllBelow(whole, Q)
    BY <1>1, <1>3, <1>5 DEF InvButterfly, NextBlock, LastBlock
  <2>2. pc'[s] \in {"invntt", "scale"}
    BY <1>1, <1>5, <2>1 DEF InvButterfly, NextBlock, LastBlock
  <2> HIDE DEF whole
  <2> QED BY <2>1, <2>2 DEF BoundAt
<1> QED BY <1>2, <1>4, <1>5

(* A step of one thread does not touch the array of another.               *)
LEMMA OneThread ==
  ASSUME IInv, NEW s \in Sessions, Step(s), NEW t \in Sessions \ {s}
  PROVE  pc'[t] = pc[t] /\ base'[t] = base[t] /\ bits'[t] = bits[t] /\ start'[t] = start[t]
<1> USE DEF IInv, TypeOK, Move, loop
<1>1. CASE BeginStoreSeed(s) \/ EndStoreSeed(s)
  BY <1>1 DEF BeginStoreSeed, EndStoreSeed
<1>2. CASE BeginNtt(s) \/ BeginInvNtt(s)
  BY <1>2 DEF BeginNtt, BeginInvNtt
<1>3. CASE Reduce(s) \/ Product(s) \/ Scale(s)
  BY <1>3 DEF Reduce, Product, Scale
<1>4. CASE NttButterfly(s) \/ InvButterfly(s)
  <2>1. CASE SameBlock(s)
    BY <2>1 DEF SameBlock
  <2>2. CASE NextBlock(s, k[s] + 1) \/ NextBlock(s, k[s] - 1)
    BY <2>2 DEF NextBlock
  <2>3. CASE \/ LastBlock(s, k[s] + 1, 1, bits[s] - 1, "reduce")
             \/ LastBlock(s, k[s] - 1, MaxBits - 1, bits[s] + 1, "scale")
    BY <2>3 DEF LastBlock
  <2> QED BY <1>4, <2>1, <2>2, <2>3 DEF NttButterfly, InvButterfly
<1> QED BY <1>1, <1>2, <1>3, <1>4 DEF Step

LEMMA NextBound == IInv /\ BaseBound /\ [Next]_vars => BaseBound'
<1> SUFFICES ASSUME IInv, BaseBound, [Next]_vars, NEW t \in Sessions PROVE BoundAt(t)'
  BY DEF BaseBound
<1>1. BoundAt(t)
  BY DEF BaseBound
<1>2. CASE UNCHANGED vars
  BY <1>1, <1>2, FrameBound DEF vars, loop
<1>3. ASSUME NEW s \in Sessions, Step(s), s # t PROVE BoundAt(t)'
  BY <1>1, <1>3, OneThread, FrameBound
<1>4. CASE Step(t)
  <2>1. CASE BeginStoreSeed(t) \/ EndStoreSeed(t)
    <3>1. /\ pc[t] \notin {"ntt", "reduce"} /\ pc'[t] \notin {"ntt", "reduce"} /\ base' = base
      BY <2>1 DEF IInv, TypeOK, BeginStoreSeed, EndStoreSeed, Move
    <3> QED BY <1>1, <3>1 DEF BoundAt
  <2> QED BY <1>1, <1>4, <2>1, BeginBound, PassesBound, ButterflyBound DEF Step
<1> QED BY <1>2, <1>3, <1>4 DEF Next

(* In the middle of a block an element is as it was before the block or as *)
(* it will be after it.                                                    *)
LEMMA InnerBound == IInv /\ BaseBound => CoefficientBound
<1> SUFFICES ASSUME IInv, BaseBound, NEW s \in Sessions, NEW i \in Indices
             PROVE  LET limit == CASE pc[s] = "ntt" -> (MaxBits - bits[s] + 1) * Q
                                   [] pc[s] = "reduce" -> MaxBits * Q
                                   [] OTHER -> Q
                    IN  limit < 32768 /\ Below(r[s][i], limit)
  BY DEF CoefficientBound
<1>1. BoundAt(s) /\ PartialAt(s)
  BY DEF IInv, BaseBound, PartialBlock
<1>2. CASE pc[s] = "ntt"
  <2>1. bits[s] \in 1..(MaxBits - 1) /\ MaxBits \in Nat
    BY Pow2Assumption DEF IInv, TypeOK
  <2>2. /\ LayerLimit(bits[s]) + Q = (MaxBits - bits[s] + 1) * Q
        /\ LayerLimit(bits[s]) + Q < 32768
    <3>1. LayerLimit(bits[s]) + Q = (MaxBits - bits[s] + 1) * Q
      BY <2>1 DEF LayerLimit, Q
    <3>2. LayerLimit(bits[s]) \in Int /\ LayerLimit(bits[s]) + Q <= MaxBits * Q
          /\ MaxBits * Q < 29962
      BY <2>1, Limits
    <3> QED BY <2>1, <3>1, <3>2 DEF Q
  <2> DEFINE whole == NttBlockAt(base[s], start[s], HalfBlock(s), Zeta[k[s]])
  <2>3. AllBelow(whole, LayerLimit(bits[s]) + Q) /\ AllBelow(base[s], LayerLimit(bits[s]) + Q)
    BY <1>1, <1>2, WholeBlockBound DEF BoundAt
  <2>4. r[s][i] = whole[i] \/ r[s][i] = base[s][i]
    BY <1>1, <1>2 DEF PartialAt, Applied
  <2> HIDE DEF whole
  <2>5. Below(r[s][i], LayerLimit(bits[s]) + Q)
    BY <2>3, <2>4 DEF AllBelow
  <2> QED BY <1>2, <2>2, <2>5
<1>3. CASE pc[s] = "reduce"
  <2>1. r[s] = base[s] /\ AllBelow(base[s], MaxBits * Q)
    BY <1>1, <1>3 DEF PartialAt, BoundAt
  <2>2. MaxBits * Q < 32768
    BY BoundAssumption
  <2> QED BY <1>3, <2>1, <2>2 DEF AllBelow
<1>4. CASE pc[s] \notin {"ntt", "reduce"}
  <2>1. Below(r[s][i], Q)
    <3>1. AllBelow(base[s], Q)
      BY <1>1, <1>4 DEF BoundAt
    <3>2. CASE pc[s] = "invntt"
      <4> DEFINE whole == InvBlockAt(base[s], start[s], HalfBlock(s), Zeta[k[s]])
      <4>1. AllBelow(whole, Q)
        BY <1>1, <3>2, WholeBlockBound
      <4>2. r[s][i] = whole[i] \/ r[s][i] = base[s][i]
        BY <1>1, <3>2 DEF PartialAt, Applied
      <4> HIDE DEF whole
      <4> QED BY <3>1, <4>1, <4>2 DEF AllBelow
    <3>3. CASE pc[s] # "invntt"
      BY <1>1, <1>4, <3>1, <3>3 DEF PartialAt, AllBelow
    <3> QED BY <3>2, <3>3
  <2>2. Q < 32768
    BY DEF Q
  <2> QED BY <1>4, <2>1, <2>2
<1> QED BY <1>2, <1>3, <1>4

(* However the threads interleave and whatever seeds they read, no sum of  *)
(* td18_ntt or td18_invntt wraps around: the forward transform adds at     *)
(* most Q in each of its layers, and the inverse one keeps everything      *)
(* below Q.                                                                *)
THEOREM CoefficientsBounded == Spec => []CoefficientBound
<1>1. Init => BaseBound
  BY InitBound
<1>2. IInv /\ BaseBound /\ [Next]_vars => BaseBound'
  BY NextBound
<1>3. IInv /\ BaseBound => CoefficientBound
  BY InnerBound
<1> QED BY <1>1, <1>2, <1>3, Invariance, PTL DEF Spec

(* Arithmetic modulo Q.                                                    *)
LEMMA EqualWitness ==
  ASSUME NEW a \in Int, NEW b \in Int
  PROVE  Equal(a, b) <=> \E m \in Int : a = b + Q * m
<1> USE DEF Q
<1>1. ASSUME Equal(a, b) PROVE \E m \in Int : a = b + 3329 * m
  <2>1. a - b = 3329 * ((a - b) \div 3329)
    BY <1>1, SMT DEF Equal
  <2> WITNESS (a - b) \div 3329 \in Int
  <2> QED BY <2>1, SMT
<1>2. ASSUME NEW m \in Int, a = b + 3329 * m PROVE Equal(a, b)
  BY <1>2, SMT DEF Equal
<1> QED BY <1>1, <1>2, SMT

LEMMA EqualSame ==
  ASSUME NEW a \in Int
  PROVE  Equal(a, a)
BY SMT DEF Equal, Q

LEMMA EqualBack ==
  ASSUME NEW a \in Int, NEW b \in Int, Equal(a, b)
  PROVE  Equal(b, a)
BY SMT DEF Equal, Q

LEMMA EqualChain ==
  ASSUME NEW a \in Int, NEW b \in Int, NEW c \in Int, Equal(a, b), Equal(b, c)
  PROVE  Equal(a, c)
BY SMT DEF Equal, Q

LEMMA EqualSum ==
  ASSUME NEW a \in Int, NEW b \in Int, NEW c \in Int, NEW d \in Int, Equal(a, b), Equal(c, d)
  PROVE  Equal(a + c, b + d) /\ Equal(a - c, b - d)
BY SMT DEF Equal, Q

LEMMA EqualTimes ==
  ASSUME NEW a \in Int, NEW b \in Int, NEW c \in Int, NEW d \in Int, Equal(a, b), Equal(c, d)
  PROVE  Equal(a * c, b * d)
<1>1. PICK m \in Int : a = b + Q * m
  BY EqualWitness
<1>2. PICK n \in Int : c = d + Q * n
  BY EqualWitness
<1>3. Q \in Int /\ a * c \in Int /\ b * d \in Int /\ b * n + m * d + Q * m * n \in Int
  BY SMT DEF Q
<1>4. a * c = b * d + Q * (b * n + m * d + Q * m * n)
  BY <1>1, <1>2, <1>3, SMT
<1> QED BY <1>3, <1>4, EqualWitness

-----------------------------------------------------------------------------
(* What the reductions do modulo Q: 2^16 divides by 169, its inverse.      *)
LEMMA MontgomeryValue ==
  ASSUME NEW a \in Int, Below(a, 54525953)
  PROVE  Equal(MontgomeryReduce(a), 169 * a)
<1> DEFINE w == Int16(Int16(a) * QINV)
           u == a - w * Q
           y == u \div 65536
<1>1. \A x \in Int : Int16(x) \in Int /\ -32768 <= Int16(x) /\ Int16(x) <= 32767
  BY DEF Int16
<1>2. \A x \in Int : \E m \in Int : Int16(x) = x - 65536 * m
  <2> TAKE x \in Int
  <2> WITNESS (x + 32768) \div 65536 \in Int
  <2> QED BY DEF Int16
<1>3. Int16(a) \in Int /\ Int16(a) * QINV \in Int /\ Int16(a) * QINV = -3327 * Int16(a)
  BY <1>1 DEF QINV
<1>4. w \in Int /\ -32768 <= w /\ w <= 32767
  BY <1>1, <1>3
<1>5. PICK m \in Int : Int16(a) = a - 65536 * m
  BY <1>2
<1>6. PICK n \in Int : w = -3327 * Int16(a) - 65536 * n
  BY <1>2, <1>3
<1> HIDE DEF w
<1>7. u = 65536 * (169 * Int16(a) + 3329 * n + m)
  BY <1>1, <1>4, <1>5, <1>6 DEF Q
<1>8. u \in Int /\ -163610624 <= u /\ u <= 163610624
  BY <1>4 DEF Below, Q
<1>9. y \in Int /\ u = 65536 * y /\ -2497 <= y /\ y <= 2497
  <2> HIDE DEF u
  <2>1. 169 * Int16(a) + 3329 * n + m \in Int
    BY <1>1
  <2> QED BY <1>7, <1>8, <2>1
<1>10. Int16(y) = y
  <2> HIDE DEF y
  <2> QED BY <1>9 DEF Int16
<1>11. MontgomeryReduce(a) = y
  BY <1>10 DEF MontgomeryReduce, u, w
<1>12. a - 3329 * w = 65536 * y
  BY <1>4, <1>9 DEF Q
<1> HIDE DEF y
<1>13. y = 169 * a + 3329 * (-169 * w - 3327 * y)
  BY <1>4, <1>9, <1>12
<1>14. -169 * w - 3327 * y \in Int
  BY <1>4, <1>9
<1>15. Equal(y, 169 * a)
  BY <1>9, <1>13, <1>14, EqualWitness DEF Q
<1> QED BY <1>11, <1>15

LEMMA BarrettValue ==
  ASSUME NEW a \in Int, Below(a, 29962)
  PROVE  Equal(BarrettReduce(a), a)
<1> DEFINE m == (20159 * a + 33554432) \div 67108864
<1>1. m \in Int /\ 67108864 * m <= 20159 * a + 33554432
      /\ 20159 * a + 33554432 < 67108864 * m + 67108864
  OBVIOUS
<1>2. BarrettReduce(a) = Int16(a - Int16(m * Q))
  BY DEF BarrettReduce, BarrettV, Q
<1> HIDE DEF m
<1>3. -1665 <= a - 3329 * m /\ a - 3329 * m <= 1665
  BY <1>1 DEF Below
<1>4. -9 <= m /\ m <= 9
  BY <1>1 DEF Below
<1>5. \A x \in Int : -32768 <= x /\ x <= 32767 => Int16(x) = x
  BY DEF Int16
<1>6. Int16(m * Q) = 3329 * m
  BY <1>1, <1>4, <1>5 DEF Q
<1>7. Int16(a - 3329 * m) = a - 3329 * m
  BY <1>1, <1>3, <1>5
<1>8. BarrettReduce(a) = a - 3329 * m
  <2>1. Int16(a - Int16(m * Q)) = Int16(a - 3329 * m)
    BY <1>6
  <2> QED BY <1>2, <1>7, <2>1
<1> QED BY <1>1, <1>8 DEF Equal, Q

LEMMA FqMulValue ==
  ASSUME NEW a \in Int, NEW b \in Int,
         (Below(a, 1665) /\ Below(b, 32768)) \/ (Below(a, Q) /\ Below(b, Q))
  PROVE  FqMul(a, b) \in Int /\ Below(FqMul(a, b), Q) /\ Equal(FqMul(a, b), 169 * (a * b))
<1>1. a * b \in Int /\ Below(a * b, 54525953)
  <2>1. CASE Below(a, 1665) /\ Below(b, 32768)
    <3>1. -1664 <= a /\ a <= 1664 /\ -32767 <= b /\ b <= 32767
      BY <2>1 DEF Below
    <3>2. -(1664 * 32767) <= a * b /\ a * b <= 1664 * 32767
      BY <3>1, ProductBound
    <3> QED BY <3>2 DEF Below
  <2>2. CASE Below(a, Q) /\ Below(b, Q)
    <3>1. -3328 <= a /\ a <= 3328 /\ -3328 <= b /\ b <= 3328
      BY <2>2 DEF Below, Q
    <3>2. -(3328 * 3328) <= a * b /\ a * b <= 3328 * 3328
      BY <3>1, ProductBound
    <3> QED BY <3>2 DEF Below
  <2> QED BY <2>1, <2>2
<1> QED BY <1>1, MontgomeryValue, FqMulBound DEF FqMul

(* The root of a table element, without its factor 2^16.                   *)
Root(z) == 169 * z

LEMMA Fits ==
  \A x \in Int : -32768 <= x /\ x <= 32767 => Int16(x) = x
BY DEF Int16

LEMMA NttValue ==
  ASSUME NEW a \in Int, NEW b \in Int, NEW z \in Int, NEW limit \in Int,
         Below(z, 1665), Below(a, limit), Below(b, limit), limit + Q < 32768
  PROVE  /\ NttLo(a, b, z) \in Int /\ Equal(NttLo(a, b, z), a + Root(z) * b)
         /\ NttHi(a, b, z) \in Int /\ Equal(NttHi(a, b, z), a - Root(z) * b)
<1> DEFINE m == FqMul(z, b)
<1>1. Below(b, 32768)
  BY DEF Below, Q
<1>2. m \in Int /\ Below(m, Q) /\ Equal(m, 169 * (z * b))
  BY <1>1, FqMulValue
<1>3. NttLo(a, b, z) = Int16(a + m) /\ NttHi(a, b, z) = Int16(a - m)
  BY DEF NttLo, NttHi
<1> HIDE DEF m
<1>4. Int16(a + m) = a + m /\ Int16(a - m) = a - m
  BY <1>2, Fits DEF Below, Q
<1>5. Root(z) \in Int /\ Root(z) * b \in Int /\ 169 * (z * b) = Root(z) * b
  BY DEF Root
<1>6. Equal(m, Root(z) * b)
  BY <1>2, <1>5
<1> DEFINE n == Root(z) * b
<1>7. Equal(a + m, a + n) /\ Equal(a - m, a - n)
  <2>1. n \in Int /\ Equal(m, n) /\ Equal(a, a)
    BY <1>5, <1>6, EqualSame
  <2> HIDE DEF n
  <2> QED BY <1>2, <2>1, EqualSum
<1> QED BY <1>2, <1>3, <1>4, <1>7

LEMMA InvValue ==
  ASSUME NEW a \in Int, NEW b \in Int, NEW z \in Int,
         Below(z, 1665), Below(a, Q), Below(b, Q)
  PROVE  /\ InvLo(a, b, z) \in Int /\ Equal(InvLo(a, b, z), a + b)
         /\ InvHi(a, b, z) \in Int /\ Equal(InvHi(a, b, z), Root(z) * (b - a))
<1>1. /\ a + b \in Int /\ b - a \in Int /\ Below(a + b, 29962) /\ Below(b - a, 32768)
      /\ Int16(a + b) = a + b /\ Int16(b - a) = b - a
  BY Fits DEF Below, Q
<1>2. Equal(BarrettReduce(a + b), a + b) /\ BarrettReduce(a + b) \in Int
  BY <1>1, BarrettValue, BarrettType
<1>3. Equal(FqMul(z, b - a), 169 * (z * (b - a))) /\ FqMul(z, b - a) \in Int
  BY <1>1, FqMulValue
<1>4. 169 * (z * (b - a)) = Root(z) * (b - a)
  BY DEF Root
<1>5. Equal(FqMul(z, b - a), Root(z) * (b - a))
  BY <1>3, <1>4
<1> QED BY <1>1, <1>2, <1>3, <1>5 DEF InvLo, InvHi

(* A coefficient of the product of two pairs, in both cases.               *)
LEMMA BaseMulValue ==
  ASSUME NEW a0 \in Int, NEW a1 \in Int, NEW b0 \in Int, NEW b1 \in Int, NEW z \in Int,
         Below(a0, Q), Below(a1, Q), Below(b0, Q), Below(b1, Q), Below(z, 1665)
  PROVE  /\ BarrettReduce(Int16(FqMul(a0, b1) + FqMul(a1, b0))) \in Int
         /\ Equal(BarrettReduce(Int16(FqMul(a0, b1) + FqMul(a1, b0))), 169 * (a0 * b1 + a1 * b0))
         /\ BarrettReduce(Int16(FqMul(FqMul(a1, b1), z) + FqMul(a0, b0))) \in Int
         /\ Equal(BarrettReduce(Int16(FqMul(FqMul(a1, b1), z) + FqMul(a0, b0))),
                  169 * (Root(z) * (a1 * b1) + a0 * b0))
<1>1. ASSUME NEW a \in Int, NEW b \in Int, NEW m \in Int, NEW n \in Int,
             Below(m, Q), Below(n, Q), Equal(m, 169 * a), Equal(n, 169 * b)
      PROVE  /\ BarrettReduce(Int16(m + n)) \in Int
             /\ Equal(BarrettReduce(Int16(m + n)), 169 * (a + b))
  <2>1. m + n \in Int /\ Int16(m + n) = m + n /\ Below(m + n, 29962)
    BY <1>1, Fits DEF Below, Q
  <2>2. Equal(m + n, 169 * a + 169 * b)
    BY <1>1, EqualSum
  <2>3. 169 * a + 169 * b = 169 * (a + b)
    OBVIOUS
  <2>4. BarrettReduce(m + n) \in Int /\ Equal(BarrettReduce(m + n), m + n)
    BY <2>1, BarrettValue, BarrettType
  <2> QED BY <2>1, <2>2, <2>3, <2>4, EqualChain
<1>2. /\ FqMul(a0, b1) \in Int /\ Below(FqMul(a0, b1), Q) /\ Equal(FqMul(a0, b1), 169 * (a0 * b1))
      /\ FqMul(a1, b0) \in Int /\ Below(FqMul(a1, b0), Q) /\ Equal(FqMul(a1, b0), 169 * (a1 * b0))
      /\ FqMul(a1, b1) \in Int /\ Below(FqMul(a1, b1), Q) /\ Equal(FqMul(a1, b1), 169 * (a1 * b1))
      /\ FqMul(a0, b0) \in Int /\ Below(FqMul(a0, b0), Q) /\ Equal(FqMul(a0, b0), 169 * (a0 * b0))
  BY FqMulValue
<1> DEFINE m == FqMul(a1, b1)
           n == FqMul(m, z)
<1>3. Below(z, Q) /\ m \in Int /\ Below(m, Q)
  BY <1>2 DEF Below, Q
<1>4. n \in Int /\ Below(n, Q) /\ Equal(n, 169 * (m * z))
  <2> HIDE DEF m
  <2> QED BY <1>3, FqMulValue
<1>5. Equal(n, 169 * (Root(z) * (a1 * b1)))
  <2> HIDE DEF n, m
  <2>1. Equal(m, 169 * (a1 * b1)) /\ Equal(169 * z, 169 * z)
    BY <1>2, EqualSame DEF m
  <2>2. Equal(m * (169 * z), (169 * (a1 * b1)) * (169 * z))
    BY <1>3, <2>1, EqualTimes
  <2>3. 169 * (m * z) = m * (169 * z)
    BY <1>3
  <2>4. (169 * (a1 * b1)) * (169 * z) = 169 * (Root(z) * (a1 * b1))
    <3>1. a1 * b1 \in Int
      OBVIOUS
    <3> QED BY <3>1 DEF Root
  <2>5. Equal(n, m * (169 * z)) /\ Equal(m * (169 * z), 169 * (Root(z) * (a1 * b1)))
    BY <1>4, <2>2, <2>3, <2>4
  <2>6. m * (169 * z) \in Int /\ 169 * (Root(z) * (a1 * b1)) \in Int
    BY <1>3 DEF Root
  <2> QED BY <1>4, <2>5, <2>6, EqualChain
<1>6. Root(z) * (a1 * b1) \in Int /\ a0 * b0 \in Int /\ a0 * b1 \in Int /\ a1 * b0 \in Int
  BY DEF Root
<1> DEFINE zab == Root(z) * (a1 * b1)
           ab00 == a0 * b0
           ab01 == a0 * b1
           ab10 == a1 * b0
<1>8. /\ BarrettReduce(Int16(FqMul(a0, b1) + FqMul(a1, b0))) \in Int
      /\ Equal(BarrettReduce(Int16(FqMul(a0, b1) + FqMul(a1, b0))), 169 * (ab01 + ab10))
  <2>1. ab01 \in Int /\ ab10 \in Int
        /\ Equal(FqMul(a0, b1), 169 * ab01) /\ Equal(FqMul(a1, b0), 169 * ab10)
    BY <1>2, <1>6
  <2> HIDE DEF ab01, ab10
  <2> QED BY <1>1, <1>2, <2>1
<1>9. /\ BarrettReduce(Int16(n + FqMul(a0, b0))) \in Int
      /\ Equal(BarrettReduce(Int16(n + FqMul(a0, b0))), 169 * (zab + ab00))
  <2>1. zab \in Int /\ ab00 \in Int
        /\ Equal(n, 169 * zab) /\ Equal(FqMul(a0, b0), 169 * ab00)
    BY <1>2, <1>5, <1>6
  <2> HIDE DEF zab, ab00, n
  <2> QED BY <1>1, <1>2, <1>4, <2>1
<1> QED BY <1>8, <1>9

-----------------------------------------------------------------------------
(* Functions that are defined by recursion from the top of 0..n down.      *)
Falls(f, n, T, first, step, next, d) ==
  \A j \in 0..n : j + d > n => f[j] = IF j \in T THEN first[j] ELSE step[j][f[next[j]]]

LEMMA FallsTo ==
  ASSUME NEW S, NEW n \in Nat, NEW T \in SUBSET (0..n), NEW first \in [0..n -> S],
         NEW step \in [0..n -> [S -> S]], NEW next \in [0..n -> 0..n],
         \A j \in (0..n) \ T : next[j] > j
  PROVE  \A d \in Nat : d <= n + 1 => \E f \in [0..n -> S] : Falls(f, n, T, first, step, next, d)
<1> DEFINE U == {d \in Nat : d <= n + 1 /\
                   ~ \E f \in [0..n -> S] : Falls(f, n, T, first, step, next, d)}
<1>1. SUFFICES ASSUME U # {} PROVE FALSE
  OBVIOUS
<1>2. PICK d \in U : \A x \in U : d <= x
  BY <1>1, LeastNatural
<1>3. d \in Nat /\ d <= n + 1 /\ ~ \E f \in [0..n -> S] : Falls(f, n, T, first, step, next, d)
  OBVIOUS
<1>4. Falls(first, n, T, first, step, next, 0)
  BY DEF Falls
<1>5. d # 0
  BY <1>3, <1>4
<1>6. d - 1 \in Nat /\ d - 1 <= n + 1 /\ ~ (d <= d - 1) /\ n + 1 - d \in 0..n
  BY <1>3, <1>5
<1>7. PICK g \in [0..n -> S] : Falls(g, n, T, first, step, next, d - 1)
  BY <1>2, <1>6
<1> DEFINE i == n + 1 - d
           v == IF i \in T THEN first[i] ELSE step[i][g[next[i]]]
           f == [j \in 0..n |-> IF j = i THEN v ELSE g[j]]
<1>8. v \in S
  BY <1>6
<1>9. f \in [0..n -> S] /\ f[i] = v /\ \A j \in 0..n : j # i => f[j] = g[j]
  BY <1>6, <1>8
<1> HIDE DEF f
<1>10. ASSUME NEW j \in 0..n, j + d > n
       PROVE  f[j] = IF j \in T THEN first[j] ELSE step[j][f[next[j]]]
  <2>1. j \notin T => next[j] \in 0..n /\ next[j] > j
    OBVIOUS
  <2>2. j \notin T => next[j] # i
    BY <1>3, <1>10, <2>1
  <2>3. j \notin T => f[next[j]] = g[next[j]]
    BY <1>9, <2>1, <2>2
  <2>4. CASE j = i
    BY <1>9, <2>3, <2>4
  <2>5. CASE j # i
    <3>1. j + (d - 1) > n
      BY <1>3, <1>10, <2>5
    <3>2. g[j] = IF j \in T THEN first[j] ELSE step[j][g[next[j]]]
      BY <1>7, <3>1 DEF Falls
    <3> QED BY <1>9, <2>3, <2>5, <3>2
  <2> QED BY <2>4, <2>5
<1>11. Falls(f, n, T, first, step, next, d)
  BY <1>10 DEF Falls
<1> QED BY <1>3, <1>9, <1>11

Solves(f, n, T, first, step, next) ==
  \A j \in 0..n : f[j] = IF j \in T THEN first[j] ELSE step[j][f[next[j]]]
Ascends(n, T, next) == \A j \in (0..n) \ T : next[j] > j

LEMMA Downward ==
  ASSUME NEW S, NEW n \in Nat, NEW T \in SUBSET (0..n), NEW first \in [0..n -> S],
         NEW step \in [0..n -> [S -> S]], NEW next \in [0..n -> 0..n], Ascends(n, T, next)
  PROVE  \E f \in [0..n -> S] : Solves(f, n, T, first, step, next)
<1>1. n + 1 \in Nat /\ n + 1 <= n + 1
  OBVIOUS
<1>2. PICK f \in [0..n -> S] : Falls(f, n, T, first, step, next, n + 1)
  BY <1>1, FallsTo DEF Ascends
<1>3. ASSUME NEW j \in 0..n
      PROVE  f[j] = IF j \in T THEN first[j] ELSE step[j][f[next[j]]]
  <2>1. j + (n + 1) > n
    OBVIOUS
  <2> QED BY <1>2, <2>1, Zenon DEF Falls
<1> QED BY <1>3 DEF Solves

(* Horner's rule: each value from the value d places on.                   *)
LEMMA HornerEquation ==
  ASSUME NEW c, NEW n \in Nat, NEW d \in Nat \ {0}, NEW z \in Int,
         \A j \in 0..(n - 1) : c[j] \in Int
  PROVE  \A j \in 0..(n + d - 1) :
           /\ Horner(c, n, d, z)[j] \in Int
           /\ j >= n => Horner(c, n, d, z)[j] = 0
           /\ j < n => Equal(Horner(c, n, d, z)[j], c[j] + z * Horner(c, n, d, z)[j + d])
<1> DEFINE m == n + d - 1
           D == 0..m
           T == {j \in D : j >= n}
           first == [j \in D |-> 0]
           next == [j \in D |-> IF j >= n THEN j ELSE j + d]
           step == [j \in D |-> [v \in Int |-> IF j >= n THEN 0 ELSE (c[j] + z * v) % Q]]
           value == CHOOSE h : h = [j \in D |-> IF j >= n THEN 0 ELSE (c[j] + z * h[j + d]) % Q]
<1>1. m \in Nat /\ T \in SUBSET D /\ first \in [D -> Int] /\ next \in [D -> D]
      /\ \A j \in D \ T : next[j] > j
  OBVIOUS
<1>2. \A x \in Int : x % Q \in Int /\ Equal(x % Q, x)
  BY DEF Q, Equal
<1>3. \A j \in D : /\ j \in T <=> j >= n
                   /\ j >= n => first[j] = 0
                   /\ j < n => next[j] = j + d /\ j + d \in D /\ c[j] \in Int
  OBVIOUS
<1>4. \A j \in D, v \in Int : j < n => step[j][v] = (c[j] + z * v) % Q
  OBVIOUS
<1>5. step \in [D -> [Int -> Int]]
  <2>1. \A j \in D, v \in Int : j < n => c[j] + z * v \in Int
    BY <1>3
  <2>2. \A j \in D, v \in Int : j < n => (c[j] + z * v) % Q \in Int
    BY <1>2, <2>1
  <2> QED BY <2>2
<1>6. PICK f \in [D -> Int] :
        \A j \in D : f[j] = IF j \in T THEN first[j] ELSE step[j][f[next[j]]]
  <2>1. Ascends(m, T, next)
    BY <1>1 DEF Ascends
  <2> HIDE DEF T, first, next, step, m
  <2>2. PICK f \in [0..m -> Int] : Solves(f, m, T, first, step, next)
    BY <1>1, <1>5, <2>1, Downward
  <2> QED BY <2>2 DEF Solves
<1> HIDE DEF T, first, next, step
<1>7. ASSUME NEW j \in D
      PROVE  f[j] = IF j >= n THEN 0 ELSE (c[j] + z * f[j + d]) % Q
  <2>1. CASE j >= n
    BY <1>3, <1>6, <2>1
  <2>2. CASE ~ (j >= n)
    <3>1. j < n /\ next[j] = j + d /\ j \notin T
      BY <1>3, <2>2
    <3>2. next[j] \in D
      BY <1>1, Zenon
    <3>3. f[next[j]] \in Int
      BY <3>2
    <3>4. f[j] = step[j][f[next[j]]]
      BY <1>6, <3>1, Zenon
    <3>5. step[j][f[next[j]]] = (c[j] + z * f[next[j]]) % Q
      BY <1>4, <3>1, <3>3
    <3> QED BY <2>2, <3>1, <3>4, <3>5
  <2> QED BY <2>1, <2>2
<1>8. f = [j \in D |-> IF j >= n THEN 0 ELSE (c[j] + z * f[j + d]) % Q]
  BY <1>7
<1>9. value = [j \in D |-> IF j >= n THEN 0 ELSE (c[j] + z * value[j + d]) % Q]
  <2> HIDE DEF D
  <2> QED BY <1>8
<1>10. Horner(c, n, d, z) = value
  BY DEF Horner
<1> HIDE DEF value
<1>11. \A j \in D : value[j] = IF j >= n THEN 0 ELSE (c[j] + z * value[j + d]) % Q
  BY <1>9, Zenon
<1> DEFINE U == {e \in Nat : m - e \in D /\ value[m - e] \notin Int}
<1>12. ASSUME U # {} PROVE FALSE
  <2>1. PICK e \in U : \A x \in U : e <= x
    BY <1>12, LeastNatural
  <2> DEFINE j == m - e
  <2>2. e \in Nat /\ j \in D /\ value[j] \notin Int
    OBVIOUS
  <2>3. j < n
    BY <1>11, <2>2
  <2>4. e - d \in Nat /\ m - (e - d) = j + d /\ j + d \in D /\ ~ (e <= e - d)
    BY <1>1, <1>3, <2>2, <2>3
  <2>5. value[j + d] \in Int
    BY <2>1, <2>4
  <2>6. c[j] + z * value[j + d] \in Int
    BY <1>3, <2>2, <2>3, <2>5
  <2>7. value[j] = (c[j] + z * value[j + d]) % Q
    BY <1>11, <2>2, <2>3
  <2> QED BY <1>2, <2>2, <2>6, <2>7
<1>13. \A j \in D : value[j] \in Int
  <2> TAKE j \in D
  <2>1. m - j \in Nat /\ m - (m - j) = j
    BY <1>1
  <2> QED BY <1>12, <2>1
<1> SUFFICES ASSUME NEW j \in D
             PROVE  /\ value[j] \in Int
                    /\ j >= n => value[j] = 0
                    /\ j < n => Equal(value[j], c[j] + z * value[j + d])
  BY <1>10
<1>14. CASE j >= n
  BY <1>11, <1>14
<1>15. CASE ~ (j >= n)
  <2>1. c[j] + z * value[j + d] \in Int
    BY <1>3, <1>13, <1>15
  <2>2. value[j] = (c[j] + z * value[j + d]) % Q
    BY <1>11, <1>15
  <2> QED BY <1>2, <1>13, <1>15, <2>1, <2>2
<1> QED BY <1>14, <1>15

-----------------------------------------------------------------------------
(* Between two layers of td18_ntt the array holds pieces of Pow2[b]        *)
(* elements; element j of piece a is at place At(b, a, j).                 *)
At(b, a, j) == a * Pow2[b] + j
Pieces(b) == 0..(Pow2[MaxBits - b] - 1)
Slots(b) == 0..(Pow2[b] - 1)

LEMMA Sizes ==
  ASSUME NEW b \in 1..MaxBits
  PROVE  /\ MaxBits \in Nat /\ Pow2[b] \in Nat \ {0} /\ Pow2[MaxBits - b] \in Nat \ {0}
         /\ RingSize = Pow2[MaxBits - b] * Pow2[b]
         /\ b < MaxBits => /\ Pow2[b + 1] = 2 * Pow2[b]
                           /\ Pow2[MaxBits - b] = 2 * Pow2[MaxBits - (b + 1)]
<1>1. MaxBits \in Nat /\ b \in 0..MaxBits /\ MaxBits - b \in 0..MaxBits
      /\ (MaxBits - b) + b = MaxBits
  BY Pow2Assumption
<1>2. MaxBits - b \in 0..(MaxBits - b)
  BY <1>1
<1>3. Pow2[MaxBits] = Pow2[MaxBits - b] * Pow2[b]
  BY <1>1, <1>2, Pow2Sum
<1>4. ASSUME b < MaxBits
      PROVE  /\ Pow2[b + 1] = 2 * Pow2[b]
             /\ Pow2[MaxBits - b] = 2 * Pow2[MaxBits - (b + 1)]
  <2>1. b + 1 \in 1..MaxBits /\ (b + 1) - 1 = b /\ MaxBits - b \in 1..MaxBits
        /\ (MaxBits - b) - 1 = MaxBits - (b + 1)
    BY <1>1, <1>4
  <2> QED BY <2>1, Pow2Assumption
<1> QED BY <1>1, <1>3, <1>4, Pow2Positive DEF RingSize

LEMMA AtIndex ==
  ASSUME NEW b \in 1..MaxBits, NEW a \in Pieces(b), NEW j \in Slots(b)
  PROVE  /\ At(b, a, j) \in Indices
         /\ At(b, a, j) \div Pow2[b] = a /\ At(b, a, j) % Pow2[b] = j
<1> DEFINE l == Pow2[b]
           m == Pow2[MaxBits - b]
<1>1. l \in Nat \ {0} /\ m \in Nat \ {0} /\ RingSize = m * l
  BY Sizes
<1>2. a \in Nat /\ a <= m - 1 /\ j \in 0..(l - 1)
  BY <1>1 DEF Pieces, Slots
<1> HIDE DEF l, m
<1>3. a * l \in Nat /\ a * l <= (m - 1) * l
  BY <1>1, <1>2
<1>4. (m - 1) * l = m * l - l /\ m * l \in Nat
  BY <1>1
<1>5. a * l + j \in 0..(m * l - 1)
  BY <1>1, <1>2, <1>3, <1>4
<1>6. (a * l + j) \div l = a /\ (a * l + j) % l = j
  BY <1>1, <1>2, DivModUnique
<1> QED BY <1>1, <1>5, <1>6 DEF At, Indices, l

LEMMA AtCovers ==
  ASSUME NEW b \in 1..MaxBits, NEW i \in Indices
  PROVE  \E a \in Pieces(b), j \in Slots(b) : i = At(b, a, j)
<1> DEFINE l == Pow2[b]
           m == Pow2[MaxBits - b]
<1>1. l \in Nat \ {0} /\ m \in Nat \ {0} /\ RingSize = m * l
  BY Sizes
<1>2. i \in Nat /\ i < m * l
  BY <1>1 DEF Indices
<1> HIDE DEF l, m
<1>3. i \div l \in Nat /\ i % l \in 0..(l - 1) /\ i = (i \div l) * l + (i % l)
  BY <1>1, <1>2, DivMod
<1> DEFINE a == i \div l
           j == i % l
<1>4. a < m
  <2>1. a \in Nat /\ j \in Nat /\ a * l + j < m * l
    BY <1>2, <1>3
  <2> HIDE DEF a, j
  <2>2. ASSUME a >= m PROVE FALSE
    <3>1. a * l >= m * l
      BY <1>1, <2>1, <2>2
    <3> QED BY <1>1, <2>1, <3>1
  <2> QED BY <1>1, <2>1, <2>2
<1>5. a \in Pieces(b) /\ j \in Slots(b)
  BY <1>1, <1>3, <1>4 DEF Pieces, Slots, l, m
<1> QED BY <1>3, <1>5 DEF At, l

(* A piece is cut into two halves, which are pieces of the layer below.    *)
LEMMA Halves ==
  ASSUME NEW b \in 1..(MaxBits - 1), NEW a \in Pieces(b + 1), NEW j \in Slots(b)
  PROVE  /\ b \in 1..MaxBits /\ b + 1 \in 1..MaxBits
         /\ 2 * a \in Pieces(b) /\ 2 * a + 1 \in Pieces(b)
         /\ j \in Slots(b + 1) /\ Pow2[b] + j \in Slots(b + 1)
         /\ At(b, 2 * a, j) = At(b + 1, a, j)
         /\ At(b, 2 * a + 1, j) = At(b + 1, a, Pow2[b] + j)
         /\ At(b, 2 * a + 1, j) = At(b, 2 * a, j) + Pow2[b]
<1>1. MaxBits \in Nat /\ b \in 1..MaxBits /\ b + 1 \in 1..MaxBits /\ b < MaxBits
  BY Pow2Assumption
<1> DEFINE l == Pow2[b]
           m == Pow2[MaxBits - (b + 1)]
<1>2. l \in Nat \ {0} /\ m \in Nat \ {0} /\ Pow2[b + 1] = 2 * l /\ Pow2[MaxBits - b] = 2 * m
  BY <1>1, Sizes
<1>3. a \in 0..(m - 1) /\ j \in 0..(l - 1)
  BY DEF Pieces, Slots
<1>4. 2 * a \in Pieces(b) /\ 2 * a + 1 \in Pieces(b)
  BY <1>2, <1>3 DEF Pieces
<1>5. j \in Slots(b + 1) /\ l + j \in Slots(b + 1)
  BY <1>2, <1>3 DEF Slots
<1>6. /\ (2 * a) * l + j = a * (2 * l) + j
      /\ (2 * a + 1) * l + j = a * (2 * l) + (l + j)
      /\ (2 * a + 1) * l + j = (2 * a) * l + j + l
  <2> HIDE DEF l, m
  <2> QED BY <1>2, <1>3
<1> QED BY <1>1, <1>2, <1>4, <1>5, <1>6 DEF At

LEMMA WhichHalf ==
  ASSUME NEW b \in 1..(MaxBits - 1), NEW c \in Pieces(b)
  PROVE  \E a \in Pieces(b + 1) : c = 2 * a \/ c = 2 * a + 1
<1>1. MaxBits \in Nat /\ b \in 1..MaxBits /\ b + 1 \in 1..MaxBits /\ b < MaxBits
  BY Pow2Assumption
<1> DEFINE m == Pow2[MaxBits - (b + 1)]
<1>2. m \in Nat \ {0} /\ Pow2[MaxBits - b] = 2 * m
  BY <1>1, Sizes
<1>3. c \in 0..(2 * m - 1)
  BY <1>2 DEF Pieces
<1> HIDE DEF m
<1>4. c \div 2 \in 0..(m - 1) /\ (c = 2 * (c \div 2) \/ c = 2 * (c \div 2) + 1)
  BY <1>2, <1>3
<1> QED BY <1>4 DEF Pieces, m

(* What holds of both halves of every piece holds of every element.        *)
LEMMA HalvesCover ==
  ASSUME NEW R, NEW b \in 1..(MaxBits - 1),
         \A a \in Pieces(b + 1), j \in Slots(b) : At(b, 2 * a, j) \in R /\ At(b, 2 * a + 1, j) \in R
  PROVE  \A i \in Indices : i \in R
<1> TAKE i \in Indices
<1>1. b \in 1..MaxBits
  BY Pow2Assumption
<1>2. PICK c \in Pieces(b), j \in Slots(b) : i = At(b, c, j)
  BY <1>1, AtCovers
<1>3. PICK a \in Pieces(b + 1) : c = 2 * a \/ c = 2 * a + 1
  BY WhichHalf
<1> QED BY <1>2, <1>3

LEMMA LayerInduction ==
  ASSUME NEW P, MaxBits \in P, \A b \in 1..(MaxBits - 1) : b + 1 \in P => b \in P
  PROVE  \A b \in 1..MaxBits : b \in P
<1> DEFINE U == {d \in Nat : d < MaxBits /\ MaxBits - d \notin P}
<1>1. MaxBits \in Nat
  BY Pow2Assumption
<1>2. ASSUME U # {} PROVE FALSE
  <2>1. PICK d \in U : \A x \in U : d <= x
    BY <1>2, LeastNatural
  <2>2. d \in Nat /\ d < MaxBits /\ MaxBits - d \notin P
    OBVIOUS
  <2>3. d # 0
    BY <1>1, <2>2
  <2>4. d - 1 \in Nat /\ d - 1 < MaxBits /\ ~ (d <= d - 1)
    BY <1>1, <2>2, <2>3
  <2>5. MaxBits - (d - 1) \in P
    BY <2>1, <2>4
  <2>6. MaxBits - d \in 1..(MaxBits - 1) /\ (MaxBits - d) + 1 = MaxBits - (d - 1)
    BY <1>1, <2>2, <2>3
  <2> QED BY <2>2, <2>5, <2>6
<1> TAKE b \in 1..MaxBits
<1>3. MaxBits - b \in Nat /\ MaxBits - b < MaxBits /\ MaxBits - (MaxBits - b) = b
  BY <1>1
<1> QED BY <1>2, <1>3

-----------------------------------------------------------------------------
(* A layer of the transform, over the integers: the piece a of layer b + 1 *)
(* is cut with the root z whose square divides it.                         *)
Arrays == [Indices -> Int]
CutRoot(b, a) == Root(Zeta[Pow2[MaxBits - 1 - b] + a])

Split(f, b) ==
  [i \in Indices |->
     LET z == CutRoot(b, i \div Pow2[b + 1])
     IN  IF i % Pow2[b + 1] < Pow2[b] THEN f[i] + z * f[i + Pow2[b]]
         ELSE f[i - Pow2[b]] - z * f[i]]

Layers(f) ==
  CHOOSE layer \in [0..MaxBits -> Arrays] :
    \A b \in 0..MaxBits : layer[b] = IF b = MaxBits \/ b = 0 THEN f ELSE Split(layer[b + 1], b)

LEMMA TableIndex ==
  ASSUME NEW b \in 1..(MaxBits - 1), NEW a \in Pieces(b + 1)
  PROVE  /\ Pow2[MaxBits - 1 - b] + a \in 1..((RingSize \div 2) - 1)
         /\ Zeta[Pow2[MaxBits - 1 - b] + a] \in Int /\ CutRoot(b, a) \in Int
<1>1. /\ MaxBits \in Nat /\ MaxBits >= 2 /\ MaxBits - 1 \in 1..MaxBits
      /\ MaxBits - 1 - b \in 0..MaxBits /\ MaxBits - b \in 0..MaxBits
      /\ MaxBits - b \in 1..MaxBits /\ (MaxBits - b) - 1 = MaxBits - 1 - b
      /\ MaxBits - (b + 1) = MaxBits - 1 - b /\ MaxBits - b <= MaxBits - 1
      /\ MaxBits - 1 < MaxBits /\ (MaxBits - 1) + 1 = MaxBits
  BY Pow2Assumption, RingAssumption
<1> DEFINE d == MaxBits - 1 - b
<1>2. Pow2[d] \in Nat \ {0} /\ Pow2[MaxBits - b] = 2 * Pow2[d] /\ a \in 0..(Pow2[d] - 1)
  BY <1>1, Pow2Positive, Pow2Assumption DEF Pieces
<1>3. RingSize = 2 * Pow2[MaxBits - 1] /\ Pow2[MaxBits - 1] \in Nat
  BY <1>1, Sizes, Pow2Positive DEF RingSize
<1>4. Pow2[MaxBits - b] <= Pow2[MaxBits - 1]
  <2>1. MaxBits - 1 \in (MaxBits - b)..MaxBits
    BY <1>1
  <2> QED BY <1>1, <2>1, Pow2Monotone
<1>5. RingSize \div 2 = Pow2[MaxBits - 1]
  BY <1>3
<1>6. Pow2[d] + a \in 1..((RingSize \div 2) - 1)
  <2> HIDE DEF d
  <2> QED BY <1>2, <1>3, <1>4, <1>5
<1>7. Zeta[Pow2[d] + a] \in Int
  BY <1>6, RingAssumption
<1> QED BY <1>6, <1>7 DEF CutRoot, Root

LEMMA SplitAt ==
  ASSUME NEW f \in Arrays, NEW b \in 1..(MaxBits - 1), NEW a \in Pieces(b + 1), NEW j \in Slots(b)
  PROVE  /\ Split(f, b)[At(b, 2 * a, j)]
              = f[At(b, 2 * a, j)] + CutRoot(b, a) * f[At(b, 2 * a + 1, j)]
         /\ Split(f, b)[At(b, 2 * a + 1, j)]
              = f[At(b, 2 * a, j)] - CutRoot(b, a) * f[At(b, 2 * a + 1, j)]
         /\ f[At(b, 2 * a, j)] \in Int /\ f[At(b, 2 * a + 1, j)] \in Int
<1> DEFINE lo == At(b, 2 * a, j)
           hi == At(b, 2 * a + 1, j)
<1>1. /\ b \in 1..MaxBits /\ b + 1 \in 1..MaxBits
      /\ 2 * a \in Pieces(b) /\ 2 * a + 1 \in Pieces(b)
      /\ j \in Slots(b + 1) /\ Pow2[b] + j \in Slots(b + 1)
      /\ lo = At(b + 1, a, j) /\ hi = At(b + 1, a, Pow2[b] + j) /\ hi = lo + Pow2[b]
  BY Halves
<1>2. /\ lo \in Indices /\ lo \div Pow2[b + 1] = a /\ lo % Pow2[b + 1] = j
      /\ hi \in Indices /\ hi \div Pow2[b + 1] = a /\ hi % Pow2[b + 1] = Pow2[b] + j
  BY <1>1, AtIndex
<1>3. Pow2[b] \in Nat /\ j \in Nat /\ j < Pow2[b] /\ ~ (Pow2[b] + j < Pow2[b])
  BY <1>1, Sizes DEF Slots
<1>4. lo \in Int /\ hi - Pow2[b] = lo /\ lo + Pow2[b] = hi
  <2>1. lo \in Int
    BY <1>2 DEF Indices
  <2> HIDE DEF lo, hi
  <2> QED BY <1>1, <1>3, <2>1
<1> HIDE DEF lo, hi
<1>5. /\ Split(f, b)[lo] = f[lo] + CutRoot(b, a) * f[hi]
      /\ Split(f, b)[hi] = f[lo] - CutRoot(b, a) * f[hi]
  BY <1>2, <1>3, <1>4 DEF Split
<1>6. f[lo] \in Int /\ f[hi] \in Int
  BY <1>2 DEF Arrays
<1> QED BY <1>5, <1>6 DEF lo, hi

LEMMA SplitType ==
  ASSUME NEW f \in Arrays, NEW b \in 1..(MaxBits - 1)
  PROVE  Split(f, b) \in Arrays
<1> DEFINE R == {i \in Indices : Split(f, b)[i] \in Int}
<1>1. ASSUME NEW a \in Pieces(b + 1), NEW j \in Slots(b)
      PROVE  At(b, 2 * a, j) \in R /\ At(b, 2 * a + 1, j) \in R
  <2>1. At(b, 2 * a, j) \in Indices /\ At(b, 2 * a + 1, j) \in Indices
    BY Halves, AtIndex
  <2> QED BY <2>1, SplitAt, TableIndex
<1>2. \A i \in Indices : i \in R
  <2> HIDE DEF R
  <2> QED BY <1>1, HalvesCover
<1>3. \A i \in Indices : Split(f, b)[i] \in Int
  BY <1>2
<1> QED BY <1>3 DEF Split, Arrays

LEMMA LayersEquation ==
  ASSUME NEW f \in Arrays
  PROVE  /\ \A b \in 1..MaxBits : Layers(f)[b] \in Arrays
         /\ Layers(f)[MaxBits] = f
         /\ \A b \in 1..(MaxBits - 1) : Layers(f)[b] = Split(Layers(f)[b + 1], b)
<1> DEFINE T == {0, MaxBits}
           first == [b \in 0..MaxBits |-> f]
           step == [b \in 0..MaxBits |-> [g \in Arrays |-> IF b \in T THEN f ELSE Split(g, b)]]
           next == [b \in 0..MaxBits |-> IF b \in T THEN b ELSE b + 1]
<1>1. MaxBits \in Nat /\ MaxBits >= 2
  BY Pow2Assumption, RingAssumption
<1>2. T \in SUBSET (0..MaxBits) /\ first \in [0..MaxBits -> Arrays]
      /\ next \in [0..MaxBits -> 0..MaxBits] /\ Ascends(MaxBits, T, next)
  BY <1>1 DEF Ascends
<1>3. \A b \in 0..MaxBits : b \notin T => b \in 1..(MaxBits - 1)
  BY <1>1
<1>4. step \in [0..MaxBits -> [Arrays -> Arrays]]
  BY <1>3, SplitType
<1>5. \A b \in 0..MaxBits, g \in Arrays : b \notin T => step[b][g] = Split(g, b) /\ next[b] = b + 1
  OBVIOUS
<1>6. \A b \in 0..MaxBits : first[b] = f
  OBVIOUS
<1>7. \E layer \in [0..MaxBits -> Arrays] :
        \A b \in 0..MaxBits : layer[b] = IF b = MaxBits \/ b = 0 THEN f ELSE Split(layer[b + 1], b)
  <2> HIDE DEF first, step, next, T
  <2>1. PICK g \in [0..MaxBits -> Arrays] : Solves(g, MaxBits, T, first, step, next)
    BY <1>1, <1>2, <1>4, Downward
  <2>2. ASSUME NEW b \in 0..MaxBits
        PROVE  g[b] = IF b = MaxBits \/ b = 0 THEN f ELSE Split(g[b + 1], b)
    <3>1. g[b] = IF b \in T THEN first[b] ELSE step[b][g[next[b]]]
      BY <2>1 DEF Solves
    <3>2. b \in T <=> b = MaxBits \/ b = 0
      BY DEF T
    <3>3. CASE b \in T
      BY <1>6, <3>1, <3>2, <3>3
    <3>4. CASE b \notin T
      <4>1. g[next[b]] \in Arrays
        BY <1>2
      <4>2. g[b] = Split(g[next[b]], b) /\ next[b] = b + 1
        BY <1>5, <3>1, <3>4, <4>1
      <4> QED BY <3>2, <3>4, <4>2
    <3> QED BY <3>3, <3>4
  <2> QED BY <2>2
<1>8. /\ Layers(f) \in [0..MaxBits -> Arrays]
      /\ \A b \in 0..MaxBits : Layers(f)[b] = IF b = MaxBits \/ b = 0 THEN f
                                              ELSE Split(Layers(f)[b + 1], b)
  BY <1>7 DEF Layers
<1> QED BY <1>1, <1>8

LEMMA LayerAt ==
  ASSUME NEW f \in Arrays, NEW b \in 1..(MaxBits - 1), NEW a \in Pieces(b + 1), NEW j \in Slots(b)
  PROVE  LET g == Layers(f)[b + 1]
             h == Layers(f)[b]
         IN  /\ h[At(b, 2 * a, j)]
                  = g[At(b + 1, a, j)] + CutRoot(b, a) * g[At(b + 1, a, Pow2[b] + j)]
             /\ h[At(b, 2 * a + 1, j)]
                  = g[At(b + 1, a, j)] - CutRoot(b, a) * g[At(b + 1, a, Pow2[b] + j)]
<1>1. b + 1 \in 1..MaxBits
  BY Pow2Assumption
<1>2. Layers(f)[b] = Split(Layers(f)[b + 1], b) /\ Layers(f)[b + 1] \in Arrays
  BY <1>1, LayersEquation
<1> QED BY <1>2, SplitAt, Halves

LEMMA LayersInt ==
  ASSUME NEW f \in Arrays, NEW b \in 1..MaxBits, NEW a \in Pieces(b), NEW j \in Slots(b)
  PROVE  Layers(f)[b][At(b, a, j)] \in Int
BY LayersEquation, AtIndex DEF Arrays

(* The layers are linear, modulo Q.                                        *)
LEMMA LinearStep ==
  ASSUME NEW c \in Int, NEW z \in Int, NEW u0 \in Int, NEW u1 \in Int, NEW v0 \in Int,
         NEW v1 \in Int, NEW w0 \in Int, NEW w1 \in Int,
         Equal(u0, c * v0 + w0), Equal(u1, c * v1 + w1)
  PROVE  /\ Equal(u0 + z * u1, c * (v0 + z * v1) + (w0 + z * w1))
         /\ Equal(u0 - z * u1, c * (v0 - z * v1) + (w0 - z * w1))
<1>1. PICK m \in Int : u0 = c * v0 + w0 + Q * m
  BY EqualWitness
<1>2. PICK n \in Int : u1 = c * v1 + w1 + Q * n
  BY EqualWitness
<1>3. Q \in Int /\ m + z * n \in Int /\ m - z * n \in Int
  BY DEF Q
<1>4. /\ u0 + z * u1 = c * (v0 + z * v1) + (w0 + z * w1) + Q * (m + z * n)
      /\ u0 - z * u1 = c * (v0 - z * v1) + (w0 - z * w1) + Q * (m - z * n)
  BY <1>1, <1>2, <1>3
<1>5. /\ u0 + z * u1 \in Int /\ c * (v0 + z * v1) + (w0 + z * w1) \in Int
      /\ u0 - z * u1 \in Int /\ c * (v0 - z * v1) + (w0 - z * w1) \in Int
  OBVIOUS
<1> QED BY <1>3, <1>4, <1>5, EqualWitness

LEMMA LayersLinear ==
  ASSUME NEW u \in Arrays, NEW v \in Arrays, NEW w \in Arrays, NEW c \in Int,
         \A i \in Indices : Equal(u[i], c * v[i] + w[i])
  PROVE  \A b \in 1..MaxBits : \A i \in Indices :
           Equal(Layers(u)[b][i], c * Layers(v)[b][i] + Layers(w)[b][i])
<1> DEFINE Linear(b, i) == Equal(Layers(u)[b][i], c * Layers(v)[b][i] + Layers(w)[b][i])
           P == {b \in 1..MaxBits : \A i \in Indices : Linear(b, i)}
<1>1. MaxBits \in P
  <2>1. MaxBits \in 1..MaxBits
    BY Pow2Assumption, RingAssumption
  <2>2. Layers(u)[MaxBits] = u /\ Layers(v)[MaxBits] = v /\ Layers(w)[MaxBits] = w
    BY LayersEquation
  <2>3. \A i \in Indices : Linear(MaxBits, i)
    BY <2>2
  <2> QED BY <2>1, <2>3
<1>2. ASSUME NEW b \in 1..(MaxBits - 1), b + 1 \in P
      PROVE  b \in P
  <2>1. b \in 1..MaxBits /\ b + 1 \in 1..MaxBits /\ \A i \in Indices : Linear(b + 1, i)
    BY <1>2, Pow2Assumption
  <2> DEFINE R == {i \in Indices : Linear(b, i)}
  <2>2. ASSUME NEW a \in Pieces(b + 1), NEW j \in Slots(b)
        PROVE  At(b, 2 * a, j) \in R /\ At(b, 2 * a + 1, j) \in R
    <3> DEFINE lo == At(b + 1, a, j)
               hi == At(b + 1, a, Pow2[b] + j)
               z == CutRoot(b, a)
               g(f) == Layers(f)[b + 1]
               h(f) == Layers(f)[b]
    <3>1. /\ At(b, 2 * a, j) \in Indices /\ At(b, 2 * a + 1, j) \in Indices
          /\ lo \in Indices /\ hi \in Indices /\ z \in Int
      BY Halves, AtIndex, TableIndex
    <3>2. \A f \in Arrays : /\ h(f)[At(b, 2 * a, j)] = g(f)[lo] + z * g(f)[hi]
                            /\ h(f)[At(b, 2 * a + 1, j)] = g(f)[lo] - z * g(f)[hi]
                            /\ g(f)[lo] \in Int /\ g(f)[hi] \in Int
      <4>1. ASSUME NEW f \in Arrays
            PROVE  Layers(f)[b + 1][lo] \in Int /\ Layers(f)[b + 1][hi] \in Int
        BY <2>1, <3>1, LayersEquation DEF Arrays
      <4> QED BY <4>1, LayerAt
    <3>3. Linear(b + 1, lo) /\ Linear(b + 1, hi)
      BY <2>1, <3>1
    <3>4. /\ Equal(g(u)[lo] + z * g(u)[hi],
                   c * (g(v)[lo] + z * g(v)[hi]) + (g(w)[lo] + z * g(w)[hi]))
          /\ Equal(g(u)[lo] - z * g(u)[hi],
                   c * (g(v)[lo] - z * g(v)[hi]) + (g(w)[lo] - z * g(w)[hi]))
      <4>1. /\ Equal(g(u)[lo], c * g(v)[lo] + g(w)[lo])
            /\ Equal(g(u)[hi], c * g(v)[hi] + g(w)[hi])
        BY <3>3
      <4>2. /\ g(u)[lo] \in Int /\ g(u)[hi] \in Int /\ g(v)[lo] \in Int /\ g(v)[hi] \in Int
            /\ g(w)[lo] \in Int /\ g(w)[hi] \in Int
        BY <3>2
      <4> HIDE DEF g, lo, hi, z
      <4> QED BY <3>1, <4>1, <4>2, LinearStep
    <3> HIDE DEF g, lo, hi, z
    <3>5. Linear(b, At(b, 2 * a, j)) /\ Linear(b, At(b, 2 * a + 1, j))
      BY <3>2, <3>4
    <3> QED BY <3>1, <3>5
  <2>3. \A i \in Indices : i \in R
    <3> HIDE DEF R
    <3> QED BY <2>2, HalvesCover
  <2> QED BY <2>1, <2>3
<1>3. \A b \in 1..MaxBits : b \in P
  <2> HIDE DEF P
  <2> QED BY <1>1, <1>2, LayerInduction
<1> QED BY <1>3

(* What X^Pow2[b] is in piece c of layer b.                                *)
PieceRoot(b, c) ==
  IF b = MaxBits THEN -1
  ELSE IF c % 2 = 0 THEN CutRoot(b, c \div 2) ELSE -CutRoot(b, c \div 2)

LEMMA PieceRoots ==
  ASSUME NEW b \in 1..(MaxBits - 1), NEW a \in Pieces(b + 1)
  PROVE  PieceRoot(b, 2 * a) = CutRoot(b, a) /\ PieceRoot(b, 2 * a + 1) = -CutRoot(b, a)
<1>1. b # MaxBits
  BY Pow2Assumption
<1>2. a \in Nat
  <2>1. Pow2[MaxBits - (b + 1)] \in Nat
    BY Pow2Assumption, Sizes
  <2> QED BY <2>1 DEF Pieces
<1>3. (2 * a) % 2 = 0 /\ (2 * a) \div 2 = a /\ (2 * a + 1) % 2 = 1 /\ (2 * a + 1) \div 2 = a
  BY <1>2
<1> QED BY <1>1, <1>3 DEF PieceRoot

LEMMA PieceRootInt ==
  ASSUME NEW b \in 1..MaxBits, NEW c \in Pieces(b)
  PROVE  PieceRoot(b, c) \in Int
<1>1. CASE b = MaxBits
  BY <1>1 DEF PieceRoot
<1>2. CASE b # MaxBits
  <2>1. b \in 1..(MaxBits - 1)
    BY <1>2, Pow2Assumption
  <2>2. PICK a \in Pieces(b + 1) : c = 2 * a \/ c = 2 * a + 1
    BY <2>1, WhichHalf
  <2>3. CutRoot(b, a) \in Int
    BY <2>1, TableIndex
  <2> QED BY <2>1, <2>2, <2>3, PieceRoots
<1> QED BY <1>1, <1>2

(* The factor 2^16 of the table and its inverse.                           *)
LEMMA MontInverse ==
  /\ Mont \in Int /\ Equal(169 * Mont, 1)
  /\ \A x, y, v \in Int : Equal(x * y, Mont * v) => Equal(Root(x) * Root(y), Root(v))
  /\ \A x, y \in Int : Equal(x * y, -Mont * Mont) => Equal(Root(x) * Root(y), -1)
<1>1. Mont \in Int /\ Equal(169 * Mont, 1)
  BY DEF Mont, Q, Equal
<1>2. PICK m \in Int : 169 * Mont = 1 + Q * m
  <2>1. 169 * Mont \in Int /\ 1 \in Int
    BY <1>1
  <2> QED BY <1>1, <2>1, EqualWitness
<1>3. Q \in Int
  BY DEF Q
<1>4. ASSUME NEW x \in Int, NEW y \in Int, NEW v \in Int, Equal(x * y, Mont * v)
      PROVE  Equal(Root(x) * Root(y), Root(v))
  <2>1. x * y \in Int /\ Mont * v \in Int
    BY <1>1
  <2>2. PICK n \in Int : x * y = Mont * v + Q * n
    BY <1>4, <2>1, EqualWitness
  <2>3. (169 * x) * (169 * y) = 169 * (169 * (x * y))
    BY <2>1
  <2>4. 169 * (x * y) = (169 * Mont) * v + Q * (169 * n)
    BY <1>1, <1>3, <2>2
  <2>5. 169 * (x * y) = v + Q * (m * v + 169 * n)
    BY <1>2, <1>3, <2>4
  <2>6. 169 * (169 * (x * y)) = 169 * v + Q * (169 * (m * v + 169 * n))
    BY <1>3, <2>5
  <2>7. 169 * (m * v + 169 * n) \in Int /\ 169 * v \in Int /\ (169 * x) * (169 * y) \in Int
    OBVIOUS
  <2> QED BY <2>3, <2>6, <2>7, EqualWitness DEF Root
<1>5. ASSUME NEW x \in Int, NEW y \in Int, Equal(x * y, -Mont * Mont)
      PROVE  Equal(Root(x) * Root(y), -1)
  <2>1. -Mont * Mont = Mont * (-Mont) /\ -Mont \in Int
    BY <1>1
  <2>2. Equal(Root(x) * Root(y), Root(-Mont))
    BY <1>4, <1>5, <2>1
  <2>3. Root(-Mont) = -1 + Q * (-m)
    BY <1>1, <1>2, <1>3 DEF Root
  <2>4. Root(-Mont) \in Int /\ -m \in Int /\ -1 \in Int /\ Root(x) * Root(y) \in Int
    BY <1>1 DEF Root
  <2>5. Equal(Root(-Mont), -1)
    BY <2>3, <2>4, EqualWitness
  <2> QED BY <2>2, <2>4, <2>5, EqualChain
<1> QED BY <1>1, <1>4, <1>5

(* The root with which a piece is cut is a square root of what divides it. *)
LEMMA CutRootSquare ==
  ASSUME NEW b \in 1..(MaxBits - 1), NEW a \in Pieces(b + 1)
  PROVE  Equal(CutRoot(b, a) * CutRoot(b, a), PieceRoot(b + 1, a))
<1>1. MaxBits \in Nat /\ MaxBits >= 2
  BY Pow2Assumption, RingAssumption
<1> DEFINE d == MaxBits - 1 - b
           i == Pow2[d] + a
<1>2. /\ i \in 1..((RingSize \div 2) - 1) /\ Zeta[i] \in Int /\ CutRoot(b, a) = Root(Zeta[i])
      /\ MaxBits - (b + 1) = d
  BY <1>1, TableIndex DEF CutRoot
<1>3. a \in 0..(Pow2[d] - 1)
  BY <1>2 DEF Pieces
<1>4. CASE b = MaxBits - 1
  <2>1. d = 0 /\ Pow2[0] = 1 /\ b + 1 = MaxBits
    BY <1>1, <1>4, Pow2Assumption
  <2>2. i = 1
    BY <1>3, <2>1
  <2>3. Equal(Zeta[1] * Zeta[1], -Mont * Mont)
    BY TableAssumption
  <2>4. Equal(Root(Zeta[1]) * Root(Zeta[1]), -1)
    BY <1>2, <2>2, <2>3, MontInverse
  <2> QED BY <1>2, <2>1, <2>2, <2>4 DEF PieceRoot
<1>5. CASE b # MaxBits - 1
  <2>1. /\ b + 1 \in 1..(MaxBits - 1) /\ b + 1 # MaxBits /\ d \in 1..MaxBits
        /\ MaxBits - 1 - (b + 1) = d - 1
    BY <1>1, <1>5
  <2>2. Pow2[d] = 2 * Pow2[d - 1] /\ Pow2[d - 1] \in Nat \ {0}
    <3>1. d - 1 \in 0..MaxBits
      BY <1>1, <2>1
    <3> QED BY <2>1, <3>1, Pow2Assumption, Pow2Positive
  <2>3. /\ i \in 2..((RingSize \div 2) - 1) /\ i \div 2 = Pow2[d - 1] + (a \div 2)
        /\ i % 2 = 0 <=> a % 2 = 0
    <3> HIDE DEF d
    <3> QED BY <1>2, <1>3, <2>2
  <2>4. PICK c \in Pieces(b + 2) : a = 2 * c \/ a = 2 * c + 1
    BY <2>1, WhichHalf
  <2>5. a \div 2 = c
    <3>1. b + 2 \in 1..MaxBits /\ (b + 1) + 1 = b + 2
      BY <1>1, <2>1
    <3>2. c \in Nat
      BY <3>1, Sizes, <2>4 DEF Pieces
    <3> QED BY <2>4, <3>2
  <2>6. Zeta[i \div 2] \in Int /\ CutRoot(b + 1, a \div 2) = Root(Zeta[i \div 2])
    <3>1. (b + 1) + 1 = b + 2
      OBVIOUS
    <3>2. Zeta[Pow2[MaxBits - 1 - (b + 1)] + c] \in Int
      BY <2>1, <2>4, <3>1, TableIndex
    <3> QED BY <2>1, <2>3, <2>5, <3>2 DEF CutRoot
  <2>7. Equal(Zeta[i] * Zeta[i], (IF i % 2 = 0 THEN Mont ELSE -Mont) * Zeta[i \div 2])
    BY <2>3, TableAssumption
  <2> DEFINE v == IF a % 2 = 0 THEN Zeta[i \div 2] ELSE -Zeta[i \div 2]
  <2>8. v \in Int /\ Mont * v = (IF i % 2 = 0 THEN Mont ELSE -Mont) * Zeta[i \div 2]
    BY <2>3, <2>6, MontInverse
  <2>9. Root(v) = PieceRoot(b + 1, a)
    <3>1. Root(-Zeta[i \div 2]) = -Root(Zeta[i \div 2])
      BY <2>6 DEF Root
    <3> QED BY <2>1, <2>6, <3>1 DEF PieceRoot
  <2> HIDE DEF v, i
  <2>10. Equal(Zeta[i] * Zeta[i], Mont * v)
    BY <2>7, <2>8
  <2>11. Equal(Root(Zeta[i]) * Root(Zeta[i]), Root(v))
    BY <1>2, <2>8, <2>10, MontInverse
  <2> QED BY <1>2, <2>9, <2>11
<1> QED BY <1>4, <1>5

(* Multiplication by X, in the ring and, modulo Q, in every piece.         *)
Turn(u) == [i \in Indices |-> IF i = 0 THEN -u[RingSize - 1] ELSE u[i - 1]]

TurnedAt(u, b, c, j) ==
  IF j = 0 THEN Equal(Layers(Turn(u))[b][At(b, c, 0)],
                      PieceRoot(b, c) * Layers(u)[b][At(b, c, Pow2[b] - 1)])
  ELSE Equal(Layers(Turn(u))[b][At(b, c, j)], Layers(u)[b][At(b, c, j - 1)])

LEMMA TurnType ==
  ASSUME NEW u \in Arrays
  PROVE  Turn(u) \in Arrays
<1>1. RingSize \in Nat \ {0}
  BY Pow2Positive, Pow2Assumption DEF RingSize
<1>2. ASSUME NEW i \in Indices
      PROVE  (IF i = 0 THEN -u[RingSize - 1] ELSE u[i - 1]) \in Int
  <2>1. RingSize - 1 \in Indices /\ (i # 0 => i - 1 \in Indices)
    BY <1>1 DEF Indices
  <2> QED BY <2>1 DEF Arrays
<1> QED BY <1>2 DEF Turn, Arrays

(* The inner elements of a piece, and the first one.                       *)
LEMMA TurnInner ==
  ASSUME NEW z \in Int, NEW x0 \in Int, NEW x1 \in Int, NEW y0 \in Int, NEW y1 \in Int,
         Equal(x0, y0), Equal(x1, y1)
  PROVE  Equal(x0 + z * x1, y0 + z * y1) /\ Equal(x0 - z * x1, y0 - z * y1)
<1>1. Equal(z, z)
  BY EqualSame
<1>2. Equal(z * x1, z * y1) /\ z * x1 \in Int /\ z * y1 \in Int
  BY <1>1, EqualTimes
<1> QED BY <1>2, EqualSum

LEMMA TurnFirst ==
  ASSUME NEW z \in Int, NEW v \in Int, NEW x0 \in Int, NEW x1 \in Int, NEW y0 \in Int,
         NEW y1 \in Int, Equal(x0, v * y1), Equal(x1, y0), Equal(z * z, v)
  PROVE  Equal(x0 + z * x1, z * (y0 + z * y1)) /\ Equal(x0 - z * x1, (-z) * (y0 - z * y1))
<1>1. z * z \in Int /\ v * y1 \in Int /\ Q \in Int
  BY DEF Q
<1>2. PICK m \in Int : z * z = v + Q * m
  BY <1>1, EqualWitness
<1>3. PICK n \in Int : x0 = v * y1 + Q * n
  BY <1>1, EqualWitness
<1>4. PICK l \in Int : x1 = y0 + Q * l
  BY EqualWitness
<1>5. (z * z) * y1 = v * y1 + Q * (m * y1)
  BY <1>1, <1>2
<1>6. /\ z * (y0 + z * y1) = z * y0 + (z * z) * y1
      /\ (-z) * (y0 - z * y1) = (z * z) * y1 - z * y0
      /\ z * x1 = z * y0 + Q * (z * l)
  BY <1>1, <1>4
<1>7. /\ x0 + z * x1 = z * (y0 + z * y1) + Q * (n + z * l - m * y1)
      /\ x0 - z * x1 = (-z) * (y0 - z * y1) + Q * (n - z * l - m * y1)
  BY <1>1, <1>3, <1>5, <1>6
<1>8. /\ n + z * l - m * y1 \in Int /\ n - z * l - m * y1 \in Int
      /\ x0 + z * x1 \in Int /\ x0 - z * x1 \in Int
      /\ z * (y0 + z * y1) \in Int /\ (-z) * (y0 - z * y1) \in Int
  OBVIOUS
<1> QED BY <1>7, <1>8, EqualWitness

LEMMA TurnBelow ==
  ASSUME NEW u \in Arrays, NEW b \in 1..(MaxBits - 1), NEW a \in Pieces(b + 1), NEW j \in Slots(b),
         \A i \in Slots(b + 1) : TurnedAt(u, b + 1, a, i)
  PROVE  TurnedAt(u, b, 2 * a, j) /\ TurnedAt(u, b, 2 * a + 1, j)
<1> DEFINE l == Pow2[b]
           z == CutRoot(b, a)
           X(i) == Layers(Turn(u))[b + 1][At(b + 1, a, i)]
           Y(i) == Layers(u)[b + 1][At(b + 1, a, i)]
           XB(c, i) == Layers(Turn(u))[b][At(b, c, i)]
           YB(c, i) == Layers(u)[b][At(b, c, i)]
<1>1. b \in 1..MaxBits /\ b + 1 \in 1..MaxBits /\ z \in Int /\ l \in Nat \ {0} /\ Pow2[b + 1] = 2 * l
  BY Pow2Assumption, TableIndex, Sizes
<1>2. \A i \in Slots(b) :
        /\ XB(2 * a, i) = X(i) + z * X(l + i) /\ XB(2 * a + 1, i) = X(i) - z * X(l + i)
        /\ YB(2 * a, i) = Y(i) + z * Y(l + i) /\ YB(2 * a + 1, i) = Y(i) - z * Y(l + i)
  BY LayerAt, TurnType
<1>3. \A i \in Slots(b + 1) : X(i) \in Int /\ Y(i) \in Int
  BY <1>1, LayersInt, TurnType
<1>4. \A i \in Slots(b + 1) : i # 0 => Equal(X(i), Y(i - 1))
  BY DEF TurnedAt
<1>5. 0 \in Slots(b + 1) /\ 0 \in Slots(b) /\ l - 1 \in Slots(b) /\ 2 * l - 1 \in Slots(b + 1)
      /\ l - 1 \in Slots(b + 1) /\ l \in Slots(b + 1)
  BY <1>1 DEF Slots
<1>6. Equal(X(0), PieceRoot(b + 1, a) * Y(2 * l - 1))
  BY <1>1, <1>5 DEF TurnedAt
<1>7. PieceRoot(b, 2 * a) = z /\ PieceRoot(b, 2 * a + 1) = -z
  BY PieceRoots
<1>8. CASE j = 0
  <2> DEFINE v == PieceRoot(b + 1, a)
  <2>1. v \in Int /\ Equal(z * z, v)
    BY <1>1, PieceRootInt, CutRootSquare
  <2>2. Equal(X(l), Y(l - 1))
    BY <1>1, <1>4, <1>5
  <2>3. Equal(X(0), v * Y(2 * l - 1))
    BY <1>6
  <2>4. X(0) \in Int /\ X(l) \in Int /\ Y(l - 1) \in Int /\ Y(2 * l - 1) \in Int
    BY <1>3, <1>5
  <2>5. /\ Equal(X(0) + z * X(l), z * (Y(l - 1) + z * Y(2 * l - 1)))
        /\ Equal(X(0) - z * X(l), (-z) * (Y(l - 1) - z * Y(2 * l - 1)))
    <3> HIDE DEF X, Y, z, v, l
    <3> QED BY <1>1, <2>1, <2>2, <2>3, <2>4, TurnFirst
  <2>6. l + 0 = l /\ l + (l - 1) = 2 * l - 1
    BY <1>1
  <2>7. /\ XB(2 * a, 0) = X(0) + z * X(l) /\ XB(2 * a + 1, 0) = X(0) - z * X(l)
        /\ YB(2 * a, l - 1) = Y(l - 1) + z * Y(2 * l - 1)
        /\ YB(2 * a + 1, l - 1) = Y(l - 1) - z * Y(2 * l - 1)
    <3> HIDE DEF X, Y, XB, YB, z, l
    <3> QED BY <1>2, <1>5, <2>6
  <2>8. /\ Equal(XB(2 * a, 0), PieceRoot(b, 2 * a) * YB(2 * a, l - 1))
        /\ Equal(XB(2 * a + 1, 0), PieceRoot(b, 2 * a + 1) * YB(2 * a + 1, l - 1))
    <3> HIDE DEF X, Y, XB, YB, z, l
    <3> QED BY <1>7, <2>5, <2>7
  <2> QED BY <1>8, <2>8 DEF TurnedAt
<1>9. CASE j # 0
  <2>1. /\ j \in Slots(b + 1) /\ l + j \in Slots(b + 1) /\ l + j # 0 /\ j - 1 \in Slots(b)
        /\ l + (j - 1) = (l + j) - 1 /\ j - 1 \in Slots(b + 1) /\ (l + j) - 1 \in Slots(b + 1)
    BY <1>1, <1>9 DEF Slots
  <2>2. Equal(X(j), Y(j - 1)) /\ Equal(X(l + j), Y((l + j) - 1))
    BY <1>4, <1>9, <2>1
  <2>3. X(j) \in Int /\ X(l + j) \in Int /\ Y(j - 1) \in Int /\ Y((l + j) - 1) \in Int
    BY <1>3, <2>1
  <2>4. /\ Equal(X(j) + z * X(l + j), Y(j - 1) + z * Y((l + j) - 1))
        /\ Equal(X(j) - z * X(l + j), Y(j - 1) - z * Y((l + j) - 1))
    <3> HIDE DEF X, Y, z, l
    <3> QED BY <1>1, <2>2, <2>3, TurnInner
  <2>5. /\ Equal(XB(2 * a, j), YB(2 * a, j - 1))
        /\ Equal(XB(2 * a + 1, j), YB(2 * a + 1, j - 1))
    <3> HIDE DEF X, Y, XB, YB, z, l
    <3> QED BY <1>2, <2>1, <2>4
  <2> QED BY <1>9, <2>5 DEF TurnedAt
<1> QED BY <1>8, <1>9

LEMMA LayersTurn ==
  ASSUME NEW u \in Arrays
  PROVE  \A b \in 1..MaxBits : \A c \in Pieces(b), j \in Slots(b) : TurnedAt(u, b, c, j)
<1> DEFINE P == {b \in 1..MaxBits : \A c \in Pieces(b), j \in Slots(b) : TurnedAt(u, b, c, j)}
<1>1. MaxBits \in P
  <2>1. MaxBits \in 1..MaxBits /\ MaxBits - MaxBits = 0 /\ Pow2[0] = 1
    BY Pow2Assumption, RingAssumption
  <2>2. Pieces(MaxBits) = {0} /\ Slots(MaxBits) = Indices
    BY <2>1 DEF Pieces, Slots, RingSize, Indices
  <2>3. RingSize \in Nat \ {0}
    BY Pow2Positive, Pow2Assumption DEF RingSize
  <2>4. \A j \in Int : At(MaxBits, 0, j) = j
    BY <2>3 DEF At, RingSize
  <2>5. Layers(u)[MaxBits] = u /\ Layers(Turn(u))[MaxBits] = Turn(u)
    BY LayersEquation, TurnType
  <2>6. ASSUME NEW j \in Indices PROVE TurnedAt(u, MaxBits, 0, j)
    <3>1. j \in Int /\ 0 \in Indices /\ RingSize - 1 \in Indices
      BY <2>3 DEF Indices
    <3>2. u[RingSize - 1] \in Int /\ Turn(u)[0] = -u[RingSize - 1]
      BY <3>1 DEF Arrays, Turn
    <3>3. CASE j = 0
      <4>1. Equal(Turn(u)[0], PieceRoot(MaxBits, 0) * u[RingSize - 1])
        <5>1. PieceRoot(MaxBits, 0) * u[RingSize - 1] = -u[RingSize - 1]
          BY <3>2 DEF PieceRoot
        <5> QED BY <3>2, <5>1, EqualSame
      <4>2. At(MaxBits, 0, 0) = 0 /\ At(MaxBits, 0, Pow2[MaxBits] - 1) = RingSize - 1
        BY <2>3, <2>4 DEF RingSize
      <4> QED BY <2>5, <3>3, <4>1, <4>2 DEF TurnedAt
    <3>4. CASE j # 0
      <4>1. j - 1 \in Indices /\ Turn(u)[j] = u[j - 1] /\ u[j - 1] \in Int
        BY <2>3, <3>4 DEF Indices, Arrays, Turn
      <4>2. Equal(Turn(u)[j], u[j - 1])
        BY <4>1, EqualSame
      <4>3. At(MaxBits, 0, j) = j /\ At(MaxBits, 0, j - 1) = j - 1
        BY <2>4, <3>1
      <4> QED BY <2>5, <3>4, <4>2, <4>3 DEF TurnedAt
    <3> QED BY <3>3, <3>4
  <2> QED BY <2>1, <2>2, <2>6
<1>2. ASSUME NEW b \in 1..(MaxBits - 1), b + 1 \in P
      PROVE  b \in P
  <2>1. b \in 1..MaxBits /\ \A a \in Pieces(b + 1), j \in Slots(b + 1) : TurnedAt(u, b + 1, a, j)
    BY <1>2, Pow2Assumption
  <2>2. ASSUME NEW c \in Pieces(b), NEW j \in Slots(b) PROVE TurnedAt(u, b, c, j)
    <3>1. PICK a \in Pieces(b + 1) : c = 2 * a \/ c = 2 * a + 1
      BY WhichHalf
    <3>2. TurnedAt(u, b, 2 * a, j) /\ TurnedAt(u, b, 2 * a + 1, j)
      BY <2>1, TurnBelow
    <3> QED BY <3>1, <3>2
  <2> QED BY <2>1, <2>2
<1>3. \A b \in 1..MaxBits : b \in P
  <2> HIDE DEF P
  <2> QED BY <1>1, <1>2, LayerInduction
<1> QED BY <1>3

(* The layers of 1.                                                        *)
One == [i \in Indices |-> IF i = 0 THEN 1 ELSE 0]

LEMMA LayersOne ==
  /\ One \in Arrays
  /\ \A b \in 1..MaxBits : \A c \in Pieces(b), j \in Slots(b) :
       Layers(One)[b][At(b, c, j)] = IF j = 0 THEN 1 ELSE 0
<1>0. One \in Arrays
  BY DEF One, Arrays
<1> DEFINE IsOne(b, c, j) == Layers(One)[b][At(b, c, j)] = IF j = 0 THEN 1 ELSE 0
           P == {b \in 1..MaxBits : \A c \in Pieces(b), j \in Slots(b) : IsOne(b, c, j)}
<1>1. MaxBits \in P
  <2>1. MaxBits \in 1..MaxBits /\ MaxBits - MaxBits = 0 /\ Pow2[0] = 1
    BY Pow2Assumption, RingAssumption
  <2>2. Pieces(MaxBits) = {0} /\ Slots(MaxBits) = Indices
    BY <2>1 DEF Pieces, Slots, RingSize, Indices
  <2>3. RingSize \in Nat
    BY Pow2Positive, Pow2Assumption DEF RingSize
  <2>4. \A j \in Indices : At(MaxBits, 0, j) = j
    BY <2>3 DEF At, RingSize, Indices
  <2>5. Layers(One)[MaxBits] = One
    BY <1>0, LayersEquation
  <2>6. \A j \in Indices : IsOne(MaxBits, 0, j)
    BY <2>4, <2>5 DEF One
  <2> QED BY <2>1, <2>2, <2>6
<1>2. ASSUME NEW b \in 1..(MaxBits - 1), b + 1 \in P
      PROVE  b \in P
  <2>1. /\ b \in 1..MaxBits /\ b + 1 \in 1..MaxBits /\ Pow2[b] \in Nat \ {0}
        /\ Pow2[b + 1] = 2 * Pow2[b]
    <3>1. b \in 1..MaxBits /\ b + 1 \in 1..MaxBits /\ b < MaxBits
      BY Pow2Assumption
    <3> QED BY <3>1, Sizes
  <2>3. \A a \in Pieces(b + 1), j \in Slots(b + 1) : IsOne(b + 1, a, j)
    BY <1>2
  <2>2. ASSUME NEW c \in Pieces(b), NEW j \in Slots(b) PROVE IsOne(b, c, j)
    <3>1. PICK a \in Pieces(b + 1) : c = 2 * a \/ c = 2 * a + 1
      BY WhichHalf
    <3> DEFINE lo == Layers(One)[b + 1][At(b + 1, a, j)]
               hi == Layers(One)[b + 1][At(b + 1, a, Pow2[b] + j)]
               z == CutRoot(b, a)
    <3>2. /\ Layers(One)[b][At(b, 2 * a, j)] = lo + z * hi
          /\ Layers(One)[b][At(b, 2 * a + 1, j)] = lo - z * hi
      BY <1>0, LayerAt
    <3>3. j \in Slots(b + 1) /\ Pow2[b] + j \in Slots(b + 1) /\ Pow2[b] + j # 0
      BY <2>1 DEF Slots
    <3>4. lo = (IF j = 0 THEN 1 ELSE 0) /\ hi = 0 /\ z \in Int
      BY <2>3, <3>3, TableIndex
    <3> HIDE DEF lo, hi, z
    <3>5. lo + z * hi = lo /\ lo - z * hi = lo
      BY <3>4
    <3> QED BY <3>1, <3>2, <3>4, <3>5
  <2> QED BY <2>1, <2>2
<1>3. \A b \in 1..MaxBits : b \in P
  <2> HIDE DEF P
  <2> QED BY <1>1, <1>2, LayerInduction
<1> QED BY <1>0, <1>3

-----------------------------------------------------------------------------
(* The bottom layer has the residues of a polynomial modulo X^2 - z, for   *)
(* the roots z of the pairs.  A product is a sum of multiples of one       *)
(* factor by powers of X, and its residues follow from the last summand    *)
(* back; e0 and e1 are values that Horner's rule finds for the other one.  *)
Residue(u, p, x) == Layers(u)[1][At(1, p, x)]

LEMMA PairPlaces ==
  /\ 1 \in 1..MaxBits /\ 1 \in 1..(MaxBits - 1) /\ Pow2[1] = 2 /\ Slots(1) = {0, 1}
  /\ \A u \in Arrays, p \in Pieces(1) : Residue(u, p, 0) \in Int /\ Residue(u, p, 1) \in Int
<1>1. 1 \in 1..MaxBits /\ 1 \in 1..(MaxBits - 1) /\ Pow2[1] = 2
  BY Pow2Assumption, RingAssumption
<1>2. Slots(1) = {0, 1}
  BY <1>1 DEF Slots
<1>3. 0 \in Slots(1) /\ 1 \in Slots(1)
  BY <1>2
<1> QED BY <1>1, <1>2, <1>3, LayersInt DEF Residue

LEMMA DownInduction ==
  ASSUME NEW P, NEW n \in Nat, n \in P, \A j \in 0..(n - 1) : j + 1 \in P => j \in P
  PROVE  \A j \in 0..n : j \in P
<1> DEFINE U == {d \in Nat : d <= n /\ n - d \notin P}
<1>1. ASSUME U # {} PROVE FALSE
  <2>1. PICK d \in U : \A x \in U : d <= x
    BY <1>1, LeastNatural
  <2>2. d \in Nat /\ d <= n /\ n - d \notin P
    OBVIOUS
  <2>3. d # 0
    BY <2>2
  <2>4. d - 1 \in Nat /\ d - 1 <= n /\ ~ (d <= d - 1)
    BY <2>2, <2>3
  <2>5. n - (d - 1) \in P
    BY <2>1, <2>4
  <2>6. n - d \in 0..(n - 1) /\ (n - d) + 1 = n - (d - 1)
    BY <2>2, <2>3
  <2> QED BY <2>2, <2>5, <2>6
<1> TAKE j \in 0..n
<1>2. n - j \in Nat /\ n - j <= n /\ n - (n - j) = j
  OBVIOUS
<1>3. n - (n - j) \in P
  BY <1>1, <1>2
<1> QED BY <1>2, <1>3

LEMMA SummandStep ==
  ASSUME NEW c \in Int, NEW z \in Int, NEW e0 \in Int, NEW e1 \in Int, NEW e2 \in Int,
         NEW g0 \in Int, NEW g1 \in Int, NEW h0 \in Int, NEW h1 \in Int,
         NEW u0 \in Int, NEW u1 \in Int, NEW v0 \in Int, NEW v1 \in Int,
         Equal(e0, c + z * e2), Equal(h0, z * g1), Equal(h1, g0),
         Equal(u0, c * g0 + v0), Equal(u1, c * g1 + v1),
         Equal(v0, e1 * h0 + z * (e2 * h1)), Equal(v1, e1 * h1 + e2 * h0)
  PROVE  Equal(u0, e0 * g0 + z * (e1 * g1)) /\ Equal(u1, e0 * g1 + e1 * g0)
<1>1. PICK m \in Int : e0 = c + z * e2 + Q * m
  BY EqualWitness
<1>2. PICK n0 \in Int : h0 = z * g1 + Q * n0
  BY EqualWitness
<1>3. PICK n1 \in Int : h1 = g0 + Q * n1
  BY EqualWitness
<1>4. PICK l0 \in Int : u0 = c * g0 + v0 + Q * l0
  BY EqualWitness
<1>5. PICK l1 \in Int : u1 = c * g1 + v1 + Q * l1
  BY EqualWitness
<1>6. PICK k0 \in Int : v0 = e1 * h0 + z * (e2 * h1) + Q * k0
  BY EqualWitness
<1>7. PICK k1 \in Int : v1 = e1 * h1 + e2 * h0 + Q * k1
  BY EqualWitness
<1>8. Q \in Int
  BY DEF Q
<1>9. /\ e1 * h0 = z * (e1 * g1) + Q * (e1 * n0) /\ e2 * h1 = e2 * g0 + Q * (e2 * n1)
      /\ e1 * h1 = e1 * g0 + Q * (e1 * n1) /\ e2 * h0 = z * (e2 * g1) + Q * (e2 * n0)
  BY <1>2, <1>3, <1>8
<1>10. /\ e0 * g0 = c * g0 + z * (e2 * g0) + Q * (m * g0)
       /\ e0 * g1 = c * g1 + z * (e2 * g1) + Q * (m * g1)
  BY <1>1, <1>8
<1>11. z * (e2 * h1) = z * (e2 * g0) + Q * (z * (e2 * n1))
  BY <1>8, <1>9
<1> DEFINE x0 == e1 * n0
           y0 == z * (e2 * n1)
           w0 == m * g0
           x1 == e1 * n1
           y1 == e2 * n0
           w1 == m * g1
<1>12. /\ u0 = e0 * g0 + z * (e1 * g1) + (Q * l0 + Q * k0 + Q * x0 + Q * y0 - Q * w0)
       /\ u1 = e0 * g1 + e1 * g0 + (Q * l1 + Q * k1 + Q * x1 + Q * y1 - Q * w1)
  <2>1. /\ e1 * h0 = z * (e1 * g1) + Q * x0 /\ e1 * h1 = e1 * g0 + Q * x1
        /\ e2 * h0 = z * (e2 * g1) + Q * y1 /\ z * (e2 * h1) = z * (e2 * g0) + Q * y0
        /\ e0 * g0 = c * g0 + z * (e2 * g0) + Q * w0 /\ e0 * g1 = c * g1 + z * (e2 * g1) + Q * w1
    BY <1>9, <1>10, <1>11
  <2> DEFINE zeg11 == z * (e1 * g1)
             zeh21 == z * (e2 * h1)
             zeg20 == z * (e2 * g0)
             zeg21 == z * (e2 * g1)
             eh10 == e1 * h0
             eh11 == e1 * h1
             eh20 == e2 * h0
             eg10 == e1 * g0
             eg00 == e0 * g0
             eg01 == e0 * g1
             cg0 == c * g0
             cg1 == c * g1
             Times(n) == Q * n
  <2>2. /\ eh10 = zeg11 + Times(x0) /\ eh11 = eg10 + Times(x1) /\ eh20 = zeg21 + Times(y1)
        /\ zeh21 = zeg20 + Times(y0) /\ eg00 = cg0 + zeg20 + Times(w0)
        /\ eg01 = cg1 + zeg21 + Times(w1)
        /\ u0 = cg0 + v0 + Times(l0) /\ v0 = eh10 + zeh21 + Times(k0)
        /\ u1 = cg1 + v1 + Times(l1) /\ v1 = eh11 + eh20 + Times(k1)
    BY <1>4, <1>5, <1>6, <1>7, <2>1
  <2>3. /\ \A n \in Int : Times(n) \in Int
        /\ x0 \in Int /\ y0 \in Int /\ w0 \in Int /\ x1 \in Int /\ y1 \in Int /\ w1 \in Int
        /\ zeg11 \in Int /\ zeh21 \in Int /\ zeg20 \in Int /\ zeg21 \in Int
        /\ eh10 \in Int /\ eh11 \in Int /\ eh20 \in Int /\ eg10 \in Int /\ eg00 \in Int
        /\ eg01 \in Int /\ cg0 \in Int /\ cg1 \in Int
    BY <1>8
  <2> HIDE DEF x0, y0, w0, x1, y1, w1, zeg11, zeh21, zeg20, zeg21, eh10, eh11, eh20, eg10,
               eg00, eg01, cg0, cg1, Times
  <2>4. /\ u0 = eg00 + zeg11 + (Times(l0) + Times(k0) + Times(x0) + Times(y0) - Times(w0))
        /\ u1 = eg01 + eg10 + (Times(l1) + Times(k1) + Times(x1) + Times(y1) - Times(w1))
    BY <2>2, <2>3
  <2> QED BY <2>4 DEF zeg11, eg10, eg00, eg01, Times
<1>13. /\ x0 \in Int /\ y0 \in Int /\ w0 \in Int /\ x1 \in Int /\ y1 \in Int /\ w1 \in Int
       /\ e0 * g0 + z * (e1 * g1) \in Int /\ e0 * g1 + e1 * g0 \in Int
  OBVIOUS
<1> HIDE DEF x0, y0, w0, x1, y1, w1
<1>14. /\ u0 = e0 * g0 + z * (e1 * g1) + Q * (l0 + k0 + x0 + y0 - w0)
       /\ u1 = e0 * g1 + e1 * g0 + Q * (l1 + k1 + x1 + y1 - w1)
  BY <1>8, <1>12, <1>13
<1>15. l0 + k0 + x0 + y0 - w0 \in Int /\ l1 + k1 + x1 + y1 - w1 \in Int
  BY <1>13
<1> QED BY <1>13, <1>14, <1>15, EqualWitness

(* The multiples of a polynomial and the sums of those from the j-th on.   *)
Multiples(G) == \A j \in Indices : G[j + 1] = Turn(G[j])

SumsFrom(S, f, G) ==
  /\ \A i \in Indices : S[RingSize][i] = 0
  /\ \A j, i \in Indices : Equal(S[j][i], f[j] * G[j][i] + S[j + 1][i])

HornerOf(E, f, z) ==
  /\ E[RingSize] = 0 /\ E[RingSize + 1] = 0
  /\ \A j \in Indices : Equal(E[j], f[j] + z * E[j + 2])

ResidueOfSum(S, G, E, z, p, j) ==
  /\ Equal(Residue(S[j], p, 0), E[j] * Residue(G[j], p, 0) + z * (E[j + 1] * Residue(G[j], p, 1)))
  /\ Equal(Residue(S[j], p, 1), E[j] * Residue(G[j], p, 1) + E[j + 1] * Residue(G[j], p, 0))

LEMMA ResidueZero ==
  ASSUME NEW u \in Arrays, \A i \in Indices : u[i] = 0, NEW p \in Pieces(1), NEW x \in {0, 1}
  PROVE  Equal(Residue(u, p, x), 0)
<1>1. \A i \in Indices : Equal(u[i], 1 * u[i] + u[i])
  BY EqualSame
<1>2. At(1, p, x) \in Indices
  BY PairPlaces, AtIndex
<1>3. Equal(Layers(u)[1][At(1, p, x)], 1 * Layers(u)[1][At(1, p, x)] + Layers(u)[1][At(1, p, x)])
  BY <1>1, <1>2, PairPlaces, LayersLinear
<1> DEFINE v == Residue(u, p, x)
<1>4. v \in Int /\ Equal(v, 1 * v + v)
  BY <1>3, PairPlaces DEF Residue
<1> HIDE DEF v
<1>5. Equal(v, 0)
  BY <1>4 DEF Equal, Q
<1> QED BY <1>5 DEF v

LEMMA ResiduesOfSums ==
  ASSUME NEW f \in Arrays, NEW S \in [0..RingSize -> Arrays], NEW G \in [0..RingSize -> Arrays],
         NEW E \in [0..(RingSize + 1) -> Int], NEW z \in Int, NEW p \in Pieces(1),
         Equal(PieceRoot(1, p), z), Multiples(G), SumsFrom(S, f, G), HornerOf(E, f, z)
  PROVE  \A j \in 0..RingSize : ResidueOfSum(S, G, E, z, p, j)
<1> DEFINE n == RingSize
           P == {j \in 0..n : ResidueOfSum(S, G, E, z, p, j)}
<1>1. n \in Nat \ {0} /\ n \in Nat /\ Indices = 0..(n - 1)
  BY Pow2Positive, Pow2Assumption DEF RingSize, Indices
<1>2. n \in P
  <2>1. S[n] \in Arrays /\ G[n] \in Arrays /\ n \in 0..n
    BY <1>1
  <2>2. \A x \in {0, 1} : Equal(Residue(S[n], p, x), 0)
    BY <2>1, ResidueZero DEF SumsFrom
  <2>3. Residue(G[n], p, 0) \in Int /\ Residue(G[n], p, 1) \in Int
    BY <2>1, PairPlaces
  <2>4. E[n] = 0 /\ E[n + 1] = 0
    BY DEF HornerOf
  <2> DEFINE g0 == Residue(G[n], p, 0)
             g1 == Residue(G[n], p, 1)
  <2>5. /\ E[n] * g0 + z * (E[n + 1] * g1) = 0
        /\ E[n] * g1 + E[n + 1] * g0 = 0
    <3> HIDE DEF g0, g1
    <3>1. g0 \in Int /\ g1 \in Int
      BY <2>3 DEF g0, g1
    <3> QED BY <2>4, <3>1
  <2> QED BY <2>1, <2>2, <2>5 DEF ResidueOfSum
<1>3. ASSUME NEW j \in 0..(n - 1), j + 1 \in P
      PROVE  j \in P
  <2>1. /\ j \in Indices /\ j \in 0..n /\ j + 1 \in 0..n /\ j + 2 \in 0..(n + 1)
        /\ j \in 0..(n + 1) /\ j + 1 \in 0..(n + 1) /\ (j + 1) + 1 = j + 2
    BY <1>1
  <2>2. S[j] \in Arrays /\ G[j] \in Arrays /\ S[j + 1] \in Arrays /\ f[j] \in Int
        /\ G[j + 1] = Turn(G[j]) /\ G[j + 1] \in Arrays
    BY <2>1 DEF Arrays, Multiples
  <2> DEFINE u(x) == Residue(S[j], p, x)
             v(x) == Residue(S[j + 1], p, x)
             g(x) == Residue(G[j], p, x)
             h(x) == Residue(Turn(G[j]), p, x)
  <2>3. /\ u(0) \in Int /\ u(1) \in Int /\ v(0) \in Int /\ v(1) \in Int
        /\ g(0) \in Int /\ g(1) \in Int /\ h(0) \in Int /\ h(1) \in Int
    BY <2>2, PairPlaces
  <2>4. \A x \in {0, 1} : Equal(u(x), f[j] * g(x) + v(x))
    <3>1. \A i \in Indices : Equal(S[j][i], f[j] * G[j][i] + S[j + 1][i])
      BY <2>1 DEF SumsFrom
    <3>2. \A i \in Indices : Equal(Layers(S[j])[1][i], f[j] * Layers(G[j])[1][i] + Layers(S[j + 1])[1][i])
      BY <2>2, <3>1, PairPlaces, LayersLinear
    <3>3. \A x \in {0, 1} : At(1, p, x) \in Indices
      BY PairPlaces, AtIndex
    <3> QED BY <3>2, <3>3 DEF Residue
  <2>5. Equal(h(0), z * g(1)) /\ Equal(h(1), g(0))
    <3>1. TurnedAt(G[j], 1, p, 0) /\ TurnedAt(G[j], 1, p, 1)
      BY <2>2, PairPlaces, LayersTurn
    <3>2. 2 - 1 = 1 /\ 1 - 1 = 0 /\ 1 # 0
      OBVIOUS
    <3>3. Equal(h(0), PieceRoot(1, p) * g(1)) /\ Equal(h(1), g(0))
      BY <3>1, <3>2, PairPlaces DEF TurnedAt, Residue
    <3> DEFINE w == PieceRoot(1, p)
    <3>4. w \in Int /\ Equal(w, z) /\ Equal(h(0), w * g(1))
      BY <3>3, PairPlaces, PieceRootInt
    <3> DEFINE g1 == g(1)
               h0 == h(0)
    <3>5. g1 \in Int /\ h0 \in Int /\ Equal(h0, w * g1)
      BY <2>3, <3>4
    <3> HIDE DEF w, g1, h0
    <3>6. Equal(g1, g1)
      BY <3>5, EqualSame
    <3>7. Equal(w * g1, z * g1)
      BY <3>4, <3>5, <3>6, EqualTimes
    <3>8. w * g1 \in Int /\ z * g1 \in Int
      BY <3>4, <3>5
    <3>9. Equal(h0, z * g1)
      BY <3>5, <3>7, <3>8, EqualChain
    <3> QED BY <3>3, <3>9 DEF g1, h0
  <2>6. Equal(E[j], f[j] + z * E[j + 2])
    BY <2>1 DEF HornerOf
  <2>7. /\ Equal(v(0), E[j + 1] * h(0) + z * (E[j + 2] * h(1)))
        /\ Equal(v(1), E[j + 1] * h(1) + E[j + 2] * h(0))
    BY <1>3, <2>1, <2>2 DEF ResidueOfSum
  <2>8. E[j] \in Int /\ E[j + 1] \in Int /\ E[j + 2] \in Int
    BY <2>1
  <2>9. /\ Equal(u(0), E[j] * g(0) + z * (E[j + 1] * g(1)))
        /\ Equal(u(1), E[j] * g(1) + E[j + 1] * g(0))
    <3> DEFINE c == f[j]
               e0 == E[j]
               e1 == E[j + 1]
               e2 == E[j + 2]
               g0 == g(0)
               g1 == g(1)
               h0 == h(0)
               h1 == h(1)
               u0 == u(0)
               u1 == u(1)
               v0 == v(0)
               v1 == v(1)
    <3>1. Equal(u0, c * g0 + v0) /\ Equal(u1, c * g1 + v1)
      BY <2>4
    <3>2. /\ c \in Int /\ e0 \in Int /\ e1 \in Int /\ e2 \in Int /\ g0 \in Int /\ g1 \in Int
          /\ h0 \in Int /\ h1 \in Int /\ u0 \in Int /\ u1 \in Int /\ v0 \in Int /\ v1 \in Int
      BY <2>2, <2>3, <2>8
    <3>3. /\ Equal(e0, c + z * e2) /\ Equal(h0, z * g1) /\ Equal(h1, g0)
          /\ Equal(v0, e1 * h0 + z * (e2 * h1)) /\ Equal(v1, e1 * h1 + e2 * h0)
      BY <2>5, <2>6, <2>7
    <3> HIDE DEF c, e0, e1, e2, g0, g1, h0, h1, u0, u1, v0, v1
    <3>4. Equal(u0, e0 * g0 + z * (e1 * g1)) /\ Equal(u1, e0 * g1 + e1 * g0)
      BY <3>1, <3>2, <3>3, SummandStep
    <3> QED BY <3>4 DEF e0, e1, g0, g1, u0, u1
  <2> QED BY <2>1, <2>9 DEF ResidueOfSum
<1> HIDE DEF P
<1>4. \A j \in 0..n : j \in P
  BY <1>1, <1>2, <1>3, DownInduction
<1> QED BY <1>4 DEF P

(* g times X^j.                                                            *)
Shifted(g, j) == [i \in Indices |-> IF j <= i THEN g[i - j] ELSE -g[RingSize + i - j]]
Shifts(g) == [j \in 0..RingSize |-> Shifted(g, j)]

LEMMA ShiftsTurn ==
  ASSUME NEW g \in Arrays
  PROVE  Shifts(g) \in [0..RingSize -> Arrays] /\ Multiples(Shifts(g)) /\ Shifts(g)[0] = g
<1>1. RingSize \in Nat \ {0} /\ Indices = 0..(RingSize - 1)
  BY Pow2Positive, Pow2Assumption DEF RingSize, Indices
<1>2. \A j \in 0..RingSize : \A i \in Indices :
        (j <= i => i - j \in Indices) /\ (~ (j <= i) => RingSize + i - j \in Indices)
  BY <1>1
<1>3. \A i \in Indices : g[i] \in Int /\ -g[i] \in Int
  BY DEF Arrays
<1>4. \A j \in 0..RingSize : Shifted(g, j) \in Arrays
  <2> TAKE j \in 0..RingSize
  <2>1. ASSUME NEW i \in Indices
        PROVE  (IF j <= i THEN g[i - j] ELSE -g[RingSize + i - j]) \in Int
    BY <1>2, <1>3
  <2> QED BY <2>1 DEF Shifted, Arrays
<1>5. ASSUME NEW j \in Indices
      PROVE  Shifted(g, j + 1) = Turn(Shifted(g, j))
  <2>1. ASSUME NEW i \in Indices
        PROVE  Shifted(g, j + 1)[i] = Turn(Shifted(g, j))[i]
    <3>1. RingSize - 1 \in Indices /\ j <= RingSize - 1 /\ j \in Int /\ i \in Nat
      BY <1>1
    <3>2. Turn(Shifted(g, j))[i]
            = IF i = 0 THEN -Shifted(g, j)[RingSize - 1] ELSE Shifted(g, j)[i - 1]
      BY DEF Turn
    <3>3. CASE i = 0
      <4>1. Shifted(g, j)[RingSize - 1] = g[RingSize - 1 - j]
        BY <3>1 DEF Shifted
      <4>2. Shifted(g, j + 1)[i] = -g[RingSize + i - (j + 1)]
        <5>1. ~ (j + 1 <= i)
          BY <1>1, <3>3
        <5> QED BY <5>1 DEF Shifted
      <4>3. RingSize + i - (j + 1) = RingSize - 1 - j
        BY <1>1, <3>1, <3>3
      <4> QED BY <3>2, <3>3, <4>1, <4>2, <4>3
    <3>4. CASE i # 0
      <4>1. i - 1 \in Indices
        BY <1>1, <3>4
      <4>2. Shifted(g, j)[i - 1] = IF j <= i - 1 THEN g[i - 1 - j] ELSE -g[RingSize + (i - 1) - j]
        BY <4>1 DEF Shifted
      <4>3. Shifted(g, j + 1)[i] = IF j + 1 <= i THEN g[i - (j + 1)] ELSE -g[RingSize + i - (j + 1)]
        BY DEF Shifted
      <4>4. j <= i - 1 <=> j + 1 <= i
        BY <3>1
      <4>5. i - 1 - j = i - (j + 1) /\ RingSize + (i - 1) - j = RingSize + i - (j + 1)
        BY <1>1, <3>1
      <4> QED BY <3>2, <3>4, <4>2, <4>3, <4>4, <4>5
    <3> QED BY <3>3, <3>4
  <2> QED BY <2>1 DEF Shifted, Turn
<1>6. Shifted(g, 0) = g
  <2>1. ASSUME NEW i \in Indices PROVE Shifted(g, 0)[i] = g[i]
    BY <1>1 DEF Shifted
  <2> QED BY <2>1 DEF Shifted, Arrays
<1>7. /\ \A j \in 0..RingSize : Shifts(g)[j] = Shifted(g, j)
      /\ 0 \in 0..RingSize /\ \A j \in Indices : j \in 0..RingSize /\ j + 1 \in 0..RingSize
  BY <1>1 DEF Shifts
<1>8. Multiples(Shifts(g))
  BY <1>5, <1>7 DEF Multiples
<1>9. Shifts(g) \in [0..RingSize -> Arrays]
  BY <1>4 DEF Shifts
<1> QED BY <1>6, <1>7, <1>8, <1>9

(* Horner's rule on every second coefficient.                              *)
LEMMA HornerOfArray ==
  ASSUME NEW f \in Arrays, NEW z \in Int
  PROVE  \E E \in [0..(RingSize + 1) -> Int] :
           /\ HornerOf(E, f, z)
           /\ E[0] = Horner(f, RingSize, 2, z)[0] /\ E[1] = Horner(f, RingSize, 2, z)[1]
<1>1. RingSize \in Nat \ {0} /\ Indices = 0..(RingSize - 1) /\ RingSize + 2 - 1 = RingSize + 1
  BY Pow2Positive, Pow2Assumption DEF RingSize, Indices
<1> DEFINE H == Horner(f, RingSize, 2, z)
<1>2. \A j \in 0..(RingSize - 1) : f[j] \in Int
  BY <1>1 DEF Arrays
<1>3. \A j \in 0..(RingSize + 1) :
         /\ H[j] \in Int
         /\ j >= RingSize => H[j] = 0
         /\ j < RingSize => Equal(H[j], f[j] + z * H[j + 2])
  <2>1. RingSize \in Nat /\ 2 \in Nat \ {0}
    BY <1>1
  <2> QED BY <1>1, <1>2, <2>1, HornerEquation
<1> HIDE DEF H
<1> DEFINE E == [j \in 0..(RingSize + 1) |-> H[j]]
<1>4. E \in [0..(RingSize + 1) -> Int]
  BY <1>3
<1>5. \A j \in 0..(RingSize + 1) : E[j] = H[j]
  OBVIOUS
<1> HIDE DEF E
<1>6. E[RingSize] = 0 /\ E[RingSize + 1] = 0 /\ E[0] = H[0] /\ E[1] = H[1]
  <2>1. /\ RingSize \in 0..(RingSize + 1) /\ RingSize + 1 \in 0..(RingSize + 1)
        /\ 0 \in 0..(RingSize + 1) /\ 1 \in 0..(RingSize + 1)
        /\ RingSize >= RingSize /\ RingSize + 1 >= RingSize
    BY <1>1
  <2>2. H[RingSize] = 0 /\ H[RingSize + 1] = 0
    BY <1>3, <2>1
  <2> QED BY <1>5, <2>1, <2>2
<1>7. ASSUME NEW j \in Indices PROVE Equal(E[j], f[j] + z * E[j + 2])
  <2>1. j \in 0..(RingSize + 1) /\ j + 2 \in 0..(RingSize + 1) /\ j < RingSize
    BY <1>1
  <2> QED BY <1>3, <1>5, <2>1
<1>8. HornerOf(E, f, z)
  BY <1>6, <1>7 DEF HornerOf
<1> QED BY <1>4, <1>6, <1>8 DEF H

(* The residues of a polynomial are what ReferenceNtt says: the polynomial *)
(* is the sum of the multiples of 1.                                       *)
LEMMA TransformResidues ==
  ASSUME NEW f \in Arrays, NEW p \in Pieces(1), NEW z \in Int, Equal(PieceRoot(1, p), z)
  PROVE  \A x \in {0, 1} : /\ Horner(f, RingSize, 2, z)[x] \in Int
                           /\ Equal(Residue(f, p, x), Horner(f, RingSize, 2, z)[x])
<1>1. RingSize \in Nat \ {0} /\ Indices = 0..(RingSize - 1) /\ 0 \in 0..RingSize /\ RingSize >= 1
  BY Pow2Positive, Pow2Assumption DEF RingSize, Indices
<1> DEFINE S == [j \in 0..RingSize |-> [i \in Indices |-> IF i >= j THEN f[i] ELSE 0]]
           G == Shifts(One)
           H == Horner(f, RingSize, 2, z)
<1>2. S \in [0..RingSize -> Arrays]
  BY DEF Arrays
<1>3. S[0] = f
  <2>1. \A i \in Indices : i >= 0
    BY <1>1
  <2>2. S[0] = [i \in Indices |-> f[i]]
    BY <1>1, <2>1
  <2> QED BY <2>2 DEF Arrays
<1>4. One \in Arrays
  BY LayersOne
<1>5. G \in [0..RingSize -> Arrays] /\ Multiples(G) /\ G[0] = One
  BY <1>4, ShiftsTurn
<1>6. SumsFrom(S, f, G)
  <2>1. \A j \in 0..RingSize : \A i \in Indices : S[j][i] = IF i >= j THEN f[i] ELSE 0
    OBVIOUS
  <2>2. \A j \in 0..RingSize : \A i \in Indices :
          G[j][i] = IF j <= i THEN One[i - j] ELSE -One[RingSize + i - j]
    BY DEF Shifts, Shifted
  <2> HIDE DEF S, G
  <2>3. \A i \in Indices : S[RingSize][i] = 0
    BY <1>1, <2>1
  <2>4. ASSUME NEW j \in Indices, NEW i \in Indices
        PROVE  Equal(S[j][i], f[j] * G[j][i] + S[j + 1][i])
    <3>1. j \in 0..RingSize /\ j + 1 \in 0..RingSize /\ j < RingSize /\ j \in Int /\ i \in Nat
          /\ i < RingSize
      BY <1>1
    <3>2. f[i] \in Int /\ f[j] \in Int
      BY DEF Arrays
    <3>3. G[j][i] = IF i = j THEN 1 ELSE 0
      <4>1. CASE j <= i
        <5>1. i - j \in Indices /\ (i - j = 0 <=> i = j)
          BY <1>1, <3>1, <4>1
        <5> QED BY <2>2, <3>1, <4>1, <5>1 DEF One
      <4>2. CASE ~ (j <= i)
        <5>1. RingSize + i - j \in Indices /\ RingSize + i - j # 0 /\ i # j
          BY <1>1, <3>1, <4>2
        <5>2. One[RingSize + i - j] = 0
          BY <5>1 DEF One
        <5> QED BY <2>2, <3>1, <4>2, <5>1, <5>2
      <4> QED BY <4>1, <4>2
    <3>4. f[j] * G[j][i] = IF i = j THEN f[i] ELSE 0
      BY <3>2, <3>3
    <3>5. /\ S[j][i] = (IF i >= j THEN f[i] ELSE 0)
          /\ S[j + 1][i] = (IF i >= j + 1 THEN f[i] ELSE 0)
      BY <2>1, <3>1
    <3>6. S[j][i] = f[j] * G[j][i] + S[j + 1][i] /\ S[j][i] \in Int
      BY <3>1, <3>2, <3>4, <3>5
    <3> QED BY <3>6, EqualSame
  <2> QED BY <2>3, <2>4 DEF SumsFrom
<1>7. PICK E \in [0..(RingSize + 1) -> Int] : HornerOf(E, f, z) /\ E[0] = H[0] /\ E[1] = H[1]
  BY HornerOfArray
<1> HIDE DEF S, G, H
<1>8. ResidueOfSum(S, G, E, z, p, 0)
  BY <1>1, <1>2, <1>5, <1>6, <1>7, ResiduesOfSums
<1>9. Residue(One, p, 0) = 1 /\ Residue(One, p, 1) = 0
  BY LayersOne, PairPlaces DEF Residue
<1>10. /\ Equal(Residue(f, p, 0), E[0] * 1 + z * (E[1] * 0))
       /\ Equal(Residue(f, p, 1), E[0] * 0 + E[1] * 1)
  <2>1. 0 + 1 = 1
    OBVIOUS
  <2> QED BY <1>3, <1>5, <1>8, <1>9, <2>1 DEF ResidueOfSum
<1>11. E[0] \in Int /\ E[1] \in Int
  BY <1>1
<1>12. E[0] * 1 + z * (E[1] * 0) = E[0] /\ E[0] * 0 + E[1] * 1 = E[1]
  BY <1>11
<1> QED BY <1>7, <1>10, <1>11, <1>12 DEF H

(* The residues of a product are the products of the residues.             *)
LEMMA ProductResidues ==
  ASSUME NEW f \in Arrays, NEW g \in Arrays
  PROVE  /\ ReferenceProduct(f, g, RingSize) \in Arrays
         /\ \A p \in Pieces(1) :
              LET h == ReferenceProduct(f, g, RingSize)
              IN  /\ Equal(Residue(h, p, 0), Residue(f, p, 0) * Residue(g, p, 0)
                             + PieceRoot(1, p) * (Residue(f, p, 1) * Residue(g, p, 1)))
                  /\ Equal(Residue(h, p, 1), Residue(f, p, 0) * Residue(g, p, 1)
                             + Residue(f, p, 1) * Residue(g, p, 0))
<1>1. RingSize \in Nat \ {0} /\ Indices = 0..(RingSize - 1) /\ 0 \in 0..RingSize /\ RingSize >= 1
      /\ RingSize + 1 - 1 = RingSize
  BY Pow2Positive, Pow2Assumption DEF RingSize, Indices
<1> DEFINE term(i) == [j \in 0..(RingSize - 1) |-> IF j <= i THEN f[j] * g[i - j]
                                                   ELSE - f[j] * g[RingSize + i - j]]
           S == [j \in 0..RingSize |-> [i \in Indices |-> Horner(term(i), RingSize, 1, 1)[j]]]
           G == Shifts(g)
           h == ReferenceProduct(f, g, RingSize)
<1>2. \A j, i \in Indices : /\ f[j] \in Int
                            /\ j <= i => i - j \in Indices /\ g[i - j] \in Int
                            /\ ~ (j <= i) => RingSize + i - j \in Indices /\ g[RingSize + i - j] \in Int
  <2>1. \A j, i \in Indices : /\ j <= i => i - j \in Indices
                              /\ ~ (j <= i) => RingSize + i - j \in Indices
    BY <1>1
  <2> QED BY <2>1 DEF Arrays
<1>3. G \in [0..RingSize -> Arrays] /\ Multiples(G) /\ G[0] = g
  BY ShiftsTurn
<1>4. \A j, i \in Indices : term(i)[j] = f[j] * G[j][i] /\ f[j] * G[j][i] \in Int
  <2> TAKE j, i \in Indices
  <2>1. j \in 0..RingSize
    BY <1>1
  <2>2. G[j][i] = IF j <= i THEN g[i - j] ELSE -g[RingSize + i - j]
    BY <2>1 DEF Shifts, Shifted
  <2>3. term(i)[j] = IF j <= i THEN f[j] * g[i - j] ELSE - f[j] * g[RingSize + i - j]
    BY <1>1
  <2> HIDE DEF term, G
  <2> QED BY <1>2, <2>2, <2>3
<1> HIDE DEF term
<1>5. \A i \in Indices : \A j \in 0..RingSize :
         /\ Horner(term(i), RingSize, 1, 1)[j] \in Int
         /\ j >= RingSize => Horner(term(i), RingSize, 1, 1)[j] = 0
         /\ j < RingSize => Equal(Horner(term(i), RingSize, 1, 1)[j],
                                  term(i)[j] + 1 * Horner(term(i), RingSize, 1, 1)[j + 1])
  <2> TAKE i \in Indices
  <2>1. RingSize \in Nat /\ 1 \in Nat \ {0} /\ 1 \in Int
    BY <1>1
  <2>2. \A j \in 0..(RingSize - 1) : term(i)[j] \in Int
    BY <1>1, <1>4
  <2> QED BY <1>1, <2>1, <2>2, HornerEquation
<1>6. /\ S \in [0..RingSize -> Arrays]
      /\ \A j \in 0..RingSize : \A i \in Indices : S[j][i] = Horner(term(i), RingSize, 1, 1)[j]
  BY <1>5 DEF Arrays
<1>7. h = S[0]
  <2>1. h = [i \in Indices |-> Horner(term(i), RingSize, 1, 1)[0]]
    BY <1>1 DEF ReferenceProduct, Total, term
  <2> QED BY <1>1, <2>1
<1>8. h \in Arrays
  BY <1>1, <1>6, <1>7
<1> HIDE DEF S, G, h
<1>9. SumsFrom(S, f, G)
  <2>1. \A i \in Indices : S[RingSize][i] = 0
    <3>1. RingSize \in 0..RingSize /\ RingSize >= RingSize
      BY <1>1
    <3>2. \A i \in Indices : Horner(term(i), RingSize, 1, 1)[RingSize] = 0
      BY <1>5, <3>1
    <3>3. \A i \in Indices : S[RingSize][i] = Horner(term(i), RingSize, 1, 1)[RingSize]
      BY <1>6, <3>1
    <3> QED BY <3>2, <3>3
  <2>2. ASSUME NEW j \in Indices, NEW i \in Indices
        PROVE  Equal(S[j][i], f[j] * G[j][i] + S[j + 1][i])
    <3>1. j \in 0..RingSize /\ j + 1 \in 0..RingSize /\ j < RingSize
      BY <1>1
    <3>2. Equal(S[j][i], term(i)[j] + 1 * S[j + 1][i]) /\ S[j + 1][i] \in Int
      BY <1>5, <1>6, <3>1
    <3>3. 1 * S[j + 1][i] = S[j + 1][i]
      BY <3>2
    <3> QED BY <1>4, <3>2, <3>3
  <2> QED BY <2>1, <2>2 DEF SumsFrom
<1>10. ASSUME NEW p \in Pieces(1)
       PROVE  /\ Equal(Residue(h, p, 0), Residue(f, p, 0) * Residue(g, p, 0)
                         + PieceRoot(1, p) * (Residue(f, p, 1) * Residue(g, p, 1)))
              /\ Equal(Residue(h, p, 1), Residue(f, p, 0) * Residue(g, p, 1)
                         + Residue(f, p, 1) * Residue(g, p, 0))
  <2> DEFINE z == PieceRoot(1, p)
             e0 == Horner(f, RingSize, 2, z)[0]
             e1 == Horner(f, RingSize, 2, z)[1]
             f0 == Residue(f, p, 0)
             f1 == Residue(f, p, 1)
             g0 == Residue(g, p, 0)
             g1 == Residue(g, p, 1)
             h0 == Residue(h, p, 0)
             h1 == Residue(h, p, 1)
  <2>1. z \in Int /\ Equal(z, z)
    BY PairPlaces, PieceRootInt, EqualSame
  <2>2. PICK E \in [0..(RingSize + 1) -> Int] : HornerOf(E, f, z) /\ E[0] = e0 /\ E[1] = e1
    BY <2>1, HornerOfArray
  <2>3. ResidueOfSum(S, G, E, z, p, 0)
    BY <1>1, <1>3, <1>6, <1>9, <2>1, <2>2, ResiduesOfSums
  <2>4. Equal(h0, e0 * g0 + z * (e1 * g1)) /\ Equal(h1, e0 * g1 + e1 * g0)
    <3>1. 0 + 1 = 1
      OBVIOUS
    <3> QED BY <1>3, <1>7, <2>2, <2>3, <3>1 DEF ResidueOfSum
  <2>5. e0 \in Int /\ e1 \in Int /\ Equal(f0, e0) /\ Equal(f1, e1)
    BY <2>1, TransformResidues
  <2>6. f0 \in Int /\ f1 \in Int /\ g0 \in Int /\ g1 \in Int /\ h0 \in Int /\ h1 \in Int
    BY <1>8, PairPlaces
  <2> HIDE DEF z, e0, e1, f0, f1, g0, g1, h0, h1
  <2>7. Equal(e0, f0) /\ Equal(e1, f1) /\ Equal(g0, g0) /\ Equal(g1, g1)
    BY <2>5, <2>6, EqualBack, EqualSame
  <2>8. /\ Equal(e0 * g0, f0 * g0) /\ Equal(e1 * g1, f1 * g1)
        /\ Equal(e0 * g1, f0 * g1) /\ Equal(e1 * g0, f1 * g0)
    BY <2>5, <2>6, <2>7, EqualTimes
  <2> DEFINE a == e0 * g0
             b == e1 * g1
             c == e0 * g1
             d == e1 * g0
             a2 == f0 * g0
             b2 == f1 * g1
             c2 == f0 * g1
             d2 == f1 * g0
  <2>9. /\ a \in Int /\ b \in Int /\ c \in Int /\ d \in Int
        /\ a2 \in Int /\ b2 \in Int /\ c2 \in Int /\ d2 \in Int
        /\ Equal(a, a2) /\ Equal(b, b2) /\ Equal(c, c2) /\ Equal(d, d2)
        /\ Equal(h0, a + z * b) /\ Equal(h1, c + d)
    BY <2>4, <2>5, <2>6, <2>8
  <2> HIDE DEF a, b, c, d, a2, b2, c2, d2
  <2>10. Equal(z * b, z * b2) /\ z * b \in Int /\ z * b2 \in Int
    BY <2>1, <2>9, EqualTimes
  <2>11. Equal(a + z * b, a2 + z * b2) /\ Equal(c + d, c2 + d2)
    BY <2>9, <2>10, EqualSum
  <2>12. a + z * b \in Int /\ a2 + z * b2 \in Int /\ c + d \in Int /\ c2 + d2 \in Int
    BY <2>9, <2>10
  <2>13. Equal(h0, a2 + z * b2) /\ Equal(h1, c2 + d2)
    BY <2>6, <2>9, <2>11, <2>12, EqualChain
  <2> QED BY <2>13 DEF z, f0, f1, g0, g1, h0, h1, a2, b2, c2, d2
<1> QED BY <1>8, <1>10 DEF h

(* The roots of the pairs are those of the table's last layer.             *)
LEMMA PairRoot ==
  ASSUME NEW p \in Pieces(1)
  PROVE  /\ p \in 0..((RingSize \div 2) - 1) /\ Powers[PairExponent(RingSize, p)] \in Int
         /\ p \div 2 \in Pieces(2) /\ RingSize \div 4 = Pow2[MaxBits - 2]
         /\ Zeta[(RingSize \div 4) + (p \div 2)] \in Int
         /\ PieceRoot(1, p) = (IF p % 2 = 0 THEN 1 ELSE -1) * Root(Zeta[(RingSize \div 4) + (p \div 2)])
         /\ Equal(PieceRoot(1, p), Powers[PairExponent(RingSize, p)])
<1>1. MaxBits \in Nat /\ MaxBits >= 2 /\ 1 \in 1..MaxBits /\ 1 \in 1..(MaxBits - 1) /\ 1 # MaxBits
      /\ 1 < MaxBits /\ 2 \in 1..MaxBits /\ 1 + 1 = 2 /\ MaxBits - 1 - 1 = MaxBits - 2
      /\ MaxBits - (1 + 1) = MaxBits - 2
  BY Pow2Assumption, RingAssumption
<1>2. /\ RingSize = Pow2[MaxBits - 1] * Pow2[1] /\ Pow2[1] = 2
      /\ Pow2[MaxBits - 1] = 2 * Pow2[MaxBits - 2] /\ Pow2[MaxBits - 2] \in Nat \ {0}
  BY <1>1, Sizes, PairPlaces
<1>3. RingSize \div 2 = Pow2[MaxBits - 1] /\ RingSize \div 4 = Pow2[MaxBits - 2]
  BY <1>2
<1>4. p \in 0..((RingSize \div 2) - 1)
  BY <1>3 DEF Pieces
<1>5. PICK a \in Pieces(2) : p = 2 * a \/ p = 2 * a + 1
  BY <1>1, WhichHalf
<1>6. a \in Nat
  BY <1>1, <1>2, <1>5 DEF Pieces
<1>7. p \div 2 = a /\ (p = 2 * a <=> p % 2 = 0)
  BY <1>5, <1>6
<1> DEFINE y == Zeta[(RingSize \div 4) + (p \div 2)]
           w == Powers[PairExponent(RingSize, p)]
           sign == IF p % 2 = 0 THEN 1 ELSE -1
<1>8. y \in Int /\ CutRoot(1, a) = Root(y)
  BY <1>1, <1>3, <1>7, TableIndex DEF CutRoot
<1>9. w \in Int /\ Equal(Mont * w, sign * y) /\ sign \in {1, -1}
  BY <1>4, TableAssumption
<1>10. PieceRoot(1, p) = sign * Root(y)
  <2>1. PieceRoot(1, p) = IF p % 2 = 0 THEN Root(y) ELSE -Root(y)
    BY <1>1, <1>7, <1>8 DEF PieceRoot
  <2>2. Root(y) \in Int
    BY <1>8 DEF Root
  <2> HIDE DEF y
  <2> QED BY <2>1, <2>2
<1> HIDE DEF y, w, sign
<1>11. Equal(sign * Root(y), w)
  <2>1. sign \in Int /\ Mont \in Int /\ Q \in Int
    BY <1>9, MontInverse DEF Q
  <2>2. Mont * w \in Int /\ sign * y \in Int
    BY <1>8, <1>9, <2>1
  <2>3. PICK m \in Int : Mont * w = sign * y + Q * m
    BY <1>9, <2>2, EqualWitness
  <2>4. 169 * Mont \in Int /\ Equal(169 * Mont, 1) /\ 1 \in Int
    BY <2>1, MontInverse
  <2>5. PICK n \in Int : 169 * Mont = 1 + Q * n
    BY <2>4, EqualWitness
  <2>6. 169 * (Mont * w) = 169 * (sign * y) + Q * (169 * m)
    BY <2>1, <2>2, <2>3
  <2>7. 169 * (Mont * w) = (169 * Mont) * w
    BY <1>9, <2>1
  <2>8. (169 * Mont) * w = w + Q * (n * w)
    BY <1>9, <2>1, <2>5
  <2>9. sign * Root(y) = 169 * (sign * y)
    BY <1>8, <2>1 DEF Root
  <2> DEFINE sy == sign * Root(y)
             nw == n * w
             Times(x) == Q * x
  <2>10. sy = w + Times(nw) - Times(169 * m) /\ sy \in Int /\ nw \in Int
    <3>1. sy \in Int /\ nw \in Int /\ Times(nw) \in Int /\ Times(169 * m) \in Int
      BY <1>8, <1>9, <2>1 DEF Root
    <3>2. w + Times(nw) = sy + Times(169 * m)
      BY <2>6, <2>7, <2>8, <2>9
    <3> HIDE DEF sy, nw, Times
    <3> QED BY <1>9, <3>1, <3>2
  <2> HIDE DEF sy, nw
  <2>11. sy = w + Q * (nw - 169 * m) /\ nw - 169 * m \in Int
    BY <1>9, <2>1, <2>10
  <2>12. Equal(sy, w)
    BY <1>9, <2>10, <2>11, EqualWitness
  <2> QED BY <2>12 DEF sy
<1> QED BY <1>3, <1>4, <1>5, <1>7, <1>8, <1>9, <1>10, <1>11 DEF y, w, sign

LEMMA ReferenceIsLayers ==
  ASSUME NEW f \in Arrays
  PROVE  \A i \in Indices : /\ ReferenceNtt(f, RingSize)[i] \in Int
                            /\ Equal(Layers(f)[1][i], ReferenceNtt(f, RingSize)[i])
<1>1. Indices = 0..(RingSize - 1)
  BY DEF Indices
<1> TAKE i \in Indices
<1>2. PICK p \in Pieces(1), x \in Slots(1) : i = At(1, p, x)
  BY PairPlaces, AtCovers
<1>3. p \in Nat /\ x \in {0, 1} /\ i = p * 2 + x
  BY <1>2, PairPlaces, PairRoot DEF At
<1>4. i \div 2 = p /\ i % 2 = x
  BY <1>3
<1>5. ReferenceNtt(f, RingSize)[i] = Horner(f, RingSize, 2, Powers[PairExponent(RingSize, p)])[x]
  BY <1>1, <1>4 DEF ReferenceNtt
<1>6. Powers[PairExponent(RingSize, p)] \in Int /\ Equal(PieceRoot(1, p), Powers[PairExponent(RingSize, p)])
  BY PairRoot
<1>7. /\ Horner(f, RingSize, 2, Powers[PairExponent(RingSize, p)])[x] \in Int
      /\ Equal(Residue(f, p, x), Horner(f, RingSize, 2, Powers[PairExponent(RingSize, p)])[x])
  BY <1>3, <1>6, TransformResidues
<1> QED BY <1>2, <1>5, <1>7 DEF Residue

-----------------------------------------------------------------------------
(* What the passes over the array compute, modulo Q.                       *)
Scaled(f, c) == [i \in Indices |-> c * f[i]]
ProductOf(u) == ReferenceProduct(u, Operand, RingSize)

LEMMA OperandLayers ==
  /\ Operand \in Arrays
  /\ \A i \in Indices : /\ OperandHat[i] \in Int /\ Below(OperandHat[i], Q)
                        /\ Equal(OperandHat[i], Layers(Operand)[1][i])
  /\ \A u \in Arrays : ProductOf(u) \in Arrays
<1>1. Operand \in Arrays
  BY OperandAssumption DEF Arrays
<1>2. \A i \in Indices : OperandHat[i] \in Int /\ Below(OperandHat[i], Q)
  BY RingAssumption, BoundAssumption
<1>3. ASSUME NEW i \in Indices
      PROVE  Equal(OperandHat[i], Layers(Operand)[1][i])
  <2>1. /\ ReferenceNtt(Operand, RingSize)[i] \in Int
        /\ Equal(Layers(Operand)[1][i], ReferenceNtt(Operand, RingSize)[i])
    BY <1>1, ReferenceIsLayers
  <2>2. Layers(Operand)[1][i] \in Int
    BY <1>1, PairPlaces, LayersEquation DEF Arrays
  <2>3. Equal(OperandHat[i], ReferenceNtt(Operand, RingSize)[i])
    BY OperandAssumption
  <2>4. Equal(ReferenceNtt(Operand, RingSize)[i], Layers(Operand)[1][i])
    BY <2>1, <2>2, EqualBack
  <2> QED BY <1>2, <2>1, <2>2, <2>3, <2>4, EqualChain
<1>4. \A u \in Arrays : ProductOf(u) \in Arrays
  BY <1>1, ProductResidues DEF ProductOf
<1> QED BY <1>1, <1>2, <1>3, <1>4

LEMMA CongruentChain ==
  ASSUME NEW f \in Arrays, NEW g \in Arrays, NEW h \in Arrays, Congruent(f, g), Congruent(g, h)
  PROVE  Congruent(f, h)
<1>1. ASSUME NEW i \in Indices PROVE Equal(f[i], h[i])
  <2>1. f[i] \in Int /\ g[i] \in Int /\ h[i] \in Int /\ Equal(f[i], g[i]) /\ Equal(g[i], h[i])
    BY DEF Arrays, Congruent
  <2> QED BY <2>1, EqualChain
<1> QED BY <1>1 DEF Congruent

LEMMA ReduceValue ==
  ASSUME NEW f \in Arrays, AllBelow(f, MaxBits * Q)
  PROVE  PolyReduce(f) \in Arrays /\ Congruent(PolyReduce(f), f)
<1>1. PolyReduce(f) \in Arrays
  BY PassType DEF Arrays
<1>2. ASSUME NEW i \in Indices PROVE Equal(PolyReduce(f)[i], f[i])
  <2>1. f[i] \in Int /\ Below(f[i], MaxBits * Q)
    BY DEF Arrays, AllBelow
  <2>2. Below(f[i], 29962)
    BY <2>1, Limits DEF Below, Q
  <2> QED BY <2>1, <2>2, BarrettValue DEF PolyReduce
<1> QED BY <1>1, <1>2 DEF Congruent

(* A sum of two products, whose factors are known modulo Q.                *)
PairValue(a, b, c, d, z) == 169 * (z * (a * b) + c * d)

LEMMA PairSum ==
  ASSUME NEW a \in Int, NEW b \in Int, NEW c \in Int, NEW d \in Int, NEW z \in Int,
         NEW a2 \in Int, NEW b2 \in Int, NEW c2 \in Int, NEW d2 \in Int,
         Equal(a, a2), Equal(b, b2), Equal(c, c2), Equal(d, d2)
  PROVE  Equal(PairValue(a, b, c, d, z), PairValue(a2, b2, c2, d2, z))
<1>1. Equal(a * b, a2 * b2) /\ Equal(c * d, c2 * d2)
  BY EqualTimes
<1>0. Equal(z, z) /\ 169 \in Int /\ Equal(169, 169)
  BY DEF Equal, Q
<1> DEFINE x == a * b
           x2 == a2 * b2
           y == c * d
           y2 == c2 * d2
<1>2. x \in Int /\ x2 \in Int /\ y \in Int /\ y2 \in Int /\ Equal(x, x2) /\ Equal(y, y2)
  BY <1>1
<1> HIDE DEF x, x2, y, y2
<1>3. Equal(z * x, z * x2) /\ z * x \in Int /\ z * x2 \in Int
  BY <1>0, <1>2, EqualTimes
<1>4. Equal(z * x + y, z * x2 + y2) /\ z * x + y \in Int /\ z * x2 + y2 \in Int
  BY <1>2, <1>3, EqualSum
<1>5. Equal(169 * (z * x + y), 169 * (z * x2 + y2))
  BY <1>0, <1>4, EqualTimes
<1> QED BY <1>5 DEF PairValue, x, x2, y, y2

LEMMA ProductValue ==
  ASSUME NEW f \in Arrays, NEW u \in Arrays, AllBelow(f, Q), Congruent(f, Layers(u)[1])
  PROVE  LET g == PolyReduce(PolyBaseMul(f, OperandHat))
         IN  g \in Arrays /\ Congruent(g, Scaled(Layers(ProductOf(u))[1], 169))
<1> DEFINE g == PolyReduce(PolyBaseMul(f, OperandHat))
           h == ProductOf(u)
<1>1. g \in Arrays
  BY ProductType DEF Arrays
<1>2. h \in Arrays /\ Operand \in Arrays
  BY OperandLayers
<1>3. ASSUME NEW p \in Pieces(1), NEW x \in {0, 1}
      PROVE  Equal(g[At(1, p, x)], 169 * Residue(h, p, x))
  <2> DEFINE i == At(1, p, x)
             j == At(1, p, 0)
             y == Zeta[(RingSize \div 4) + (p \div 2)]
             w == IF p % 2 = 0 THEN y ELSE -y
             z == PieceRoot(1, p)
             F0 == Residue(u, p, 0)
             F1 == Residue(u, p, 1)
             G0 == Residue(Operand, p, 0)
             G1 == Residue(Operand, p, 1)
  <2>1. i = p * 2 + x /\ j = p * 2 /\ At(1, p, 1) = j + 1 /\ p \in Nat
    BY PairPlaces, PairRoot DEF At
  <2>2. i \in Indices /\ j \in Indices /\ j + 1 \in Indices
    BY <2>1, PairPlaces, AtIndex
  <2>3. i - (i % 2) = j /\ i \div 4 = p \div 2 /\ (i % 4 < 2 <=> p % 2 = 0) /\ (i % 2 = 1 <=> x = 1)
    <3> HIDE DEF i, j
    <3> QED BY <2>1
  <2>4. y \in Int /\ Below(y, 1665)
    <3>1. /\ MaxBits - 1 - 1 = MaxBits - 2 /\ 1 + 1 = 2
      BY Pow2Assumption
    <3>2. (RingSize \div 4) + (p \div 2) \in 1..((RingSize \div 2) - 1)
      BY <3>1, PairRoot, PairPlaces, TableIndex
    <3> QED BY <3>2, RingAssumption, BoundAssumption
  <2>5. w \in Int /\ Below(w, 1665) /\ Root(w) = z
    <3>1. z = (IF p % 2 = 0 THEN 1 ELSE -1) * Root(y)
      BY PairRoot
    <3> HIDE DEF y, z
    <3> QED BY <2>4, <3>1 DEF Below, Root
  <2> DEFINE a0 == f[j]
             a1 == f[j + 1]
             b0 == OperandHat[j]
             b1 == OperandHat[j + 1]
  <2>6. g[i] = IF x = 1 THEN BarrettReduce(Int16(FqMul(a0, b1) + FqMul(a1, b0)))
               ELSE BarrettReduce(Int16(FqMul(FqMul(a1, b1), w) + FqMul(a0, b0)))
    <3> HIDE DEF i, j
    <3> QED BY <2>2, <2>3 DEF PolyReduce, PolyBaseMul, BaseMul
  <2>7. /\ a0 \in Int /\ a1 \in Int /\ b0 \in Int /\ b1 \in Int
        /\ Below(a0, Q) /\ Below(a1, Q) /\ Below(b0, Q) /\ Below(b1, Q)
    BY <2>2, OperandLayers DEF Arrays, AllBelow
  <2>8. Equal(a0, F0) /\ Equal(a1, F1) /\ Equal(b0, G0) /\ Equal(b1, G1)
    BY <2>1, <2>2, OperandLayers DEF Congruent, Residue
  <2>9. /\ F0 \in Int /\ F1 \in Int /\ G0 \in Int /\ G1 \in Int /\ z \in Int
        /\ Residue(h, p, 0) \in Int /\ Residue(h, p, 1) \in Int
    BY <1>2, PairPlaces, PieceRootInt
  <2>10. /\ Equal(Residue(h, p, 0), F0 * G0 + z * (F1 * G1))
         /\ Equal(Residue(h, p, 1), F0 * G1 + F1 * G0)
    BY <1>2, ProductResidues DEF ProductOf
  <2> HIDE DEF i, j, y, w, z, F0, F1, G0, G1, a0, a1, b0, b1, g, h
  <2>11. CASE x = 0
    <3> DEFINE even == BarrettReduce(Int16(FqMul(FqMul(a1, b1), w) + FqMul(a0, b0)))
    <3>1. even \in Int /\ Equal(even, 169 * (z * (a1 * b1) + a0 * b0))
      BY <2>5, <2>7, BaseMulValue
    <3>2. g[i] = even
      BY <2>6, <2>11
    <3> HIDE DEF even
    <3>3. Equal(169 * (z * (a1 * b1) + a0 * b0), 169 * (F0 * G0 + z * (F1 * G1)))
      <4>1. Equal(PairValue(a1, b1, a0, b0, z), PairValue(F1, G1, F0, G0, z))
        BY <2>7, <2>8, <2>9, PairSum
      <4>2. PairValue(F1, G1, F0, G0, z) = 169 * (F0 * G0 + z * (F1 * G1))
        BY <2>9 DEF PairValue
      <4> QED BY <4>1, <4>2 DEF PairValue
    <3>4. Equal(169 * (F0 * G0 + z * (F1 * G1)), 169 * Residue(h, p, 0))
      <4> DEFINE e == F0 * G0 + z * (F1 * G1)
                 c == Residue(h, p, 0)
      <4>1. e \in Int /\ c \in Int /\ Equal(c, e)
        BY <2>9, <2>10
      <4> HIDE DEF e, c
      <4>2. Equal(e, c) /\ 169 \in Int /\ Equal(169, 169)
        BY <4>1, EqualBack, EqualSame
      <4>3. Equal(169 * e, 169 * c)
        BY <4>1, <4>2, EqualTimes
      <4> QED BY <4>3 DEF e, c
    <3> DEFINE m == 169 * (z * (a1 * b1) + a0 * b0)
               n == 169 * (F0 * G0 + z * (F1 * G1))
               o == 169 * Residue(h, p, 0)
    <3>5. m \in Int /\ n \in Int /\ o \in Int /\ Equal(even, m) /\ Equal(m, n) /\ Equal(n, o)
      BY <2>7, <2>9, <3>1, <3>3, <3>4
    <3> HIDE DEF m, n, o
    <3>6. Equal(even, n)
      BY <3>1, <3>5, EqualChain
    <3>7. Equal(even, o)
      BY <3>1, <3>5, <3>6, EqualChain
    <3> QED BY <2>11, <3>2, <3>7 DEF i, o
  <2>12. CASE x = 1
    <3> DEFINE odd == BarrettReduce(Int16(FqMul(a0, b1) + FqMul(a1, b0)))
    <3>1. odd \in Int /\ Equal(odd, 169 * (a0 * b1 + a1 * b0))
      BY <2>5, <2>7, BaseMulValue
    <3>2. g[i] = odd
      BY <2>6, <2>12
    <3> HIDE DEF odd
    <3>3. Equal(169 * (a0 * b1 + a1 * b0), 169 * (F1 * G0 + F0 * G1))
      <4>0. \A c \in Int : Equal(PairValue(a0, b1, a1, b0, c), PairValue(F0, G1, F1, G0, c))
        BY <2>7, <2>8, <2>9, PairSum
      <4>1. Equal(PairValue(a0, b1, a1, b0, 1), PairValue(F0, G1, F1, G0, 1))
        <5>1. 1 \in Int
          OBVIOUS
        <5> QED BY <4>0, <5>1
      <4>2. PairValue(F0, G1, F1, G0, 1) = 169 * (F1 * G0 + F0 * G1)
        BY <2>9 DEF PairValue
      <4>3. PairValue(a0, b1, a1, b0, 1) = 169 * (a0 * b1 + a1 * b0)
        BY <2>7 DEF PairValue
      <4> QED BY <4>1, <4>2, <4>3
    <3>4. Equal(169 * (F1 * G0 + F0 * G1), 169 * Residue(h, p, 1))
      <4> DEFINE e == F1 * G0 + F0 * G1
                 c == Residue(h, p, 1)
      <4>1. e \in Int /\ c \in Int /\ Equal(c, e)
        <5>1. F1 * G0 + F0 * G1 = F0 * G1 + F1 * G0
          BY <2>9
        <5> QED BY <2>9, <2>10, <5>1
      <4> HIDE DEF e, c
      <4>2. Equal(e, c) /\ 169 \in Int /\ Equal(169, 169)
        BY <4>1, EqualBack, EqualSame
      <4>3. Equal(169 * e, 169 * c)
        BY <4>1, <4>2, EqualTimes
      <4> QED BY <4>3 DEF e, c
    <3> DEFINE m == 169 * (a0 * b1 + a1 * b0)
               n == 169 * (F1 * G0 + F0 * G1)
               o == 169 * Residue(h, p, 1)
    <3>5. m \in Int /\ n \in Int /\ o \in Int /\ Equal(odd, m) /\ Equal(m, n) /\ Equal(n, o)
      BY <2>7, <2>9, <3>1, <3>3, <3>4
    <3> HIDE DEF m, n, o
    <3>6. Equal(odd, n)
      BY <3>1, <3>5, EqualChain
    <3>7. Equal(odd, o)
      BY <3>1, <3>5, <3>6, EqualChain
    <3> QED BY <2>12, <3>2, <3>7 DEF i, o
  <2> QED BY <2>11, <2>12
<1>4. ASSUME NEW i \in Indices
      PROVE  Equal(g[i], Scaled(Layers(h)[1], 169)[i])
  <2>1. PICK p \in Pieces(1), x \in Slots(1) : i = At(1, p, x)
    BY PairPlaces, AtCovers
  <2>2. Equal(g[i], 169 * Residue(h, p, x))
    BY <1>3, <2>1, PairPlaces
  <2> QED BY <2>1, <2>2 DEF Residue, Scaled
<1> QED BY <1>1, <1>4 DEF Congruent

(* F of td18_invntt divides by N/2 and by the factors 2^16 of the product  *)
(* and of the inverse transform.                                           *)
LEMMA ScaleValue ==
  ASSUME NEW f \in Arrays, NEW h \in Arrays, AllBelow(f, Q),
         Congruent(f, Scaled(h, 169 * Pow2[MaxBits - 1]))
  PROVE  PolyScale(f) \in Arrays /\ Congruent(PolyScale(f), h)
<1>1. PolyScale(f) \in Arrays
  BY PassType DEF Arrays
<1> DEFINE n == Pow2[MaxBits - 1]
<1>2. n \in Nat /\ RingSize \div 2 = n /\ InvF \in Int /\ Mont \in Int
  <2>1. 1 \in 1..MaxBits /\ RingSize = Pow2[MaxBits - 1] * Pow2[1] /\ Pow2[MaxBits - 1] \in Nat
    BY Sizes, PairPlaces
  <2>2. RingSize = n * 2
    BY <2>1, PairPlaces
  <2>3. (n * 2) \div 2 = n
    BY <2>1
  <2> QED BY <2>1, <2>2, <2>3, RingAssumption, MontInverse
<1> HIDE DEF n
<1>3. Equal(InvF * n, Mont * Mont)
  BY <1>2, TableAssumption
<1>4. Q \in Int
  BY DEF Q
<1>5. PICK m \in Int : InvF * n = Mont * Mont + Q * m
  <2>1. InvF * n \in Int /\ Mont * Mont \in Int
    BY <1>2
  <2> QED BY <1>3, <2>1, EqualWitness
<1>6. PICK l \in Int : 169 * Mont = 1 + Q * l
  <2>1. 169 * Mont \in Int /\ 1 \in Int /\ Equal(169 * Mont, 1)
    BY MontInverse
  <2> QED BY <2>1, EqualWitness
<1>7. ASSUME NEW i \in Indices PROVE Equal(PolyScale(f)[i], h[i])
  <2>1. f[i] \in Int /\ h[i] \in Int /\ Below(f[i], Q) /\ Equal(f[i], (169 * n) * h[i])
    BY DEF Arrays, AllBelow, Congruent, Scaled, n
  <2> DEFINE x == f[i]
             y == h[i]
             g == FqMul(x, InvF)
  <2>2. g \in Int /\ Equal(g, 169 * (x * InvF)) /\ PolyScale(f)[i] = g
    <3>1. Below(InvF, Q)
      BY BoundAssumption
    <3>2. x \in Int /\ Below(x, Q)
      BY <2>1
    <3>3. PolyScale(f)[i] = g
      BY DEF PolyScale
    <3> HIDE DEF x
    <3>4. g \in Int /\ Equal(g, 169 * (x * InvF))
      BY <1>2, <3>1, <3>2, FqMulValue
    <3> QED BY <3>3, <3>4
  <2>3. x \in Int /\ y \in Int /\ Equal(x, (169 * n) * y)
    BY <2>1
  <2> HIDE DEF x, y, g
  <2>4. PICK j \in Int : x = (169 * n) * y + Q * j
    <3>1. (169 * n) * y \in Int
      BY <1>2, <2>3
    <3> QED BY <2>3, <3>1, EqualWitness
  <2>5. PICK e \in Int : g = 169 * (x * InvF) + Q * e
    <3>1. 169 * (x * InvF) \in Int
      BY <1>2, <2>3
    <3> QED BY <2>2, <3>1, EqualWitness
  <2>6. x * InvF = 169 * ((InvF * n) * y) + Q * (j * InvF)
    <3>1. ((169 * n) * y) * InvF = 169 * ((InvF * n) * y)
      BY <1>2, <2>3
    <3>2. (Q * j) * InvF = Q * (j * InvF)
      BY <1>2, <1>4
    <3> DEFINE a == (169 * n) * y
               b == Q * j
    <3>3. a \in Int /\ b \in Int /\ x = a + b
      BY <1>2, <1>4, <2>3, <2>4
    <3> HIDE DEF a, b
    <3>4. x * InvF = a * InvF + b * InvF
      BY <1>2, <3>3
    <3> QED BY <3>1, <3>2, <3>4 DEF a, b
  <2>7. (InvF * n) * y = Mont * (Mont * y) + Q * (m * y)
    BY <1>2, <1>4, <1>5, <2>3
  <2>8. /\ 169 * (Mont * (Mont * y)) = Mont * y + Q * (l * (Mont * y))
        /\ 169 * (Mont * y) = y + Q * (l * y)
    <3>1. \A v \in Int : 169 * (Mont * v) = v + Q * (l * v)
      <4> TAKE v \in Int
      <4>1. 169 * (Mont * v) = (169 * Mont) * v
        BY <1>2
      <4>2. (1 + Q * l) * v = v + Q * (l * v)
        BY <1>4
      <4> QED BY <1>6, <4>1, <4>2
    <3>2. Mont * y \in Int
      BY <1>2, <2>3
    <3> QED BY <2>3, <3>1, <3>2
  <2> DEFINE my == Mont * y
             mmy == Mont * my
             iny == (InvF * n) * y
             mY == m * y
             jI == j * InvF
             lmy == l * my
             ly == l * y
             xI == x * InvF
  <2>9. /\ xI = 169 * iny + Q * jI /\ iny = mmy + Q * mY /\ 169 * mmy = my + Q * lmy
        /\ 169 * my = y + Q * ly /\ g = 169 * xI + Q * e
    BY <2>5, <2>6, <2>7, <2>8
  <2>10. /\ my \in Int /\ mmy \in Int /\ iny \in Int /\ mY \in Int /\ jI \in Int /\ lmy \in Int
         /\ ly \in Int /\ xI \in Int
    BY <1>2, <2>3
  <2> HIDE DEF my, mmy, iny, mY, jI, lmy, ly, xI
  <2>11. PICK d \in Int : xI = my + Q * d
    <3>1. 169 * iny = my + Q * (lmy + 169 * mY)
      BY <1>4, <2>9, <2>10
    <3>2. xI = my + Q * (lmy + 169 * mY + jI) /\ lmy + 169 * mY + jI \in Int
      BY <1>4, <2>9, <2>10, <3>1
    <3> QED BY <3>2
  <2>12. g = y + Q * (ly + 169 * d + e) /\ ly + 169 * d + e \in Int
    <3>1. 169 * xI = 169 * my + Q * (169 * d)
      BY <1>4, <2>10, <2>11
    <3> QED BY <1>4, <2>3, <2>9, <2>10, <3>1
  <2>13. Equal(g, y)
    BY <2>2, <2>3, <2>12, EqualWitness
  <2> QED BY <2>2, <2>13 DEF y
<1> QED BY <1>1, <1>7 DEF Congruent

-----------------------------------------------------------------------------
(* What the array holds, modulo Q, while td18_ntt is in layer b and at the *)
(* block that begins at st: the blocks before it are cut.                  *)
Cut(u, b, st) == [i \in Indices |-> IF i < st THEN Layers(u)[b][i] ELSE Layers(u)[b + 1][i]]

(* And td18_invntt: the blocks before it are joined; the factor 2 of every *)
(* layer stays until the end.                                              *)
Joined(h, b, st) ==
  [i \in Indices |-> IF i < st THEN 169 * (Pow2[b] * Layers(h)[b + 1][i])
                     ELSE 169 * (Pow2[b - 1] * Layers(h)[b][i])]

RangeOf(l, st, S, I) ==
  /\ \A j \in S : st + (l + j) = st + j + l /\ st + j \in I /\ st + j + l \in I
  /\ \A i \in I : i < st \/ i >= st + 2 * l \/ \E j \in S : i = st + j \/ i = st + j + l

LEMMA BlockRange ==
  ASSUME NEW l \in Nat \ {0}, NEW n \in Nat, NEW st \in Nat, st + 2 * l <= n
  PROVE  RangeOf(l, st, 0..(l - 1), 0..(n - 1))
<1>1. ASSUME NEW i \in 0..(n - 1), ~ (i < st), ~ (i >= st + 2 * l)
      PROVE  \E j \in 0..(l - 1) : i = st + j \/ i = st + j + l
  <2>1. CASE i < st + l
    <3>1. i - st \in 0..(l - 1) /\ i = st + (i - st)
      BY <1>1, <2>1
    <3> QED BY <3>1
  <2>2. CASE ~ (i < st + l)
    <3>1. i - st - l \in 0..(l - 1) /\ i = st + (i - st - l) + l
      BY <1>1, <2>2
    <3> QED BY <3>1
  <2> QED BY <2>1, <2>2
<1>2. \A j \in 0..(l - 1) :
        st + (l + j) = st + j + l /\ st + j \in 0..(n - 1) /\ st + j + l \in 0..(n - 1)
  OBVIOUS
<1> QED BY <1>1, <1>2 DEF RangeOf

(* The places of a block: those of a piece of the layer above.             *)
LEMMA BlockPlaces ==
  ASSUME NEW b \in 1..(MaxBits - 1), NEW a \in Pieces(b + 1), NEW st, st = a * (2 * Pow2[b])
  PROVE  /\ b \in 1..MaxBits /\ b + 1 \in 1..MaxBits /\ Pow2[b] \in Nat \ {0} /\ st \in Nat
         /\ st + 2 * Pow2[b] <= RingSize
         /\ \A j \in Slots(b) : /\ At(b + 1, a, j) = st + j /\ At(b + 1, a, Pow2[b] + j) = st + j + Pow2[b]
                                /\ st + j \in Indices /\ st + j + Pow2[b] \in Indices
                                /\ At(b, 2 * a, j) = st + j /\ At(b, 2 * a + 1, j) = st + j + Pow2[b]
         /\ \A i \in Indices :
              i < st \/ i >= st + 2 * Pow2[b] \/ \E j \in Slots(b) : i = st + j \/ i = st + j + Pow2[b]
<1> DEFINE l == Pow2[b]
           m == Pow2[MaxBits - (b + 1)]
<1>1. b \in 1..MaxBits /\ b + 1 \in 1..MaxBits
  BY Pow2Assumption
<1>2. /\ l \in Nat \ {0} /\ Pow2[b + 1] = 2 * l /\ m \in Nat \ {0} /\ RingSize = m * (2 * l)
      /\ a \in 0..(m - 1) /\ Slots(b) = 0..(l - 1) /\ RingSize \in Nat
  <2>1. b < MaxBits
    BY Pow2Assumption
  <2>2. l \in Nat \ {0} /\ Pow2[b + 1] = 2 * l
    BY <1>1, <2>1, Sizes
  <2>3. m \in Nat \ {0} /\ RingSize = m * Pow2[b + 1]
    BY <1>1, Sizes
  <2>4. RingSize \in Nat
    BY Pow2Positive, Pow2Assumption DEF RingSize
  <2> QED BY <2>2, <2>3, <2>4 DEF Pieces, Slots
<1>3. \A j \in Slots(b) : /\ At(b + 1, a, j) = st + j /\ At(b + 1, a, l + j) = st + (l + j)
  BY <1>2 DEF At
<1>4. st \in Nat /\ st + 2 * l <= RingSize
  <2> HIDE DEF l, m
  <2>1. (a + 1) * (2 * l) <= m * (2 * l)
    BY <1>2
  <2>2. (a + 1) * (2 * l) = a * (2 * l) + 2 * l /\ a * (2 * l) \in Nat
    BY <1>2
  <2> DEFINE x == a * (2 * l)
             y == m * (2 * l)
             w == (a + 1) * (2 * l)
  <2>3. w <= y /\ w = x + 2 * l /\ x \in Nat /\ RingSize = y /\ st = x /\ l \in Nat /\ y \in Nat
    BY <1>2, <2>1, <2>2 DEF l
  <2> HIDE DEF x, y, w
  <2> QED BY <2>3
<1>5. \A j \in Slots(b) : At(b, 2 * a, j) = At(b + 1, a, j) /\ At(b, 2 * a + 1, j) = At(b + 1, a, l + j)
  BY Halves
<1>l. l \in Nat \ {0} /\ Slots(b) = 0..(l - 1) /\ RingSize \in Nat
  BY <1>2
<1> HIDE DEF l, m
<1>6. /\ \A j \in Slots(b) : /\ st + (l + j) = st + j + l
                              /\ st + j \in Indices /\ st + j + l \in Indices
      /\ \A i \in Indices :
           i < st \/ i >= st + 2 * l \/ \E j \in Slots(b) : i = st + j \/ i = st + j + l
  <2>1. RangeOf(l, st, 0..(l - 1), 0..(RingSize - 1))
    BY <1>l, <1>4, BlockRange
  <2>2. RangeOf(l, st, Slots(b), Indices)
    BY <1>l, <2>1 DEF Indices
  <2> QED BY <2>2 DEF RangeOf
<1> QED BY <1>1, <1>2, <1>3, <1>4, <1>5, <1>6 DEF l

LEMMA NttBlockValue ==
  ASSUME NEW u \in Arrays, NEW f \in Arrays, NEW b \in 1..(MaxBits - 1), NEW a \in Pieces(b + 1),
         NEW st, st = a * (2 * Pow2[b]), NEW limit \in Int, limit + Q < 32768,
         RestBelow(f, st, limit), Congruent(f, Cut(u, b, st))
  PROVE  Congruent(NttBlockAt(f, st, Pow2[b], Zeta[Pow2[MaxBits - 1 - b] + a]),
                   Cut(u, b, st + 2 * Pow2[b]))
<1> DEFINE l == Pow2[b]
           y == Zeta[Pow2[MaxBits - 1 - b] + a]
           z == CutRoot(b, a)
           g == NttBlockAt(f, st, l, y)
           new == st + 2 * l
           lower == Layers(u)[b]
           upper == Layers(u)[b + 1]
<1>1. /\ b \in 1..MaxBits /\ b + 1 \in 1..MaxBits /\ l \in Nat \ {0} /\ st \in Nat /\ new <= RingSize
      /\ \A j \in Slots(b) : /\ At(b + 1, a, j) = st + j /\ At(b + 1, a, l + j) = st + j + l
                             /\ st + j \in Indices /\ st + j + l \in Indices
                             /\ At(b, 2 * a, j) = st + j /\ At(b, 2 * a + 1, j) = st + j + l
      /\ \A i \in Indices :
           i < st \/ i >= new \/ \E j \in Slots(b) : i = st + j \/ i = st + j + l
  BY BlockPlaces
<1>2. y \in Int /\ Below(y, 1665) /\ z = Root(y) /\ z \in Int
  BY TableIndex, BoundAssumption DEF CutRoot
<1>3. Slots(b) = 0..(l - 1)
  BY DEF Slots
<1>4. \A i \in Indices : i \in Nat /\ lower[i] \in Int /\ upper[i] \in Int /\ f[i] \in Int
  <2>1. \A i \in Indices : i \in Nat
    BY DEF Indices
  <2> QED BY <1>1, <2>1, LayersEquation DEF Arrays
<1>5. \A j \in Slots(b) : /\ lower[st + j] = upper[st + j] + z * upper[st + j + l]
                          /\ lower[st + j + l] = upper[st + j] - z * upper[st + j + l]
  BY <1>1, LayerAt
<1>6. \A i \in Indices : Equal(f[i], IF i < st THEN lower[i] ELSE upper[i])
  BY DEF Congruent, Cut
<1>7. \A i \in Indices : Cut(u, b, new)[i] = IF i < new THEN lower[i] ELSE upper[i]
  BY DEF Cut
<1>8. ASSUME NEW j \in Slots(b)
      PROVE  /\ Equal(g[st + j], lower[st + j])
             /\ Equal(g[st + j + l], lower[st + j + l])
  <2> DEFINE p == st + j
             q == st + j + l
  <2>1. /\ p \in Indices /\ q \in Indices /\ p >= st /\ q >= st /\ p \in Nat /\ q \in Nat
        /\ p \in st..(st + l - 1) /\ q \notin st..(st + l - 1)
        /\ q \in (st + l)..(st + 2 * l - 1) /\ q - l = p /\ p + l = q
    <3>1. p \in Indices /\ q \in Indices /\ j \in 0..(l - 1) /\ l \in Nat \ {0} /\ st \in Nat
      BY <1>1, <1>3
    <3>2. p = st + j /\ q = st + j + l
      OBVIOUS
    <3> HIDE DEF l, p, q
    <3> QED BY <3>1, <3>2
  <2> HIDE DEF p, q
  <2>2. g[p] = NttLo(f[p], f[q], y) /\ g[q] = NttHi(f[p], f[q], y)
    BY <2>1 DEF NttBlockAt
  <2>3. Below(f[p], limit) /\ Below(f[q], limit) /\ f[p] \in Int /\ f[q] \in Int
    BY <1>4, <2>1 DEF RestBelow
  <2>4. Equal(f[p], upper[p]) /\ Equal(f[q], upper[q])
    BY <1>1, <1>6, <2>1
  <2> DEFINE c == f[p]
             d == f[q]
             c2 == upper[p]
             d2 == upper[q]
  <2>5. /\ c \in Int /\ d \in Int /\ c2 \in Int /\ d2 \in Int /\ Below(c, limit) /\ Below(d, limit)
        /\ Equal(c, c2) /\ Equal(d, d2) /\ g[p] = NttLo(c, d, y) /\ g[q] = NttHi(c, d, y)
    BY <1>4, <2>1, <2>2, <2>3, <2>4
  <2>6. lower[p] = c2 + z * d2 /\ lower[q] = c2 - z * d2
    BY <1>5 DEF p, q
  <2> HIDE DEF c, d, c2, d2, y, z, g
  <2>7. /\ NttLo(c, d, y) \in Int /\ Equal(NttLo(c, d, y), c + z * d)
        /\ NttHi(c, d, y) \in Int /\ Equal(NttHi(c, d, y), c - z * d)
    BY <1>2, <2>5, NttValue
  <2>8. Equal(c + z * d, c2 + z * d2) /\ Equal(c - z * d, c2 - z * d2)
    <3>1. /\ z \in Int /\ c \in Int /\ d \in Int /\ c2 \in Int /\ d2 \in Int
          /\ Equal(c, c2) /\ Equal(d, d2)
      BY <1>2, <2>5
    <3> DEFINE zd == z * d
               zd2 == z * d2
    <3>2. Equal(z, z)
      BY <3>1, EqualSame
    <3>3. Equal(zd, zd2)
      BY <3>1, <3>2, EqualTimes
    <3>4. zd \in Int /\ zd2 \in Int
      BY <3>1
    <3> HIDE DEF zd, zd2
    <3>5. Equal(c + zd, c2 + zd2) /\ Equal(c - zd, c2 - zd2)
      BY <3>1, <3>3, <3>4, EqualSum
    <3> QED BY <3>5 DEF zd, zd2
  <2>9. /\ c + z * d \in Int /\ c - z * d \in Int /\ c2 + z * d2 \in Int /\ c2 - z * d2 \in Int
    BY <1>2, <2>5
  <2>10. Equal(g[p], c2 + z * d2)
    BY <2>5, <2>7, <2>8, <2>9, EqualChain
  <2>11. Equal(g[q], c2 - z * d2)
    BY <2>5, <2>7, <2>8, <2>9, EqualChain
  <2> QED BY <2>6, <2>10, <2>11 DEF p, q
<1>9. ASSUME NEW i \in Indices
      PROVE  Equal(g[i], Cut(u, b, new)[i])
  <2>1. CASE i < st \/ i >= new
    <3>1. i \notin st..(st + l - 1) /\ i \notin (st + l)..(st + 2 * l - 1)
      BY <1>1, <1>4, <2>1
    <3>2. g[i] = f[i]
      BY <3>1 DEF NttBlockAt
    <3>3. (i < st <=> i < new)
      BY <1>1, <1>4, <2>1
    <3> QED BY <1>6, <1>7, <3>2, <3>3
  <2>2. CASE \E j \in Slots(b) : i = st + j \/ i = st + j + l
    <3>1. PICK j \in Slots(b) : i = st + j \/ i = st + j + l
      BY <2>2
    <3>2. i < new
      <4>1. /\ l \in Nat \ {0} /\ st \in Nat /\ j \in 0..(l - 1)
            /\ i = st + j \/ i = st + j + l
        BY <1>1, <1>3, <3>1
      <4>2. new = st + 2 * l
        OBVIOUS
      <4> HIDE DEF l, new
      <4> QED BY <4>1, <4>2
    <3>3. Equal(g[i], lower[i])
      BY <1>8, <3>1
    <3> QED BY <1>7, <3>2, <3>3
  <2> QED BY <1>1, <2>1, <2>2
<1> QED BY <1>9 DEF Congruent

(* The root with which td18_invntt joins two halves.                       *)
LEMMA MirroredRoot ==
  ASSUME NEW b \in 1..(MaxBits - 1), NEW a \in Pieces(b + 1)
  PROVE  LET y == Zeta[2 * Pow2[MaxBits - 1 - b] - 1 - a]
         IN  y \in Int /\ Below(y, 1665) /\ Equal(CutRoot(b, a) * Root(y), -1)
<1> DEFINE d == MaxBits - 1 - b
           y == Zeta[2 * Pow2[d] - 1 - a]
<1>1. d \in 0..(MaxBits - 2) /\ d \in 0..MaxBits /\ MaxBits - (b + 1) = d
  BY Pow2Assumption
<1>2. a \in 0..(Pow2[d] - 1) /\ Pow2[d] \in Nat \ {0}
  BY <1>1, Pow2Positive DEF Pieces
<1>3. Equal(Zeta[Pow2[d] + a] * y, -Mont * Mont)
  BY <1>1, <1>2, TableAssumption
<1> DEFINE c == Pow2[d] - 1 - a
<1>4. c \in Pieces(b + 1) /\ Pow2[d] + c = 2 * Pow2[d] - 1 - a
  BY <1>1, <1>2 DEF Pieces
<1> HIDE DEF c
<1>5. Pow2[d] + c \in 1..((RingSize \div 2) - 1)
  BY <1>4, TableIndex
<1>6. y \in Int /\ Below(y, 1665)
  BY <1>4, <1>5, RingAssumption, BoundAssumption
<1>7. Zeta[Pow2[d] + a] \in Int /\ CutRoot(b, a) = Root(Zeta[Pow2[d] + a])
  BY TableIndex DEF CutRoot
<1> DEFINE x == Zeta[Pow2[d] + a]
<1> HIDE DEF x, y
<1>8. Equal(Root(x) * Root(y), -1)
  <2>1. x \in Int /\ y \in Int /\ Equal(x * y, -Mont * Mont)
    BY <1>3, <1>6, <1>7 DEF x
  <2> QED BY <2>1, MontInverse
<1> QED BY <1>6, <1>7, <1>8 DEF x, y

(* Joining two halves undoes the cut, but for a factor 2.                  *)
CutPair(c0, c1, x, y, z, p) ==
  Equal(c0, 169 * (p * (x + z * y))) /\ Equal(c1, 169 * (p * (x - z * y)))
JoinedPair(c0, c1, x, y, w, p) ==
  Equal(c0 + c1, 169 * ((2 * p) * x)) /\ Equal(w * (c1 - c0), 169 * ((2 * p) * y))
Mirrored(z, w) == Equal(z * w, -1)

LEMMA JoinStep ==
  ASSUME NEW c0 \in Int, NEW c1 \in Int, NEW x \in Int, NEW y \in Int, NEW z \in Int,
         NEW w \in Int, NEW p \in Int, Mirrored(z, w), CutPair(c0, c1, x, y, z, p)
  PROVE  JoinedPair(c0, c1, x, y, w, p)
<1>a. Equal(z * w, -1)
  BY DEF Mirrored
<1>b. Equal(c0, 169 * (p * (x + z * y))) /\ Equal(c1, 169 * (p * (x - z * y)))
  BY DEF CutPair
<1>0. Q \in Int
  BY DEF Q
<1> DEFINE px == p * x
           py == p * y
           zpy == z * py
<1>1. p * (x + z * y) = px + zpy /\ p * (x - z * y) = px - zpy
  OBVIOUS
<1>2. px \in Int /\ py \in Int /\ zpy \in Int
  OBVIOUS
<1>3. (2 * p) * x = 2 * px /\ (2 * p) * y = 2 * py
  OBVIOUS
<1> HIDE DEF px
<1>4. PICK m \in Int : c0 = 169 * (px + zpy) + Q * m
  <2>1. 169 * (px + zpy) \in Int /\ Equal(c0, 169 * (px + zpy))
    BY <1>b, <1>1, <1>2
  <2> QED BY <2>1, EqualWitness
<1>5. PICK n \in Int : c1 = 169 * (px - zpy) + Q * n
  <2>1. 169 * (px - zpy) \in Int /\ Equal(c1, 169 * (px - zpy))
    BY <1>b, <1>1, <1>2
  <2> QED BY <2>1, EqualWitness
<1>6. PICK l \in Int : z * w = -1 + Q * l
  <2>1. z * w \in Int /\ -1 \in Int
    OBVIOUS
  <2> QED BY <1>a, <2>1, EqualWitness
<1>7. Equal(c0 + c1, 169 * (2 * px))
  <2> HIDE DEF zpy
  <2>1. c0 + c1 = 169 * (2 * px) + Q * (m + n)
    BY <1>0, <1>2, <1>4, <1>5
  <2>2. c0 + c1 \in Int /\ 169 * (2 * px) \in Int /\ m + n \in Int
    BY <1>2
  <2> QED BY <2>1, <2>2, EqualWitness
<1>8. Equal(w * (c1 - c0), 169 * (2 * py))
  <2> DEFINE e == n - m
             we == w * e
             lpy == l * py
             wz == w * zpy
  <2>1. c1 - c0 = Q * e - 338 * zpy /\ e \in Int
    <3> HIDE DEF zpy
    <3> QED BY <1>0, <1>2, <1>4, <1>5
  <2> HIDE DEF e
  <2>2. wz = (z * w) * py
    BY <1>2
  <2>3. wz = Q * lpy - py
    <3> HIDE DEF py, zpy, wz
    <3>1. (-1 + Q * l) * py = Q * lpy - py
      BY <1>0, <1>2
    <3> QED BY <1>6, <2>2, <3>1
  <2>4. w * (c1 - c0) = Q * we - 338 * wz
    <3> HIDE DEF zpy
    <3>1. w * (Q * e - 338 * zpy) = Q * (w * e) - 338 * (w * zpy)
      BY <1>0, <1>2, <2>1
    <3> QED BY <2>1, <3>1
  <2>5. we \in Int /\ lpy \in Int /\ wz \in Int
    BY <1>2, <2>1
  <2> DEFINE v == w * (c1 - c0)
  <2>6. v \in Int
    OBVIOUS
  <2> HIDE DEF we, lpy, wz, py, v
  <2>7. v = 169 * (2 * py) + Q * (we - 338 * lpy) /\ we - 338 * lpy \in Int
    <3>1. v = Q * we - 338 * wz
      BY <2>4 DEF v
    <3> QED BY <1>0, <1>2, <2>3, <2>5, <3>1
  <2>8. 169 * (2 * py) \in Int
    BY <1>2
  <2>9. Equal(v, 169 * (2 * py))
    BY <2>6, <2>7, <2>8, EqualWitness
  <2> QED BY <2>9 DEF v
<1> QED BY <1>3, <1>7, <1>8 DEF JoinedPair

LEMMA InvBlockValue ==
  ASSUME NEW h \in Arrays, NEW f \in Arrays, NEW b \in 1..(MaxBits - 1), NEW a \in Pieces(b + 1),
         NEW st, st = a * (2 * Pow2[b]), AllBelow(f, Q), Congruent(f, Joined(h, b, st))
  PROVE  Congruent(InvBlockAt(f, st, Pow2[b], Zeta[2 * Pow2[MaxBits - 1 - b] - 1 - a]),
                   Joined(h, b, st + 2 * Pow2[b]))
<1> DEFINE l == Pow2[b]
           y == Zeta[2 * Pow2[MaxBits - 1 - b] - 1 - a]
           z == CutRoot(b, a)
           g == InvBlockAt(f, st, l, y)
           new == st + 2 * l
           lower == Layers(h)[b]
           upper == Layers(h)[b + 1]
           w == Pow2[b - 1]
<1>1. /\ b \in 1..MaxBits /\ b + 1 \in 1..MaxBits /\ l \in Nat \ {0} /\ st \in Nat /\ new <= RingSize
      /\ \A j \in Slots(b) : /\ At(b + 1, a, j) = st + j /\ At(b + 1, a, l + j) = st + j + l
                             /\ st + j \in Indices /\ st + j + l \in Indices
                             /\ At(b, 2 * a, j) = st + j /\ At(b, 2 * a + 1, j) = st + j + l
      /\ \A i \in Indices :
           i < st \/ i >= new \/ \E j \in Slots(b) : i = st + j \/ i = st + j + l
  BY BlockPlaces
<1>2. y \in Int /\ Below(y, 1665) /\ z \in Int /\ Equal(z * Root(y), -1)
  BY TableIndex, MirroredRoot
<1>3. Slots(b) = 0..(l - 1)
  BY DEF Slots
<1>4. \A i \in Indices : i \in Nat /\ lower[i] \in Int /\ upper[i] \in Int /\ f[i] \in Int
  <2>1. \A i \in Indices : i \in Nat
    BY DEF Indices
  <2> QED BY <1>1, <2>1, LayersEquation DEF Arrays
<1>5. \A j \in Slots(b) : /\ lower[st + j] = upper[st + j] + z * upper[st + j + l]
                          /\ lower[st + j + l] = upper[st + j] - z * upper[st + j + l]
  BY <1>1, LayerAt
<1>6. \A i \in Indices : Equal(f[i], IF i < st THEN 169 * (l * upper[i]) ELSE 169 * (w * lower[i]))
  BY DEF Congruent, Joined
<1>7. \A i \in Indices : Joined(h, b, new)[i] = IF i < new THEN 169 * (l * upper[i])
                                                ELSE 169 * (w * lower[i])
  BY DEF Joined
<1>w. w \in Int /\ l = 2 * w
  BY <1>1, Pow2Assumption
<1>8. ASSUME NEW j \in Slots(b)
      PROVE  /\ Equal(g[st + j], 169 * (l * upper[st + j]))
             /\ Equal(g[st + j + l], 169 * (l * upper[st + j + l]))
  <2> DEFINE p == st + j
             q == st + j + l
  <2>1. /\ p \in Indices /\ q \in Indices /\ p >= st /\ q >= st /\ p \in Nat /\ q \in Nat
        /\ p \in st..(st + l - 1) /\ q \notin st..(st + l - 1)
        /\ q \in (st + l)..(st + 2 * l - 1) /\ q - l = p /\ p + l = q
    <3>1. p \in Indices /\ q \in Indices /\ j \in 0..(l - 1) /\ l \in Nat \ {0} /\ st \in Nat
      BY <1>1, <1>3
    <3>2. p = st + j /\ q = st + j + l
      OBVIOUS
    <3> HIDE DEF l, p, q
    <3> QED BY <3>1, <3>2
  <2> HIDE DEF p, q
  <2>2. g[p] = InvLo(f[p], f[q], y) /\ g[q] = InvHi(f[p], f[q], y)
    BY <2>1 DEF InvBlockAt
  <2>3. Below(f[p], Q) /\ Below(f[q], Q) /\ f[p] \in Int /\ f[q] \in Int
    BY <1>4, <2>1 DEF AllBelow
  <2>4. Equal(f[p], 169 * (w * lower[p])) /\ Equal(f[q], 169 * (w * lower[q]))
    BY <1>1, <1>6, <2>1
  <2> DEFINE c == f[p]
             d == f[q]
             c2 == upper[p]
             d2 == upper[q]
  <2>5. /\ c \in Int /\ d \in Int /\ c2 \in Int /\ d2 \in Int /\ Below(c, Q) /\ Below(d, Q)
        /\ g[p] = InvLo(c, d, y) /\ g[q] = InvHi(c, d, y)
    BY <1>4, <2>1, <2>2, <2>3
  <2>6. lower[p] = c2 + z * d2 /\ lower[q] = c2 - z * d2
    BY <1>5 DEF p, q
  <2>7. Equal(c, 169 * (w * (c2 + z * d2))) /\ Equal(d, 169 * (w * (c2 - z * d2)))
    BY <2>4, <2>6
  <2>z. Root(y) \in Int
    BY <1>2 DEF Root
  <2> DEFINE v == Root(y)
  <2> HIDE DEF c, d, c2, d2, y, z, g, v, w, l
  <2>8. /\ InvLo(c, d, y) \in Int /\ Equal(InvLo(c, d, y), c + d)
        /\ InvHi(c, d, y) \in Int /\ Equal(InvHi(c, d, y), v * (d - c))
    BY <1>2, <2>5, InvValue DEF v
  <2>9. v \in Int /\ Equal(z * v, -1)
    BY <1>2, <2>z DEF v
  <2>10. Equal(c + d, 169 * ((2 * w) * c2)) /\ Equal(v * (d - c), 169 * ((2 * w) * d2))
    <3>1. Mirrored(z, v) /\ CutPair(c, d, c2, d2, z, w)
      BY <2>7, <2>9 DEF Mirrored, CutPair
    <3>2. JoinedPair(c, d, c2, d2, v, w)
      BY <1>2, <1>w, <2>5, <2>9, <3>1, JoinStep
    <3> QED BY <3>2 DEF JoinedPair
  <2> DEFINE m == v * (d - c)
             n1 == 169 * (l * c2)
             n2 == 169 * (l * d2)
  <2>11. m \in Int /\ c + d \in Int /\ n1 \in Int /\ n2 \in Int
    BY <1>w, <2>5, <2>9
  <2>12. Equal(c + d, n1) /\ Equal(m, n2)
    BY <1>w, <2>10
  <2>15. Equal(InvHi(c, d, y), m)
    BY <2>8
  <2> HIDE DEF m, n1, n2
  <2>13. Equal(g[p], n1)
    BY <2>5, <2>8, <2>11, <2>12, EqualChain
  <2>14. Equal(g[q], n2)
    BY <2>5, <2>8, <2>11, <2>12, <2>15, EqualChain
  <2> QED BY <2>13, <2>14 DEF p, q, n1, n2, c2, d2, l
<1>9. ASSUME NEW i \in Indices
      PROVE  Equal(g[i], Joined(h, b, new)[i])
  <2>1. CASE i < st \/ i >= new
    <3>1. i \notin st..(st + l - 1) /\ i \notin (st + l)..(st + 2 * l - 1)
      BY <1>1, <1>4, <2>1
    <3>2. g[i] = f[i]
      BY <3>1 DEF InvBlockAt
    <3>3. (i < st <=> i < new)
      BY <1>1, <1>4, <2>1
    <3> HIDE DEF w, l, new, g
    <3> QED BY <1>6, <1>7, <3>2, <3>3
  <2>2. CASE \E j \in Slots(b) : i = st + j \/ i = st + j + l
    <3>1. PICK j \in Slots(b) : i = st + j \/ i = st + j + l
      BY <2>2
    <3>2. i < new
      <4>1. /\ l \in Nat \ {0} /\ st \in Nat /\ j \in 0..(l - 1)
            /\ i = st + j \/ i = st + j + l
        BY <1>1, <1>3, <3>1
      <4>2. new = st + 2 * l
        OBVIOUS
      <4> HIDE DEF l, new
      <4> QED BY <4>1, <4>2
    <3>3. Equal(g[i], 169 * (l * upper[i]))
      BY <1>8, <3>1
    <3> HIDE DEF w, new, g
    <3> QED BY <1>7, <3>2, <3>3
  <2> QED BY <1>1, <2>1, <2>2
<1> QED BY <1>9 DEF Congruent

-----------------------------------------------------------------------------
(* What the array holds before a block, modulo Q, in each phase of a       *)
(* thread that transforms u; h is the product.                             *)
PhaseValue(p, f, u, h, b, st) ==
  /\ p \in {"call", "storing", "ready"} => f = u
  /\ p = "ntt" => Congruent(f, Cut(u, b, st))
  /\ p \in {"reduce", "product"} => Congruent(f, Layers(u)[1])
  /\ p = "inv_ready" => Congruent(f, Scaled(Layers(h)[1], 169))
  /\ p = "invntt" => Congruent(f, Joined(h, b, st))
  /\ p = "scale" => Congruent(f, Scaled(h, 169 * Pow2[MaxBits - 1]))
  /\ p = "done" => Congruent(f, h)

ValueAt(s) ==
  PhaseValue(pc[s], base[s], input[s], ProductOf(input[s]), bits[s], start[s])

BaseValue == \A s \in Sessions : ValueAt(s)

LEMMA ValueAfter ==
  ASSUME NEW s
  PROVE  ValueAt(s)' <=> PhaseValue(pc'[s], base'[s], input'[s], ProductOf(input'[s]),
                                    bits'[s], start'[s])
BY DEF ValueAt

LEMMA FrameValue ==
  ASSUME NEW s, ValueAt(s), pc'[s] = pc[s], base'[s] = base[s],
         bits'[s] = bits[s], start'[s] = start[s], input'[s] = input[s]
  PROVE  ValueAt(s)'
<1>1. PhaseValue(pc[s], base[s], input[s], ProductOf(input[s]), bits[s], start[s])
  BY DEF ValueAt
<1>2. PhaseValue(pc'[s], base'[s], input'[s], ProductOf(input'[s]), bits'[s], start'[s])
  BY <1>1
<1> QED BY <1>2, ValueAfter

(* Before the first block of a transform, and after the last of a layer.   *)
LEMMA CutFirst ==
  ASSUME NEW u \in Arrays
  PROVE  Congruent(u, Cut(u, MaxBits - 1, 0))
<1>1. MaxBits - 1 + 1 = MaxBits /\ \A i \in Indices : i \in Nat /\ ~ (i < 0) /\ u[i] \in Int
  <2>1. MaxBits - 1 + 1 = MaxBits
    BY Pow2Assumption
  <2>2. \A i \in Indices : i \in Nat /\ ~ (i < 0)
    BY DEF Indices
  <2>3. \A i \in Indices : u[i] \in Int
    BY DEF Arrays
  <2> QED BY <2>1, <2>2, <2>3
<1>2. \A i \in Indices : Cut(u, MaxBits - 1, 0)[i] = Layers(u)[MaxBits][i]
  BY <1>1 DEF Cut
<1>3. \A i \in Indices : Cut(u, MaxBits - 1, 0)[i] = u[i]
  BY <1>2, LayersEquation
<1> QED BY <1>1, <1>3, EqualSame DEF Congruent

LEMMA CutLast ==
  ASSUME NEW u \in Arrays, NEW f \in Arrays, NEW b \in 1..(MaxBits - 1), NEW st \in Nat,
         st >= RingSize, Congruent(f, Cut(u, b, st))
  PROVE  /\ b = 1 => Congruent(f, Layers(u)[1])
         /\ b # 1 => Congruent(f, Cut(u, b - 1, 0))
<1>1. /\ RingSize \in Nat /\ \A i \in Indices : i \in Nat /\ i < RingSize /\ ~ (i < 0)
      /\ b \in Int /\ b - 1 + 1 = b
  BY Pow2Assumption, Pow2Positive DEF Indices, RingSize
<1>2. \A i \in Indices : Equal(f[i], Cut(u, b, st)[i])
  BY DEF Congruent
<1>3. \A i \in Indices : i < st
  BY <1>1
<1>4. \A i \in Indices : Equal(f[i], Layers(u)[b][i])
  BY <1>2, <1>3 DEF Cut
<1>5. \A i \in Indices : Cut(u, b - 1, 0)[i] = Layers(u)[b][i]
  BY <1>1 DEF Cut
<1> QED BY <1>4, <1>5 DEF Congruent

LEMMA JoinedFirst ==
  ASSUME NEW h \in Arrays, NEW f, Congruent(f, Scaled(Layers(h)[1], 169))
  PROVE  Congruent(f, Joined(h, 1, 0))
<1>1. 1 \in 1..MaxBits /\ Pow2[0] = 1 /\ 1 - 1 = 0
  BY RingAssumption, Pow2Assumption
<1>2. \A i \in Indices : Layers(h)[1][i] \in Int /\ ~ (i < 0)
  <2>1. Layers(h)[1] \in Arrays
    BY <1>1, LayersEquation
  <2>2. \A i \in Indices : ~ (i < 0)
    BY DEF Indices
  <2> QED BY <2>1, <2>2 DEF Arrays
<1>3. \A i \in Indices : Joined(h, 1, 0)[i] = 169 * (1 * Layers(h)[1][i])
  BY <1>1, <1>2 DEF Joined
<1>4. \A i \in Indices : Joined(h, 1, 0)[i] = 169 * Layers(h)[1][i]
  BY <1>2, <1>3
<1>5. \A i \in Indices : Scaled(Layers(h)[1], 169)[i] = 169 * Layers(h)[1][i]
  BY DEF Scaled
<1> QED BY <1>4, <1>5 DEF Congruent

LEMMA JoinedLast ==
  ASSUME NEW h \in Arrays, NEW f \in Arrays, NEW b \in 1..(MaxBits - 1), NEW st \in Nat,
         st >= RingSize, Congruent(f, Joined(h, b, st))
  PROVE  /\ b = MaxBits - 1 => Congruent(f, Scaled(h, 169 * Pow2[MaxBits - 1]))
         /\ b # MaxBits - 1 => Congruent(f, Joined(h, b + 1, 0))
<1>1. /\ RingSize \in Nat /\ \A i \in Indices : i \in Nat /\ i < RingSize /\ ~ (i < 0)
      /\ b \in Int /\ b + 1 - 1 = b /\ MaxBits - 1 + 1 = MaxBits /\ Pow2[b] \in Int
  BY Pow2Assumption, Pow2Positive DEF Indices, RingSize
<1>2. \A i \in Indices : Equal(f[i], Joined(h, b, st)[i])
  BY DEF Congruent
<1>3. \A i \in Indices : i < st
  BY <1>1
<1>4. \A i \in Indices : Equal(f[i], 169 * (Pow2[b] * Layers(h)[b + 1][i]))
  BY <1>2, <1>3 DEF Joined
<1>5. \A i \in Indices : Joined(h, b + 1, 0)[i] = 169 * (Pow2[b] * Layers(h)[b + 1][i])
  BY <1>1 DEF Joined
<1>6. ASSUME b = MaxBits - 1, NEW i \in Indices
      PROVE  Equal(f[i], Scaled(h, 169 * Pow2[MaxBits - 1])[i])
  <2> DEFINE x == h[i]
             n == Pow2[b]
  <2>1. x \in Int /\ n \in Int
    BY <1>1 DEF Arrays
  <2>2. Layers(h)[b + 1][i] = x
    BY <1>1, <1>6, LayersEquation
  <2>3. Equal(f[i], 169 * (n * x))
    BY <1>4, <2>2
  <2>4. Scaled(h, 169 * Pow2[MaxBits - 1])[i] = (169 * n) * x
    BY <1>6 DEF Scaled
  <2> HIDE DEF n, x
  <2>5. 169 * (n * x) = (169 * n) * x
    BY <2>1
  <2> QED BY <2>3, <2>4, <2>5
<1>7. b # MaxBits - 1 => Congruent(f, Joined(h, b + 1, 0))
  BY <1>4, <1>5 DEF Congruent
<1> QED BY <1>6, <1>7 DEF Congruent

-----------------------------------------------------------------------------
(* The value before a block is inductive, given the roots and the bounds.  *)
LEMMA Known ==
  ASSUME IInv, NEW s \in Sessions
  PROVE  /\ input[s] \in Arrays /\ base[s] \in Arrays /\ ProductOf(input[s]) \in Arrays
         /\ bits[s] \in 1..(MaxBits - 1)
<1>1. input[s] \in Arrays /\ base[s] \in Arrays /\ bits[s] \in 1..(MaxBits - 1)
  BY InputAssumption DEF IInv, TypeOK, Arrays
<1> QED BY <1>1, OperandLayers

LEMMA InitValue == Init => BaseValue
BY DEF Init, BaseValue, ValueAt, PhaseValue

LEMMA StoreValue ==
  ASSUME IInv, NEW s \in Sessions, ValueAt(s), BeginStoreSeed(s) \/ EndStoreSeed(s)
  PROVE  ValueAt(s)'
<1>1. /\ pc[s] \in {"call", "storing"} /\ pc'[s] \in {"storing", "ready"}
      /\ base' = base /\ input' = input
  BY DEF IInv, TypeOK, BeginStoreSeed, EndStoreSeed, Move
<1>2. base[s] = input[s]
  BY <1>1 DEF ValueAt, PhaseValue
<1> QED BY <1>1, <1>2, ValueAfter DEF PhaseValue

LEMMA BeginValue ==
  ASSUME IInv, NEW s \in Sessions, ValueAt(s), BeginNtt(s) \/ BeginInvNtt(s)
  PROVE  ValueAt(s)'
<1>1. CASE BeginNtt(s)
  <2>1. /\ pc[s] = "ready" /\ pc'[s] = "ntt" /\ bits'[s] = MaxBits - 1 /\ start'[s] = 0
        /\ base' = base /\ input' = input
    BY <1>1 DEF IInv, TypeOK, BeginNtt, Move
  <2>2. base[s] = input[s]
    BY <2>1 DEF ValueAt, PhaseValue
  <2>3. Congruent(base[s], Cut(input[s], MaxBits - 1, 0))
    BY <2>2, Known, CutFirst
  <2> QED BY <2>1, <2>3, ValueAfter DEF PhaseValue
<1>2. CASE BeginInvNtt(s)
  <2>1. /\ pc[s] = "inv_ready" /\ pc'[s] = "invntt" /\ bits'[s] = 1 /\ start'[s] = 0
        /\ base' = base /\ input' = input
    BY <1>2 DEF IInv, TypeOK, BeginInvNtt, Move
  <2>2. Congruent(base[s], Scaled(Layers(ProductOf(input[s]))[1], 169))
    BY <2>1 DEF ValueAt, PhaseValue
  <2>3. Congruent(base[s], Joined(ProductOf(input[s]), 1, 0))
    BY <2>2, Known, JoinedFirst
  <2> QED BY <2>1, <2>3, ValueAfter DEF PhaseValue
<1> QED BY <1>1, <1>2

LEMMA PassesValue ==
  ASSUME IInv, NEW s \in Sessions, BoundAt(s), ValueAt(s), Reduce(s) \/ Product(s) \/ Scale(s)
  PROVE  ValueAt(s)'
<1>1. /\ r[s] = base[s] /\ base[s] \in Arrays
      /\ r \in [Sessions -> [Indices -> Int]] /\ base \in [Sessions -> [Indices -> Int]]
  BY Saved DEF IInv, TypeOK, Reduce, Product, Scale, Move, Arrays
<1>2. input[s] \in Arrays /\ ProductOf(input[s]) \in Arrays
  BY Known
<1>3. CASE Reduce(s)
  <2>1. /\ pc[s] = "reduce" /\ pc'[s] = "product" /\ base'[s] = PolyReduce(base[s])
        /\ input' = input
    BY <1>1, <1>3 DEF IInv, TypeOK, Reduce, Move
  <2>2. AllBelow(base[s], MaxBits * Q) /\ Congruent(base[s], Layers(input[s])[1])
    BY <2>1 DEF BoundAt, ValueAt, PhaseValue
  <2>3. PolyReduce(base[s]) \in Arrays /\ Congruent(PolyReduce(base[s]), base[s])
    BY <1>1, <2>2, ReduceValue
  <2>4. Layers(input[s])[1] \in Arrays
    BY <1>2, PairPlaces, LayersEquation
  <2>5. Congruent(PolyReduce(base[s]), Layers(input[s])[1])
    BY <1>1, <2>2, <2>3, <2>4, CongruentChain
  <2> QED BY <2>1, <2>5, ValueAfter DEF PhaseValue
<1>4. CASE Product(s)
  <2>1. /\ pc[s] = "product" /\ pc'[s] = "inv_ready" /\ input' = input
        /\ base'[s] = PolyReduce(PolyBaseMul(base[s], OperandHat))
    BY <1>1, <1>4 DEF IInv, TypeOK, Product, Move
  <2>2. AllBelow(base[s], Q) /\ Congruent(base[s], Layers(input[s])[1])
    BY <2>1 DEF BoundAt, ValueAt, PhaseValue
  <2>3. Congruent(base'[s], Scaled(Layers(ProductOf(input[s]))[1], 169))
    BY <1>1, <1>2, <2>1, <2>2, ProductValue
  <2> QED BY <2>1, <2>3, ValueAfter DEF PhaseValue
<1>5. CASE Scale(s)
  <2>1. /\ pc[s] = "scale" /\ pc'[s] = "done" /\ base'[s] = PolyScale(base[s])
        /\ input' = input
    BY <1>1, <1>5 DEF IInv, TypeOK, Scale, Move
  <2>2. /\ AllBelow(base[s], Q)
        /\ Congruent(base[s], Scaled(ProductOf(input[s]), 169 * Pow2[MaxBits - 1]))
    BY <2>1 DEF BoundAt, ValueAt, PhaseValue
  <2>3. Congruent(PolyScale(base[s]), ProductOf(input[s]))
    BY <1>1, <1>2, <2>2, ScaleValue
  <2> QED BY <2>1, <2>3, ValueAfter DEF PhaseValue
<1> QED BY <1>3, <1>4, <1>5

(* What the block a thread is in does to the value, once it is complete.   *)
LEMMA WholeBlockValue ==
  ASSUME IInv, NEW s \in Sessions, BoundAt(s), ValueAt(s), pc[s] \in {"ntt", "invntt"}
  PROVE  /\ pc[s] = "ntt" =>
              Congruent(NttBlockAt(base[s], start[s], HalfBlock(s), Zeta[k[s]]),
                        Cut(input[s], bits[s], start[s] + 2 * HalfBlock(s)))
         /\ pc[s] = "invntt" =>
              Congruent(InvBlockAt(base[s], start[s], HalfBlock(s), Zeta[k[s]]),
                        Joined(ProductOf(input[s]), bits[s], start[s] + 2 * HalfBlock(s)))
<1> DEFINE m == Blocks(s)
           b == bits[s]
<1>1. /\ input[s] \in Arrays /\ base[s] \in Arrays /\ ProductOf(input[s]) \in Arrays
      /\ b \in 1..(MaxBits - 1)
  BY Known
<1>2. m \in Nat \ {0} /\ Pieces(b + 1) = 0..(m - 1) /\ k[s] \in Nat
  <2>1. m \in Nat \ {0} /\ k[s] \in Nat
    BY InsideBlock DEF IInv, TypeOK
  <2>2. b \in Int /\ MaxBits \in Int
    BY <1>1, Pow2Assumption
  <2> HIDE DEF m, b
  <2>3. MaxBits - (b + 1) = MaxBits - 1 - b
    BY <2>2
  <2> QED BY <2>1, <2>3 DEF Pieces, Blocks, m, b
<1>3. CASE pc[s] = "ntt"
  <2> DEFINE a == k[s] - m
  <2>1. k[s] \in m..(2 * m - 1) /\ start[s] = a * (2 * HalfBlock(s))
    BY <1>3 DEF IInv, RootMatchesBlock, RootAt
  <2>2. a \in Pieces(b + 1) /\ m + a = k[s]
    <3> HIDE DEF m, b
    <3> QED BY <1>2, <2>1
  <2>3. /\ LayerLimit(b) \in Int /\ LayerLimit(b) + Q < 32768
        /\ RestBelow(base[s], start[s], LayerLimit(b))
    <3>1. LayerLimit(b) \in Int /\ LayerLimit(b) + Q <= MaxBits * Q /\ MaxBits * Q < 29962
      BY <1>1, Limits
    <3>2. MaxBits \in Nat /\ LayerLimit(b) + Q < 32768
      BY <1>1, <3>1, Pow2Assumption DEF Q
    <3> QED BY <1>3, <3>1, <3>2 DEF BoundAt
  <2>4. Congruent(base[s], Cut(input[s], b, start[s]))
    BY <1>3 DEF ValueAt, PhaseValue
  <2>5. HalfBlock(s) = Pow2[b] /\ Pow2[MaxBits - 1 - b] + a = k[s]
    BY <2>2 DEF HalfBlock, Blocks
  <2>6. start[s] = a * (2 * Pow2[b])
    BY <2>1, <2>5
  <2> HIDE DEF a, b, m
  <2>7. Congruent(NttBlockAt(base[s], start[s], Pow2[b], Zeta[Pow2[MaxBits - 1 - b] + a]),
                  Cut(input[s], b, start[s] + 2 * Pow2[b]))
    BY <1>1, <2>2, <2>3, <2>4, <2>6, NttBlockValue
  <2> QED BY <1>3, <2>5, <2>7 DEF b
<1>4. CASE pc[s] = "invntt"
  <2> DEFINE a == 2 * m - 1 - k[s]
  <2>1. k[s] \in m..(2 * m - 1) /\ start[s] = a * (2 * HalfBlock(s))
    BY <1>4 DEF IInv, RootMatchesBlock, RootAt
  <2>2. a \in Pieces(b + 1) /\ 2 * m - 1 - a = k[s]
    <3> HIDE DEF m, b
    <3> QED BY <1>2, <2>1
  <2>3. AllBelow(base[s], Q)
    BY <1>4 DEF BoundAt
  <2>4. Congruent(base[s], Joined(ProductOf(input[s]), b, start[s]))
    BY <1>4 DEF ValueAt, PhaseValue
  <2>5. HalfBlock(s) = Pow2[b] /\ 2 * Pow2[MaxBits - 1 - b] - 1 - a = k[s]
    BY <2>2 DEF HalfBlock, Blocks
  <2>6. start[s] = a * (2 * Pow2[b])
    BY <2>1, <2>5
  <2> HIDE DEF a, b, m
  <2>7. Congruent(InvBlockAt(base[s], start[s], Pow2[b],
                             Zeta[2 * Pow2[MaxBits - 1 - b] - 1 - a]),
                  Joined(ProductOf(input[s]), b, start[s] + 2 * Pow2[b]))
    BY <1>1, <2>2, <2>3, <2>4, <2>6, InvBlockValue
  <2> QED BY <1>4, <2>5, <2>7 DEF b
<1> QED BY <1>3, <1>4

LEMMA ButterflyValue ==
  ASSUME IInv, NEW s \in Sessions, BoundAt(s), ValueAt(s), NttButterfly(s) \/ InvButterfly(s)
  PROVE  ValueAt(s)'
<1> DEFINE whole == r'[s]
           new == start[s] + 2 * HalfBlock(s)
           u == input[s]
           h == ProductOf(input[s])
<1>1. /\ pc \in [Sessions -> Phases] /\ bits \in [Sessions -> 1..(MaxBits - 1)]
      /\ start \in [Sessions -> Nat] /\ base \in [Sessions -> [Indices -> Int]]
      /\ whole \in Arrays /\ pc[s] \in {"ntt", "invntt"} /\ input' = input
      /\ u \in Arrays /\ h \in Arrays /\ bits[s] \in 1..(MaxBits - 1)
  BY ButterflyWrite, Known DEF IInv, TypeOK, Arrays
<1>2. new \in Nat
  BY <1>1, InsideBlock
<1>3. CASE SameBlock(s)
  <2>1. UNCHANGED << pc, base, bits, start >>
    BY <1>3 DEF SameBlock
  <2> QED BY <1>1, <2>1, FrameValue
<1>4. ASSUME idx[s] + 1 = HalfBlock(s)
      PROVE  /\ pc[s] = "ntt" => Congruent(whole, Cut(u, bits[s], new))
             /\ pc[s] = "invntt" => Congruent(whole, Joined(h, bits[s], new))
  BY <1>1, <1>4, BlockDone, WholeBlockValue
<1>5. CASE NttButterfly(s) /\ ~ SameBlock(s)
  <2>1. pc[s] = "ntt" /\ base'[s] = whole /\ Congruent(whole, Cut(u, bits[s], new))
    BY <1>1, <1>4, <1>5 DEF NttButterfly, NextBlock, LastBlock
  <2> HIDE DEF whole, u, h
  <2>2. CASE NextBlock(s, k[s] + 1)
    <3>1. pc'[s] = "ntt" /\ bits'[s] = bits[s] /\ start'[s] = new
      BY <1>1, <2>1, <2>2 DEF NextBlock
    <3>2. PhaseValue(pc'[s], base'[s], u, h, bits'[s], start'[s])
      BY <2>1, <3>1 DEF PhaseValue
    <3> QED BY <1>1, <3>2, ValueAfter DEF u, h
  <2>3. CASE LastBlock(s, k[s] + 1, 1, bits[s] - 1, "reduce")
    <3>1. new >= RingSize /\ start'[s] = 0
      BY <1>1, <2>3 DEF LastBlock
    <3>2. \/ bits[s] # 1 /\ bits'[s] = bits[s] - 1 /\ pc'[s] = "ntt"
          \/ bits[s] = 1 /\ pc'[s] = "reduce"
      BY <1>1, <2>1, <2>3 DEF LastBlock
    <3> HIDE DEF new
    <3>3. /\ bits[s] = 1 => Congruent(whole, Layers(u)[1])
          /\ bits[s] # 1 => Congruent(whole, Cut(u, bits[s] - 1, 0))
      BY <1>1, <1>2, <2>1, <3>1, CutLast
    <3>4. PhaseValue(pc'[s], base'[s], u, h, bits'[s], start'[s])
      BY <2>1, <3>1, <3>2, <3>3 DEF PhaseValue
    <3> QED BY <1>1, <3>4, ValueAfter DEF u, h
  <2> QED BY <1>5, <2>2, <2>3 DEF NttButterfly
<1>6. CASE InvButterfly(s) /\ ~ SameBlock(s)
  <2>1. pc[s] = "invntt" /\ base'[s] = whole /\ Congruent(whole, Joined(h, bits[s], new))
    BY <1>1, <1>4, <1>6 DEF InvButterfly, NextBlock, LastBlock
  <2> HIDE DEF whole, u, h
  <2>2. CASE NextBlock(s, k[s] - 1)
    <3>1. pc'[s] = "invntt" /\ bits'[s] = bits[s] /\ start'[s] = new
      BY <1>1, <2>1, <2>2 DEF NextBlock
    <3>2. PhaseValue(pc'[s], base'[s], u, h, bits'[s], start'[s])
      BY <2>1, <3>1 DEF PhaseValue
    <3> QED BY <1>1, <3>2, ValueAfter DEF u, h
  <2>3. CASE LastBlock(s, k[s] - 1, MaxBits - 1, bits[s] + 1, "scale")
    <3>1. new >= RingSize /\ start'[s] = 0
      BY <1>1, <2>3 DEF LastBlock
    <3>2. \/ bits[s] # MaxBits - 1 /\ bits'[s] = bits[s] + 1 /\ pc'[s] = "invntt"
          \/ bits[s] = MaxBits - 1 /\ pc'[s] = "scale"
      BY <1>1, <2>1, <2>3 DEF LastBlock
    <3> HIDE DEF new
    <3>3. /\ bits[s] = MaxBits - 1 => Congruent(whole, Scaled(h, 169 * Pow2[MaxBits - 1]))
          /\ bits[s] # MaxBits - 1 => Congruent(whole, Joined(h, bits[s] + 1, 0))
      BY <1>1, <1>2, <2>1, <3>1, JoinedLast
    <3>4. PhaseValue(pc'[s], base'[s], u, h, bits'[s], start'[s])
      BY <2>1, <3>1, <3>2, <3>3 DEF PhaseValue
    <3> QED BY <1>1, <3>4, ValueAfter DEF u, h
  <2> QED BY <1>6, <2>2, <2>3 DEF InvButterfly
<1> QED BY <1>3, <1>5, <1>6

LEMMA NextValue == IInv /\ BaseBound /\ BaseValue /\ [Next]_vars => BaseValue'
<1> SUFFICES ASSUME IInv, BaseBound, BaseValue, [Next]_vars, NEW t \in Sessions PROVE ValueAt(t)'
  BY DEF BaseValue
<1>1. ValueAt(t) /\ BoundAt(t)
  BY DEF BaseValue, BaseBound
<1>2. CASE UNCHANGED vars
  BY <1>1, <1>2, FrameValue DEF vars
<1>3. ASSUME NEW s \in Sessions, Step(s), s # t PROVE ValueAt(t)'
  <2>1. input' = input
    BY <1>3 DEF Step, BeginStoreSeed, EndStoreSeed, BeginNtt, BeginInvNtt, NttButterfly,
                InvButterfly, Reduce, Product, Scale
  <2> QED BY <1>1, <1>3, <2>1, OneThread, FrameValue
<1>4. CASE Step(t)
  BY <1>1, <1>4, StoreValue, BeginValue, PassesValue, ButterflyValue DEF Step
<1> QED BY <1>2, <1>3, <1>4 DEF Next

-----------------------------------------------------------------------------
(* At the end the value before a block is that of the array.               *)
LEMMA Computed == IInv /\ BaseValue => ForwardCorrect /\ ProductCorrect
<1> SUFFICES ASSUME IInv, BaseValue PROVE ForwardCorrect /\ ProductCorrect
  OBVIOUS
<1>1. ASSUME NEW s \in Sessions, pc[s] = "product"
      PROVE  Congruent(r[s], ReferenceNtt(input[s], RingSize))
  <2> DEFINE f == base[s]
             g == Layers(input[s])[1]
             e == ReferenceNtt(input[s], RingSize)
  <2>1. r[s] = f /\ Congruent(f, g)
    BY <1>1, Saved DEF BaseValue, ValueAt, PhaseValue
  <2>2. f \in Arrays /\ g \in Arrays
    BY Known, PairPlaces, LayersEquation
  <2>3. \A i \in Indices : e[i] \in Int /\ Equal(g[i], e[i])
    BY Known, ReferenceIsLayers
  <2> HIDE DEF f, g, e
  <2>4. ASSUME NEW i \in Indices PROVE Equal(f[i], e[i])
    <3>1. f[i] \in Int /\ g[i] \in Int /\ e[i] \in Int /\ Equal(f[i], g[i]) /\ Equal(g[i], e[i])
      BY <2>1, <2>2, <2>3 DEF Arrays, Congruent
    <3> QED BY <3>1, EqualChain
  <2> QED BY <2>1, <2>4 DEF Congruent, e
<1>2. ASSUME NEW s \in Sessions, pc[s] = "done"
      PROVE  Congruent(r[s], ReferenceProduct(input[s], Operand, RingSize))
  BY <1>2, Saved DEF BaseValue, ValueAt, PhaseValue, ProductOf
<1> QED BY <1>1, <1>2 DEF ForwardCorrect, ProductCorrect

(* What td18_poly_ntt leaves is congruent to the transform by its          *)
(* definition, the values of the input's polynomial modulo the factors of  *)
(* X^N + 1, for every ring size and seed and however the threads race.     *)
THEOREM TransformsCorrect == Spec => []ForwardCorrect
<1>1. Init => BaseBound /\ BaseValue
  BY InitBound, InitValue
<1>2. IInv /\ BaseBound /\ BaseValue /\ [Next]_vars => BaseBound' /\ BaseValue'
  BY NextBound, NextValue
<1>3. IInv /\ BaseValue => ForwardCorrect
  BY Computed
<1> QED BY <1>1, <1>2, <1>3, Invariance, PTL DEF Spec

(* And td18_invntt, after the products of the pairs, leaves the product of *)
(* the two polynomials modulo X^N + 1, by the schoolbook definition.       *)
THEOREM ProductsCorrect == Spec => []ProductCorrect
<1>1. Init => BaseBound /\ BaseValue
  BY InitBound, InitValue
<1>2. IInv /\ BaseBound /\ BaseValue /\ [Next]_vars => BaseBound' /\ BaseValue'
  BY NextBound, NextValue
<1>3. IInv /\ BaseValue => ProductCorrect
  BY Computed
<1> QED BY <1>1, <1>2, <1>3, Invariance, PTL DEF Spec

=============================================================================
