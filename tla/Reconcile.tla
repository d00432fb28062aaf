----------------------------- MODULE Reconcile ------------------------------
(***************************************************************************)
(* Reconciliation hints (reconcile.c, reconcile.rs, reconcile.cpp): both   *)
(* ends turn 16-bit words into a polynomial and the polynomial into hints, *)
(* in C and Rust four bits for every coefficient and two for every block   *)
(* of four; a verifier compares the two polynomials.                       *)
(***************************************************************************)
EXTENDS Reduce, Sequences, FiniteSetsExt

CONSTANTS
  N,          (* coefficients, a multiple of 16                          *)
  Words,      (* the words that Alice draws: functions from 0..N-1       *)
  Noises,     (* what Bob's coefficients differ by, in one of the blocks *)
  Stale       (* bytes that uninitialised memory may hold                *)

ASSUME ReconcileAssumption == N \in Nat \ {0} /\ N % 16 = 0

Coefficients == 0..(N - 1)
Uint16 == 0..65535

(* The noise is less than one step of CoarseBucket: a coefficient it moves *)
(* below 0 is still rounded to the first bucket, whichever way the         *)
(* division of a negative number goes.                                     *)
NoiseBound == 208
Move == (-NoiseBound)..NoiseBound

ASSUME InputAssumption ==
  /\ Words \subseteq [Coefficients -> Uint16]
  /\ Noises \subseteq [0..3 -> Move]

VARIABLES
  lang,       (* the implementation                                      *)
  pc,         (* what has been computed                                  *)
  va, vb,     (* v_alice, v_bob                                          *)
  ha, hb,     (* the hints of each                                       *)
  accepted    (* what reconcile_verify returns                           *)

vars == << lang, pc, va, vb, ha, hb, accepted >>

Blocks == 0..(N \div 4 - 1)
BlockAt(v, b) == [j \in 0..3 |-> v[4*b + j]]
HintBytes == N \div 2 + N \div 16

-----------------------------------------------------------------------------
(* The coefficient a word stands for: Rust takes it as signed.             *)
Coefficient(w) == w % Q

CoefficientRust(w) == IF w >= 32768 THEN -((65536 - w) % Q) ELSE w % Q

Positive(v) == IF v < 0 THEN v + Q ELSE v

(* Rounded to a ninth, then to one of eight.                               *)
CoarseBucket(v) ==
  LET scaled == (16 * Positive(v) + Q) \div (2 * Q)
  IN  Min({7, (8 * scaled) \div 9})

FineSub(v, coarse) ==
  LET low == (coarse * Q) \div 8
      high == ((coarse + 1) * Q) \div 8
  IN  IF Positive(v) >= (low + high) \div 2 THEN 1 ELSE 0

CoFine(v) == 2 * CoarseBucket(v) + FineSub(v, CoarseBucket(v))

(* The two sums of a block of which only the signs are told.               *)
S0(b) == b[0] + b[1] - b[2] - b[3]
S1(b) == b[0] + b[2] - b[1] - b[3]

(* Mutant of SpectralPair: a sum of 0 counts as negative.                  *)
SpectralPairStrict(b) == (IF S1(b) > 0 THEN 2 ELSE 0) + (IF S0(b) > 0 THEN 1 ELSE 0)

SpectralPair(b) == (IF S1(b) >= 0 THEN 2 ELSE 0) + (IF S0(b) >= 0 THEN 1 ELSE 0)

(* Mutant of ReconcileAlice: three bits are kept for four.                 *)
ReconcileAliceOverlapping(v) ==
  [x \in 0..(HintBytes - 1) |->
     IF x < N \div 2 THEN CoFine(v[2*x]) + 8 * CoFine(v[2*x + 1])
     ELSE LET b == 4 * (x - N \div 2)
          IN  SpectralPair(BlockAt(v, b)) + 4 * SpectralPair(BlockAt(v, b + 1))
              + 16 * SpectralPair(BlockAt(v, b + 2)) + 64 * SpectralPair(BlockAt(v, b + 3))]

(* C and Rust: two coefficients in a byte, then four blocks in a byte.     *)
ReconcileAlice(v) ==
  [x \in 0..(HintBytes - 1) |->
     IF x < N \div 2 THEN CoFine(v[2*x]) + 16 * CoFine(v[2*x + 1])
     ELSE LET b == 4 * (x - N \div 2)
          IN  SpectralPair(BlockAt(v, b)) + 4 * SpectralPair(BlockAt(v, b + 1))
              + 16 * SpectralPair(BlockAt(v, b + 2)) + 64 * SpectralPair(BlockAt(v, b + 3))]

(* C++: one byte for a block, made of the sum of its buckets and of the    *)
(* last bits of two sums and two differences; the rest stays as it was.    *)
BlockHintCpp(b) ==
  LET part(j) == (8 * Positive(b[j]) + Q \div 2) \div Q
      bucket == part(0) + part(1) + part(2) + part(3)
      parity(j) == 3 * ((Positive(b[2*j]) + Positive(b[2*j + 1])) % 2)
  IN  (bucket % 16) + 16 * (parity(0) + 4 * parity(1))

ReconcileAliceCpp(v, before) ==
  [x \in 0..(HintBytes - 1) |-> IF x \in Blocks THEN BlockHintCpp(BlockAt(v, x)) ELSE before]

Hints(v, before) ==
  IF lang = "C++" THEN ReconcileAliceCpp(v, before) ELSE ReconcileAlice(v)

-----------------------------------------------------------------------------
(* Mutant of Tolerance: the noise of a sum is taken for that of one of its *)
(* coefficients.                                                           *)
ToleranceOfOne == 16

Tolerance == 64
Small(s) == s < Tolerance /\ -s < Tolerance
Signum(s) == IF s > 0 THEN 1 ELSE IF s < 0 THEN -1 ELSE 0

BucketsNear(a, b) ==
  \A x \in Coefficients : CoarseBucket(a[x]) - CoarseBucket(b[x]) \in {-1, 0, 1}

ParityOkC(s, t) == (s >= 0 <=> t >= 0) \/ (Small(s) /\ Small(t))
ParityOkRust(s, t) == Signum(s) = Signum(t) \/ (Small(s) /\ Small(t))

ReconcileVerifyC(a, b) ==
  /\ BucketsNear(a, b)
  /\ \A x \in Blocks : /\ ParityOkC(S0(BlockAt(a, x)), S0(BlockAt(b, x)))
                       /\ ParityOkC(S1(BlockAt(a, x)), S1(BlockAt(b, x)))

ReconcileVerifyRust(a, b) ==
  /\ BucketsNear(a, b)
  /\ \A x \in Blocks : /\ ParityOkRust(S0(BlockAt(a, x)), S0(BlockAt(b, x)))
                       /\ ParityOkRust(S1(BlockAt(a, x)), S1(BlockAt(b, x)))

ReconcileVerifyCpp(a, b) == ReconcileAliceCpp(a, 0) = ReconcileAliceCpp(b, 0)

-----------------------------------------------------------------------------
PseudoPoly(w) ==
  [x \in Coefficients |-> IF lang = "Rust" THEN CoefficientRust(w[x]) ELSE Coefficient(w[x])]

Init ==
  /\ lang \in {"C", "Rust", "C++"} /\ pc = "derive"
  /\ \E w \in Words, e \in Noises :
       /\ va = PseudoPoly(w)
       /\ vb = [x \in Coefficients |-> PseudoPoly(w)[x] + e[x % 4]]
  /\ ha = << >> /\ hb = << >> /\ accepted = FALSE

(* The hints that enter the two final keys.                                *)
Derive ==
  /\ pc = "derive" /\ pc' = "verify"
  /\ \E s \in Stale : ha' = Hints(va, s)
  /\ \E s \in Stale : hb' = Hints(vb, s)
  /\ UNCHANGED << lang, va, vb, accepted >>

Verify ==
  /\ pc = "verify" /\ pc' = "verified"
  /\ accepted' = CASE lang = "C" -> ReconcileVerifyC(va, vb)
                   [] lang = "Rust" -> ReconcileVerifyRust(va, vb)
                   [] lang = "C++" -> ReconcileVerifyCpp(va, vb)
  /\ UNCHANGED << lang, va, vb, ha, hb >>

Next == Derive \/ Verify

Spec == Init /\ [][Next]_vars

-----------------------------------------------------------------------------
(* The four bits of a coefficient, read back from the hints.               *)
Nibble(h, x) == (h[x \div 2] \div (IF x % 2 = 0 THEN 1 ELSE 16)) % 16

(* However a coefficient is rounded on its way to a bucket and a half of   *)
(* it, and wherever its bits are packed, a larger coefficient never has    *)
(* smaller bits, and the next coefficient has the same or the next ones    *)
(* (only the first bucket is ever halved).                                 *)
HintsAreMonotone ==
  pc \in {"verify", "verified"} /\ lang # "C++" =>
    \A x \in Coefficients :
      Positive(va[x]) <= Positive(vb[x]) =>
        /\ Nibble(ha, x) <= Nibble(hb, x)
        /\ Positive(vb[x]) - Positive(va[x]) <= 1 => Nibble(hb, x) - Nibble(ha, x) <= 2

(* Noise that moves every coefficient by less than 16 and none around 0,   *)
(* where the first bucket meets the last one, passes the tolerances of the *)
(* verifiers of C and Rust.                                                *)
NoWrap == \A x \in Coefficients : va[x] \in 0..(Q - 1) /\ vb[x] \in 0..(Q - 1)
SmallNoise == \A x \in Coefficients : vb[x] - va[x] \in -15..15

NoiseTolerated ==
  pc = "verified" /\ lang # "C++" /\ NoWrap /\ SmallNoise => accepted

(* Polynomials whose written hints are equal are accepted, with one        *)
(* exception: Rust tells a sum of 0 from a positive one, the bits do not.  *)
ZeroAgainstLarge(s, t) == (s = 0 /\ t >= Tolerance) \/ (t = 0 /\ s >= Tolerance)

EqualHintsAccepted ==
  pc = "verified" /\ ha = hb =>
    accepted <=> ~ (lang = "Rust" /\ \E x \in Blocks :
                      \/ ZeroAgainstLarge(S0(BlockAt(va, x)), S0(BlockAt(vb, x)))
                      \/ ZeroAgainstLarge(S1(BlockAt(va, x)), S1(BlockAt(vb, x))))

(* What tests/cli_test.cpp asserts of the final keys ("final_key_agree-    *)
(* ment"), of which the hints are a part: from the same secret both ends   *)
(* get the same hints.                                                     *)
SameHints == pc \in {"verify", "verified"} /\ va = vb => ha = hb

=============================================================================
