---------------------------- MODULE ShuffledNTT -----------------------------
(***************************************************************************)
(* The transforms of ntt.c as threads of one process run them: one         *)
(* butterfly at a time, in an order that a Feistel network derives from    *)
(* g_ntt_seed, one static variable of the whole process.  Every KEM        *)
(* operation stores a seed of its own there (td18_ntt_seed) and every      *)
(* transform reads it once, when it begins: a session may run its          *)
(* transforms with seeds that other sessions stored, and td18_ntt and the  *)
(* td18_invntt after it with different ones.                               *)
(*                                                                         *)
(* In C and C++ the variable is a plain uint64_t, so a load or a store     *)
(* that meets another thread's store is a data race: what it yields is any *)
(* seed.  In Rust it is an AtomicU64.                                      *)
(***************************************************************************)
EXTENDS NttRing

CONSTANTS
  Sessions,   (* the threads                                             *)
  Inputs,     (* the polynomials they may transform                      *)
  Operand,    (* the polynomial by which they are multiplied             *)
  Seeds,      (* the values of g_ntt_seed                                *)
  RoundKey,   (* the four round keys of each seed, see module NttRing    *)
  AtomicSeed, (* whether g_ntt_seed is atomic, as in ntt.rs              *)
  SeedAtStart (* the initializer of g_ntt_seed                           *)

ASSUME InputAssumption == Inputs \subseteq [Indices -> Int]

(* Callers transform reduced polynomials and the roots of ZETAS are        *)
(* centred; the sums of the layers fit an int16_t.                         *)
Below(x, limit) == -limit < x /\ x < limit

ASSUME BoundAssumption ==
  /\ MaxBits * Q < 32768
  /\ \A i \in 1..((RingSize \div 2) - 1) : Below(Zeta[i], 1665)
  /\ Below(InvF, Q)
  /\ \A i \in Indices : Below(OperandHat[i], Q)
  /\ \A f \in Inputs : \A i \in Indices : Below(f[i], Q)

(* What makes the table of ntt.c a table of roots: every element, without  *)
(* its factor 2^16, is a square root of the one that divides the block it  *)
(* splits, of -1 in the beginning; td18_invntt runs through a layer        *)
(* backwards and finds the negated inverses; the last layer leaves the     *)
(* roots of the pairs; and F divides by N/2 and by both factors 2^16.      *)
Mont == 65536 % Q
Equal(a, b) == (a - b) % Q = 0

ASSUME TableAssumption ==
  /\ Equal(Zeta[1] * Zeta[1], -Mont * Mont)
  /\ \A i \in 2..((RingSize \div 2) - 1) :
       Equal(Zeta[i] * Zeta[i], (IF i % 2 = 0 THEN Mont ELSE -Mont) * Zeta[i \div 2])
  /\ \A b \in 0..(MaxBits - 2) : \A q \in 0..(Pow2[b] - 1) :
       Equal(Zeta[Pow2[b] + q] * Zeta[2 * Pow2[b] - 1 - q], -Mont * Mont)
  /\ \A p \in 0..((RingSize \div 2) - 1) :
       /\ Powers[PairExponent(RingSize, p)] \in Int
       /\ Equal(Mont * Powers[PairExponent(RingSize, p)],
                (IF p % 2 = 0 THEN 1 ELSE -1) * Zeta[(RingSize \div 4) + (p \div 2)])
  /\ Equal(InvF * (RingSize \div 2), Mont * Mont)

ASSUME OperandAssumption ==
  /\ Operand \in [Indices -> Int]
  /\ LET transform == ReferenceNtt(Operand, RingSize)
     IN  \A i \in Indices : Equal(OperandHat[i], transform[i])

ASSUME SeedAssumption ==
  /\ SeedAtStart \in Seeds
  /\ AtomicSeed \in BOOLEAN
  /\ \A v \in Seeds : RoundKey[v] \in [1..4 -> Nat]

VARIABLES
  g_ntt_seed, (* the seed shared by all sessions                         *)
  pc,         (* what the session does next                              *)
  own,        (* the seed the session stores for its operation           *)
  seed,       (* the local copy made when a transform begins             *)
  r,          (* the coefficient array being transformed in place        *)
  bits,       (* log2 of len, the number of butterflies in a block       *)
  start,      (* first element of the current block                      *)
  k,          (* index in ZETAS of the root of the current block         *)
  idx,        (* number of butterflies of the block already done         *)
  base,       (* history: r as it was when the current block began       *)
  input       (* history: r as it was in the beginning                   *)

vars == << g_ntt_seed, pc, own, seed, r, bits, start, k, idx, base, input >>
loop == << bits, start, k, idx >>

Phases == {"call", "storing", "ready", "ntt", "reduce", "product", "inv_ready",
           "invntt", "scale", "done"}

TypeOK ==
  /\ g_ntt_seed \in Seeds
  /\ pc \in [Sessions -> Phases]
  /\ own \in [Sessions -> Seeds]
  /\ seed \in [Sessions -> Seeds]
  /\ r \in [Sessions -> [Indices -> Int]]
  /\ bits \in [Sessions -> 1..(MaxBits - 1)]
  /\ start \in [Sessions -> Nat]
  /\ k \in [Sessions -> Nat]
  /\ idx \in [Sessions -> Nat]
  /\ base \in [Sessions -> [Indices -> Int]]
  /\ input \in [Sessions -> Inputs]

Init ==
  /\ g_ntt_seed = SeedAtStart
  /\ pc = [s \in Sessions |-> "call"]
  /\ own = [s \in Sessions |-> SeedAtStart]
  /\ seed = [s \in Sessions |-> SeedAtStart]
  /\ input \in [Sessions -> Inputs]
  /\ r = input
  /\ bits = [s \in Sessions |-> MaxBits - 1]
  /\ start = [s \in Sessions |-> 0]
  /\ k = [s \in Sessions |-> 1]
  /\ idx = [s \in Sessions |-> 0]
  /\ base = input

HalfBlock(s) == Pow2[bits[s]]
Move(s, from, to) == pc[s] = from /\ pc' = [pc EXCEPT ![s] = to]

(* The values a load or a store of g_ntt_seed by session s may yield when  *)
(* it should yield v: any seed while another session is storing.           *)
Raced(s, v) ==
  IF ~AtomicSeed /\ \E t \in Sessions \ {s} : pc[t] = "storing" THEN Seeds ELSE {v}

-----------------------------------------------------------------------------
(* td18_ntt_seed, called first thing by every KEM operation: the store     *)
(* begins and ends.                                                        *)
BeginStoreSeed(s) ==
  /\ Move(s, "call", "storing")
  /\ \E v \in Seeds : own' = [own EXCEPT ![s] = v]
  /\ UNCHANGED << g_ntt_seed, seed, r, loop, base, input >>

(* Mutant of EndStoreSeed: a store that waits until no other is under way. *)
EndStoreSeedAlone(s) ==
  /\ Move(s, "storing", "ready")
  /\ \A t \in Sessions \ {s} : pc[t] # "storing"
  /\ g_ntt_seed' = own[s]
  /\ UNCHANGED << own, seed, r, loop, base, input >>

EndStoreSeed(s) ==
  /\ Move(s, "storing", "ready")
  /\ g_ntt_seed' \in Raced(s, own[s])
  /\ UNCHANGED << own, seed, r, loop, base, input >>

(* The head of td18_ntt: seed = g_ntt_seed and the loop variables.         *)
BeginNtt(s) ==
  /\ Move(s, "ready", "ntt")
  /\ \E v \in Raced(s, g_ntt_seed) : seed' = [seed EXCEPT ![s] = v]
  /\ bits' = [bits EXCEPT ![s] = MaxBits - 1]
  /\ start' = [start EXCEPT ![s] = 0]
  /\ k' = [k EXCEPT ![s] = 1]
  /\ idx' = [idx EXCEPT ![s] = 0]
  /\ UNCHANGED << g_ntt_seed, own, r, base, input >>

(* The element j on which iteration x of the innermost loop works.         *)
Slot(s, x) == FeistelPermute(x, bits[s], RoundKey[seed[s]])
Element(s) == start[s] + Slot(s, idx[s])

(* The loop headers after an iteration: the next one of the same block ... *)
SameBlock(s) ==
  /\ idx[s] + 1 < HalfBlock(s)
  /\ idx' = [idx EXCEPT ![s] = @ + 1]
  /\ UNCHANGED << pc, bits, start, k, base >>

(* ... or the first of the next block of this layer, with the next root,   *)
NextBlock(s, nextk) ==
  /\ idx[s] + 1 = HalfBlock(s)
  /\ start[s] + 2 * HalfBlock(s) < RingSize
  /\ idx' = [idx EXCEPT ![s] = 0]
  /\ start' = [start EXCEPT ![s] = @ + 2 * HalfBlock(s)]
  /\ k' = [k EXCEPT ![s] = nextk]
  /\ base' = [base EXCEPT ![s] = r'[s]]
  /\ UNCHANGED << pc, bits >>

(* Mutant of LastBlock: the layers go on to blocks of one butterfly.       *)
LastBlockDownToOne(s, nextk, lastbits, nextbits, nextpc) ==
  /\ idx[s] + 1 = HalfBlock(s)
  /\ start[s] + 2 * HalfBlock(s) >= RingSize
  /\ idx' = [idx EXCEPT ![s] = 0]
  /\ start' = [start EXCEPT ![s] = 0]
  /\ k' = [k EXCEPT ![s] = nextk]
  /\ base' = [base EXCEPT ![s] = r'[s]]
  /\ \/ HalfBlock(s) >= 2 /\ bits' = [bits EXCEPT ![s] = nextbits] /\ UNCHANGED pc
     \/ HalfBlock(s) < 2 /\ pc' = [pc EXCEPT ![s] = nextpc] /\ UNCHANGED bits

(* ... or the first of the next layer, or the end of the transform.        *)
LastBlock(s, nextk, lastbits, nextbits, nextpc) ==
  /\ idx[s] + 1 = HalfBlock(s)
  /\ start[s] + 2 * HalfBlock(s) >= RingSize
  /\ idx' = [idx EXCEPT ![s] = 0]
  /\ start' = [start EXCEPT ![s] = 0]
  /\ k' = [k EXCEPT ![s] = nextk]
  /\ base' = [base EXCEPT ![s] = r'[s]]
  /\ \/ bits[s] # lastbits /\ bits' = [bits EXCEPT ![s] = nextbits] /\ UNCHANGED pc
     \/ bits[s] = lastbits /\ pc' = [pc EXCEPT ![s] = nextpc] /\ UNCHANGED bits

(* One iteration of the innermost loop of td18_ntt.                        *)
NttButterfly(s) ==
  /\ pc[s] = "ntt"
  /\ r' = [r EXCEPT ![s] = NttButterflyAt(@, Element(s), HalfBlock(s), Zeta[k[s]])]
  /\ \/ SameBlock(s)
     \/ NextBlock(s, k[s] + 1)
     \/ LastBlock(s, k[s] + 1, 1, bits[s] - 1, "reduce")
  /\ UNCHANGED << g_ntt_seed, own, seed, input >>

(* The rest of td18_poly_ntt.                                              *)
Reduce(s) ==
  /\ Move(s, "reduce", "product")
  /\ r' = [r EXCEPT ![s] = PolyReduce(@)]
  /\ base' = [base EXCEPT ![s] = r'[s]]
  /\ UNCHANGED << g_ntt_seed, own, seed, loop, input >>

(* td18_polyvec_basemul_acc_montgomery with vectors of one polynomial.     *)
Product(s) ==
  /\ Move(s, "product", "inv_ready")
  /\ r' = [r EXCEPT ![s] = PolyReduce(PolyBaseMul(@, OperandHat))]
  /\ base' = [base EXCEPT ![s] = r'[s]]
  /\ UNCHANGED << g_ntt_seed, own, seed, loop, input >>

(* Mutant of BeginInvNtt: the roots begin one too high.                    *)
BeginInvNttHigh(s) ==
  /\ Move(s, "inv_ready", "invntt")
  /\ \E v \in Raced(s, g_ntt_seed) : seed' = [seed EXCEPT ![s] = v]
  /\ bits' = [bits EXCEPT ![s] = 1]
  /\ start' = [start EXCEPT ![s] = 0]
  /\ k' = [k EXCEPT ![s] = RingSize \div 2]
  /\ idx' = [idx EXCEPT ![s] = 0]
  /\ UNCHANGED << g_ntt_seed, own, r, base, input >>

(* The head of td18_invntt, which reads the seed again.                    *)
BeginInvNtt(s) ==
  /\ Move(s, "inv_ready", "invntt")
  /\ \E v \in Raced(s, g_ntt_seed) : seed' = [seed EXCEPT ![s] = v]
  /\ bits' = [bits EXCEPT ![s] = 1]
  /\ start' = [start EXCEPT ![s] = 0]
  /\ k' = [k EXCEPT ![s] = (RingSize \div 2) - 1]
  /\ idx' = [idx EXCEPT ![s] = 0]
  /\ UNCHANGED << g_ntt_seed, own, r, base, input >>

(* One iteration of the innermost loop of td18_invntt.                     *)
InvButterfly(s) ==
  /\ pc[s] = "invntt"
  /\ r' = [r EXCEPT ![s] = InvButterflyAt(@, Element(s), HalfBlock(s), Zeta[k[s]])]
  /\ \/ SameBlock(s)
     \/ NextBlock(s, k[s] - 1)
     \/ LastBlock(s, k[s] - 1, MaxBits - 1, bits[s] + 1, "scale")
  /\ UNCHANGED << g_ntt_seed, own, seed, input >>

(* The last loop of td18_invntt.                                           *)
Scale(s) ==
  /\ Move(s, "scale", "done")
  /\ r' = [r EXCEPT ![s] = PolyScale(@)]
  /\ base' = [base EXCEPT ![s] = r'[s]]
  /\ UNCHANGED << g_ntt_seed, own, seed, loop, input >>

-----------------------------------------------------------------------------
Step(s) ==
  \/ BeginStoreSeed(s) \/ EndStoreSeed(s)
  \/ BeginNtt(s) \/ NttButterfly(s) \/ Reduce(s) \/ Product(s)
  \/ BeginInvNtt(s) \/ InvButterfly(s) \/ Scale(s)

Next == \E s \in Sessions : Step(s)

Spec == Init /\ [][Next]_vars

(* The threads are scheduled by the operating system, which starves none.  *)
FairSpec == Spec /\ \A s \in Sessions : WF_vars(Step(s))

-----------------------------------------------------------------------------
(* Number of blocks in the current layer.                                  *)
Blocks(s) == Pow2[MaxBits - 1 - bits[s]]

(* In both transforms the block that starts at start uses the root that    *)
(* belongs to it: k, which is only ever incremented (decremented) across   *)
(* layers, stays in step with start, which restarts in every layer, and so *)
(* never leaves the part 1..N/2-1 of ZETAS.  The butterfly counter stays   *)
(* inside the block.                                                       *)
RootAt(s) ==
  /\ pc[s] = "ntt" =>
       /\ k[s] \in Blocks(s)..(2 * Blocks(s) - 1)
       /\ start[s] = (k[s] - Blocks(s)) * (2 * HalfBlock(s))
  /\ pc[s] = "invntt" =>
       /\ k[s] \in Blocks(s)..(2 * Blocks(s) - 1)
       /\ start[s] = (2 * Blocks(s) - 1 - k[s]) * (2 * HalfBlock(s))
  /\ pc[s] \in {"ntt", "invntt"} => idx[s] < HalfBlock(s)

RootMatchesBlock == \A s \in Sessions : RootAt(s)

(* In the middle of a block exactly the butterflies at the slots already   *)
(* visited have been applied, each of them once and to the array as it was *)
(* before the block, whatever the seed: the shuffle neither repeats nor    *)
(* skips an element, and iterations do not feed each other.                *)
Visited(s) == {Slot(s, x) : x \in 0..(idx[s] - 1)}

Applied(whole, before, visited, first, len) ==
  [i \in Indices |-> IF i - first \in visited \/ i - first - len \in visited
                     THEN whole[i] ELSE before[i]]

PartialAt(s) ==
  /\ pc[s] = "ntt" =>
       r[s] = Applied(NttBlockAt(base[s], start[s], HalfBlock(s), Zeta[k[s]]),
                      base[s], Visited(s), start[s], HalfBlock(s))
  /\ pc[s] = "invntt" =>
       r[s] = Applied(InvBlockAt(base[s], start[s], HalfBlock(s), Zeta[k[s]]),
                      base[s], Visited(s), start[s], HalfBlock(s))
  /\ pc[s] \notin {"ntt", "invntt"} => r[s] = base[s]

PartialBlock == \A s \in Sessions : PartialAt(s)

(* The sums that td18_ntt keeps in an int16_t grow by at most Q a layer,   *)
(* and td18_invntt keeps every coefficient below Q: with coefficients      *)
(* below Q to begin with, no addition of the transforms wraps around.      *)
CoefficientBound ==
  \A s \in Sessions : \A i \in Indices :
    LET limit == CASE pc[s] = "ntt" -> (MaxBits - bits[s] + 1) * Q
                   [] pc[s] = "reduce" -> MaxBits * Q
                   [] OTHER -> Q
    IN  limit < 32768 /\ Below(r[s][i], limit)

Congruent(f, g) == \A i \in Indices : Equal(f[i], g[i])

(* What a session computes is the transform and the product of its input,  *)
(* by their definitions, in whatever order the butterflies ran.            *)
ForwardCorrect ==
  \A s \in Sessions :
    pc[s] = "product" => Congruent(r[s], ReferenceNtt(input[s], RingSize))

ProductCorrect ==
  \A s \in Sessions :
    pc[s] = "done" => Congruent(r[s], ReferenceProduct(input[s], Operand, RingSize))

(* The loops, run with whatever seeds the sessions store and race on,      *)
(* implement the transforms that know no seed and no order.                *)
Ordered == INSTANCE OrderedNTT WITH
             pc <- [s \in Sessions |->
                      IF pc[s] \in {"call", "storing"} THEN "ready" ELSE pc[s]],
             r <- base

ImplementsOrdered == Ordered!Spec

(* Every session gets its product.                                         *)
Termination == \A s \in Sessions : <>(pc[s] = "done")

=============================================================================
