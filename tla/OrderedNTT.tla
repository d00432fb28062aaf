---------------------------- MODULE OrderedNTT ------------------------------
(***************************************************************************)
(* What the transforms of ntt.c promise: every session multiplies its      *)
(* polynomial by a fixed one, and the transforms work block by block.  A   *)
(* block is one step, all of whose butterflies read the array as it was    *)
(* before the block; there is no seed and no order inside a block.         *)
(* ShuffledNTT, the loops as the code runs them, implements this module.   *)
(***************************************************************************)
EXTENDS NttRing

CONSTANTS
  Sessions,   (* the callers of the library                              *)
  Inputs      (* the polynomials they may transform                      *)

VARIABLES
  pc,         (* what the session does next                              *)
  r,          (* its coefficient array                                   *)
  bits,       (* log2 of len, the number of butterflies in a block       *)
  start,      (* first element of the current block                      *)
  k           (* index in ZETAS of the root of the current block         *)

vars == << pc, r, bits, start, k >>

TypeOK ==
  /\ pc \in [Sessions -> {"ready", "ntt", "reduce", "product", "inv_ready",
                          "invntt", "scale", "done"}]
  /\ r \in [Sessions -> [Indices -> Int]]
  /\ bits \in [Sessions -> 1..(MaxBits - 1)]
  /\ start \in [Sessions -> Nat]
  /\ k \in [Sessions -> Nat]

Init ==
  /\ pc = [s \in Sessions |-> "ready"]
  /\ r \in [Sessions -> Inputs]
  /\ bits = [s \in Sessions |-> MaxBits - 1]
  /\ start = [s \in Sessions |-> 0]
  /\ k = [s \in Sessions |-> 1]

HalfBlock(s) == Pow2[bits[s]]
Move(s, from, to) == pc[s] = from /\ pc' = [pc EXCEPT ![s] = to]

-----------------------------------------------------------------------------
BeginNtt(s) ==
  /\ Move(s, "ready", "ntt")
  /\ bits' = [bits EXCEPT ![s] = MaxBits - 1]
  /\ start' = [start EXCEPT ![s] = 0]
  /\ k' = [k EXCEPT ![s] = 1]
  /\ UNCHANGED r

(* One block of td18_ntt; the layers have blocks of half the size.         *)
NttBlock(s) ==
  /\ pc[s] = "ntt"
  /\ r' = [r EXCEPT ![s] = NttBlockAt(r[s], start[s], HalfBlock(s), Zeta[k[s]])]
  /\ k' = [k EXCEPT ![s] = @ + 1]
  /\ \/ /\ start[s] + 2 * HalfBlock(s) < RingSize
        /\ start' = [start EXCEPT ![s] = @ + 2 * HalfBlock(s)]
        /\ UNCHANGED << bits, pc >>
     \/ /\ start[s] + 2 * HalfBlock(s) >= RingSize
        /\ start' = [start EXCEPT ![s] = 0]
        /\ \/ /\ bits[s] > 1
              /\ bits' = [bits EXCEPT ![s] = @ - 1]
              /\ UNCHANGED pc
           \/ /\ bits[s] = 1
              /\ pc' = [pc EXCEPT ![s] = "reduce"]
              /\ UNCHANGED bits

Reduce(s) ==
  /\ Move(s, "reduce", "product")
  /\ r' = [r EXCEPT ![s] = PolyReduce(@)]
  /\ UNCHANGED << bits, start, k >>

Product(s) ==
  /\ Move(s, "product", "inv_ready")
  /\ r' = [r EXCEPT ![s] = PolyReduce(PolyBaseMul(@, OperandHat))]
  /\ UNCHANGED << bits, start, k >>

BeginInvNtt(s) ==
  /\ Move(s, "inv_ready", "invntt")
  /\ bits' = [bits EXCEPT ![s] = 1]
  /\ start' = [start EXCEPT ![s] = 0]
  /\ k' = [k EXCEPT ![s] = (RingSize \div 2) - 1]
  /\ UNCHANGED r

(* One block of td18_invntt; the layers have blocks of twice the size.     *)
InvBlock(s) ==
  /\ pc[s] = "invntt"
  /\ r' = [r EXCEPT ![s] = InvBlockAt(r[s], start[s], HalfBlock(s), Zeta[k[s]])]
  /\ k' = [k EXCEPT ![s] = @ - 1]
  /\ \/ /\ start[s] + 2 * HalfBlock(s) < RingSize
        /\ start' = [start EXCEPT ![s] = @ + 2 * HalfBlock(s)]
        /\ UNCHANGED << bits, pc >>
     \/ /\ start[s] + 2 * HalfBlock(s) >= RingSize
        /\ start' = [start EXCEPT ![s] = 0]
        /\ \/ /\ bits[s] < MaxBits - 1
              /\ bits' = [bits EXCEPT ![s] = @ + 1]
              /\ UNCHANGED pc
           \/ /\ bits[s] = MaxBits - 1
              /\ pc' = [pc EXCEPT ![s] = "scale"]
              /\ UNCHANGED bits

Scale(s) ==
  /\ Move(s, "scale", "done")
  /\ r' = [r EXCEPT ![s] = PolyScale(@)]
  /\ UNCHANGED << bits, start, k >>

-----------------------------------------------------------------------------
Step(s) ==
  \/ BeginNtt(s) \/ NttBlock(s) \/ Reduce(s) \/ Product(s)
  \/ BeginInvNtt(s) \/ InvBlock(s) \/ Scale(s)

Next == \E s \in Sessions : Step(s)

Spec == Init /\ [][Next]_vars

=============================================================================
