------------------------------- MODULE Merkle -------------------------------
(***************************************************************************)
(* The Merkle commitment of merkle.c: a tree over an array of              *)
(* coefficients, built layer by layer into one flat buffer; a proof of one *)
(* element, read out of that buffer with running offsets; and its          *)
(* verification.  In a layer with an odd number of nodes the last one is   *)
(* hashed with itself.                                                     *)
(*                                                                         *)
(* Hashes are terms: SHA3 is taken to be injective, and the inputs of      *)
(* hash_leaf and hash_node have different lengths.                         *)
(***************************************************************************)
EXTENDS Naturals, Sequences

CONSTANTS
  Arrays,     (* the arrays that are committed to: sequences             *)
  Values,     (* the coefficients: of arrays, and those that are claimed *)
  MaxSteps    (* length of steps in td18_merkle_proof                    *)

ASSUME MerkleAssumption == Arrays \subseteq Seq(Values) /\ MaxSteps \in Nat

VARIABLES
  pc,           (* which loop is running                                 *)
  coeffs,       (* the array, from index 0 on as in the code             *)
  cur,          (* the layer being built                                 *)
  buf,          (* the flat buffer of all layers                         *)
  layer_counts, (* the number of nodes in each layer                     *)
  opened,       (* the index a proof is generated for                    *)
  steps,        (* the hashes of the proof                               *)
  idx,          (* position in the current layer                         *)
  offset,       (* where the current layer begins in buf                 *)
  claim,        (* index and coeff of td18_merkle_verify                 *)
  taken,        (* i of td18_merkle_verify: how many steps it has taken  *)
  current,      (* the hash the verifier has arrived at                  *)
  answer        (* what the verifier returned                            *)

vars == << pc, coeffs, cur, buf, layer_counts, opened, steps, idx, offset,
           claim, taken, current, answer >>
tree == << cur, buf, layer_counts >>

(* The powers of two.                                                      *)
TwoTo[k \in Nat] == IF k = 0 THEN 1 ELSE 2 * TwoTo[k - 1]

HashLeaf(index, coeff) == << "leaf", index, coeff >>
HashNode(left, right) == << "node", left, right >>

n == Len(coeffs)
CoeffAt(i) == coeffs[i + 1]

-----------------------------------------------------------------------------
(* Mutant of LayersNeeded: half of an odd layer is rounded down.           *)
LayersNeededFloor ==
  LET count[m \in Nat] == IF m <= 1 THEN 1 ELSE 1 + count[m \div 2]
  IN  count[n]

(* max_layers and max_total: what is allocated for an array.               *)
LayersNeeded ==
  LET count[m \in Nat] == IF m <= 1 THEN 1 ELSE 1 + count[(m + 1) \div 2]
  IN  count[n]

NodesNeeded ==
  LET count[m \in Nat] == IF m <= 1 THEN m ELSE m + count[(m + 1) \div 2]
  IN  count[n]

(* Mutant of NextLayer: the last node of an odd layer moves up as it is.   *)
NextLayerPromoted ==
  [i \in 1..((Len(cur) + 1) \div 2) |->
     IF 2 * i <= Len(cur) THEN HashNode(cur[2*i - 1], cur[2*i]) ELSE cur[2*i - 1]]

NextLayer ==
  [i \in 1..((Len(cur) + 1) \div 2) |->
     HashNode(cur[2*i - 1], IF 2 * i <= Len(cur) THEN cur[2*i] ELSE cur[2*i - 1])]

-----------------------------------------------------------------------------
Init ==
  /\ pc = "build"
  /\ coeffs \in Arrays
  /\ cur = [i \in 1..n |-> HashLeaf(i - 1, CoeffAt(i - 1))]
  /\ buf = << >> /\ layer_counts = << >>
  /\ opened = 0 /\ steps = << >> /\ idx = 0 /\ offset = 0
  /\ claim = [index |-> 0, coeff |-> 0]
  /\ taken = 0 /\ current = << >>
  /\ answer = "none"

(* One round of the loop that builds the layers, until one node is left.   *)
BuildLayer ==
  /\ pc = "build"
  /\ cur # << >>
  /\ buf' = buf \o cur
  /\ layer_counts' = Append(layer_counts, Len(cur))
  /\ IF Len(cur) = 1 THEN pc' = "built" /\ UNCHANGED cur
                     ELSE cur' = NextLayer /\ UNCHANGED pc
  /\ UNCHANGED << coeffs, opened, steps, idx, offset, claim, taken, current, answer >>

(* An empty array has no layer.                                            *)
BuildNothing ==
  /\ pc = "build" /\ cur = << >>
  /\ pc' = "empty"
  /\ UNCHANGED << tree, coeffs, opened, steps, idx, offset, claim, taken, current, answer >>

(* td18_merkle_proof_generate, which its callers give an index of the      *)
(* array ...                                                               *)
BeginProof ==
  /\ pc = "built" /\ pc' = "prove"
  /\ opened' \in 0..(n - 1)
  /\ idx' = opened'
  /\ offset' = 0 /\ steps' = << >>
  /\ UNCHANGED << tree, coeffs, claim, taken, current, answer >>

(* Mutant of Sibling: the last node of an odd layer has no exception.      *)
SiblingBeyond(i, count) == IF i % 2 = 0 THEN i + 1 ELSE i - 1

Sibling(i, count) ==
  LET other == IF i % 2 = 0 THEN i + 1 ELSE i - 1
  IN  IF other >= count THEN i ELSE other

(* ... one step for every layer below the root.                            *)
ProveLayer ==
  /\ pc = "prove"
  /\ Len(steps) + 1 < Len(layer_counts)
  /\ LET count == layer_counts[Len(steps) + 1]
     IN  /\ steps' = Append(steps, buf[offset + Sibling(idx, count) + 1])
         /\ offset' = offset + count
  /\ idx' = idx \div 2
  /\ UNCHANGED << pc, tree, coeffs, opened, claim, taken, current, answer >>

(* td18_merkle_verify of any claim, with the proof that was generated.     *)
BeginVerify ==
  /\ pc = "prove" /\ Len(steps) + 1 = Len(layer_counts)
  /\ pc' = "verify"
  /\ \E i \in 0..(n + 1), v \in Values : claim' = [index |-> i, coeff |-> v]
  /\ current' = HashLeaf(claim'.index, claim'.coeff)
  /\ idx' = claim'.index
  /\ taken' = 0
  /\ UNCHANGED << tree, coeffs, opened, steps, offset, answer >>

(* Mutant of VerifyStep: the two hashes always keep their order.           *)
VerifyStepUnordered ==
  /\ pc = "verify" /\ taken < Len(steps)
  /\ current' = HashNode(current, steps[taken + 1])
  /\ idx' = idx \div 2
  /\ taken' = taken + 1
  /\ UNCHANGED << pc, tree, coeffs, opened, steps, offset, claim, answer >>

VerifyStep ==
  /\ pc = "verify" /\ taken < Len(steps)
  /\ current' = IF idx % 2 = 0 THEN HashNode(current, steps[taken + 1])
                               ELSE HashNode(steps[taken + 1], current)
  /\ idx' = idx \div 2
  /\ taken' = taken + 1
  /\ UNCHANGED << pc, tree, coeffs, opened, steps, offset, claim, answer >>

(* The comparison with the root, the last node of the buffer.              *)
VerifyEnd ==
  /\ pc = "verify" /\ taken = Len(steps)
  /\ pc' = "done"
  /\ answer' = IF current = buf[Len(buf)] THEN "ok" ELSE "err"
  /\ UNCHANGED << tree, coeffs, opened, steps, idx, offset, claim, taken, current >>

Next ==
  \/ BuildLayer \/ BuildNothing
  \/ BeginProof \/ ProveLayer
  \/ BeginVerify \/ VerifyStep \/ VerifyEnd

Spec == Init /\ [][Next]_vars

-----------------------------------------------------------------------------
(* Nothing is written beyond what was allocated or declared: the layers    *)
(* fit layer_counts and buf, which are sized by a loop of their own, and   *)
(* the proof of an array of at most TwoTo[MaxSteps] elements fits steps.   *)
AllocationsSuffice ==
  /\ Len(layer_counts) <= LayersNeeded
  /\ Len(buf) <= NodesNeeded
  /\ pc = "build" => Len(buf) + Len(cur) <= NodesNeeded
  /\ n <= TwoTo[MaxSteps] => Len(steps) <= MaxSteps
  /\ pc = "built" => Len(layer_counts) = LayersNeeded /\ Len(buf) = NodesNeeded

(* Where layer l begins in buf.                                            *)
LayerStart(l) ==
  LET start[m \in 0..Len(layer_counts)] ==
        IF m = 0 THEN 0 ELSE start[m - 1] + layer_counts[m]
  IN  start[l]

(* With the claim that the proof was made for, the verifier arrives at the *)
(* nodes of the path from the leaf to the root, in layer after layer.      *)
FollowsPath ==
  pc \in {"verify", "done"} /\ claim = [index |-> opened, coeff |-> CoeffAt(opened)] =>
    current = buf[LayerStart(taken) + (opened \div TwoTo[taken]) + 1]

(* Proofs convince the verifier of what is true, and of nothing else.      *)
Commitment == INSTANCE CommittedArray WITH coeffs <- [i \in 0..(n - 1) |-> CoeffAt(i)]

ImplementsCommitment == Commitment!Spec

=============================================================================
