--------------------------- MODULE LayeredMerkle ----------------------------
(***************************************************************************)
(* The Merkle commitments of merkle.rs and merkle.cpp, which keep a vector *)
(* for every layer.  They differ in what becomes of the last node of an    *)
(* odd layer; but the tree of C++ is always over one polynomial, whose     *)
(* length is a power of two, so it never has such a layer.                 *)
(***************************************************************************)
EXTENDS Naturals, Sequences

CONSTANTS Arrays, Values      (* as in Merkle                              *)

VARIABLES
  lang,         (* the implementation                                    *)
  pc,           (* what runs                                             *)
  coeffs,       (* the array                                             *)
  layers,       (* the layers, from the leaves up                        *)
  opened,       (* the index a proof is generated for                    *)
  steps,        (* the hashes of the proof                               *)
  idx,          (* position in the current layer                         *)
  claim,        (* index and coeff that the verifier is given            *)
  taken,        (* how many steps the verifier has taken                 *)
  current,      (* the hash it has arrived at                            *)
  answer        (* what it returned                                      *)

vars == << lang, pc, coeffs, layers, opened, steps, idx, claim, taken, current, answer >>

LeafHash(index, coeff) == << "leaf", index, coeff >>
NodeHash(left, right) == << "node", left, right >>

n == Len(coeffs)
Top == layers[Len(layers)]
Root == Top[1]

(* Lengths that are halved down to 1: every factor but 1 is even.          *)
PowerOfTwo(m) == \A d \in 2..m, e \in 1..m : m = d * e => d % 2 = 0

Init ==
  /\ lang \in {"Rust", "C++"} /\ pc = "layer"
  /\ coeffs \in Arrays /\ n > 0
  /\ lang = "C++" => PowerOfTwo(n)
  /\ layers = << [x \in 1..n |-> LeafHash(x - 1, coeffs[x])] >>
  /\ opened = 0 /\ steps = << >> /\ idx = 0
  /\ claim = [index |-> 0, coeff |-> 0]
  /\ taken = 0 /\ current = << >> /\ answer = "none"

LastNode(x) == IF lang = "C++" THEN x ELSE NodeHash(x, x)

(* Mutant of NextLayer: nodes are paired with those across the middle.     *)
NextLayerFolded ==
  [x \in 1..((Len(Top) + 1) \div 2) |->
     IF 2 * x <= Len(Top) THEN NodeHash(Top[x], Top[x + Len(Top) \div 2])
                          ELSE LastNode(Top[2*x - 1])]

NextLayer ==
  [x \in 1..((Len(Top) + 1) \div 2) |->
     IF 2 * x <= Len(Top) THEN NodeHash(Top[2*x - 1], Top[2*x])
                          ELSE LastNode(Top[2*x - 1])]

BuildLayer ==
  /\ pc = "layer"
  /\ IF Len(Top) > 1 THEN layers' = Append(layers, NextLayer) /\ UNCHANGED pc
                     ELSE pc' = "layered" /\ UNCHANGED layers
  /\ UNCHANGED << lang, coeffs, opened, steps, idx, claim, taken, current, answer >>

BeginProof ==
  /\ pc = "layered" /\ pc' = "open"
  /\ opened' \in 0..(n - 1) /\ idx' = opened'
  /\ steps' = << >>
  /\ UNCHANGED << lang, coeffs, layers, claim, taken, current, answer >>

ProveLayer ==
  /\ pc = "open" /\ Len(steps) + 1 < Len(layers)
  /\ LET layer == layers[Len(steps) + 1]
         sibling == IF idx % 2 = 0 THEN idx + 1 ELSE idx - 1
     IN  steps' = Append(steps, layer[1 + (IF sibling < Len(layer) THEN sibling ELSE idx)])
  /\ idx' = idx \div 2
  /\ UNCHANGED << lang, pc, coeffs, layers, opened, claim, taken, current, answer >>

BeginVerify ==
  /\ pc = "open" /\ Len(steps) + 1 = Len(layers)
  /\ pc' = "check"
  /\ \E x \in 0..(n + 1), v \in Values : claim' = [index |-> x, coeff |-> v]
  /\ current' = LeafHash(claim'.index, claim'.coeff)
  /\ idx' = claim'.index /\ taken' = 0
  /\ UNCHANGED << lang, coeffs, layers, opened, steps, answer >>

VerifyStep ==
  /\ pc = "check" /\ taken < Len(steps)
  /\ LET other == steps[taken + 1]
     IN  current' = IF idx % 2 = 0 THEN NodeHash(current, other) ELSE NodeHash(other, current)
  /\ idx' = idx \div 2 /\ taken' = taken + 1
  /\ UNCHANGED << lang, pc, coeffs, layers, opened, steps, claim, answer >>

VerifyEnd ==
  /\ pc = "check" /\ taken = Len(steps)
  /\ pc' = "answered"
  /\ answer' = IF current = Root THEN "ok" ELSE "err"
  /\ UNCHANGED << lang, coeffs, layers, opened, steps, idx, claim, taken, current >>

Next ==
  \/ BuildLayer \/ BeginProof \/ ProveLayer
  \/ BeginVerify \/ VerifyStep \/ VerifyEnd

Spec == Init /\ [][Next]_vars

=============================================================================
