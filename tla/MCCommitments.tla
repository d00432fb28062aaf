--------------------------- MODULE MCCommitments ----------------------------
(***************************************************************************)
(* The commitments for TLC: a behaviour builds, opens and verifies a       *)
(* Merkle tree in C (module Merkle) or in Rust or C++ (LayeredMerkle), or  *)
(* commits to an identity (Trapdoor).                                      *)
(***************************************************************************)
EXTENDS Merkle, Integers

CONSTANTS N, Q, Byte, Languages, Noise, Ids

VARIABLES part, lang, layers,
          stage, authority, t, id, commit, claimed, target, result

flatVars == << cur, buf, layer_counts, offset >>
treeVars == << pc, coeffs, opened, steps, idx, claim, taken, current, answer >>
identityVars == << stage, authority, t, id, commit, claimed, target, result >>
all == << part, lang, layers, flatVars, treeVars, identityVars >>

Layered == INSTANCE LayeredMerkle

-----------------------------------------------------------------------------
(* Polynomials of four coefficients, among them those whose products come  *)
(* as near to half of the modulus as any.                                  *)
Poly(a, b, c, d) ==
  [x \in 0..3 |-> CASE x = 0 -> a [] x = 1 -> b [] x = 2 -> c [] x = 3 -> d]
MCNoise == {Poly(2, 2, 2, 2), Poly(2, -2, -2, -2), Poly(-1, 0, 2, 1), Poly(0, 0, 0, -1)}
MCIds == {[x \in 0..1 |-> IF x = 0 THEN a ELSE b] : a, b \in {0, 3}}

Identity == INSTANCE Trapdoor

ASSUME RingOfThisSize == Identity!TrapdoorAssumption

Bits == {0, 1}
AllSmall == UNION {[1..m -> Bits] : m \in 0..4}
Striped == {[i \in 1..m |-> i % 2] : m \in 5..11}
MCArrays == AllSmall \cup Striped

NoIdentity ==
  /\ stage = "none" /\ authority = << >> /\ t = << >> /\ id = << >>
  /\ commit = << >> /\ claimed = << >> /\ target = << >> /\ result = "none"

NoFlatTree == cur = << >> /\ buf = << >> /\ layer_counts = << >> /\ offset = 0

MCInit ==
  \/ part = "flat" /\ Init /\ lang = "C" /\ layers = << >> /\ NoIdentity
  \/ /\ part = "layered" /\ Layered!Init
     /\ NoFlatTree /\ NoIdentity
  \/ /\ part = "identity" /\ Identity!Init
     /\ NoFlatTree /\ layers = << >>
     /\ coeffs = << >> /\ pc = "none" /\ opened = 0 /\ steps = << >> /\ idx = 0
     /\ claim = [index |-> 0, coeff |-> 0] /\ taken = 0 /\ current = << >>
     /\ answer = "none"

MCNext ==
  \/ part = "flat" /\ Next /\ UNCHANGED << part, lang, layers, identityVars >>
  \/ part = "layered" /\ Layered!Next /\ UNCHANGED << part, flatVars, identityVars >>
  \/ part = "identity" /\ Identity!Next /\ UNCHANGED << part, layers, flatVars, treeVars >>

MCSpec == MCInit /\ [][MCNext]_all

-----------------------------------------------------------------------------
(* The authority's basis is in the kernel of its row (see Trapdoor).       *)
KernelExact == part = "identity" => Identity!KernelExact

(* The verified identity is the one in u (see Trapdoor).                   *)
AnswerIsTheAlgebra == part = "identity" => Identity!AnswerIsTheAlgebra

(* The target is the image of t in every language (see Trapdoor).          *)
TargetIsTheImage == part = "identity" => Identity!TargetIsTheImage

=============================================================================
