--------------------------- MODULE CommittedArray ---------------------------
(***************************************************************************)
(* What a Merkle commitment promises: a proof made for one element of the  *)
(* committed array convinces the verifier of that element and of nothing   *)
(* else.                                                                   *)
(***************************************************************************)
VARIABLES
  coeffs,     (* the committed array                                     *)
  opened,     (* the element a proof was made for                        *)
  claim,      (* the element and the value the verifier is told          *)
  answer      (* "none" before the verifier has answered                 *)

vars == << coeffs, opened, claim, answer >>

Init == answer = "none"

(* Another element may be opened, or another claim made, until the answer. *)
Ask ==
  /\ answer = "none" /\ answer' = "none"
  /\ UNCHANGED coeffs

Answer ==
  /\ answer = "none"
  /\ answer' = IF claim.index = opened /\ claim.coeff = coeffs[opened]
               THEN "ok" ELSE "err"
  /\ UNCHANGED << coeffs, opened, claim >>

Spec == Init /\ [][Ask \/ Answer]_vars

=============================================================================
