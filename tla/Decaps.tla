------------------------------- MODULE Decaps -------------------------------
(***************************************************************************)
(* What td18_kem_dec promises its caller: in one step the shared secret of *)
(* the ciphertext, whatever the output buffer held before the call.  Only  *)
(* when faults have outvoted a byte before that step, the secret may be    *)
(* another one.                                                            *)
(***************************************************************************)
EXTENDS Kem

VARIABLES
  ct,         (* the ciphertext of the call                              *)
  ss,         (* the output buffer of the caller                         *)
  returned,   (* whether the call has returned                           *)
  outvoted    (* whether faults agree on a byte that was not computed    *)

vars == << ct, ss, returned, outvoted >>

Init ==
  /\ ct \in Ciphertexts /\ ss \in Secrets
  /\ returned = FALSE /\ outvoted = FALSE

Outvote ==
  /\ ~returned /\ ~outvoted
  /\ outvoted' = TRUE
  /\ UNCHANGED << ct, ss, returned >>

Return ==
  /\ ~returned
  /\ returned' = TRUE
  /\ ss' \in Secrets
  /\ ~outvoted => ss' = Decapsulate(ct)
  /\ UNCHANGED << ct, outvoted >>

Spec == Init /\ [][Outvote \/ Return]_vars

=============================================================================
