---------------------------- MODULE MCKemDecaps -----------------------------
(***************************************************************************)
(* Instances of KemDecaps for TLC: one byte in each half of each buffer,   *)
(* and a toy encryption scheme with the property that matters: it is       *)
(* correct, and most ciphertexts are not encapsulations.                   *)
(***************************************************************************)
EXTENDS KemDecaps

CONSTANT Base   (* the number of values of a byte *)

MCByte == 0..(Base - 1)
One == {1}
Two == {2}
OneTwo == {1, 2}

MCHpk == [i \in {2} |-> 1]
MCEnc(m, c) == [i \in {1, 2} |-> IF i = 1 THEN (m[1] + c[2]) % Base ELSE c[2]]
MCDec(x) == [i \in {1} |-> (x[1] - x[2]) % Base]
MCG(b) == [i \in {1, 2} |-> IF i = 1 THEN (b[1] + 2 * b[2]) % Base
                                     ELSE (2 * b[1] + b[2] + 1) % Base]
MCReject(x) == [i \in {1} |-> (x[1] + x[2] + 1) % Base]

EveryCiphertext == [{1, 2} -> MCByte]

=============================================================================
