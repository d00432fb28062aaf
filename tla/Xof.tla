-------------------------------- MODULE Xof ---------------------------------
(***************************************************************************)
(* What a sponge promises (FIPS 202, which the comments of fips202.c       *)
(* follow): a stream of output bytes that depends on the message and the   *)
(* domain alone, not on the pieces in which the message was absorbed or    *)
(* the output is squeezed.                                                 *)
(***************************************************************************)
EXTENDS SpongeState

VARIABLES
  msg,        (* how many bytes were absorbed; a byte's name is its place *)
  domain,     (* the domain, once the message is complete                *)
  out         (* the bytes squeezed so far                               *)

vars == << msg, domain, out >>

(* Byte i of the padded message: the message, the domain byte, zeroes, and *)
(* the final bit in the last byte of the last block.                       *)
Blocks(m) == (m \div Rate) + 1
Padded(m, p, i) ==
  (IF i < m THEN {i} ELSE {})
    \cup (IF i = m THEN {<< "domain", p >>} ELSE {})
    \cup (IF i = Rate * Blocks(m) - 1 THEN {<< "end" >>} ELSE {})

(* The state in which block b of the output is read.                       *)
BlockState(m, p, b) ==
  LET absorbed[l \in Nat] ==
        IF l = 0 THEN Zero
        ELSE Permute([absorbed[l - 1] EXCEPT
                        !.added = [i \in Place |-> Padded(m, p, Rate * (l - 1) + i)]])
      squeezed[l \in Nat] ==
        IF l = 0 THEN absorbed[Blocks(m)] ELSE Permute(squeezed[l - 1])
  IN  squeezed[b]

Init == msg = 0 /\ domain = "none" /\ out = << >>

Absorb ==
  /\ domain = "none"
  /\ msg' \in Nat /\ msg' >= msg
  /\ domain' \in {"none", ShakeDomain, Sha3Domain}
  /\ UNCHANGED out

Squeeze ==
  /\ domain # "none"
  /\ Len(out') >= Len(out)
  /\ \A i \in DOMAIN out' :
       out'[i] = ByteOf(BlockState(msg, domain, (i - 1) \div Rate), (i - 1) % Rate)
  /\ UNCHANGED << msg, domain >>

Next == Absorb \/ Squeeze

Spec == Init /\ [][Next]_vars

=============================================================================
