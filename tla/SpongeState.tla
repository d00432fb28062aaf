----------------------------- MODULE SpongeState ----------------------------
(***************************************************************************)
(* The state of a sponge as a term.  A byte is the set of the pieces of    *)
(* information that were combined into it with exclusive or, and the state *)
(* is what was last permuted with what has been added since to the first   *)
(* Rate bytes.  The permutation is a constructor: it names a new state.    *)
(***************************************************************************)
EXTENDS Naturals, Sequences

CONSTANTS
  Rate,       (* bytes of a block                                        *)
  ShakeDomain, Sha3Domain     (* the domain-separation bytes             *)

ASSUME RateAssumption == Rate \in Nat \ {0}
ASSUME DomainAssumption == ShakeDomain # "none" /\ Sha3Domain # "none"

Place == 0..(Rate - 1)
Nothing == [i \in Place |-> {}]
Zero == [permuted |-> << >>, added |-> Nothing]

Permute(s) == [permuted |-> << s >>, added |-> Nothing]

(* Exclusive or of x into the byte at place i.                             *)
XorByte(s, i, x) ==
  [s EXCEPT !.added[i] = IF x \in @ THEN @ \ {x} ELSE @ \cup {x}]

(* Message bytes first, first + 1, ... into the n places from at on.       *)
XorMessage(s, at, first, n) ==
  LET into == at..(at + n - 1)
      byte(i) == {first + i - at}
  IN  [s EXCEPT !.added =
         [i \in Place |-> IF i \in into THEN (@[i] \ byte(i)) \cup (byte(i) \ @[i])
                                        ELSE @[i]]]

(* The n bytes of the state from place first on.                           *)
ByteOf(s, i) == << s.permuted, s.added[i], i >>
Bytes(s, first, n) == [i \in 1..n |-> ByteOf(s, first + i - 1)]

=============================================================================
