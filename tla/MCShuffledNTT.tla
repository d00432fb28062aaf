--------------------------- MODULE MCShuffledNTT ----------------------------
(***************************************************************************)
(* Instances of ShuffledNTT for TLC: a small ring in which several threads *)
(* race on the seed, and the ring of the code (TD18_N = 256) with a thread *)
(* that transforms each of a few polynomials.                              *)
(***************************************************************************)
EXTENDS ShuffledNTT, Bitwise

MCPow2 == [i \in 0..MaxBits |-> 2^i]
MCZeta == ZetaTable(2^MaxBits)
MCInvF == InvFactor(2^MaxBits)
MCXor(a, b) == a ^^ b

(* The operand of the product and the inputs: polynomials whose            *)
(* coefficients take the extreme values a reduced coefficient can have.    *)
MCOperand == [i \in 0..(2^MaxBits - 1) |-> (37 * i + 5) % 3329]
OperandTransform == ReferenceNtt(MCOperand, 2^MaxBits)
MCOperandHat == OperandTransform

Extreme == [i \in 0..(2^MaxBits - 1) |-> IF i % 3 = 0 THEN -3328 ELSE 3328]
Ramp == [i \in 0..(2^MaxBits - 1) |-> i + 1]
Unit == [i \in 0..(2^MaxBits - 1) |-> IF i = 2^MaxBits - 1 THEN 1 ELSE 0]
OneInput == {Extreme}
FewInputs == {Extreme, Ramp, Unit}

(* Seeds are named by numbers: 0x9E3779B97F4A7C15, the initializer of      *)
(* g_ntt_seed; the seed 0 of the test programs; and a seed out of a hash.  *)
SeedWord == << << 21, 124, 74, 127, 185, 121, 55, 158 >>,
               << 0, 0, 0, 0, 0, 0, 0, 0 >>,
               DeriveNttSeed(<< 17, 34, 51, 68, 85, 102, 119, 136, 153 >>) >>
DefaultSeed == 1
TwoSeeds == 1..2
ThreeSeeds == 1..3
MCRoundKey == << << 60961, 30029, 36939, 53059 >>,
                 << 31615, 60945, 30755, 6889 >>,
                 << 54831, 41783, 39123, 50807 >> >>
ASSUME KeysOfTheSeeds ==
  \A sd \in 1..3 : MCRoundKey[sd] = RoundKeys(SeedWord[sd])

=============================================================================
