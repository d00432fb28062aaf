------------------------------ MODULE NttRing -------------------------------
(***************************************************************************)
(* The ring Z_Q[X] / (X^N + 1) and the arithmetic that the transforms of   *)
(* ntt.c apply to a coefficient array: one butterfly, one whole block of   *)
(* butterflies, and the element-wise passes of poly.c.  N, here RingSize,  *)
(* is free: the loops of the code are the same for all powers of two and   *)
(* read a prefix of the same table of roots.  Its logarithm is MaxBits:    *)
(* the widest block has 2^(MaxBits - 1) butterflies.                       *)
(*                                                                         *)
(* The four-round Feistel network of ntt.c shuffles the butterflies of a   *)
(* block (feistel_round, feistel_permute).  Its bit operations are         *)
(* arithmetic on powers of two: x >> h is x \div 2^h, x & mask is          *)
(* x % 2^h and (l << h) | r, with r < 2^h, is l * 2^h + r.  Exclusive or   *)
(* is a constant operator, of which only XorAssumption is used.            *)
(***************************************************************************)
EXTENDS Reduce

CONSTANTS
  MaxBits,    (* the widest index that is permuted, in bits              *)
  Pow2,       (* the powers of two up to 2^MaxBits, as a function        *)
  BitXor(_, _),  (* bitwise exclusive or                                 *)
  Zeta,       (* ZETAS: the roots used by the butterflies, from index 0  *)
  InvF,       (* F of td18_invntt: 2^32 / (N/2) modulo Q                 *)
  OperandHat  (* the other factor of the product, already transformed    *)

ASSUME Pow2Assumption ==
  /\ MaxBits \in Nat
  /\ Pow2 \in [0..MaxBits -> Nat]
  /\ Pow2[0] = 1
  /\ \A i \in 1..MaxBits : Pow2[i] = 2 * Pow2[i-1]

(* Xor keeps a width and undoes itself.                                    *)
ASSUME XorAssumption ==
  \A w \in 0..MaxBits : \A a, b \in 0..(Pow2[w] - 1) :
     /\ BitXor(a, b) \in 0..(Pow2[w] - 1)
     /\ BitXor(BitXor(a, b), b) = a

RingSize == Pow2[MaxBits]
Indices == 0..(RingSize - 1)

ASSUME RingAssumption ==
  /\ MaxBits >= 2
  /\ \A i \in 1..((RingSize \div 2) - 1) : Zeta[i] \in Int
  /\ InvF \in Int
  /\ \A i \in Indices : OperandHat[i] \in Int

-----------------------------------------------------------------------------
(* The width of the right part; the left part has the other bits, one more *)
(* than the right part when bits is odd.                                   *)
Half(bits) == bits \div 2

(* feistel_round.  The product is an uint32_t in the code; its bits above  *)
(* 2 * half are dropped by the shift and the mask.                         *)
FeistelRound(right, key, half) == ((right * key) \div Pow2[half]) % Pow2[half]

(* Mutant of Mix: the left part is dropped.                                *)
MixForgetsLeft(left, right, key, half) == FeistelRound(right, key, half)

(* new_right of the round loop; the new left is the old right.             *)
Mix(left, right, key, half) == BitXor(left, FeistelRound(right, key, half))

(* feistel_permute; keys is the sequence of the four round keys.  Every    *)
(* part is left in one round and right in the round before.                *)
FeistelPermute(x, bits, keys) ==
  IF bits <= 1 THEN x
  ELSE LET half == Half(bits)
           p0 == x \div Pow2[half]
           p1 == x % Pow2[half]
           p2 == Mix(p0, p1, keys[1], half)
           p3 == Mix(p1, p2, keys[2], half)
           p4 == Mix(p2, p3, keys[3], half)
           p5 == Mix(p3, p4, keys[4], half)
       IN  p4 * Pow2[half] + (p5 % Pow2[half])

-----------------------------------------------------------------------------
(* The key schedule: the 64-bit linear congruential generator inside       *)
(* feistel_permute, and the packing of its seed out of a hash              *)
(* (derive_ntt_seed in kem.c).  TLC's integers have 32 bits, so an         *)
(* uint64_t is the sequence of its eight bytes, least significant first:   *)
(* exactly the order in which derive_ntt_seed takes them from the hash.    *)
Byte == 0..255
Words64 == [1..8 -> Byte]

(* The packing of the first eight hash bytes.                              *)
DeriveNttSeed(hash) == [i \in 1..8 |-> hash[i]]

(* 6364136223846793005 and 1442695040888963407.                            *)
LcgMultiplier == << 45, 127, 149, 76, 45, 244, 81, 88 >>
LcgIncrement  == << 79, 129, 103, 247, 126, 123, 5, 20 >>

(* The i-th byte column of w * LcgMultiplier + LcgIncrement, before carry. *)
Column(w, i) ==
  LET term[n \in 0..i] ==
        IF n = 0 THEN LcgIncrement[i]
        ELSE term[n-1] + w[n] * LcgMultiplier[i + 1 - n]
  IN  term[i]

(* state = state * multiplier + increment (mod 2^64).                      *)
LcgStep(w) ==
  LET total[i \in 1..8] ==
        Column(w, i) + (IF i = 1 THEN 0 ELSE total[i-1] \div 256)
  IN  [i \in 1..8 |-> total[i] % 256]

(* key = (state >> 32) | 1, of which a round uses at most 2 * half bits:   *)
(* the low sixteen are kept.                                               *)
RoundKeyOf(w) ==
  LET low == w[5] + 256 * w[6]
  IN  IF low % 2 = 1 THEN low ELSE low + 1

(* The four round keys of a seed.                                          *)
RoundKeys(seed) ==
  LET state[i \in 0..4] == IF i = 0 THEN seed ELSE LcgStep(state[i-1])
  IN  [i \in 1..4 |-> RoundKeyOf(state[i])]

-----------------------------------------------------------------------------
(* Mutants of NttHi (the sign of the twiddled term) and of InvLo (no       *)
(* reduction of the sum).                                                  *)
NttHiPlus(a, b, z) == Int16(a + FqMul(z, b))
InvLoUnreduced(a, b, z) == Int16(a + b)

(* The two outputs of a butterfly of td18_ntt ...                          *)
NttLo(a, b, z) == Int16(a + FqMul(z, b))
NttHi(a, b, z) == Int16(a - FqMul(z, b))

(* ... and of td18_invntt.                                                 *)
InvLo(a, b, z) == BarrettReduce(Int16(a + b))
InvHi(a, b, z) == FqMul(z, Int16(b - a))

(* One butterfly, on the elements j and j + len of f.                      *)
Butterfly(f, j, len, lo, hi) == [f EXCEPT ![j] = lo, ![j + len] = hi]

(* Mutant of NttButterflyAt: element j is overwritten before it is used.   *)
NttButterflyInPlace(f, j, len, z) ==
  LET lo == NttLo(f[j], f[j+len], z)
  IN  Butterfly(f, j, len, lo, NttHi(lo, f[j+len], z))

NttButterflyAt(f, j, len, z) ==
  Butterfly(f, j, len, NttLo(f[j], f[j+len], z), NttHi(f[j], f[j+len], z))

InvButterflyAt(f, j, len, z) ==
  Butterfly(f, j, len, InvLo(f[j], f[j+len], z), InvHi(f[j], f[j+len], z))

-----------------------------------------------------------------------------
(* The effect of a whole block of butterflies, those at start + x for x in *)
(* 0..len-1, all computed from the array as it is before the block.        *)
NttBlockAt(f, start, len, z) ==
  [i \in Indices |->
     IF i \in start..(start + len - 1) THEN NttLo(f[i], f[i+len], z)
     ELSE IF i \in (start + len)..(start + 2 * len - 1) THEN NttHi(f[i-len], f[i], z)
     ELSE f[i]]

InvBlockAt(f, start, len, z) ==
  [i \in Indices |->
     IF i \in start..(start + len - 1) THEN InvLo(f[i], f[i+len], z)
     ELSE IF i \in (start + len)..(start + 2 * len - 1) THEN InvHi(f[i-len], f[i], z)
     ELSE f[i]]

-----------------------------------------------------------------------------
(* poly_reduce: Barrett reduction of every coefficient.                    *)
PolyReduce(f) == [i \in Indices |-> BarrettReduce(f[i])]

(* The last loop of td18_invntt.                                           *)
PolyScale(f) == [i \in Indices |-> FqMul(f[i], InvF)]

(* td18_basemul on the pair of coefficients that begins at i, modulo       *)
(* X^2 - z; odd says which of the two coefficients is wanted.              *)
BaseMul(a0, a1, b0, b1, z, odd) ==
  IF odd THEN Int16(FqMul(a0, b1) + FqMul(a1, b0))
         ELSE Int16(FqMul(FqMul(a1, b1), z) + FqMul(a0, b0))

(* Mutant of PolyBaseMul: both pairs of four coefficients use the root     *)
(* itself.                                                                 *)
PolyBaseMulSameRoot(f, g) ==
  [i \in Indices |->
     LET p == i - (i % 2)
     IN  BaseMul(f[p], f[p+1], g[p], g[p+1], Zeta[(RingSize \div 4) + (i \div 4)], i % 2 = 1)]

(* td18_poly_basemul_montgomery: consecutive pairs use a root and its      *)
(* negation, the roots being those of the last layer.                      *)
PolyBaseMul(f, g) ==
  [i \in Indices |->
     LET p == i - (i % 2)
         root == Zeta[(RingSize \div 4) + (i \div 4)]
         z == IF i % 4 < 2 THEN root ELSE -root
     IN  BaseMul(f[p], f[p+1], g[p], g[p+1], z, i % 2 = 1)]

=============================================================================
