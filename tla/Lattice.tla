------------------------------ MODULE Lattice -------------------------------
(***************************************************************************)
(* What the four implementations of the public-key encryption have in      *)
(* common: the loops of the transforms over a coefficient array, with the  *)
(* order of the butterflies of a block as a parameter, and the hash        *)
(* functions, which are constant operators.  The C and C++ libraries and   *)
(* the reference use SHAKE and SHA3, the Rust library BLAKE3: a family of  *)
(* hash functions is the first argument of each.                           *)
(***************************************************************************)
EXTENDS Words

CONSTANTS
  ShuffleKeys,      (* round keys of the butterfly shuffle, from the seed *)
  BitXor(_, _),     (* bitwise exclusive or                               *)
  HashH(_, _),      (* of a family and a public key                       *)
  HashG(_, _),      (* of a family and << bytes, bytes >>: two halves     *)
  Rkprf(_, _, _),   (* of a family, the z of a key and a ciphertext       *)
  Prf(_, _, _),     (* of a family, a seed and a nonce: N / 2 bytes       *)
  Uniform(_, _, _, _)   (* of a family, a seed and two indices: the       *)
                        (* polynomial that rejection sampling takes from  *)
                        (* the stream of the seed and the indices         *)

LogN == CHOOSE b \in 3..8 : 2^b = N

Ring == INSTANCE NttRing WITH
          MaxBits <- LogN, Pow2 <- [b \in 0..LogN |-> 2^b],
          Zeta <- ZetaTable(N), InvF <- InvFactor(N),
          OperandHat <- [i \in 0..(N - 1) |-> 0]

(* Layer of the block whose root is ZETAS[k], and log2 of its length.      *)
Layer(k) == CHOOSE l \in 0..LogN : 2^l <= k /\ k < 2^(l + 1)
LenBits(k) == LogN - 1 - Layer(k)

(* The butterflies of block k of an array f, one after the other, each in  *)
(* place; order[bits] says which of them runs when, and forward which of   *)
(* the two butterflies it is.                                              *)
Block(f, k, start, order, forward) ==
  LET len == 2^LenBits(k)
      j(i) == start + order[LenBits(k)][i - 1]
      after[i \in 0..len] ==
        IF i = 0 THEN f
        ELSE IF forward THEN Ring!NttButterflyAt(after[i - 1], j(i), len, ZETAS[k + 1])
        ELSE Ring!InvButterflyAt(after[i - 1], j(i), len, ZETAS[k + 1])
  IN  after[len]

(* The blocks of ntt, from k = 1 on, and of invntt, down to k = 1.         *)
Forward(f, order) ==
  LET start(k) == (k - 2^Layer(k)) * 2^(LenBits(k) + 1)
      after[k \in 0..(N \div 2 - 1)] ==
        IF k = 0 THEN f
        ELSE Block(after[k - 1], k, start(k), order, TRUE)
  IN  after[N \div 2 - 1]

Inverse(f, order) ==
  LET start(k) == (2^(Layer(k) + 1) - 1 - k) * 2^(LenBits(k) + 1)
      after[k \in 1..(N \div 2)] ==
        IF k = N \div 2 THEN f
        ELSE Block(after[k + 1], k, start(k), order, FALSE)
  IN  Ring!PolyScale(after[1])

(* Coefficient-wise operations on vectors.                                 *)
OnVector(a, op(_)) == [i \in 0..(K - 1) |-> op(a[i])]
OnVectors(a, b, op(_, _)) == [i \in 0..(K - 1) |-> op(a[i], b[i])]

=============================================================================
