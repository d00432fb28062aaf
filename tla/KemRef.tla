------------------------------- MODULE KemRef -------------------------------
(***************************************************************************)
(* The arithmetic, the public-key encryption and the key encapsulation     *)
(* mechanism of the Kyber reference code (ref_c), whose transforms run in  *)
(* their natural order.                                                    *)
(***************************************************************************)
EXTENDS CodecRef, Lattice

(* The butterflies of a block run in their natural order.                  *)
InTurn == [bits \in 1..(LogN - 1) |-> [idx \in 0..(2^bits - 1) |-> idx]]
Ntt(r) == Forward(r, InTurn)
InvNtt(r) == Inverse(r, InTurn)

PolyReduce(r) == Ring!PolyReduce(r)
PolyNtt(r) == PolyReduce(Ntt(r))
PolyBaseMul(a, b) == Ring!PolyBaseMul(a, b)

(* 2^32 modulo Q times the coefficient, and one Montgomery reduction.      *)
PolyToMont(r) == LET coeff(i) == MontgomeryReduce(r[i] * 1353) IN Poly(coeff)

PolyAdd(a, b) == LET coeff(i) == Int16(a[i] + b[i]) IN Poly(coeff)

PolySub(a, b) == LET coeff(i) == Int16(a[i] - b[i]) IN Poly(coeff)

PolyVecNtt(a) == OnVector(a, PolyNtt)
PolyVecInvNttToMont(a) == OnVector(a, InvNtt)
PolyVecReduce(a) == OnVector(a, PolyReduce)
PolyVecAdd(a, b) == OnVectors(a, b, PolyAdd)

PolyVecBaseMulAcc(a, b) ==
  LET sum[i \in 0..(K - 1)] ==
        IF i = 0 THEN PolyBaseMul(a[0], b[0])
        ELSE PolyAdd(sum[i - 1], PolyBaseMul(a[i], b[i]))
  IN  PolyReduce(sum[K - 1])

(* Row i and column j of A, or of its transpose.                           *)
GenMatrix(seed, transposed) ==
  [i \in 0..(K - 1) |-> [j \in 0..(K - 1) |->
     IF transposed THEN Uniform("shake", seed, i, j) ELSE Uniform("shake", seed, j, i)]]

(* poly_getnoise, and the vector of the nonces from first on.              *)
Noise(seed, nonce) == Cbd2(Prf("shake", seed, nonce))
NoiseVector(seed, first) == [i \in 0..(K - 1) |-> Noise(seed, first + i)]
-----------------------------------------------------------------------------

(* A public key is << encoded vector, seed of A >>.                        *)
KeypairDerand(coins) ==
  LET seeds == HashG("shake", << coins, K >>)
      a == GenMatrix(seeds[1], FALSE)
      skpv == PolyVecNtt(NoiseVector(seeds[2], 0))
      e == PolyVecNtt(NoiseVector(seeds[2], K))
      product == [i \in 0..(K - 1) |-> PolyToMont(PolyVecBaseMulAcc(a[i], skpv))]
      pkpv == PolyVecReduce(PolyVecAdd(product, e))
  IN  [pk |-> << PolyVecToBytes(pkpv), seeds[1] >>, sk |-> PolyVecToBytes(skpv)]

(* A ciphertext is << compressed vector, compressed polynomial >>.         *)
Enc(m, pk, coins) ==
  LET pkpv == PolyVecFromBytes(pk[1])
      at == GenMatrix(pk[2], TRUE)
      sp == PolyVecNtt(NoiseVector(coins, 0))
      ep == NoiseVector(coins, K)
      epp == Noise(coins, 2 * K)
      product == [i \in 0..(K - 1) |-> PolyVecBaseMulAcc(at[i], sp)]
      b == PolyVecAdd(PolyVecInvNttToMont(product), ep)
      v == PolyAdd(PolyAdd(InvNtt(PolyVecBaseMulAcc(pkpv, sp)), epp), PolyFromMsg(m))
  IN  << PolyVecCompress(PolyVecReduce(b)), PolyCompress(PolyReduce(v)) >>

Dec(c, sk) ==
  LET b == PolyVecNtt(PolyVecDecompress(c[1]))
      mp == InvNtt(PolyVecBaseMulAcc(PolyVecFromBytes(sk), b))
  IN  PolyToMsg(PolyReduce(PolySub(PolyDecompress(c[2]), mp)))

-----------------------------------------------------------------------------
(* verify, over all the bytes of a ciphertext; cmov, for b in {0, 1}.      *)
Verify(a, b) == IF a = b THEN 0 ELSE 1
Cmov(r, x, b) == IF b = 1 THEN x ELSE r

(* The keys: pk, and sk = << key of the encryption, pk, H(pk), z >>.       *)
KemKeypairDerand(coins) ==
  LET pair == KeypairDerand(coins[1])
  IN  [pk |-> pair.pk, sk |-> << pair.sk, pair.pk, HashH("shake", pair.pk), coins[2] >>]

KemEncDerand(pk, coins) ==
  LET buf == << coins, HashH("shake", pk) >>
      kr == HashG("shake", buf)
  IN  [ct |-> Enc(buf[1], pk, kr[2]), ss |-> kr[1]]

(* The secret of ct, over whatever the output buffer held; there is no     *)
(* redundancy.                                                             *)
KemDec(old, ct, sk) ==
  LET buf == << Dec(ct, sk[1]), sk[3] >>
      kr == HashG("shake", buf)
      fail == Verify(ct, Enc(buf[1], sk[2], kr[2]))
  IN  Cmov(Rkprf("shake", sk[4], ct), kr[1], IF fail = 0 THEN 1 ELSE 0)

=============================================================================
