------------------------------ MODULE KemRust -------------------------------
(***************************************************************************)
(* The arithmetic of poly.rs and polyvec.rs, the public-key encryption of  *)
(* indcpa.rs, whose transforms run shuffled, and the key encapsulation     *)
(* mechanism of kem.rs and verify.rs over it.                              *)
(***************************************************************************)
EXTENDS CodecRust, Lattice

(* The order of the 2^bits butterflies of a block: that of the shuffle.    *)
FeistelPermute ==
  [bits \in 1..(LogN - 1) |->
     [idx \in 0..(2^bits - 1) |-> Ring!FeistelPermute(idx, bits, ShuffleKeys)]]

Ntt(r) == Forward(r, FeistelPermute)
InvNtt(r) == Inverse(r, FeistelPermute)

PolyReduce(r) == Ring!PolyReduce(r)
PolyNtt(r) == PolyReduce(Ntt(r))
PolyBaseMul(a, b) == Ring!PolyBaseMul(a, b)

(* 2^32 modulo Q times the coefficient, and one Montgomery reduction.      *)
PolyToMont(r) == LET coeff(i) == MontgomeryReduce(r[i] * 1353) IN Poly(coeff)

PolyAdd(a, b) == LET coeff(i) == Int16(a[i] + b[i]) IN Poly(coeff)

(* The first argument receives the second less its own value.              *)
PolySub(r, a) == LET coeff(i) == Int16(a[i] - r[i]) IN Poly(coeff)

PolyVecNtt(a) == OnVector(a, PolyNtt)
PolyVecInvNttToMont(a) == OnVector(a, InvNtt)
PolyVecReduce(a) == OnVector(a, PolyReduce)
PolyVecAdd(a, b) == OnVectors(a, b, PolyAdd)

PolyVecBaseMulAcc(a, b) ==
  LET sum[i \in 0..(K - 1)] ==
        IF i = 0 THEN PolyBaseMul(a[0], b[0])
        ELSE PolyAdd(sum[i - 1], PolyBaseMul(a[i], b[i]))
  IN  PolyReduce(sum[K - 1])

(* Row i and column j of A, or of its transpose.                           *)
GenMatrix(seed, transposed) ==
  [i \in 0..(K - 1) |-> [j \in 0..(K - 1) |->
     IF transposed THEN Uniform("blake3", seed, i, j) ELSE Uniform("blake3", seed, j, i)]]

(* poly_getnoise, and the vector of the nonces from first on.              *)
Noise(seed, nonce) == Cbd2(Prf("blake3", seed, nonce))
NoiseVector(seed, first) == [i \in 0..(K - 1) |-> Noise(seed, first + i)]
-----------------------------------------------------------------------------

(* A public key is << encoded vector, seed of A >>.                        *)
KeypairDerand(coins) ==
  LET seeds == HashG("blake3", << coins, K >>)
      a == GenMatrix(seeds[1], FALSE)
      skpv == PolyVecNtt(NoiseVector(seeds[2], 0))
      e == PolyVecNtt(NoiseVector(seeds[2], K))
      product == [i \in 0..(K - 1) |-> PolyToMont(PolyVecBaseMulAcc(a[i], skpv))]
      pkpv == PolyVecReduce(PolyVecAdd(product, e))
  IN  [pk |-> << PolyVecToBytes(pkpv), seeds[1] >>, sk |-> PolyVecToBytes(skpv)]

(* Mutant of Enc: the matrix is not transposed.                            *)
EncUntransposed(m, pk, coins) ==
  LET pkpv == PolyVecFromBytes(pk[1])
      at == GenMatrix(pk[2], FALSE)
      sp == PolyVecNtt(NoiseVector(coins, 0))
      ep == NoiseVector(coins, K)
      epp == Noise(coins, 2 * K)
      product == [i \in 0..(K - 1) |-> PolyVecBaseMulAcc(at[i], sp)]
      b == PolyVecAdd(PolyVecInvNttToMont(product), ep)
      v == PolyAdd(PolyAdd(InvNtt(PolyVecBaseMulAcc(pkpv, sp)), epp), PolyFromMsg(m))
  IN  << PolyVecCompress(PolyVecReduce(b)), PolyCompress(PolyReduce(v)) >>

(* A ciphertext is << compressed vector, compressed polynomial >>.         *)
Enc(m, pk, coins) ==
  LET pkpv == PolyVecFromBytes(pk[1])
      at == GenMatrix(pk[2], TRUE)
      sp == PolyVecNtt(NoiseVector(coins, 0))
      ep == NoiseVector(coins, K)
      epp == Noise(coins, 2 * K)
      product == [i \in 0..(K - 1) |-> PolyVecBaseMulAcc(at[i], sp)]
      b == PolyVecAdd(PolyVecInvNttToMont(product), ep)
      v == PolyAdd(PolyAdd(InvNtt(PolyVecBaseMulAcc(pkpv, sp)), epp), PolyFromMsg(m))
  IN  << PolyVecCompress(PolyVecReduce(b)), PolyCompress(PolyReduce(v)) >>

Dec(c, sk) ==
  LET b == PolyVecNtt(PolyVecDecompress(c[1]))
      mp == InvNtt(PolyVecBaseMulAcc(PolyVecFromBytes(sk), b))
  IN  PolyToMsg(PolyReduce(PolySub(mp, PolyDecompress(c[2]))))

-----------------------------------------------------------------------------
(* verify, over all the bytes of a ciphertext; cmov, for b in {0, 1}.      *)
Verify(a, b) == IF a = b THEN 0 ELSE 1
Cmov(r, x, b) == IF b = 1 THEN x ELSE r

(* A vote, here on whole buffers: no copy is disturbed, see KemDecaps.     *)
MajorityVote(a, b, c) == IF a = b \/ a = c THEN a ELSE b
Voted(copy) == MajorityVote(copy, copy, copy)

(* The keys: pk, and sk = << key of the encryption, pk, H(pk), z >>.       *)
KemKeypairDerand(coins) ==
  LET pair == KeypairDerand(coins[1])
  IN  [pk |-> pair.pk, sk |-> << pair.sk, pair.pk, HashH("blake3", pair.pk), coins[2] >>]

(* Mutant of KemEncDerand: the second half of the hash is the secret.      *)
KemEncDerandSwapped(pk, coins) ==
  LET buf == << coins, HashH("blake3", pk) >>
      kr == HashG("blake3", buf)
  IN  [ct |-> Enc(buf[1], pk, kr[1]), ss |-> kr[2]]

KemEncDerand(pk, coins) ==
  LET buf == << coins, HashH("blake3", pk) >>
      kr == HashG("blake3", buf)
  IN  [ct |-> Enc(buf[1], pk, kr[2]), ss |-> kr[1]]

TripleDecapsBuf(ct, sk) == Voted(<< Dec(ct, sk[1]), sk[3] >>)

(* Whether the ciphertext that buf encrypts to is another one than ct.     *)
Differs(ct, sk, buf, kr) == Verify(ct, Voted(Enc(buf[1], sk[2], kr[2])))

(* Into the output buffer goes one of two secrets.                         *)
Select(old, ss, rejected, fail) == Cmov(Cmov(old, ss, 1 - fail), rejected, fail)

(* The secret of ct, over whatever the output buffer held. The work and    *)
(* the tag that the code computes and discards are left out.               *)
KemDec(old, ct, sk) ==
  LET buf == TripleDecapsBuf(ct, sk)
      kr == Voted(HashG("blake3", buf))
  IN  Select(old, kr[1], Rkprf("blake3", sk[4], ct), Differs(ct, sk, buf, kr))

=============================================================================
