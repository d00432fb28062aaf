------------------------------ MODULE CodecRef ------------------------------
(***************************************************************************)
(* The encodings of the Kyber reference code, ref_c/poly.c and polyvec.c,  *)
(* and its noise, ref_c/cbd.c, for KYBER_K = 3.                            *)
(***************************************************************************)
EXTENDS Words

PolyToBytes(a) ==
  LET t == [i \in 0..(N - 1) |-> Positive(a[i])]
      byte(x) == TwelveBitByte(t, x)
  IN  Buffer(PolyBytes, byte)

PolyFromBytes(a) == LET coeff(i) == TwelveBitWord(a, i) IN Poly(coeff)

PolyCompress(a) ==
  LET t == [i \in 0..(N - 1) |-> Scaled(16 * Positive(a[i]) + 1665, 80635, 4096) % 16]
      byte(x) == FourBitByte(t, x)
  IN  Buffer(CompressedBytes, byte)

PolyDecompress(a) ==
  LET coeff(i) == (FourBitWord(a, i) * Q + 8) \div 16 IN Poly(coeff)

CMovInt16(p, v, b) == IF b = 1 THEN v ELSE p

PolyFromMsg(msg) ==
  LET coeff(i) == CMovInt16(0, (Q + 1) \div 2, StreamBit(msg, i)) IN Poly(coeff)

(* poly_tomsg of the reference: a negative coefficient is not made         *)
(* positive, the product is taken modulo 2^32 and only its bit 28 is kept, *)
(* so that its floor may be taken in the integers.                         *)
PolyToMsg(a) ==
  LET t == [i \in 0..(N - 1) |-> (((2 * a[i] + 1665) * 80635) \div 268435456) % 2]
      byte(x) == MessageByte(t, x)
  IN  Buffer(N \div 8, byte)

PolyVecCompress(a) ==
  LET t == [i \in 0..(N * K - 1) |->
              Scaled(1024 * Positive(Coeff(a, i)) + 1665, 1290167, 65536) % 1024]
      byte(x) == TenBitByte(t, x)
  IN  Buffer(VecCompressedBytes, byte)

PolyVecDecompress(a) ==
  LET coeff(p, i) == (TenBitWord(a, p * N + i) * Q + 512) \div 1024
      poly(p) == [i \in 0..(N - 1) |-> coeff(p, i)]
  IN  Vector(poly)

PolyVecToBytes(a) ==
  LET byte(x) == PolyToBytes(a[x \div PolyBytes])[x % PolyBytes]
  IN  Buffer(PolyVecBytes, byte)

PolyVecFromBytes(a) ==
  LET poly(p) == PolyFromBytes(From(a, p * PolyBytes, PolyBytes)) IN Vector(poly)

Cbd2(buf) ==
  LET coeff(i) == BitPair(buf, 4 * i) - BitPair(buf, 4 * i + 2) IN Poly(coeff)

=============================================================================
