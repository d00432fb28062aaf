------------------------------- MODULE CodecC -------------------------------
(***************************************************************************)
(* The encodings of poly.c and polyvec.c and the noise of cbd.c, and those *)
(* of poly.hpp, polyvec.hpp and cbd.hpp, which take the same steps.        *)
(***************************************************************************)
EXTENDS Words

PolyToBytes(a) ==
  LET t == [i \in 0..(N - 1) |-> Positive(a[i])]
      byte(x) == TwelveBitByte(t, x)
  IN  Buffer(PolyBytes, byte)

PolyFromBytes(a) == LET coeff(i) == TwelveBitWord(a, i) IN Poly(coeff)

(* td18_poly_compress: the product by 2^28 / Q rounded to an integer, in   *)
(* 32 bits, stands for the division.                                       *)
PolyCompress(a) ==
  LET t == [i \in 0..(N - 1) |-> Scaled(16 * Positive(a[i]) + 1665, 80635, 4096) % 16]
      byte(x) == FourBitByte(t, x)
  IN  Buffer(CompressedBytes, byte)

PolyDecompress(a) ==
  LET coeff(i) == (FourBitWord(a, i) * Q + 8) \div 16 IN Poly(coeff)

(* cmov_int16: v if the bit b is set, the present value p otherwise.       *)
CMovInt16(p, v, b) == IF b = 1 THEN v ELSE p

PolyFromMsg(msg) ==
  LET coeff(i) == CMovInt16(0, (Q + 1) \div 2, StreamBit(msg, i)) IN Poly(coeff)

(* Mutant of PolyToMsg: the quotient is not rounded.                       *)
PolyToMsgFloor(a) ==
  LET t == [i \in 0..(N - 1) |-> ((2 * Positive(a[i])) \div Q) % 2]
      byte(x) == MessageByte(t, x)
  IN  Buffer(N \div 8, byte)

PolyToMsg(a) ==
  LET t == [i \in 0..(N - 1) |-> ((2 * Positive(a[i]) + Q \div 2) \div Q) % 2]
      byte(x) == MessageByte(t, x)
  IN  Buffer(N \div 8, byte)

PolyVecCompress(a) ==
  LET t == [i \in 0..(N * K - 1) |->
              Scaled(1024 * Positive(Coeff(a, i)) + 1665, 1290167, 65536) % 1024]
      byte(x) == TenBitByte(t, x)
  IN  Buffer(VecCompressedBytes, byte)

PolyVecDecompress(a) ==
  LET coeff(p, i) == (TenBitWord(a, p * N + i) * Q + 512) \div 1024
      poly(p) == [i \in 0..(N - 1) |-> coeff(p, i)]
  IN  Vector(poly)

PolyVecToBytes(a) ==
  LET byte(x) == PolyToBytes(a[x \div PolyBytes])[x % PolyBytes]
  IN  Buffer(PolyVecBytes, byte)

PolyVecFromBytes(a) ==
  LET poly(p) == PolyFromBytes(From(a, p * PolyBytes, PolyBytes)) IN Vector(poly)

(* td18_cbd2: of every four bits, the sum of the lower two less the sum of *)
(* the upper two.                                                          *)
Cbd2(buf) ==
  LET coeff(i) == BitPair(buf, 4 * i) - BitPair(buf, 4 * i + 2) IN Poly(coeff)

=============================================================================
