----------------------------- MODULE CodecRust ------------------------------
(***************************************************************************)
(* The encodings of poly.rs and polyvec.rs and the noise of cbd.rs.        *)
(***************************************************************************)
EXTENDS Words

PolyToBytes(a) ==
  LET t == [i \in 0..(N - 1) |-> Positive(a[i])]
      byte(x) == TwelveBitByte(t, x)
  IN  Buffer(PolyBytes, byte)

PolyFromBytes(a) == LET coeff(i) == TwelveBitWord(a, i) IN Poly(coeff)

(* poly_compress: a division in u16.                                       *)
PolyCompress(a) ==
  LET t == [i \in 0..(N - 1) |-> ((((16 * Positive(a[i])) % 65536) + Q \div 2) \div Q) % 16]
      byte(x) == FourBitByte(t, x)
  IN  Buffer(CompressedBytes, byte)

PolyDecompress(a) ==
  LET coeff(i) == (FourBitWord(a, i) * Q + 8) \div 16 IN Poly(coeff)

(* poly_frommsg: a mask of the bit selects (Q + 1) / 2 or 0.               *)
PolyFromMsg(msg) ==
  LET coeff(i) == StreamBit(msg, i) * ((Q + 1) \div 2) IN Poly(coeff)

PolyToMsg(a) ==
  LET t == [i \in 0..(N - 1) |-> ((2 * Positive(a[i]) + Q \div 2) \div Q) % 2]
      byte(x) == MessageByte(t, x)
  IN  Buffer(N \div 8, byte)

(* Mutant of PolyVecCompress: the dividend is not rounded.                 *)
PolyVecCompressFloor(a) ==
  LET t == [i \in 0..(N * K - 1) |-> ((1024 * Positive(Coeff(a, i))) \div Q) % 1024]
      byte(x) == TenBitByte(t, x)
  IN  Buffer(VecCompressedBytes, byte)

PolyVecCompress(a) ==
  LET t == [i \in 0..(N * K - 1) |-> ((1024 * Positive(Coeff(a, i)) + Q \div 2) \div Q) % 1024]
      byte(x) == TenBitByte(t, x)
  IN  Buffer(VecCompressedBytes, byte)

PolyVecDecompress(a) ==
  LET coeff(p, i) == (TenBitWord(a, p * N + i) * Q + 512) \div 1024
      poly(p) == [i \in 0..(N - 1) |-> coeff(p, i)]
  IN  Vector(poly)

PolyVecToBytes(a) ==
  LET byte(x) == PolyToBytes(a[x \div PolyBytes])[x % PolyBytes]
  IN  Buffer(PolyVecBytes, byte)

PolyVecFromBytes(a) ==
  LET poly(p) == PolyFromBytes(From(a, p * PolyBytes, PolyBytes)) IN Vector(poly)

Cbd2(buf) ==
  LET coeff(i) == BitPair(buf, 4 * i) - BitPair(buf, 4 * i + 2) IN Poly(coeff)

(* Mutant of Cbd2Masked: only one of the shares has its mask reduced.      *)
Cbd2MaskedRaw(buf, draw) ==
  LET share0(i) == BitPair(buf, 4 * i) - BitPair(buf, 4 * i + 2) - draw[i]
      share1(i) == draw[i] % Q
  IN  << Poly(share0), Poly(share1) >>

(* cbd2_masked: each coefficient less a random mask modulo Q, and the mask *)
(* itself; draw[i] is the 16-bit word the generator gives for i.          *)
Cbd2Masked(buf, draw) ==
  LET share0(i) == BitPair(buf, 4 * i) - BitPair(buf, 4 * i + 2) - (draw[i] % Q)
      share1(i) == draw[i] % Q
  IN  << Poly(share0), Poly(share1) >>

(* unmask_poly *)
UnmaskPoly(shares) == LET sum(i) == Int16(shares[1][i] + shares[2][i]) IN Poly(sum)

=============================================================================
