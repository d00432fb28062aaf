------------------------------- MODULE Words --------------------------------
(***************************************************************************)
(* Coefficients, bytes and polynomials as the four implementations of the  *)
(* encodings hold them: the C library, its Rust and C++ counterparts and   *)
(* the Kyber reference code that the debugging programs compare with.      *)
(* A polynomial is a function from 0..N-1 to int16_t, a vector a function  *)
(* from 0..K-1 to polynomials, a buffer a function from 0..len-1 to bytes. *)
(* Where the code joins two words by |, they have no bit in common and     *)
(* their sum stands for it.                                                *)
(***************************************************************************)
EXTENDS Reduce

CONSTANTS
  N,          (* coefficients of a polynomial, a multiple of 8           *)
  K           (* polynomials of a vector                                 *)

ASSUME WordsAssumption ==
  /\ N \in Nat \ {0} /\ N % 8 = 0
  /\ K \in Nat \ {0}

Poly(f(_)) == [i \in 0..(N - 1) |-> f(i)]
Vector(p(_)) == [i \in 0..(K - 1) |-> p(i)]
Buffer(len, byte(_)) == [x \in 0..(len - 1) |-> byte(x)]

(* Coefficient x of a vector laid out polynomial after polynomial.         *)
Coeff(a, x) == a[x \div N][x % N]

(* The part of a buffer that begins at off.                                *)
From(buf, off, len) == [x \in 0..(len - 1) |-> buf[off + x]]

(* Lengths of the encodings: 12, 10 and 4 bits for each coefficient.       *)
PolyBytes == 3 * (N \div 2)
PolyVecBytes == K * PolyBytes
VecCompressedBytes == K * 5 * (N \div 4)
CompressedBytes == N \div 2

(* Of the sixteen bits of a word at most twelve are asked for.             *)
PowerOfTwo(i) == << 1, 2, 4, 8, 16, 32, 64, 128, 256, 512, 1024, 2048 >>[i + 1]

Bit(word, i) == (word \div PowerOfTwo(i)) % 2
Byte(word) == word % 256

(* u += (u >> 15) & Q: Q is added to a negative coefficient.               *)
Positive(u) == IF u < 0 THEN u + Q ELSE u

(* floor(x * factor / (2^16 * unit)), from the low to the high byte of x:  *)
(* no product exceeds 2^31 for x below 2^24 and a factor below 2^22.       *)
Scaled(x, factor, unit) ==
  LET low == (Byte(x) * factor) \div 256
      middle == (Byte(x \div 256) * factor + low) \div 256
  IN  ((x \div 65536) * factor + middle) \div unit

(* A bit of a buffer, counted from the lowest bit of the first byte.       *)
StreamBit(buf, i) == Bit(buf[i \div 8], i % 8)

-----------------------------------------------------------------------------
(* The layouts of the encodings, the same in all implementations: byte x   *)
(* of the words t, and word i of the bytes a.  Two words of 12 bits take   *)
(* three bytes, four words of 10 bits five, two words of 4 bits one.       *)
TwelveBitByte(t, x) ==
  LET i == 2 * (x \div 3)
  IN  CASE x % 3 = 0 -> Byte(t[i])
        [] x % 3 = 1 -> Byte((t[i] \div 256) + t[i + 1] * 16)
        [] x % 3 = 2 -> Byte(t[i + 1] \div 16)

(* Mutant of TwelveBitWord: the odd word keeps the low half of the shared  *)
(* byte.                                                                   *)
TwelveBitWordLow(a, i) ==
  LET x == 3 * (i \div 2)
  IN  (IF i % 2 = 0 THEN a[x] + a[x + 1] * 256
       ELSE (a[x + 1] % 16) + a[x + 2] * 16) % 4096

TwelveBitWord(a, i) ==
  LET x == 3 * (i \div 2)
  IN  (IF i % 2 = 0 THEN a[x] + a[x + 1] * 256
       ELSE (a[x + 1] \div 16) + a[x + 2] * 16) % 4096

TenBitByte(t, x) ==
  LET i == 4 * (x \div 5)
  IN  CASE x % 5 = 0 -> Byte(t[i])
        [] x % 5 = 1 -> Byte((t[i] \div 256) + t[i + 1] * 4)
        [] x % 5 = 2 -> Byte((t[i + 1] \div 64) + t[i + 2] * 16)
        [] x % 5 = 3 -> Byte((t[i + 2] \div 16) + t[i + 3] * 64)
        [] x % 5 = 4 -> Byte(t[i + 3] \div 4)

TenBitWord(a, i) ==
  LET x == 5 * (i \div 4)
  IN  (CASE i % 4 = 0 -> a[x] + a[x + 1] * 256
         [] i % 4 = 1 -> (a[x + 1] \div 4) + a[x + 2] * 64
         [] i % 4 = 2 -> (a[x + 2] \div 16) + a[x + 3] * 16
         [] i % 4 = 3 -> (a[x + 3] \div 64) + a[x + 4] * 4) % 1024

FourBitByte(t, x) == t[2 * x] + t[2 * x + 1] * 16
FourBitWord(a, i) == IF i % 2 = 0 THEN a[i \div 2] % 16 ELSE a[i \div 2] \div 16

(* Byte x of a message, one bit t for each coefficient.                    *)
MessageByte(t, x) ==
  LET bit(j) == t[8 * x + j]
  IN  bit(0) + 2 * bit(1) + 4 * bit(2) + 8 * bit(3)
        + 16 * bit(4) + 32 * bit(5) + 64 * bit(6) + 128 * bit(7)

(* Sum of two neighbouring bits of a buffer: (t + (t >> 1)) & 0x55555555.  *)
BitPair(buf, i) == StreamBit(buf, i) + StreamBit(buf, i + 1)

=============================================================================
