---------------------------- MODULE CodecProofs ----------------------------
(***************************************************************************)
(* Proofs about Codec, for polynomials and vectors of every length: every  *)
(* encoding is the sequence of bits that it stands for, any implementation *)
(* reads back what any other wrote, and the noise that they take from the  *)
(* same bytes is the same, with and without masks.                         *)
(***************************************************************************)
EXTENDS Codec, TLAPS

-----------------------------------------------------------------------------
(* Bits of words: of their low bytes, of words that are shifted, and of    *)
(* words that are joined.                                                  *)
LEMMA BitType ==
  ASSUME NEW w \in Nat, NEW j \in 0..11
  PROVE  Bit(w, j) \in {0, 1}
<1>1. CASE j = 0
  BY <1>1 DEF Bit, PowerOfTwo
<1>2. CASE j = 1
  BY <1>2 DEF Bit, PowerOfTwo
<1>3. CASE j = 2
  BY <1>3 DEF Bit, PowerOfTwo
<1>4. CASE j = 3
  BY <1>4 DEF Bit, PowerOfTwo
<1>5. CASE j = 4
  BY <1>5 DEF Bit, PowerOfTwo
<1>6. CASE j = 5
  BY <1>6 DEF Bit, PowerOfTwo
<1>7. CASE j = 6
  BY <1>7 DEF Bit, PowerOfTwo
<1>8. CASE j = 7
  BY <1>8 DEF Bit, PowerOfTwo
<1>9. CASE j = 8
  BY <1>9 DEF Bit, PowerOfTwo
<1>10. CASE j = 9
  BY <1>10 DEF Bit, PowerOfTwo
<1>11. CASE j = 10
  BY <1>11 DEF Bit, PowerOfTwo
<1>12. CASE j = 11
  BY <1>12 DEF Bit, PowerOfTwo
<1> QED BY <1>1, <1>2, <1>3, <1>4, <1>5, <1>6, <1>7, <1>8, <1>9, <1>10, <1>11, <1>12

LEMMA BitOfByte ==
  ASSUME NEW w \in Nat, NEW j \in 0..7
  PROVE  Bit(Byte(w), j) = Bit(w, j)
<1>1. CASE j = 0
  BY <1>1 DEF Bit, Byte, PowerOfTwo
<1>2. CASE j = 1
  BY <1>2 DEF Bit, Byte, PowerOfTwo
<1>3. CASE j = 2
  BY <1>3 DEF Bit, Byte, PowerOfTwo
<1>4. CASE j = 3
  BY <1>4 DEF Bit, Byte, PowerOfTwo
<1>5. CASE j = 4
  BY <1>5 DEF Bit, Byte, PowerOfTwo
<1>6. CASE j = 5
  BY <1>6 DEF Bit, Byte, PowerOfTwo
<1>7. CASE j = 6
  <2>1. ((w % 256) \div 64) % 2 = (w \div 64) % 2
    OBVIOUS
  <2> QED BY <1>7, <2>1 DEF Bit, Byte, PowerOfTwo
<1>8. CASE j = 7
  BY <1>8 DEF Bit, Byte, PowerOfTwo
<1> QED BY <1>1, <1>2, <1>3, <1>4, <1>5, <1>6, <1>7, <1>8

LEMMA BitShifted2 ==
  ASSUME NEW w \in Nat, NEW j \in 0..7
  PROVE  Bit(w \div 4, j) = Bit(w, j + 2)
<1>1. CASE j = 0
  BY <1>1 DEF Bit, PowerOfTwo
<1>2. CASE j = 1
  BY <1>2 DEF Bit, PowerOfTwo
<1>3. CASE j = 2
  BY <1>3 DEF Bit, PowerOfTwo
<1>4. CASE j = 3
  BY <1>4 DEF Bit, PowerOfTwo
<1>5. CASE j = 4
  BY <1>5 DEF Bit, PowerOfTwo
<1>6. CASE j = 5
  BY <1>6 DEF Bit, PowerOfTwo
<1>7. CASE j = 6
  BY <1>7 DEF Bit, PowerOfTwo
<1>8. CASE j = 7
  BY <1>8 DEF Bit, PowerOfTwo
<1> QED BY <1>1, <1>2, <1>3, <1>4, <1>5, <1>6, <1>7, <1>8

LEMMA BitShifted4 ==
  ASSUME NEW w \in Nat, NEW j \in 0..7
  PROVE  Bit(w \div 16, j) = Bit(w, j + 4)
<1>1. CASE j = 0
  BY <1>1 DEF Bit, PowerOfTwo
<1>2. CASE j = 1
  BY <1>2 DEF Bit, PowerOfTwo
<1>3. CASE j = 2
  BY <1>3 DEF Bit, PowerOfTwo
<1>4. CASE j = 3
  BY <1>4 DEF Bit, PowerOfTwo
<1>5. CASE j = 4
  BY <1>5 DEF Bit, PowerOfTwo
<1>6. CASE j = 5
  BY <1>6 DEF Bit, PowerOfTwo
<1>7. CASE j = 6
  <2>1. (w \div 16) \div 64 = w \div 1024
    OBVIOUS
  <2> QED BY <1>7, <2>1 DEF Bit, PowerOfTwo
<1>8. CASE j = 7
  BY <1>8 DEF Bit, PowerOfTwo
<1> QED BY <1>1, <1>2, <1>3, <1>4, <1>5, <1>6, <1>7, <1>8

LEMMA BitShifted6 ==
  ASSUME NEW w \in Nat, NEW j \in 0..5
  PROVE  Bit(w \div 64, j) = Bit(w, j + 6)
<1>1. CASE j = 0
  BY <1>1 DEF Bit, PowerOfTwo
<1>2. CASE j = 1
  BY <1>2 DEF Bit, PowerOfTwo
<1>3. CASE j = 2
  BY <1>3 DEF Bit, PowerOfTwo
<1>4. CASE j = 3
  BY <1>4 DEF Bit, PowerOfTwo
<1>5. CASE j = 4
  BY <1>5 DEF Bit, PowerOfTwo
<1>6. CASE j = 5
  BY <1>6 DEF Bit, PowerOfTwo
<1> QED BY <1>1, <1>2, <1>3, <1>4, <1>5, <1>6

LEMMA BitShifted8 ==
  ASSUME NEW w \in Nat, NEW j \in 0..3
  PROVE  Bit(w \div 256, j) = Bit(w, j + 8)
<1>1. CASE j = 0
  BY <1>1 DEF Bit, PowerOfTwo
<1>2. CASE j = 1
  BY <1>2 DEF Bit, PowerOfTwo
<1>3. CASE j = 2
  BY <1>3 DEF Bit, PowerOfTwo
<1>4. CASE j = 3
  BY <1>4 DEF Bit, PowerOfTwo
<1> QED BY <1>1, <1>2, <1>3, <1>4

LEMMA BitOfLow2 ==
  ASSUME NEW w \in Nat, NEW j \in 0..1
  PROVE  Bit(w % 4, j) = Bit(w, j)
<1>1. CASE j = 0
  BY <1>1 DEF Bit, PowerOfTwo
<1>2. CASE j = 1
  BY <1>2 DEF Bit, PowerOfTwo
<1> QED BY <1>1, <1>2

LEMMA BitJoined2 ==
  ASSUME NEW w \in Nat, NEW h \in 0..3, NEW j \in 0..7
  PROVE  Bit(h + w * 4, j) = IF j < 2 THEN Bit(h, j) ELSE Bit(w, j - 2)
<1> DEFINE x == h + w * 4
<1>1. x \in Nat /\ x % 4 = h /\ x \div 4 = w
  OBVIOUS
<1> HIDE DEF x
<1>2. CASE j < 2
  <2>1. j \in 0..1
    BY <1>2
  <2> QED BY <1>1, <1>2, <2>1, BitOfLow2 DEF x
<1>3. CASE j >= 2
  <2>1. j - 2 \in 0..5 /\ (j - 2) + 2 = j
    BY <1>3
  <2>2. Bit(x \div 4, j - 2) = Bit(x, (j - 2) + 2)
    BY <1>1, <2>1, BitShifted2
  <2> QED BY <1>1, <1>3, <2>1, <2>2 DEF x
<1> QED BY <1>2, <1>3

LEMMA BitOfLow4 ==
  ASSUME NEW w \in Nat, NEW j \in 0..3
  PROVE  Bit(w % 16, j) = Bit(w, j)
<1>1. CASE j = 0
  BY <1>1 DEF Bit, PowerOfTwo
<1>2. CASE j = 1
  BY <1>2 DEF Bit, PowerOfTwo
<1>3. CASE j = 2
  BY <1>3 DEF Bit, PowerOfTwo
<1>4. CASE j = 3
  BY <1>4 DEF Bit, PowerOfTwo
<1> QED BY <1>1, <1>2, <1>3, <1>4

LEMMA BitJoined4 ==
  ASSUME NEW w \in Nat, NEW h \in 0..15, NEW j \in 0..7
  PROVE  Bit(h + w * 16, j) = IF j < 4 THEN Bit(h, j) ELSE Bit(w, j - 4)
<1> DEFINE x == h + w * 16
<1>1. x \in Nat /\ x % 16 = h /\ x \div 16 = w
  OBVIOUS
<1> HIDE DEF x
<1>2. CASE j < 4
  <2>1. j \in 0..3
    BY <1>2
  <2> QED BY <1>1, <1>2, <2>1, BitOfLow4 DEF x
<1>3. CASE j >= 4
  <2>1. j - 4 \in 0..3 /\ (j - 4) + 4 = j
    BY <1>3
  <2>2. Bit(x \div 16, j - 4) = Bit(x, (j - 4) + 4)
    BY <1>1, <2>1, BitShifted4
  <2> QED BY <1>1, <1>3, <2>1, <2>2 DEF x
<1> QED BY <1>2, <1>3

LEMMA BitOfLow6 ==
  ASSUME NEW w \in Nat, NEW j \in 0..5
  PROVE  Bit(w % 64, j) = Bit(w, j)
<1>1. CASE j = 0
  BY <1>1 DEF Bit, PowerOfTwo
<1>2. CASE j = 1
  BY <1>2 DEF Bit, PowerOfTwo
<1>3. CASE j = 2
  BY <1>3 DEF Bit, PowerOfTwo
<1>4. CASE j = 3
  BY <1>4 DEF Bit, PowerOfTwo
<1>5. CASE j = 4
  BY <1>5 DEF Bit, PowerOfTwo
<1>6. CASE j = 5
  BY <1>6 DEF Bit, PowerOfTwo
<1> QED BY <1>1, <1>2, <1>3, <1>4, <1>5, <1>6

LEMMA BitJoined6 ==
  ASSUME NEW w \in Nat, NEW h \in 0..63, NEW j \in 0..7
  PROVE  Bit(h + w * 64, j) = IF j < 6 THEN Bit(h, j) ELSE Bit(w, j - 6)
<1> DEFINE x == h + w * 64
<1>1. x \in Nat /\ x % 64 = h /\ x \div 64 = w
  OBVIOUS
<1> HIDE DEF x
<1>2. CASE j < 6
  <2>1. j \in 0..5
    BY <1>2
  <2> QED BY <1>1, <1>2, <2>1, BitOfLow6 DEF x
<1>3. CASE j >= 6
  <2>1. j - 6 \in 0..1 /\ (j - 6) + 6 = j
    BY <1>3
  <2>2. Bit(x \div 64, j - 6) = Bit(x, (j - 6) + 6)
    BY <1>1, <2>1, BitShifted6
  <2> QED BY <1>1, <1>3, <2>1, <2>2 DEF x
<1> QED BY <1>2, <1>3

-----------------------------------------------------------------------------
(* The bytes of two words of 12 bits and of four words of 10 bits: their   *)
(* bits, and the words that are read from them.                            *)
TwelveBitRange == 0..4095
TenBitRange == 0..1023

LEMMA TwelveBitPair ==
  ASSUME NEW u \in TwelveBitRange, NEW v \in TwelveBitRange, NEW j \in 0..7
  PROVE  /\ Bit(Byte(u), j) = Bit(u, j)
         /\ Bit(Byte((u \div 256) + v * 16), j) = IF j < 4 THEN Bit(u, j + 8) ELSE Bit(v, j - 4)
         /\ Bit(Byte(v \div 16), j) = Bit(v, j + 4)
<1> DEFINE x == (u \div 256) + v * 16
<1>1. /\ u \in Nat /\ v \in Nat /\ u \div 256 \in Nat /\ v \div 16 \in Nat
      /\ x \in Nat /\ x % 16 = u \div 256 /\ x \div 16 = v
  BY DEF TwelveBitRange
<1> HIDE DEF x
<1>2. Bit(Byte(x), j) = Bit(x, j)
  BY <1>1, BitOfByte
<1>3. ASSUME j < 4 PROVE Bit(Byte(x), j) = Bit(u, j + 8)
  <2>1. j \in 0..3
    BY <1>3
  <2>2. Bit(x % 16, j) = Bit(x, j)
    BY <1>1, <2>1, BitOfLow4
  <2>3. Bit(u \div 256, j) = Bit(u, j + 8)
    BY <1>1, <2>1, BitShifted8
  <2> QED BY <1>1, <1>2, <2>2, <2>3, Zenon
<1>4. ASSUME ~(j < 4) PROVE Bit(Byte(x), j) = Bit(v, j - 4)
  <2>1. j - 4 \in 0..7 /\ (j - 4) + 4 = j
    BY <1>4
  <2>2. Bit(x \div 16, j - 4) = Bit(x, (j - 4) + 4)
    BY <1>1, <2>1, BitShifted4
  <2> QED BY <1>1, <1>2, <2>1, <2>2, Zenon
<1>5. Bit(Byte(x), j) = IF j < 4 THEN Bit(u, j + 8) ELSE Bit(v, j - 4)
  BY <1>3, <1>4, Zenon
<1>6. Bit(Byte(u), j) = Bit(u, j)
  BY <1>1, BitOfByte
<1>7. Bit(Byte(v \div 16), j) = Bit(v \div 16, j)
  BY <1>1, BitOfByte
<1>8. Bit(v \div 16, j) = Bit(v, j + 4)
  BY <1>1, BitShifted4
<1> QED BY <1>5, <1>6, <1>7, <1>8 DEF x

LEMMA TenBitQuartet ==
  ASSUME NEW u \in TenBitRange, NEW v \in TenBitRange, NEW w \in TenBitRange,
         NEW x \in TenBitRange, NEW j \in 0..7
  PROVE  /\ Bit(Byte(u), j) = Bit(u, j)
         /\ Bit(Byte((u \div 256) + v * 4), j) = IF j < 2 THEN Bit(u, j + 8) ELSE Bit(v, j - 2)
         /\ Bit(Byte((v \div 64) + w * 16), j) = IF j < 4 THEN Bit(v, j + 6) ELSE Bit(w, j - 4)
         /\ Bit(Byte((w \div 16) + x * 64), j) = IF j < 6 THEN Bit(w, j + 4) ELSE Bit(x, j - 6)
         /\ Bit(Byte(x \div 4), j) = Bit(x, j + 2)
<1>1. /\ u \in Nat /\ v \in Nat /\ w \in Nat /\ x \in Nat /\ x \div 4 \in Nat
      /\ u \div 256 \in 0..3 /\ v \div 64 \in 0..15 /\ w \div 16 \in 0..63
  BY DEF TenBitRange
<1>2. /\ (u \div 256) + v * 4 \in Nat /\ (v \div 64) + w * 16 \in Nat
      /\ (w \div 16) + x * 64 \in Nat
  BY <1>1
<1>3. j < 2 => Bit(u \div 256, j) = Bit(u, j + 8)
  BY <1>1, BitShifted8
<1>4. j < 4 => Bit(v \div 64, j) = Bit(v, j + 6)
  BY <1>1, BitShifted6
<1>5. j < 6 => Bit(w \div 16, j) = Bit(w, j + 4)
  BY <1>1, BitShifted4
<1>6. Bit(x \div 4, j) = Bit(x, j + 2)
  BY <1>1, BitShifted2
<1>7. Bit((u \div 256) + v * 4, j) = IF j < 2 THEN Bit(u \div 256, j) ELSE Bit(v, j - 2)
  <2> DEFINE h == u \div 256
  <2>1. h \in 0..3
    BY <1>1
  <2> HIDE DEF h
  <2>2. Bit(h + v * 4, j) = IF j < 2 THEN Bit(h, j) ELSE Bit(v, j - 2)
    BY <1>1, <2>1, BitJoined2, Zenon
  <2> QED BY <2>2 DEF h
<1>8. Bit((v \div 64) + w * 16, j) = IF j < 4 THEN Bit(v \div 64, j) ELSE Bit(w, j - 4)
  BY <1>1, BitJoined4
<1>9. Bit((w \div 16) + x * 64, j) = IF j < 6 THEN Bit(w \div 16, j) ELSE Bit(x, j - 6)
  BY <1>1, BitJoined6
<1>a. Bit(Byte(u), j) = Bit(u, j)
  BY <1>1, BitOfByte
<1>b. Bit(Byte((u \div 256) + v * 4), j) = Bit((u \div 256) + v * 4, j)
  BY <1>2, BitOfByte
<1>c. Bit(Byte((v \div 64) + w * 16), j) = Bit((v \div 64) + w * 16, j)
  BY <1>2, BitOfByte
<1>d. Bit(Byte((w \div 16) + x * 64), j) = Bit((w \div 16) + x * 64, j)
  BY <1>2, BitOfByte
<1>e. Bit(Byte(x \div 4), j) = Bit(x \div 4, j)
  BY <1>1, BitOfByte
<1> QED BY <1>3, <1>4, <1>5, <1>6, <1>7, <1>8, <1>9, <1>a, <1>b, <1>c, <1>d, <1>e

LEMMA TwelveBitWords ==
  ASSUME NEW u \in TwelveBitRange, NEW v \in TwelveBitRange
  PROVE  /\ (Byte(u) + Byte((u \div 256) + v * 16) * 256) % 4096 = u
         /\ ((Byte((u \div 256) + v * 16) \div 16) + Byte(v \div 16) * 16) % 4096 = v
<1>1. Byte((u \div 256) + v * 16) = (u \div 256) + (v % 16) * 16
  BY DEF Byte, TwelveBitRange
<1>2. Byte(u) + ((u \div 256) + (v % 16) * 16) * 256 = u + (v % 16) * 4096
  BY DEF Byte, TwelveBitRange
<1>3. (u + (v % 16) * 4096) % 4096 = u
  BY DEF TwelveBitRange
<1>4. ((u \div 256) + (v % 16) * 16) \div 16 = v % 16
  BY DEF TwelveBitRange
<1>5. Byte(v \div 16) = v \div 16
  BY DEF Byte, TwelveBitRange
<1>6. (v % 16) + (v \div 16) * 16 = v /\ v % 4096 = v
  BY DEF TwelveBitRange
<1>7. (Byte(u) + Byte((u \div 256) + v * 16) * 256) % 4096 = u
  BY <1>1, <1>2, <1>3
<1>8. ((Byte((u \div 256) + v * 16) \div 16) + Byte(v \div 16) * 16) % 4096 = v
  BY <1>1, <1>4, <1>5, <1>6
<1> QED BY <1>7, <1>8

LEMMA TenBitWords ==
  ASSUME NEW u \in TenBitRange, NEW v \in TenBitRange, NEW w \in TenBitRange,
         NEW x \in TenBitRange
  PROVE  /\ (Byte(u) + Byte((u \div 256) + v * 4) * 256) % 1024 = u
         /\ ((Byte((u \div 256) + v * 4) \div 4) + Byte((v \div 64) + w * 16) * 64) % 1024 = v
         /\ ((Byte((v \div 64) + w * 16) \div 16) + Byte((w \div 16) + x * 64) * 16) % 1024 = w
         /\ ((Byte((w \div 16) + x * 64) \div 64) + Byte(x \div 4) * 4) % 1024 = x
<1>1. Byte((u \div 256) + v * 4) = (u \div 256) + (v % 64) * 4
  BY DEF Byte, TenBitRange
<1>2. Byte((v \div 64) + w * 16) = (v \div 64) + (w % 16) * 16
  BY DEF Byte, TenBitRange
<1>3. Byte((w \div 16) + x * 64) = (w \div 16) + (x % 4) * 64
  BY DEF Byte, TenBitRange
<1>4. Byte(x \div 4) = x \div 4
  BY DEF Byte, TenBitRange
<1>5. Byte(u) + ((u \div 256) + (v % 64) * 4) * 256 = u + (v % 64) * 1024
  BY DEF Byte, TenBitRange
<1>6. (u + (v % 64) * 1024) % 1024 = u
  BY DEF TenBitRange
<1>7. ((u \div 256) + (v % 64) * 4) \div 4 = v % 64
  BY DEF TenBitRange
<1>8. (v % 64) + ((v \div 64) + (w % 16) * 16) * 64 = v + (w % 16) * 1024
  BY DEF TenBitRange
<1>9. (v + (w % 16) * 1024) % 1024 = v
  BY DEF TenBitRange
<1>a. ((v \div 64) + (w % 16) * 16) \div 16 = w % 16
  BY DEF TenBitRange
<1>b. (w % 16) + ((w \div 16) + (x % 4) * 64) * 16 = w + (x % 4) * 1024
  BY DEF TenBitRange
<1>c. (w + (x % 4) * 1024) % 1024 = w
  BY DEF TenBitRange
<1>d. ((w \div 16) + (x % 4) * 64) \div 64 = x % 4
  BY DEF TenBitRange
<1>e. (x % 4) + (x \div 4) * 4 = x /\ x % 1024 = x
  BY DEF TenBitRange
<1>f. (Byte(u) + Byte((u \div 256) + v * 4) * 256) % 1024 = u
  BY <1>1, <1>5, <1>6
<1>g. ((Byte((u \div 256) + v * 4) \div 4) + Byte((v \div 64) + w * 16) * 64) % 1024 = v
  BY <1>1, <1>2, <1>7, <1>8, <1>9
<1>h. ((Byte((v \div 64) + w * 16) \div 16) + Byte((w \div 16) + x * 64) * 16) % 1024 = w
  BY <1>2, <1>3, <1>a, <1>b, <1>c
<1>i. ((Byte((w \div 16) + x * 64) \div 64) + Byte(x \div 4) * 4) % 1024 = x
  BY <1>3, <1>4, <1>d, <1>e
<1> QED BY <1>f, <1>g, <1>h, <1>i

-----------------------------------------------------------------------------
(* Quotients and remainders, and the dimensions of the encodings.          *)
LEMMA DivUnique ==
  ASSUME NEW d \in Nat \ {0}, NEW q \in Nat, NEW r \in 0..(d - 1), NEW n \in Nat,
         n = d * q + r
  PROVE  n \div d = q /\ n % d = r
<1> DEFINE a == n \div d
           b == n % d
<1>1. a \in Int /\ b \in 0..(d - 1) /\ n = d * a + b
  OBVIOUS
<1> HIDE DEF a, b
<1>2. d * (a - q) = r - b
  BY <1>1
<1>3. ~(a - q >= 1)
  <2> SUFFICES ASSUME a - q >= 1 PROVE FALSE
    OBVIOUS
  <2>1. d * (a - q) >= d
    BY <1>1
  <2> QED BY <1>1, <1>2, <2>1
<1>4. ~(a - q <= -1)
  <2> SUFFICES ASSUME a - q <= -1 PROVE FALSE
    OBVIOUS
  <2>1. d * (a - q) <= -d
    BY <1>1
  <2> QED BY <1>1, <1>2, <2>1
<1>5. a = q
  BY <1>1, <1>3, <1>4
<1> QED BY <1>1, <1>5 DEF a, b

LEMMA DivPlace ==
  ASSUME NEW d \in Nat \ {0}, NEW m \in Nat, NEW n \in 0..(m * d - 1)
  PROVE  n \div d \in 0..(m - 1) /\ n % d \in 0..(d - 1) /\ n = d * (n \div d) + (n % d)
<1> DEFINE a == n \div d
           b == n % d
<1>0. m * d \in Nat
  OBVIOUS
<1>1. a \in Nat /\ b \in 0..(d - 1) /\ n = d * a + b
  BY <1>0
<1> HIDE DEF a, b
<1>2. ~(a >= m)
  <2> SUFFICES ASSUME a >= m PROVE FALSE
    OBVIOUS
  <2>1. d * a >= m * d
    BY <1>1
  <2> QED BY <1>0, <1>1, <2>1
<1> QED BY <1>1, <1>2 DEF a, b

(* Pairs of coefficients of a polynomial, and of a vector.                 *)
Pairs == N \div 2
AllPairs == K * Pairs

(* Groups of four coefficients of a vector.                                *)
AllQuartets == K * (N \div 4)

LEMMA Dimensions ==
  /\ Pairs \in Nat \ {0} /\ N \in Nat \ {0} /\ N = 2 * Pairs
  /\ K \in Nat \ {0} /\ AllPairs \in Nat \ {0} /\ AllQuartets \in Nat \ {0}
  /\ N * K = 2 * AllPairs /\ N * K = 4 * AllQuartets
  /\ PolyBytes = 3 * Pairs /\ PolyVecBytes = 3 * AllPairs
  /\ VecCompressedBytes = 5 * AllQuartets /\ CompressedBytes = Pairs
<1>1. PICK e \in Nat \ {0} : N = 8 * e
  BY WordsAssumption
<1>2. N \div 2 = 4 * e /\ N \div 4 = 2 * e
  BY <1>1
<1>3. K \in Nat \ {0}
  BY WordsAssumption
<1>4. Pairs = 4 * e /\ AllPairs = K * (4 * e) /\ AllQuartets = K * (2 * e)
  BY <1>2 DEF Pairs, AllPairs, AllQuartets
<1>5. PICK f \in Nat \ {0} : f = K * e
  BY <1>3
<1>6. K * (4 * e) = 4 * f /\ K * (2 * e) = 2 * f /\ (8 * e) * K = 8 * f
      /\ K * (3 * (4 * e)) = 12 * f /\ (K * 5) * (2 * e) = 10 * f
  BY <1>3, <1>5
<1>7. PolyBytes = 3 * (4 * e) /\ PolyVecBytes = K * (3 * (4 * e))
      /\ VecCompressedBytes = (K * 5) * (2 * e) /\ CompressedBytes = 4 * e
  BY <1>2 DEF PolyBytes, PolyVecBytes, VecCompressedBytes, CompressedBytes
<1> QED BY <1>1, <1>3, <1>4, <1>5, <1>6, <1>7

-----------------------------------------------------------------------------
(* The encodings as the proofs know them: C, the reference and Rust write  *)
(* and read a key alike, and read a compressed vector alike.               *)
KeyBytes(v) ==
  [x \in 0..(PolyVecBytes - 1) |->
     [y \in 0..(PolyBytes - 1) |->
        TwelveBitByte([i \in 0..(N - 1) |-> Positive(v[x \div PolyBytes][i])], y)]
       [x % PolyBytes]]

KeyRead(buf) ==
  [p \in 0..(K - 1) |->
     [i \in 0..(N - 1) |-> TwelveBitWord(From(buf, p * PolyBytes, PolyBytes), i)]]

VectorRead(buf) ==
  [p \in 0..(K - 1) |->
     [i \in 0..(N - 1) |-> (TenBitWord(buf, p * N + i) * Q + 512) \div 1024]]

LEMMA SameKeyBytes ==
  ASSUME NEW v
  PROVE  /\ C!PolyVecToBytes(v) = KeyBytes(v) /\ Ref!PolyVecToBytes(v) = KeyBytes(v)
         /\ Rust!PolyVecToBytes(v) = KeyBytes(v)
BY DEF KeyBytes, C!PolyVecToBytes, C!PolyToBytes, C!Buffer, C!PolyBytes,
   C!PolyVecBytes, C!TwelveBitByte, C!Byte, C!Positive, C!Q, Ref!PolyVecToBytes,
   Ref!PolyToBytes, Ref!Buffer, Ref!PolyBytes, Ref!PolyVecBytes, Ref!TwelveBitByte,
   Ref!Byte, Ref!Positive, Ref!Q, Rust!PolyVecToBytes, Rust!PolyToBytes, Rust!Buffer,
   Rust!PolyBytes, Rust!PolyVecBytes, Rust!TwelveBitByte, Rust!Byte, Rust!Positive,
   Rust!Q, PolyBytes, PolyVecBytes, TwelveBitByte, Byte, Positive, Q

LEMMA SameKeyRead ==
  ASSUME NEW b
  PROVE  /\ C!PolyVecFromBytes(b) = KeyRead(b) /\ Ref!PolyVecFromBytes(b) = KeyRead(b)
         /\ Rust!PolyVecFromBytes(b) = KeyRead(b)
BY Zenon DEF KeyRead, C!PolyVecFromBytes, C!PolyFromBytes, C!Vector, C!Poly, C!From,
   C!PolyBytes, C!TwelveBitWord, Ref!PolyVecFromBytes, Ref!PolyFromBytes, Ref!Vector,
   Ref!Poly, Ref!From, Ref!PolyBytes, Ref!TwelveBitWord, Rust!PolyVecFromBytes,
   Rust!PolyFromBytes, Rust!Vector, Rust!Poly, Rust!From, Rust!PolyBytes,
   Rust!TwelveBitWord, PolyBytes, TwelveBitWord, From

LEMMA SameVectorRead ==
  ASSUME NEW b
  PROVE  /\ C!PolyVecDecompress(b) = VectorRead(b) /\ Ref!PolyVecDecompress(b) = VectorRead(b)
         /\ Rust!PolyVecDecompress(b) = VectorRead(b)
BY Zenon DEF VectorRead, C!PolyVecDecompress, C!Vector, C!TenBitWord, C!Q,
   Ref!PolyVecDecompress, Ref!Vector, Ref!TenBitWord, Ref!Q, Rust!PolyVecDecompress,
   Rust!Vector, Rust!TenBitWord, Rust!Q, TenBitWord, Q

-----------------------------------------------------------------------------
(* The words of a vector in a key and in a ciphertext, and the buffers     *)
(* that hold pairs of the one and quartets of the other.                   *)
VectorType == [0..(K - 1) -> [0..(N - 1) -> Reduced]]

Places == 0..(N * K - 1)
KeyWords(v) == [x \in Places |-> Coeff(v, x) % Q]
VectorWords(v) == [x \in Places |-> Rounded(Coeff(v, x))]

TwelveBits(buf, t) ==
  \A h \in 0..(AllPairs - 1) :
    /\ buf[3 * h] = Byte(t[2 * h])
    /\ buf[3 * h + 1] = Byte((t[2 * h] \div 256) + t[2 * h + 1] * 16)
    /\ buf[3 * h + 2] = Byte(t[2 * h + 1] \div 16)

TenBits(buf, t) ==
  \A h \in 0..(AllQuartets - 1) :
    /\ buf[5 * h] = Byte(t[4 * h])
    /\ buf[5 * h + 1] = Byte((t[4 * h] \div 256) + t[4 * h + 1] * 4)
    /\ buf[5 * h + 2] = Byte((t[4 * h + 1] \div 64) + t[4 * h + 2] * 16)
    /\ buf[5 * h + 3] = Byte((t[4 * h + 2] \div 16) + t[4 * h + 3] * 64)
    /\ buf[5 * h + 4] = Byte(t[4 * h + 3] \div 4)

LEMMA PositiveReduces ==
  ASSUME NEW c \in Reduced
  PROVE  Positive(c) = c % Q /\ c % Q \in 0..(Q - 1)
<1>1. c \in Int /\ c > -3329 /\ c < 3329
  BY DEF Reduced, Q
<1>2. CASE c < 0
  <2>1. c % 3329 = c + 3329
    BY <1>1, <1>2
  <2> QED BY <1>1, <1>2, <2>1 DEF Positive, Q
<1>3. CASE ~(c < 0)
  <2>1. c % 3329 = c
    BY <1>1, <1>3
  <2> QED BY <1>1, <1>3, <2>1 DEF Positive, Q
<1> QED BY <1>2, <1>3

LEMMA CoeffType ==
  ASSUME NEW v \in VectorType, NEW x \in Places
  PROVE  Coeff(v, x) \in Reduced
<1>1. x \in 0..(K * N - 1) /\ K \in Nat /\ N \in Nat \ {0}
  BY Dimensions DEF Places
<1>2. x \div N \in 0..(K - 1) /\ x % N \in 0..(N - 1)
  BY <1>1, DivPlace
<1> QED BY <1>2 DEF Coeff, VectorType

LEMMA KeyWordsType ==
  ASSUME NEW v \in VectorType
  PROVE  KeyWords(v) \in [Places -> TwelveBitRange]
<1>1. ASSUME NEW x \in Places PROVE Coeff(v, x) % Q \in TwelveBitRange
  BY CoeffType, PositiveReduces DEF TwelveBitRange, Q
<1> QED BY <1>1 DEF KeyWords

(* A vector that was laid out polynomial after polynomial, three bytes for *)
(* two coefficients.                                                       *)
LEMMA KeyPlace ==
  ASSUME NEW h \in 0..(AllPairs - 1), NEW s \in 0..2
  PROVE  LET p == h \div Pairs
             g == h % Pairs
         IN  /\ 3 * h + s \in 0..(PolyVecBytes - 1)
             /\ p \in 0..(K - 1) /\ g \in 0..(Pairs - 1)
             /\ (3 * h + s) \div PolyBytes = p /\ (3 * h + s) % PolyBytes = 3 * g + s
             /\ 3 * h + s = p * PolyBytes + (3 * g + s)
             /\ 3 * g + s \in 0..(PolyBytes - 1)
             /\ 2 * g \in 0..(N - 1) /\ 2 * g + 1 \in 0..(N - 1)
             /\ 2 * h \in Places /\ 2 * h + 1 \in Places
             /\ (2 * h) \div N = p /\ (2 * h) % N = 2 * g
             /\ (2 * h + 1) \div N = p /\ (2 * h + 1) % N = 2 * g + 1
<1> DEFINE p == h \div Pairs
           g == h % Pairs
<1>1. p \in 0..(K - 1) /\ g \in 0..(Pairs - 1) /\ h = Pairs * p + g
  BY Dimensions, DivPlace DEF AllPairs
<1> HIDE DEF p, g
<1>2. /\ Pairs \in Nat \ {0} /\ N = 2 * Pairs /\ PolyBytes = 3 * Pairs
      /\ PolyVecBytes = 3 * AllPairs /\ AllPairs \in Nat \ {0} /\ N * K = 2 * AllPairs
  BY Dimensions
<1>3. /\ 3 * h + s = PolyBytes * p + (3 * g + s)
      /\ 2 * h = N * p + 2 * g /\ 2 * h + 1 = N * p + (2 * g + 1)
  <2>1. 3 * (Pairs * p + g) + s = (3 * Pairs) * p + (3 * g + s)
    BY <1>1, <1>2
  <2>2. 2 * (Pairs * p + g) = (2 * Pairs) * p + 2 * g
    BY <1>1, <1>2
  <2> QED BY <1>1, <1>2, <2>1, <2>2
<1>4. /\ 3 * g + s \in 0..(PolyBytes - 1)
      /\ 2 * g \in 0..(N - 1) /\ 2 * g + 1 \in 0..(N - 1)
      /\ 3 * h + s \in 0..(PolyVecBytes - 1)
      /\ 2 * h \in Places /\ 2 * h + 1 \in Places
  BY <1>1, <1>2 DEF Places
<1>5. PolyBytes \in Nat \ {0} /\ N \in Nat \ {0} /\ p \in Nat
  BY <1>1, <1>2
<1>6. (3 * h + s) \div PolyBytes = p /\ (3 * h + s) % PolyBytes = 3 * g + s
  <2> DEFINE n == 3 * h + s
             r == 3 * g + s
  <2>1. n \in Nat /\ r \in 0..(PolyBytes - 1) /\ n = PolyBytes * p + r
    BY <1>3, <1>4
  <2> HIDE DEF n, r
  <2>2. n \div PolyBytes = p /\ n % PolyBytes = r
    BY <1>5, <2>1, DivUnique
  <2> QED BY <2>2 DEF n, r
<1>7. (2 * h) \div N = p /\ (2 * h) % N = 2 * g
  <2> DEFINE n == 2 * h
             r == 2 * g
  <2>1. n \in Nat /\ r \in 0..(N - 1) /\ n = N * p + r
    BY <1>3, <1>4
  <2> HIDE DEF n, r
  <2>2. n \div N = p /\ n % N = r
    BY <1>5, <2>1, DivUnique
  <2> QED BY <2>2 DEF n, r
<1>8. (2 * h + 1) \div N = p /\ (2 * h + 1) % N = 2 * g + 1
  <2> DEFINE n == 2 * h + 1
             r == 2 * g + 1
  <2>1. n \in Nat /\ r \in 0..(N - 1) /\ n = N * p + r
    BY <1>3, <1>4
  <2> HIDE DEF n, r
  <2>2. n \div N = p /\ n % N = r
    BY <1>5, <2>1, DivUnique
  <2> QED BY <2>2 DEF n, r
<1>9. 3 * h + s = p * PolyBytes + (3 * g + s)
  BY <1>3, <1>5
<1> QED BY <1>1, <1>4, <1>6, <1>7, <1>8, <1>9 DEF p, g

LEMMA KeyEncoded ==
  ASSUME NEW v \in VectorType
  PROVE  TwelveBits(KeyBytes(v), KeyWords(v))
<1>1. ASSUME NEW h \in 0..(AllPairs - 1)
      PROVE  /\ KeyBytes(v)[3 * h] = Byte(KeyWords(v)[2 * h])
             /\ KeyBytes(v)[3 * h + 1]
                  = Byte((KeyWords(v)[2 * h] \div 256) + KeyWords(v)[2 * h + 1] * 16)
             /\ KeyBytes(v)[3 * h + 2] = Byte(KeyWords(v)[2 * h + 1] \div 16)
  <2> DEFINE p == h \div Pairs
             g == h % Pairs
             t == [i \in 0..(N - 1) |-> Positive(v[p][i])]
  <2>1. /\ p \in 0..(K - 1) /\ g \in Nat
        /\ 2 * g \in 0..(N - 1) /\ 2 * g + 1 \in 0..(N - 1)
        /\ 2 * h \in Places /\ 2 * h + 1 \in Places
        /\ (2 * h) \div N = p /\ (2 * h) % N = 2 * g
        /\ (2 * h + 1) \div N = p /\ (2 * h + 1) % N = 2 * g + 1
    BY KeyPlace, 0 \in 0..2
  <2>2. ASSUME NEW s \in 0..2
        PROVE  /\ 3 * h + s \in 0..(PolyVecBytes - 1)
               /\ (3 * h + s) \div PolyBytes = p /\ (3 * h + s) % PolyBytes = 3 * g + s
               /\ 3 * g + s \in 0..(PolyBytes - 1)
    BY KeyPlace
  <2> HIDE DEF p, g
  <2>3. t[2 * g] = KeyWords(v)[2 * h] /\ t[2 * g + 1] = KeyWords(v)[2 * h + 1]
    <3>1. Coeff(v, 2 * h) = v[p][2 * g] /\ Coeff(v, 2 * h + 1) = v[p][2 * g + 1]
      BY <2>1 DEF Coeff
    <3>2. Coeff(v, 2 * h) \in Reduced /\ Coeff(v, 2 * h + 1) \in Reduced
      BY <2>1, CoeffType
    <3>3. /\ Positive(Coeff(v, 2 * h)) = Coeff(v, 2 * h) % Q
          /\ Positive(Coeff(v, 2 * h + 1)) = Coeff(v, 2 * h + 1) % Q
      BY <3>2, PositiveReduces
    <3> QED BY <2>1, <3>1, <3>3, Zenon DEF KeyWords
  <2>4. ASSUME NEW s \in 0..2
        PROVE  KeyBytes(v)[3 * h + s] = TwelveBitByte(t, 3 * g + s)
    BY <2>2, Zenon DEF KeyBytes
  <2> HIDE DEF t
  <2>5. /\ (3 * g) % 3 = 0 /\ (3 * g + 1) % 3 = 1 /\ (3 * g + 2) % 3 = 2
        /\ 2 * ((3 * g) \div 3) = 2 * g /\ 2 * ((3 * g + 1) \div 3) = 2 * g
        /\ 2 * ((3 * g + 2) \div 3) = 2 * g
    BY <2>1
  <2>6. KeyBytes(v)[3 * h] = TwelveBitByte(t, 3 * g)
    <3>1. 3 * h + 0 = 3 * h /\ 3 * g + 0 = 3 * g /\ 0 \in 0..2
      BY <2>1, Dimensions
    <3>2. KeyBytes(v)[3 * h + 0] = TwelveBitByte(t, 3 * g + 0)
      BY <2>4, <3>1
    <3> QED BY <3>1, <3>2, Zenon
  <2>7. TwelveBitByte(t, 3 * g) = Byte(t[2 * g])
    BY <2>5 DEF TwelveBitByte
  <2>8. TwelveBitByte(t, 3 * g + 1) = Byte((t[2 * g] \div 256) + t[2 * g + 1] * 16)
    BY <2>5 DEF TwelveBitByte
  <2>9. TwelveBitByte(t, 3 * g + 2) = Byte(t[2 * g + 1] \div 16)
    BY <2>5 DEF TwelveBitByte
  <2>a. 1 \in 0..2 /\ 2 \in 0..2
    OBVIOUS
  <2>b. /\ KeyBytes(v)[3 * h + 1] = TwelveBitByte(t, 3 * g + 1)
        /\ KeyBytes(v)[3 * h + 2] = TwelveBitByte(t, 3 * g + 2)
    BY <2>4, <2>a
  <2> QED BY <2>3, <2>6, <2>7, <2>8, <2>9, <2>b, Zenon
<1> QED BY <1>1 DEF TwelveBits

-----------------------------------------------------------------------------
(* Compression: the products by rounded reciprocals of Q are divisions.    *)
LEMMA ScaledTen ==
  ASSUME NEW x \in Nat, NEW r \in Nat,
         r * 4294967296 <= x * 1290167, x * 1290167 < (r + 1) * 4294967296
  PROVE  Scaled(x, 1290167, 65536) = r
<1> DEFINE b0 == Byte(x)
           b1 == Byte(x \div 256)
           b2 == x \div 65536
           low == (b0 * 1290167) \div 256
           middle == (b1 * 1290167 + low) \div 256
           high == (b2 * 1290167 + middle) \div 65536
<1>1. b0 \in Nat /\ b1 \in Nat /\ b2 \in Nat /\ x = b0 + 256 * b1 + 65536 * b2
  BY DEF Byte
<1> HIDE DEF b0, b1, b2
<1>2. low \in Nat /\ 256 * low <= b0 * 1290167 /\ b0 * 1290167 < 256 * low + 256
  BY <1>1
<1> HIDE DEF low
<1>3. /\ middle \in Nat /\ 256 * middle <= b1 * 1290167 + low
      /\ b1 * 1290167 + low < 256 * middle + 256
  BY <1>1, <1>2
<1> HIDE DEF middle
<1>4. /\ high \in Nat /\ 65536 * high <= b2 * 1290167 + middle
      /\ b2 * 1290167 + middle < 65536 * high + 65536
  BY <1>1, <1>3
<1> HIDE DEF high
<1>5. 4294967296 * high <= x * 1290167 /\ x * 1290167 < 4294967296 * (high + 1)
  BY <1>1, <1>2, <1>3, <1>4
<1>6. high = r
  BY <1>4, <1>5
<1> QED BY <1>6 DEF Scaled, high, middle, low, b0, b1, b2

LEMMA ScaledFour ==
  ASSUME NEW x \in Nat, NEW r \in Nat,
         r * 268435456 <= x * 80635, x * 80635 < (r + 1) * 268435456
  PROVE  Scaled(x, 80635, 4096) = r
<1> DEFINE b0 == Byte(x)
           b1 == Byte(x \div 256)
           b2 == x \div 65536
           low == (b0 * 80635) \div 256
           middle == (b1 * 80635 + low) \div 256
           high == (b2 * 80635 + middle) \div 4096
<1>1. b0 \in Nat /\ b1 \in Nat /\ b2 \in Nat /\ x = b0 + 256 * b1 + 65536 * b2
  BY DEF Byte
<1> HIDE DEF b0, b1, b2
<1>2. low \in Nat /\ 256 * low <= b0 * 80635 /\ b0 * 80635 < 256 * low + 256
  BY <1>1
<1> HIDE DEF low
<1>3. /\ middle \in Nat /\ 256 * middle <= b1 * 80635 + low
      /\ b1 * 80635 + low < 256 * middle + 256
  BY <1>1, <1>2
<1> HIDE DEF middle
<1>4. /\ high \in Nat /\ 4096 * high <= b2 * 80635 + middle
      /\ b2 * 80635 + middle < 4096 * high + 4096
  BY <1>1, <1>3
<1> HIDE DEF high
<1>5. 268435456 * high <= x * 80635 /\ x * 80635 < 268435456 * (high + 1)
  BY <1>1, <1>2, <1>3, <1>4
<1>6. high = r
  BY <1>4, <1>5
<1> QED BY <1>6 DEF Scaled, high, middle, low, b0, b1, b2

(* The dividend is rounded with Q / 2 before a division, and with one more *)
(* before a product: no residue falls between the two.                     *)
Quotient(u) == (1024 * u + Q \div 2) \div Q
ScaledQuotient(u) == Scaled(1024 * u + 1665, 1290167, 65536)

LEMMA TenBitQuotient ==
  ASSUME NEW u \in 0..(Q - 1)
  PROVE  /\ ScaledQuotient(u) = Quotient(u)
         /\ Quotient(u) \in Nat /\ Quotient(u) <= 1024
         /\ 3329 * Quotient(u) <= 1024 * u + 1664
         /\ 1024 * u + 1664 < 3329 * Quotient(u) + 3329
<1> DEFINE r == (1024 * u + 1664) \div 3329
<1>1. u \in Nat /\ u <= 3328
  BY DEF Q
<1>2. r \in Nat /\ 3329 * r <= 1024 * u + 1664 /\ 1024 * u + 1664 < 3329 * r + 3329
  BY <1>1
<1>3. Quotient(u) = r
  BY DEF Quotient, Q
<1> HIDE DEF r
<1>4. r <= 1024 /\ (r = 1024 => u = 3328)
  BY <1>1, <1>2
<1>5. ~(1024 * u + 1664 = 3329 * r /\ r > 953)
  <2> SUFFICES ASSUME 1024 * u + 1664 = 3329 * r, r > 953 PROVE FALSE
    OBVIOUS
  <2>1. r = 128 * (8 * u + 13 - 26 * r)
    BY <1>1, <1>2
  <2>2. 8 * u + 13 - 26 * r = 8
    BY <1>1, <1>2, <1>4, <2>1
  <2> QED BY <1>1, <1>2, <2>1, <2>2
<1>6. r * 4294967296 <= (1024 * u + 1665) * 1290167
  BY <1>1, <1>2, <1>4, <1>5
<1>7. (1024 * u + 1665) * 1290167 < (r + 1) * 4294967296
  BY <1>1, <1>2, <1>4
<1>8. ScaledQuotient(u) = r
  BY <1>1, <1>2, <1>6, <1>7, ScaledTen DEF ScaledQuotient
<1> QED BY <1>2, <1>3, <1>4, <1>8

Quotient4(u) == (16 * u + Q \div 2) \div Q
ScaledQuotient4(u) == Scaled(16 * u + 1665, 80635, 4096)

LEMMA FourBitQuotient ==
  ASSUME NEW u \in 0..(Q - 1)
  PROVE  /\ ScaledQuotient4(u) = Quotient4(u)
         /\ Quotient4(u) \in Nat /\ Quotient4(u) <= 16
         /\ 3329 * Quotient4(u) <= 16 * u + 1664
         /\ 16 * u + 1664 < 3329 * Quotient4(u) + 3329
<1> DEFINE r == (16 * u + 1664) \div 3329
<1>1. u \in Nat /\ u <= 3328
  BY DEF Q
<1>2. r \in Nat /\ 3329 * r <= 16 * u + 1664 /\ 16 * u + 1664 < 3329 * r + 3329
  BY <1>1
<1>3. Quotient4(u) = r
  BY DEF Quotient4, Q
<1> HIDE DEF r
<1>4. r <= 16
  BY <1>1, <1>2
<1>5. r * 268435456 <= (16 * u + 1665) * 80635
  BY <1>1, <1>2, <1>4
<1>6. (16 * u + 1665) * 80635 < (r + 1) * 268435456
  BY <1>1, <1>2, <1>4
<1>7. ScaledQuotient4(u) = r
  BY <1>1, <1>2, <1>5, <1>6, ScaledFour DEF ScaledQuotient4
<1> QED BY <1>2, <1>3, <1>4, <1>7

(* A compressed vector: all of them write the same bytes.                  *)
VectorBytes(v) ==
  [x \in 0..(VecCompressedBytes - 1) |-> TenBitByte(VectorWords(v), x)]

LEMMA VectorSteps ==
  ASSUME NEW v
  PROVE  /\ C!PolyVecCompress(v) =
              [x \in 0..(VecCompressedBytes - 1) |->
                 TenBitByte([i \in Places |->
                    ScaledQuotient(Positive(Coeff(v, i))) % 1024], x)]
         /\ Ref!PolyVecCompress(v) = C!PolyVecCompress(v)
         /\ Rust!PolyVecCompress(v) =
              [x \in 0..(VecCompressedBytes - 1) |->
                 TenBitByte([i \in Places |->
                    Quotient(Positive(Coeff(v, i))) % 1024], x)]
<1>1. C!PolyVecCompress(v) =
        [x \in 0..(VecCompressedBytes - 1) |->
           TenBitByte([i \in Places |->
              ScaledQuotient(Positive(Coeff(v, i))) % 1024], x)]
  BY SMT DEF ScaledQuotient, C!PolyVecCompress, C!Buffer, C!VecCompressedBytes, C!TenBitByte, C!Byte,
     C!Positive, C!Coeff, C!Scaled, C!Q, Places, VecCompressedBytes, TenBitByte, Byte,
     Positive, Coeff, Scaled, Q
<1>2. Ref!PolyVecCompress(v) = C!PolyVecCompress(v)
  BY SMT DEF C!PolyVecCompress, C!Buffer, C!VecCompressedBytes, C!TenBitByte, C!Byte,
     C!Positive, C!Coeff, C!Scaled, C!Q, Ref!PolyVecCompress, Ref!Buffer,
     Ref!VecCompressedBytes, Ref!TenBitByte, Ref!Byte, Ref!Positive, Ref!Coeff,
     Ref!Scaled, Ref!Q
<1>3. Rust!PolyVecCompress(v) =
        [x \in 0..(VecCompressedBytes - 1) |->
           TenBitByte([i \in Places |->
              Quotient(Positive(Coeff(v, i))) % 1024], x)]
  BY SMT DEF Quotient, Rust!PolyVecCompress, Rust!Buffer, Rust!VecCompressedBytes,
     Rust!TenBitByte, Rust!Byte, Rust!Positive, Rust!Coeff, Rust!Q, Places,
     VecCompressedBytes, TenBitByte, Byte, Positive, Coeff, Q
<1> QED BY <1>1, <1>2, <1>3

LEMMA SameVectorBytes ==
  ASSUME NEW v \in VectorType
  PROVE  /\ C!PolyVecCompress(v) = VectorBytes(v) /\ Ref!PolyVecCompress(v) = VectorBytes(v)
         /\ Rust!PolyVecCompress(v) = VectorBytes(v)
<1>1. ASSUME NEW i \in Places
      PROVE  /\ ScaledQuotient(Positive(Coeff(v, i))) % 1024
                  = Rounded(Coeff(v, i))
             /\ Quotient(Positive(Coeff(v, i))) % 1024
                  = Rounded(Coeff(v, i))
  <2> DEFINE u == Coeff(v, i) % Q
  <2>1. Positive(Coeff(v, i)) = u /\ u \in 0..(Q - 1)
    BY CoeffType, PositiveReduces
  <2>2. Rounded(Coeff(v, i)) = Quotient(u) % 1024
    BY DEF Rounded, Quotient
  <2> HIDE DEF u
  <2>3. ScaledQuotient(u) = Quotient(u)
    BY <2>1, TenBitQuotient
  <2> QED BY <2>1, <2>2, <2>3
<1>2. [i \in Places |-> ScaledQuotient(Positive(Coeff(v, i))) % 1024]
        = VectorWords(v)
  BY <1>1 DEF VectorWords
<1>3. [i \in Places |-> Quotient(Positive(Coeff(v, i))) % 1024]
        = VectorWords(v)
  BY <1>1 DEF VectorWords
<1>4. /\ C!PolyVecCompress(v) = VectorBytes(v)
      /\ Ref!PolyVecCompress(v) = C!PolyVecCompress(v)
  BY <1>2, VectorSteps DEF VectorBytes
<1>5. Rust!PolyVecCompress(v) = VectorBytes(v)
  BY <1>3, VectorSteps DEF VectorBytes
<1> QED BY <1>4, <1>5

LEMMA VectorWordsType ==
  ASSUME NEW v \in VectorType
  PROVE  VectorWords(v) \in [Places -> TenBitRange]
<1>1. ASSUME NEW x \in Places PROVE Rounded(Coeff(v, x)) \in TenBitRange
  <2> DEFINE u == Coeff(v, x) % Q
             d == Quotient(u)
  <2>1. u \in 0..(Q - 1)
    BY CoeffType, PositiveReduces
  <2>2. Rounded(Coeff(v, x)) = d % 1024
    BY DEF Rounded, Quotient
  <2> HIDE DEF u
  <2>3. d \in Nat
    BY <2>1, TenBitQuotient
  <2> HIDE DEF d
  <2> QED BY <2>2, <2>3 DEF TenBitRange
<1> QED BY <1>1 DEF VectorWords

LEMMA QuartetPlace ==
  ASSUME NEW h \in 0..(AllQuartets - 1)
  PROVE  /\ 4 * h \in Places /\ 4 * h + 1 \in Places /\ 4 * h + 2 \in Places
         /\ 4 * h + 3 \in Places
         /\ 5 * h \in 0..(VecCompressedBytes - 1) /\ 5 * h + 1 \in 0..(VecCompressedBytes - 1)
         /\ 5 * h + 2 \in 0..(VecCompressedBytes - 1)
         /\ 5 * h + 3 \in 0..(VecCompressedBytes - 1)
         /\ 5 * h + 4 \in 0..(VecCompressedBytes - 1)
<1>1. AllQuartets \in Nat /\ N * K = 4 * AllQuartets /\ VecCompressedBytes = 5 * AllQuartets
  BY Dimensions
<1> QED BY <1>1 DEF Places

LEMMA VectorEncoded ==
  ASSUME NEW v \in VectorType
  PROVE  TenBits(VectorBytes(v), VectorWords(v))
<1> DEFINE t == VectorWords(v)
<1> HIDE DEF t
<1>1. ASSUME NEW h \in 0..(AllQuartets - 1)
      PROVE  /\ TenBitByte(t, 5 * h) = Byte(t[4 * h])
             /\ TenBitByte(t, 5 * h + 1) = Byte((t[4 * h] \div 256) + t[4 * h + 1] * 4)
             /\ TenBitByte(t, 5 * h + 2) = Byte((t[4 * h + 1] \div 64) + t[4 * h + 2] * 16)
             /\ TenBitByte(t, 5 * h + 3) = Byte((t[4 * h + 2] \div 16) + t[4 * h + 3] * 64)
             /\ TenBitByte(t, 5 * h + 4) = Byte(t[4 * h + 3] \div 4)
  <2>1. h \in Nat
    BY Dimensions
  <2>2. /\ (5 * h) % 5 = 0 /\ (5 * h + 1) % 5 = 1 /\ (5 * h + 2) % 5 = 2
        /\ (5 * h + 3) % 5 = 3 /\ (5 * h + 4) % 5 = 4
        /\ 4 * ((5 * h) \div 5) = 4 * h /\ 4 * ((5 * h + 1) \div 5) = 4 * h
        /\ 4 * ((5 * h + 2) \div 5) = 4 * h /\ 4 * ((5 * h + 3) \div 5) = 4 * h
        /\ 4 * ((5 * h + 4) \div 5) = 4 * h
    BY <2>1
  <2>3. TenBitByte(t, 5 * h) = Byte(t[4 * h])
    BY <2>2 DEF TenBitByte
  <2>4. TenBitByte(t, 5 * h + 1) = Byte((t[4 * h] \div 256) + t[4 * h + 1] * 4)
    BY <2>2 DEF TenBitByte
  <2>5. TenBitByte(t, 5 * h + 2) = Byte((t[4 * h + 1] \div 64) + t[4 * h + 2] * 16)
    BY <2>2 DEF TenBitByte
  <2>6. TenBitByte(t, 5 * h + 3) = Byte((t[4 * h + 2] \div 16) + t[4 * h + 3] * 64)
    BY <2>2 DEF TenBitByte
  <2>7. TenBitByte(t, 5 * h + 4) = Byte(t[4 * h + 3] \div 4)
    BY <2>2 DEF TenBitByte
  <2> QED BY <2>3, <2>4, <2>5, <2>6, <2>7, Zenon
<1>2. ASSUME NEW x \in 0..(VecCompressedBytes - 1)
      PROVE  VectorBytes(v)[x] = TenBitByte(t, x)
  BY DEF VectorBytes, t
<1>3. ASSUME NEW h \in 0..(AllQuartets - 1)
      PROVE  /\ VectorBytes(v)[5 * h] = TenBitByte(t, 5 * h)
             /\ VectorBytes(v)[5 * h + 1] = TenBitByte(t, 5 * h + 1)
             /\ VectorBytes(v)[5 * h + 2] = TenBitByte(t, 5 * h + 2)
             /\ VectorBytes(v)[5 * h + 3] = TenBitByte(t, 5 * h + 3)
             /\ VectorBytes(v)[5 * h + 4] = TenBitByte(t, 5 * h + 4)
  BY <1>2, QuartetPlace, Zenon
<1>4. ASSUME NEW h \in 0..(AllQuartets - 1)
      PROVE  /\ VectorBytes(v)[5 * h] = Byte(t[4 * h])
             /\ VectorBytes(v)[5 * h + 1] = Byte((t[4 * h] \div 256) + t[4 * h + 1] * 4)
             /\ VectorBytes(v)[5 * h + 2] = Byte((t[4 * h + 1] \div 64) + t[4 * h + 2] * 16)
             /\ VectorBytes(v)[5 * h + 3] = Byte((t[4 * h + 2] \div 16) + t[4 * h + 3] * 64)
             /\ VectorBytes(v)[5 * h + 4] = Byte(t[4 * h + 3] \div 4)
  <2>1. VectorBytes(v)[5 * h] = Byte(t[4 * h])
    BY <1>1, <1>3
  <2>2. VectorBytes(v)[5 * h + 1] = Byte((t[4 * h] \div 256) + t[4 * h + 1] * 4)
    BY <1>1, <1>3
  <2>3. VectorBytes(v)[5 * h + 2] = Byte((t[4 * h + 1] \div 64) + t[4 * h + 2] * 16)
    BY <1>1, <1>3
  <2>4. VectorBytes(v)[5 * h + 3] = Byte((t[4 * h + 2] \div 16) + t[4 * h + 3] * 64)
    BY <1>1, <1>3
  <2>5. VectorBytes(v)[5 * h + 4] = Byte(t[4 * h + 3] \div 4)
    BY <1>1, <1>3
  <2> QED BY <2>1, <2>2, <2>3, <2>4, <2>5, Zenon
<1>5. TenBits(VectorBytes(v), t)
  BY <1>4, Zenon DEF TenBits
<1> QED BY <1>5 DEF t

-----------------------------------------------------------------------------
(* What such buffers hold, bit by bit and word by word.                    *)
LEMMA TwelveBitStream ==
  ASSUME NEW buf, NEW t \in [Places -> TwelveBitRange], TwelveBits(buf, t),
         NEW i \in 0..(24 * AllPairs - 1)
  PROVE  StreamBit(buf, i) = Bit(t[i \div 12], i % 12)
<1> DEFINE h == i \div 24
           s == (i % 24) \div 8
           j == i % 8
<1>1. AllPairs \in Nat /\ N * K = 2 * AllPairs
  BY Dimensions
<1>2. /\ h \in 0..(AllPairs - 1) /\ s \in 0..2 /\ j \in 0..7
      /\ i = 24 * h + (8 * s + j)
  BY <1>1
<1> HIDE DEF h, s, j
<1>3. i \div 8 = 3 * h + s /\ i % 8 = j
  BY <1>1, <1>2
<1>4. 2 * h \in Places /\ 2 * h + 1 \in Places
  BY <1>1, <1>2 DEF Places
<1>5. t[2 * h] \in TwelveBitRange /\ t[2 * h + 1] \in TwelveBitRange
  BY <1>4
<1>6. StreamBit(buf, i) = Bit(buf[3 * h + s], j)
  BY <1>3 DEF StreamBit
<1>7. /\ buf[3 * h] = Byte(t[2 * h])
      /\ buf[3 * h + 1] = Byte((t[2 * h] \div 256) + t[2 * h + 1] * 16)
      /\ buf[3 * h + 2] = Byte(t[2 * h + 1] \div 16)
  BY <1>2 DEF TwelveBits
<1>8. /\ Bit(Byte(t[2 * h]), j) = Bit(t[2 * h], j)
      /\ Bit(Byte((t[2 * h] \div 256) + t[2 * h + 1] * 16), j)
           = IF j < 4 THEN Bit(t[2 * h], j + 8) ELSE Bit(t[2 * h + 1], j - 4)
      /\ Bit(Byte(t[2 * h + 1] \div 16), j) = Bit(t[2 * h + 1], j + 4)
  BY <1>2, <1>5, TwelveBitPair
<1>9. CASE s = 0
  <2>1. i \div 12 = 2 * h /\ i % 12 = j /\ 3 * h + s = 3 * h
    BY <1>1, <1>2, <1>9
  <2> QED BY <1>6, <1>7, <1>8, <2>1
<1>10. CASE s = 1 /\ j < 4
  <2>1. i \div 12 = 2 * h /\ i % 12 = j + 8 /\ 3 * h + s = 3 * h + 1
    BY <1>1, <1>2, <1>10
  <2>2. Bit(buf[3 * h + 1], j) = Bit(t[2 * h], j + 8)
    BY <1>7, <1>8, <1>10
  <2> QED BY <1>6, <2>1, <2>2
<1>11. CASE s = 1 /\ ~(j < 4)
  <2>1. i \div 12 = 2 * h + 1 /\ i % 12 = j - 4 /\ 3 * h + s = 3 * h + 1
    BY <1>1, <1>2, <1>11
  <2>2. Bit(buf[3 * h + 1], j) = Bit(t[2 * h + 1], j - 4)
    BY <1>7, <1>8, <1>11
  <2> QED BY <1>6, <2>1, <2>2
<1>12. CASE s = 2
  <2>1. i \div 12 = 2 * h + 1 /\ i % 12 = j + 4 /\ 3 * h + s = 3 * h + 2
    BY <1>1, <1>2, <1>12
  <2> QED BY <1>6, <1>7, <1>8, <2>1
<1> QED BY <1>2, <1>9, <1>10, <1>11, <1>12

LEMMA TenBitStream ==
  ASSUME NEW buf, NEW t \in [Places -> TenBitRange], TenBits(buf, t),
         NEW i \in 0..(40 * AllQuartets - 1)
  PROVE  StreamBit(buf, i) = Bit(t[i \div 10], i % 10)
<1> DEFINE h == i \div 40
           s == (i % 40) \div 8
           j == i % 8
           u == t[4 * h]
           v == t[4 * h + 1]
           w == t[4 * h + 2]
           x == t[4 * h + 3]
<1>1. AllQuartets \in Nat /\ N * K = 4 * AllQuartets
  BY Dimensions
<1>2. /\ h \in 0..(AllQuartets - 1) /\ s \in 0..4 /\ j \in 0..7
      /\ i = 40 * h + (8 * s + j)
  BY <1>1
<1> HIDE DEF h, s, j
<1>3. i \div 8 = 5 * h + s /\ i % 8 = j
  BY <1>1, <1>2
<1>4. u \in TenBitRange /\ v \in TenBitRange /\ w \in TenBitRange /\ x \in TenBitRange
  BY <1>2, QuartetPlace
<1>6. StreamBit(buf, i) = Bit(buf[5 * h + s], j)
  BY <1>3 DEF StreamBit
<1>7. /\ buf[5 * h] = Byte(u)
      /\ buf[5 * h + 1] = Byte((u \div 256) + v * 4)
      /\ buf[5 * h + 2] = Byte((v \div 64) + w * 16)
      /\ buf[5 * h + 3] = Byte((w \div 16) + x * 64)
      /\ buf[5 * h + 4] = Byte(x \div 4)
  BY <1>2 DEF TenBits
<1> HIDE DEF u, v, w, x
<1>9. /\ Bit(Byte(u), j) = Bit(u, j)
      /\ Bit(Byte((u \div 256) + v * 4), j) = IF j < 2 THEN Bit(u, j + 8) ELSE Bit(v, j - 2)
      /\ Bit(Byte((v \div 64) + w * 16), j) = IF j < 4 THEN Bit(v, j + 6) ELSE Bit(w, j - 4)
      /\ Bit(Byte((w \div 16) + x * 64), j) = IF j < 6 THEN Bit(w, j + 4) ELSE Bit(x, j - 6)
      /\ Bit(Byte(x \div 4), j) = Bit(x, j + 2)
  BY <1>2, <1>4, TenBitQuartet
<1>10. CASE s = 0
  <2>1. i \div 10 = 4 * h /\ i % 10 = j /\ 5 * h + s = 5 * h
    BY <1>1, <1>2, <1>10
  <2>2. Bit(buf[5 * h], j) = Bit(u, j)
    BY <1>7, <1>9
  <2> QED BY <1>6, <2>1, <2>2 DEF u
<1>11. CASE s = 1 /\ j < 2
  <2>1. i \div 10 = 4 * h /\ i % 10 = j + 8 /\ 5 * h + s = 5 * h + 1
    BY <1>1, <1>2, <1>11
  <2>2. Bit(buf[5 * h + 1], j) = Bit(u, j + 8)
    BY <1>7, <1>9, <1>11
  <2> QED BY <1>6, <2>1, <2>2 DEF u
<1>12. CASE s = 1 /\ ~(j < 2)
  <2>1. i \div 10 = 4 * h + 1 /\ i % 10 = j - 2 /\ 5 * h + s = 5 * h + 1
    BY <1>1, <1>2, <1>12
  <2>2. Bit(buf[5 * h + 1], j) = Bit(v, j - 2)
    BY <1>7, <1>9, <1>12
  <2> QED BY <1>6, <2>1, <2>2 DEF v
<1>13. CASE s = 2 /\ j < 4
  <2>1. i \div 10 = 4 * h + 1 /\ i % 10 = j + 6 /\ 5 * h + s = 5 * h + 2
    BY <1>1, <1>2, <1>13
  <2>2. Bit(buf[5 * h + 2], j) = Bit(v, j + 6)
    BY <1>7, <1>9, <1>13
  <2> QED BY <1>6, <2>1, <2>2 DEF v
<1>14. CASE s = 2 /\ ~(j < 4)
  <2>1. i \div 10 = 4 * h + 2 /\ i % 10 = j - 4 /\ 5 * h + s = 5 * h + 2
    BY <1>1, <1>2, <1>14
  <2>2. Bit(buf[5 * h + 2], j) = Bit(w, j - 4)
    BY <1>7, <1>9, <1>14
  <2> QED BY <1>6, <2>1, <2>2 DEF w
<1>15. CASE s = 3 /\ j < 6
  <2>1. i \div 10 = 4 * h + 2 /\ i % 10 = j + 4 /\ 5 * h + s = 5 * h + 3
    BY <1>1, <1>2, <1>15
  <2>2. Bit(buf[5 * h + 3], j) = Bit(w, j + 4)
    BY <1>7, <1>9, <1>15
  <2> QED BY <1>6, <2>1, <2>2 DEF w
<1>16. CASE s = 3 /\ ~(j < 6)
  <2>1. i \div 10 = 4 * h + 3 /\ i % 10 = j - 6 /\ 5 * h + s = 5 * h + 3
    BY <1>1, <1>2, <1>16
  <2>2. Bit(buf[5 * h + 3], j) = Bit(x, j - 6)
    BY <1>7, <1>9, <1>16
  <2> QED BY <1>6, <2>1, <2>2 DEF x
<1>17. CASE s = 4
  <2>1. i \div 10 = 4 * h + 3 /\ i % 10 = j + 2 /\ 5 * h + s = 5 * h + 4
    BY <1>1, <1>2, <1>17
  <2>2. Bit(buf[5 * h + 4], j) = Bit(x, j + 2)
    BY <1>7, <1>9
  <2> QED BY <1>6, <2>1, <2>2 DEF x
<1> QED BY <1>2, <1>10, <1>11, <1>12, <1>13, <1>14, <1>15, <1>16, <1>17

LEMMA TwelveBitReadBack ==
  ASSUME NEW buf, NEW t \in [Places -> TwelveBitRange], TwelveBits(buf, t), NEW x \in Places
  PROVE  Coeff(KeyRead(buf), x) = t[x]
<1> DEFINE h == x \div 2
           e == x % 2
           p == h \div Pairs
           g == h % Pairs
           b == From(buf, p * PolyBytes, PolyBytes)
<1>1. AllPairs \in Nat /\ N * K = 2 * AllPairs
  BY Dimensions
<1>2. h \in 0..(AllPairs - 1) /\ e \in 0..1 /\ x = 2 * h + e
  BY <1>1 DEF Places
<1> HIDE DEF h, e
<1>3. /\ p \in 0..(K - 1) /\ g \in Nat
      /\ 2 * g \in 0..(N - 1) /\ 2 * g + 1 \in 0..(N - 1)
      /\ 2 * h \in Places /\ 2 * h + 1 \in Places
      /\ (2 * h) \div N = p /\ (2 * h) % N = 2 * g
      /\ (2 * h + 1) \div N = p /\ (2 * h + 1) % N = 2 * g + 1
  BY <1>2, KeyPlace, 0 \in 0..2
<1>4. ASSUME NEW s \in 0..2 PROVE b[3 * g + s] = buf[3 * h + s]
  <2>1. /\ 3 * h + s = p * PolyBytes + (3 * g + s)
        /\ 3 * g + s \in 0..(PolyBytes - 1)
    BY <1>2, KeyPlace
  <2> HIDE DEF p, g
  <2> QED BY <2>1 DEF From
<1>5. KeyRead(buf)[p] = [i \in 0..(N - 1) |-> TwelveBitWord(b, i)]
  BY <1>3 DEF KeyRead
<1> HIDE DEF p, g, b
<1>6. /\ b[3 * g] = Byte(t[2 * h])
      /\ b[3 * g + 1] = Byte((t[2 * h] \div 256) + t[2 * h + 1] * 16)
      /\ b[3 * g + 2] = Byte(t[2 * h + 1] \div 16)
  <2>1. /\ buf[3 * h] = Byte(t[2 * h])
        /\ buf[3 * h + 1] = Byte((t[2 * h] \div 256) + t[2 * h + 1] * 16)
        /\ buf[3 * h + 2] = Byte(t[2 * h + 1] \div 16)
    BY <1>2 DEF TwelveBits
  <2>2. 3 * g + 0 = 3 * g /\ 3 * h + 0 = 3 * h
    BY <1>1, <1>2, <1>3
  <2>3. b[3 * g + 0] = buf[3 * h + 0] /\ b[3 * g + 1] = buf[3 * h + 1]
        /\ b[3 * g + 2] = buf[3 * h + 2]
    BY <1>4
  <2> QED BY <2>1, <2>2, <2>3
<1>7. t[2 * h] \in TwelveBitRange /\ t[2 * h + 1] \in TwelveBitRange
  BY <1>3
<1>8. /\ (b[3 * g] + b[3 * g + 1] * 256) % 4096 = t[2 * h]
      /\ ((b[3 * g + 1] \div 16) + b[3 * g + 2] * 16) % 4096 = t[2 * h + 1]
  BY <1>6, <1>7, TwelveBitWords
<1>9. CASE e = 0
  <2>1. x = 2 * h
    BY <1>1, <1>2, <1>9
  <2>2. Coeff(KeyRead(buf), x) = TwelveBitWord(b, 2 * g)
    BY <1>3, <1>5, <2>1 DEF Coeff
  <2>3. (2 * g) \div 2 = g /\ (2 * g) % 2 = 0
    BY <1>3
  <2>4. TwelveBitWord(b, 2 * g) = (b[3 * g] + b[3 * g + 1] * 256) % 4096
    BY <2>3 DEF TwelveBitWord
  <2> QED BY <1>8, <2>1, <2>2, <2>4
<1>10. CASE e = 1
  <2>1. x = 2 * h + 1
    BY <1>2, <1>10
  <2>2. Coeff(KeyRead(buf), x) = TwelveBitWord(b, 2 * g + 1)
    BY <1>3, <1>5, <2>1 DEF Coeff
  <2>3. (2 * g + 1) \div 2 = g /\ (2 * g + 1) % 2 = 1
    BY <1>3
  <2>4. TwelveBitWord(b, 2 * g + 1) = ((b[3 * g + 1] \div 16) + b[3 * g + 2] * 16) % 4096
    BY <2>3 DEF TwelveBitWord
  <2> QED BY <1>8, <2>1, <2>2, <2>4
<1> QED BY <1>2, <1>9, <1>10

LEMMA TenBitReadBack ==
  ASSUME NEW buf, NEW t \in [Places -> TenBitRange], TenBits(buf, t), NEW x \in Places
  PROVE  Coeff(VectorRead(buf), x) = (t[x] * Q + 512) \div 1024
<1> DEFINE h == x \div 4
           e == x % 4
           p == x \div N
           i == x % N
<1>1. AllQuartets \in Nat /\ N * K = 4 * AllQuartets /\ K \in Nat /\ N \in Nat \ {0}
  BY Dimensions
<1>2. h \in 0..(AllQuartets - 1) /\ e \in 0..3 /\ x = 4 * h + e
  BY <1>1 DEF Places
<1>3. p \in 0..(K - 1) /\ i \in 0..(N - 1) /\ x = N * p + i
  <2>1. x \in 0..(K * N - 1)
    BY <1>1 DEF Places
  <2> QED BY <1>1, <2>1, DivPlace
<1> HIDE DEF h, e
<1>4. Coeff(VectorRead(buf), x) = (TenBitWord(buf, p * N + i) * Q + 512) \div 1024
  BY <1>3 DEF VectorRead, Coeff
<1> HIDE DEF p, i
<1>5. p * N + i = x
  BY <1>1, <1>3
<1>6. /\ buf[5 * h] = Byte(t[4 * h])
      /\ buf[5 * h + 1] = Byte((t[4 * h] \div 256) + t[4 * h + 1] * 4)
      /\ buf[5 * h + 2] = Byte((t[4 * h + 1] \div 64) + t[4 * h + 2] * 16)
      /\ buf[5 * h + 3] = Byte((t[4 * h + 2] \div 16) + t[4 * h + 3] * 64)
      /\ buf[5 * h + 4] = Byte(t[4 * h + 3] \div 4)
  BY <1>2 DEF TenBits
<1>7. /\ t[4 * h] \in TenBitRange /\ t[4 * h + 1] \in TenBitRange
      /\ t[4 * h + 2] \in TenBitRange /\ t[4 * h + 3] \in TenBitRange
  BY <1>2, QuartetPlace
<1>8. /\ (buf[5 * h] + buf[5 * h + 1] * 256) % 1024 = t[4 * h]
      /\ ((buf[5 * h + 1] \div 4) + buf[5 * h + 2] * 64) % 1024 = t[4 * h + 1]
      /\ ((buf[5 * h + 2] \div 16) + buf[5 * h + 3] * 16) % 1024 = t[4 * h + 2]
      /\ ((buf[5 * h + 3] \div 64) + buf[5 * h + 4] * 4) % 1024 = t[4 * h + 3]
  BY <1>6, <1>7, TenBitWords
<1>9. x \div 4 = h /\ x % 4 = e
  BY <1>1, <1>2
<1>10. TenBitWord(buf, x) = t[x]
  <2>1. CASE e = 0
    <3>1. x = 4 * h /\ x % 4 = 0
      BY <1>1, <1>2, <1>9, <2>1
    <3> QED BY <1>8, <1>9, <3>1 DEF TenBitWord
  <2>2. CASE e = 1
    <3>1. x = 4 * h + 1 /\ x % 4 = 1
      BY <1>2, <1>9, <2>2
    <3> QED BY <1>8, <1>9, <3>1 DEF TenBitWord
  <2>3. CASE e = 2
    <3>1. x = 4 * h + 2 /\ x % 4 = 2
      BY <1>2, <1>9, <2>3
    <3> QED BY <1>8, <1>9, <3>1 DEF TenBitWord
  <2>4. CASE e = 3
    <3>1. x = 4 * h + 3 /\ x % 4 = 3
      BY <1>2, <1>9, <2>4
    <3> QED BY <1>8, <1>9, <3>1 DEF TenBitWord
  <2> QED BY <1>2, <2>1, <2>2, <2>3, <2>4
<1> QED BY <1>4, <1>5, <1>10

(* A coefficient that is compressed and decompressed moves by 2 at most.   *)
LEMMA RoundedNear ==
  ASSUME NEW c \in Reduced
  PROVE  Distance((Rounded(c) * Q + 512) \div 1024, c) <= 2
<1> DEFINE u == c % Q
           r == Quotient(u)
           o == ((r % 1024) * 3329 + 512) \div 1024
           d == (o - c) % 3329
<1>1. c \in Int /\ u \in Nat /\ u <= 3328 /\ (c = u \/ c = u - 3329)
  <2>1. c \in Int /\ c > -3329 /\ c < 3329
    BY DEF Reduced, Q
  <2> QED BY <2>1 DEF Q
<1>2. Rounded(c) = r % 1024
  BY DEF Rounded, Quotient
<1>3. u \in 0..(Q - 1)
  BY <1>1 DEF Q
<1> HIDE DEF u
<1>4. /\ r \in Nat /\ r <= 1024
      /\ 3329 * r <= 1024 * u + 1664 /\ 1024 * u + 1664 < 3329 * r + 3329
  BY <1>3, TenBitQuotient
<1> HIDE DEF r
<1>5. o \in Int /\ (o - u \in -2..2 \/ o - u = -3328)
  <2>1. CASE r = 1024
    <3>1. u = 3328 /\ r % 1024 = 0
      BY <1>1, <1>4, <2>1
    <3> QED BY <3>1
  <2>2. CASE r < 1024
    <3>1. r % 1024 = r
      BY <1>4, <2>2
    <3>2. o \in Int /\ 1024 * o <= 3329 * r + 512 /\ 3329 * r + 512 < 1024 * o + 1024
      BY <1>4, <3>1
    <3> HIDE DEF o
    <3>3. o - u <= 2 /\ o - u >= -2
      BY <1>1, <1>4, <3>2
    <3> QED BY <1>1, <3>2, <3>3
  <2> QED BY <1>4, <2>1, <2>2
<1>6. (Rounded(c) * Q + 512) \div 1024 = o
  BY <1>2 DEF Q
<1> HIDE DEF o
<1>7. d \in {0, 1, 2, 3327, 3328}
  <2> DEFINE z == o - u
  <2>1. z \in Int /\ (z \in -2..2 \/ z = -3328) /\ (o - c = z \/ o - c = z + 3329)
    BY <1>1, <1>5
  <2> HIDE DEF z
  <2>2. (z + 3329) % 3329 = z % 3329
    BY <2>1
  <2>3. d = z % 3329
    BY <2>1, <2>2
  <2>4. z % 3329 \in {0, 1, 2, 3327, 3328}
    BY <2>1
  <2> QED BY <2>3, <2>4
<1> HIDE DEF d
<1>8. Distance(o, c) = IF 2 * d < 3329 THEN d ELSE 3329 - d
  BY DEF Distance, d, Q
<1> QED BY <1>6, <1>7, <1>8

-----------------------------------------------------------------------------
(* Noise: all of them sum the same pairs of bits, and masks leave no trace.*)
StreamType == [0..(N \div 2 - 1) -> Uint8]

NoisePoly(buf) == [i \in 0..(N - 1) |-> BitPair(buf, 4 * i) - BitPair(buf, 4 * i + 2)]

LEMMA SameNoise ==
  ASSUME NEW buf
  PROVE  /\ C!Cbd2(buf) = NoisePoly(buf) /\ Ref!Cbd2(buf) = NoisePoly(buf)
         /\ Rust!Cbd2(buf) = NoisePoly(buf)
BY DEF NoisePoly, C!Cbd2, C!Poly, C!BitPair, C!StreamBit, C!Bit, C!PowerOfTwo, Ref!Cbd2,
   Ref!Poly, Ref!BitPair, Ref!StreamBit, Ref!Bit, Ref!PowerOfTwo, Rust!Cbd2, Rust!Poly,
   Rust!BitPair, Rust!StreamBit, Rust!Bit, Rust!PowerOfTwo, BitPair, StreamBit, Bit,
   PowerOfTwo

LEMMA StreamBitType ==
  ASSUME NEW buf, NEW i \in Nat, buf[i \div 8] \in Uint8
  PROVE  StreamBit(buf, i) \in {0, 1}
<1>1. buf[i \div 8] \in Nat /\ i % 8 \in 0..11
  BY DEF Uint8
<1> QED BY <1>1, BitType DEF StreamBit

LEMMA PairOnes ==
  ASSUME NEW buf \in StreamType, NEW k \in Nat, k % 2 = 0, k < 4 * N
  PROVE  BitPair(buf, k) \in 0..2 /\ BitPair(buf, k) = Ones(buf, k)
<1>1. k + 1 < 4 * N /\ N \in Nat /\ N = 2 * (N \div 2)
  BY Dimensions DEF Pairs
<1>2. /\ (k + 1) \div 8 = k \div 8 /\ (k + 1) % 8 = (k % 8) + 1
      /\ k \div 8 \in 0..(N \div 2 - 1)
  BY <1>1
<1>3. buf[k \div 8] \in Uint8 /\ buf[(k + 1) \div 8] \in Uint8
  BY <1>2 DEF StreamType
<1>4. StreamBit(buf, k) \in {0, 1} /\ StreamBit(buf, k + 1) \in {0, 1}
  BY <1>3, StreamBitType
<1>5. BitPair(buf, k) \in 0..2
  BY <1>4 DEF BitPair
<1>6. BitPair(buf, k) = Ones(buf, k)
  BY <1>2, Zenon DEF BitPair, StreamBit, Ones
<1> QED BY <1>5, <1>6

LEMMA NoiseOnes ==
  ASSUME NEW buf \in StreamType, NEW i \in 0..(N - 1)
  PROVE  /\ NoisePoly(buf)[i] \in -2..2
         /\ NoisePoly(buf)[i] = Ones(buf, 4 * i) - Ones(buf, 4 * i + 2)
<1>1. N \in Nat
  BY Dimensions
<1>2. /\ 4 * i \in Nat /\ (4 * i) % 2 = 0 /\ 4 * i < 4 * N
      /\ 4 * i + 2 \in Nat /\ (4 * i + 2) % 2 = 0 /\ 4 * i + 2 < 4 * N
  BY <1>1
<1>3. /\ BitPair(buf, 4 * i) \in 0..2 /\ BitPair(buf, 4 * i) = Ones(buf, 4 * i)
      /\ BitPair(buf, 4 * i + 2) \in 0..2 /\ BitPair(buf, 4 * i + 2) = Ones(buf, 4 * i + 2)
  BY <1>2, PairOnes
<1> QED BY <1>3 DEF NoisePoly

LEMMA ShortType == \A z \in Uint16 : z \in Int
BY DEF Uint16

LEMMA MaskedNoise ==
  ASSUME NEW buf \in StreamType, NEW draw \in [0..(N - 1) -> Uint16]
  PROVE  Rust!UnmaskPoly(Rust!Cbd2Masked(buf, draw)) = NoisePoly(buf)
<1> DEFINE x(i) == BitPair(buf, 4 * i) - BitPair(buf, 4 * i + 2)
<1>1. Rust!UnmaskPoly(Rust!Cbd2Masked(buf, draw))
        = [i \in 0..(N - 1) |-> Int16((x(i) - (draw[i] % Q)) + (draw[i] % Q))]
  BY DEF Rust!UnmaskPoly, Rust!Cbd2Masked, Rust!Poly, Rust!BitPair, Rust!StreamBit, Rust!Bit,
     Rust!PowerOfTwo, Rust!Int16, Rust!Q, BitPair, StreamBit, Bit, PowerOfTwo, Int16, Q
<1>2. ASSUME NEW i \in 0..(N - 1)
      PROVE  Int16((x(i) - (draw[i] % Q)) + (draw[i] % Q)) = x(i)
  <2>1. x(i) \in -2..2
    BY NoiseOnes DEF NoisePoly
  <2> HIDE DEF x
  <2>2. draw[i] % Q \in Int
    <3>1. draw[i] \in Uint16
      OBVIOUS
    <3>2. draw[i] \in Int
      BY <3>1, ShortType
    <3> QED BY <3>2 DEF Q
  <2>3. (x(i) - (draw[i] % Q)) + (draw[i] % Q) = x(i)
    BY <2>1, <2>2
  <2>4. Int16(x(i)) = x(i)
    BY <2>1 DEF Int16
  <2> QED BY <2>3, <2>4
<1>3. [i \in 0..(N - 1) |-> Int16((x(i) - (draw[i] % Q)) + (draw[i] % Q))]
        = [i \in 0..(N - 1) |-> x(i)]
  BY <1>2
<1> QED BY <1>1, <1>3 DEF NoisePoly

-----------------------------------------------------------------------------
(* Messages: the coefficients they are made, what encryption and           *)
(* compression make of those, and the bits that are found again.           *)
MessageType == [0..(N \div 8 - 1) -> Uint8]
ErrorType == [0..(N - 1) -> Tolerated]

MsgPoly(msg) ==
  [i \in 0..(N - 1) |-> IF StreamBit(msg, i) = 1 THEN (Q + 1) \div 2 ELSE 0]

Noisy(m, e) == [i \in 0..(N - 1) |-> BarrettReduce(m[i] + e[i])]

(* Quotient4 as Rust computes it, in 16 bits.                              *)
ShortQuotient4(u) == (((16 * u) % 65536) + Q \div 2) \div Q

Nibble(a) == Quotient4(a % Q) % 16

PolyBytesOf(v) ==
  [x \in 0..(CompressedBytes - 1) |->
     FourBitByte([i \in 0..(N - 1) |-> Nibble(v[i])], x)]

PolyRead(buf) == [i \in 0..(N - 1) |-> (FourBitWord(buf, i) * Q + 8) \div 16]

Reduction(w) == [i \in 0..(N - 1) |-> BarrettReduce(w[i])]

(* The bit a coefficient stands for, as the reference finds it and as the  *)
(* others do.                                                              *)
RefBit(a) == (((2 * a + 1665) * 80635) \div 268435456) % 2
FoundBit(a) == ((2 * Positive(a) + Q \div 2) \div Q) % 2

MsgOf(v) ==
  [x \in 0..(N \div 8 - 1) |-> MessageByte([i \in 0..(N - 1) |-> FoundBit(v[i])], x)]
RefMsgOf(v) ==
  [x \in 0..(N \div 8 - 1) |-> MessageByte([i \in 0..(N - 1) |-> RefBit(v[i])], x)]

LEMMA MessageSteps ==
  ASSUME NEW a
  PROVE  /\ C!PolyFromMsg(a) = MsgPoly(a) /\ Ref!PolyFromMsg(a) = MsgPoly(a)
         /\ Rust!PolyFromMsg(a) =
              [i \in 0..(N - 1) |-> StreamBit(a, i) * ((Q + 1) \div 2)]
BY SMT DEF MsgPoly, C!PolyFromMsg, C!Poly, C!CMovInt16, C!StreamBit, C!Bit, C!PowerOfTwo,
   C!Q, Ref!PolyFromMsg, Ref!Poly, Ref!CMovInt16, Ref!StreamBit, Ref!Bit, Ref!PowerOfTwo,
   Ref!Q, Rust!PolyFromMsg, Rust!Poly, Rust!StreamBit, Rust!Bit, Rust!PowerOfTwo, Rust!Q,
   StreamBit, Bit, PowerOfTwo, Q

LEMMA CompressSteps ==
  ASSUME NEW v
  PROVE  /\ C!PolyCompress(v) =
              [x \in 0..(CompressedBytes - 1) |->
                 FourBitByte([i \in 0..(N - 1) |-> ScaledQuotient4(Positive(v[i])) % 16], x)]
         /\ Ref!PolyCompress(v) = C!PolyCompress(v)
         /\ Rust!PolyCompress(v) =
              [x \in 0..(CompressedBytes - 1) |->
                 FourBitByte([i \in 0..(N - 1) |->
                    ShortQuotient4(Positive(v[i])) % 16], x)]
<1>1. C!PolyCompress(v) =
        [x \in 0..(CompressedBytes - 1) |->
           FourBitByte([i \in 0..(N - 1) |-> ScaledQuotient4(Positive(v[i])) % 16], x)]
  BY SMT DEF ScaledQuotient4, C!PolyCompress, C!Buffer, C!CompressedBytes, C!FourBitByte,
     C!Byte, C!Positive, C!Scaled, C!Q, CompressedBytes, FourBitByte, Byte, Positive,
     Scaled, Q
<1>2. Ref!PolyCompress(v) = C!PolyCompress(v)
  BY SMT DEF C!PolyCompress, C!Buffer, C!CompressedBytes, C!FourBitByte, C!Byte,
     C!Positive, C!Scaled, C!Q, Ref!PolyCompress, Ref!Buffer, Ref!CompressedBytes,
     Ref!FourBitByte, Ref!Byte, Ref!Positive, Ref!Scaled, Ref!Q
<1>3. Rust!PolyCompress(v) =
        [x \in 0..(CompressedBytes - 1) |->
           FourBitByte([i \in 0..(N - 1) |->
              ShortQuotient4(Positive(v[i])) % 16], x)]
  BY SMT DEF ShortQuotient4, Rust!PolyCompress, Rust!Buffer, Rust!CompressedBytes, Rust!FourBitByte,
     Rust!Positive, Rust!Q, CompressedBytes, FourBitByte, Positive, Q
<1> QED BY <1>1, <1>2, <1>3

LEMMA SamePolyRead ==
  ASSUME NEW b
  PROVE  /\ C!PolyDecompress(b) = PolyRead(b) /\ Ref!PolyDecompress(b) = PolyRead(b)
         /\ Rust!PolyDecompress(b) = PolyRead(b)
BY SMT DEF PolyRead, C!PolyDecompress, C!Poly, C!FourBitWord, C!Q, Ref!PolyDecompress,
   Ref!Poly, Ref!FourBitWord, Ref!Q, Rust!PolyDecompress, Rust!Poly, Rust!FourBitWord,
   Rust!Q, FourBitWord, Q

LEMMA ToMsgSteps ==
  ASSUME NEW v
  PROVE  /\ C!PolyToMsg(v) = MsgOf(v) /\ Ref!PolyToMsg(v) = RefMsgOf(v)
         /\ Rust!PolyToMsg(v) = MsgOf(v)
<1>1. C!PolyToMsg(v) = MsgOf(v)
  BY SMT DEF MsgOf, FoundBit, C!PolyToMsg, C!Buffer, C!MessageByte, C!Positive, C!Q,
     MessageByte, Positive, Q
<1>2. Ref!PolyToMsg(v) = RefMsgOf(v)
  BY SMT DEF RefMsgOf, RefBit, Ref!PolyToMsg, Ref!Buffer, Ref!MessageByte, MessageByte
<1>3. Rust!PolyToMsg(v) = MsgOf(v)
  BY SMT DEF MsgOf, FoundBit, Rust!PolyToMsg, Rust!Buffer, Rust!MessageByte, Rust!Positive,
     Rust!Q, MessageByte, Positive, Q
<1> QED BY <1>1, <1>2, <1>3

(* What Barrett reduction does to the sum of a coefficient of a message    *)
(* and an error, and to a decompressed coefficient.                        *)
LEMMA BarrettNear ==
  ASSUME NEW a \in Int, -727 <= a, a <= 3328
  PROVE  BarrettReduce(a) = IF a <= 1664 THEN a ELSE a - 3329
<1> DEFINE t == (20159 * a + 33554432) \div 67108864
<1>1. BarrettV = 20159
  BY DEF BarrettV, Q
<1>2. CASE a <= 1664
  <2>1. t = 0
    BY <1>2
  <2>2. BarrettReduce(a) = Int16(a - Int16(0))
    BY <1>1, <2>1 DEF BarrettReduce, Q
  <2>3. Int16(0) = 0 /\ Int16(a) = a
    BY <1>2 DEF Int16
  <2> QED BY <1>2, <2>2, <2>3
<1>3. CASE a > 1664
  <2>1. t = 1
    BY <1>3
  <2>2. BarrettReduce(a) = Int16(a - Int16(3329))
    BY <1>1, <2>1 DEF BarrettReduce, Q
  <2>3. Int16(3329) = 3329 /\ Int16(a - 3329) = a - 3329
    BY <1>3 DEF Int16
  <2> QED BY <1>3, <2>2, <2>3
<1> QED BY <1>2, <1>3

LEMMA NibbleType ==
  ASSUME NEW a \in Int
  PROVE  Nibble(a) \in 0..15
<1>1. a % Q \in 0..(Q - 1)
  BY DEF Q
<1>2. Quotient4(a % Q) \in Nat
  BY <1>1, FourBitQuotient
<1> QED BY <1>2 DEF Nibble

(* All write the same nibbles of reduced coefficients.                     *)
LEMMA SamePolyBytes ==
  ASSUME NEW v \in [0..(N - 1) -> Reduced]
  PROVE  /\ C!PolyCompress(v) = PolyBytesOf(v) /\ Ref!PolyCompress(v) = PolyBytesOf(v)
         /\ Rust!PolyCompress(v) = PolyBytesOf(v)
<1>1. ASSUME NEW i \in 0..(N - 1)
      PROVE  /\ ScaledQuotient4(Positive(v[i])) % 16 = Nibble(v[i])
             /\ ShortQuotient4(Positive(v[i])) % 16 = Nibble(v[i])
  <2> DEFINE u == v[i] % Q
  <2>1. Positive(v[i]) = u /\ u \in 0..(Q - 1)
    BY PositiveReduces
  <2>2. Nibble(v[i]) = Quotient4(u) % 16
    BY DEF Nibble
  <2> HIDE DEF u
  <2>3. ScaledQuotient4(u) = Quotient4(u)
    BY <2>1, FourBitQuotient
  <2>4. ShortQuotient4(u) = Quotient4(u)
    <3>1. u \in Nat /\ u <= 3328
      BY <2>1 DEF Q
    <3>2. (16 * u) % 65536 = 16 * u
      BY <3>1
    <3> QED BY <3>2 DEF ShortQuotient4, Quotient4
  <2> QED BY <2>1, <2>2, <2>3, <2>4
<1>2. [i \in 0..(N - 1) |-> ScaledQuotient4(Positive(v[i])) % 16]
        = [i \in 0..(N - 1) |-> Nibble(v[i])]
  BY <1>1
<1>3. [i \in 0..(N - 1) |-> ShortQuotient4(Positive(v[i])) % 16]
        = [i \in 0..(N - 1) |-> Nibble(v[i])]
  BY <1>1
<1>4. /\ C!PolyCompress(v) = PolyBytesOf(v)
      /\ Ref!PolyCompress(v) = C!PolyCompress(v)
  BY <1>2, CompressSteps DEF PolyBytesOf
<1>5. Rust!PolyCompress(v) = PolyBytesOf(v)
  <2>1. Rust!PolyCompress(v) =
          [x \in 0..(CompressedBytes - 1) |->
             FourBitByte([i \in 0..(N - 1) |-> ShortQuotient4(Positive(v[i])) % 16], x)]
    BY CompressSteps, Zenon
  <2> QED BY <1>3, <2>1 DEF PolyBytesOf
<1> QED BY <1>4, <1>5

LEMMA FourBitReadBack ==
  ASSUME NEW t \in [0..(N - 1) -> 0..15], NEW i \in 0..(N - 1)
  PROVE  FourBitWord([x \in 0..(CompressedBytes - 1) |-> FourBitByte(t, x)], i) = t[i]
<1> DEFINE b == [x \in 0..(CompressedBytes - 1) |-> FourBitByte(t, x)]
           h == i \div 2
<1>1. /\ h \in 0..(CompressedBytes - 1) /\ N \in Nat
      /\ 2 * h \in 0..(N - 1) /\ 2 * h + 1 \in 0..(N - 1)
      /\ (i % 2 = 0 => i = 2 * h) /\ (i % 2 # 0 => i = 2 * h + 1)
  BY Dimensions
<1>2. b[h] = t[2 * h] + t[2 * h + 1] * 16
  BY <1>1 DEF FourBitByte
<1>3. t[2 * h] \in 0..15 /\ t[2 * h + 1] \in 0..15
  BY <1>1
<1>4. b[h] % 16 = t[2 * h] /\ b[h] \div 16 = t[2 * h + 1]
  <2>1. \A p, q \in 0..15 : (p + q * 16) % 16 = p /\ (p + q * 16) \div 16 = q
    OBVIOUS
  <2>2. /\ (t[2 * h] + t[2 * h + 1] * 16) % 16 = t[2 * h]
        /\ (t[2 * h] + t[2 * h + 1] * 16) \div 16 = t[2 * h + 1]
    BY <1>3, <2>1, Zenon
  <2> QED BY <1>2, <2>2, Zenon
<1>5. FourBitWord(b, i) = IF i % 2 = 0 THEN b[h] % 16 ELSE b[h] \div 16
  BY DEF FourBitWord
<1> HIDE DEF b, h
<1>6. FourBitWord(b, i) = t[i]
  BY <1>1, <1>4, <1>5
<1> QED BY <1>6 DEF b

(* The nibble of a bit and an error, and the bit that is found in it.      *)
NibbleOf(m, e) == Nibble(BarrettReduce(m + e))
Received(c) == BarrettReduce((c * Q + 8) \div 16)

LEMMA NibbleOfBit ==
  ASSUME NEW m \in {0, 1665}, NEW e \in Tolerated
  PROVE  /\ BarrettReduce(m + e) \in Reduced
         /\ m = 0 => NibbleOf(m, e) \in 0..3 \cup 13..15
         /\ m = 1665 => NibbleOf(m, e) \in 5..11
<1> DEFINE a == m + e
           b == BarrettReduce(a)
           u == b % Q
           r == Quotient4(u)
<1>1. a \in Int /\ -727 <= a /\ a <= 2392
      /\ (m = 0 => a <= 727) /\ (m = 1665 => a >= 938)
  BY DEF Tolerated
<1> HIDE DEF a
<1>2. b = IF a <= 1664 THEN a ELSE a - 3329
  BY <1>1, BarrettNear
<1> HIDE DEF b
<1>3. b \in Int /\ b > -3329 /\ b < 3329
  BY <1>1, <1>2
<1>4. b \in Reduced
  BY <1>3 DEF Reduced, Q
<1>5. u \in Nat /\ u = IF a < 0 THEN a + 3329 ELSE a
  BY <1>1, <1>2 DEF Q
<1>6. u \in 0..(Q - 1)
  BY <1>3 DEF Q
<1> HIDE DEF u
<1>7. r \in Nat /\ 3329 * r <= 16 * u + 1664 /\ 16 * u + 1664 < 3329 * r + 3329 /\ r <= 16
  BY <1>6, FourBitQuotient
<1>8. NibbleOf(m, e) = r % 16
  BY DEF NibbleOf, Nibble, b, a, u
<1> HIDE DEF r
<1>9. ASSUME m = 0 PROVE r \in 0..3 \cup 13..16
  BY <1>1, <1>5, <1>7, <1>9
<1>10. ASSUME m = 1665 PROVE r \in 5..11
  BY <1>1, <1>5, <1>7, <1>10
<1>11. ASSUME m = 0 PROVE r % 16 \in 0..3 \cup 13..15
  BY <1>9, <1>11
<1>12. ASSUME m = 1665 PROVE r % 16 \in 5..11
  BY <1>10, <1>12
<1> QED BY <1>4, <1>8, <1>11, <1>12 DEF b, a

LEMMA BitOfNibble ==
  ASSUME NEW c \in 0..15
  PROVE  /\ c \in 0..3 \cup 13..15 => FoundBit(Received(c)) = 0 /\ RefBit(Received(c)) = 0
         /\ c \in 5..11 => FoundBit(Received(c)) = 1 /\ RefBit(Received(c)) = 1
<1> DEFINE w == (c * Q + 8) \div 16
           y == BarrettReduce(w)
           d == (2 * y + 1665) * 80635
<1>1. /\ w \in Int /\ 0 <= w /\ w <= 3328
      /\ 16 * w <= 3329 * c + 8 /\ 3329 * c + 8 < 16 * w + 16
  BY DEF Q
<1> HIDE DEF w
<1>2. y = IF w <= 1664 THEN w ELSE w - 3329
  BY <1>1, BarrettNear
<1>3. Received(c) = y
  BY DEF Received, w
<1> HIDE DEF y
<1>4. Positive(y) = w
  BY <1>1, <1>2 DEF Positive, Q
<1>5. FoundBit(y) = ((2 * w + 1664) \div 3329) % 2
  BY <1>4 DEF FoundBit, Q
<1>6. RefBit(y) = (d \div 268435456) % 2
  BY DEF RefBit
<1>7. ASSUME c \in 0..3 PROVE FoundBit(y) = 0 /\ RefBit(y) = 0
  <2>1. w <= 624
    BY <1>1, <1>7
  <2>2. (2 * w + 1664) \div 3329 = 0
    BY <1>1, <2>1
  <2>3. d \in Int /\ 0 <= d /\ d < 268435456
    BY <1>1, <1>2, <2>1
  <2> HIDE DEF d
  <2>4. d \div 268435456 = 0
    BY <2>3
  <2> QED BY <1>5, <1>6, <2>2, <2>4
<1>8. ASSUME c \in 13..15 PROVE FoundBit(y) = 0 /\ RefBit(y) = 0
  <2>1. w >= 2705 /\ w <= 3121
    BY <1>1, <1>8
  <2>2. (2 * w + 1664) \div 3329 = 2
    BY <1>1, <2>1
  <2>3. d \in Int /\ 0 <= d /\ d < 268435456
    BY <1>1, <1>2, <2>1
  <2> HIDE DEF d
  <2>4. d \div 268435456 = 0
    BY <2>3
  <2> QED BY <1>5, <1>6, <2>2, <2>4
<1>9. ASSUME c \in 5..11 PROVE FoundBit(y) = 1 /\ RefBit(y) = 1
  <2>1. w >= 1040 /\ w <= 2289
    BY <1>1, <1>9
  <2>2. (2 * w + 1664) \div 3329 = 1
    BY <1>1, <2>1
  <2>3. d \in Int /\ (\/ 268435456 <= d /\ d < 536870912
                      \/ -268435456 <= d /\ d < 0)
    BY <1>1, <1>2, <2>1
  <2> HIDE DEF d
  <2>4. d \div 268435456 \in {1, -1}
    BY <2>3
  <2>5. (d \div 268435456) % 2 = 1
    BY <2>4
  <2> QED BY <1>5, <1>6, <2>2, <2>5
<1> QED BY <1>3, <1>7, <1>8, <1>9

LEMMA ByteOfBits ==
  ASSUME NEW c \in 0..255
  PROVE  Bit(c, 0) + 2 * Bit(c, 1) + 4 * Bit(c, 2) + 8 * Bit(c, 3) + 16 * Bit(c, 4)
           + 32 * Bit(c, 5) + 64 * Bit(c, 6) + 128 * Bit(c, 7) = c
<1>1. /\ Bit(c, 0) = c % 2 /\ Bit(c, 1) = (c \div 2) % 2 /\ Bit(c, 2) = (c \div 4) % 2
      /\ Bit(c, 3) = (c \div 8) % 2 /\ Bit(c, 4) = (c \div 16) % 2
      /\ Bit(c, 5) = (c \div 32) % 2 /\ Bit(c, 6) = (c \div 64) % 2
      /\ Bit(c, 7) = (c \div 128) % 2
  BY DEF Bit, PowerOfTwo
<1>2. c = (c % 2) + 2 * (c \div 2)
  OBVIOUS
<1>3. c \div 2 = ((c \div 2) % 2) + 2 * (c \div 4)
  OBVIOUS
<1>4. c \div 4 = ((c \div 4) % 2) + 2 * (c \div 8)
  OBVIOUS
<1>5. c \div 8 = ((c \div 8) % 2) + 2 * (c \div 16)
  OBVIOUS
<1>6. c \div 16 = ((c \div 16) % 2) + 2 * (c \div 32)
  OBVIOUS
<1>7. c \div 32 = ((c \div 32) % 2) + 2 * (c \div 64)
  OBVIOUS
<1>8. c \div 64 = ((c \div 64) % 2) + 2 * (c \div 128)
  OBVIOUS
<1>9. c \div 128 = (c \div 128) % 2
  OBVIOUS
<1> QED BY <1>1, <1>2, <1>3, <1>4, <1>5, <1>6, <1>7, <1>8, <1>9

LEMMA MessageOfBits ==
  ASSUME NEW msg \in MessageType, NEW t, \A i \in 0..(N - 1) : t[i] = StreamBit(msg, i)
  PROVE  [x \in 0..(N \div 8 - 1) |-> MessageByte(t, x)] = msg
<1>1. ASSUME NEW x \in 0..(N \div 8 - 1) PROVE MessageByte(t, x) = msg[x]
  <2>1. N \in Nat /\ N = 8 * (N \div 8)
    BY WordsAssumption
  <2>2. ASSUME NEW j \in 0..7 PROVE t[8 * x + j] = Bit(msg[x], j)
    <3>1. 8 * x + j \in 0..(N - 1) /\ (8 * x + j) \div 8 = x /\ (8 * x + j) % 8 = j
      BY <2>1
    <3> QED BY <3>1 DEF StreamBit
  <2>3. msg[x] \in 0..255
    BY DEF MessageType, Uint8
  <2>4. /\ t[8 * x + 0] = Bit(msg[x], 0) /\ t[8 * x + 1] = Bit(msg[x], 1)
        /\ t[8 * x + 2] = Bit(msg[x], 2) /\ t[8 * x + 3] = Bit(msg[x], 3)
        /\ t[8 * x + 4] = Bit(msg[x], 4) /\ t[8 * x + 5] = Bit(msg[x], 5)
        /\ t[8 * x + 6] = Bit(msg[x], 6) /\ t[8 * x + 7] = Bit(msg[x], 7)
    BY <2>2
  <2>5. MessageByte(t, x) =
          Bit(msg[x], 0) + 2 * Bit(msg[x], 1) + 4 * Bit(msg[x], 2) + 8 * Bit(msg[x], 3)
            + 16 * Bit(msg[x], 4) + 32 * Bit(msg[x], 5) + 64 * Bit(msg[x], 6)
            + 128 * Bit(msg[x], 7)
    BY <2>4, Zenon DEF MessageByte
  <2> QED BY <2>3, <2>5, ByteOfBits, Zenon
<1>2. msg = [x \in 0..(N \div 8 - 1) |-> msg[x]]
  BY DEF MessageType
<1> QED BY <1>1, <1>2, Zenon

LEMMA SameMessage ==
  ASSUME NEW msg \in MessageType
  PROVE  Rust!PolyFromMsg(msg) = MsgPoly(msg)
<1>1. ASSUME NEW i \in 0..(N - 1)
      PROVE  /\ StreamBit(msg, i) \in {0, 1}
             /\ StreamBit(msg, i) * ((Q + 1) \div 2)
                  = IF StreamBit(msg, i) = 1 THEN (Q + 1) \div 2 ELSE 0
  <2>1. N \in Nat /\ N = 8 * (N \div 8)
    BY WordsAssumption
  <2>2. i \div 8 \in 0..(N \div 8 - 1) /\ i \in Nat
    BY <2>1
  <2>3. StreamBit(msg, i) \in {0, 1}
    BY <2>2, StreamBitType DEF MessageType
  <2> QED BY <2>3 DEF Q
<1> QED BY <1>1, MessageSteps DEF MsgPoly

(* A message survives: what is read is the message, whichever of them      *)
(* finds its bits.                                                         *)
Sent(msg, e) == Noisy(MsgPoly(msg), e)
Got(b) == Reduction(PolyRead(b))

LEMMA MessageSurvives ==
  ASSUME NEW msg \in MessageType, NEW e \in ErrorType
  PROVE  /\ Sent(msg, e) \in [0..(N - 1) -> Reduced]
         /\ MsgOf(Got(PolyBytesOf(Sent(msg, e)))) = msg
         /\ RefMsgOf(Got(PolyBytesOf(Sent(msg, e)))) = msg
<1> DEFINE v == Sent(msg, e)
           t == [i \in 0..(N - 1) |-> Nibble(v[i])]
           b == PolyBytesOf(v)
           w == Got(b)
<1>1. ASSUME NEW i \in 0..(N - 1)
      PROVE  /\ v[i] \in Reduced /\ t[i] \in 0..15
             /\ w[i] = Received(FourBitWord(b, i))
             /\ FoundBit(Received(t[i])) = StreamBit(msg, i)
             /\ RefBit(Received(t[i])) = StreamBit(msg, i)
  <2> DEFINE m == IF StreamBit(msg, i) = 1 THEN 1665 ELSE 0
  <2>1. StreamBit(msg, i) \in {0, 1}
    <3>1. N \in Nat /\ N = 8 * (N \div 8)
      BY WordsAssumption
    <3>2. i \div 8 \in 0..(N \div 8 - 1) /\ i \in Nat
      BY <3>1
    <3> QED BY <3>2, StreamBitType DEF MessageType
  <2>2. m \in {0, 1665} /\ e[i] \in Tolerated /\ MsgPoly(msg)[i] = m
    BY DEF ErrorType, MsgPoly, Q
  <2>3. v[i] = BarrettReduce(m + e[i])
    BY <2>2 DEF Sent, Noisy
  <2>4. t[i] = NibbleOf(m, e[i])
    BY <2>3 DEF NibbleOf
  <2>5. w[i] = Received(FourBitWord(b, i))
    BY Zenon DEF Got, Reduction, PolyRead, Received
  <2> HIDE DEF v, t, b, w
  <2>6. /\ v[i] \in Reduced
        /\ m = 0 => t[i] \in 0..3 \cup 13..15
        /\ m = 1665 => t[i] \in 5..11
    BY <2>2, <2>3, <2>4, NibbleOfBit
  <2>7. t[i] \in 0..15
    BY <2>2, <2>6
  <2>8. CASE StreamBit(msg, i) = 1
    BY <2>5, <2>6, <2>7, <2>8, BitOfNibble
  <2>9. CASE StreamBit(msg, i) = 0
    BY <2>5, <2>6, <2>7, <2>9, BitOfNibble
  <2> QED BY <2>1, <2>8, <2>9
<1>2. v \in [0..(N - 1) -> Reduced]
  BY <1>1 DEF Sent, Noisy
<1>3. t \in [0..(N - 1) -> 0..15]
  BY <1>1
<1>4. b = [x \in 0..(CompressedBytes - 1) |-> FourBitByte(t, x)]
  BY Zenon DEF PolyBytesOf
<1> HIDE DEF v, t, b, w
<1>5. ASSUME NEW i \in 0..(N - 1)
      PROVE  FoundBit(w[i]) = StreamBit(msg, i) /\ RefBit(w[i]) = StreamBit(msg, i)
  <2>1. FourBitWord(b, i) = t[i]
    BY <1>3, <1>4, FourBitReadBack
  <2> QED BY <1>1, <2>1
<1>6. MsgOf(w) = msg
  <2> DEFINE f == [i \in 0..(N - 1) |-> FoundBit(w[i])]
  <2>1. \A i \in 0..(N - 1) : f[i] = StreamBit(msg, i)
    BY <1>5
  <2>2. MsgOf(w) = [x \in 0..(N \div 8 - 1) |-> MessageByte(f, x)]
    BY Zenon DEF MsgOf
  <2> HIDE DEF f
  <2> QED BY <2>1, <2>2, MessageOfBits
<1>7. RefMsgOf(w) = msg
  <2> DEFINE f == [i \in 0..(N - 1) |-> RefBit(w[i])]
  <2>1. \A i \in 0..(N - 1) : f[i] = StreamBit(msg, i)
    BY <1>5
  <2>2. RefMsgOf(w) = [x \in 0..(N \div 8 - 1) |-> MessageByte(f, x)]
    BY Zenon DEF RefMsgOf
  <2> HIDE DEF f
  <2> QED BY <2>1, <2>2, MessageOfBits
<1> QED BY <1>2, <1>6, <1>7 DEF v, b, w

-----------------------------------------------------------------------------
(* The invariant: what is written is the one encoding of the value, and    *)
(* what is read is read from it.                                           *)
Typed ==
  /\ kind \in {"key", "vector"} => value \in VectorType
  /\ kind = "message" => value \in MessageType \X ErrorType
  /\ kind = "noise" => value \in StreamType

Written ==
  pc # "value" =>
    /\ kind = "key" => bytes = KeyBytes(value)
    /\ kind = "vector" => bytes = VectorBytes(value)
    /\ kind = "message" => bytes = PolyBytesOf(Sent(value[1], value[2]))

WasRead ==
  pc = "read" =>
    /\ kind = "key" => out = KeyRead(bytes)
    /\ kind = "vector" => out = VectorRead(bytes)
    /\ kind = "message" => out = value[1]
    /\ kind = "noise" => out = NoisePoly(value)

IInv == Typed /\ Written /\ WasRead

LEMMA IInvInit == Init => IInv
<1> SUFFICES ASSUME Init PROVE IInv
  OBVIOUS
<1>1. pc = "value"
  BY DEF Init
<1>2. \A x \in Vectors : x \in VectorType
  BY InputAssumption DEF VectorType
<1>3. \A x \in Messages \X Errors : x \in MessageType \X ErrorType
  BY InputAssumption DEF MessageType, ErrorType
<1>4. \A x \in Streams : x \in StreamType
  BY InputAssumption DEF StreamType
<1>5. Typed
  BY <1>2, <1>3, <1>4 DEF Init, Typed
<1> QED BY <1>1, <1>5 DEF IInv, Written, WasRead

LEMMA WriteKeyKeeps == IInv /\ WriteKey => IInv'
<1> SUFFICES ASSUME IInv, WriteKey PROVE IInv'
  OBVIOUS
<1>1. /\ kind = "key" /\ pc' = "written" /\ kind' = kind /\ value' = value
      /\ bytes' \in {C!PolyVecToBytes(value), Ref!PolyVecToBytes(value),
                     Rust!PolyVecToBytes(value)}
  BY DEF WriteKey, Step
<1>2. bytes' = KeyBytes(value)
  BY <1>1, SameKeyBytes
<1> QED BY <1>1, <1>2 DEF IInv, Typed, Written, WasRead

LEMMA ReadKeyKeeps == IInv /\ ReadKey => IInv'
<1> SUFFICES ASSUME IInv, ReadKey PROVE IInv'
  OBVIOUS
<1>1. /\ kind = "key" /\ pc = "written" /\ pc' = "read" /\ kind' = kind /\ value' = value
      /\ bytes' = bytes
      /\ out' \in {C!PolyVecFromBytes(bytes), Ref!PolyVecFromBytes(bytes),
                   Rust!PolyVecFromBytes(bytes)}
  BY DEF ReadKey, Step
<1>2. out' = KeyRead(bytes)
  BY <1>1, SameKeyRead
<1> QED BY <1>1, <1>2 DEF IInv, Typed, Written, WasRead

LEMMA WriteVectorKeeps == IInv /\ WriteVector => IInv'
<1> SUFFICES ASSUME IInv, WriteVector PROVE IInv'
  OBVIOUS
<1>1. /\ kind = "vector" /\ pc' = "written" /\ kind' = kind /\ value' = value
      /\ bytes' \in {C!PolyVecCompress(value), Ref!PolyVecCompress(value),
                     Rust!PolyVecCompress(value)}
  BY DEF WriteVector, Step
<1>2. value \in VectorType
  BY <1>1 DEF IInv, Typed
<1>3. bytes' = VectorBytes(value)
  BY <1>1, <1>2, SameVectorBytes
<1> QED BY <1>1, <1>3 DEF IInv, Typed, Written, WasRead

LEMMA ReadVectorKeeps == IInv /\ ReadVector => IInv'
<1> SUFFICES ASSUME IInv, ReadVector PROVE IInv'
  OBVIOUS
<1>1. /\ kind = "vector" /\ pc = "written" /\ pc' = "read" /\ kind' = kind
      /\ value' = value /\ bytes' = bytes
      /\ out' \in {C!PolyVecDecompress(bytes), Ref!PolyVecDecompress(bytes),
                   Rust!PolyVecDecompress(bytes)}
  BY DEF ReadVector, Step
<1>2. out' = VectorRead(bytes)
  BY <1>1, SameVectorRead
<1> QED BY <1>1, <1>2 DEF IInv, Typed, Written, WasRead

LEMMA WriteMessageKeeps == IInv /\ WriteMessage => IInv'
<1> SUFFICES ASSUME IInv, WriteMessage PROVE IInv'
  OBVIOUS
<1>1. kind = "message" /\ pc' = "written" /\ kind' = kind /\ value' = value
  BY DEF WriteMessage, Step
<1>2. value[1] \in MessageType /\ value[2] \in ErrorType
  BY <1>1 DEF IInv, Typed
<1>3. PICK m \in {C!PolyFromMsg(value[1]), Ref!PolyFromMsg(value[1]),
                  Rust!PolyFromMsg(value[1])} :
        LET v == [i \in 0..(N - 1) |-> BarrettReduce(m[i] + value[2][i])]
        IN  bytes' \in {C!PolyCompress(v), Ref!PolyCompress(v), Rust!PolyCompress(v)}
  BY Zenon DEF WriteMessage, Poly
<1>4. m = MsgPoly(value[1])
  BY <1>2, <1>3, MessageSteps, SameMessage
<1>5. /\ Noisy(m, value[2]) = Sent(value[1], value[2])
      /\ Sent(value[1], value[2]) \in [0..(N - 1) -> Reduced]
  BY <1>2, <1>4, MessageSurvives DEF Sent
<1>6. bytes' \in {C!PolyCompress(Noisy(m, value[2])), Ref!PolyCompress(Noisy(m, value[2])),
                 Rust!PolyCompress(Noisy(m, value[2]))}
  BY <1>3, Zenon DEF Noisy
<1>7. bytes' = PolyBytesOf(Sent(value[1], value[2]))
  BY <1>5, <1>6, SamePolyBytes
<1> QED BY <1>1, <1>7 DEF IInv, Typed, Written, WasRead

LEMMA ReadMessageKeeps == IInv /\ ReadMessage => IInv'
<1> SUFFICES ASSUME IInv, ReadMessage PROVE IInv'
  OBVIOUS
<1>1. /\ kind = "message" /\ pc = "written" /\ pc' = "read" /\ kind' = kind
      /\ value' = value /\ bytes' = bytes
  BY DEF ReadMessage, Step
<1>2. value[1] \in MessageType /\ value[2] \in ErrorType
  BY <1>1 DEF IInv, Typed
<1>3. PICK w \in {C!PolyDecompress(bytes), Ref!PolyDecompress(bytes),
                  Rust!PolyDecompress(bytes)} :
        LET v == [i \in 0..(N - 1) |-> BarrettReduce(w[i])]
        IN  out' \in {C!PolyToMsg(v), Ref!PolyToMsg(v), Rust!PolyToMsg(v)}
  BY Zenon DEF ReadMessage, Poly
<1>4. w = PolyRead(bytes)
  BY <1>3, SamePolyRead
<1>5. out' \in {C!PolyToMsg(Got(bytes)), Ref!PolyToMsg(Got(bytes)),
               Rust!PolyToMsg(Got(bytes))}
  BY <1>3, <1>4, Zenon DEF Got, Reduction
<1>6. bytes = PolyBytesOf(Sent(value[1], value[2]))
  BY <1>1 DEF IInv, Written
<1>7. out' \in {MsgOf(Got(bytes)), RefMsgOf(Got(bytes))}
  BY <1>5, ToMsgSteps
<1>8. out' = value[1]
  BY <1>2, <1>6, <1>7, MessageSurvives
<1> QED BY <1>1, <1>8 DEF IInv, Typed, Written, WasRead

LEMMA TakeNoiseKeeps == IInv /\ TakeNoise => IInv'
<1> SUFFICES ASSUME IInv, TakeNoise PROVE IInv'
  OBVIOUS
<1>1. kind = "noise" /\ pc' = "read" /\ kind' = kind /\ value' = value
  BY DEF TakeNoise, Step
<1>2. value \in StreamType
  BY <1>1 DEF IInv, Typed
<1>3. \/ out' \in {C!Cbd2(value), Ref!Cbd2(value), Rust!Cbd2(value)}
      \/ \E draw \in Draws : out' = Rust!UnmaskPoly(Rust!Cbd2Masked(value, draw))
  BY DEF TakeNoise
<1>4. out' = NoisePoly(value)
  <2>1. CASE out' \in {C!Cbd2(value), Ref!Cbd2(value), Rust!Cbd2(value)}
    BY <2>1, SameNoise
  <2>2. ASSUME NEW draw \in Draws, out' = Rust!UnmaskPoly(Rust!Cbd2Masked(value, draw))
        PROVE  out' = NoisePoly(value)
    <3>1. draw \in [0..(N - 1) -> Uint16]
      BY InputAssumption
    <3> QED BY <1>2, <2>2, <3>1, MaskedNoise
  <2> QED BY <1>3, <2>1, <2>2
<1> QED BY <1>1, <1>4 DEF IInv, Typed, Written, WasRead

LEMMA IInvNext == IInv /\ [Next]_vars => IInv'
<1> SUFFICES ASSUME IInv, [Next]_vars PROVE IInv'
  OBVIOUS
<1>1. CASE UNCHANGED vars
  BY <1>1 DEF vars, IInv, Typed, Written, WasRead
<1> QED BY <1>1, WriteKeyKeeps, ReadKeyKeeps, WriteVectorKeeps, ReadVectorKeeps,
           WriteMessageKeeps, ReadMessageKeeps, TakeNoiseKeeps DEF Next

LEMMA InvariantHolds == Spec => []IInv
BY IInvInit, IInvNext, PTL DEF Spec

-----------------------------------------------------------------------------
(* Every implementation writes the bits of the words that the encoding     *)
(* stands for: 12 of a coefficient of a key, 10 of the nearest multiple of *)
(* Q / 1024 in a ciphertext.                                               *)
THEOREM EncodedExactlyAlways == Spec => []EncodedExactly
<1>1. IInv => EncodedExactly
  <2> SUFFICES ASSUME IInv PROVE EncodedExactly
    OBVIOUS
  <2>1. ASSUME kind = "key", pc # "value", NEW i \in 0..(12 * N * K - 1)
        PROVE  StreamBit(bytes, i) = Bit(Coeff(value, i \div 12) % Q, i % 12)
    <3>1. value \in VectorType /\ bytes = KeyBytes(value)
      BY <2>1 DEF IInv, Typed, Written
    <3>2. i \in 0..(24 * AllPairs - 1) /\ i \div 12 \in Places
      <4>1. N * K = 2 * AllPairs /\ AllPairs \in Nat /\ N \in Nat /\ K \in Nat
        BY Dimensions
      <4>2. 12 * N * K = 24 * AllPairs
        BY <4>1
      <4> HIDE DEF AllPairs
      <4> QED BY <4>1, <4>2 DEF Places
    <3>3. StreamBit(bytes, i) = Bit(KeyWords(value)[i \div 12], i % 12)
      BY <3>1, <3>2, KeyEncoded, KeyWordsType, TwelveBitStream
    <3> QED BY <3>2, <3>3 DEF KeyWords
  <2>2. ASSUME kind = "vector", pc # "value", NEW i \in 0..(10 * N * K - 1)
        PROVE  StreamBit(bytes, i) = Bit(Rounded(Coeff(value, i \div 10)), i % 10)
    <3>1. value \in VectorType /\ bytes = VectorBytes(value)
      BY <2>2 DEF IInv, Typed, Written
    <3>2. i \in 0..(40 * AllQuartets - 1) /\ i \div 10 \in Places
      <4>1. N * K = 4 * AllQuartets /\ AllQuartets \in Nat /\ N \in Nat /\ K \in Nat
        BY Dimensions
      <4>2. 10 * N * K = 40 * AllQuartets
        BY <4>1
      <4> QED BY <4>1, <4>2 DEF Places
    <3>3. StreamBit(bytes, i) = Bit(VectorWords(value)[i \div 10], i % 10)
      BY <3>1, <3>2, VectorEncoded, VectorWordsType, TenBitStream
    <3> QED BY <3>2, <3>3 DEF VectorWords
  <2> QED BY <2>1, <2>2 DEF EncodedExactly
<1> QED BY InvariantHolds, <1>1, PTL

(* What one implementation wrote, every one reads: a key modulo Q, a       *)
(* compressed vector within 2, a message exactly, with every error of at   *)
(* most 727 in its coefficients.                                           *)
THEOREM ReadBackAlways == Spec => []ReadBack
<1>1. IInv => ReadBack
  <2> SUFFICES ASSUME IInv, pc = "read" PROVE ReadBack
    BY DEF ReadBack
  <2>1. ASSUME kind = "key", NEW x \in 0..(N * K - 1)
        PROVE  Coeff(out, x) = Coeff(value, x) % Q
    <3>1. value \in VectorType /\ bytes = KeyBytes(value) /\ out = KeyRead(bytes)
      BY <2>1 DEF IInv, Typed, Written, WasRead
    <3>2. x \in Places
      BY DEF Places
    <3>3. Coeff(out, x) = KeyWords(value)[x]
      BY <3>1, <3>2, KeyEncoded, KeyWordsType, TwelveBitReadBack
    <3> QED BY <3>2, <3>3 DEF KeyWords
  <2>2. ASSUME kind = "vector", NEW x \in 0..(N * K - 1)
        PROVE  Distance(Coeff(out, x), Coeff(value, x)) <= 2
    <3>1. value \in VectorType /\ bytes = VectorBytes(value) /\ out = VectorRead(bytes)
      BY <2>2 DEF IInv, Typed, Written, WasRead
    <3>2. x \in Places
      BY DEF Places
    <3>3. Coeff(out, x) = (VectorWords(value)[x] * Q + 512) \div 1024
      BY <3>1, <3>2, VectorEncoded, VectorWordsType, TenBitReadBack
    <3>4. VectorWords(value)[x] = Rounded(Coeff(value, x))
      BY <3>2 DEF VectorWords
    <3>5. Coeff(value, x) \in Reduced
      BY <3>1, <3>2, CoeffType
    <3>6. Distance((Rounded(Coeff(value, x)) * Q + 512) \div 1024, Coeff(value, x)) <= 2
      BY <3>5, RoundedNear
    <3> QED BY <3>3, <3>4, <3>6
  <2>3. kind = "message" => out = value[1]
    BY DEF IInv, WasRead
  <2> QED BY <2>1, <2>2, <2>3 DEF ReadBack
<1> QED BY InvariantHolds, <1>1, PTL

(* The noise that any implementation takes from a stream, with masks or    *)
(* without, is the difference of the ones in two pairs of bits.            *)
THEOREM NoiseAgreesAlways == Spec => []NoiseAgrees
<1>1. IInv => NoiseAgrees
  <2> SUFFICES ASSUME IInv, kind = "noise", pc = "read", NEW i \in 0..(N - 1)
               PROVE  out[i] \in -2..2 /\ out[i] = Ones(value, 4 * i) - Ones(value, 4 * i + 2)
    BY DEF NoiseAgrees
  <2>1. value \in StreamType /\ out = NoisePoly(value)
    BY DEF IInv, Typed, WasRead
  <2> QED BY <2>1, NoiseOnes
<1> QED BY InvariantHolds, <1>1, PTL

=============================================================================
