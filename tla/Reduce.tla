------------------------------- MODULE Reduce -------------------------------
(***************************************************************************)
(* Arithmetic modulo Q.  First the reductions of reduce.c, Montgomery and  *)
(* Barrett reduction on C's int16_t / int32_t.  Every intermediate result  *)
(* the code stores in an int16_t is wrapped with Int16; every intermediate *)
(* the code keeps in an int32_t stays below 2^31 on the inputs the callers *)
(* use, which TLC itself enforces: it stops on a 32-bit overflow.  Then    *)
(* the roots of ntt.c, and what they stand for: a reference transform and  *)
(* a reference product that use nothing but modular arithmetic, against    *)
(* which the loops are checked.                                            *)
(***************************************************************************)
EXTENDS Integers

(* TD18_Q, TD18_QINV and the Barrett constant V of reduce.c.               *)
Q    == 3329
QINV == -3327
BarrettV == (67108864 + (Q \div 2)) \div Q

(* Conversion of an int to int16_t: two's complement wrap-around.          *)
Int16(x) == ((x + 32768) % 65536) - 32768

(* td18_montgomery_reduce: a * 2^-16 modulo Q, for |a| < Q * 2^15.         *)
MontgomeryReduce(a) ==
  LET t == Int16(a)
      u == a - Int16(t * QINV) * Q
  IN  Int16(u \div 65536)

(* td18_barrett_reduce: the representative of a nearest to zero.           *)
BarrettReduce(a) ==
  LET t == (BarrettV * a + 33554432) \div 67108864
  IN  Int16(a - Int16(t * Q))

(* fqmul of ntt.c: Montgomery product.                                     *)
FqMul(a, b) == MontgomeryReduce(a * b)

-----------------------------------------------------------------------------
(* The table ZETAS of ntt.c: powers of 17, times 2^16, modulo 3329, in     *)
(* bit-reversed order of the exponent; its first element is never used.    *)
ZETAS == <<
  -1044, -758, -359, -1517, 1493, 1422, 287, 202,
  -171, 622, 1577, 182, 962, -1202, -1474, 1468,
  573, -1325, 264, 383, -829, 1458, -1602, -130,
  -681, 1017, 732, 608, -1542, 411, -205, -1571,
  1223, 652, -552, 1015, -1293, 1491, -282, -1544,
  516, -8, -320, -666, -1618, -1162, 126, 1469,
  -853, -90, -271, 830, 107, -1421, -247, -951,
  -398, 961, -1508, -725, 448, -1065, 677, -1275,
  -1103, 430, 555, 843, -1251, 871, 1550, 105,
  422, 587, 177, -235, -291, -460, 1574, 1653,
  -246, 778, 1159, -147, -777, 1483, -602, 1119,
  -1590, 644, -872, 349, 418, 329, -156, -75,
  817, 1097, 603, 610, 1322, -1285, -1465, 384,
  -1215, -136, 1218, -1335, -874, 220, -1187, -1659,
  -1185, -1530, -1278, 794, -1510, -854, -870, 478,
  -108, -308, 996, 991, 958, -1460, 1522, 1628 >>

(* The prefix of the table that a ring with n coefficients uses, from 0.   *)
ZetaTable(n) == [i \in 0..((n \div 2) - 1) |-> ZETAS[i + 1]]

(* F of td18_invntt is 1441 = 2^32 / 128 (mod 3329) for n = 256; a smaller *)
(* ring divides by its own n / 2.                                          *)
F == 1441
InvFactor(n) == (F * (256 \div n)) % 3329

-----------------------------------------------------------------------------
(* c[j] + z * c[j + d] + z^2 * c[j + 2 * d] + ..., for every j, modulo Q:   *)
(* Horner's rule on every d-th coefficient, from the last of the n back.   *)
Horner(c, n, d, z) ==
  LET value[j \in 0..(n + d - 1)] ==
        IF j >= n THEN 0 ELSE (c[j] + z * value[j + d]) % Q
  IN  value

(* The sum of g over 0..n-1, modulo Q.                                     *)
Total(g, n) == Horner(g, n, 1, 1)[0]

(* 17^e modulo 3329, for every exponent below the order 256 of 17.         *)
Powers ==
  LET power[e \in 0..255] ==
        IF e = 0 THEN 1
        ELSE LET half == power[e \div 2]
                 square == (half * half) % 3329
             IN  IF e % 2 = 0 THEN square ELSE (17 * square) % 3329
  IN  power

(* i with its lowest w bits reversed.                                      *)
BitReverse(i, w) ==
  LET rev[j \in 0..w] ==
        IF j = 0 THEN 0 ELSE 2 * rev[j-1] + ((i \div (2^(j-1))) % 2)
  IN  rev[w]

(* X^n + 1 splits into the n/2 factors X^2 - 17^e, the exponents being the *)
(* odd multiples of 256/n.                                                 *)
PairExponent(n, p) ==
  LET w == CHOOSE j \in 0..8 : 2^j = n \div 2
  IN  (256 \div n) * (2 * BitReverse(p, w) + 1)

(* The transform of f: its residues modulo the factors, which are the      *)
(* values of its even and of its odd part at the roots.                    *)
ReferenceNtt(f, n) ==
  [i \in 0..(n - 1) |-> Horner(f, n, 2, Powers[PairExponent(n, i \div 2)])[i % 2]]

(* f * g in Z_3329[X] / (X^n + 1).                                         *)
ReferenceProduct(f, g, n) ==
  [i \in 0..(n - 1) |->
     LET term == [j \in 0..(n - 1) |->
                    IF j <= i THEN f[j] * g[i - j] ELSE - f[j] * g[n + i - j]]
     IN  Total(term, n)]

=============================================================================
