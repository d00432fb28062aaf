--------------------------- MODULE MCKemExchange ----------------------------
(***************************************************************************)
(* Instance of KemExchange for TLC: the ring with 8 coefficients, vectors  *)
(* of two polynomials, and hash functions that scatter small numbers.  The *)
(* noise of seeds 0 and 1 is the largest there is: every coefficient 2, or *)
(* 2 and -2 in turn.                                                       *)
(***************************************************************************)
EXTENDS KemExchange, Bitwise

MCXor(a, b) == a ^^ b
MCKeys == << 60961, 30029, 36939, 53059 >>

Scatter(a, b, c) == (((a * 7919 + b * 1543 + c * 389 + 12345) % 46337)^2) \div 7
FamilyNumber(fam) == IF fam = "shake" THEN 0 ELSE 17

(* Of bytes, and of a number that goes before them.                        *)
Digest(first, buf, len) ==
  LET h[i \in 0..len] ==
        IF i = 0 THEN first ELSE (h[i - 1] * 31 + buf[i - 1]) % 46337
  IN  h[len]

MCHashH(fam, pk) == Digest(pk[2] + FamilyNumber(fam), pk[1], PolyVecBytes)
MCHashG(fam, in) ==
  LET x == Scatter(in[1][0], in[2] % 46337, FamilyNumber(fam))
  IN  << x % 46337, (x \div 7) % 5 >>
MCRkprf(fam, z, c) ==
  100000 + Digest(Digest(z + FamilyNumber(fam), c[1], VecCompressedBytes),
                  c[2], CompressedBytes)

MCPrf(fam, seed, nonce) ==
  [x \in 0..(N \div 2 - 1) |->
     CASE seed = 0 -> 51
       [] seed = 1 -> 195
       [] OTHER -> Scatter(seed, nonce + 40, x + FamilyNumber(fam)) % 256]
MCUniform(fam, seed, x, y) ==
  [i \in 0..(N - 1) |-> Scatter(seed + FamilyNumber(fam), 10 * x + y, i) % 3329]

MCCoins == {[x \in 0..0 |-> b] : b \in {0, 51, 85, 195, 255}}

=============================================================================
