---------------------------- MODULE KemExchange -----------------------------
(***************************************************************************)
(* Key encapsulation between the implementations.  One of them makes a key *)
(* pair, another encapsulates under the public key and a third             *)
(* decapsulates, all of one family of hash functions; what passes between  *)
(* them are encoded bytes, of which one may change on the way.  The        *)
(* encryption below is compared with the same encryption written with      *)
(* nothing but multiplication modulo Q, without Montgomery factors,        *)
(* transforms in place or shuffles.                                        *)
(***************************************************************************)
EXTENDS Lattice

CONSTANTS
  Coins,      (* the coins of key generation and of encapsulation:       *)
              (* buffers of N / 8 bytes                                  *)
  Zs,         (* the other half of the coins of key generation           *)
  Secrets     (* what the output buffer of decapsulation may hold        *)

VARIABLES
  family,     (* the hash functions of the implementations that take part *)
  keyCoins,   (* coins of the key pair                                   *)
  key,        (* the key pair                                            *)
  sent,       (* << message, coins of the encryption >>                  *)
  secret,     (* the secret of the encapsulation                         *)
  ct,         (* the ciphertext                                          *)
  changed,    (* whether it was changed on the way                       *)
  out,        (* the output buffer of the decapsulation                  *)
  pc          (* what has been done                                      *)

vars == << family, keyCoins, key, sent, secret, ct, changed, out, pc >>

C == INSTANCE KemC
Cpp == INSTANCE KemCpp
Ref == INSTANCE KemRef
Rust == INSTANCE KemRust

Init ==
  /\ family \in {"shake", "blake3"}
  /\ keyCoins \in Coins \X Zs
  /\ out \in Secrets
  /\ pc = "start" /\ changed = FALSE
  /\ key = << >> /\ sent = << >> /\ secret = << >> /\ ct = << >>

GenerateKey(pair) ==
  /\ pc = "start" /\ pc' = "key"
  /\ key' = pair
  /\ UNCHANGED << family, keyCoins, sent, secret, ct, changed, out >>

Encapsulate(m, made) ==
  /\ pc = "key" /\ pc' = "sent"
  /\ sent' = << m, HashG(family, << m, HashH(family, key.pk) >>)[2] >>
  /\ secret' = made.ss
  /\ ct' = made.ct
  /\ UNCHANGED << family, keyCoins, key, changed, out >>

(* The lowest bit of the first byte of one part of the ciphertext changes. *)
Change(part) ==
  /\ pc = "sent" /\ ~changed /\ changed' = TRUE
  /\ ct' = [ct EXCEPT ![part][0] = IF @ % 2 = 0 THEN @ + 1 ELSE @ - 1]
  /\ UNCHANGED << family, keyCoins, key, sent, secret, out, pc >>

Decapsulate(ss) ==
  /\ pc = "sent" /\ pc' = "received"
  /\ out' = ss
  /\ UNCHANGED << family, keyCoins, key, sent, secret, ct, changed >>

KeyC    == family = "shake" /\ GenerateKey(C!KemKeypairDerand(keyCoins))
KeyCpp  == family = "shake" /\ GenerateKey(Cpp!KemKeypairDerand(keyCoins))
KeyRef  == family = "shake" /\ GenerateKey(Ref!KemKeypairDerand(keyCoins))
KeyRust == family = "blake3" /\ GenerateKey(Rust!KemKeypairDerand(keyCoins))

EncC(m)    == family = "shake" /\ Encapsulate(m, C!KemEncDerand(key.pk, m))
EncCpp(m)  == family = "shake" /\ Encapsulate(m, Cpp!KemEncDerand(key.pk, m))
EncRef(m)  == family = "shake" /\ Encapsulate(m, Ref!KemEncDerand(key.pk, m))
EncRust(m) == family = "blake3" /\ Encapsulate(m, Rust!KemEncDerand(key.pk, m))

DecC    == family = "shake" /\ Decapsulate(C!KemDec(out, ct, key.sk))
DecCpp  == family = "shake" /\ Decapsulate(Cpp!KemDec(out, ct, key.sk))
DecRef  == family = "shake" /\ Decapsulate(Ref!KemDec(out, ct, key.sk))
DecRust == family = "blake3" /\ Decapsulate(Rust!KemDec(out, ct, key.sk))

Next ==
  \/ KeyC \/ KeyCpp \/ KeyRef \/ KeyRust
  \/ \E m \in Coins : EncC(m) \/ EncCpp(m) \/ EncRef(m) \/ EncRust(m)
  \/ \E part \in 1..2 : Change(part)
  \/ DecC \/ DecCpp \/ DecRef \/ DecRust

Spec == Init /\ [][Next]_vars

-----------------------------------------------------------------------------
(* The scheme by its definition, in Z_Q[X] / (X^N + 1).                    *)
NoisePoly(seed, nonce) ==
  LET buf == Prf(family, seed, nonce)
      coeff(i) == BitPair(buf, 4 * i) - BitPair(buf, 4 * i + 2)
  IN  Poly(coeff)

Transform(f) == ReferenceNtt(f, N)

(* The polynomial whose transform is f.                                    *)
Untransform(f) ==
  LET half == N \div 2
      inverse == CHOOSE x \in 1..(Q - 1) : (x * half) % Q = 1
      coeff(i) ==
        LET term == [p \in 0..(half - 1) |->
              (f[2 * p + (i % 2)] % Q)
              * Powers[(256 * 256 - PairExponent(N, p) * (i \div 2)) % 256]]
        IN  (Total(term, half) * inverse) % Q
  IN  Poly(coeff)

(* The sum of the products of two vectors of polynomials.                  *)
Product(a, b) ==
  LET term == [j \in 0..(K - 1) |-> ReferenceProduct(a[j], b[j], N)]
      coeff(i) == Total([j \in 0..(K - 1) |-> term[j][i]], K)
  IN  Poly(coeff)

(* Entry of A, the transform of which the stream gives.                    *)
Entry(seed, i, j) == Untransform(Uniform(family, seed, j, i))

Congruent(f, g) == \A i \in 0..(N - 1) : (f[i] - g[i]) % Q = 0
Secret(seed) == [i \in 0..(K - 1) |-> NoisePoly(seed, i)]

(* A key pair holds a secret vector s and the vector t = A s + e, both     *)
(* transformed and without any Montgomery factor (indcpa_keypair_derand).  *)
KeyIsTextbook ==
  pc # "start" =>
    LET seeds == HashG(family, << keyCoins[1], K >>)
        s == Secret(seeds[2])
        t == C!PolyVecFromBytes(key.pk[1])
    IN  \A i \in 0..(K - 1) :
          LET row == [j \in 0..(K - 1) |-> Entry(seeds[1], i, j)]
              as == Product(row, s)
              e == NoisePoly(seeds[2], K + i)
          IN  /\ Congruent(Untransform(C!PolyVecFromBytes(key.sk[1])[i]), s[i])
              /\ Congruent(Untransform(t[i]), [x \in 0..(N - 1) |-> as[x] + e[x]])

(* A ciphertext holds A^T r + e1 and t r + e2 + m (Q + 1) / 2, with each   *)
(* coefficient u rounded to floor((2^d u + Q / 2) / Q), for d = 10 and 4   *)
(* (indcpa_enc): the bits are those of the definition, whichever           *)
(* implementation encrypted.                                               *)
Rounded(u, d) == ((2^d * (u % Q) + Q \div 2) \div Q) % 2^d

CiphertextIsTextbook ==
  pc \in {"sent", "received"} /\ ~changed =>
    LET m == sent[1]
        r == Secret(sent[2])
        t == [i \in 0..(K - 1) |-> Untransform(C!PolyVecFromBytes(key.pk[1])[i])]
        tr == Product(t, r)
    IN  /\ \A i \in 0..(K - 1) :
             LET column == [j \in 0..(K - 1) |-> Entry(key.pk[2], j, i)]
                 ar == Product(column, r)
                 e1 == NoisePoly(sent[2], K + i)
             IN  \A x \in 0..(N - 1) :
                   TenBitWord(ct[1], i * N + x) = Rounded(ar[x] + e1[x], 10)
        /\ LET e2 == NoisePoly(sent[2], 2 * K)
               bit(x) == StreamBit(m, x) * ((Q + 1) \div 2)
           IN  \A x \in 0..(N - 1) :
                 FourBitWord(ct[2], x) = Rounded(tr[x] + e2[x] + bit(x), 4)

(* Whichever implementations take part, an encapsulated secret is received *)
(* whatever the output buffer held (crypto_kem_dec): in a ring this small  *)
(* no choice of the noise can make decryption fail.  Of a ciphertext that  *)
(* was changed all of them make the same secret, which depends on the      *)
(* ciphertext and on the z of the key alone.                               *)
SecretsAgree ==
  pc = "received" =>
    out = IF changed THEN Rkprf(family, keyCoins[2], ct) ELSE secret

=============================================================================
