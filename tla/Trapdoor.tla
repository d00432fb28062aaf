------------------------------ MODULE Trapdoor ------------------------------
(***************************************************************************)
(* The identity commitments of trapdoor.c, trapdoor.rs and trapdoor.cpp:   *)
(* an authority with a short basis of the kernel of its row A; the         *)
(* commitment A . t + encode(id) of an identity; its verification.         *)
(*                                                                         *)
(* Polynomials are functions on 0..(N - 1).  Hashes are terms: SHA3 and    *)
(* BLAKE3 are taken to be injective.                                       *)
(***************************************************************************)
EXTENDS Integers

CONSTANTS
  Languages,  (* the implementations                                     *)
  N, Q,       (* degree and modulus of the ring                          *)
  Byte,       (* a byte has the values 0..(Byte - 1)                     *)
  Ids,        (* identities: functions from 0..(n - 1) to bytes          *)
  Noise       (* what cbd2 makes of random bytes: coefficients -2..2     *)

(* The product of r12 and r23 and one more coefficient stay below half of  *)
(* the modulus, as 256 * 4 + 2 does.  The bytes of an identity (32) are    *)
(* spread evenly, and the modulus is to a byte as 3329 is to 256.          *)
TrapdoorAssumption ==
  /\ {N, Q, Byte} \subseteq Nat \ {0} /\ 2 * (N * 4 + 2) < Q
  /\ Noise \subseteq [0..(N - 1) -> -2..2]
  /\ Byte <= Q /\ Q % Byte = 1
  /\ \E n \in 1..N : N % n = 0 /\ Ids \subseteq [0..(n - 1) -> 0..(Byte - 1)]

VARIABLES
  lang,       (* the implementation                                      *)
  stage,      (* which function ran last                                 *)
  authority,  (* a_row, basis1 and basis2                                *)
  t,          (* t_out of alice_commit_identity                          *)
  id,         (* the identity that is committed to                       *)
  commit,     (* u, t_commitment and challenge                           *)
  claimed,    (* the identity that is verified                           *)
  target,     (* u - encode(claimed), which is computed and not used     *)
  result      (* of authority_verify_and_trace                           *)

vars == << lang, stage, authority, t, id, commit, claimed, target, result >>

Coeffs == 0..(N - 1)
Zero == [x \in Coeffs |-> 0]
One == [x \in Coeffs |-> IF x = 0 THEN 1 ELSE 0]
Add(a, b) == [x \in Coeffs |-> a[x] + b[x]]
Negate(a) == [x \in Coeffs |-> -a[x]]

-----------------------------------------------------------------------------
(* What % gives in C, C++ and Rust: the sign of the dividend.              *)
Remainder(x) == IF x < 0 THEN -((-x) % Q) ELSE x % Q

(* Mutant of Centred: the upper half of the residues is left as it is.     *)
CentredNot(x) ==
  LET r == Remainder(x) IN IF r < 0 THEN r + Q ELSE r

Centred(x) ==
  LET r == IF Remainder(x) < 0 THEN Remainder(x) + Q ELSE Remainder(x)
  IN  IF r > Q \div 2 THEN r - Q ELSE r

(* The sum of g over 0..(N - 1), in the order of the loops.                *)
Sum(g) ==
  LET sum[i \in 0..N] == IF i = 0 THEN 0 ELSE sum[i - 1] + g[i - 1]
  IN  sum[N]

(* tmp of poly_mul_schoolbook: the product before it is folded.            *)
Convolution(a, b) ==
  [k \in 0..(2 * N - 1) |->
     Sum([i \in Coeffs |-> IF k - i \in Coeffs THEN a[i] * b[k - i] ELSE 0])]

(* Mutant of Schoolbook: the folded half is added.                         *)
SchoolbookCyclic(a, b) ==
  LET tmp == Convolution(a, b) IN [x \in Coeffs |-> Centred(tmp[x] + tmp[x + N])]

Schoolbook(a, b) ==
  LET tmp == Convolution(a, b) IN [x \in Coeffs |-> Centred(tmp[x] - tmp[x + N])]

(* A times a vector of three, as alice_commit_identity computes it.        *)
RowTimes(row, v) ==
  Add(Add(Schoolbook(row[0], v[0]), Schoolbook(row[1], v[1])), Schoolbook(row[2], v[2]))

(* Mutant of EncodeIdentity: the cast of Rust in every language.           *)
EncodeIdentityCast(bytes) ==
  LET count == CHOOSE m \in 1..N : DOMAIN bytes = 0..(m - 1)
  IN  [x \in Coeffs |-> IF x % (N \div count) = 0
                        THEN bytes[x \div (N \div count)] % (Q % Byte) ELSE 0]

(* The bytes go to every (N / n)-th coefficient, modulo Q; but Rust casts  *)
(* Q to a byte first, where 3329 is 1.                                     *)
EncodeIdentity(bytes) ==
  LET count == CHOOSE m \in 1..N : DOMAIN bytes = 0..(m - 1)
      modulus == IF lang = "Rust" THEN Q % Byte ELSE Q
  IN  [x \in Coeffs |-> IF x % (N \div count) = 0 THEN bytes[x \div (N \div count)] % modulus
                                                 ELSE 0]

-----------------------------------------------------------------------------
Nothing == [x \in {} |-> 0]

Init ==
  /\ lang \in Languages /\ stage = "start"
  /\ authority = Nothing /\ commit = Nothing /\ t = Nothing
  /\ id \in Ids /\ claimed = id
  /\ target = Zero /\ result = "none"

Vector(a, b, c) == [x \in 0..2 |-> IF x = 0 THEN a ELSE IF x = 1 THEN b ELSE c]

(* Mutant of Authority: r13 is added.                                      *)
AuthorityAdded(r12, r13, r23) ==
  [a_row  |-> Vector(One, Negate(r12), Add(Schoolbook(r12, r23), r13)),
   basis1 |-> Vector(r12, One, Zero),
   basis2 |-> Vector(r13, r23, One)]

Authority(r12, r13, r23) ==
  [a_row  |-> Vector(One, Negate(r12), Add(Schoolbook(r12, r23), Negate(r13))),
   basis1 |-> Vector(r12, One, Zero),
   basis2 |-> Vector(r13, r23, One)]

GenerateAuthority ==
  /\ stage = "start" /\ stage' = "authority"
  /\ \E r12, r13, r23 \in Noise : authority' = Authority(r12, r13, r23)
  /\ UNCHANGED << lang, t, id, commit, claimed, target, result >>

(* Mutant of Challenge: the identity is left out.                          *)
ChallengeOfT(t_commitment, identity) == << "challenge", t_commitment >>

Challenge(t_commitment, identity) == << "challenge", t_commitment, identity >>

CommitIdentity ==
  /\ stage = "authority" /\ stage' = "committed"
  /\ \E t0, t1, t2 \in Noise : t' = Vector(t0, t1, t2)
  /\ commit' = [u            |-> Add(RowTimes(authority.a_row, t'), EncodeIdentity(id)),
                t_commitment |-> << "t", t' >>,
                challenge    |-> Challenge(<< "t", t' >>, id)]
  /\ UNCHANGED << lang, authority, id, claimed, target, result >>

(* Mutant of Minus: the order of Rust in every language.                   *)
MinusReversed(a, b) == Add(b, Negate(a))

(* poly_sub of Rust takes its arguments the other way round.               *)
Minus(a, b) == IF lang = "Rust" THEN Add(b, Negate(a)) ELSE Add(a, Negate(b))

VerifyAndTrace ==
  /\ stage = "committed" /\ stage' = "traced"
  /\ claimed' \in Ids
  /\ target' = Minus(commit.u, EncodeIdentity(claimed'))
  /\ result' = IF Challenge(commit.t_commitment, claimed') = commit.challenge
               THEN "ok" ELSE "err"
  /\ UNCHANGED << lang, authority, t, id, commit >>

Next == GenerateAuthority \/ CommitIdentity \/ VerifyAndTrace

Spec == Init /\ [][Next]_vars

-----------------------------------------------------------------------------
(* Multiplication in the ring of integers modulo Q and x^N + 1.            *)
Folded(a, b, x) ==
  [i \in Coeffs |-> IF i <= x THEN a[i] * b[x - i] ELSE -(a[i] * b[x + N - i])]

Times(a, b) == [x \in Coeffs |-> Sum(Folded(a, b, x)) % Q]

Congruent(a, b) == \A x \in Coeffs : (a[x] - b[x]) % Q = 0

(* A . v for the authority with these short entries, modulo Q.             *)
Image(v) ==
  LET a == authority.a_row IN Add(Add(Times(a[0], v[0]), Times(a[1], v[1])), Times(a[2], v[2]))

(* generate_trapdoor_authority ensures A * basis1 = 0 and A * basis2 = 0:  *)
(* in the ring, and in the unreduced sums of the code too.                 *)
KernelExact ==
  stage # "start" =>
    \A b \in {authority.basis1, authority.basis2} :
      Congruent(Image(b), Zero) /\ RowTimes(authority.a_row, b) = Zero

(* The authority, which compares hashes, accepts the identity that was     *)
(* committed to and no other; and what is left of u when the claimed one   *)
(* is taken away is A . t exactly then, so that the test it leaves out     *)
(* would decide as the hashes do.  The second half is of C and C++ only:   *)
(* of Rust it is false (TargetIsTheImage).                                 *)
AnswerIsTheAlgebra ==
  stage = "traced" =>
    /\ result = "ok" <=> claimed = id
    /\ lang # "Rust" => (result = "ok" <=> Congruent(target, Image(t)))

(* Step 2 of authority_verify_and_trace, as trapdoor.rs:202 has it:        *)
(* target = u - id_poly = A . t, for the identity that is verified and for *)
(* no other.                                                               *)
TargetIsTheImage ==
  stage = "traced" => (result = "ok" <=> Congruent(target, Image(t)))

=============================================================================
