----------------------------- MODULE KemDecaps ------------------------------
(***************************************************************************)
(* td18_kem_dec of kem.c step by step, while bytes of its redundant copies *)
(* change under it.  Decryption, hashing and re-encryption are each done   *)
(* three times and a bytewise majority vote follows each of them; then the *)
(* voted ciphertext is compared with the received one, and two conditional *)
(* moves write the result over whatever the output buffer held.            *)
(*                                                                         *)
(* A fault changes one byte of one of the three copies between the         *)
(* computation of the copies and the vote.  Nothing reads a copy before    *)
(* the vote, so a fault that strikes earlier has the same effect.          *)
(*                                                                         *)
(* The work of vdf_prove and the tag of decaps_state_mac are computed and  *)
(* discarded (kem.c:132-138 and 147-150): neither reaches the result.  The *)
(* seed of the transforms, which td18_kem_dec stores, does not either: see *)
(* ImplementsOrdered of module ShuffledNTT.                                *)
(***************************************************************************)
EXTENDS Kem, FiniteSets

CONSTANTS
  Received,   (* the ciphertexts the call may be given                   *)
  MaxFaults   (* bound: bytes that change during one call                *)

ASSUME DecapsAssumption ==
  /\ Received \subseteq Ciphertexts
  /\ MaxFaults \in Nat

Copies == 1..3
Triple(x) == [c \in Copies |-> x]
ZeroOn(D) == [i \in D |-> 0]

VARIABLES
  pc,         (* what td18_kem_dec does next                             *)
  ct,         (* the received ciphertext                                 *)
  bufs,       (* buf0, buf1, buf2 of triple_decaps_buf                   *)
  buf,        (* their vote                                              *)
  krs,        (* kr0, kr1, kr2                                           *)
  kr,         (* their vote                                              *)
  cmps,       (* cmp0, cmp1, cmp2                                        *)
  cmp,        (* their vote                                              *)
  fail,       (* the result of td18_verify                               *)
  ss,         (* the output buffer                                       *)
  hits        (* history: << stage, copy, position >> of each fault      *)

vars == << pc, ct, bufs, buf, krs, kr, cmps, cmp, fail, ss, hits >>

Stages == {"buf", "kr", "cmp"}
Steps == {"decrypt", "vote buf", "hash", "vote kr", "encrypt", "vote cmp",
          "verify", "select", "done"}

TypeOK ==
  /\ pc \in Steps
  /\ ct \in Ciphertexts
  /\ bufs \in [Copies -> Buffers] /\ buf \in Buffers
  /\ krs \in [Copies -> Hashes] /\ kr \in Hashes
  /\ cmps \in [Copies -> Ciphertexts] /\ cmp \in Ciphertexts
  /\ fail \in {0, 1}
  /\ ss \in Secrets
  /\ hits \subseteq Stages \X Copies \X (BufIdx \cup KrIdx \cup CtIdx)

Init ==
  /\ pc = "decrypt"
  /\ ct \in Received
  /\ bufs = Triple(ZeroOn(BufIdx)) /\ buf = ZeroOn(BufIdx)
  /\ krs = Triple(ZeroOn(KrIdx)) /\ kr = ZeroOn(KrIdx)
  /\ cmps = Triple(ZeroOn(CtIdx)) /\ cmp = ZeroOn(CtIdx)
  /\ fail = 0
  /\ ss \in Secrets
  /\ hits = {}

Move(from, to) == pc = from /\ pc' = to

-----------------------------------------------------------------------------
(* Mutant of Winner: the third copy is never asked.                        *)
WinnerOfTwo(a, b, c) == IF a = b THEN a ELSE b

(* One byte of majority_vote.                                              *)
Winner(a, b, c) == IF a = b \/ a = c THEN a ELSE b

MajorityVote(copies, D) ==
  [i \in D |-> Winner(copies[1][i], copies[2][i], copies[3][i])]

-----------------------------------------------------------------------------
(* Mutant of TripleDecrypt: H(pk) is copied into the first buffer only.    *)
TripleDecryptHpkOnce ==
  /\ Move("decrypt", "vote buf")
  /\ bufs' = [c \in Copies |->
                IF c = 1 THEN WithHpk(Dec(ct))
                ELSE [i \in BufIdx |-> IF i \in MsgIdx THEN Dec(ct)[i] ELSE 0]]
  /\ UNCHANGED << ct, buf, krs, kr, cmps, cmp, fail, ss, hits >>

(* triple_decaps_buf up to its vote.                                       *)
TripleDecrypt ==
  /\ Move("decrypt", "vote buf")
  /\ bufs' = Triple(WithHpk(Dec(ct)))
  /\ UNCHANGED << ct, buf, krs, kr, cmps, cmp, fail, ss, hits >>

VoteBuf ==
  /\ Move("vote buf", "hash")
  /\ buf' = MajorityVote(bufs, BufIdx)
  /\ UNCHANGED << ct, bufs, krs, kr, cmps, cmp, fail, ss, hits >>

TripleHash ==
  /\ Move("hash", "vote kr")
  /\ krs' = Triple(G(buf))
  /\ UNCHANGED << ct, bufs, buf, kr, cmps, cmp, fail, ss, hits >>

VoteKr ==
  /\ Move("vote kr", "encrypt")
  /\ kr' = MajorityVote(krs, KrIdx)
  /\ UNCHANGED << ct, bufs, buf, krs, cmps, cmp, fail, ss, hits >>

TripleEncrypt ==
  /\ Move("encrypt", "vote cmp")
  /\ cmps' = Triple(Enc(MessageOf(buf), CoinsOf(kr)))
  /\ UNCHANGED << ct, bufs, buf, krs, kr, cmp, fail, ss, hits >>

VoteCmp ==
  /\ Move("vote cmp", "verify")
  /\ cmp' = MajorityVote(cmps, CtIdx)
  /\ UNCHANGED << ct, bufs, buf, krs, kr, cmps, fail, ss, hits >>

(* Mutants of Verify: the number of bytes that differ is not brought down  *)
(* to one bit; and the comparison stops before the last byte.              *)
VerifyCount ==
  /\ Move("verify", "select")
  /\ fail' = Cardinality({i \in CtIdx : ct[i] # cmp[i]})
  /\ UNCHANGED << ct, bufs, buf, krs, kr, cmps, cmp, ss, hits >>

VerifyPrefix ==
  /\ Move("verify", "select")
  /\ LET last == CHOOSE i \in CtIdx : \A j \in CtIdx : j <= i
     IN  fail' = IF \E i \in CtIdx \ {last} : ct[i] # cmp[i] THEN 1 ELSE 0
  /\ UNCHANGED << ct, bufs, buf, krs, kr, cmps, cmp, ss, hits >>

(* td18_verify: the OR of the differences, brought down to one bit.        *)
Verify ==
  /\ Move("verify", "select")
  /\ fail' = IF \E i \in CtIdx : ct[i] # cmp[i] THEN 1 ELSE 0
  /\ UNCHANGED << ct, bufs, buf, krs, kr, cmps, cmp, ss, hits >>

(* td18_cmov with a condition of one bit.                                  *)
Cmov(old, new, b) == IF b = 1 THEN new ELSE old

(* Mutant of Select: the two conditions are swapped.                       *)
SelectSwapped ==
  /\ Move("select", "done")
  /\ ss' = Cmov(Cmov(ss, KeyOf(kr), fail), Reject(ct), 1 - fail)
  /\ krs' = Triple(ZeroOn(KrIdx))
  /\ buf' = ZeroOn(BufIdx)
  /\ UNCHANGED << ct, bufs, kr, cmps, cmp, fail, hits >>

(* The implicit rejection and the clearing of the copies and of buf.       *)
Select ==
  /\ Move("select", "done")
  /\ ss' = Cmov(Cmov(ss, KeyOf(kr), 1 - fail), Reject(ct), fail)
  /\ krs' = Triple(ZeroOn(KrIdx))
  /\ buf' = ZeroOn(BufIdx)
  /\ UNCHANGED << ct, bufs, kr, cmps, cmp, fail, hits >>

-----------------------------------------------------------------------------
(* Whether a fault may still strike byte i of copy c of a stage.           *)
MayHit(stage, c, i) ==
  /\ Cardinality(hits) < MaxFaults
  /\ << stage, c, i >> \notin hits
  /\ hits' = hits \cup {<< stage, c, i >>}

FaultInBuf(c, i, v) ==
  /\ pc = "vote buf" /\ v # bufs[c][i] /\ MayHit("buf", c, i)
  /\ bufs' = [bufs EXCEPT ![c][i] = v]
  /\ UNCHANGED << pc, ct, buf, krs, kr, cmps, cmp, fail, ss >>

FaultInKr(c, i, v) ==
  /\ pc = "vote kr" /\ v # krs[c][i] /\ MayHit("kr", c, i)
  /\ krs' = [krs EXCEPT ![c][i] = v]
  /\ UNCHANGED << pc, ct, bufs, buf, kr, cmps, cmp, fail, ss >>

FaultInCmp(c, i, v) ==
  /\ pc = "vote cmp" /\ v # cmps[c][i] /\ MayHit("cmp", c, i)
  /\ cmps' = [cmps EXCEPT ![c][i] = v]
  /\ UNCHANGED << pc, ct, bufs, buf, krs, kr, cmp, fail, ss >>

Fault ==
  \E c \in Copies, v \in Byte :
    \/ \E i \in BufIdx : FaultInBuf(c, i, v)
    \/ \E i \in KrIdx : FaultInKr(c, i, v)
    \/ \E i \in CtIdx : FaultInCmp(c, i, v)

Next ==
  \/ TripleDecrypt \/ VoteBuf \/ TripleHash \/ VoteKr
  \/ TripleEncrypt \/ VoteCmp \/ Verify \/ Select
  \/ Fault

Spec == Init /\ [][Next]_vars

-----------------------------------------------------------------------------
(* Two copies of byte i of a stage have been hit: no vote can repair it.   *)
Outvoted(stage, i) ==
  \E c, d \in Copies :
    c # d /\ << stage, c, i >> \in hits /\ << stage, d, i >> \in hits

(* No byte of any stage was hit in two copies.                             *)
NoneOutvoted ==
  \A stage \in Stages, i \in BufIdx \cup KrIdx \cup CtIdx : ~Outvoted(stage, i)

(* A vote returns every byte as it was computed, unless faults hit two of  *)
(* its three copies.  (Claim of kem.rs:113-116.)                           *)
VotesMask ==
  /\ pc \in Steps \ {"decrypt", "vote buf", "done"} =>
       \A i \in BufIdx : ~Outvoted("buf", i) => buf[i] = WithHpk(Dec(ct))[i]
  /\ pc \in {"encrypt", "vote cmp", "verify", "select"} =>
       \A i \in KrIdx : ~Outvoted("kr", i) => kr[i] = G(buf)[i]
  /\ pc \in {"verify", "select"} =>
       \A i \in CtIdx : ~Outvoted("cmp", i) =>
         cmp[i] = Enc(MessageOf(buf), CoinsOf(kr))[i]

(* Whatever bytes of the other copies were hit, the re-encryption only     *)
(* lets a message through that the ciphertext really decrypts to.          *)
AcceptsDecryptedOnly ==
  pc = "select" /\ fail = 0 /\ (\A i \in CtIdx : ~Outvoted("cmp", i)) =>
    MessageOf(buf) = Dec(ct)

(* Both ends of an undisturbed exchange hold the same secret: if at most   *)
(* one copy of each byte was hit, an encapsulated ciphertext yields the    *)
(* secret that was encapsulated.                                           *)
Agreement ==
  pc = "done" /\ NoneOutvoted =>
    \A m \in Messages : Encapsulate(m).ct = ct => ss = Encapsulate(m).ss

(* td18_kem_dec keeps the promise of module Decaps under any faults.       *)
Promise == INSTANCE Decaps WITH returned <- pc = "done", outvoted <- ~NoneOutvoted

ImplementsDecaps == Promise!Spec

=============================================================================
