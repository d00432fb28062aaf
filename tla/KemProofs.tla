----------------------------- MODULE KemProofs ------------------------------
(***************************************************************************)
(* Proofs about KemDecaps, for every set of bytes, every layout of the     *)
(* buffers, every correct encryption scheme and any number of faults.      *)
(*                                                                         *)
(* The argument: until its vote every byte of every copy that no fault hit *)
(* is as it was computed (CopiesRight); of three copies two decide, so the *)
(* vote returns what was computed unless two were hit (VotesMask); and the *)
(* chain of votes, when none was lost, computes Decapsulate (ResultRight). *)
(***************************************************************************)
EXTENDS KemDecaps, TLAPS

(* Byte i is x in all the copies of a stage that were not hit there.       *)
RightUnlessHit(stage, copies, i, x) ==
  \A c \in Copies : << stage, c, i >> \notin hits => copies[c][i] = x

(* Before a vote, a byte of a copy that no fault has hit is right.         *)
CopiesRight ==
  /\ pc = "vote buf" =>
       \A i \in BufIdx : RightUnlessHit("buf", bufs, i, WithHpk(Dec(ct))[i])
  /\ pc = "vote kr" =>
       \A i \in KrIdx : RightUnlessHit("kr", krs, i, G(buf)[i])
  /\ pc = "vote cmp" =>
       \A i \in CtIdx :
         RightUnlessHit("cmp", cmps, i, Enc(MessageOf(buf), CoinsOf(kr))[i])

(* fail is the outcome of the comparison.                                  *)
FailRight == pc = "select" => fail = IF \E i \in CtIdx : ct[i] # cmp[i] THEN 1 ELSE 0

ResultRight == pc = "done" /\ NoneOutvoted => ss = Decapsulate(ct)

IInv ==
  /\ TypeOK
  /\ CopiesRight
  /\ VotesMask
  /\ FailRight
  /\ ResultRight

-----------------------------------------------------------------------------
(* The halves of the buffers have their types ...                          *)
LEMMA HalfTypes ==
  /\ \A m \in Messages : WithHpk(m) \in Buffers /\ MessageOf(WithHpk(m)) = m
  /\ \A b \in Buffers : MessageOf(b) \in Messages /\ G(b) \in Hashes
  /\ \A h \in Hashes : KeyOf(h) \in Secrets /\ CoinsOf(h) \in Coins
  /\ \A m \in Messages, c \in Coins : Enc(m, c) \in Ciphertexts
  /\ \A x \in Ciphertexts : Dec(x) \in Messages /\ Reject(x) \in Secrets
<1>1. ASSUME NEW m \in Messages
      PROVE  WithHpk(m) \in Buffers /\ MessageOf(WithHpk(m)) = m
  BY <1>1, KemAssumption DEF WithHpk, MessageOf, Messages, Buffers, BufIdx
<1>2. ASSUME NEW b \in Buffers
      PROVE  MessageOf(b) \in Messages
  BY <1>2 DEF MessageOf, Messages, Buffers, BufIdx
<1>3. ASSUME NEW h \in Hashes
      PROVE  KeyOf(h) \in Secrets /\ CoinsOf(h) \in Coins
  BY <1>3 DEF KeyOf, CoinsOf, Hashes, Secrets, Coins, KrIdx
<1> QED
  BY <1>1, <1>2, <1>3, KemAssumption

(* ... and so have encapsulations and decapsulations.                      *)
LEMMA EncapsulateTypes ==
  ASSUME NEW m \in Messages
  PROVE  Encapsulate(m).ct \in Ciphertexts /\ Encapsulate(m).ss \in Secrets
<1>1. G(WithHpk(m)) \in Hashes
  BY HalfTypes
<1> QED
  BY <1>1, HalfTypes DEF Encapsulate

(* A ciphertext made by Encapsulate decapsulates to the same secret.       *)
THEOREM KemCorrect ==
  ASSUME NEW m \in Messages
  PROVE  Decapsulate(Encapsulate(m).ct) = Encapsulate(m).ss
<1>1. CoinsOf(G(WithHpk(m))) \in Coins
  BY HalfTypes
<1>2. Dec(Encapsulate(m).ct) = m
  BY <1>1, PkeAssumption DEF Encapsulate
<1> QED
  BY <1>2 DEF Decapsulate

-----------------------------------------------------------------------------
(* Two of three decide.                                                    *)
LEMMA VoteRight ==
  ASSUME NEW stage, NEW D, NEW i \in D, NEW copies, NEW x,
         RightUnlessHit(stage, copies, i, x), ~Outvoted(stage, i)
  PROVE  MajorityVote(copies, D)[i] = x
<1>1. 1 \in Copies /\ 2 \in Copies /\ 3 \in Copies
  BY DEF Copies
<1>2. \/ copies[1][i] = x /\ copies[2][i] = x
      \/ copies[1][i] = x /\ copies[3][i] = x
      \/ copies[2][i] = x /\ copies[3][i] = x
  BY <1>1 DEF Outvoted, RightUnlessHit
<1>3. Winner(copies[1][i], copies[2][i], copies[3][i]) = x
  BY <1>2 DEF Winner
<1> QED
  BY <1>3 DEF MajorityVote

(* A vote yields one of the three bytes.                                   *)
LEMMA VoteTypes ==
  ASSUME NEW D, NEW copies \in [Copies -> [D -> Byte]]
  PROVE  MajorityVote(copies, D) \in [D -> Byte]
  BY DEF MajorityVote, Winner, Copies

-----------------------------------------------------------------------------
(* Types: one step per action.                                             *)
LEMMA TypePreserved == TypeOK /\ [Next]_vars => TypeOK'
<1> SUFFICES ASSUME TypeOK, [Next]_vars
             PROVE  TypeOK'
  OBVIOUS
<1>0. /\ ZeroOn(BufIdx) \in Buffers
      /\ ZeroOn(KrIdx) \in Hashes
  BY KemAssumption DEF ZeroOn, Buffers, Hashes
<1>1. CASE TripleDecrypt
  <2>1. Triple(WithHpk(Dec(ct))) \in [Copies -> Buffers]
    BY HalfTypes DEF Triple, TypeOK
  <2> QED
    BY <1>1, <2>1 DEF TripleDecrypt, Move, TypeOK, Steps
<1>2. CASE VoteBuf
  <2>1. MajorityVote(bufs, BufIdx) \in Buffers
    BY VoteTypes DEF TypeOK, Buffers
  <2> QED
    BY <1>2, <2>1 DEF VoteBuf, Move, TypeOK, Steps
<1>3. CASE TripleHash
  <2>1. Triple(G(buf)) \in [Copies -> Hashes]
    BY HalfTypes DEF Triple, TypeOK
  <2> QED
    BY <1>3, <2>1 DEF TripleHash, Move, TypeOK, Steps
<1>4. CASE VoteKr
  <2>1. MajorityVote(krs, KrIdx) \in Hashes
    BY VoteTypes DEF TypeOK, Hashes
  <2> QED
    BY <1>4, <2>1 DEF VoteKr, Move, TypeOK, Steps
<1>5. CASE TripleEncrypt
  <2>1. Triple(Enc(MessageOf(buf), CoinsOf(kr))) \in [Copies -> Ciphertexts]
    BY HalfTypes DEF Triple, TypeOK
  <2> QED
    BY <1>5, <2>1 DEF TripleEncrypt, Move, TypeOK, Steps
<1>6. CASE VoteCmp
  <2>1. MajorityVote(cmps, CtIdx) \in Ciphertexts
    BY VoteTypes DEF TypeOK, Ciphertexts
  <2> QED
    BY <1>6, <2>1 DEF VoteCmp, Move, TypeOK, Steps
<1>7. CASE Verify
  BY <1>7 DEF Verify, Move, TypeOK, Steps
<1>8. CASE Select
  <2>1. Triple(ZeroOn(KrIdx)) \in [Copies -> Hashes]
    BY <1>0 DEF Triple
  <2>2. Cmov(Cmov(ss, KeyOf(kr), 1 - fail), Reject(ct), fail) \in Secrets
    BY HalfTypes DEF Cmov, TypeOK
  <2> QED
    BY <1>0, <1>8, <2>1, <2>2 DEF Select, Move, TypeOK, Steps
<1>9. CASE Fault
  <2>1. PICK c \in Copies, v \in Byte :
          \/ \E i \in BufIdx : FaultInBuf(c, i, v)
          \/ \E i \in KrIdx : FaultInKr(c, i, v)
          \/ \E i \in CtIdx : FaultInCmp(c, i, v)
    BY <1>9 DEF Fault
  <2>2. CASE \E i \in BufIdx : FaultInBuf(c, i, v)
    <3>1. PICK i \in BufIdx : FaultInBuf(c, i, v)
      BY <2>2
    <3>2. bufs' \in [Copies -> Buffers]
      BY <3>1 DEF FaultInBuf, TypeOK, Buffers
    <3>3. hits' \subseteq Stages \X Copies \X (BufIdx \cup KrIdx \cup CtIdx)
      <4>1. hits' = hits \cup {<< "buf", c, i >>}
        BY <3>1 DEF FaultInBuf, MayHit
      <4>2. << "buf", c, i >> \in Stages \X Copies \X (BufIdx \cup KrIdx \cup CtIdx)
        BY DEF Stages
      <4>3. hits \subseteq Stages \X Copies \X (BufIdx \cup KrIdx \cup CtIdx)
        BY DEF TypeOK
      <4> QED
        BY <4>1, <4>2, <4>3
    <3> QED
      BY <3>1, <3>2, <3>3 DEF FaultInBuf, TypeOK
  <2>3. CASE \E i \in KrIdx : FaultInKr(c, i, v)
    <3>1. PICK i \in KrIdx : FaultInKr(c, i, v)
      BY <2>3
    <3>2. krs' \in [Copies -> Hashes]
      BY <3>1 DEF FaultInKr, TypeOK, Hashes
    <3>3. hits' \subseteq Stages \X Copies \X (BufIdx \cup KrIdx \cup CtIdx)
      <4>1. hits' = hits \cup {<< "kr", c, i >>}
        BY <3>1 DEF FaultInKr, MayHit
      <4>2. << "kr", c, i >> \in Stages \X Copies \X (BufIdx \cup KrIdx \cup CtIdx)
        BY DEF Stages
      <4>3. hits \subseteq Stages \X Copies \X (BufIdx \cup KrIdx \cup CtIdx)
        BY DEF TypeOK
      <4> QED
        BY <4>1, <4>2, <4>3
    <3> QED
      BY <3>1, <3>2, <3>3 DEF FaultInKr, TypeOK
  <2>4. CASE \E i \in CtIdx : FaultInCmp(c, i, v)
    <3>1. PICK i \in CtIdx : FaultInCmp(c, i, v)
      BY <2>4
    <3>2. cmps' \in [Copies -> Ciphertexts]
      BY <3>1 DEF FaultInCmp, TypeOK, Ciphertexts
    <3>3. hits' \subseteq Stages \X Copies \X (BufIdx \cup KrIdx \cup CtIdx)
      <4>1. hits' = hits \cup {<< "cmp", c, i >>}
        BY <3>1 DEF FaultInCmp, MayHit
      <4>2. << "cmp", c, i >> \in Stages \X Copies \X (BufIdx \cup KrIdx \cup CtIdx)
        BY DEF Stages
      <4>3. hits \subseteq Stages \X Copies \X (BufIdx \cup KrIdx \cup CtIdx)
        BY DEF TypeOK
      <4> QED
        BY <4>1, <4>2, <4>3
    <3> QED
      BY <3>1, <3>2, <3>3 DEF FaultInCmp, TypeOK
  <2> QED
    BY <2>1, <2>2, <2>3, <2>4
<1>10. CASE UNCHANGED vars
  BY <1>10 DEF vars, TypeOK
<1> QED
  BY <1>1, <1>2, <1>3, <1>4, <1>5, <1>6, <1>7, <1>8, <1>9, <1>10 DEF Next

-----------------------------------------------------------------------------
(* What a fault does: it adds to hits, and a byte that has not been hit    *)
(* keeps its value.                                                        *)
LEMMA FaultEffect ==
  ASSUME TypeOK, Fault
  PROVE  /\ UNCHANGED << pc, ct, buf, kr, cmp, fail, ss >>
         /\ hits \subseteq hits'
         /\ pc \in {"vote buf", "vote kr", "vote cmp"}
         /\ \A c \in Copies, i \in BufIdx :
              << "buf", c, i >> \notin hits' => bufs'[c][i] = bufs[c][i]
         /\ \A c \in Copies, i \in KrIdx :
              << "kr", c, i >> \notin hits' => krs'[c][i] = krs[c][i]
         /\ \A c \in Copies, i \in CtIdx :
              << "cmp", c, i >> \notin hits' => cmps'[c][i] = cmps[c][i]
<1>1. PICK c \in Copies, v \in Byte :
        \/ \E i \in BufIdx : FaultInBuf(c, i, v)
        \/ \E i \in KrIdx : FaultInKr(c, i, v)
        \/ \E i \in CtIdx : FaultInCmp(c, i, v)
  BY DEF Fault
<1>2. CASE \E i \in BufIdx : FaultInBuf(c, i, v)
  <2>1. PICK i \in BufIdx : FaultInBuf(c, i, v)
    BY <1>2
  <2>2. ASSUME NEW d \in Copies, NEW j \in BufIdx, << "buf", d, j >> \notin hits'
        PROVE  bufs'[d][j] = bufs[d][j]
    BY <2>1, <2>2 DEF FaultInBuf, MayHit, TypeOK, Buffers
  <2> QED
    BY <2>1, <2>2 DEF FaultInBuf, MayHit
<1>3. CASE \E i \in KrIdx : FaultInKr(c, i, v)
  <2>1. PICK i \in KrIdx : FaultInKr(c, i, v)
    BY <1>3
  <2>2. ASSUME NEW d \in Copies, NEW j \in KrIdx, << "kr", d, j >> \notin hits'
        PROVE  krs'[d][j] = krs[d][j]
    BY <2>1, <2>2 DEF FaultInKr, MayHit, TypeOK, Hashes
  <2> QED
    BY <2>1, <2>2 DEF FaultInKr, MayHit
<1>4. CASE \E i \in CtIdx : FaultInCmp(c, i, v)
  <2>1. PICK i \in CtIdx : FaultInCmp(c, i, v)
    BY <1>4
  <2>2. ASSUME NEW d \in Copies, NEW j \in CtIdx, << "cmp", d, j >> \notin hits'
        PROVE  cmps'[d][j] = cmps[d][j]
    BY <2>1, <2>2 DEF FaultInCmp, MayHit, TypeOK, Ciphertexts
  <2> QED
    BY <2>1, <2>2 DEF FaultInCmp, MayHit
<1> QED
  BY <1>1, <1>2, <1>3, <1>4

(* Every other step leaves hits alone.                                     *)
LEMMA HitsKept ==
  ASSUME [Next]_vars, ~Fault
  PROVE  UNCHANGED << ct, hits >>
  BY DEF Next, vars, TripleDecrypt, VoteBuf, TripleHash, VoteKr, TripleEncrypt,
         VoteCmp, Verify, Select

(* A byte that is outvoted stays so, whatever happens next.                *)
LEMMA OutvotedStays ==
  ASSUME TypeOK, [Next]_vars, NEW stage, NEW i, ~Outvoted(stage, i)'
  PROVE  ~Outvoted(stage, i)
<1>1. hits \subseteq hits'
  BY FaultEffect, HitsKept
<1> QED
  BY <1>1 DEF Outvoted

-----------------------------------------------------------------------------
(* Copies: right when they are computed, and faults are recorded.          *)
LEMMA CopiesPreserved ==
  ASSUME TypeOK, CopiesRight, [Next]_vars
  PROVE  CopiesRight'
<1>1. CASE TripleDecrypt
  BY <1>1 DEF TripleDecrypt, Move, Triple, CopiesRight, RightUnlessHit
<1>2. CASE TripleHash
  BY <1>2 DEF TripleHash, Move, Triple, CopiesRight, RightUnlessHit
<1>3. CASE TripleEncrypt
  BY <1>3 DEF TripleEncrypt, Move, Triple, CopiesRight, RightUnlessHit
<1>4. CASE VoteBuf \/ VoteKr \/ VoteCmp \/ Verify \/ Select
  BY <1>4 DEF VoteBuf, VoteKr, VoteCmp, Verify, Select, Move, CopiesRight
<1>5. CASE Fault
  <2>1. /\ UNCHANGED << pc, ct, buf, kr >>
        /\ hits \subseteq hits'
    BY <1>5, FaultEffect
  <2>2. ASSUME pc = "vote buf", NEW i \in BufIdx
        PROVE  RightUnlessHit("buf", bufs, i, WithHpk(Dec(ct))[i])'
    <3>1. RightUnlessHit("buf", bufs, i, WithHpk(Dec(ct))[i])
      BY <2>2 DEF CopiesRight
    <3> QED
      BY <1>5, <2>1, <3>1, FaultEffect DEF RightUnlessHit
  <2>3. ASSUME pc = "vote kr", NEW i \in KrIdx
        PROVE  RightUnlessHit("kr", krs, i, G(buf)[i])'
    <3>1. RightUnlessHit("kr", krs, i, G(buf)[i])
      BY <2>3 DEF CopiesRight
    <3> QED
      BY <1>5, <2>1, <3>1, FaultEffect DEF RightUnlessHit
  <2>4. ASSUME pc = "vote cmp", NEW i \in CtIdx
        PROVE  RightUnlessHit("cmp", cmps, i, Enc(MessageOf(buf), CoinsOf(kr))[i])'
    <3>1. RightUnlessHit("cmp", cmps, i, Enc(MessageOf(buf), CoinsOf(kr))[i])
      BY <2>4 DEF CopiesRight
    <3>2. Enc(MessageOf(buf), CoinsOf(kr))' = Enc(MessageOf(buf), CoinsOf(kr))
      BY <2>1 DEF MessageOf, CoinsOf
    <3> QED
      BY <1>5, <2>1, <3>1, <3>2, FaultEffect DEF RightUnlessHit
  <2> QED
    BY <2>1, <2>2, <2>3, <2>4 DEF CopiesRight
<1>6. CASE UNCHANGED vars
  BY <1>6 DEF vars, CopiesRight, RightUnlessHit
<1> QED
  BY <1>1, <1>2, <1>3, <1>4, <1>5, <1>6 DEF Next

(* Votes: each of them by VoteRight, from what holds of its copies.        *)
LEMMA VotesPreserved ==
  ASSUME TypeOK, CopiesRight, VotesMask, [Next]_vars
  PROVE  VotesMask'
<1>1. CASE TripleDecrypt
  BY <1>1 DEF TripleDecrypt, Move, VotesMask, Steps
<1>2. CASE VoteBuf
  <2>1. ASSUME NEW i \in BufIdx, ~Outvoted("buf", i)
        PROVE  MajorityVote(bufs, BufIdx)[i] = WithHpk(Dec(ct))[i]
    <3>1. RightUnlessHit("buf", bufs, i, WithHpk(Dec(ct))[i])
      BY <1>2 DEF VoteBuf, Move, CopiesRight
    <3> QED
      BY <2>1, <3>1, VoteRight
  <2> QED
    BY <1>2, <2>1 DEF VoteBuf, Move, VotesMask, Outvoted
<1>3. CASE TripleHash
  BY <1>3 DEF TripleHash, Move, VotesMask, Outvoted, Steps
<1>4. CASE VoteKr
  <2>1. ASSUME NEW i \in KrIdx, ~Outvoted("kr", i)
        PROVE  MajorityVote(krs, KrIdx)[i] = G(buf)[i]
    <3>1. RightUnlessHit("kr", krs, i, G(buf)[i])
      BY <1>4 DEF VoteKr, Move, CopiesRight
    <3> QED
      BY <2>1, <3>1, VoteRight
  <2> QED
    BY <1>4, <2>1 DEF VoteKr, Move, VotesMask, Outvoted, Steps
<1>5. CASE TripleEncrypt
  BY <1>5 DEF TripleEncrypt, Move, VotesMask, Outvoted, Steps
<1>6. CASE VoteCmp
  <2>1. ASSUME NEW i \in CtIdx, ~Outvoted("cmp", i)
        PROVE  MajorityVote(cmps, CtIdx)[i] = Enc(MessageOf(buf), CoinsOf(kr))[i]
    <3>1. RightUnlessHit("cmp", cmps, i, Enc(MessageOf(buf), CoinsOf(kr))[i])
      BY <1>6 DEF VoteCmp, Move, CopiesRight
    <3> QED
      BY <2>1, <3>1, VoteRight
  <2> QED
    BY <1>6, <2>1 DEF VoteCmp, Move, VotesMask, Outvoted, MessageOf, CoinsOf, Steps
<1>7. CASE Verify
  BY <1>7 DEF Verify, Move, VotesMask, Outvoted, Steps
<1>8. CASE Select
  BY <1>8 DEF Select, Move, VotesMask
<1>9. CASE Fault
  <2>1. /\ UNCHANGED << pc, ct, buf, kr, cmp >>
        /\ pc \in {"vote buf", "vote kr", "vote cmp"}
    BY <1>9, FaultEffect
  <2>2. \A stage, i : ~Outvoted(stage, i)' => ~Outvoted(stage, i)
    BY OutvotedStays
  <2> QED
    BY <2>1, <2>2 DEF VotesMask, Steps
<1>10. CASE UNCHANGED vars
  BY <1>10 DEF vars, VotesMask, Outvoted
<1> QED
  BY <1>1, <1>2, <1>3, <1>4, <1>5, <1>6, <1>7, <1>8, <1>9, <1>10 DEF Next

(* When no vote was lost, what is voted on is what Encapsulate computes.   *)
LEMMA VotedIsEncapsulated ==
  ASSUME TypeOK, VotesMask, NoneOutvoted, pc = "select"
  PROVE  /\ KeyOf(kr) = Encapsulate(Dec(ct)).ss
         /\ cmp = Encapsulate(Dec(ct)).ct
<1>1. buf = WithHpk(Dec(ct))
  <2>1. WithHpk(Dec(ct)) \in Buffers /\ buf \in Buffers
    BY HalfTypes DEF TypeOK
  <2>2. \A i \in BufIdx : buf[i] = WithHpk(Dec(ct))[i]
    BY DEF VotesMask, NoneOutvoted, Stages, Steps
  <2> QED
    BY <2>1, <2>2 DEF Buffers
<1>2. kr = G(buf)
  <2>1. G(buf) \in Hashes /\ kr \in Hashes
    BY HalfTypes DEF TypeOK
  <2>2. \A i \in KrIdx : kr[i] = G(buf)[i]
    BY DEF VotesMask, NoneOutvoted, Stages
  <2> QED
    BY <2>1, <2>2 DEF Hashes
<1>3. cmp = Enc(MessageOf(buf), CoinsOf(kr))
  <2>1. Enc(MessageOf(buf), CoinsOf(kr)) \in Ciphertexts /\ cmp \in Ciphertexts
    BY HalfTypes DEF TypeOK
  <2>2. \A i \in CtIdx : cmp[i] = Enc(MessageOf(buf), CoinsOf(kr))[i]
    BY DEF VotesMask, NoneOutvoted, Stages
  <2> QED
    BY <2>1, <2>2 DEF Ciphertexts
<1>4. MessageOf(buf) = Dec(ct)
  BY <1>1, HalfTypes DEF TypeOK
<1> QED
  BY <1>1, <1>2, <1>3, <1>4 DEF Encapsulate

(* The comparison finds every difference.                                  *)
LEMMA EqualOnAllBytes ==
  ASSUME NEW x \in Ciphertexts, NEW y \in Ciphertexts
  PROVE  (\E i \in CtIdx : x[i] # y[i]) <=> x # y
  BY DEF Ciphertexts

(* The selected secret.                                                    *)
LEMMA SelectRight ==
  ASSUME TypeOK, VotesMask, FailRight, NoneOutvoted, Select
  PROVE  ss' = Decapsulate(ct)
<1>1. pc = "select"
  BY DEF Select, Move
<1>2. fail = IF ct # cmp THEN 1 ELSE 0
  BY <1>1, EqualOnAllBytes DEF FailRight, TypeOK
<1>3. ss' = IF ct # cmp THEN Reject(ct) ELSE KeyOf(kr)
  BY <1>2 DEF Select, Cmov
<1> QED
  BY <1>1, <1>3, VotedIsEncapsulated DEF Decapsulate

LEMMA FailPreserved ==
  ASSUME TypeOK, FailRight, [Next]_vars
  PROVE  FailRight'
<1>1. CASE TripleDecrypt \/ VoteBuf \/ TripleHash \/ VoteKr \/ TripleEncrypt \/ VoteCmp
  BY <1>1 DEF TripleDecrypt, VoteBuf, TripleHash, VoteKr, TripleEncrypt, VoteCmp,
              Move, FailRight
<1>2. CASE Verify
  BY <1>2 DEF Verify, FailRight
<1>3. CASE Select
  BY <1>3 DEF Select, Move, FailRight
<1>4. CASE Fault
  BY <1>4, FaultEffect DEF FailRight
<1>5. CASE UNCHANGED vars
  BY <1>5 DEF vars, FailRight
<1> QED
  BY <1>1, <1>2, <1>3, <1>4, <1>5 DEF Next

LEMMA ResultPreserved ==
  ASSUME TypeOK, VotesMask, FailRight, ResultRight, [Next]_vars
  PROVE  ResultRight'
<1>1. CASE TripleDecrypt \/ VoteBuf \/ TripleHash \/ VoteKr \/ TripleEncrypt \/ VoteCmp
           \/ Verify
  BY <1>1 DEF TripleDecrypt, VoteBuf, TripleHash, VoteKr, TripleEncrypt, VoteCmp,
              Verify, Move, ResultRight
<1>2. CASE Select
  <2>1. NoneOutvoted' => NoneOutvoted
    BY <1>2 DEF Select, NoneOutvoted, Outvoted
  <2> QED
    BY <1>2, <2>1, SelectRight DEF Select, ResultRight
<1>3. CASE Fault
  BY <1>3, FaultEffect DEF ResultRight
<1>4. CASE UNCHANGED vars
  BY <1>4 DEF vars, ResultRight, NoneOutvoted, Outvoted
<1> QED
  BY <1>1, <1>2, <1>3, <1>4 DEF Next

-----------------------------------------------------------------------------
LEMMA InitIInv == Init => IInv
<1> SUFFICES ASSUME Init PROVE IInv
  OBVIOUS
<1>1. /\ ZeroOn(BufIdx) \in Buffers
      /\ ZeroOn(KrIdx) \in Hashes
      /\ ZeroOn(CtIdx) \in Ciphertexts
  BY KemAssumption DEF ZeroOn, Buffers, Hashes, Ciphertexts
<1>2. TypeOK
  BY <1>1, DecapsAssumption DEF Init, TypeOK, Triple, Steps
<1>3. CopiesRight /\ VotesMask /\ FailRight /\ ResultRight
  BY DEF Init, CopiesRight, VotesMask, FailRight, ResultRight
<1> QED
  BY <1>2, <1>3 DEF IInv

LEMMA NextIInv == IInv /\ [Next]_vars => IInv'
  BY TypePreserved, CopiesPreserved, VotesPreserved, FailPreserved, ResultPreserved
     DEF IInv

(* The inductive invariant holds of td18_kem_dec in every execution.       *)
THEOREM KemInvariance == Spec => []IInv
  BY InitIInv, NextIInv, PTL DEF Spec

(* Every buffer of the call keeps its length and its type.                 *)
THEOREM KemTypeCorrect == Spec => []TypeOK
<1>1. IInv => TypeOK
  BY DEF IInv
<1> QED
  BY <1>1, KemInvariance, PTL

(* Every vote repairs a byte unless two of its three copies were hit.      *)
THEOREM Masking == Spec => []VotesMask
<1>1. IInv => VotesMask
  BY DEF IInv
<1> QED
  BY <1>1, KemInvariance, PTL

(* The re-encryption lets no message through that the ciphertext does not  *)
(* decrypt to, whatever happened to the copies of buf and kr.              *)
THEOREM Acceptance == Spec => []AcceptsDecryptedOnly
<1>1. ASSUME IInv, pc = "select", fail = 0, \A i \in CtIdx : ~Outvoted("cmp", i)
      PROVE  MessageOf(buf) = Dec(ct)
  <2>1. ct \in Ciphertexts /\ cmp \in Ciphertexts /\ ct = cmp
    BY <1>1, EqualOnAllBytes DEF IInv, FailRight, TypeOK
  <2>2. /\ MessageOf(buf) \in Messages
        /\ CoinsOf(kr) \in Coins
        /\ Enc(MessageOf(buf), CoinsOf(kr)) \in Ciphertexts
    BY <1>1, HalfTypes DEF IInv, TypeOK
  <2>3. \A i \in CtIdx : cmp[i] = Enc(MessageOf(buf), CoinsOf(kr))[i]
    BY <1>1 DEF IInv, VotesMask
  <2>4. ct = Enc(MessageOf(buf), CoinsOf(kr))
    BY <2>1, <2>2, <2>3 DEF Ciphertexts
  <2> QED
    BY <2>2, <2>4, PkeAssumption
<1>2. IInv => AcceptsDecryptedOnly
  BY <1>1 DEF AcceptsDecryptedOnly
<1> QED
  BY <1>2, KemInvariance, PTL

(* An undisturbed exchange ends with one secret on both sides.             *)
THEOREM AgreementHolds == Spec => []Agreement
<1>1. IInv => Agreement
  BY KemCorrect DEF IInv, ResultRight, NoneOutvoted, Agreement
<1> QED
  BY <1>1, KemInvariance, PTL

(* The secret that module Decaps promises is the one of this module.       *)
LEMMA SameFunction ==
  ASSUME NEW x
  PROVE  Promise!Decapsulate(x) = Decapsulate(x)
<1>1. ASSUME NEW m
      PROVE  Promise!Encapsulate(m) = Encapsulate(m)
  BY DEF Promise!Encapsulate, Promise!WithHpk, Promise!BufIdx, Promise!CoinsOf,
         Promise!KeyOf, Encapsulate, WithHpk, BufIdx, CoinsOf, KeyOf
<1> QED
  BY <1>1 DEF Promise!Decapsulate, Decapsulate

(* Whatever faults there are, td18_kem_dec returns what its caller was     *)
(* promised, and nothing before it returns.                                *)
THEOREM DecapsRefinement == Spec => ImplementsDecaps
<1>1. ASSUME Init
      PROVE  Promise!Init
  <2>1. ct \in Ciphertexts /\ ss \in Secrets /\ pc # "done"
    BY <1>1, DecapsAssumption DEF Init
  <2>2. NoneOutvoted
    BY <1>1 DEF Init, NoneOutvoted, Outvoted
  <2>3. (pc = "done") = FALSE /\ (~NoneOutvoted) = FALSE
    BY <2>1, <2>2, Zenon
  <2> QED
    BY <2>1, <2>3, Zenon DEF Promise!Init, Promise!Ciphertexts, Promise!Secrets,
                             Ciphertexts, Secrets
<1>2. IInv /\ [Next]_vars => [Promise!Outvote \/ Promise!Return]_(Promise!vars)
  <2> SUFFICES ASSUME IInv, [Next]_vars
               PROVE  [Promise!Outvote \/ Promise!Return]_(Promise!vars)
    OBVIOUS
  <2>1. ASSUME UNCHANGED << ct, ss, hits >>, pc = "done" <=> pc' = "done"
        PROVE  UNCHANGED Promise!vars
    <3>1. NoneOutvoted' <=> NoneOutvoted
      BY <2>1 DEF NoneOutvoted, Outvoted
    <3>2. (pc = "done")' = (pc = "done") /\ (~NoneOutvoted)' = (~NoneOutvoted)
      BY <2>1, <3>1, Zenon
    <3> QED
      BY <2>1, <3>2, Zenon DEF Promise!vars
  <2>2. CASE TripleDecrypt \/ VoteBuf \/ TripleHash \/ VoteKr \/ TripleEncrypt
             \/ VoteCmp \/ Verify
    BY <2>1, <2>2 DEF TripleDecrypt, VoteBuf, TripleHash, VoteKr, TripleEncrypt, VoteCmp,
                      Verify, Move
  <2>3. CASE Select
    <3>1. NoneOutvoted => ss' = Decapsulate(ct)
      BY <2>3, SelectRight DEF IInv
    <3>2. ss' \in Promise!Secrets
      <4>1. ss' \in Secrets
        BY TypePreserved DEF IInv, TypeOK
      <4> QED
        BY <4>1 DEF Secrets, Promise!Secrets
    <3>3. pc # "done" /\ pc' = "done" /\ ct' = ct /\ hits' = hits
      BY <2>3 DEF Select, Move
    <3>4. (pc' = "done") = TRUE
      BY <3>3, Zenon
    <3>5. (~NoneOutvoted)' = (~NoneOutvoted)
      <4>1. NoneOutvoted' <=> NoneOutvoted
        BY <3>3 DEF NoneOutvoted, Outvoted
      <4> QED
        BY <4>1, Zenon
    <3> QED
      BY <3>1, <3>2, <3>3, <3>4, <3>5, SameFunction, Zenon DEF Promise!Return
  <2>4. CASE Fault
    <3>1. UNCHANGED << pc, ct, ss >> /\ pc # "done"
      BY <2>4, FaultEffect DEF IInv
    <3>2. (pc = "done")' = (pc = "done")
      BY <3>1, Zenon
    <3>3. NoneOutvoted' => NoneOutvoted
      BY OutvotedStays DEF IInv, NoneOutvoted
    <3>4. CASE NoneOutvoted' <=> NoneOutvoted
      <4>1. (~NoneOutvoted)' = (~NoneOutvoted)
        BY <3>4, Zenon
      <4> QED
        BY <3>1, <3>2, <4>1, Zenon DEF Promise!vars
    <3>5. CASE NoneOutvoted /\ ~NoneOutvoted'
      <4>1. (~NoneOutvoted)' = TRUE
        BY <3>5, Zenon
      <4> QED
        BY <3>1, <3>2, <3>5, <4>1, Zenon DEF Promise!Outvote
    <3> QED
      BY <3>3, <3>4, <3>5
  <2>5. CASE UNCHANGED vars
    BY <2>1, <2>5 DEF vars
  <2> QED
    BY <2>2, <2>3, <2>4, <2>5 DEF Next
<1> QED
  BY <1>1, <1>2, KemInvariance, PTL DEF Spec, ImplementsDecaps, Promise!Spec

=============================================================================
