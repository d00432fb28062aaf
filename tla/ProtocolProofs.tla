--------------------------- MODULE ProtocolProofs ---------------------------
(***************************************************************************)
(* Proofs about Protocol, for every MAC, all masks and start nodes and any *)
(* number of bundles, key pairs and evolutions.                            *)
(*                                                                         *)
(* The argument: whatever happened in between, a key is a function of what *)
(* its record says it was derived from (SentRight, ReceivedRight), and as  *)
(* hashes are injective equal keys and equal commitments have equal        *)
(* origins, as far as the masks tell origins apart.                        *)
(***************************************************************************)
EXTENDS Protocol, TLAPS

(* What Bob sent is what BobEncapsulate makes of its number, the public    *)
(* key and the parameters that are recorded with it.                       *)
MadeFrom(s, m) ==
  /\ s.bundle = BundleOf(m, s.kp, s.params)
  /\ s.key = DeriveFinalKey(Secret(s.kp, m), m, s.kp, s.params)

SentRight == \A s \in sent : MadeFrom(s, s.bundle.binding)

(* What Alice was handed comes from Bob field by field, and her key and    *)
(* the outcomes of her checks come from that and the recorded key pair and *)
(* parameters.                                                             *)
Opened(r, from) ==
  LET ss == Decapsulated(r.kp, r.bundle.ct)
  IN  /\ r.bundle = [f \in Fields |-> from[f].bundle[f]]
      /\ r.key = DeriveFinalKey(ss, r.bundle.binding, r.kp, r.params)
      /\ r.macOk = VerifyMac(r.bundle.mac, ss, r.bundle.ct)
      /\ r.hintsOk = VerifyCommitment(r.bundle.commitment, r.bundle.ct, r.bundle.hints,
                                      r.bundle.binding, r.bundle.mac)
      /\ r.meshOk = VerifyCommitment(r.bundle.commitment, r.bundle.ct,
                                     EdmeshDerive(ss, r.params),
                                     r.bundle.binding, r.bundle.mac)

ReceivedRight == \A r \in received : \E from \in [Fields -> sent] : Opened(r, from)

IInv == SentRight /\ ReceivedRight

-----------------------------------------------------------------------------
LEMMA InitInv == Init => IInv
BY DEF Init, IInv, SentRight, ReceivedRight

(* What was received stays right when more is sent.                        *)
LEMMA MoreSent ==
  ASSUME ReceivedRight, received' = received, sent \subseteq sent'
  PROVE  ReceivedRight'
<1> SUFFICES ASSUME NEW x \in received
             PROVE  \E from \in [Fields -> sent'] : Opened(x, from)
  BY DEF ReceivedRight
<1>1. PICK from \in [Fields -> sent] : Opened(x, from)
  BY DEF ReceivedRight
<1>2. from \in [Fields -> sent']
  OBVIOUS
<1> QED
  BY <1>1, <1>2

LEMMA SendInv ==
  ASSUME IInv, BobEncapsulate
  PROVE  IInv'
<1> DEFINE m == Cardinality(sent) + 1
           new == [bundle |-> BundleOf(m, pk, bob), kp |-> pk, params |-> bob,
                   key |-> DeriveFinalKey(Secret(pk, m), m, pk, bob)]
<1>1. sent' = sent \cup {new} /\ received' = received
  BY DEF BobEncapsulate
<1>2. MadeFrom(new, new.bundle.binding)
  BY DEF MadeFrom, BundleOf
<1>3. SentRight'
  BY <1>1, <1>2 DEF IInv, SentRight
<1>4. ReceivedRight'
  BY <1>1, MoreSent DEF IInv
<1> QED
  BY <1>3, <1>4 DEF IInv

LEMMA ReceiveInv ==
  ASSUME IInv, AliceDecapsulate
  PROVE  IInv'
<1>1. PICK from \in [Fields -> sent] :
        LET b == [f \in Fields |-> from[f].bundle[f]]
            ss == Decapsulated(keypair, b.ct)
        IN  received' =
              {[bundle |-> b, kp |-> keypair, params |-> alice,
                key |-> DeriveFinalKey(ss, b.binding, keypair, alice),
                macOk |-> VerifyMac(b.mac, ss, b.ct),
                hintsOk |-> VerifyCommitment(b.commitment, b.ct, b.hints, b.binding, b.mac),
                meshOk |-> VerifyCommitment(b.commitment, b.ct, EdmeshDerive(ss, alice),
                                            b.binding, b.mac)]}
  BY DEF AliceDecapsulate
<1>2. sent' = sent
  BY DEF AliceDecapsulate
<1>3. ASSUME NEW x \in received'
      PROVE  Opened(x, from)
  BY <1>1, <1>3 DEF Opened
<1>4. ReceivedRight'
  BY <1>2, <1>3 DEF ReceivedRight
<1>5. SentRight'
  BY <1>2 DEF IInv, SentRight
<1> QED
  BY <1>4, <1>5 DEF IInv

LEMMA NextInv == IInv /\ [Next]_vars => IInv'
<1> SUFFICES ASSUME IInv, [Next]_vars PROVE IInv'
  OBVIOUS
<1>1. ASSUME sent' = sent, received' = received
      PROVE  IInv'
  BY <1>1, MoreSent DEF IInv, SentRight
<1>2. CASE NewKeypair
  BY <1>1, <1>2 DEF NewKeypair
<1>3. CASE FetchPk
  BY <1>1, <1>3 DEF FetchPk
<1>4. CASE EvolveAlice
  BY <1>1, <1>4 DEF EvolveAlice
<1>5. CASE EvolveBob
  BY <1>1, <1>5 DEF EvolveBob
<1>6. CASE CopyParams
  BY <1>1, <1>6 DEF CopyParams
<1>7. CASE UNCHANGED vars
  BY <1>1, <1>7 DEF vars
<1> QED
  BY <1>2, <1>3, <1>4, <1>5, <1>6, <1>7, SendInv, ReceiveInv DEF Next

(* Sent and received records are what they say they were made from.        *)
THEOREM ProtocolInvariance == Spec => []IInv
BY InitInv, NextInv, PTL DEF Spec

-----------------------------------------------------------------------------
(* Equal keys have equal origins: a key is a pair of hashes, the base key  *)
(* and the overlay, and neither is ever taken for the other.               *)
LEMMA KeyInjective ==
  ASSUME NEW ss1, NEW ss2, NEW b1, NEW b2, NEW kp1, NEW kp2, NEW p1, NEW p2,
         DeriveFinalKey(ss1, b1, kp1, p1) = DeriveFinalKey(ss2, b2, kp2, p2)
  PROVE  ss1 = ss2 /\ b1 = b2 /\ kp1 = kp2 /\ Masks(ss1, p1) = Masks(ss2, p2)
<1> DEFINE overlay1 == << "overlay", EdmeshDerive(ss1, p1), HybridBind(b1, kp1), b1,
                          Reconcile(ss1) >>
           overlay2 == << "overlay", EdmeshDerive(ss2, p2), HybridBind(b2, kp2), b2,
                          Reconcile(ss2) >>
<1>1. {<< "base", ss1 >>, overlay1} = {<< "base", ss2 >>, overlay2}
  BY DEF DeriveFinalKey
<1>2. << "base", ss1 >> # overlay2 /\ << "base", ss2 >> # overlay1
  <2>1. << "base", ss1 >>[1] # overlay2[1] /\ << "base", ss2 >>[1] # overlay1[1]
    OBVIOUS
  <2> QED
    BY <2>1
<1>3. << "base", ss1 >> = << "base", ss2 >> /\ overlay1 = overlay2
  <2> HIDE DEF overlay1, overlay2
  <2> QED
    BY Zenon, <1>1, <1>2
<1>4. ss1 = ss2 /\ b1 = b2 /\ EdmeshDerive(ss1, p1) = EdmeshDerive(ss2, p2)
      /\ HybridBind(b1, kp1) = HybridBind(b2, kp2)
  BY <1>3
<1> QED
  BY <1>4 DEF HybridBind, EdmeshDerive

(* A decapsulated secret is the one of an encapsulation only under the key *)
(* pair it was made for.                                                   *)
LEMMA SecretInjective ==
  ASSUME NEW kp, NEW kp2, NEW m2, NEW ct, NEW kp1, NEW m1, ct = Ct(kp1, m1),
         Decapsulated(kp, ct) = Secret(kp2, m2)
  PROVE  kp = kp2 /\ kp1 = kp2 /\ m1 = m2
<1>1. ct.kp = kp1 /\ ct.m = m1
  BY DEF Ct
<1>2. CASE kp1 = kp
  <2>1. Secret(kp, m1) = Secret(kp2, m2)
    BY <1>1, <1>2 DEF Decapsulated
  <2> QED
    BY <2>1, <1>2 DEF Secret
<1>3. CASE kp1 # kp
  <2>1. << "reject", kp, ct >> = << "ss", kp2, m2 >>
    BY <1>1, <1>3 DEF Decapsulated, Secret
  <2>2. << "reject", kp, ct >>[1] # << "ss", kp2, m2 >>[1]
    OBVIOUS
  <2> QED
    BY <2>1, <2>2
<1> QED
  BY <1>2, <1>3

(* The right key pair decapsulates.                                        *)
LEMMA SecretOfOwn ==
  ASSUME NEW kp, NEW m
  PROVE  Decapsulated(kp, Ct(kp, m)) = Secret(kp, m)
BY DEF Decapsulated, Ct

(* A commitment verifies with the fields it was made of and no others.     *)
LEMMA CommitmentInjective ==
  ASSUME NEW ct1, NEW ct2, NEW e1, NEW e2, NEW b1, NEW b2, NEW mac1, NEW mac2, NEW nonce
  PROVE  VerifyCommitment(GenCommitment(ct1, e1, b1, mac1, nonce), ct2, e2, b2, mac2)
           <=> ct1 = ct2 /\ e1 = e2 /\ b1 = b2 /\ mac1 = mac2
BY DEF VerifyCommitment, GenCommitment

-----------------------------------------------------------------------------
(* The fields of a bundle that Bob sent, and of its sender's record.       *)
LEMMA SentFields ==
  ASSUME IInv, NEW s \in sent
  PROVE  /\ s.bundle = [f \in Fields |-> s.bundle[f]]
         /\ s.bundle.ct = Ct(s.kp, s.bundle.binding)
         /\ s.bundle.hints = EdmeshDerive(Secret(s.kp, s.bundle.binding), s.params)
         /\ s.bundle.mac = Tag(Secret(s.kp, s.bundle.binding), s.bundle.ct)
         /\ s.bundle.commitment = GenCommitment(s.bundle.ct, s.bundle.hints,
                                    s.bundle.binding, s.bundle.mac, s.bundle.binding)
         /\ s.key = DeriveFinalKey(Secret(s.kp, s.bundle.binding), s.bundle.binding,
                                   s.kp, s.params)
<1> DEFINE m == s.bundle.binding
           ct == Ct(s.kp, m)
           ss == Secret(s.kp, m)
           mesh == EdmeshDerive(ss, s.params)
           mac == Tag(ss, ct)
           c == GenCommitment(ct, mesh, m, mac, m)
<1>1. s.bundle = BundleOf(m, s.kp, s.params) /\ s.key = DeriveFinalKey(ss, m, s.kp, s.params)
  BY DEF IInv, SentRight, MadeFrom
<1>2. s.bundle = [ct |-> ct, hints |-> mesh, binding |-> m, mac |-> mac, commitment |-> c]
  BY <1>1 DEF BundleOf
<1>3. /\ s.bundle.ct = ct /\ s.bundle.hints = mesh /\ s.bundle.mac = mac
      /\ s.bundle.commitment = c
  <2> HIDE DEF m, ct, mesh, mac, c
  <2> QED
    BY <1>2
<1>4. s.bundle = [f \in Fields |-> s.bundle[f]]
  <2> HIDE DEF m, ct, mesh, mac, c
  <2> QED
    BY <1>2 DEF Fields
<1> QED
  BY Zenon, <1>1, <1>3, <1>4

(* Alice's key is Bob's exactly when both were derived from the same       *)
(* things, the masks for the parameters.                                   *)
LEMMA InvAgreesOnInputs == IInv => KeysAgreeOnInputs
<1> SUFFICES ASSUME IInv, NEW s \in sent, NEW x \in received
             PROVE  x.key = s.key <=> SameInputs(s, x)
  BY DEF KeysAgreeOnInputs
<1> DEFINE m == s.bundle.binding
           b == x.bundle.binding
           ss == Decapsulated(x.kp, x.bundle.ct)
<1>1. s.bundle.ct = Ct(s.kp, m) /\ s.key = DeriveFinalKey(Secret(s.kp, m), m, s.kp, s.params)
  BY SentFields
<1>2. PICK from \in [Fields -> sent] : Opened(x, from)
  BY DEF IInv, ReceivedRight
<1>3. x.key = DeriveFinalKey(ss, b, x.kp, x.params)
  BY <1>2 DEF Opened
<1>4. PICK kp1, m1 : x.bundle.ct = Ct(kp1, m1)
  <2>1. "ct" \in Fields /\ from["ct"] \in sent
    BY DEF Fields
  <2>2. x.bundle.ct = from["ct"].bundle.ct
    BY <1>2, <2>1 DEF Opened
  <2>3. from["ct"].bundle.ct = Ct(from["ct"].kp, from["ct"].bundle.binding)
    BY <2>1, SentFields
  <2> QED
    BY <2>2, <2>3
<1>0. Decapsulated(s.kp, s.bundle.ct) = Secret(s.kp, m)
  BY <1>1, SecretOfOwn
<1>5. ASSUME x.key = s.key
      PROVE  SameInputs(s, x)
  <2>1. /\ ss = Secret(s.kp, m) /\ b = m /\ x.kp = s.kp
        /\ Masks(ss, x.params) = Masks(Secret(s.kp, m), s.params)
    <3>1. DeriveFinalKey(ss, b, x.kp, x.params)
            = DeriveFinalKey(Secret(s.kp, m), m, s.kp, s.params)
      BY <1>1, <1>3, <1>5
    <3> HIDE DEF ss, b, m
    <3> QED
      BY <3>1, KeyInjective
  <2>2. kp1 = s.kp /\ m1 = m
    BY <1>4, <2>1, SecretInjective
  <2> QED
    BY <1>0, <1>1, <1>4, <2>1, <2>2 DEF SameInputs
<1>6. ASSUME SameInputs(s, x)
      PROVE  x.key = s.key
  <2>1. x.bundle.ct = Ct(s.kp, m) /\ b = m /\ x.kp = s.kp
    BY <1>1, <1>6 DEF SameInputs
  <2>2. ss = Secret(s.kp, m)
    BY <2>1, SecretOfOwn
  <2>3. EdmeshDerive(ss, x.params) = EdmeshDerive(ss, s.params)
    BY <1>0, <1>6, <2>2 DEF SameInputs, EdmeshDerive
  <2> QED
    BY <1>1, <1>3, <2>1, <2>2, <2>3 DEF DeriveFinalKey
<1> QED
  BY <1>5, <1>6

THEOREM KeysAgree == Spec => []KeysAgreeOnInputs
BY ProtocolInvariance, InvAgreesOnInputs, PTL

(* A field of what Alice was handed is that field of a bundle of Bob.      *)
LEMMA FieldOrigin ==
  ASSUME NEW x, NEW from \in [Fields -> sent], Opened(x, from)
  PROVE  /\ x.bundle.ct = from["ct"].bundle.ct
         /\ x.bundle.hints = from["hints"].bundle.hints
         /\ x.bundle.binding = from["binding"].bundle.binding
         /\ x.bundle.mac = from["mac"].bundle.mac
         /\ x.bundle.commitment = from["commitment"].bundle.commitment
BY DEF Opened, Fields

(* If the commitment verifies with Alice's own mesh, her key is the one of *)
(* the sender of that commitment.                                          *)
LEMMA InvChecked == IInv => CheckedKeysAgree
<1> SUFFICES ASSUME IInv, NEW x \in received, x.meshOk
             PROVE  \E s \in sent : s.bundle.commitment = x.bundle.commitment /\ s.key = x.key
  BY DEF CheckedKeysAgree
<1>1. PICK from \in [Fields -> sent] : Opened(x, from)
  BY DEF IInv, ReceivedRight
<1> DEFINE t == from["commitment"]
           m == t.bundle.binding
           ss == Decapsulated(x.kp, x.bundle.ct)
<1>2. t \in sent /\ x.bundle.commitment = t.bundle.commitment
  BY <1>1, FieldOrigin DEF Fields
<1>3. /\ t.bundle.commitment =
           GenCommitment(Ct(t.kp, m), EdmeshDerive(Secret(t.kp, m), t.params), m,
                         Tag(Secret(t.kp, m), Ct(t.kp, m)), m)
      /\ t.key = DeriveFinalKey(Secret(t.kp, m), m, t.kp, t.params)
  BY <1>2, SentFields
<1>4. VerifyCommitment(x.bundle.commitment, x.bundle.ct, EdmeshDerive(ss, x.params),
                       x.bundle.binding, x.bundle.mac)
  BY <1>1 DEF Opened
<1>5. /\ x.bundle.ct = Ct(t.kp, m) /\ x.bundle.binding = m
      /\ EdmeshDerive(ss, x.params) = EdmeshDerive(Secret(t.kp, m), t.params)
  BY <1>2, <1>3, <1>4, CommitmentInjective
<1>6. ss = Secret(t.kp, m)
  BY <1>5 DEF EdmeshDerive
<1>7. x.kp = t.kp
  BY <1>5, <1>6, SecretInjective
<1>8. x.key = DeriveFinalKey(ss, m, x.kp, x.params)
  BY <1>1, <1>5 DEF Opened
<1>9. x.key = t.key
  BY Zenon, <1>3, <1>5, <1>6, <1>7, <1>8 DEF DeriveFinalKey
<1> QED
  BY <1>2, <1>9

THEOREM CheckedAgree == Spec => []CheckedKeysAgree
BY ProtocolInvariance, InvChecked, PTL

(* A commitment that verifies with the hints of the bundle shows that all  *)
(* fields are of one bundle.                                               *)
LEMMA InvBinds == IInv => CommitmentBindsFields
<1> SUFFICES ASSUME IInv, NEW x \in received
             PROVE  x.hintsOk <=> \E s \in sent : s.bundle = x.bundle
  BY DEF CommitmentBindsFields
<1>1. PICK from \in [Fields -> sent] : Opened(x, from)
  BY DEF IInv, ReceivedRight
<1>2. x.hintsOk <=> VerifyCommitment(x.bundle.commitment, x.bundle.ct, x.bundle.hints,
                                     x.bundle.binding, x.bundle.mac)
  BY <1>1 DEF Opened
<1>3. ASSUME NEW t \in sent, x.bundle.commitment = t.bundle.commitment
      PROVE  x.hintsOk <=> /\ x.bundle.ct = t.bundle.ct /\ x.bundle.hints = t.bundle.hints
                           /\ x.bundle.binding = t.bundle.binding
                           /\ x.bundle.mac = t.bundle.mac
  <2> DEFINE b == t.bundle
  <2>1. b.commitment = GenCommitment(b.ct, b.hints, b.binding, b.mac, b.binding)
    BY SentFields
  <2> QED
    BY <1>2, <1>3, <2>1, CommitmentInjective
<1>4. ASSUME NEW t \in sent, x.hintsOk, x.bundle.commitment = t.bundle.commitment
      PROVE  t.bundle = x.bundle
  <2>1. /\ x.bundle.ct = t.bundle.ct /\ x.bundle.hints = t.bundle.hints
        /\ x.bundle.binding = t.bundle.binding /\ x.bundle.mac = t.bundle.mac
    BY <1>3, <1>4
  <2>2. x.bundle = [f \in Fields |-> x.bundle[f]]
    BY <1>1 DEF Opened
  <2>3. t.bundle = [f \in Fields |-> t.bundle[f]]
    BY SentFields
  <2>4. \A f \in Fields : x.bundle[f] = t.bundle[f]
    BY <1>4, <2>1 DEF Fields
  <2> QED
    BY <2>2, <2>3, <2>4
<1>5. ASSUME NEW t \in sent, t.bundle = x.bundle
      PROVE  x.hintsOk
  BY <1>3, <1>5
<1>6. from["commitment"] \in sent /\ x.bundle.commitment = from["commitment"].bundle.commitment
  BY <1>1, FieldOrigin DEF Fields
<1> QED
  BY <1>4, <1>5, <1>6

THEOREM CommitmentBinds == Spec => []CommitmentBindsFields
BY ProtocolInvariance, InvBinds, PTL

(* With the same inputs the checks of an unmixed bundle succeed.           *)
LEMMA InvNoAlarm == IInv => NoFalseAlarm
<1> SUFFICES ASSUME IInv, NEW s \in sent, NEW x \in received,
                    x.bundle = s.bundle, SameInputs(s, x)
             PROVE  x.macOk /\ x.meshOk
  BY DEF NoFalseAlarm
<1>1. PICK from \in [Fields -> sent] : Opened(x, from)
  BY DEF IInv, ReceivedRight
<1> DEFINE m == s.bundle.binding
           ct == Ct(s.kp, m)
           ss == Secret(s.kp, m)
           mesh == EdmeshDerive(ss, s.params)
<1>2. /\ s.bundle.ct = ct /\ s.bundle.mac = Tag(ss, ct)
      /\ s.bundle.commitment = GenCommitment(ct, mesh, m, Tag(ss, ct), m)
  BY SentFields
<1>3. Decapsulated(x.kp, x.bundle.ct) = ss
  BY <1>2, SecretOfOwn DEF SameInputs
<1>4. EdmeshDerive(ss, x.params) = mesh
  BY <1>2, SecretOfOwn DEF SameInputs, EdmeshDerive
<1>5. x.macOk
  BY <1>1, <1>2, <1>3 DEF Opened, VerifyMac
<1>6. VerifyCommitment(s.bundle.commitment, ct, mesh, m, Tag(ss, ct))
  BY <1>2, CommitmentInjective
<1>7. x.meshOk
  BY <1>1, <1>2, <1>3, <1>4, <1>6 DEF Opened
<1> QED
  BY <1>5, <1>7

THEOREM NoAlarm == Spec => []NoFalseAlarm
BY ProtocolInvariance, InvNoAlarm, PTL

=============================================================================
