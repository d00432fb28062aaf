------------------------------ MODULE Protocol ------------------------------
(***************************************************************************)
(* The protocol above the KEM (protocol.c, lib.rs): Bob encapsulates to    *)
(* Alice's public key and sends a bundle; both derive a final key from the *)
(* base secret, the binding, the public key and their own copy of the      *)
(* public parameters, which either of them may evolve to the next epoch at *)
(* any time.  Bundles may be delayed, repeated, lost and mixed up: Alice   *)
(* may be handed the fields of different bundles.                          *)
(*                                                                         *)
(* Hashes are terms, injective in their arguments.  Two things may collide *)
(* and are parameters: the MAC, of which two bytes are kept, and the masks *)
(* of the mesh, to which a walk over a graph contributes no more than the  *)
(* parities of the degrees it meets.                                       *)
(*                                                                         *)
(* What the KEM contributes is what module KemProofs proves of it: an      *)
(* encapsulation for the key pair of the receiver yields the sender's      *)
(* secret (theorem KemCorrect), any other ciphertext a secret of its own.  *)
(***************************************************************************)
EXTENDS Naturals, FiniteSets

CONSTANTS
  Starts,     (* the values of starts, the entry nodes of graphs 0..2    *)
  Mask(_, _, _, _),
              (* g2_mask: of the secret that seeds it, the number of the *)
              (* graph, its VDF passes and the entry node                *)
  Tag(_, _),  (* the two-byte MAC of a secret and a ciphertext           *)
  MaxBundles, (* bound: bundles Bob sends                                *)
  MaxKeys,    (* bound: key pairs Alice generates                        *)
  MaxEpoch    (* bound: evolutions of one copy of the parameters         *)

ASSUME ProtocolAssumption ==
  /\ \A s \in Starts : DOMAIN s = 0..2
  /\ MaxBundles \in Nat /\ MaxKeys \in Nat /\ MaxEpoch \in Nat

VARIABLES
  alice,      (* Alice's copy of the parameters                          *)
  bob,        (* Bob's copy of them                                      *)
  keypair,    (* Alice's current key pair, by number                     *)
  pk,         (* the public key Bob uses, by the number of its pair      *)
  sent,       (* what Bob sent, with the key he derived and what from    *)
  received    (* what Alice was handed, with the key she derived         *)

vars == << alice, bob, keypair, pk, sent, received >>

-----------------------------------------------------------------------------
(* The parameters: how often the graph seeds have been through the VDF,    *)
(* the start nodes and the epoch counter.                                  *)
NewParams(s) == [graph_seeds |-> 0, starts |-> s, epoch |-> 0]

(* td18_params_evolve: the seeds follow from the old ones, the start nodes *)
(* are drawn from the random number generator.                             *)
Evolved(p, s) == [graph_seeds |-> p.graph_seeds + 1, starts |-> s, epoch |-> p.epoch + 1]

-----------------------------------------------------------------------------
(* The KEM: the m-th encapsulation, and decapsulation under a key pair.    *)
Ct(kp, m) == [kp |-> kp, m |-> m]
Secret(kp, m) == << "ss", kp, m >>
Decapsulated(kp, ct) == IF ct.kp = kp THEN Secret(kp, ct.m) ELSE << "reject", kp, ct >>

HybridBind(binding, kp) == << "binding", binding, kp >>
Reconcile(ss) == << "pseudopoly", ss >>

(* What of the parameters a derivation depends on.  Graph 0 and its entry  *)
(* node are walked too, but the walk takes no part in the permutation,     *)
(* which the secret alone determines (module Mesh).                        *)
Masks(ss, p) ==
  << Mask(ss, 1, p.graph_seeds, p.starts[1]), Mask(ss, 2, p.graph_seeds, p.starts[2]) >>

(* Mutant of EdmeshDerive: the seed is not the secret.                     *)
EdmeshDeriveUnseeded(ss, p) == << "edmesh", << "ss" >>, Masks(<< "ss" >>, p) >>

(* td18_edmesh_derive: the hash of the secret, its bits permuted, with one *)
(* mask in its first half and, blended with that half, the other one in    *)
(* its second half: for one secret as many outputs as pairs of masks.      *)
EdmeshDerive(ss, p) == << "edmesh", ss, Masks(ss, p) >>

(* Mutant of GenCommitment: the nonce is drawn once more when it is sent.  *)
GenCommitmentOtherNonce(ct, edmesh, binding, mac, nonce) ==
  [hash |-> << "commitment", ct, edmesh, binding, mac, nonce >>, nonce |-> nonce + 1]

(* td18_gen_commitment.                                                    *)
GenCommitment(ct, edmesh, binding, mac, nonce) ==
  [hash |-> << "commitment", ct, edmesh, binding, mac, nonce >>, nonce |-> nonce]

(* Mutant of VerifyCommitment: the binding is left out.                    *)
VerifyCommitmentNoBinding(c, ct, edmesh, binding, mac) ==
  \E b \in 1..MaxBundles : c.hash = << "commitment", ct, edmesh, b, mac, c.nonce >>

(* td18_verify_commitment: it takes the nonce of the commitment.           *)
VerifyCommitment(c, ct, edmesh, binding, mac) ==
  c.hash = << "commitment", ct, edmesh, binding, mac, c.nonce >>

VerifyMac(mac, ss, ct) == mac = Tag(ss, ct)

(* Mutant of DeriveFinalKey: the mesh is entered at fixed nodes.           *)
DeriveFinalKeyFixedStart(ss, binding, kp, p) ==
  {<< "base", ss >>,
   << "overlay", EdmeshDerive(ss, [p EXCEPT !.starts = [i \in 0..2 |-> 0]]),
      HybridBind(binding, kp), binding, Reconcile(ss) >>}

(* td18_derive_final_key: the exclusive or of two hashes, as their set.    *)
DeriveFinalKey(ss, binding, kp, p) ==
  {<< "base", ss >>,
   << "overlay", EdmeshDerive(ss, p), HybridBind(binding, kp), binding, Reconcile(ss) >>}

-----------------------------------------------------------------------------
(* alice_generate: the parameters are public, Bob begins with a copy.      *)
Init ==
  /\ \E s \in Starts : alice = NewParams(s)
  /\ bob = alice
  /\ keypair = 1 /\ pk = 1
  /\ sent = {} /\ received = {}

NewKeypair ==
  /\ keypair < MaxKeys
  /\ keypair' = keypair + 1
  /\ UNCHANGED << alice, bob, pk, sent, received >>

FetchPk ==
  /\ pk # keypair
  /\ pk' = keypair
  /\ UNCHANGED << alice, bob, keypair, sent, received >>

EvolveAlice ==
  /\ alice.epoch < MaxEpoch
  /\ \E s \in Starts : alice' = Evolved(alice, s)
  /\ UNCHANGED << bob, keypair, pk, sent, received >>

EvolveBob ==
  /\ bob.epoch < MaxEpoch
  /\ \E s \in Starts : bob' = Evolved(bob, s)
  /\ UNCHANGED << alice, keypair, pk, sent, received >>

(* Bob takes a new copy of the parameters that Alice publishes.            *)
CopyParams ==
  /\ bob # alice
  /\ bob' = alice
  /\ UNCHANGED << alice, keypair, pk, sent, received >>

Fields == {"ct", "hints", "binding", "mac", "commitment"}

(* encapsulate of lib.rs: the m-th bundle.  Its random values (coins,      *)
(* binding and nonce) are fresh, and are named by m.                       *)
BundleOf(m, kp, p) ==
  LET ct == Ct(kp, m)
      ss == Secret(kp, m)
      mesh == EdmeshDerive(ss, p)
  IN  [ct |-> ct, hints |-> mesh, binding |-> m, mac |-> Tag(ss, ct),
       commitment |-> GenCommitment(ct, mesh, m, Tag(ss, ct), m)]

(* bob_encapsulate.                                                        *)
BobEncapsulate ==
  LET m == Cardinality(sent) + 1
  IN  /\ m <= MaxBundles
      /\ sent' = sent \cup
           {[bundle |-> BundleOf(m, pk, bob), kp |-> pk, params |-> bob,
             key |-> DeriveFinalKey(Secret(pk, m), m, pk, bob)]}
      /\ UNCHANGED << alice, bob, keypair, pk, received >>

(* alice_decapsulate of a bundle each field of which is a field of some    *)
(* bundle of Bob, with the checks the library offers her: the MAC, the     *)
(* commitment with the hints of the bundle (verify_commitment of lib.rs),  *)
(* and the commitment with a mesh of her own (the C library sends no       *)
(* hints).  Nothing is kept from one reception to the next, so one is      *)
(* enough: that is the bound in the guard.                                 *)
AliceDecapsulate ==
  /\ received = {}
  /\ \E from \in [Fields -> sent] :
       LET b == [f \in Fields |-> from[f].bundle[f]]
           ss == Decapsulated(keypair, b.ct)
       IN  received' =
             {[bundle |-> b, kp |-> keypair, params |-> alice,
               key |-> DeriveFinalKey(ss, b.binding, keypair, alice),
               macOk |-> VerifyMac(b.mac, ss, b.ct),
               hintsOk |-> VerifyCommitment(b.commitment, b.ct, b.hints, b.binding, b.mac),
               meshOk |-> VerifyCommitment(b.commitment, b.ct, EdmeshDerive(ss, alice),
                                           b.binding, b.mac)]}
  /\ UNCHANGED << alice, bob, keypair, pk, sent >>

Next ==
  \/ NewKeypair \/ FetchPk \/ EvolveAlice \/ EvolveBob \/ CopyParams
  \/ BobEncapsulate \/ AliceDecapsulate

Spec == Init /\ [][Next]_vars

-----------------------------------------------------------------------------
(* Two derivations started from the same things: the ciphertext, the       *)
(* binding and the key pair, hence one secret, and parameters that give    *)
(* that secret the same masks.                                             *)
SameInputs(s, r) ==
  LET ss == Decapsulated(s.kp, s.bundle.ct)
  IN  /\ r.bundle.ct = s.bundle.ct /\ r.bundle.binding = s.bundle.binding
      /\ r.kp = s.kp
      /\ Masks(ss, r.params) = Masks(ss, s.params)

(* Alice's key is Bob's exactly when it was derived from the same          *)
(* ciphertext, binding and key pair and from parameters with the same two  *)
(* masks: whatever was evolved, replaced or mixed up in between, keys      *)
(* agree although start 0 or a walk differs, split as soon as a mask does, *)
(* and never meet by accident.                                             *)
KeysAgreeOnInputs ==
  \A s \in sent, r \in received : r.key = s.key <=> SameInputs(s, r)

(* If the commitment verifies with the mesh that Alice computes herself,   *)
(* her key is the one Bob derived when he made that commitment, although   *)
(* the commitment covers neither the parameters nor the public key.        *)
CheckedKeysAgree ==
  \A r \in received : r.meshOk =>
    \E s \in sent : s.bundle.commitment = r.bundle.commitment /\ s.key = r.key

(* If the commitment verifies with the hints, no two fields of the bundle  *)
(* come from different ones; and a bundle as it was sent passes.           *)
CommitmentBindsFields ==
  \A r \in received : r.hintsOk <=> \E s \in sent : s.bundle = r.bundle

(* The checks raise no false alarm: with the same inputs the MAC and the   *)
(* commitment of an unmixed bundle verify.                                 *)
NoFalseAlarm ==
  \A s \in sent, r \in received :
    r.bundle = s.bundle /\ SameInputs(s, r) => r.macOk /\ r.meshOk

(* The expectation of lib.rs:433-437: after both parties have evolved      *)
(* their parameters synchronously (Bob's copy never differs from Alice's   *)
(* in its epoch), the keys match.                                          *)
SynchronousEvolutionAgrees ==
  \A s \in sent, r \in received :
    r.bundle = s.bundle /\ r.kp = s.kp /\ r.params.epoch = s.params.epoch =>
      r.key = s.key

=============================================================================
