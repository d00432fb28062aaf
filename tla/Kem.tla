-------------------------------- MODULE Kem ---------------------------------
(***************************************************************************)
(* The key encapsulation mechanism of kem.c as functions, over an abstract *)
(* public-key encryption scheme and abstract hashes.  A buffer is a        *)
(* function from its positions to bytes: positions are what the fault      *)
(* masking of module KemDecaps tells apart, and what separates the two     *)
(* halves of a buffer.                                                     *)
(***************************************************************************)
EXTENDS Integers

CONSTANTS
  Byte,       (* the values of one byte                                  *)
  MsgIdx,     (* positions of the message, the first half of buf         *)
  HpkIdx,     (* positions of the hash of the public key, its other half *)
  KeyIdx,     (* positions of the shared secret, the first half of kr    *)
  CoinIdx,    (* positions of the encryption coins, its other half       *)
  CtIdx,      (* positions of a ciphertext                               *)
  Hpk,        (* H(pk), as keypair_derand stores it in sk                *)
  Enc(_, _),  (* td18_indcpa_enc under pk, of a message with coins       *)
  Dec(_),     (* td18_indcpa_dec under sk                                *)
  G(_),       (* td18_hash_g                                             *)
  Reject(_)   (* td18_rkprf under the z of sk                            *)

BufIdx == MsgIdx \cup HpkIdx
KrIdx == KeyIdx \cup CoinIdx

Messages == [MsgIdx -> Byte]
Buffers == [BufIdx -> Byte]
Hashes == [KrIdx -> Byte]
Secrets == [KeyIdx -> Byte]
Coins == [CoinIdx -> Byte]
Ciphertexts == [CtIdx -> Byte]

ASSUME KemAssumption ==
  /\ 0 \in Byte
  /\ MsgIdx \cap HpkIdx = {}
  /\ Hpk \in [HpkIdx -> Byte]
  /\ \A m \in Messages, c \in Coins : Enc(m, c) \in Ciphertexts
  /\ \A ct \in Ciphertexts : Dec(ct) \in Messages /\ Reject(ct) \in Secrets
  /\ \A b \in Buffers : G(b) \in Hashes

(* Decryption inverts encryption.  (The scheme of indcpa.c fails with a    *)
(* negligible probability, which is abstracted from.)                      *)
ASSUME PkeAssumption ==
  \A m \in Messages, c \in Coins : Dec(Enc(m, c)) = m

-----------------------------------------------------------------------------
(* The buffer that is hashed: the message, then H(pk).                     *)
WithHpk(m) == [i \in BufIdx |-> IF i \in MsgIdx THEN m[i] ELSE Hpk[i]]

(* The halves of buf and kr that the calls are handed.                     *)
MessageOf(buf) == [i \in MsgIdx |-> buf[i]]
KeyOf(kr) == [i \in KeyIdx |-> kr[i]]
CoinsOf(kr) == [i \in CoinIdx |-> kr[i]]

(* td18_kem_enc_derand of the message m (its parameter coins).             *)
Encapsulate(m) ==
  LET kr == G(WithHpk(m))
  IN  [ct |-> Enc(m, CoinsOf(kr)), ss |-> KeyOf(kr)]

(* What td18_kem_dec is there to return: the secret of the message that ct *)
(* decrypts to if ct is the encapsulation of that message, and else a      *)
(* secret that only depends on ct and z.                                   *)
Decapsulate(ct) ==
  LET made == Encapsulate(Dec(ct))
  IN  IF made.ct = ct THEN made.ss ELSE Reject(ct)

=============================================================================
