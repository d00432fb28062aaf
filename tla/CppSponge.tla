----------------------------- MODULE CppSponge ------------------------------
(***************************************************************************)
(* The sponge of shake.cpp.  It permutes as soon as a block is full, also  *)
(* at the end of the message, where fips202.c permutes before it reads; so *)
(* its position starts the output at 0.  A client absorbs once, in one of  *)
(* two domains, and squeezes (only SHAKE) in pieces of any length; one     *)
(* chunk of the loops at a time.                                           *)
(***************************************************************************)
EXTENDS SpongeState

CONSTANTS     (* with the assumptions that Sponge states               *)
  HashBytes,  (* the output length of SHA3                               *)
  MaxMessage, (* bound: bytes of the message                             *)
  MaxOutput   (* bound: bytes of the output                              *)

VARIABLES
  pc,         (* the loop that is running                                *)
  st,         (* the state                                               *)
  pos,        (* pos                                                     *)
  len,        (* bytes of this call not yet absorbed or squeezed         *)
  mode,       (* the function that runs, by its domain                   *)
  msg, domain, out            (* history, as in Xof                      *)

vars == << pc, st, pos, len, mode, msg, domain, out >>

(* The constructor.                                                        *)
Init ==
  /\ pc = "new" /\ mode = "none"
  /\ st = Zero /\ pos = 0 /\ len = 0
  /\ msg = 0 /\ domain = "none" /\ out = << >>

(* shake128_absorb, shake256_absorb, sha3_256 or sha3_512.                 *)
BeginAbsorb(p) ==
  /\ pc = "new" /\ pc' = "absorb" /\ mode' = p
  /\ len' \in 0..MaxMessage
  /\ UNCHANGED << st, pos, msg, domain, out >>

(* The bytes that still fit into the block.                                *)
Chunk == IF len < Rate - pos THEN len ELSE Rate - pos

AbsorbChunk ==
  /\ pc = "absorb" /\ len > 0
  /\ LET added == XorMessage(st, pos, msg, Chunk)
         full == pos + Chunk = Rate
     IN  /\ st' = IF full THEN Permute(added) ELSE added
         /\ pos' = IF full THEN 0 ELSE pos + Chunk
  /\ msg' = msg + Chunk
  /\ len' = len - Chunk
  /\ UNCHANGED << pc, mode, domain, out >>

(* Mutant of Pad: the position is left where the message ended.            *)
PadKeepsPos ==
  /\ pc = "absorb" /\ len = 0
  /\ st' = Permute(XorByte(XorByte(st, pos, << "domain", mode >>), Rate - 1, << "end" >>))
  /\ domain' = mode
  /\ pc' = IF mode = ShakeDomain THEN "ready" ELSE "hash"
  /\ UNCHANGED << pos, len, mode, msg, out >>

(* The padding and the permutation that ends the message.                  *)
Pad ==
  /\ pc = "absorb" /\ len = 0
  /\ st' = Permute(XorByte(XorByte(st, pos, << "domain", mode >>), Rate - 1, << "end" >>))
  /\ domain' = mode
  /\ IF mode = ShakeDomain
     THEN pc' = "ready" /\ pos' = 0
     ELSE pc' = "hash" /\ pos' = pos
  /\ UNCHANGED << len, mode, msg, out >>

(* The copy of the hash to the caller.                                     *)
Sha3Output ==
  /\ pc = "hash" /\ pc' = "end"
  /\ out' = Bytes(st, 0, HashBytes)
  /\ UNCHANGED << st, pos, len, mode, msg, domain >>

BeginSqueeze ==
  /\ pc = "ready" /\ pc' = "squeeze"
  /\ len' \in 1..(MaxOutput - Len(out))
  /\ UNCHANGED << st, pos, mode, msg, domain, out >>

SqueezeChunk ==
  /\ pc = "squeeze" /\ len > 0
  /\ LET fresh == pos = Rate
         from == IF fresh THEN 0 ELSE pos
         chunk == IF len < Rate - from THEN len ELSE Rate - from
     IN  /\ st' = IF fresh THEN Permute(st) ELSE st
         /\ out' = out \o Bytes(st', from, chunk)
         /\ pos' = from + chunk
         /\ len' = len - chunk
  /\ UNCHANGED << pc, mode, msg, domain >>

EndSqueeze ==
  /\ pc = "squeeze" /\ len = 0 /\ pc' = "ready"
  /\ UNCHANGED << st, pos, len, mode, msg, domain, out >>

Next ==
  \/ \E p \in {ShakeDomain, Sha3Domain} : BeginAbsorb(p)
  \/ AbsorbChunk \/ Pad \/ Sha3Output \/ BeginSqueeze \/ SqueezeChunk \/ EndSqueeze

Spec == Init /\ [][Next]_vars

-----------------------------------------------------------------------------
(* The sponge of shake.cpp promises the same stream as the one of          *)
(* fips202.c, whatever the lengths of the pieces.                          *)
Stream == INSTANCE Xof

ImplementsXof == Stream!Spec

=============================================================================
