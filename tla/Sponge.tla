------------------------------- MODULE Sponge -------------------------------
(***************************************************************************)
(* The sponge of fips202.c: its incremental calls (init, absorb, finalize, *)
(* squeeze), its calls for whole messages and whole blocks (absorb_once,   *)
(* squeezeblocks) and SHA3, one round of their loops at a time.  A client  *)
(* makes the calls in any order the comments of fips202.c allow, with      *)
(* pieces of any length.                                                   *)
(***************************************************************************)
EXTENDS SpongeState

CONSTANTS
  Word,       (* bytes of a word of the state: 8 in the code             *)
  HashBytes,  (* the output length of SHA3                               *)
  MaxMessage, (* bound: bytes of the message                             *)
  MaxOutput   (* bound: bytes of the output                              *)

ASSUME SpongeAssumption ==
  /\ Word \in Nat \ {0} /\ Rate % Word = 0
  /\ HashBytes \in Nat /\ HashBytes % Word = 0 /\ HashBytes <= Rate
  /\ MaxMessage \in Nat /\ MaxOutput \in Nat

VARIABLES
  pc,         (* the loop that is running                                *)
  s,          (* the state                                               *)
  pos,        (* pos of keccak_state                                     *)
  in,         (* place in the message of the next byte to absorb         *)
  inlen,      (* inlen: bytes of this call not yet absorbed              *)
  outlen,     (* outlen or nblocks: what this call has yet to squeeze    *)
  msg,        (* history: bytes handed to the sponge                     *)
  domain,     (* history: the domain it was finalized with               *)
  out         (* history: bytes squeezed                                 *)

vars == << pc, s, pos, in, inlen, outlen, msg, domain, out >>

(* The last byte of word w.                                                *)
WordEnd(w) == Word * w + Word - 1

(* The domain byte after the message, and the last bit of word w.          *)
Pad(st, at, p, w) ==
  XorByte(XorByte(st, at, << "domain", p >>), WordEnd(w), << "end" >>)

-----------------------------------------------------------------------------
(* shake_init.                                                             *)
Init ==
  /\ pc = "idle"
  /\ s = Zero /\ pos = 0
  /\ in = 0 /\ inlen = 0 /\ outlen = 0
  /\ msg = 0 /\ domain = "none" /\ out = << >>

(* shake_absorb of any number of bytes, and its loop: as long as they fill *)
(* the block ...                                                           *)
BeginAbsorb ==
  /\ pc = "idle" /\ domain = "none" /\ pc' = "absorb"
  /\ \E n \in 0..(MaxMessage - msg) : inlen' = n /\ msg' = msg + n
  /\ in' = msg
  /\ UNCHANGED << s, pos, outlen, domain, out >>

(* Mutant of AbsorbBlock: the position is not reset.                       *)
AbsorbBlockKeepsPos ==
  /\ pc = "absorb" /\ pos + inlen >= Rate
  /\ s' = Permute(XorMessage(s, pos, in, Rate - pos))
  /\ in' = in + (Rate - pos)
  /\ inlen' = inlen - (Rate - pos)
  /\ UNCHANGED << pc, pos, outlen, msg, domain, out >>

AbsorbBlock ==
  /\ pc = "absorb" /\ pos + inlen >= Rate
  /\ s' = Permute(XorMessage(s, pos, in, Rate - pos))
  /\ in' = in + (Rate - pos)
  /\ inlen' = inlen - (Rate - pos)
  /\ pos' = 0
  /\ UNCHANGED << pc, outlen, msg, domain, out >>

(* ... and the rest.                                                       *)
AbsorbRest ==
  /\ pc = "absorb" /\ pos + inlen < Rate /\ pc' = "idle"
  /\ s' = XorMessage(s, pos, in, inlen)
  /\ pos' = pos + inlen
  /\ UNCHANGED << in, inlen, outlen, msg, domain, out >>

(* shake_finalize.                                                         *)
Finalize ==
  /\ pc = "idle" /\ domain = "none"
  /\ s' = Pad(s, pos, ShakeDomain, (Rate \div Word) - 1)
  /\ pos' = Rate
  /\ domain' = ShakeDomain
  /\ UNCHANGED << pc, in, inlen, outlen, msg, out >>

(* keccak_absorb_once for either domain: the message must be new.          *)
BeginAbsorbOnce(p) ==
  /\ pc = "idle" /\ msg = 0 /\ domain = "none"
  /\ pc' = IF p = ShakeDomain THEN "once" ELSE "sha3"
  /\ \E n \in 0..MaxMessage : inlen' = n /\ msg' = n
  /\ in' = 0
  /\ s' = Zero
  /\ UNCHANGED << pos, outlen, domain, out >>

OnceBlock ==
  /\ pc \in {"once", "sha3"} /\ inlen >= Rate
  /\ s' = Permute(XorMessage(s, 0, in, Rate))
  /\ in' = in + Rate
  /\ inlen' = inlen - Rate
  /\ UNCHANGED << pc, pos, outlen, msg, domain, out >>

(* shake_absorb_once leaves the first block to be permuted; sha3 permutes  *)
(* and reads its words.                                                    *)
OnceRest ==
  /\ pc = "once" /\ inlen < Rate /\ pc' = "idle"
  /\ s' = Pad(XorMessage(s, 0, in, inlen), inlen, ShakeDomain, (Rate - 1) \div Word)
  /\ pos' = Rate
  /\ domain' = ShakeDomain
  /\ UNCHANGED << in, inlen, outlen, msg, out >>

Sha3Rest ==
  /\ pc = "sha3" /\ inlen < Rate /\ pc' = "hash"
  /\ s' = Pad(XorMessage(s, 0, in, inlen), inlen, Sha3Domain, (Rate - 1) \div Word)
  /\ domain' = Sha3Domain
  /\ UNCHANGED << pos, in, inlen, outlen, msg, out >>

Sha3Output ==
  /\ pc = "hash" /\ pc' = "end"
  /\ s' = Permute(s)
  /\ out' = Bytes(s', 0, Word * (HashBytes \div Word))
  /\ UNCHANGED << pos, in, inlen, outlen, msg, domain >>

-----------------------------------------------------------------------------
(* shake_squeeze of any number of bytes.                                   *)
BeginSqueeze ==
  /\ pc = "idle" /\ domain = ShakeDomain /\ pc' = "squeeze"
  /\ outlen' \in 1..(MaxOutput - Len(out))
  /\ UNCHANGED << s, pos, in, inlen, msg, domain, out >>

(* Mutant of SqueezeRound: every call begins with a new block.             *)
SqueezeRoundAfresh ==
  /\ pc = "squeeze" /\ outlen > 0
  /\ LET n == IF outlen < Rate THEN outlen ELSE Rate
     IN  /\ s' = Permute(s)
         /\ out' = out \o Bytes(s', 0, n)
         /\ pos' = n
         /\ outlen' = outlen - n
  /\ UNCHANGED << pc, in, inlen, msg, domain >>

SqueezeRound ==
  /\ pc = "squeeze" /\ outlen > 0
  /\ LET fresh == pos = Rate
         from == IF fresh THEN 0 ELSE pos
         n == IF outlen < Rate - from THEN outlen ELSE Rate - from
     IN  /\ s' = IF fresh THEN Permute(s) ELSE s
         /\ out' = out \o Bytes(s', from, n)
         /\ pos' = from + n
         /\ outlen' = outlen - n
  /\ UNCHANGED << pc, in, inlen, msg, domain >>

(* shake_squeezeblocks, when no block has been started (its comment).      *)
BeginSqueezeBlocks ==
  /\ pc = "idle" /\ domain = ShakeDomain /\ pos = Rate /\ pc' = "blocks"
  /\ outlen' \in 1..((MaxOutput - Len(out)) \div Rate)
  /\ UNCHANGED << s, pos, in, inlen, msg, domain, out >>

SqueezeBlock ==
  /\ pc = "blocks" /\ outlen > 0
  /\ s' = Permute(s)
  /\ out' = out \o Bytes(s', 0, Word * (Rate \div Word))
  /\ outlen' = outlen - 1
  /\ UNCHANGED << pc, pos, in, inlen, msg, domain >>

EndSqueeze ==
  /\ pc \in {"squeeze", "blocks"} /\ outlen = 0 /\ pc' = "idle"
  /\ UNCHANGED << s, pos, in, inlen, outlen, msg, domain, out >>

Next ==
  \/ BeginAbsorb \/ AbsorbBlock \/ AbsorbRest \/ Finalize
  \/ \E p \in {ShakeDomain, Sha3Domain} : BeginAbsorbOnce(p)
  \/ OnceBlock \/ OnceRest \/ Sha3Rest \/ Sha3Output
  \/ BeginSqueeze \/ SqueezeRound \/ BeginSqueezeBlocks \/ SqueezeBlock \/ EndSqueeze

Spec == Init /\ [][Next]_vars

-----------------------------------------------------------------------------
(* Between calls the position counts what has been absorbed or squeezed,   *)
(* modulo the rate; in particular a full block never waits to be permuted, *)
(* so that finalize adds its byte inside the rate.                         *)
PositionCounts ==
  pc = "idle" =>
    /\ domain = "none" => pos = msg % Rate
    /\ domain # "none" => pos \in 1..Rate /\ pos % Rate = Len(out) % Rate

(* Every way to absorb a message and to squeeze the output yields the same *)
(* stream, the one of FIPS 202.                                            *)
Stream == INSTANCE Xof

ImplementsXof == Stream!Spec

=============================================================================
