----------------------------- MODULE MCStreams ------------------------------
(***************************************************************************)
(* Where bytes and coefficients come from, for TLC.  A behaviour is one of *)
(* the C sponge (module Sponge), of the C++ sponge (CppSponge, whose       *)
(* variables are those of the same meaning), of gen_matrix (Sampling) or   *)
(* of randombytes (RandomBytes).                                           *)
(***************************************************************************)
EXTENDS Sponge

CONSTANTS
  K, N, BlockBytes, NBlocks, Rejections,          (* of Sampling         *)
  Threads, Length, MaxChunk, MaxInterrupts           (* of RandomBytes      *)

VARIABLES
  part,           (* which of the four a behaviour is of                 *)
  mode,           (* of CppSponge                                        *)
  rejected, entryPc, transposed, done, i, j, squeezed, buf, ctr, fill, place, a,
  variant, call, at, output, fd, aborted, interrupts, refused

matrixVars ==
  << rejected, entryPc, transposed, done, i, j, squeezed, buf, ctr, fill, place, a >>
randomVars == << variant, call, at, output, fd, aborted, interrupts, refused >>
all == << vars, part, mode, matrixVars, randomVars >>

Cpp == INSTANCE CppSponge WITH st <- s, len <- inlen
Matrix == INSTANCE Sampling WITH pc <- entryPc, pos <- place
Random == INSTANCE RandomBytes WITH pc <- call, buf <- output

ASSUME StreamsOfThisSize == Matrix!SamplingAssumption /\ Random!RandomAssumption

NoMatrix ==
  /\ rejected = << >> /\ entryPc = "idle" /\ transposed = FALSE /\ done = {}
  /\ i = 0 /\ j = 0 /\ squeezed = 0 /\ buf = << >>
  /\ ctr = 0 /\ fill = 0 /\ place = 0 /\ a = << >>

NoRandom ==
  /\ variant = "none" /\ call = [t \in Threads |-> "idle"] /\ at = 0 /\ output = << >>
  /\ fd = FALSE /\ aborted = FALSE /\ interrupts = 0 /\ refused = {}

MCInit ==
  \/ part = "C" /\ Init /\ mode = "none" /\ NoMatrix /\ NoRandom
  \/ part = "C++" /\ Cpp!Init /\ in = 0 /\ outlen = 0 /\ NoMatrix /\ NoRandom
  \/ part = "matrix" /\ Init /\ mode = "none" /\ Matrix!Init /\ NoRandom
  \/ part = "random" /\ Init /\ mode = "none" /\ NoMatrix /\ Random!Init

MCNext ==
  \/ part = "C" /\ Next /\ UNCHANGED << part, mode, matrixVars, randomVars >>
  \/ part = "C++" /\ Cpp!Next /\ UNCHANGED << part, in, outlen, matrixVars, randomVars >>
  \/ part = "matrix" /\ Matrix!Next /\ UNCHANGED << vars, part, mode, randomVars >>
  \/ part = "random" /\ Random!Next /\ UNCHANGED << vars, part, mode, matrixVars >>

MCSpec == MCInit /\ [][MCNext]_all /\ Matrix!Fairness /\ Random!Fairness

-----------------------------------------------------------------------------
(* Entries hold the first accepted candidates (see Sampling).              *)
EntriesFromStreams == part = "matrix" => Matrix!EntriesFromStreams

(* Both matrices come from the same streams (see Sampling).                *)
TransposeAgrees == part = "matrix" => Matrix!TransposeAgrees

(* Sampling ends, and calls for random bytes do (see Sampling and          *)
(* RandomBytes).                                                           *)
CallsReturn == Matrix!CallsReturn /\ Random!RandomCallsEnd

(* A buffer that a call has filled holds random bytes (see RandomBytes).   *)
FilledWhenReturned == part = "random" => Random!FilledWhenReturned

-----------------------------------------------------------------------------
Shake == "0x1F"
Sha3 == "0x06"

(* One stream rejects any of its first candidates, the others none but the *)
(* first.                                                                  *)
FirstBytes == {0, 1, 3, 4, 6, 7, 9, 10}
OneBadStream ==
  LET streams == (0..(K - 1)) \X (0..(K - 1))
  IN  {[y \in streams |-> IF y = x THEN bad ELSE {0}] : x \in streams, bad \in SUBSET FirstBytes}

=============================================================================
