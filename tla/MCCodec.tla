------------------------------ MODULE MCCodec -------------------------------
(***************************************************************************)
(* Instance of Codec for TLC: every coefficient from -Q to Q, in turn at   *)
(* every place of a polynomial of 8, every error up to the last that a     *)
(* message survives, and every nibble of a stream of noise.                *)
(***************************************************************************)
EXTENDS Codec

CONSTANT LastError

MCVectors ==
  {[p \in 0..(K - 1) |-> [i \in 0..(N - 1) |-> ((b + i) % (2 * Q - 1)) - (Q - 1)]] :
     b \in {8 * n : n \in 0..832} \cup {8 * n + 3 : n \in 0..832}}

MCMessages == {[x \in 0..(N \div 8 - 1) |-> m] : m \in {0, 90, 165, 255}}

MCErrors ==
  {[i \in 0..(N - 1) |-> IF i % 4 < 2 THEN e ELSE -e] : e \in -LastError..LastError}

MCStreams ==
  {[x \in 0..(N \div 2 - 1) |-> (b + 17 * x) % 256] : b \in 0..255}

MCDraws == {[i \in 0..(N - 1) |-> (d + 8191 * i) % 65536] : d \in {0, 3328, 3329, 32767, 65535}}

=============================================================================
