------------------------------- MODULE Codec --------------------------------
(***************************************************************************)
(* What one implementation writes and another reads: the vectors of a key, *)
(* the compressed vectors and messages of a ciphertext, and the noise that *)
(* each of them takes from the same bytes.  Each step is done by any of    *)
(* the implementations, which are the members of the set it chooses from   *)
(* (those of C and C++ are one); when they agree, the set has one element. *)
(***************************************************************************)
EXTENDS Words

CONSTANTS
  Vectors,    (* vectors that are written into keys and ciphertexts      *)
  Messages,   (* messages, buffers of N / 8 bytes                        *)
  Errors,     (* polynomials: what encryption adds to a message          *)
  Streams,    (* buffers of N / 2 bytes, from which noise is taken       *)
  Draws       (* the 16-bit words of the generator of masks              *)

(* Coefficients are reduced when they are encoded, and the error of a      *)
(* ciphertext is small enough: the next one, 728, may not be corrected.    *)
Reduced == (1 - Q)..(Q - 1)
Tolerated == -727..727
Uint8 == 0..255
Uint16 == 0..65535

ASSUME InputAssumption ==
  /\ Vectors \subseteq [0..(K - 1) -> [0..(N - 1) -> Reduced]]
  /\ Messages \subseteq [0..(N \div 8 - 1) -> Uint8]
  /\ Errors \subseteq [0..(N - 1) -> Tolerated]
  /\ Streams \subseteq [0..(N \div 2 - 1) -> Uint8]
  /\ Draws \subseteq [0..(N - 1) -> Uint16]

VARIABLES
  kind,       (* what is written                                         *)
  value,      (* the value of that kind                                  *)
  bytes,      (* its encoding                                            *)
  out,        (* what is read back                                       *)
  pc          (* what has been done                                      *)

vars == << kind, value, bytes, out, pc >>

C == INSTANCE CodecC
Ref == INSTANCE CodecRef
Rust == INSTANCE CodecRust

Init ==
  /\ \/ kind \in {"key", "vector"} /\ value \in Vectors
     \/ kind = "message" /\ value \in Messages \X Errors
     \/ kind = "noise" /\ value \in Streams
  /\ bytes = << >> /\ out = << >>
  /\ pc = "value"

Step(of, from, to) == kind = of /\ pc = from /\ pc' = to /\ UNCHANGED << kind, value >>

WriteKey ==
  /\ Step("key", "value", "written")
  /\ bytes' \in {C!PolyVecToBytes(value), Ref!PolyVecToBytes(value), Rust!PolyVecToBytes(value)}
  /\ UNCHANGED out

ReadKey ==
  /\ Step("key", "written", "read")
  /\ out' \in {C!PolyVecFromBytes(bytes), Ref!PolyVecFromBytes(bytes), Rust!PolyVecFromBytes(bytes)}
  /\ UNCHANGED bytes

WriteVector ==
  /\ Step("vector", "value", "written")
  /\ bytes' \in {C!PolyVecCompress(value), Ref!PolyVecCompress(value),
                 Rust!PolyVecCompress(value)}
  /\ UNCHANGED out

ReadVector ==
  /\ Step("vector", "written", "read")
  /\ out' \in {C!PolyVecDecompress(bytes), Ref!PolyVecDecompress(bytes),
               Rust!PolyVecDecompress(bytes)}
  /\ UNCHANGED bytes

(* The message is made a polynomial, to which encryption adds an error; it *)
(* is reduced and compressed, and decompressed by the receiver.            *)
WriteMessage ==
  /\ Step("message", "value", "written")
  /\ \E m \in {C!PolyFromMsg(value[1]), Ref!PolyFromMsg(value[1]), Rust!PolyFromMsg(value[1])} :
       LET coeff(i) == BarrettReduce(m[i] + value[2][i])
           v == Poly(coeff)
       IN  bytes' \in {C!PolyCompress(v), Ref!PolyCompress(v), Rust!PolyCompress(v)}
  /\ UNCHANGED out

ReadMessage ==
  /\ Step("message", "written", "read")
  /\ \E w \in {C!PolyDecompress(bytes), Ref!PolyDecompress(bytes), Rust!PolyDecompress(bytes)} :
       LET coeff(i) == BarrettReduce(w[i])
           v == Poly(coeff)
       IN  out' \in {C!PolyToMsg(v), Ref!PolyToMsg(v), Rust!PolyToMsg(v)}
  /\ UNCHANGED bytes

TakeNoise ==
  /\ Step("noise", "value", "read")
  /\ \/ out' \in {C!Cbd2(value), Ref!Cbd2(value), Rust!Cbd2(value)}
     \/ \E draw \in Draws : out' = Rust!UnmaskPoly(Rust!Cbd2Masked(value, draw))
  /\ UNCHANGED bytes

Next ==
  \/ WriteKey \/ ReadKey \/ WriteVector \/ ReadVector
  \/ WriteMessage \/ ReadMessage \/ TakeNoise

Spec == Init /\ [][Next]_vars

-----------------------------------------------------------------------------
Rounded(u) == ((1024 * (u % Q) + Q \div 2) \div Q) % 1024

(* The encodings are the bits of the words, from the lowest bit of the     *)
(* first word on: 12 bits of a coefficient of a key (poly_tobytes), the    *)
(* nearest multiple of Q / 1024 in a ciphertext (polyvec_compress).        *)
EncodedExactly ==
  /\ kind = "key" /\ pc # "value" =>
       \A i \in 0..(12 * N * K - 1) :
         StreamBit(bytes, i) = Bit(Coeff(value, i \div 12) % Q, i % 12)
  /\ kind = "vector" /\ pc # "value" =>
       \A i \in 0..(10 * N * K - 1) :
         StreamBit(bytes, i) = Bit(Rounded(Coeff(value, i \div 10)), i % 10)

(* A key is read back as it was written, modulo Q; a compressed vector     *)
(* with an error of at most 2 in every coefficient (polyvec_decompress); a *)
(* message as it was sent, with every error that leaves room for the       *)
(* compression of the ciphertext (poly_frommsg to poly_tomsg): Errors      *)
(* reach the last value for which this is so.                              *)
Distance(u, v) == LET d == (u - v) % Q IN IF 2 * d < Q THEN d ELSE Q - d

ReadBack ==
  pc = "read" =>
    /\ kind = "key" => \A x \in 0..(N * K - 1) : Coeff(out, x) = Coeff(value, x) % Q
    /\ kind = "vector" =>
         \A x \in 0..(N * K - 1) : Distance(Coeff(out, x), Coeff(value, x)) <= 2
    /\ kind = "message" => out = value[1]

(* Noise is the same with and without masks, and at most 2 (cbd2 and       *)
(* cbd2_masked): the number of ones in a pair of bits less that in the     *)
(* next pair.                                                              *)
Ones(buf, from) == Bit(buf[from \div 8], from % 8) + Bit(buf[from \div 8], (from % 8) + 1)

NoiseAgrees ==
  kind = "noise" /\ pc = "read" =>
    \A i \in 0..(N - 1) :
      out[i] \in -2..2 /\ out[i] = Ones(value, 4 * i) - Ones(value, 4 * i + 2)

=============================================================================
