------------------------------ MODULE Sampling ------------------------------
(***************************************************************************)
(* gen_matrix and rej_uniform of indcpa.c: key generation samples the      *)
(* matrix, encryption its transpose, from the same public seed.  Each      *)
(* entry has a stream of its own, read in blocks; three bytes at a time    *)
(* make two candidates of 12 bits, and those below Q are kept.  The        *)
(* streams are the sponge's (module Sponge), a byte is named by its stream *)
(* and place, a candidate by the two bytes it is cut from.                 *)
(***************************************************************************)
EXTENDS Naturals, Sequences

CONSTANTS
  K,              (* rows and columns                                    *)
  N,              (* coefficients of an entry                            *)
  BlockBytes,     (* XOF_BLOCKBYTES: 168                                 *)
  NBlocks,        (* GEN_MATRIX_NBLOCKS: 3                               *)
  Rejections      (* per stream, the first bytes of candidates >= Q      *)

Index == 0..(K - 1)
Streams == Index \X Index

(* Assumed by the modules that instantiate this one.                       *)
SamplingAssumption ==
  /\ K \in Nat \ {0} /\ N \in Nat \ {0} /\ NBlocks \in Nat \ {0}
  /\ BlockBytes \in Nat \ {0}
  /\ Rejections \subseteq [Streams -> SUBSET Nat]
  /\ BlockBytes % 3 = 0      (* 168 is a multiple of 3: the code relies on it *)

VARIABLES
  rejected,       (* which candidates of the streams are too large       *)
  pc,             (* what runs: nothing, an entry's start, rej_uniform   *)
  transposed,     (* transposed                                          *)
  done,           (* history: the matrices that were sampled             *)
  i, j,           (* the entry                                           *)
  squeezed,       (* bytes read from the entry's stream                  *)
  buf,            (* buf                                                 *)
  ctr,            (* ctr of gen_matrix: coefficients of earlier calls    *)
  fill,           (* ctr of rej_uniform: coefficients of this call       *)
  pos,            (* pos of rej_uniform                                  *)
  a               (* the matrices: what was stored where                 *)

vars == << rejected, pc, transposed, done, i, j, squeezed, buf, ctr, fill, pos, a >>

(* Mutant of Stream: the transposed call seeds as the other one does.      *)
StreamOfOne(t, row, col) == << col, row >>

(* The last two bytes of extseed.                                          *)
Stream(t, row, col) == IF t THEN << row, col >> ELSE << col, row >>

Block(x, first, n) == [b \in 1..n |-> << x, first + b - 1 >>]

(* A candidate: which half of three bytes, and the bytes it is cut from.   *)
Val0(b) == << "low", b[1], b[2] >>
Val1(b) == << "high", b[2], b[3] >>
BelowQ(v) == LET x == v[2][1] IN v[2][2] \notin rejected[x]

-----------------------------------------------------------------------------
Init ==
  /\ rejected \in Rejections
  /\ pc = "idle" /\ done = {}
  /\ transposed = FALSE /\ i = 0 /\ j = 0
  /\ squeezed = 0 /\ buf = << >> /\ ctr = 0 /\ fill = 0 /\ pos = 0
  /\ a = [t \in BOOLEAN |-> [e \in Streams |-> << >>]]

(* Key generation or encryption calls gen_matrix.                          *)
BeginMatrix(t) ==
  /\ pc = "idle" /\ t \notin done /\ pc' = "entry"
  /\ transposed' = t
  /\ i' = 0 /\ j' = 0
  /\ UNCHANGED << rejected, done, squeezed, buf, ctr, fill, pos, a >>

(* A new stream, the first blocks, and the first call of rej_uniform.      *)
BeginEntry ==
  /\ pc = "entry" /\ pc' = "rej_uniform"
  /\ buf' = Block(Stream(transposed, i, j), 0, NBlocks * BlockBytes)
  /\ squeezed' = NBlocks * BlockBytes
  /\ ctr' = 0 /\ fill' = 0 /\ pos' = 0
  /\ UNCHANGED << rejected, transposed, done, i, j, a >>

(* while (ctr < len && pos + 3 <= buflen)                                  *)
AnotherTriple == fill < N - ctr /\ pos + 3 <= Len(buf)

(* Mutant of KeepsHigh: room is only looked for before the triple.         *)
KeepsHighAnyway(taken, v) == BelowQ(v)

(* Whether the second candidate is kept: there must still be room.         *)
KeepsHigh(taken, v) == fill + taken < N - ctr /\ BelowQ(v)

(* r[ctr++] of the candidates that are kept, from place first on.          *)
Stored(entry, first, kept) ==
  LET places == first..(first + Len(kept) - 1)
  IN  [c \in DOMAIN entry \cup places |->
         IF c \in places THEN kept[c - first + 1] ELSE entry[c]]

RejUniform ==
  /\ pc = "rej_uniform" /\ AnotherTriple
  /\ LET b == SubSeq(buf, pos + 1, pos + 3)
         low == IF BelowQ(Val0(b)) THEN << Val0(b) >> ELSE << >>
         high == IF KeepsHigh(Len(low), Val1(b)) THEN << Val1(b) >> ELSE << >>
         kept == low \o high
     IN  /\ a' = [a EXCEPT ![transposed][<< i, j >>] = Stored(@, ctr + fill, kept)]
         /\ fill' = fill + Len(kept)
  /\ pos' = pos + 3
  /\ UNCHANGED << rejected, pc, transposed, done, i, j, squeezed, buf, ctr >>

(* Mutant of Refill: the stream is read from the same place again.         *)
RefillSameBlock ==
  /\ pc = "rej_uniform" /\ ~AnotherTriple /\ ctr + fill < N
  /\ buf' = Block(Stream(transposed, i, j), NBlocks * BlockBytes, BlockBytes)
  /\ squeezed' = (NBlocks + 1) * BlockBytes
  /\ ctr' = ctr + fill /\ fill' = 0 /\ pos' = 0
  /\ UNCHANGED << rejected, pc, transposed, done, i, j, a >>

(* rej_uniform returns with too few coefficients: one more block.          *)
Refill ==
  /\ pc = "rej_uniform" /\ ~AnotherTriple /\ ctr + fill < N
  /\ buf' = Block(Stream(transposed, i, j), squeezed, BlockBytes)
  /\ squeezed' = squeezed + BlockBytes
  /\ ctr' = ctr + fill /\ fill' = 0 /\ pos' = 0
  /\ UNCHANGED << rejected, pc, transposed, done, i, j, a >>

(* rej_uniform returns with all of them: the next entry, or the end.       *)
EndEntry ==
  /\ pc = "rej_uniform" /\ ~AnotherTriple /\ ctr + fill >= N
  /\ ctr' = ctr + fill /\ fill' = 0
  /\ IF i = K - 1 /\ j = K - 1
     THEN pc' = "idle" /\ done' = done \cup {transposed} /\ UNCHANGED << i, j >>
     ELSE /\ pc' = "entry" /\ UNCHANGED done
          /\ j' = (j + 1) % K
          /\ i' = IF j = K - 1 THEN i + 1 ELSE i
  /\ UNCHANGED << rejected, transposed, squeezed, buf, pos, a >>

Proceed == BeginEntry \/ RejUniform \/ Refill \/ EndEntry

Next == Proceed \/ \E t \in BOOLEAN : BeginMatrix(t)

Spec == Init /\ [][Next]_vars

(* A call that has begun goes on; nobody has to call.                      *)
Fairness == WF_vars(Proceed)

FairSpec == Spec /\ Fairness

-----------------------------------------------------------------------------
(* Candidate number l of a stream: two in three bytes; and its number.     *)
Candidate(x, l) ==
  LET first == 3 * (l \div 2)
  IN  IF l % 2 = 0 THEN << "low", << x, first >>, << x, first + 1 >> >>
                   ELSE << "high", << x, first + 1 >>, << x, first + 2 >> >>

Number(v) == 2 * (v[2][2] \div 3) + (IF v[1] = "low" THEN 0 ELSE 1)

(* An entry holds the first n candidates that are small enough: before     *)
(* each of them there are those with a smaller number, and no others.      *)
AcceptedBelow(x, l) == {m \in 0..(l - 1) : BelowQ(Candidate(x, m))}
Numbers(entry, n) == {Number(entry[c]) : c \in 0..(n - 1)}

HoldsFirst(entry, n, x) ==
  /\ DOMAIN entry = 0..(n - 1)
  /\ \A c \in 0..(n - 1) :
       /\ entry[c] = Candidate(x, Number(entry[c]))
       /\ BelowQ(entry[c])
       /\ Numbers(entry, c) = AcceptedBelow(x, Number(entry[c]))

(* However the stream falls into blocks and calls, an entry holds the      *)
(* first accepted candidates of its stream, none skipped, repeated or      *)
(* written beyond the N coefficients, in the middle of rej_uniform too.    *)
EntriesFromStreams ==
  /\ pc = "rej_uniform" =>
       /\ ctr + fill <= N
       /\ HoldsFirst(a[transposed][i, j], ctr + fill, Stream(transposed, i, j))
  /\ \A t \in done : \A e \in Streams : HoldsFirst(a[t][e], N, Stream(t, e[1], e[2]))

(* The matrix of encryption is the transpose of that of key generation,    *)
(* whichever is sampled first.                                             *)
TransposeAgrees ==
  done = BOOLEAN => \A row, col \in Index : a[TRUE][row, col] = a[FALSE][col, row]

(* Every call of gen_matrix returns, however many candidates it rejects.   *)
CallsReturn == \A t \in BOOLEAN : (pc # "idle" /\ transposed = t) ~> (t \in done)

=============================================================================
