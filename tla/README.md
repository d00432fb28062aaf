# A TLA+ model of TessanDioKey V18

TessanDioKey V18 is a key exchange around a Kyber-like lattice KEM, written three
times: in C (`tessandiocyle_keyx_c/`), in Rust (`tessandiocyle_keyx/`) and in C++
(`tessandiocyle_keyx_cpp/`); the C tree also has a copy of the Kyber reference code
(`debug_test_ref_c/ref_c/`).  This directory holds TLA+ models of their parts, TLC
configurations that check them on small instances, and TLAPS proofs for every
value of the constants.  Where the implementations differ, each is modelled, or the
difference is named below.  `PROJECT.json` maps every definition to its source lines
and lists runs, mutants, hazards, findings and theorems.

To check: `tlc -config <cfg> <module>` for each run of the table under *Runs*,
and `tlapm <module>` for `NttProofs`, `CodecProofs`, `KemProofs`, `ProtocolProofs`,
`CommitmentProofs`, `StreamsProofs` and `OverlayProofs`.

## 1. Inventory

Paths are those of the C library; the other two have a file of the same name.

| part | state it keeps | operations | talks to |
|---|---|---|---|
| NTT (`ntt.c`, `reduce.c`) | `g_ntt_seed`, one static of the process; the coefficient array, in place | `td18_ntt_seed`, `td18_ntt`, `td18_invntt`, `td18_basemul` | called by the polynomial layer; the seed is stored by every KEM operation |
| polynomials (`poly.c`, `polyvec.c`, `cbd.c`) | none | reduce, add, products, serialise, compress, message encoding, noise | IND-CPA, trapdoor |
| IND-CPA (`indcpa.c`) | none | `keypair_derand`, `enc`, `dec`, `gen_matrix` by rejection sampling | polynomials, sponge |
| KEM (`kem.c`, `verify.c`) | stack buffers; the caller's output buffer | `keypair_derand`, `enc_derand`, `dec` with three redundant copies and majority votes | IND-CPA, hashes, the NTT's seed |
| graphs and mesh (`graph.c`) | none (graphs are rebuilt from seeds; in Rust they are kept) | `graph_from_seed`, walks, `edmesh_derive`, `vdf_hash` | final key, parameters |
| reconciliation (`reconcile.c`) | none | `reconcile_alice`, `reconcile_verify` | final key |
| protocol (`protocol.c`, `lib.rs`) | each party's `td18_params` (graph seeds, start nodes, epoch), key pair, bundle | `params_init`, `params_evolve`, commitment, MAC, `derive_final_key`, `bob_encapsulate`, `alice_decapsulate` | KEM, mesh, reconciliation |
| Merkle commitment (`merkle.c`) | a flat buffer of layers; vectors in Rust and C++ | `build_tree`, `proof_generate`, `verify` | hashes |
| trapdoor (`trapdoor.c`) | authority's row and basis | generate, commit, verify and trace | polynomials, hashes, random bytes |
| sponge and hashes (`fips202.c`, `symmetric.c`) | Keccak state and position | absorb, finalize, squeeze; one-shot forms | everything |
| random bytes (`randombytes.c`) | `fd`, a static file descriptor where there is no `getrandom` | fill a buffer | everything that draws |
| clearing (`secure.c`), wrappers (`tessandiocyle_keyx.c`), programs | none | | |

Which behaviours are hard, and what correct means:

* **NTT.** Butterflies run in place in a secret order; the order comes from a seed
  that concurrent sessions overwrite.  Correct: the result does not depend on
  seed, order or interleaving; 16-bit sums never wrap; it is the transform.
* **Encryption and KEM.** Products carry Montgomery factors that must cancel, nonces
  are counted through three loops, and four implementations must understand each
  other's bytes.  Correct: keys and ciphertexts are those of the scheme.
  In decapsulation a copy may be disturbed between computation and vote; votes
  have no error result; the output buffer is written by conditional moves only.
  Correct: it returns the encapsulated secret, or the rejection secret, and
  disturbances of single copies make no difference.
* **Encodings and noise.** Division by multiplication with a rounded reciprocal,
  bits that straddle bytes.  Correct: equal to rounding division for every
  coefficient, and read back by any other implementation.
* **Protocol.** Parameters evolve independently, bundles are delayed and mixed up,
  the MAC is 16 bits.  Correct: keys agree exactly when ciphertext, binding, key pair
  and the masks that the parameters give agree, and what the commitment accepts has
  an agreeing counterpart.
* **Mesh and reconciliation.** Graphs are drawn from any hash output, and walks divide
  by the number of neighbours; hints depend on where buckets end.  Correct: every walk
  ends, bits are permuted, equal secrets have equal hints, small noise is tolerated.
* **Merkle.** Sizes, offsets and siblings are computed in three places that must
  round alike.  Correct: in bounds, complete, and convincing of nothing false.
* **Trapdoor.** Unreduced sums and signs.  Correct: the basis is in the kernel,
  and the hash comparison accepts the committed identity only, which in C and C++ is
  what the algebra would.
* **Sampling, sponge, random bytes.** Buffers refilled in pieces must have the
  effect of one stream; system calls are interrupted, cut short and fail, and
  threads share a descriptor.

Nothing is persistent and there is no network; bundles are handed over by the caller.
The only retries are those of rejection sampling and of interrupted system calls.

## 2. Plan

All parts of the inventory have their models; all refinements are proved, and all safety
properties but those of the exchange (`KeyIsTextbook`, `CiphertextIsTextbook`,
`SecretsAgree`), which stay with TLC: section 5 says why.

Composition: `KemDecaps` extends `Kem` and implements `Decaps`; `ShuffledNTT`
and `OrderedNTT` extend `NttRing`, whose butterflies `Lattice` uses too; `KemC`,
`KemCpp`, `KemRust` and `KemRef` extend `Lattice` and the encodings of their language
(`CodecC` for C and C++), and `KemExchange` has them talk to each other; `Merkle` and
`LayeredMerkle` implement `CommittedArray`; `Sponge` and `CppSponge` extend `SpongeState` and implement `Xof`,
whose stream `Sampling` reads; `Protocol` uses, as operators, what `KemProofs` proves
of the KEM, and in place of mesh and hints terms of what they are derived from.

## 3. Modules

### NTT

* `Reduce`: Montgomery and Barrett reduction with their 16-bit casts; the table of
  roots of the code.
* `NttRing`: one butterfly of either transform, and a block of them at once, on
  coefficient functions, pointwise products, scaling; `feistel_permute`, of an index
  below a power of two, for any round keys; seeds from hashes and round keys from
  seeds, with 64-bit words as byte sequences (TLC's integers have 32 bits).  The
  constants are the ring size and the tables, which proofs leave open.
* `ShuffledNTT`: threads.  Each stores a seed (two steps, as the store is not
  atomic in C and C++), transforms, reduces, multiplies by a fixed operand,
  transforms back and scales, one butterfly per step.  `k`, `start`, `bits`
  (log2 of `len`) and `idx` are the code's loop variables, `r` its array.
  A load or store that meets another thread's store yields any seed: the data
  race of the C sources.  `AtomicSeed` selects the Rust form.
* `OrderedNTT`: the same without seeds, one block per step.
  What the transforms should compute is in `Reduce`: `ReferenceNtt` evaluates the even
  and the odd part of a polynomial at the roots (`Horner`), `ReferenceProduct` multiplies
  term by term.  Of the tables `ShuffledNTT` assumes only what makes them tables of roots
  (`TableAssumption`: each squares to the one above it, td18_invntt meets the negated
  inverses, the last layer has the roots of the pairs, `F` removes the factors), and of
  `OperandHat` that it is the transform of `Operand` (`OperandAssumption`); TLC evaluates
  both on the code's table of 128 roots.
* `MCShuffledNTT`: instances, with tables for smaller rings derived from the code's.
  `NttProofs`: proofs.

### Encodings

* `Words`: coefficients, bytes, and the layouts all implementations share: byte `x`
  of a sequence of 12, 10 or 4-bit words and word `i` of a sequence of bytes.
  `Scaled` is the multiplication by a rounded reciprocal, in pieces that fit TLC.
* `CodecC` (C and C++ alike), `CodecRust`, `CodecRef`: `poly_tobytes` and `frombytes`,
  `compress` and `decompress`, `frommsg` and `tomsg`, the vectors, `cbd2`, with the
  arithmetic of each language; Rust's masked noise and its unmasking.
* `Codec`: a key, a ciphertext's vector, a message or noise is written by any of them
  and read by any of them; on the way a message's coefficients suffer an error.
* `MCCodec`: instances.  `CodecProofs`: proofs.

### Encryption and KEM

* `Lattice`: the loops of the transforms over all blocks, with the order of a block's
  butterflies as a parameter, and the hash functions, constants that depend on the
  `family` (SHAKE and SHA3 in C, C++ and the reference; BLAKE3 in Rust).
* `KemC`, `KemCpp`, `KemRust`, `KemRef`: arithmetic of polynomials and vectors,
  `indcpa_keypair_derand`, `enc`, `dec`, and `kem_keypair_derand`, `enc_derand` and
  `dec` without faults, as functions, line by line of each implementation.
* `KemExchange`: any implementation of a family makes a key pair, any encapsulates,
  a byte of the ciphertext may change, any decapsulates.
* `MCKemExchange`: instances.
* `Kem`: `Encapsulate` and `Decapsulate` as functions over an abstract encryption
  scheme (`PkeAssumption`: decryption inverts encryption) and abstract hashes.
* `Decaps`: the promise, in one step the right secret, whatever `ss` held; only after
  faults have outvoted a byte (`outvoted`) it may be another one.
* `KemDecaps`: `td18_kem_dec`, from three decryptions (`bufs`) and their vote
  (`buf`) over three hashes (`krs`, `kr`) and re-encryptions (`cmps`, `cmp`) to
  the comparison (`fail`), two conditional moves and the clearing.  `Fault` is the
  environment: one byte of one copy changes between computation and vote; `hits`
  records where, and `NoneOutvoted` says that two copies of each byte were spared so far.
  The rate-limiting hash chain and the state tag are left out: the code discards
  both results (`kem.c:132-138`, `147-150`).
* `MCKemDecaps`: instances with a toy scheme.  `KemProofs`: proofs.

### Commitments

* `CommittedArray`: the promise, a claim is accepted exactly if it is the opened
  index with its coefficient.
* `Merkle`: the loops of `td18_merkle_build_tree` (`cur`, `buf`, `layer_counts`),
  `td18_merkle_proof_generate` (`idx`, `offset`, `steps`) and `td18_merkle_verify`
  (`current`, `taken`), one round per step, then any claim.  Hashes are terms.
  `sibling_idx` of a step, which the verifier does not read, and an index outside
  the array given to the generator are not modelled.
* `LayeredMerkle`: the same of Rust and C++, which keep a vector per layer.
* `Trapdoor`: `generate_trapdoor_authority`, `alice_commit_identity` and
  `authority_verify_and_trace` with their schoolbook products, in a small ring.
* `MCCommitments`: a behaviour is one of either tree or of an identity.
  `CommitmentProofs`: proofs.

### Protocol

* `Protocol`: `alice` and `bob` are the copies of the parameters (how often the
  seeds went through the hash chain, the start nodes, the epoch), `keypair` and
  `pk` Alice's key pair and the public key Bob knows, `sent` Bob's bundles
  together with the key he derived, `received` what Alice was handed, each field
  of any bundle Bob sent, with her key and the results of the checks that the
  library offers and `alice_decapsulate` does not make by itself.  Hashes are terms;
  the two-byte MAC is a parameter that may collide.  The exclusive or of base key
  and overlay is the set of the two.
  A mesh is a term of the secret and of two masks, because that is what
  `edmesh_derive` depends on.  Graph 0 is walked from `starts[0]`, but the swaps that
  permute the bits come from the secret's generator alone (`graph.c:48-60`); the walks of
  graphs 1 and 2 leave in a mask only the parities of the degrees they meet
  (`graph.c:82`), so walks over different graphs or from different nodes may give the
  same mask.  `Mask` therefore is a parameter about which nothing is assumed.
* `MCProtocol`: instances.  `ProtocolProofs`: proofs.

### Mesh and reconciliation

* `Mesh`: for each of the K phases the graph is drawn, one neighbour per step
  (`node`, `d`, `adj`), then walked (`current`, `i`).  In C the first walk permutes
  bits, in Rust it shuffles `Domain` elements of which `Nodes` are used (`perm`, `bits`),
  the others make masks; in C++ every walk records nodes.  Remainders of hash words
  are any.  The code of C and Rust makes all graphs before the first walk; a graph
  depends on its seed only, so each is made right before its walk here.  Rust's
  `generate_graph`, which draws from the system, takes the steps of `from_seed`.
* `Reconcile`: 16-bit words become coefficients, coefficients hints; then the verifier
  of the language.  Bob's coefficients differ by a noise.  Memory that C++ leaves
  uninitialised holds any byte of `Stale`.
* `MCOverlay`: a behaviour is one of either.  `OverlayProofs`: proofs.

### Streams

* `SpongeState`: the state as a term.  The permutation is a constructor, so two
  outputs are equal exactly when the same bytes went through the same
  permutations; a byte is the set of what was combined into it by exclusive or.
* `Xof`: the promise, a stream that depends on message and domain alone.
* `Sponge`: `fips202.c`, with `s` and `pos` of `keccak_state`, and `in`, `inlen`,
  `outlen` of the running call, one round of its loop per step.  The client mixes
  calls and lengths as it likes; of their order it only keeps what the comments ask
  for (finalize once, `squeezeblocks` at the start of a block).
* `CppSponge`: `shake.cpp`, which permutes eagerly.
* `Sampling`: `gen_matrix` (`transposed`, `i`, `j`, `ctr`, `buf`, `squeezed`) and
  `rej_uniform` (`pos`, and `fill` for its `ctr`), a triple of bytes per step.
  Which candidates are too large is any choice in `Rejections`.
* `RandomBytes`: threads fill buffers, one system call per step: `getrandom`, the file
  that is opened once for all threads (`fd`), Windows, and the two forms of C++.  Calls
  are interrupted, return less, or fail; `abort` ends the process.  The store of what
  `open` returned and the two tests after it, each of which reads `fd` again, are steps
  of their own, between which another thread may store.
* `MCStreams`: a behaviour is one of either sponge, of the matrix or of random bytes.
  `StreamsProofs`: proofs.

## 4. Runs

| run | checks | instance |
|---|---|---|
| `ntt_sessions` | `TypeOK`, `RootMatchesBlock`, `PartialBlock`, `ImplementsOrdered`, `Termination` | 2 threads, 8 coefficients, 2 seeds |
| `ntt_full` | `CoefficientBound`, `ForwardCorrect`, `ProductCorrect` | 256 coefficients, the code's table, 3 seeds, 3 inputs |
| `codec` | `EncodedExactly`, `ReadBack`, `NoiseAgrees` | every coefficient of -3328..3328, every error up to 727, every byte of noise |
| `kem_exchange` | `KeyIsTextbook`, `CiphertextIsTextbook`, `SecretsAgree` | ring of 8 coefficients, vectors of 2, all pairs of implementations |
| `kem` | `TypeOK`, `ImplementsDecaps`, `VotesMask`, `AcceptsDecryptedOnly`, `Agreement` | any 3 faults, 3-valued bytes |
| `commitments` | `AllocationsSuffice`, `FollowsPath`, `ImplementsCommitment`; `KernelExact`, `AnswerIsTheAlgebra` | all bit arrays up to 4, one each up to 11; ring of 4 coefficients modulo 37 |
| `trapdoor_target` | `TargetIsTheImage` is violated | the same ring |
| `protocol` | `KeysAgreeOnInputs`, `CheckedKeysAgree`, `CommitmentBindsFields`, `NoFalseAlarm` | 2 bundles, 2 key pairs, 1 evolution each, 5 choices of start nodes |
| `protocol_evolve` | `SynchronousEvolutionAgrees` is violated | the same |
| `overlay` | `HintsAreMonotone`, `NoiseTolerated`, `EqualHintsAccepted`; `GraphWellFormed`, `ShuffleKeepsBits`, `MeshEnds` | 16 coefficients of every value; 3 nodes of degree 2, 3 phases |
| `overlay_hints` | `SameHints` is violated | the same |
| `streams` | `PositionCounts`, `ImplementsXof`; `EntriesFromStreams`, `TransposeAgrees`; `FilledWhenReturned`; `CallsReturn` | rate 4, words of 2 bytes, 10 bytes in and out; 2 by 2 entries of 3 coefficients, blocks of 6 bytes; 2 threads and 3 bytes |

What they show:

* **The seed does not matter** (`ImplementsOrdered`, `PartialBlock`).  Whatever
  seeds threads store, read or tear, each array is, at every block boundary, that
  of the transform without a seed, and in between exactly the visited butterflies
  have been applied.  `RootMatchesBlock` ties the root counter, which runs on
  across layers, to the block.  `Termination`: no thread waits for another.
* **It is the transform** (`ForwardCorrect`, `ProductCorrect`) and no 16-bit sum
  wraps around (`CoefficientBound`), at the size of the code for extreme inputs; the
  proofs extend all three to every reduced input, ring size, seed and interleaving.
* **Encodings are what they stand for** (`EncodedExactly`), whatever trick divides, and
  any implementation reads what any other wrote (`ReadBack`).  The last error that a
  message survives in any pair of them is 727: 728 makes it fail, less than
  Q / 4 = 832, as the ciphertext's own rounding takes its share.
* **Four implementations are one scheme** (`KeyIsTextbook`, `CiphertextIsTextbook`,
  `SecretsAgree`): the textbook formulas are computed with plain products modulo Q,
  the implementations with shuffled transforms and Montgomery factors.
* **Votes mask single copies** (`VotesMask`, `ImplementsDecaps`, `Agreement`), and
  where two copies of one byte were hit, `AcceptsDecryptedOnly`: the re-encryption
  accepts no other message than the decrypted one.  The votes do not *report*
  anything: three copies that all differ yield the second.
* **Merkle proofs are complete and sound**, in all languages and with odd layers
  at any height, and stay inside what is allocated.  The C++ tree would
  move an odd last node up unhashed, where its verifier hashes it with itself; its
  arrays always have 256 elements, so it never has one (`LayeredMerkle` is given no
  other lengths in C++).
* **The trapdoor's basis is in the kernel** (`KernelExact`), even of the unreduced
  sums.  The authority computes `u - encode(id)` and then only compares hashes;
  `AnswerIsTheAlgebra` says that it accepts the committed identity and no other, and
  that in C and C++ what it leaves out would have told it the same.  In Rust it would
  not: see `trapdoor_target` under *Findings*.
* **Keys agree exactly on the same ciphertext, binding, key pair and masks**
  (`KeysAgreeOnInputs`), not on the same parameters: those that differ in graph 0 or
  start 0 only, or whose walks give the same masks, give the same key.  If the commitment
  verifies with the mesh that Alice computes herself, her key is that of the
  commitment's sender, although neither parameters nor public key are hashed into
  it (`CheckedKeysAgree`).  With the hints in the bundle it shows that no
  fields were mixed up (`CommitmentBindsFields`), not that keys agree.
* **Every mesh is computed to its end** (`MeshEnds`) from well-formed graphs
  (`GraphWellFormed`: directed with at most 12 neighbours in C and C++, undirected
  in Rust), and where C shuffles bits no bit is lost (`ShuffleKeepsBits`).  Rust
  does lose bits: it takes the first 256 entries of a permutation of 768 modulo 256
  (`graph.rs:158`), so two bits may land on one place while another stays zero.
  Both ends lose the same ones.
* **Hints are monotone** (`HintsAreMonotone`) although they are rounded three times.
  The verifiers of C and Rust tolerate noise below 16 per coefficient
  (`NoiseTolerated`; with 16 the sums of four reach the tolerance of 64), but not
  around 0, where the last bucket would have to be next to the first.  Equal hints are
  accepted but for one exception (`EqualHintsAccepted`): Rust's `signum` tells a sum of
  0 from a positive one, the hint bit does not.
* **Pieces make one stream** (`ImplementsXof`, for C and C++): the bytes that are
  squeezed depend on message and domain alone.  `PositionCounts` says why finalize
  adds its byte inside the block.
* **Sampling reads one stream** (`EntriesFromStreams`): across `rej_uniform`'s calls
  nothing is skipped, repeated or stored past the polynomial; `TransposeAgrees` ties
  encryption's matrix to key generation's.
* **Returned buffers are full** (`FilledWhenReturned`) in C; in C++ only if the system
  did not fail, which the caller is not told.  A thread whose `open` is interrupted
  stores -1 over the descriptor another thread has just stored; the other one's
  `read` then fails and aborts the process, so no buffer is returned unfilled.

### Findings

* `protocol_evolve`: `lib.rs:433` says both parties would evolve synchronously; as
  `evolve_params` draws the start nodes at random, two copies diverge, and the keys with
  them unless the masks happen to be the same.  The test evolves one shared copy.
* `trapdoor_target`: `trapdoor.rs:202` says `target = u - id_poly = A · t`.  Rust's
  `poly_sub` subtracts its first operand from its second (`poly.rs:164`), so the target is
  -A . t; and the modulus of `encode_identity` is cast to 8 bits, where it is 1
  (`trapdoor.rs:136`), so every identity has the encoding 0 and the target would be A . t
  for any identity if only the sign were right.  The target is not used afterwards: the
  answers of the authority are right.
* `overlay_hints`: the C++ `derive_final_key` enters 144 bytes of hints into the key of
  which 64 are written, so two ends with one secret may get different keys, which
  `cli_test.cpp:86` says they do not.

Four comments go further than the code, without harm to any result: `ntt.rs:20` promises
that all subsequent transforms use the stored permutation, which another session's
store changes; `cli_test.c:37` says that the seed 0 disables the shuffle, but the round
keys come from a generator with an increment; `graph.rs:60` and `graph.rs:109` call the
permutation of bits one made by a graph walk, which has no effect on it; and
`graph.rs:154` says that 256 bits are permuted, of which some are lost.

### Bounds

* NTT: 8 coefficients have two layers with 1 and 2 blocks, so every branch of
  the loop headers is taken and roots differ within a layer; races need two
  threads; two seeds with different permutations suffice as a torn seed is
  any of them.  The proofs cover the rest.  `ntt_full` has one thread, because the
  refinement already removed the others.
* Codec: nothing couples the coefficients but the layouts, which repeat after
  eight, so eight coefficients in which every value takes every place suffice.  The
  proofs cover the rest.
* KEM exchange: the noise of some seeds is the largest there is.  With 8 coefficients and
  2 polynomials no error can reach 727, so decryption never fails; in the real
  ring it does with negligible probability.
* KEM faults: one byte per half of each buffer and three values per byte: three copies can
  all differ.  Two faults are needed to outvote a byte; a third one hits the byte's
  last copy or another stage.  The proofs cover any size and number.
* Merkle: lengths 3, 5, 6, 7, 9, 10, 11 have odd layers at each height; `MaxSteps`
  is 4 (8 in the code), which 11 elements exhaust.  Coefficients are bits.
* Trapdoor: with N = 4 and Q = 37 the largest centred coefficient 4 N + 2 = 18 is just
  below half of the modulus (2 * 18 < 37; 2 * 1026 < 3329 in the code), and Q is 1
  modulo `Byte` as 3329 is modulo 256.
* Protocol: to mix fields takes two bundles; a stale bundle one further key pair
  and one evolution, after which the copies may meet in the epoch with different start
  nodes.  Of the five choices of start nodes two differ from the first in one mask only,
  one in the entry of graph 0 and in a walk that coalesces with the first one's under
  some secrets, and one has masks that evolution does not change, so that every way
  in which parameters differ or masks agree occurs.  One reception, since nothing is kept between two.  The
  tags of the two bundles differ and those of rejected secrets collide with one.
* Mesh: three nodes and degree 2 let a draw be repeated, be the node itself, and be
  found again from the other end; a C or C++ node may stay without neighbours.
  Three phases are those of the code.
* Reconcile: blocks of four and pairs of coefficients repeat; every word below Q fills
  all places once, and words around 0, Q and the sign of 16 bits are mixed.
* Sponge: two blocks and a half, so that pieces end before, at and
  after a block's end, and a word is shorter than a block.
* Sampling: three coefficients, so that the last triple has one candidate too many;
  one stream rejects any subset of its first two blocks' candidates, whole blocks
  included, and the others differ from it.
* Random bytes: `MaxInterrupts` is 2, one for each of two threads, or both for one.
* `CHECK_DEADLOCK FALSE` everywhere: calls return and bounded histories end.

### Fairness

Three properties need it.  `Termination`: weak fairness of each thread's next step.
The threads never wait for one another (the mutant that does violates it), so
all that is assumed is that the operating system starves none.  `CallsReturn`:
weak fairness of a call that has begun, not of the caller; a stream rejects
finitely many candidates, which holds of random streams with probability 1 and
cannot be had of the code; and of random bytes weak fairness of what the system
does when it does not fail (`Goes`), since failures are bounded by
`MaxInterrupts`: a system that interrupts for ever keeps the code in its loop.
`MeshEnds`: the function that has been called runs on.  All other properties are
safety properties.

## 5. Proofs

* `NttProofs!FeistelBijection`: for all block sizes, with an even or odd
  number of bits, and all round keys, the shuffle is a bijection on the block.
  Each round only mixes one half into the other and can be undone
  (`FeistelForward`, `FeistelBackward`).  The exclusive or is a parameter with the
  two properties it needs (`BitXor`), as TLC's module `Bitwise` is recursive.
* `NttProofs`: `IInv` (the types, `RootMatchesBlock`, `PartialBlock`) is inductive
  for every ring size, tables, seeds and sessions: `TypeCorrect`, `RootsCorrect`,
  `PartialCorrect`.  `PartialBlock` is what makes `Refinement` (`Spec =>
  ImplementsOrdered`) go through: at the last butterfly of a block the visited slots
  are all of the block, by the bijection, so the array is the whole block applied.
* `NttProofs!CoefficientsBounded`: no 16-bit sum wraps around.  Montgomery reduction
  ends between -Q and Q for every product of a centred root and a 16-bit value
  (`MontgomeryBound`), Barrett reduction within 1665 for every argument up to 9 Q
  (`BarrettBound`).  So a forward layer adds at most Q to any coefficient, and `BaseBound`
  says: in the layer of `bits` the elements from the current block on are still below
  `LayerLimit(bits)` and all are below Q more; in the inverse transform everything is
  below Q between two blocks.  The array in the middle of a block is known from
  `PartialBlock` (`InnerBound`).  `BoundAssumption` asks for
  centred roots, reduced inputs and at most nine layers (256 coefficients have seven).
* `NttProofs!TransformsCorrect` and `ProductsCorrect`: what the threads compute is the
  transform and the product of their inputs.  `Layers(u)` is the transform over the
  integers, layer by layer, from the polynomial `u` (layer `MaxBits`) to its residues
  modulo X^2 - z (layer 1): a piece of 2^(b+1) coefficients, a polynomial modulo
  X^(2^(b+1)) - z^2, is cut into its residues modulo X^(2^b) - z and X^(2^b) + z (`Split`).
  `BaseValue` says what the array is congruent to at every block boundary: in td18_ntt
  layer `b` of the input before the current block and layer `b + 1` from it on (`Cut`);
  in td18_invntt the same with the layers of the product, times a factor 2 for each layer
  joined and 169 = 2^-16 from the products of the pairs (`Joined`), both of which `F`
  takes away (`ScaleValue`).  It is inductive together with `IInv` and `BaseBound`, since
  a congruence survives the 16-bit casts only because no sum wraps around:
  `NttBlockValue`, `InvBlockValue`, `ReduceValue`, `ProductValue`.
  That layer 1 is `ReferenceNtt` (`ReferenceIsLayers`) and that layer 1 of a product is the
  product of the pairs (`ProductResidues`) are statements about recursive sums.  A
  recursive definition is first shown to satisfy its equation (the least number at which
  it would not, `DownInduction`); then a residue is Horner's sum of the input's even or
  odd part in every layer, and a product is a sum of shifted multiples (`Shifts`,
  `SumsFrom`), each shift being a multiplication by X, which turns residues by z
  (`TransformResidues`).
* `CodecProofs`, on the encodings, for vectors of every length.  Bit by bit, a byte of the
  layout holds the bits of the words it is joined from, and a word that is put together
  from bytes is the one they were taken from (`TwelveBitPair`, `TenBitQuartet`, and the
  streams of them).  The products with rounded reciprocals are divisions: `TenBitQuotient`
  for all coefficients; for the 4-bit words of C's `poly_compress` by their residues
  (`FourBitQuotient`).  So the bytes of a key or a vector are one sequence, whoever wrote
  them, and `IInv` says that they are this one and that `out` is read from it.
  A message's coefficients stay on their half of the circle: with an error up
  to 727 the compressed coefficient of a 0 is 13..15 or 0..3, that of a 1 is 5..11
  (`NibbleOfBit`, `BitOfNibble`).  The masks of Rust's noise cancel (`MaskedNoise`).
  Hence `EncodedExactlyAlways`, `ReadBackAlways`, `NoiseAgreesAlways`.
* `KemProofs`: `KemCorrect` (decapsulation inverts encapsulation).  For the steps
  `VotesMask` alone is not inductive; `IInv` adds `CopiesRight` (before its vote
  every byte of every copy that no fault hit is as computed), `FailRight`
  (`fail` is the outcome of the comparison) and `ResultRight`.
  From it `KemTypeCorrect`, `Masking`, `Acceptance`, `AgreementHolds`, and
  `DecapsRefinement` (`Spec => ImplementsDecaps`, under any faults: the fault that
  outvotes the first byte is the step `Outvote` of the promise).
* `ProtocolProofs`: `IInv` ties every record of `sent` and `received` to what it
  was made from (`SentRight`, `ReceivedRight`); the agreement properties follow from it
  because hashes are terms: `KeysAgree`, `CheckedAgree`, `CommitmentBinds`,
  `NoAlarm`, for any number of bundles, key pairs and evolutions, any masks and any tags.
* `CommitmentProofs`, on `Merkle`: while the tree is built the layers so far are linked
  by hashes, and what is left of the allocation is what the current layer needs
  (`Building`); so `AllocationsHold`.  The generator has the siblings of
  `opened \div 2^l` (`Proving`).  The verifier holds the node of that path if and
  only if the claim is the opened one (`Verifying`): a hash that is a term tells the
  hash below it, even where a node is its own sibling.  So `PathFollowed`, and
  `CommitmentImplemented` (`Spec => ImplementsCommitment`), for arrays of every length.
  The recursive tables of the model are shown to be what their equations say first
  (`Recursion`), by the least number at which they would not be.
* `CommitmentProofs`, on `LayeredMerkle`: the same argument with a sequence for each
  layer (`LayeredInv`).  That C++ has no odd layer is part of it: a length whose factors
  are all even but 1 has halves of this kind (`HalfOfPower`), so the node that moves up
  unhashed never exists.  Hence `EveryTreeImplements` (`MCSpec => ImplementsCommitment`),
  for the trees of all languages.
* `CommitmentProofs`, on `Trapdoor`, for every N, Q and noise.  A coefficient of
  `poly_mul_schoolbook` and one of the ring's product are the same sum of terms, the
  one centred, the other reduced (`SchoolbookIs`); a product of noise has sums of at
  most 4 N, so with one more coefficient it is below Q / 2 and centring changes nothing
  (`CentredIs`).  The products with the basis then are r12 - r12 and
  r13 - r12 r23 + (r12 r23 - r13) exactly (`BasisVanishes`): `BasisInKernelAlways`.
  What is left of u is congruent to A . t exactly if the encodings are congruent
  (`Remains`), and encodings of C and C++ are congruent only for equal identities
  (`EncodingDecides`): `AnswersAreTheAlgebra`.
* `StreamsProofs`, on the sponges: `SpongeInv` says of each language which bytes of the
  current block are in the state, that `pos` counts them, and that the bytes squeezed
  are the first of the stream; the C++ sponge permutes as soon as a block is full, that
  of C when it needs the next, so the states differ by a permutation in between.
  `PositionsCount`, and `StreamImplemented` (`MCSpec => ImplementsXof`) for both.
* `StreamsProofs`, on `gen_matrix`: `EntriesFromStreams` is not inductive.  `MatrixInv`
  adds that the candidates kept so far are all that were accepted up to the place read
  (`Read`, `Filling`), that the buffer is a piece of the stream at a multiple of three,
  and that entries not begun are untouched (`Partial`, `Unstarted`): `EntriesSampled`, `TransposesAgree`, for every block size of
  whole triples and every pattern of rejections.
* `StreamsProofs`, on `randombytes`: the first `at` bytes of a thread's buffer are random
  whatever the other threads do to the descriptor (`RandomInv`): `BuffersFilled`.
* `OverlayProofs`, on the mesh: every list of neighbours is injective, bounded and, in
  Rust, mirrored (`Listed`), and the array of the shuffle is a permutation at every
  swap: `GraphsWellFormed`, `BitsKept`, for any number of nodes and any degree.
* `OverlayProofs`, on the hints: a coefficient's bucket is a staircase of its residue,
  from the ranges of the two roundings (`Rounded`), for residues down to -208, which a
  noise can reach: `HintsMonotone`, `NoisePasses`, `EqualHintsPass`, for polynomials of
  any length and any words.

Assumptions of the proofs are those of the modules, checked by TLC in the runs:
`RingAssumption`, `Pow2Assumption`, `BoundAssumption`, `TableAssumption`,
`OperandAssumption` and the like on ring and tables;
`KemAssumption` and `DecapsAssumption` on types; `PkeAssumption`: the encryption scheme
never fails to decrypt, which for the real scheme holds up to a negligible probability;
`TrapdoorAssumption`: noise from -2 to 2, the bytes of an identity evenly spread,
Q above 2 (4 N + 2), not below `Byte` and 1 modulo it, as 3329 is of 256 and 256;
`InputAssumption`: encoded coefficients are reduced, and a message's error is at most 727;
`MerkleAssumption`, `MeshAssumption`, `ReconcileAssumption`, `SamplingAssumption`,
`SpongeAssumption` and `RandomAssumption` on sizes.

Only model-checked: `KeyIsTextbook` and `CiphertextIsTextbook`, whose inverse of the
transform is a sum over all roots of unity of the ring, and which need the proofs on
transforms and encodings once more for each of the four implementations; `SecretsAgree`,
which is not true of every noise but only of rings where decryption cannot fail;
`Termination`, `CallsReturn` and `MeshEnds` (liveness).

## 6. Not modelled

* The Keccak and BLAKE3 permutations (states far beyond TLC); the bytes that the masks
  of the mesh are mixed into, on which nothing but the value of the output depends.
* Timing, and memory clearing other than what changes results (`secure.c`).
* `td18_trapdoor_id`, a stub; the rate limiter and the state tag, whose results
  are discarded; `td18_merkle_free_tree`, without which a second build only leaks;
  `polyvec_norm_squared` of Rust, which has no caller.
* The width of the trapdoor's sums: 256 * 1666 * 2 < 2^31 and 3 * 1664 + 255 < 2^15.
* The C++ protocol other than its hints and its mesh.  Its parties do what those of
  `Protocol` do up to the number of epochs counted per evolution (Rust three, C one).
* Rust's `gen_matrix` carries the bytes of an incomplete triple over to the next
  block, of which there are none (`WholeTriples`).
* `poly_reference.rs` (unused), benchmarks, test programs, the debugging programs of
  `debug_test_ref_c/` and its copy of `fips202.c`.
