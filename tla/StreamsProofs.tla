--------------------------- MODULE StreamsProofs ----------------------------
(***************************************************************************)
(* Proofs about MCStreams, for all lengths, rates and interleavings: both  *)
(* sponges give one stream for the pieces they are fed and asked for, the  *)
(* matrices hold the first accepted candidates of their streams, and a     *)
(* buffer that randombytes returns is filled.                              *)
(***************************************************************************)
EXTENDS MCStreams, TLAPS, SequenceTheorems, WellFoundedInduction

(* Every nonempty set of natural numbers has a least element.              *)
LEMMA LeastNatural ==
  ASSUME NEW T \in SUBSET Nat, T # {}
  PROVE  \E k \in T : \A m \in T : k <= m
<1> DEFINE R == OpToRel(<, Nat)
<1>1. IsWellFoundedOn(R, Nat)
  BY NatLessThanWellFounded
<1>2. \A x, y \in Nat : y < x => << y, x >> \in R
  BY DEF OpToRel
<1> HIDE DEF R
<1>3. PICK x \in T : \A y \in T : ~ (<< y, x >> \in R)
  BY <1>1, WFMin
<1>4. ASSUME NEW y \in T PROVE x <= y
  <2>1. x \in Nat /\ y \in Nat
    OBVIOUS
  <2>2. ~ (<< y, x >> \in R)
    BY <1>3
  <2>3. ~ (y < x)
    BY <1>2, <2>1, <2>2, Zenon
  <2> QED BY <2>1, <2>3
<1> QED BY <1>4

(* Induction, for the numbers of which something holds as a set.           *)
LEMMA UpToInduction ==
  ASSUME NEW P, NEW L \in Nat, 0 \in P,
         \A m \in Nat : m < L /\ m \in P => m + 1 \in P
  PROVE  \A m \in 0..L : m \in P
<1> DEFINE T == {m \in 0..L : m \notin P}
<1>1. SUFFICES ASSUME T # {} PROVE FALSE
  OBVIOUS
<1>2. PICK m \in T : \A x \in T : m <= x
  <2>1. T \in SUBSET Nat
    OBVIOUS
  <2> HIDE DEF T
  <2> QED BY <1>1, <2>1, LeastNatural
<1>3. m \in Nat /\ m <= L /\ m # 0 /\ m \notin P
  OBVIOUS
<1>4. m - 1 \in 0..L /\ m - 1 \in Nat /\ m - 1 < L /\ ~ (m <= m - 1) /\ (m - 1) + 1 = m
  BY <1>3
<1>5. m - 1 \in P
  BY <1>2, <1>4
<1> QED BY <1>3, <1>4, <1>5

(* Sequences of terms, of which no set is known.                           *)
IsSeq(q) == Len(q) \in Nat /\ q = [n \in 1..Len(q) |-> q[n]]

Joined(w, q, r) ==
  /\ IsSeq(w) /\ Len(w) = Len(q) + Len(r)
  /\ \A n \in 1..Len(q) : w[n] = q[n]
  /\ \A n \in 1..Len(r) : w[Len(q) + n] = r[n]

LEMMA TermsConcat ==
  ASSUME NEW q, NEW r, IsSeq(q), IsSeq(r)
  PROVE  Joined(q \o r, q, r)
<1> DEFINE U == {q[n] : n \in 1..Len(q)} \cup {r[n] : n \in 1..Len(r)}
<1>1. q \in Seq(U) /\ r \in Seq(U)
  <2>1. q \in [1..Len(q) -> U] /\ r \in [1..Len(r) -> U]
    BY DEF IsSeq
  <2>2. Len(q) \in Nat /\ Len(r) \in Nat
    BY DEF IsSeq
  <2> HIDE DEF U
  <2> QED BY <2>1, <2>2
<1> HIDE DEF U
<1>2. q \o r \in Seq(U)
  BY <1>1
<1>3. /\ Len(q \o r) = Len(q) + Len(r)
      /\ \A n \in 1..Len(q) : (q \o r)[n] = q[n]
      /\ \A n \in 1..Len(r) : (q \o r)[Len(q) + n] = r[n]
  BY <1>1
<1>4. IsSeq(q \o r)
  BY <1>2, LenProperties DEF IsSeq
<1> QED BY <1>3, <1>4 DEF Joined

(* Quotient and remainder are the only ones.                               *)
LEMMA DivUnique ==
  ASSUME NEW e \in Nat \ {0}, NEW q \in Nat, NEW r \in 0..(e - 1), NEW x, x = e * q + r
  PROVE  x \div e = q /\ x % e = r
<1>1. x \in Nat /\ x = q * e + r
  OBVIOUS
<1>2. x \div e = q
  BY <1>1
<1>3. x % e = r
  BY <1>1
<1> QED BY <1>2, <1>3

LEMMA SmallDiv ==
  ASSUME NEW e \in Nat \ {0}, NEW w \in 0..(e - 1)
  PROVE  w \div e = 0 /\ w % e = w
OBVIOUS

LEMMA NextMultiple ==
  ASSUME NEW e \in Nat, NEW q \in Nat
  PROVE  e * q \in Nat /\ e * (q + 1) = e * q + e
OBVIOUS

-----------------------------------------------------------------------------
(* randombytes.  What has been counted has been written, of C; a call of   *)
(* C++ writes everything at once.                                          *)
Buffered(t) ==
  /\ at[t] \in 0..Length
  /\ DOMAIN output[t] = 0..Length
  /\ output[t][Length] = "old"
  /\ variant \notin Random!Cpp =>
       /\ ~refused[t]
       /\ \A x \in 0..(at[t] - 1) : output[t][x] = "random"
       /\ call[t] = "returned" => at[t] = Length
  /\ variant \in Random!Cpp /\ call[t] = "returned" /\ ~refused[t] =>
       \A x \in 0..(Length - 1) : output[t][x] = "random"

RandomInv ==
  /\ DOMAIN call = Threads /\ DOMAIN at = Threads
  /\ DOMAIN output = Threads /\ DOMAIN refused = Threads
  /\ \A t \in Threads : Buffered(t)

LEMMA RandomInit == Random!Init => RandomInv
<1> SUFFICES ASSUME Random!Init PROVE RandomInv
  OBVIOUS
<1>1. Length \in Nat
  BY StreamsOfThisSize DEF Random!RandomAssumption
<1>2. ASSUME NEW t \in Threads PROVE Buffered(t)
  <2>1. /\ at[t] = 0 /\ output[t] = [x \in 0..Length |-> "old"] /\ ~refused[t] /\ call[t] = "idle"
    BY DEF Random!Init
  <2> QED BY <1>1, <2>1 DEF Buffered
<1>3. /\ DOMAIN call = Threads /\ DOMAIN at = Threads
      /\ DOMAIN output = Threads /\ DOMAIN refused = Threads
  BY DEF Random!Init
<1> QED BY <1>2, <1>3 DEF RandomInv

(* A thread of which nothing changes.                                      *)
LEMMA OtherThread ==
  ASSUME NEW u \in Threads, Buffered(u), UNCHANGED variant, at'[u] = at[u],
         output'[u] = output[u], call'[u] = call[u], refused'[u] = refused[u]
  PROVE  Buffered(u)'
BY DEF Buffered

(* A step of thread t that goes on without the buffer.                     *)
LEMMA QuietStep ==
  ASSUME RandomInv, NEW t \in Threads, NEW to, to # "returned",
         call' = [call EXCEPT ![t] = to], UNCHANGED << variant, at, output, refused >>
  PROVE  RandomInv'
<1>1. ASSUME NEW u \in Threads PROVE Buffered(u)'
  <2>1. Buffered(u) /\ call'[u] = IF u = t THEN to ELSE call[u]
    BY DEF RandomInv
  <2>2. CASE u # t
    BY <2>1, <2>2, OtherThread
  <2>3. CASE u = t
    BY <2>1, <2>3 DEF Buffered
  <2> QED BY <2>2, <2>3
<1> QED BY <1>1 DEF RandomInv

(* The system stores more bytes behind those that are there.               *)
LEMMA FillStep ==
  ASSUME RandomInv, NEW t \in Threads, NEW k \in Nat, k <= Length - at[t],
         variant \notin Random!Cpp, call' = [call EXCEPT ![t] = "fill"],
         output' = [output EXCEPT ![t] = Random!Written(@, at[t], k, "random")],
         at' = [at EXCEPT ![t] = @ + k], UNCHANGED << variant, refused >>
  PROVE  RandomInv'
<1>1. Length \in Nat
  BY StreamsOfThisSize DEF Random!RandomAssumption
<1>2. ASSUME NEW u \in Threads PROVE Buffered(u)'
  <2>1. /\ Buffered(u)
        /\ call'[u] = IF u = t THEN "fill" ELSE call[u]
        /\ at'[u] = IF u = t THEN at[t] + k ELSE at[u]
        /\ output'[u] = IF u = t THEN Random!Written(output[t], at[t], k, "random") ELSE output[u]
    BY DEF RandomInv
  <2>2. CASE u # t
    BY <2>1, <2>2, OtherThread
  <2>3. CASE u = t
    <3>1. at[t] \in 0..Length /\ output[t][Length] = "old" /\ ~refused[t]
          /\ \A x \in 0..(at[t] - 1) : output[t][x] = "random"
      BY <2>1, <2>3 DEF Buffered
    <3>2. /\ at'[t] \in 0..Length /\ at'[t] = at[t] + k
          /\ output'[t] = [x \in 0..Length |-> IF x >= at[t] /\ x < at[t] + k
                                               THEN "random" ELSE output[t][x]]
      BY <1>1, <2>1, <2>3, <3>1 DEF Random!Written
    <3>3. output'[t][Length] = "old"
      BY <1>1, <3>1, <3>2
    <3>4. ASSUME NEW x \in 0..(at'[t] - 1) PROVE output'[t][x] = "random"
      <4>1. x \in 0..Length /\ x < at[t] + k
        BY <1>1, <3>1, <3>2
      <4>2. x < at[t] => output[t][x] = "random"
        BY <3>1, <4>1
      <4>3. x < at[t] \/ (x >= at[t] /\ x < at[t] + k)
        BY <1>1, <3>1, <4>1
      <4> QED BY <3>2, <4>1, <4>2, <4>3
    <3>5. DOMAIN output'[t] = 0..Length
      BY <3>2
    <3> QED BY <2>1, <2>3, <3>1, <3>2, <3>3, <3>4, <3>5 DEF Buffered
  <2> QED BY <2>2, <2>3
<1> QED BY <1>2 DEF RandomInv

(* A call that returns, of C, has counted all its bytes.                   *)
LEMMA ReturnStep ==
  ASSUME RandomInv, NEW t \in Threads, at[t] = Length, variant \notin Random!Cpp,
         call' = [call EXCEPT ![t] = "returned"], UNCHANGED << variant, at, output, refused >>
  PROVE  RandomInv'
<1>1. ASSUME NEW u \in Threads PROVE Buffered(u)'
  <2>1. Buffered(u) /\ call'[u] = IF u = t THEN "returned" ELSE call[u]
    BY DEF RandomInv
  <2>2. CASE u # t
    BY <2>1, <2>2, OtherThread
  <2>3. CASE u = t
    BY <2>1, <2>3 DEF Buffered
  <2> QED BY <2>2, <2>3
<1> QED BY <1>1 DEF RandomInv

(* A call of C++ stores everything at once, and may have been refused.     *)
LEMMA CppStep ==
  ASSUME RandomInv, NEW t \in Threads, variant \in Random!Cpp, NEW b, NEW failed,
         DOMAIN b = 0..Length, b[Length] = "old",
         ~failed => \A x \in 0..(Length - 1) : b[x] = "random",
         call' = [call EXCEPT ![t] = "returned"], output' = [output EXCEPT ![t] = b],
         refused' = [refused EXCEPT ![t] = failed], UNCHANGED << variant, at >>
  PROVE  RandomInv'
<1>1. ASSUME NEW u \in Threads PROVE Buffered(u)'
  <2>1. /\ Buffered(u)
        /\ call'[u] = IF u = t THEN "returned" ELSE call[u]
        /\ output'[u] = IF u = t THEN b ELSE output[u]
        /\ refused'[u] = IF u = t THEN failed ELSE refused[u]
    BY DEF RandomInv
  <2>2. CASE u # t
    BY <2>1, <2>2, OtherThread
  <2>3. CASE u = t
    BY <2>1, <2>3 DEF Buffered
  <2> QED BY <2>2, <2>3
<1> QED BY <1>1 DEF RandomInv

LEMMA RandomStep == RandomInv /\ Random!Next => RandomInv'
<1> SUFFICES ASSUME RandomInv, NEW t \in Threads,
                    Random!Call(t) \/ Random!Goes(t) \/ Random!Fails(t)
             PROVE  RandomInv'
  BY DEF Random!Next
<1>1. Length \in Nat /\ MaxChunk \in Nat \ {0} /\ Buffered(t) /\ at[t] \in 0..Length
  BY StreamsOfThisSize DEF Random!RandomAssumption, RandomInv, Buffered
<1>2. CASE Random!Call(t)
  <2>1. Random!FirstStep # "returned"
    BY DEF Random!FirstStep
  <2> QED BY <1>2, <2>1, QuietStep DEF Random!Call, Random!Goto
<1>3. CASE \/ Random!FileIsOpen(t) \/ Random!Open(t) \/ Random!Opened(t)
           \/ Random!OpenAgain(t) \/ Random!NotInterrupted(t) \/ Random!OpenOrAbort(t)
           \/ Random!ReadOfNoFile(t) \/ Random!Acquire(t)
           \/ Random!OpenInterrupted(t) \/ Random!OpenFails(t) \/ Random!Interrupted(t)
           \/ Random!FillFails(t) \/ Random!AcquireFails(t)
  <2>1. PICK to \in {"open", "opening", "EINTR", "other", "retest", "fill", "acquire"} :
          call' = [call EXCEPT ![t] = to] /\ UNCHANGED << variant, at, output, refused >>
    <3>1. CASE Random!FileIsOpen(t) \/ Random!Open(t) \/ Random!Opened(t)
               \/ Random!OpenAgain(t) \/ Random!NotInterrupted(t) \/ Random!OpenOrAbort(t)
               \/ Random!OpenInterrupted(t) \/ Random!OpenFails(t)
      BY <3>1 DEF Random!FileIsOpen, Random!Open, Random!Opened, Random!OpenAgain,
                  Random!NotInterrupted, Random!OpenOrAbort, Random!OpenInterrupted,
                  Random!OpenFails, Random!Goto
    <3>2. CASE Random!ReadOfNoFile(t) \/ Random!Acquire(t) \/ Random!Interrupted(t)
               \/ Random!FillFails(t) \/ Random!AcquireFails(t)
      BY <3>2 DEF Random!ReadOfNoFile, Random!Acquire, Random!Interrupted,
                  Random!FillFails, Random!AcquireFails, Random!Goto
    <3> QED BY <1>3, <3>1, <3>2
  <2> QED BY <2>1, QuietStep
<1>4. CASE \E k \in 1..Length : Random!Fill(t, k)
  <2>1. PICK k \in 1..Length : Random!Fill(t, k)
    BY <1>4
  <2>2. k \in Nat /\ k <= Length - at[t] /\ variant \notin Random!Cpp
    <3>1. variant \in Random!Posix /\ k <= Length - at[t]
      BY <2>1 DEF Random!Fill, Random!Left
    <3>2. variant \notin Random!Cpp
      BY <3>1 DEF Random!Posix, Random!Cpp
    <3> QED BY <1>1, <3>1, <3>2
  <2> QED BY <2>1, <2>2, FillStep DEF Random!Fill, Random!Goto
<1>5. CASE Random!FillChunk(t)
  <2> DEFINE k == IF Random!Left(t) > MaxChunk THEN MaxChunk ELSE Random!Left(t)
  <2>1. k \in Nat /\ k <= Length - at[t] /\ variant \notin Random!Cpp
    BY <1>1, <1>5 DEF Random!FillChunk, Random!Left, Random!Cpp
  <2>2. /\ call' = [call EXCEPT ![t] = "fill"]
        /\ output' = [output EXCEPT ![t] = Random!Written(@, at[t], k, "random")]
        /\ at' = [at EXCEPT ![t] = @ + k] /\ UNCHANGED << variant, refused >>
    BY <1>5 DEF Random!FillChunk, Random!Goto
  <2> HIDE DEF k
  <2> QED BY <2>1, <2>2, FillStep
<1>6. CASE Random!Return(t) \/ Random!Release(t)
  <2>1. /\ at[t] = Length /\ variant \notin Random!Cpp
        /\ call' = [call EXCEPT ![t] = "returned"] /\ UNCHANGED << variant, at, output, refused >>
    <3>1. /\ Length - at[t] = 0 /\ variant \in Random!Posix \cup {"windows"}
          /\ call' = [call EXCEPT ![t] = "returned"]
          /\ UNCHANGED << variant, at, output, refused >>
      BY <1>6 DEF Random!Return, Random!Release, Random!Goto, Random!Left
    <3>2. at[t] = Length
      BY <1>1, <3>1
    <3>3. variant \notin Random!Cpp
      BY <3>1 DEF Random!Posix, Random!Cpp
    <3> QED BY <3>1, <3>2, <3>3
  <2> QED BY <2>1, ReturnStep
<1>7. CASE Random!CppRefused(t)
  <2> DEFINE b == IF variant = "C++ posix" THEN output[t]
                  ELSE Random!Written(output[t], 0, Length, "rand()")
  <2>1. DOMAIN b = 0..Length /\ b[Length] = "old"
    <3>1. DOMAIN output[t] = 0..Length /\ output[t][Length] = "old"
      BY <1>1 DEF Buffered
    <3>2. /\ DOMAIN Random!Written(output[t], 0, Length, "rand()") = 0..Length
          /\ Random!Written(output[t], 0, Length, "rand()")[Length] = "old"
      BY <1>1, <3>1 DEF Random!Written
    <3> QED BY <3>1, <3>2
  <2>2. /\ call' = [call EXCEPT ![t] = "returned"] /\ output' = [output EXCEPT ![t] = b]
        /\ refused' = [refused EXCEPT ![t] = TRUE] /\ UNCHANGED << variant, at >>
        /\ variant \in Random!Cpp
    BY <1>7 DEF Random!CppRefused, Random!Goto
  <2> HIDE DEF b
  <2> QED BY <2>1, <2>2, CppStep
<1>8. CASE \E k \in 0..Length : Random!CppFill(t, k)
  <2>1. PICK k \in 0..Length : Random!CppFill(t, k)
    BY <1>8
  <2> DEFINE b == Random!Written(output[t], 0, k, "random")
             failed == k < Length
  <2>2. DOMAIN b = 0..Length /\ b[Length] = "old"
        /\ (~failed => \A x \in 0..(Length - 1) : b[x] = "random")
    BY <1>1 DEF Random!Written, Buffered
  <2>3. /\ call' = [call EXCEPT ![t] = "returned"] /\ output' = [output EXCEPT ![t] = b]
        /\ refused' = [refused EXCEPT ![t] = failed] /\ UNCHANGED << variant, at >>
        /\ variant \in Random!Cpp
    BY <2>1 DEF Random!CppFill, Random!Goto
  <2> HIDE DEF b, failed
  <2> QED BY <2>2, <2>3, CppStep
<1> QED BY <1>2, <1>3, <1>4, <1>5, <1>6, <1>7, <1>8 DEF Random!Goes, Random!Fails

LEMMA RandomFills == RandomInv => Random!FilledWhenReturned
<1> SUFFICES ASSUME RandomInv, NEW t \in Threads
             PROVE  /\ call[t] = "returned" /\ ~refused[t] /\ ~aborted =>
                         \A x \in 0..(Length - 1) : output[t][x] = "random"
                    /\ variant \notin Random!Cpp => ~refused[t]
                    /\ output[t][Length] = "old"
  BY DEF Random!FilledWhenReturned
<1> QED BY DEF RandomInv, Buffered

-----------------------------------------------------------------------------
(* The sponge.  A state is permuted with more and more added to it; the    *)
(* function that says so exists for any sequence A of what is added.       *)
Permuted(f, base, A, B, k) ==
  f = [l \in 0..k |-> IF l = 0 THEN base
                      ELSE Permute(IF l \in B THEN [f[l - 1] EXCEPT !.added = A[l]] ELSE f[l - 1])]

LEMMA PermutedUnique ==
  ASSUME NEW base, NEW A, NEW B, NEW f, NEW g, NEW k \in Nat, NEW l \in Nat,
         Permuted(f, base, A, B, k), Permuted(g, base, A, B, l)
  PROVE  \A m \in Nat : m <= k /\ m <= l => f[m] = g[m]
<1> DEFINE T == {m \in Nat : m <= k /\ m <= l /\ f[m] # g[m]}
<1>1. SUFFICES ASSUME T # {} PROVE FALSE
  OBVIOUS
<1>2. PICK m \in T : \A x \in T : m <= x
  BY <1>1, LeastNatural
<1>3. m \in 0..k /\ m \in 0..l /\ f[m] # g[m]
  OBVIOUS
<1>4. /\ f[m] = IF m = 0 THEN base
                ELSE Permute(IF m \in B THEN [f[m - 1] EXCEPT !.added = A[m]] ELSE f[m - 1])
      /\ g[m] = IF m = 0 THEN base
                ELSE Permute(IF m \in B THEN [g[m - 1] EXCEPT !.added = A[m]] ELSE g[m - 1])
  BY <1>3, Zenon DEF Permuted
<1>5. m # 0
  BY <1>3, <1>4
<1>6. m - 1 \in Nat /\ m - 1 <= k /\ m - 1 <= l /\ ~ (m <= m - 1)
  BY <1>3, <1>5
<1>7. f[m - 1] = g[m - 1]
  BY <1>2, <1>6
<1> QED BY <1>3, <1>4, <1>5, <1>7, Zenon

LEMMA PermutedExists ==
  ASSUME NEW base, NEW A, NEW B
  PROVE  \A k \in Nat : \E f : Permuted(f, base, A, B, k)
<1> DEFINE T == {k \in Nat : ~ \E f : Permuted(f, base, A, B, k)}
<1>1. SUFFICES ASSUME T # {} PROVE FALSE
  OBVIOUS
<1>2. PICK k \in T : \A x \in T : k <= x
  BY <1>1, LeastNatural
<1>3. CASE k = 0
  <2> DEFINE f == [l \in 0..0 |-> base]
  <2>1. f = [l \in 0..0 |-> IF l = 0 THEN base
                      ELSE Permute(IF l \in B THEN [f[l - 1] EXCEPT !.added = A[l]] ELSE f[l - 1])]
    OBVIOUS
  <2>2. Permuted(f, base, A, B, 0)
    BY <2>1, Zenon DEF Permuted
  <2> QED BY <1>3, <2>2
<1>4. CASE k # 0
  <2>1. k - 1 \in Nat /\ k - 1 \notin T /\ (k - 1) + 1 = k
    BY <1>2, <1>4
  <2>2. PICK f : Permuted(f, base, A, B, k - 1)
    BY <2>1
  <2> DEFINE v == Permute(IF k \in B THEN [f[k - 1] EXCEPT !.added = A[k]] ELSE f[k - 1])
             g == [l \in 0..k |-> IF l = k THEN v ELSE f[l]]
  <2>3. ASSUME NEW l \in 0..k
        PROVE  g[l] = IF l = 0 THEN base
                      ELSE Permute(IF l \in B THEN [g[l - 1] EXCEPT !.added = A[l]] ELSE g[l - 1])
    <3>1. l # 0 => l - 1 \in 0..k /\ l - 1 # k
      BY <2>1
    <3>2. l # 0 => g[l - 1] = f[l - 1]
      BY <3>1
    <3>3. CASE l = k
      <4>1. g[l] = v
        BY <3>3
      <4> QED BY <1>4, <3>2, <3>3, <4>1
    <3>4. CASE l # k
      <4>1. l \in 0..(k - 1) /\ g[l] = f[l]
        BY <2>1, <3>4
      <4>2. f[l] = IF l = 0 THEN base
                   ELSE Permute(IF l \in B THEN [f[l - 1] EXCEPT !.added = A[l]] ELSE f[l - 1])
        BY <2>2, <4>1, Zenon DEF Permuted
      <4> QED BY <3>2, <4>1, <4>2
    <3> QED BY <3>3, <3>4
  <2>4. g = [l \in 0..k |-> g[l]]
    OBVIOUS
  <2> HIDE DEF g
  <2>5. Permuted(g, base, A, B, k)
    BY <2>3, <2>4 DEF Permuted
  <2> QED BY <2>5
<1> QED BY <1>3, <1>4

Forever(f, base, A, B) ==
  f = [l \in Nat |-> IF l = 0 THEN base
                     ELSE Permute(IF l \in B THEN [f[l - 1] EXCEPT !.added = A[l]] ELSE f[l - 1])]

LEMMA PermutedForever ==
  ASSUME NEW base, NEW A, NEW B
  PROVE  \E f : Forever(f, base, A, B)
<1> DEFINE G(k) == CHOOSE f : Permuted(f, base, A, B, k)
           F == [l \in Nat |-> G(l)[l]]
<1>1. \A k \in Nat : Permuted(G(k), base, A, B, k)
  BY PermutedExists
<1> HIDE DEF G
<1>2. ASSUME NEW l \in Nat
      PROVE  F[l] = IF l = 0 THEN base
                    ELSE Permute(IF l \in B THEN [F[l - 1] EXCEPT !.added = A[l]] ELSE F[l - 1])
  <2>1. Permuted(G(l), base, A, B, l) /\ l \in 0..l /\ F[l] = G(l)[l]
    BY <1>1
  <2>2. G(l)[l] = IF l = 0 THEN base
          ELSE Permute(IF l \in B THEN [G(l)[l - 1] EXCEPT !.added = A[l]] ELSE G(l)[l - 1])
    BY <2>1, Zenon DEF Permuted
  <2>3. l # 0 => G(l)[l - 1] = F[l - 1]
    <3>1. SUFFICES ASSUME l # 0 PROVE G(l)[l - 1] = G(l - 1)[l - 1]
      OBVIOUS
    <3>2. l - 1 \in Nat /\ l - 1 <= l /\ l - 1 <= l - 1
      BY <3>1
    <3>3. Permuted(G(l - 1), base, A, B, l - 1)
      BY <1>1, <3>2
    <3> QED BY <2>1, <3>2, <3>3, PermutedUnique
  <2> HIDE DEF F
  <2> QED BY <2>1, <2>2, <2>3
<1>3. F = [l \in Nat |-> F[l]]
  OBVIOUS
<1> HIDE DEF F
<1>4. Forever(F, base, A, B)
  BY <1>2, <1>3 DEF Forever
<1> QED BY <1>4

(* The state after q whole blocks of the message; with r more bytes; and   *)
(* with the padding of domain p behind these.                              *)
Whole[l \in Nat] ==
  IF l = 0 THEN Zero
  ELSE Permute([Whole[l - 1] EXCEPT !.added = [x \in Place |-> {Rate * (l - 1) + x}]])

Part(q, r) ==
  [permuted |-> Whole[q].permuted,
   added |-> [x \in Place |-> IF x < r THEN {Rate * q + x} ELSE {}]]

Final(q, r, p) ==
  [permuted |-> Whole[q].permuted,
   added |-> [x \in Place |-> (IF x < r THEN {Rate * q + x} ELSE {})
                                \cup (IF x = r THEN {<< "domain", p >>} ELSE {})
                                \cup (IF x = Rate - 1 THEN {<< "end" >>} ELSE {})]]

LEMMA WholeEquation ==
  \A l \in Nat : Whole[l] =
    IF l = 0 THEN Zero
    ELSE Permute([Whole[l - 1] EXCEPT !.added = [x \in Place |-> {Rate * (l - 1) + x}]])
<1> DEFINE A == [l \in Nat |-> [x \in Place |-> {Rate * (l - 1) + x}]]
<1>1. PICK f : Forever(f, Zero, A, Nat)
  <2> HIDE DEF A
  <2> QED BY PermutedForever
<1>2. f = [l \in Nat |->
            IF l = 0 THEN Zero
            ELSE Permute([f[l - 1] EXCEPT !.added = [x \in Place |-> {Rate * (l - 1) + x}]])]
  <2>1. ASSUME NEW l \in Nat
        PROVE  f[l] = IF l = 0 THEN Zero
                ELSE Permute([f[l - 1] EXCEPT !.added = [x \in Place |-> {Rate * (l - 1) + x}]])
    <3>1. f[l] = IF l = 0 THEN Zero
                 ELSE Permute(IF l \in Nat THEN [f[l - 1] EXCEPT !.added = A[l]] ELSE f[l - 1])
      BY <1>1, Zenon DEF Forever
    <3>2. A[l] = [x \in Place |-> {Rate * (l - 1) + x}]
      OBVIOUS
    <3> HIDE DEF A
    <3> QED BY <3>1, <3>2, Zenon
  <2>2. f = [l \in Nat |-> f[l]]
    BY <1>1, Zenon DEF Forever
  <2> QED BY <2>1, <2>2, Zenon
<1>3. Whole = [l \in Nat |->
                IF l = 0 THEN Zero
                ELSE Permute([Whole[l - 1] EXCEPT
                                !.added = [x \in Place |-> {Rate * (l - 1) + x}]])]
  BY <1>2 DEF Whole
<1> QED BY <1>3, Zenon

LEMMA WholeShape ==
  \A l \in Nat : Whole[l] = [permuted |-> Whole[l].permuted, added |-> Nothing]
<1> SUFFICES ASSUME NEW l \in Nat
             PROVE  Whole[l] = [permuted |-> Whole[l].permuted, added |-> Nothing]
  OBVIOUS
<1>1. PICK v : Whole[l] = [permuted |-> v, added |-> Nothing]
  <2>1. CASE l = 0
    BY <2>1, WholeEquation DEF Zero
  <2>2. CASE l # 0
    BY <2>2, WholeEquation DEF Permute
  <2> QED BY <2>1, <2>2
<1> QED BY <1>1

LEMMA WholeGrows ==
  ASSUME NEW q \in Nat
  PROVE  /\ Part(0, 0) = Zero
         /\ Whole[q] = Part(q, 0)
         /\ Part(q + 1, 0) = Permute(Part(q, Rate))
<1>0. Rate \in Nat \ {0}
  BY RateAssumption
<1>1. \A k \in Nat : Whole[k] = Part(k, 0)
  <2>1. [x \in Place |-> IF x < 0 THEN {Rate * q + x} ELSE {}] = Nothing
    BY <1>0 DEF Nothing, Place
  <2>2. \A k \in Nat : [x \in Place |-> IF x < 0 THEN {Rate * k + x} ELSE {}] = Nothing
    BY <1>0 DEF Nothing, Place
  <2> QED BY <2>2, WholeShape DEF Part
<1>2. Whole[0] = Zero
  BY WholeEquation
<1>3. Whole[q + 1] = Permute([Whole[q] EXCEPT !.added = [x \in Place |-> {Rate * q + x}]])
  <2>1. q + 1 \in Nat /\ q + 1 # 0 /\ (q + 1) - 1 = q
    OBVIOUS
  <2> QED BY <2>1, WholeEquation, Zenon
<1>5. 0 \in Nat /\ q + 1 \in Nat
  OBVIOUS
<1>4. [Whole[q] EXCEPT !.added = [x \in Place |-> {Rate * q + x}]] = Part(q, Rate)
  <2>1. [x \in Place |-> {Rate * q + x}] = [x \in Place |-> IF x < Rate THEN {Rate * q + x} ELSE {}]
    BY <1>0 DEF Place
  <2>2. Whole[q] = [permuted |-> Whole[q].permuted, added |-> Nothing]
    BY WholeShape
  <2> QED BY <2>1, <2>2 DEF Part
<1>6. Part(q + 1, 0) = Permute(Part(q, Rate))
  BY <1>1, <1>3, <1>4, <1>5, Zenon
<1> QED BY <1>1, <1>2, <1>5, <1>6, Zenon

(* Exclusive or with bytes of the message, and with the padding.           *)
LEMMA MessageAdded ==
  ASSUME NEW q \in Nat, NEW r \in Nat, NEW k \in Nat, r + k <= Rate
  PROVE  XorMessage(Part(q, r), r, Rate * q + r, k) = Part(q, r + k)
<1> DEFINE e == Rate * q
           old == [x \in Place |-> IF x < r THEN {e + x} ELSE {}]
           new == [x \in Place |-> IF x \in r..(r + k - 1)
                     THEN (old[x] \ {(e + r) + x - r}) \cup ({(e + r) + x - r} \ old[x])
                     ELSE old[x]]
<1>0. Rate \in Nat \ {0} /\ e \in Nat
  BY RateAssumption, NextMultiple
<1>1. Part(q, r) = [permuted |-> Whole[q].permuted, added |-> old]
  BY DEF Part
<1>2. XorMessage(Part(q, r), r, e + r, k) = [permuted |-> Whole[q].permuted, added |-> new]
  <2> HIDE DEF e
  <2>1. Part(q, r).added = old
    BY <1>1
  <2>2. XorMessage(Part(q, r), r, e + r, k) = [Part(q, r) EXCEPT !.added = new]
    <3> HIDE DEF old
    <3> QED BY <2>1, Zenon DEF XorMessage, new
  <2> HIDE DEF old, new
  <2> QED BY <1>1, <2>2
<1> HIDE DEF e
<1>3. ASSUME NEW x \in Place
      PROVE  new[x] = IF x < r + k THEN {e + x} ELSE {}
  <2>0. x \in Nat
    BY <1>0 DEF Place
  <2>1. old[x] = IF x < r THEN {e + x} ELSE {}
    OBVIOUS
  <2>2. (e + r) + x - r = e + x
    BY <1>0, <2>0
  <2>3. new[x] = IF x \in r..(r + k - 1)
                 THEN (old[x] \ {(e + r) + x - r}) \cup ({(e + r) + x - r} \ old[x]) ELSE old[x]
    OBVIOUS
  <2> HIDE DEF old, new
  <2>4. CASE x < r
    <3>1. x \notin r..(r + k - 1) /\ x < r + k
      BY <1>0, <2>0, <2>4
    <3> QED BY <2>1, <2>3, <2>4, <3>1
  <2>5. CASE x >= r /\ x < r + k
    <3>1. x \in r..(r + k - 1) /\ ~ (x < r)
      BY <1>0, <2>0, <2>5
    <3>2. old[x] = {}
      BY <2>1, <3>1
    <3>3. new[x] = {e + x}
      BY <2>2, <2>3, <3>1, <3>2
    <3> QED BY <2>5, <3>3
  <2>6. CASE ~ (x < r + k)
    <3>1. x \notin r..(r + k - 1) /\ ~ (x < r)
      BY <1>0, <2>0, <2>6
    <3> QED BY <2>1, <2>3, <2>6, <3>1
  <2> QED BY <2>0, <2>4, <2>5, <2>6
<1>4. new = [x \in Place |-> IF x < r + k THEN {e + x} ELSE {}]
  <2>1. new = [x \in Place |-> new[x]]
    OBVIOUS
  <2> HIDE DEF new
  <2> QED BY <1>3, <2>1
<1> HIDE DEF new, old
<1> QED BY <1>2, <1>4 DEF Part, e

LEMMA PaddingAdded ==
  ASSUME NEW q \in Nat, NEW r \in 0..(Rate - 1), NEW p
  PROVE  XorByte(XorByte(Part(q, r), r, << "domain", p >>), Rate - 1, << "end" >>) = Final(q, r, p)
<1> DEFINE e == Rate * q
           old == [x \in Place |-> IF x < r THEN {e + x} ELSE {}]
           mid == [x \in Place |-> IF x = r THEN {<< "domain", p >>} ELSE old[x]]
           new == [x \in Place |-> IF x = Rate - 1 THEN mid[x] \cup {<< "end" >>} ELSE mid[x]]
<1>0. Rate \in Nat \ {0} /\ e \in Nat /\ r \in Place /\ Rate - 1 \in Place
      /\ \A x \in Place : x \in Nat
  <2>1. Rate \in Nat \ {0} /\ e \in Nat
    BY RateAssumption, NextMultiple
  <2> HIDE DEF e
  <2> QED BY <2>1 DEF Place
<1> HIDE DEF e
<1>1. old[r] = {} /\ (Rate - 1 # r => old[Rate - 1] = {})
  BY <1>0
<1>2. XorByte(Part(q, r), r, << "domain", p >>)
        = [permuted |-> Whole[q].permuted, added |-> mid]
  <2>1. Part(q, r) = [permuted |-> Whole[q].permuted, added |-> old]
    BY DEF Part, e
  <2>2. [old EXCEPT ![r] = {<< "domain", p >>}] = mid
    BY <1>0
  <2>3. XorByte(Part(q, r), r, << "domain", p >>)
          = [Part(q, r) EXCEPT !.added = [old EXCEPT ![r] = {<< "domain", p >>}]]
    <3>1. << "domain", p >> \notin old[r] /\ old[r] \cup {<< "domain", p >>} = {<< "domain", p >>}
      BY <1>1
    <3>2. Part(q, r).added = old
      BY <2>1
    <3> HIDE DEF old, mid
    <3> QED BY <3>1, <3>2 DEF XorByte
  <2> HIDE DEF old, mid
  <2> QED BY <2>1, <2>2, <2>3
<1>3. << "end" >> \notin mid[Rate - 1]
  <2>1. << "end" >> # << "domain", p >>
    <3>1. Len(<< "end" >>) = 1 /\ Len(<< "domain", p >>) = 2
      OBVIOUS
    <3> QED BY <3>1
  <2>2. mid[Rate - 1] = IF Rate - 1 = r THEN {<< "domain", p >>} ELSE {}
    BY <1>0, <1>1
  <2> HIDE DEF mid
  <2> QED BY <2>1, <2>2
<1>4. XorByte([permuted |-> Whole[q].permuted, added |-> mid], Rate - 1, << "end" >>)
        = [permuted |-> Whole[q].permuted, added |-> new]
  <2>1. new = [mid EXCEPT ![Rate - 1] = mid[Rate - 1] \cup {<< "end" >>}]
    BY <1>0
  <2> HIDE DEF mid, new, old
  <2> QED BY <1>3, <2>1 DEF XorByte
<1>5. ASSUME NEW x \in Place
      PROVE  new[x] = (IF x < r THEN {e + x} ELSE {})
                        \cup (IF x = r THEN {<< "domain", p >>} ELSE {})
                        \cup (IF x = Rate - 1 THEN {<< "end" >>} ELSE {})
  BY <1>0
<1>6. new = [x \in Place |-> new[x]]
  OBVIOUS
<1> HIDE DEF new, mid, old
<1>7. new = [x \in Place |-> (IF x < r THEN {e + x} ELSE {})
                              \cup (IF x = r THEN {<< "domain", p >>} ELSE {})
                              \cup (IF x = Rate - 1 THEN {<< "end" >>} ELSE {})]
  BY <1>5, <1>6
<1> QED BY <1>2, <1>4, <1>7 DEF Final, e

(* The states that Xof names: those of the message and of the output.      *)
LEMMA SameStates ==
  /\ Stream!Place = Place /\ Stream!Nothing = Nothing /\ Stream!Zero = Zero
  /\ \A st : Stream!Permute(st) = Permute(st)
  /\ \A st, x : Stream!ByteOf(st, x) = ByteOf(st, x)
BY DEF Stream!Place, Stream!Nothing, Stream!Zero, Stream!Permute, Stream!ByteOf,
       Place, Nothing, Zero, Permute, ByteOf

Taken(m, p) ==
  LET absorbed[l \in Nat] ==
        IF l = 0 THEN Stream!Zero
        ELSE Stream!Permute([absorbed[l - 1] EXCEPT
               !.added = [i_ \in Stream!Place |-> Stream!Padded(m, p, Rate * (l - 1) + i_)]])
  IN  absorbed

Given(m, p) ==
  LET given[l \in Nat] ==
        IF l = 0 THEN Taken(m, p)[Stream!Blocks(m)] ELSE Stream!Permute(given[l - 1])
  IN  given

LEMMA BlockStateIs ==
  ASSUME NEW m, NEW p, NEW b
  PROVE  Stream!BlockState(m, p, b) = Given(m, p)[b]
BY Zenon DEF Stream!BlockState, Given, Taken

Takes(f, m, p) ==
  \A l \in Nat : f[l] =
    IF l = 0 THEN Zero
    ELSE Permute([f[l - 1] EXCEPT
                    !.added = [x \in Place |-> Stream!Padded(m, p, Rate * (l - 1) + x)]])

LEMMA TakenEquation ==
  ASSUME NEW m, NEW p
  PROVE  Takes(Taken(m, p), m, p)
<1> DEFINE A == [l \in Nat |-> [x \in Place |-> Stream!Padded(m, p, Rate * (l - 1) + x)]]
<1>1. PICK f : Forever(f, Zero, A, Nat)
  <2> HIDE DEF A
  <2> QED BY PermutedForever
<1>2. f = [l \in Nat |->
            IF l = 0 THEN Stream!Zero
            ELSE Stream!Permute([f[l - 1] EXCEPT
                   !.added = [x \in Stream!Place |-> Stream!Padded(m, p, Rate * (l - 1) + x)]])]
  <2>1. ASSUME NEW l \in Nat
        PROVE  f[l] = IF l = 0 THEN Stream!Zero
                      ELSE Stream!Permute([f[l - 1] EXCEPT
                   !.added = [x \in Stream!Place |-> Stream!Padded(m, p, Rate * (l - 1) + x)]])
    <3>1. f[l] = IF l = 0 THEN Zero
                 ELSE Permute(IF l \in Nat THEN [f[l - 1] EXCEPT !.added = A[l]] ELSE f[l - 1])
      BY <1>1, Zenon DEF Forever
    <3>2. A[l] = [x \in Stream!Place |-> Stream!Padded(m, p, Rate * (l - 1) + x)]
      BY SameStates, Zenon
    <3> HIDE DEF A
    <3> QED BY <3>1, <3>2, SameStates, Zenon
  <2>2. f = [l \in Nat |-> f[l]]
    BY <1>1, Zenon DEF Forever
  <2> QED BY <2>1, <2>2, Zenon
<1>3. Taken(m, p) = [l \in Nat |->
            IF l = 0 THEN Stream!Zero
            ELSE Stream!Permute([Taken(m, p)[l - 1] EXCEPT
                   !.added = [x \in Stream!Place |-> Stream!Padded(m, p, Rate * (l - 1) + x)]])]
  BY <1>2 DEF Taken
<1>4. ASSUME NEW l \in Nat
      PROVE  Taken(m, p)[l] = IF l = 0 THEN Stream!Zero
                      ELSE Stream!Permute([Taken(m, p)[l - 1] EXCEPT
                   !.added = [x \in Stream!Place |-> Stream!Padded(m, p, Rate * (l - 1) + x)]])
  BY <1>3, Zenon
<1> QED BY <1>4, SameStates, Zenon DEF Takes

LEMMA GivenEquation ==
  ASSUME NEW m, NEW p
  PROVE  \A l \in Nat : Given(m, p)[l] = IF l = 0 THEN Taken(m, p)[Stream!Blocks(m)]
                                         ELSE Permute(Given(m, p)[l - 1])
<1> DEFINE base == Taken(m, p)[Stream!Blocks(m)]
<1>1. PICK f : Forever(f, base, << >>, {})
  BY PermutedForever
<1> HIDE DEF base
<1>2. f = [l \in Nat |-> IF l = 0 THEN base ELSE Stream!Permute(f[l - 1])]
  <2>1. ASSUME NEW l \in Nat PROVE f[l] = IF l = 0 THEN base ELSE Stream!Permute(f[l - 1])
    <3>1. f[l] = IF l = 0 THEN base
                 ELSE Permute(IF l \in {} THEN [f[l - 1] EXCEPT !.added = << >>[l]] ELSE f[l - 1])
      BY <1>1, Zenon DEF Forever
    <3> QED BY <3>1, SameStates, Zenon
  <2>2. f = [l \in Nat |-> f[l]]
    BY <1>1, Zenon DEF Forever
  <2> QED BY <2>1, <2>2, Zenon
<1>3. Given(m, p) = [l \in Nat |-> IF l = 0 THEN base ELSE Stream!Permute(Given(m, p)[l - 1])]
  BY <1>2 DEF Given, base
<1>4. ASSUME NEW l \in Nat
      PROVE  Given(m, p)[l] = IF l = 0 THEN base ELSE Stream!Permute(Given(m, p)[l - 1])
  BY <1>3, Zenon
<1> QED BY <1>4, SameStates, Zenon DEF base

EachPermuted(m, p) ==
  \A b \in Nat : Stream!BlockState(m, p, b + 1) = Permute(Stream!BlockState(m, p, b))

(* The first block of output is read from the padded message, permuted.    *)
LEMMA OutputStates ==
  ASSUME NEW q \in Nat, NEW r \in 0..(Rate - 1), NEW p, NEW m, m = Rate * q + r
  PROVE  /\ Stream!BlockState(m, p, 0) = Permute(Final(q, r, p))
         /\ EachPermuted(m, p)
<1> DEFINE H == Taken(m, p)
<1>0. Rate \in Nat \ {0} /\ r \in Nat /\ r < Rate /\ Rate * q \in Nat
      /\ \A x \in Place : x \in Nat /\ x < Rate
  <2>1. Rate \in Nat \ {0} /\ Rate * q \in Nat
    BY RateAssumption, NextMultiple
  <2> QED BY <2>1 DEF Place
<1>1. m \div Rate = q
  BY <1>0, DivUnique
<1>2. Stream!Blocks(m) = q + 1
  BY <1>1 DEF Stream!Blocks
<1>3. ASSUME NEW k \in Nat, k < q, NEW x \in Place
      PROVE  Stream!Padded(m, p, Rate * k + x) = {Rate * k + x}
  <2>1. Rate * (k + 1) = Rate * k + Rate /\ Rate * k \in Nat
    BY <1>0, NextMultiple
  <2>2. Rate * (k + 1) <= Rate * q
    <3>1. PICK y \in Nat : q = (k + 1) + y
      <4>1. q - (k + 1) \in Nat /\ q = (k + 1) + (q - (k + 1))
        BY <1>3
      <4> QED BY <4>1
    <3>2. Rate * q = Rate * (k + 1) + Rate * y /\ Rate * y \in Nat /\ Rate * (k + 1) \in Nat
      BY <1>0, <3>1
    <3> QED BY <3>2
  <2>3. Rate * (q + 1) = Rate * q + Rate
    BY <1>0, NextMultiple
  <2> DEFINE u == Rate * k
             v == Rate * q
             w == Rate * (q + 1)
             i_ == u + x
  <2>4. u \in Nat /\ v \in Nat /\ u + Rate <= v /\ w = v + Rate /\ m = v + r /\ x \in Nat /\ x < Rate
    BY <1>0, <2>1, <2>2, <2>3
  <2>5. Stream!Padded(m, p, i_) = (IF i_ < m THEN {i_} ELSE {})
             \cup (IF i_ = m THEN {<< "domain", p >>} ELSE {})
             \cup (IF i_ = w - 1 THEN {<< "end" >>} ELSE {})
    BY <1>2 DEF Stream!Padded
  <2> HIDE DEF u, v, w
  <2>6. i_ < m /\ i_ # m /\ i_ # w - 1
    BY <1>0, <2>4
  <2> HIDE DEF i_
  <2>7. Stream!Padded(m, p, i_) = {i_}
    BY <2>5, <2>6
  <2> QED BY <2>7 DEF i_, u
<1>10. Takes(H, m, p)
  BY TakenEquation
<1> HIDE DEF H
<1> DEFINE T == {k \in 0..q : H[k] = Whole[k]}
<1>4. \A k \in 0..q : k \in T
  <2>1. 0 \in T
    <3>1. 0 \in Nat /\ 0 \in 0..q
      OBVIOUS
    <3>2. H[0] = Zero /\ Whole[0] = Zero
      BY <1>10, <3>1, WholeEquation, Zenon DEF Takes
    <3> QED BY <3>1, <3>2
  <2>2. ASSUME NEW k \in Nat, k < q, k \in T PROVE k + 1 \in T
    <3>1. k + 1 \in 0..q /\ k + 1 \in Nat /\ k + 1 # 0 /\ (k + 1) - 1 = k
      BY <2>2
    <3>2. H[k + 1] = Permute([H[k] EXCEPT
                        !.added = [x \in Place |-> Stream!Padded(m, p, Rate * k + x)]])
      BY <1>10, <3>1, Zenon DEF Takes
    <3>3. Whole[k + 1] = Permute([Whole[k] EXCEPT !.added = [x \in Place |-> {Rate * k + x}]])
      BY <3>1, WholeEquation, Zenon
    <3>4. [x \in Place |-> Stream!Padded(m, p, Rate * k + x)] = [x \in Place |-> {Rate * k + x}]
      BY <1>3, <2>2
    <3>5. H[k] = Whole[k]
      BY <2>2
    <3> QED BY <3>1, <3>2, <3>3, <3>4, <3>5
  <2> HIDE DEF T
  <2> QED BY <2>1, <2>2, UpToInduction
<1>5. H[q + 1] = Permute([Whole[q] EXCEPT
                   !.added = [x \in Place |-> Stream!Padded(m, p, Rate * q + x)]])
  <2>1. q + 1 \in Nat /\ q + 1 # 0 /\ (q + 1) - 1 = q /\ q \in 0..q
    OBVIOUS
  <2>2. H[q + 1] = Permute([H[q] EXCEPT
                      !.added = [x \in Place |-> Stream!Padded(m, p, Rate * q + x)]])
    BY <1>10, <2>1, Zenon DEF Takes
  <2>3. H[q] = Whole[q]
    BY <1>4, <2>1
  <2> QED BY <2>2, <2>3, Zenon
<1>6. ASSUME NEW x \in Place
      PROVE  Stream!Padded(m, p, Rate * q + x)
               = (IF x < r THEN {Rate * q + x} ELSE {})
                   \cup (IF x = r THEN {<< "domain", p >>} ELSE {})
                   \cup (IF x = Rate - 1 THEN {<< "end" >>} ELSE {})
  <2> DEFINE v == Rate * q
             w == Rate * (q + 1)
             i_ == v + x
  <2>1. v \in Nat /\ w = v + Rate /\ m = v + r /\ x \in Nat
    BY <1>0, NextMultiple
  <2>2. Stream!Padded(m, p, i_) = (IF i_ < m THEN {i_} ELSE {})
             \cup (IF i_ = m THEN {<< "domain", p >>} ELSE {})
             \cup (IF i_ = w - 1 THEN {<< "end" >>} ELSE {})
    BY <1>2 DEF Stream!Padded
  <2> HIDE DEF v, w
  <2>3. (i_ < m <=> x < r) /\ (i_ = m <=> x = r) /\ (i_ = w - 1 <=> x = Rate - 1)
    BY <1>0, <2>1
  <2> HIDE DEF i_
  <2>4. Stream!Padded(m, p, i_) = (IF x < r THEN {i_} ELSE {})
             \cup (IF x = r THEN {<< "domain", p >>} ELSE {})
             \cup (IF x = Rate - 1 THEN {<< "end" >>} ELSE {})
    BY <2>2, <2>3
  <2> QED BY <2>4 DEF i_, v
<1>7. [Whole[q] EXCEPT !.added = [x \in Place |-> Stream!Padded(m, p, Rate * q + x)]]
        = Final(q, r, p)
  <2> DEFINE block == [x \in Place |-> Stream!Padded(m, p, Rate * q + x)]
  <2>1. block = [x \in Place |-> (IF x < r THEN {Rate * q + x} ELSE {})
                                   \cup (IF x = r THEN {<< "domain", p >>} ELSE {})
                                   \cup (IF x = Rate - 1 THEN {<< "end" >>} ELSE {})]
    BY <1>6
  <2>2. Whole[q] = [permuted |-> Whole[q].permuted, added |-> Nothing]
    BY WholeShape
  <2> HIDE DEF block
  <2>3. [Whole[q] EXCEPT !.added = block] = [permuted |-> Whole[q].permuted, added |-> block]
    BY <2>2
  <2> QED BY <2>1, <2>3 DEF Final, block
<1>8. Given(m, p)[0] = H[q + 1]
  BY <1>2, GivenEquation DEF H
<1>9. ASSUME NEW b \in Nat PROVE Given(m, p)[b + 1] = Permute(Given(m, p)[b])
  <2>1. b + 1 \in Nat /\ b + 1 # 0 /\ (b + 1) - 1 = b
    OBVIOUS
  <2> QED BY <2>1, GivenEquation, Zenon
<1> QED BY <1>5, <1>7, <1>8, <1>9, BlockStateIs DEF EachPermuted

-----------------------------------------------------------------------------
(* The inductive invariant of both sponges.  As long as the domain is not  *)
(* set the state st holds the first c bytes of the message, p of them in   *)
(* the block that is not permuted yet.                                     *)
Holds(st, p, c) ==
  /\ p \in 0..(Rate - 1)
  /\ \E q \in Nat : c = Rate * q + p /\ st = Part(q, p)

HoldsBlocks(st, c) == \E q \in Nat : c = Rate * q /\ st = Part(q, 0)

Absorbing(c, left, m) == c \in Nat /\ left \in Nat /\ c + left = m

(* The state of C is permuted when it is read the next time, that of C++   *)
(* at the end of the message.                                              *)
StateBefore(m, p, b) ==
  IF b = 0 THEN Final(m \div Rate, m % Rate, p) ELSE Stream!BlockState(m, p, b - 1)

SqueezedC(st, place_, size, m, p) ==
  /\ place_ \in 1..Rate
  /\ \E b \in Nat : size + Rate = Rate * b + place_ /\ st = StateBefore(m, p, b)

SqueezedCpp(st, place_, size, m, p) ==
  /\ place_ \in 0..Rate
  /\ \E b \in Nat : size = Rate * b + place_ /\ st = Stream!BlockState(m, p, b)

OutRight(bytes, m, p) ==
  /\ IsSeq(bytes)
  /\ \A x \in 1..Len(bytes) :
       bytes[x] = ByteOf(Stream!BlockState(m, p, (x - 1) \div Rate), (x - 1) % Rate)

InvC ==
  /\ domain = "none" =>
       /\ out = << >>
       /\ \/ pc = "idle" /\ Holds(s, pos, msg)
          \/ pc = "absorb" /\ Absorbing(in, inlen, msg) /\ Holds(s, pos, in)
          \/ pc \in {"once", "sha3"} /\ Absorbing(in, inlen, msg) /\ HoldsBlocks(s, in)
  /\ domain # "none" =>
       \/ pc = "hash" /\ out = << >> /\ s = StateBefore(msg, domain, 0)
       \/ pc = "end"
       \/ /\ pc \in {"idle", "squeeze", "blocks"}
          /\ SqueezedC(s, pos, Len(out), msg, domain)
          /\ pc = "blocks" => pos = Rate

InvCpp ==
  /\ pc # "idle" /\ inlen \in Nat
  /\ domain = "none" =>
       /\ out = << >> /\ Holds(s, pos, msg)
       /\ pc = "new" \/ (pc = "absorb" /\ mode \in {ShakeDomain, Sha3Domain})
  /\ domain # "none" =>
       \/ pc = "hash" /\ out = << >> /\ s = Stream!BlockState(msg, domain, 0)
       \/ pc = "end"
       \/ pc \in {"ready", "squeeze"} /\ SqueezedCpp(s, pos, Len(out), msg, domain)

SpongeInv ==
  /\ msg \in Nat /\ outlen \in Nat /\ OutRight(out, msg, domain)
  /\ part = "C" => InvC
  /\ part = "C++" => InvCpp
  /\ part \notin {"C", "C++"} => pc = "idle" /\ domain = "none" /\ msg = 0 /\ out = << >> /\ pos = 0

(* More bytes of the message, inside a block and up to its end.            *)
LEMMA BytesHeld ==
  ASSUME NEW st, NEW p, NEW c \in Nat, Holds(st, p, c), NEW k \in Nat, p + k < Rate
  PROVE  Holds(XorMessage(st, p, c, k), p + k, c + k)
<1>1. PICK q \in Nat : c = Rate * q + p /\ st = Part(q, p)
  BY DEF Holds
<1>2. Rate \in Nat \ {0} /\ Rate * q \in Nat /\ p \in Nat
  BY RateAssumption, NextMultiple DEF Holds
<1>3. XorMessage(st, p, c, k) = Part(q, p + k)
  BY <1>1, <1>2, MessageAdded
<1>4. c + k = Rate * q + (p + k) /\ p + k \in 0..(Rate - 1)
  BY <1>1, <1>2
<1> QED BY <1>3, <1>4 DEF Holds

LEMMA BlockHeld ==
  ASSUME NEW st, NEW p, NEW c \in Nat, Holds(st, p, c)
  PROVE  LET after == Permute(XorMessage(st, p, c, Rate - p))
         IN  Holds(after, 0, c + (Rate - p)) /\ HoldsBlocks(after, c + (Rate - p))
<1>1. PICK q \in Nat : c = Rate * q + p /\ st = Part(q, p)
  BY DEF Holds
<1>2. Rate \in Nat \ {0} /\ Rate * q \in Nat /\ p \in 0..(Rate - 1)
  BY RateAssumption, NextMultiple DEF Holds
<1>3. Rate - p \in Nat /\ p + (Rate - p) = Rate /\ p \in Nat
  BY <1>2
<1>4. XorMessage(st, p, c, Rate - p) = Part(q, Rate)
  BY <1>1, <1>3, MessageAdded
<1>5. Permute(XorMessage(st, p, c, Rate - p)) = Part(q + 1, 0)
  BY <1>4, WholeGrows
<1>6. c + (Rate - p) = Rate * (q + 1) /\ Rate * (q + 1) = Rate * (q + 1) + 0
  <2>1. Rate * (q + 1) = Rate * q + Rate /\ Rate * (q + 1) \in Nat
    BY <1>2, NextMultiple
  <2>2. c + (Rate - p) = Rate * q + Rate
    BY <1>1, <1>2
  <2> QED BY <2>1, <2>2
<1>7. q + 1 \in Nat /\ 0 \in 0..(Rate - 1)
  BY <1>2
<1> QED BY <1>5, <1>6, <1>7 DEF Holds, HoldsBlocks

LEMMA BlocksAreHeld ==
  ASSUME NEW st, NEW c, HoldsBlocks(st, c)
  PROVE  Holds(st, 0, c)
<1>1. PICK q \in Nat : c = Rate * q /\ st = Part(q, 0)
  BY DEF HoldsBlocks
<1>2. Rate * q = Rate * q + 0 /\ 0 \in 0..(Rate - 1)
  BY RateAssumption, NextMultiple
<1> QED BY <1>1, <1>2 DEF Holds

(* The padding.                                                            *)
BlocksFollow(m, d) ==
  \A b \in Nat :
    /\ Permute(StateBefore(m, d, b)) = StateBefore(m, d, b + 1)
    /\ StateBefore(m, d, b + 1) = Stream!BlockState(m, d, b)
    /\ Stream!BlockState(m, d, b + 1) = Permute(Stream!BlockState(m, d, b))

LEMMA MessagePadded ==
  ASSUME NEW st, NEW p, NEW c, Holds(st, p, c), NEW d
  PROVE  /\ XorByte(XorByte(st, p, << "domain", d >>), Rate - 1, << "end" >>) = StateBefore(c, d, 0)
         /\ BlocksFollow(c, d)
         /\ c \in Nat /\ c % Rate = p
<1>1. PICK q \in Nat : c = Rate * q + p /\ st = Part(q, p)
  BY DEF Holds
<1>2. Rate \in Nat \ {0} /\ p \in 0..(Rate - 1) /\ Rate * q \in Nat
  BY RateAssumption, NextMultiple DEF Holds
<1>3. c \div Rate = q /\ c % Rate = p
  BY <1>1, <1>2, DivUnique, Zenon
<1>31. c \in Nat
  BY <1>1, <1>2
<1>4. XorByte(XorByte(st, p, << "domain", d >>), Rate - 1, << "end" >>) = Final(q, p, d)
  BY <1>1, <1>2, PaddingAdded
<1>5. StateBefore(c, d, 0) = Final(q, p, d)
  BY <1>3 DEF StateBefore
<1>6. /\ Stream!BlockState(c, d, 0) = Permute(Final(q, p, d))
      /\ \A b \in Nat : Stream!BlockState(c, d, b + 1) = Permute(Stream!BlockState(c, d, b))
  <2>1. \A b \in Nat : b + 1 \in Nat
    OBVIOUS
  <2>2. Stream!BlockState(c, d, 0) = Permute(Final(q, p, d))
    BY <1>1, <1>2, OutputStates
  <2>3. EachPermuted(c, d)
    BY <1>1, <1>2, OutputStates
  <2> QED BY <2>2, <2>3, Zenon DEF EachPermuted
<1>7. ASSUME NEW b \in Nat
      PROVE  StateBefore(c, d, b + 1) = Stream!BlockState(c, d, b)
  <2>1. b + 1 # 0 /\ (b + 1) - 1 = b
    OBVIOUS
  <2> QED BY <2>1 DEF StateBefore
<1>8. ASSUME NEW b \in Nat
      PROVE  Permute(StateBefore(c, d, b)) = StateBefore(c, d, b + 1)
  <2>1. CASE b = 0
    <3>1. StateBefore(c, d, 0 + 1) = Stream!BlockState(c, d, 0)
      BY <1>7, <2>1
    <3> QED BY <1>5, <1>6, <2>1, <3>1
  <2>2. CASE b # 0
    <3>1. b - 1 \in Nat /\ (b - 1) + 1 = b
      BY <2>2
    <3>2. StateBefore(c, d, b) = Stream!BlockState(c, d, b - 1)
      BY <2>2 DEF StateBefore
    <3>3. Stream!BlockState(c, d, b) = Permute(Stream!BlockState(c, d, b - 1))
      <4>1. Stream!BlockState(c, d, (b - 1) + 1) = Permute(Stream!BlockState(c, d, b - 1))
        BY <1>6, <3>1, Zenon
      <4> QED BY <3>1, <4>1
    <3> QED BY <1>7, <3>2, <3>3
  <2> QED BY <2>1, <2>2
<1>9. BlocksFollow(c, d)
  BY <1>6, <1>7, <1>8, Zenon DEF BlocksFollow
<1> QED BY <1>3, <1>31, <1>4, <1>5, <1>9

(* Any number of bytes is held by some state.                              *)
LEMMA OutputAdvances ==
  ASSUME NEW c \in Nat, NEW d
  PROVE  BlocksFollow(c, d)
<1>1. Rate \in Nat \ {0}
  BY RateAssumption
<1>2. c \div Rate \in Nat /\ c % Rate \in 0..(Rate - 1) /\ c = Rate * (c \div Rate) + (c % Rate)
  BY <1>1
<1>3. Holds(Part(c \div Rate, c % Rate), c % Rate, c)
  BY <1>2, Zenon DEF Holds
<1> QED BY <1>3, MessagePadded, Zenon

OfBlock(size, b, from) == size = Rate * b + from

(* Bytes of the right state behind the right bytes.                        *)
LEMMA BytesFollow ==
  ASSUME NEW bytes, NEW m, NEW d, OutRight(bytes, m, d), NEW b \in Nat,
         NEW from \in Nat, NEW k \in Nat, from + k <= Rate, OfBlock(Len(bytes), b, from)
  PROVE  /\ OutRight(bytes \o Bytes(Stream!BlockState(m, d, b), from, k), m, d)
         /\ Len(bytes \o Bytes(Stream!BlockState(m, d, b), from, k)) = Len(bytes) + k
<1> DEFINE st == Stream!BlockState(m, d, b)
           piece == Bytes(st, from, k)
           more == bytes \o piece
<1>1. Rate \in Nat \ {0} /\ Rate * b \in Nat
  BY RateAssumption, NextMultiple
<1>2. IsSeq(bytes) /\ Len(bytes) \in Nat
  BY DEF OutRight, IsSeq
<1>3. Len(piece) = k /\ IsSeq(piece) /\ \A x \in 1..k : piece[x] = ByteOf(st, from + x - 1)
  BY DEF Bytes, IsSeq
<1> HIDE DEF st, piece
<1>4. /\ IsSeq(more) /\ Len(more) = Len(bytes) + k
      /\ \A x \in 1..Len(bytes) : more[x] = bytes[x]
      /\ \A x \in 1..k : more[Len(bytes) + x] = piece[x]
  <2>1. Joined(bytes \o piece, bytes, piece)
    BY <1>2, <1>3, TermsConcat
  <2> QED BY <1>3, <2>1, Zenon DEF more, Joined
<1> HIDE DEF more
<1>5. ASSUME NEW x \in 1..Len(more)
      PROVE  more[x] = ByteOf(Stream!BlockState(m, d, (x - 1) \div Rate), (x - 1) % Rate)
  <2>1. CASE x \in 1..Len(bytes)
    BY <1>4, <2>1 DEF OutRight
  <2>2. CASE x \notin 1..Len(bytes)
    <3>1. PICK y \in 1..k : Len(bytes) + y = x
      <4>1. x - Len(bytes) \in 1..k /\ Len(bytes) + (x - Len(bytes)) = x
        BY <1>2, <1>4, <2>2
      <4> QED BY <4>1
    <3>2. PICK z \in 0..(Rate - 1) : z = from + y - 1
      BY <1>1, <3>1
    <3>3. x - 1 = Rate * b + z
      <4> DEFINE e == Rate * b
      <4>1. e \in Nat /\ Len(bytes) = e + from /\ from \in Nat
        BY <1>1 DEF OfBlock
      <4> HIDE DEF e
      <4>2. x - 1 = e + z
        BY <1>2, <3>1, <3>2, <4>1
      <4> QED BY <4>2 DEF e
    <3>4. (x - 1) \div Rate = b /\ (x - 1) % Rate = z
      <4>1. PICK w : w = x - 1
        OBVIOUS
      <4>2. w = Rate * b + z
        BY <3>3, <4>1
      <4>3. z \in 0..(Rate - 1) /\ Rate \in Nat \ {0} /\ b \in Nat
        BY <1>1
      <4>4. w \div Rate = b /\ w % Rate = z
        BY <4>2, <4>3, DivUnique, Zenon
      <4> QED BY <4>1, <4>4
    <3>5. more[x] = ByteOf(st, z)
      BY <1>3, <1>4, <3>1, <3>2
    <3> QED BY <3>4, <3>5 DEF st
  <2> QED BY <2>1, <2>2
<1> QED BY <1>4, <1>5 DEF OutRight, more, piece, st

(* The first bytes, of a hash.                                             *)
LEMMA FirstBytesRight ==
  ASSUME NEW m, NEW d, NEW k \in Nat, k <= Rate
  PROVE  OutRight(Bytes(Stream!BlockState(m, d, 0), 0, k), m, d)
<1> DEFINE st == Stream!BlockState(m, d, 0)
           piece == Bytes(st, 0, k)
<1>1. Rate \in Nat \ {0} /\ Rate * 0 = 0
  BY RateAssumption
<1>2. Len(piece) = k /\ IsSeq(piece) /\ \A x \in 1..k : piece[x] = ByteOf(st, 0 + x - 1)
  BY DEF Bytes, IsSeq
<1> HIDE DEF st, piece
<1>3. ASSUME NEW x \in 1..Len(piece)
      PROVE  piece[x] = ByteOf(Stream!BlockState(m, d, (x - 1) \div Rate), (x - 1) % Rate)
  <2>1. PICK w : w = x - 1
    OBVIOUS
  <2>2. w \in 0..(Rate - 1) /\ w = Rate * 0 + w /\ 0 \in Nat /\ w = 0 + x - 1 /\ x \in 1..k
    BY <1>1, <1>2, <2>1
  <2>3. w \div Rate = 0 /\ w % Rate = w
    BY <1>1, <2>2, SmallDiv
  <2>4. piece[x] = ByteOf(st, w)
    BY <1>2, <2>2
  <2>5. (x - 1) \div Rate = 0 /\ (x - 1) % Rate = w
    BY <2>1, <2>3
  <2> QED BY <2>4, <2>5 DEF st
<1> QED BY <1>2, <1>3 DEF OutRight, piece, st

LEMMA NothingRight ==
  ASSUME NEW m, NEW d
  PROVE  OutRight(<< >>, m, d)
BY DEF OutRight, IsSeq

(* The state and place where the next bytes are read, from state st.       *)
Reads(st, p, from, st2) ==
  /\ from = IF p = Rate THEN 0 ELSE p
  /\ st2 = IF p = Rate THEN Permute(st) ELSE st

(* Squeezing more bytes from one state, of C ...                           *)
LEMMA SqueezeC ==
  ASSUME NEW st, NEW p, NEW bytes, NEW m \in Nat, NEW d, NEW k \in Nat \ {0},
         OutRight(bytes, m, d), SqueezedC(st, p, Len(bytes), m, d),
         NEW from, NEW st2, Reads(st, p, from, st2), from + k <= Rate
  PROVE  /\ OutRight(bytes \o Bytes(st2, from, k), m, d)
         /\ Len(bytes \o Bytes(st2, from, k)) = Len(bytes) + k
         /\ SqueezedC(st2, from + k, Len(bytes) + k, m, d)
<1>1. PICK b \in Nat : Len(bytes) + Rate = Rate * b + p /\ st = StateBefore(m, d, b)
  BY DEF SqueezedC
<1>2. Rate \in Nat \ {0} /\ p \in 1..Rate /\ from \in Nat /\ Rate * b \in Nat /\ Len(bytes) \in Nat
      /\ from + k \in 1..Rate
  <2>1. Rate \in Nat \ {0} /\ p \in 1..Rate /\ Len(bytes) \in Nat
    BY RateAssumption DEF SqueezedC, OutRight, IsSeq
  <2>2. Rate * b \in Nat /\ from \in Nat
    BY <2>1, NextMultiple DEF Reads
  <2> QED BY <2>1, <2>2
<1>3. BlocksFollow(m, d)
  BY OutputAdvances
<1>4. CASE p = Rate
  <2>1. st2 = StateBefore(m, d, b + 1) /\ st2 = Stream!BlockState(m, d, b) /\ from = 0
    <3>1. /\ Permute(StateBefore(m, d, b)) = StateBefore(m, d, b + 1)
          /\ StateBefore(m, d, b + 1) = Stream!BlockState(m, d, b)
      BY <1>3, Zenon DEF BlocksFollow
    <3> QED BY <1>1, <1>4, <3>1 DEF Reads
  <2>2. Len(bytes) = Rate * b + from
    BY <1>1, <1>2, <1>4, <2>1
  <2>3. /\ OutRight(bytes \o Bytes(Stream!BlockState(m, d, b), from, k), m, d)
        /\ Len(bytes \o Bytes(Stream!BlockState(m, d, b), from, k)) = Len(bytes) + k
    <3>1. OfBlock(Len(bytes), b, from) /\ from \in Nat /\ k \in Nat /\ from + k <= Rate
      BY <1>2, <2>2 DEF OfBlock
    <3> QED BY <3>1, BytesFollow
  <2>4. (Len(bytes) + k) + Rate = Rate * (b + 1) + (from + k) /\ b + 1 \in Nat
    <3>1. Rate * (b + 1) = Rate * b + Rate
      BY <1>2, NextMultiple
    <3> DEFINE e == Rate * b
               g == Rate * (b + 1)
    <3>2. g = e + Rate /\ e \in Nat /\ Len(bytes) = e + from
      BY <1>2, <2>2, <3>1
    <3> HIDE DEF e, g
    <3>3. (Len(bytes) + k) + Rate = g + (from + k)
      BY <1>2, <3>2
    <3> QED BY <3>3 DEF g
  <2>5. SqueezedC(st2, from + k, Len(bytes) + k, m, d)
    BY <1>2, <2>1, <2>4 DEF SqueezedC
  <2> QED BY <2>1, <2>3, <2>5
<1>5. CASE p # Rate
  <2>1. st2 = st /\ from = p /\ p < Rate
    BY <1>2, <1>5 DEF Reads
  <2>2. b # 0
    <3>1. b = 0 => Rate * b = 0
      BY <1>2
    <3> QED BY <1>1, <1>2, <2>1, <3>1
  <2>3. PICK c \in Nat : b = c + 1
    <3>1. b - 1 \in Nat /\ b = (b - 1) + 1
      BY <2>2
    <3> QED BY <3>1
  <2>4. st2 = Stream!BlockState(m, d, c)
    <3>1. StateBefore(m, d, c + 1) = Stream!BlockState(m, d, c)
      BY <1>3, Zenon DEF BlocksFollow
    <3> QED BY <1>1, <2>1, <2>3, <3>1
  <2>5. Len(bytes) = Rate * c + from
    <3>1. Rate * (c + 1) = Rate * c + Rate /\ Rate * c \in Nat
      BY <1>2, NextMultiple
    <3> QED BY <1>1, <1>2, <2>1, <2>3, <3>1
  <2>6. /\ OutRight(bytes \o Bytes(Stream!BlockState(m, d, c), from, k), m, d)
        /\ Len(bytes \o Bytes(Stream!BlockState(m, d, c), from, k)) = Len(bytes) + k
    <3>1. OfBlock(Len(bytes), c, from) /\ from \in Nat /\ k \in Nat /\ from + k <= Rate
      BY <1>2, <2>5 DEF OfBlock
    <3> QED BY <3>1, BytesFollow
  <2>7. (Len(bytes) + k) + Rate = Rate * b + (from + k)
    <3> DEFINE e == Rate * b
    <3>1. e \in Nat /\ Len(bytes) + Rate = e + from
      BY <1>1, <1>2, <2>1
    <3> HIDE DEF e
    <3>2. (Len(bytes) + k) + Rate = e + (from + k)
      BY <1>2, <3>1
    <3> QED BY <3>2 DEF e
  <2>8. SqueezedC(st2, from + k, Len(bytes) + k, m, d)
    BY <1>1, <1>2, <2>1, <2>7 DEF SqueezedC
  <2> QED BY <2>4, <2>6, <2>8
<1> QED BY <1>4, <1>5

(* ... and of C++.                                                         *)
LEMMA SqueezeCpp ==
  ASSUME NEW st, NEW p, NEW bytes, NEW m \in Nat, NEW d, NEW k \in Nat,
         OutRight(bytes, m, d), SqueezedCpp(st, p, Len(bytes), m, d),
         NEW from, NEW st2, Reads(st, p, from, st2), from + k <= Rate
  PROVE  /\ OutRight(bytes \o Bytes(st2, from, k), m, d)
         /\ Len(bytes \o Bytes(st2, from, k)) = Len(bytes) + k
         /\ SqueezedCpp(st2, from + k, Len(bytes) + k, m, d)
<1>1. PICK b \in Nat : Len(bytes) = Rate * b + p /\ st = Stream!BlockState(m, d, b)
  BY DEF SqueezedCpp
<1>2. Rate \in Nat \ {0} /\ p \in 0..Rate /\ from \in Nat /\ Rate * b \in Nat /\ Len(bytes) \in Nat
      /\ from + k \in 0..Rate
  <2>1. Rate \in Nat \ {0} /\ p \in 0..Rate /\ Len(bytes) \in Nat
    BY RateAssumption DEF SqueezedCpp, OutRight, IsSeq
  <2>2. Rate * b \in Nat /\ from \in Nat
    BY <2>1, NextMultiple DEF Reads
  <2> QED BY <2>1, <2>2
<1>3. PICK c \in Nat : Len(bytes) = Rate * c + from /\ st2 = Stream!BlockState(m, d, c)
  <2>1. CASE p = Rate
    <3>1. Stream!BlockState(m, d, b + 1) = Permute(Stream!BlockState(m, d, b))
      BY OutputAdvances, Zenon DEF BlocksFollow
    <3>2. Rate * (b + 1) = Rate * b + Rate /\ b + 1 \in Nat
      BY <1>2, NextMultiple
    <3>3. Len(bytes) = Rate * (b + 1) + from
      BY <1>1, <1>2, <2>1, <3>2 DEF Reads
    <3> QED BY <1>1, <2>1, <3>1, <3>2, <3>3 DEF Reads
  <2>2. CASE p # Rate
    BY <1>1, <2>2 DEF Reads
  <2> QED BY <2>1, <2>2
<1>4. /\ OutRight(bytes \o Bytes(Stream!BlockState(m, d, c), from, k), m, d)
      /\ Len(bytes \o Bytes(Stream!BlockState(m, d, c), from, k)) = Len(bytes) + k
  <2>1. OfBlock(Len(bytes), c, from) /\ from \in Nat /\ k \in Nat /\ from + k <= Rate
    BY <1>2, <1>3 DEF OfBlock
  <2> QED BY <2>1, BytesFollow
<1>5. Len(bytes) + k = Rate * c + (from + k)
  <2> DEFINE e == Rate * c
  <2>1. e \in Nat /\ Len(bytes) = e + from
    BY <1>2, <1>3, NextMultiple
  <2> HIDE DEF e
  <2>2. Len(bytes) + k = e + (from + k)
    BY <1>2, <2>1
  <2> QED BY <2>2 DEF e
<1>6. SqueezedCpp(st2, from + k, Len(bytes) + k, m, d)
  BY <1>2, <1>3, <1>5 DEF SqueezedCpp
<1> QED BY <1>3, <1>4, <1>6

(* The last words of a block, and lengths in words.                        *)
LEMMA WholeWords ==
  /\ WordEnd((Rate \div Word) - 1) = Rate - 1
  /\ WordEnd((Rate - 1) \div Word) = Rate - 1
  /\ Word * (HashBytes \div Word) = HashBytes
  /\ Word * (Rate \div Word) = Rate
<1>0. Rate \in Nat \ {0} /\ Word \in Nat \ {0} /\ Rate % Word = 0
      /\ HashBytes \in Nat /\ HashBytes % Word = 0
  BY RateAssumption, SpongeAssumption
<1>1. Word * (HashBytes \div Word) = HashBytes
  BY <1>0
<1>2. Word * (Rate \div Word) = Rate
  BY <1>0
<1>3. PICK q \in Nat : q = Rate \div Word
  BY <1>0
<1>4. q # 0
  BY <1>0, <1>2, <1>3
<1>5. PICK c \in Nat : q = c + 1
  <2>1. q - 1 \in Nat /\ q = (q - 1) + 1
    BY <1>4
  <2> QED BY <2>1
<1>6. Word * (c + 1) = Word * c + Word /\ Word * c \in Nat
  BY <1>0, NextMultiple
<1>7. Rate - 1 = Word * c + (Word - 1) /\ Word - 1 \in 0..(Word - 1)
  <2>1. Rate = Word * c + Word
    BY <1>2, <1>3, <1>5, <1>6
  <2> DEFINE e == Word * c
  <2>2. Rate = e + Word /\ e \in Nat
    BY <1>6, <2>1
  <2> HIDE DEF e
  <2>3. Rate - 1 = e + (Word - 1) /\ Word - 1 \in 0..(Word - 1)
    BY <1>0, <2>2
  <2> QED BY <2>3 DEF e
<1>8. (Rate - 1) \div Word = c
  <2>1. PICK w : w = Rate - 1
    OBVIOUS
  <2>2. PICK r \in 0..(Word - 1) : r = Word - 1
    BY <1>7
  <2>3. w = Word * c + r
    BY <1>7, <2>1, <2>2
  <2>4. w \div Word = c
    BY <1>0, <2>3, DivUnique
  <2> QED BY <2>1, <2>4
<1>9. WordEnd(c) = Rate - 1
  <2> DEFINE e == Word * c
  <2>1. e \in Nat /\ Rate - 1 = e + (Word - 1)
    BY <1>6, <1>7
  <2> HIDE DEF e
  <2>2. e + Word - 1 = Rate - 1
    BY <1>0, <2>1
  <2> QED BY <2>2 DEF WordEnd, e
<1>10. (Rate \div Word) - 1 = c
  BY <1>3, <1>5
<1> QED BY <1>1, <1>2, <1>8, <1>9, <1>10

(* A padded message is about to be permuted, at the end of its block.      *)
LEMMA FirstReady ==
  ASSUME NEW m, NEW d
  PROVE  SqueezedC(StateBefore(m, d, 0), Rate, 0, m, d)
<1>1. 0 \in Nat /\ 0 + Rate = Rate * 0 + Rate /\ Rate \in 1..Rate
  BY RateAssumption
<1> QED BY <1>1, Zenon DEF SqueezedC

(* What a step keeps besides the invariant of its program.                 *)
Kept ==
  /\ msg \in Nat /\ outlen \in Nat /\ OutRight(out, msg, domain)

AbsorbsMore ==
  /\ domain = "none" /\ out = << >> /\ out' = << >>
  /\ msg' \in Nat /\ msg' >= msg /\ outlen' \in Nat
  /\ domain' \in {"none", ShakeDomain, Sha3Domain}

LEMMA AbsorbPromised ==
  ASSUME AbsorbsMore
  PROVE  Kept' /\ [Stream!Next]_Stream!vars
<1>1. OutRight(out, msg, domain)'
  BY NothingRight DEF AbsorbsMore
<1>2. Stream!Absorb
  BY DEF AbsorbsMore, Stream!Absorb
<1> QED BY <1>1, <1>2 DEF AbsorbsMore, Kept, Stream!Next

SqueezesMore ==
  /\ domain # "none" /\ msg \in Nat /\ outlen' \in Nat
  /\ Len(out') >= Len(out) /\ OutRight(out', msg, domain)
  /\ UNCHANGED << msg, domain >>

LEMMA SqueezePromised ==
  ASSUME SqueezesMore
  PROVE  Kept' /\ [Stream!Next]_Stream!vars
<1>1. OutRight(out, msg, domain)'
  BY DEF SqueezesMore
<1>2. DOMAIN out' = 1..Len(out')
  BY <1>1, Zenon DEF OutRight, IsSeq
<1>3. Stream!Squeeze
  <2>1. \A x \in DOMAIN out' :
          out'[x] = Stream!ByteOf(Stream!BlockState(msg, domain, (x - 1) \div Rate), (x - 1) % Rate)
    <3>1. \A x \in 1..Len(out') :
            out'[x] = ByteOf(Stream!BlockState(msg, domain, (x - 1) \div Rate), (x - 1) % Rate)
      BY Zenon DEF SqueezesMore, OutRight
    <3> QED BY <1>2, <3>1, SameStates, Zenon
  <2>2. domain # "none" /\ Len(out') >= Len(out) /\ UNCHANGED << msg, domain >>
    BY DEF SqueezesMore
  <2> QED BY <2>1, <2>2, Zenon DEF Stream!Squeeze
<1> QED BY <1>1, <1>3 DEF SqueezesMore, Kept, Stream!Next

LEMMA NoChangePromised ==
  ASSUME Kept, outlen' \in Nat, UNCHANGED << msg, domain, out >>
  PROVE  Kept' /\ [Stream!Next]_Stream!vars
BY DEF Kept, Stream!vars

-----------------------------------------------------------------------------
(* The steps of fips202.c that absorb ...                                  *)
LEMMA BeginAbsorbKeeps ==
  ASSUME Kept, InvC, BeginAbsorb
  PROVE  InvC' /\ Kept' /\ [Stream!Next]_Stream!vars
<1>1. PICK n \in 0..(MaxMessage - msg) : inlen' = n /\ msg' = msg + n
  BY DEF BeginAbsorb
<1>2. /\ pc = "idle" /\ domain = "none" /\ pc' = "absorb" /\ in' = msg
      /\ UNCHANGED << s, pos, outlen, domain, out >>
  BY DEF BeginAbsorb
<1>3. out = << >> /\ Holds(s, pos, msg) /\ msg \in Nat /\ outlen \in Nat
  BY <1>2 DEF InvC, Kept
<1>4. n \in Nat /\ msg' \in Nat /\ msg' >= msg /\ Absorbing(in', inlen', msg')
  BY <1>1, <1>2, <1>3 DEF Absorbing
<1>5. AbsorbsMore
  BY <1>2, <1>3, <1>4 DEF AbsorbsMore
<1>6. InvC'
  BY <1>2, <1>3, <1>4 DEF InvC
<1> QED BY <1>5, <1>6, AbsorbPromised

LEMMA AbsorbBlockKeeps ==
  ASSUME Kept, InvC, AbsorbBlock
  PROVE  InvC' /\ Kept' /\ [Stream!Next]_Stream!vars
<1>1. /\ pc = "absorb" /\ pos + inlen >= Rate
      /\ s' = Permute(XorMessage(s, pos, in, Rate - pos))
      /\ in' = in + (Rate - pos) /\ inlen' = inlen - (Rate - pos) /\ pos' = 0
      /\ UNCHANGED << pc, outlen, msg, domain, out >>
  BY DEF AbsorbBlock
<1>2. domain = "none" /\ out = << >> /\ Absorbing(in, inlen, msg) /\ Holds(s, pos, in)
  BY <1>1 DEF InvC
<1>3. Rate \in Nat \ {0} /\ pos \in 0..(Rate - 1) /\ in \in Nat /\ inlen \in Nat /\ in + inlen = msg
  BY <1>2, RateAssumption DEF Absorbing, Holds
<1>4. Holds(s', 0, in')
  BY <1>1, <1>2, <1>3, BlockHeld
<1>5. Absorbing(in', inlen', msg')
  BY <1>1, <1>3 DEF Absorbing
<1>6. outlen' \in Nat /\ UNCHANGED << msg, domain, out >>
  BY <1>1 DEF Kept
<1>7. InvC'
  BY <1>1, <1>2, <1>4, <1>5 DEF InvC
<1> QED BY <1>6, <1>7, NoChangePromised

LEMMA AbsorbRestKeeps ==
  ASSUME Kept, InvC, AbsorbRest
  PROVE  InvC' /\ Kept' /\ [Stream!Next]_Stream!vars
<1>1. /\ pc = "absorb" /\ pos + inlen < Rate /\ pc' = "idle"
      /\ s' = XorMessage(s, pos, in, inlen) /\ pos' = pos + inlen
      /\ UNCHANGED << in, inlen, outlen, msg, domain, out >>
  BY DEF AbsorbRest
<1>2. domain = "none" /\ out = << >> /\ Absorbing(in, inlen, msg) /\ Holds(s, pos, in)
  BY <1>1 DEF InvC
<1>3. in \in Nat /\ inlen \in Nat /\ in + inlen = msg
  BY <1>2 DEF Absorbing
<1>4. Holds(XorMessage(s, pos, in, inlen), pos + inlen, in + inlen)
  BY <1>1, <1>2, <1>3, BytesHeld
<1>5. outlen' \in Nat /\ UNCHANGED << msg, domain, out >>
  BY <1>1 DEF Kept
<1>6. InvC'
  BY <1>1, <1>2, <1>3, <1>4 DEF InvC
<1> QED BY <1>5, <1>6, NoChangePromised

LEMMA FinalizeKeeps ==
  ASSUME Kept, InvC, Finalize
  PROVE  InvC' /\ Kept' /\ [Stream!Next]_Stream!vars
<1>1. /\ pc = "idle" /\ domain = "none" /\ pos' = Rate /\ domain' = ShakeDomain
      /\ s' = Pad(s, pos, ShakeDomain, (Rate \div Word) - 1)
      /\ UNCHANGED << pc, in, inlen, outlen, msg, out >>
  BY DEF Finalize
<1>2. out = << >> /\ Holds(s, pos, msg) /\ msg \in Nat /\ outlen \in Nat
  BY <1>1 DEF InvC, Kept
<1>3. s' = XorByte(XorByte(s, pos, << "domain", ShakeDomain >>), Rate - 1, << "end" >>)
  BY <1>1, WholeWords, Zenon DEF Pad
<1>4. s' = StateBefore(msg, ShakeDomain, 0)
  BY <1>2, <1>3, MessagePadded
<1>5. SqueezedC(s', Rate, 0, msg, ShakeDomain)
  BY <1>4, FirstReady
<1>6. AbsorbsMore
  BY <1>1, <1>2 DEF AbsorbsMore
<1>7. InvC'
  BY <1>1, <1>2, <1>5, DomainAssumption DEF InvC
<1> QED BY <1>6, <1>7, AbsorbPromised

LEMMA BeginAbsorbOnceKeeps ==
  ASSUME Kept, InvC, NEW p \in {ShakeDomain, Sha3Domain}, BeginAbsorbOnce(p)
  PROVE  InvC' /\ Kept' /\ [Stream!Next]_Stream!vars
<1>1. PICK n \in 0..MaxMessage : inlen' = n /\ msg' = n
  BY DEF BeginAbsorbOnce
<1>2. /\ pc = "idle" /\ msg = 0 /\ domain = "none" /\ pc' \in {"once", "sha3"}
      /\ in' = 0 /\ s' = Zero /\ UNCHANGED << pos, outlen, domain, out >>
  BY DEF BeginAbsorbOnce
<1>3. out = << >> /\ outlen \in Nat
  BY <1>2 DEF InvC, Kept
<1>4. Absorbing(in', inlen', msg') /\ msg' \in Nat /\ msg' >= msg
  BY <1>1, <1>2 DEF Absorbing
<1>5. HoldsBlocks(Zero, 0)
  <2>1. 0 \in Nat /\ Rate * 0 = 0 /\ Part(0, 0) = Zero
    BY RateAssumption, WholeGrows
  <2> QED BY <2>1 DEF HoldsBlocks
<1>6. AbsorbsMore
  BY <1>2, <1>3, <1>4 DEF AbsorbsMore
<1>7. InvC'
  BY <1>2, <1>3, <1>4, <1>5 DEF InvC
<1> QED BY <1>6, <1>7, AbsorbPromised

LEMMA OnceBlockKeeps ==
  ASSUME Kept, InvC, OnceBlock
  PROVE  InvC' /\ Kept' /\ [Stream!Next]_Stream!vars
<1>1. /\ pc \in {"once", "sha3"} /\ inlen >= Rate
      /\ s' = Permute(XorMessage(s, 0, in, Rate))
      /\ in' = in + Rate /\ inlen' = inlen - Rate
      /\ UNCHANGED << pc, pos, outlen, msg, domain, out >>
  BY DEF OnceBlock
<1>2. domain = "none" /\ out = << >> /\ Absorbing(in, inlen, msg) /\ HoldsBlocks(s, in)
  BY <1>1 DEF InvC
<1>3. Rate \in Nat \ {0} /\ in \in Nat /\ inlen \in Nat /\ in + inlen = msg /\ Rate - 0 = Rate
  BY <1>2, RateAssumption DEF Absorbing
<1>4. HoldsBlocks(s', in')
  <2>1. Holds(s, 0, in)
    BY <1>2, BlocksAreHeld
  <2>2. HoldsBlocks(Permute(XorMessage(s, 0, in, Rate - 0)), in + (Rate - 0))
    BY <1>3, <2>1, BlockHeld
  <2> QED BY <1>1, <1>3, <2>2
<1>5. Absorbing(in', inlen', msg')
  BY <1>1, <1>3 DEF Absorbing
<1>6. outlen' \in Nat /\ UNCHANGED << msg, domain, out >>
  BY <1>1 DEF Kept
<1>7. InvC'
  BY <1>1, <1>2, <1>4, <1>5 DEF InvC
<1> QED BY <1>6, <1>7, NoChangePromised

(* The rest of a message that is absorbed at once, with its padding.       *)
LEMMA RestPadded ==
  ASSUME NEW st, NEW c, NEW n, NEW m, Absorbing(c, n, m), HoldsBlocks(st, c), n < Rate, NEW d
  PROVE  Pad(XorMessage(st, 0, c, n), n, d, (Rate - 1) \div Word) = StateBefore(m, d, 0)
<1>1. c \in Nat /\ n \in Nat /\ c + n = m /\ 0 + n = n
  BY DEF Absorbing
<1>2. Holds(XorMessage(st, 0, c, n), 0 + n, c + n)
  BY <1>1, BlocksAreHeld, BytesHeld
<1>3. Holds(XorMessage(st, 0, c, n), n, m)
  BY <1>1, <1>2
<1> QED BY <1>3, MessagePadded, WholeWords, Zenon DEF Pad

LEMMA OnceRestKeeps ==
  ASSUME Kept, InvC, OnceRest
  PROVE  InvC' /\ Kept' /\ [Stream!Next]_Stream!vars
<1>1. /\ pc = "once" /\ inlen < Rate /\ pc' = "idle" /\ pos' = Rate /\ domain' = ShakeDomain
      /\ s' = Pad(XorMessage(s, 0, in, inlen), inlen, ShakeDomain, (Rate - 1) \div Word)
      /\ UNCHANGED << in, inlen, outlen, msg, out >>
  BY DEF OnceRest
<1>2. domain = "none" /\ out = << >> /\ Absorbing(in, inlen, msg) /\ HoldsBlocks(s, in)
  BY <1>1 DEF InvC
<1>3. s' = StateBefore(msg, ShakeDomain, 0)
  BY <1>1, <1>2, RestPadded
<1>4. SqueezedC(s', Rate, 0, msg, ShakeDomain)
  BY <1>3, FirstReady
<1>5. AbsorbsMore
  BY <1>1, <1>2 DEF AbsorbsMore, Kept
<1>6. InvC'
  BY <1>1, <1>2, <1>4, DomainAssumption DEF InvC
<1> QED BY <1>5, <1>6, AbsorbPromised

LEMMA Sha3RestKeeps ==
  ASSUME Kept, InvC, Sha3Rest
  PROVE  InvC' /\ Kept' /\ [Stream!Next]_Stream!vars
<1>1. /\ pc = "sha3" /\ inlen < Rate /\ pc' = "hash" /\ domain' = Sha3Domain
      /\ s' = Pad(XorMessage(s, 0, in, inlen), inlen, Sha3Domain, (Rate - 1) \div Word)
      /\ UNCHANGED << pos, in, inlen, outlen, msg, out >>
  BY DEF Sha3Rest
<1>2. domain = "none" /\ out = << >> /\ Absorbing(in, inlen, msg) /\ HoldsBlocks(s, in)
  BY <1>1 DEF InvC
<1>3. s' = StateBefore(msg, Sha3Domain, 0)
  BY <1>1, <1>2, RestPadded
<1>5. AbsorbsMore
  BY <1>1, <1>2 DEF AbsorbsMore, Kept
<1>6. InvC'
  BY <1>1, <1>2, <1>3, DomainAssumption DEF InvC
<1> QED BY <1>5, <1>6, AbsorbPromised

(* ... and those that squeeze.                                             *)
LEMMA Sha3OutputKeeps ==
  ASSUME Kept, InvC, Sha3Output
  PROVE  InvC' /\ Kept' /\ [Stream!Next]_Stream!vars
<1>1. /\ pc = "hash" /\ pc' = "end" /\ s' = Permute(s)
      /\ out' = Bytes(s', 0, Word * (HashBytes \div Word))
      /\ UNCHANGED << pos, in, inlen, outlen, msg, domain >>
  BY DEF Sha3Output
<1>2. domain # "none" /\ out = << >> /\ s = StateBefore(msg, domain, 0) /\ msg \in Nat /\ outlen \in Nat
  BY <1>1 DEF InvC, Kept
<1>3. s' = Stream!BlockState(msg, domain, 0)
  <2>1. Permute(StateBefore(msg, domain, 0)) = StateBefore(msg, domain, 0 + 1)
        /\ StateBefore(msg, domain, 0 + 1) = Stream!BlockState(msg, domain, 0)
    <3>1. 0 \in Nat
      OBVIOUS
    <3> QED BY <1>2, <3>1, OutputAdvances, Zenon DEF BlocksFollow
  <2> QED BY <1>1, <1>2, <2>1
<1>4. out' = Bytes(Stream!BlockState(msg, domain, 0), 0, HashBytes)
  BY <1>1, <1>3, WholeWords, Zenon
<1>5. OutRight(out', msg, domain)
  BY <1>4, FirstBytesRight, SpongeAssumption
<1>6. SqueezesMore
  <2>1. Len(out') \in Nat /\ Len(out) = 0
    BY <1>2, <1>5 DEF OutRight, IsSeq
  <2> QED BY <1>1, <1>2, <1>5, <2>1 DEF SqueezesMore
<1>7. InvC'
  BY <1>1, <1>2 DEF InvC
<1> QED BY <1>6, <1>7, SqueezePromised

LEMMA BeginSqueezeKeeps ==
  ASSUME Kept, InvC, BeginSqueeze \/ BeginSqueezeBlocks \/ EndSqueeze
  PROVE  InvC' /\ Kept' /\ [Stream!Next]_Stream!vars
<1>1. /\ pc \in {"idle", "squeeze", "blocks"} /\ pc' \in {"idle", "squeeze", "blocks"}
      /\ pc = "idle" => domain # "none"
      /\ pc' = "blocks" => pos = Rate
      /\ UNCHANGED << s, pos, in, inlen, msg, domain, out >>
  BY DomainAssumption DEF BeginSqueeze, BeginSqueezeBlocks, EndSqueeze
<1>2. outlen' \in Nat
  BY DEF Kept, BeginSqueeze, BeginSqueezeBlocks, EndSqueeze
<1>3. domain # "none" /\ SqueezedC(s, pos, Len(out), msg, domain)
  BY <1>1 DEF InvC
<1>4. InvC'
  BY <1>1, <1>3 DEF InvC
<1> QED BY <1>1, <1>2, <1>4, NoChangePromised

(* A round of squeezing: any number of bytes up to the end of the block.   *)
LEMMA RoundSqueezes ==
  ASSUME Kept, InvC, pc \in {"squeeze", "blocks"}, NEW k \in Nat \ {0},
         NEW from, Reads(s, pos, from, s'), from + k <= Rate,
         out' = out \o Bytes(s', from, k), pos' = from + k, outlen' \in Nat,
         pc = "blocks" => pos' = Rate, UNCHANGED << pc, msg, domain >>
  PROVE  InvC' /\ Kept' /\ [Stream!Next]_Stream!vars
<1>1. domain # "none" /\ SqueezedC(s, pos, Len(out), msg, domain) /\ msg \in Nat
      /\ OutRight(out, msg, domain)
  BY DEF InvC, Kept
<1>2. /\ OutRight(out \o Bytes(s', from, k), msg, domain)
      /\ Len(out \o Bytes(s', from, k)) = Len(out) + k
      /\ SqueezedC(s', from + k, Len(out) + k, msg, domain)
  BY <1>1, SqueezeC
<1>3. OutRight(out', msg, domain) /\ Len(out') = Len(out) + k
      /\ SqueezedC(s', pos', Len(out'), msg, domain)
  BY <1>2
<1>4. SqueezesMore
  <2>1. Len(out) \in Nat
    BY <1>1 DEF OutRight, IsSeq
  <2> QED BY <1>1, <1>3, <2>1 DEF SqueezesMore
<1>5. InvC'
  BY <1>1, <1>3 DEF InvC
<1> QED BY <1>4, <1>5, SqueezePromised

LEMMA SqueezeRoundKeeps ==
  ASSUME Kept, InvC, SqueezeRound
  PROVE  InvC' /\ Kept' /\ [Stream!Next]_Stream!vars
<1> DEFINE from == IF pos = Rate THEN 0 ELSE pos
           k == IF outlen < Rate - from THEN outlen ELSE Rate - from
<1>1. /\ pc = "squeeze" /\ outlen > 0 /\ UNCHANGED << pc, msg, domain >>
      /\ s' = IF pos = Rate THEN Permute(s) ELSE s
      /\ out' = out \o Bytes(s', from, k)
      /\ pos' = from + k /\ outlen' = outlen - k
  BY DEF SqueezeRound
<1>2. SqueezedC(s, pos, Len(out), msg, domain) /\ outlen \in Nat
  BY <1>1 DEF InvC, Kept
<1>3. k \in Nat \ {0} /\ from + k <= Rate /\ outlen' \in Nat
  BY <1>1, <1>2, RateAssumption DEF SqueezedC
<1>4. Reads(s, pos, from, s')
  BY <1>1 DEF Reads
<1> HIDE DEF from, k
<1> QED BY <1>1, <1>3, <1>4, RoundSqueezes

LEMMA SqueezeBlockKeeps ==
  ASSUME Kept, InvC, SqueezeBlock
  PROVE  InvC' /\ Kept' /\ [Stream!Next]_Stream!vars
<1>1. /\ pc = "blocks" /\ outlen > 0 /\ UNCHANGED << pc, pos, msg, domain >>
      /\ s' = Permute(s) /\ out' = out \o Bytes(s', 0, Rate) /\ outlen' = outlen - 1
  BY WholeWords, Zenon DEF SqueezeBlock
<1>2. pos = Rate /\ outlen \in Nat
  BY <1>1 DEF InvC, Kept
<1>3. Rate \in Nat \ {0} /\ 0 + Rate <= Rate /\ outlen' \in Nat /\ pos' = 0 + Rate /\ pos' = Rate
  BY <1>1, <1>2, RateAssumption
<1>4. Reads(s, pos, 0, s')
  BY <1>1, <1>2 DEF Reads
<1> QED BY <1>1, <1>3, <1>4, RoundSqueezes

(* What each step of the sponge of fips202.c keeps and promises.           *)
LEMMA StepC ==
  ASSUME Kept, InvC, Next
  PROVE  InvC' /\ Kept' /\ [Stream!Next]_Stream!vars
BY BeginAbsorbKeeps, AbsorbBlockKeeps, AbsorbRestKeeps, FinalizeKeeps, BeginAbsorbOnceKeeps,
   OnceBlockKeeps, OnceRestKeeps, Sha3RestKeeps, Sha3OutputKeeps, BeginSqueezeKeeps,
   SqueezeRoundKeeps, SqueezeBlockKeeps, Zenon DEF Next

-----------------------------------------------------------------------------
(* The steps of shake.cpp.                                                 *)
LEMMA SameOperators ==
  /\ Cpp!Zero = Zero
  /\ \A st : Cpp!Permute(st) = Permute(st)
  /\ \A st, x, y : Cpp!XorByte(st, x, y) = XorByte(st, x, y)
  /\ \A st, p, c, k : Cpp!XorMessage(st, p, c, k) = XorMessage(st, p, c, k)
  /\ \A st, p, k : Cpp!Bytes(st, p, k) = Bytes(st, p, k)
BY DEF Cpp!Zero, Cpp!Permute, Cpp!XorByte, Cpp!XorMessage, Cpp!Bytes, Cpp!ByteOf,
       Cpp!Nothing, Cpp!Place, Zero, Permute, XorByte, XorMessage, Bytes, ByteOf, Nothing, Place

LEMMA CppBeginAbsorbKeeps ==
  ASSUME Kept, InvCpp, UNCHANGED outlen,
         NEW p \in {ShakeDomain, Sha3Domain}, Cpp!BeginAbsorb(p)
  PROVE  InvCpp' /\ Kept' /\ [Stream!Next]_Stream!vars
<1>1. /\ pc = "new" /\ pc' = "absorb" /\ mode' = p /\ inlen' \in Nat
      /\ UNCHANGED << s, pos, msg, domain, out >>
  BY DEF Cpp!BeginAbsorb
<1>2. domain = "none" /\ out = << >> /\ Holds(s, pos, msg)
  BY <1>1 DEF InvCpp
<1>3. outlen' \in Nat
  BY DEF Kept
<1>4. InvCpp'
  BY <1>1, <1>2 DEF InvCpp
<1> QED BY <1>1, <1>3, <1>4, NoChangePromised

LEMMA CppAbsorbChunkKeeps ==
  ASSUME Kept, InvCpp, UNCHANGED outlen, Cpp!AbsorbChunk
  PROVE  InvCpp' /\ Kept' /\ [Stream!Next]_Stream!vars
<1> DEFINE k == Cpp!Chunk
           added == XorMessage(s, pos, msg, k)
<1>1. /\ pc = "absorb" /\ inlen > 0 /\ UNCHANGED << pc, mode, domain, out >>
      /\ s' = IF pos + k = Rate THEN Permute(added) ELSE added
      /\ pos' = IF pos + k = Rate THEN 0 ELSE pos + k
      /\ msg' = msg + k /\ inlen' = inlen - k
  BY SameOperators, Zenon DEF Cpp!AbsorbChunk
<1>2. /\ domain = "none" /\ out = << >> /\ Holds(s, pos, msg) /\ mode \in {ShakeDomain, Sha3Domain}
      /\ msg \in Nat /\ inlen \in Nat /\ outlen \in Nat
  BY <1>1 DEF InvCpp, Kept
<1>3. pos \in 0..(Rate - 1) /\ Rate \in Nat \ {0}
  BY <1>2, RateAssumption DEF Holds
<1>4. k \in Nat /\ k <= inlen /\ pos + k <= Rate
  BY <1>2, <1>3 DEF Cpp!Chunk
<1> HIDE DEF k
<1>5. Holds(s', pos', msg')
  <2>1. CASE pos + k = Rate
    <3>1. k = Rate - pos
      BY <1>3, <1>4, <2>1
    <3>2. Holds(Permute(XorMessage(s, pos, msg, Rate - pos)), 0, msg + (Rate - pos))
      BY <1>2, BlockHeld
    <3> QED BY <1>1, <2>1, <3>1, <3>2
  <2>2. CASE pos + k # Rate
    <3>1. pos + k < Rate
      BY <1>3, <1>4, <2>2
    <3>2. Holds(XorMessage(s, pos, msg, k), pos + k, msg + k)
      BY <1>2, <1>4, <3>1, BytesHeld
    <3> QED BY <1>1, <2>2, <3>2
  <2> QED BY <2>1, <2>2
<1>6. inlen' \in Nat /\ msg' \in Nat /\ msg' >= msg
  BY <1>1, <1>2, <1>4
<1>7. AbsorbsMore
  BY <1>1, <1>2, <1>6 DEF AbsorbsMore
<1>8. InvCpp'
  BY <1>1, <1>2, <1>5, <1>6 DEF InvCpp
<1> QED BY <1>7, <1>8, AbsorbPromised

LEMMA CppPadKeeps ==
  ASSUME Kept, InvCpp, UNCHANGED outlen, Cpp!Pad
  PROVE  InvCpp' /\ Kept' /\ [Stream!Next]_Stream!vars
<1>1. /\ pc = "absorb" /\ domain' = mode /\ UNCHANGED << inlen, mode, msg, out >>
      /\ s' = Permute(XorByte(XorByte(s, pos, << "domain", mode >>), Rate - 1, << "end" >>))
      /\ (pc' = "ready" /\ pos' = 0) \/ pc' = "hash"
  BY SameOperators, Zenon DEF Cpp!Pad
<1>2. /\ domain = "none" /\ out = << >> /\ Holds(s, pos, msg) /\ mode \in {ShakeDomain, Sha3Domain}
      /\ msg \in Nat /\ inlen \in Nat /\ outlen \in Nat
  BY <1>1 DEF InvCpp, Kept
<1>3. s' = Stream!BlockState(msg, mode, 0)
  <2>1. /\ XorByte(XorByte(s, pos, << "domain", mode >>), Rate - 1, << "end" >>)
             = StateBefore(msg, mode, 0)
        /\ BlocksFollow(msg, mode)
    BY <1>2, MessagePadded
  <2>2. /\ Permute(StateBefore(msg, mode, 0)) = StateBefore(msg, mode, 0 + 1)
        /\ StateBefore(msg, mode, 0 + 1) = Stream!BlockState(msg, mode, 0)
    <3>1. 0 \in Nat
      OBVIOUS
    <3> QED BY <2>1, <3>1, Zenon DEF BlocksFollow
  <2> QED BY <1>1, <2>1, <2>2, Zenon
<1>4. SqueezedCpp(s', 0, 0, msg, mode)
  <2>1. 0 \in Nat /\ 0 = Rate * 0 + 0 /\ 0 \in 0..Rate
    BY RateAssumption
  <2> QED BY <1>3, <2>1, Zenon DEF SqueezedCpp
<1>5. AbsorbsMore
  BY <1>1, <1>2 DEF AbsorbsMore
<1>6. InvCpp'
  <2>1. mode # "none" /\ Len(<< >>) = 0
    BY <1>2, DomainAssumption
  <2> QED BY <1>1, <1>2, <1>3, <1>4, <2>1 DEF InvCpp
<1> QED BY <1>5, <1>6, AbsorbPromised

LEMMA CppSha3OutputKeeps ==
  ASSUME Kept, InvCpp, UNCHANGED outlen, Cpp!Sha3Output
  PROVE  InvCpp' /\ Kept' /\ [Stream!Next]_Stream!vars
<1>1. /\ pc = "hash" /\ pc' = "end" /\ out' = Bytes(s, 0, HashBytes)
      /\ UNCHANGED << s, pos, inlen, mode, msg, domain >>
  BY SameOperators, Zenon DEF Cpp!Sha3Output
<1>2. /\ domain # "none" /\ out = << >> /\ s = Stream!BlockState(msg, domain, 0)
      /\ msg \in Nat /\ outlen \in Nat /\ inlen \in Nat
  BY <1>1 DEF InvCpp, Kept
<1>3. OutRight(out', msg, domain)
  BY <1>1, <1>2, FirstBytesRight, SpongeAssumption
<1>4. SqueezesMore
  <2>1. Len(out') \in Nat /\ Len(out) = 0
    BY <1>2, <1>3 DEF OutRight, IsSeq
  <2> QED BY <1>1, <1>2, <1>3, <2>1 DEF SqueezesMore
<1>5. InvCpp'
  BY <1>1, <1>2 DEF InvCpp
<1> QED BY <1>4, <1>5, SqueezePromised

LEMMA CppBeginSqueezeKeeps ==
  ASSUME Kept, InvCpp, UNCHANGED outlen, Cpp!BeginSqueeze \/ Cpp!EndSqueeze
  PROVE  InvCpp' /\ Kept' /\ [Stream!Next]_Stream!vars
<1>1. /\ pc \in {"ready", "squeeze"} /\ pc' \in {"ready", "squeeze"}
      /\ UNCHANGED << s, pos, mode, msg, domain, out >>
  BY DEF Cpp!BeginSqueeze, Cpp!EndSqueeze
<1>2. inlen' \in Nat /\ outlen' \in Nat
  BY DEF Kept, InvCpp, Cpp!BeginSqueeze, Cpp!EndSqueeze
<1>3. domain # "none" /\ SqueezedCpp(s, pos, Len(out), msg, domain)
  BY <1>1 DEF InvCpp
<1>4. InvCpp'
  BY <1>1, <1>2, <1>3 DEF InvCpp
<1> QED BY <1>1, <1>2, <1>4, NoChangePromised

LEMMA CppSqueezeChunkKeeps ==
  ASSUME Kept, InvCpp, UNCHANGED outlen, Cpp!SqueezeChunk
  PROVE  InvCpp' /\ Kept' /\ [Stream!Next]_Stream!vars
<1> DEFINE from == IF pos = Rate THEN 0 ELSE pos
           k == IF inlen < Rate - from THEN inlen ELSE Rate - from
<1>1. /\ pc = "squeeze" /\ inlen > 0 /\ UNCHANGED << pc, mode, msg, domain >>
      /\ s' = IF pos = Rate THEN Permute(s) ELSE s
      /\ out' = out \o Bytes(s', from, k)
      /\ pos' = from + k /\ inlen' = inlen - k
  BY SameOperators, Zenon DEF Cpp!SqueezeChunk
<1>2. /\ domain # "none" /\ SqueezedCpp(s, pos, Len(out), msg, domain) /\ inlen \in Nat
      /\ msg \in Nat /\ outlen \in Nat /\ OutRight(out, msg, domain)
  BY <1>1 DEF InvCpp, Kept
<1>3. k \in Nat /\ from + k <= Rate /\ inlen' \in Nat
  BY <1>1, <1>2, RateAssumption DEF SqueezedCpp
<1>4. Reads(s, pos, from, s')
  BY <1>1 DEF Reads
<1> HIDE DEF from, k
<1>5. /\ OutRight(out \o Bytes(s', from, k), msg, domain)
      /\ Len(out \o Bytes(s', from, k)) = Len(out) + k
      /\ SqueezedCpp(s', from + k, Len(out) + k, msg, domain)
  BY <1>2, <1>3, <1>4, SqueezeCpp
<1>6. OutRight(out', msg, domain) /\ Len(out') = Len(out) + k
      /\ SqueezedCpp(s', pos', Len(out'), msg, domain)
  BY <1>1, <1>5
<1>7. SqueezesMore
  <2>1. Len(out) \in Nat
    BY <1>2 DEF OutRight, IsSeq
  <2> QED BY <1>1, <1>2, <1>3, <1>6, <2>1 DEF SqueezesMore
<1>8. InvCpp'
  BY <1>1, <1>2, <1>3, <1>6 DEF InvCpp
<1> QED BY <1>7, <1>8, SqueezePromised

(* What each step of the sponge of shake.cpp keeps and promises.           *)
LEMMA StepCpp ==
  ASSUME Kept, InvCpp, UNCHANGED outlen, Cpp!Next
  PROVE  InvCpp' /\ Kept' /\ [Stream!Next]_Stream!vars
BY CppBeginAbsorbKeeps, CppAbsorbChunkKeeps, CppPadKeeps, CppSha3OutputKeeps,
   CppBeginSqueezeKeeps, CppSqueezeChunkKeeps, Zenon DEF Cpp!Next

(* Both sponges begin with nothing, and keep the invariant.                *)
LEMMA SpongeInit == MCInit => SpongeInv /\ Stream!Init
<1> SUFFICES ASSUME MCInit PROVE SpongeInv /\ Stream!Init
  OBVIOUS
<1>1. s = Zero /\ pos = 0 /\ in = 0 /\ inlen = 0 /\ outlen = 0 /\ msg = 0 /\ domain = "none" /\ out = << >>
  BY SameOperators DEF MCInit, Init, Cpp!Init
<1>2. /\ part = "C" => pc = "idle"
      /\ part = "C++" => pc = "new"
      /\ part \notin {"C", "C++"} => pc = "idle"
  BY DEF MCInit, Init, Cpp!Init
<1>3. Holds(Zero, 0, 0)
  <2>1. 0 \in Nat /\ 0 = Rate * 0 + 0 /\ 0 \in 0..(Rate - 1) /\ Part(0, 0) = Zero
    BY RateAssumption, WholeGrows
  <2> QED BY <2>1 DEF Holds
<1>4. OutRight(out, msg, domain)
  BY <1>1, NothingRight
<1>5. InvC \/ part # "C"
  BY <1>1, <1>2, <1>3 DEF InvC
<1>6. InvCpp \/ part # "C++"
  BY <1>1, <1>2, <1>3 DEF InvCpp
<1> QED BY <1>1, <1>2, <1>4, <1>5, <1>6 DEF SpongeInv, Stream!Init

LEMMA SpongeStep == SpongeInv /\ [MCNext]_all => SpongeInv' /\ [Stream!Next]_Stream!vars
<1> SUFFICES ASSUME SpongeInv, [MCNext]_all PROVE SpongeInv' /\ [Stream!Next]_Stream!vars
  OBVIOUS
<1>1. Kept
  BY DEF SpongeInv, Kept
<1>2. CASE part = "C" /\ Next /\ part' = part
  <2>1. InvC
    BY <1>2 DEF SpongeInv
  <2>2. InvC' /\ Kept' /\ [Stream!Next]_Stream!vars
    BY <1>1, <1>2, <2>1, StepC
  <2> QED BY <1>2, <2>2 DEF SpongeInv, Kept
<1>3. CASE part = "C++" /\ Cpp!Next /\ UNCHANGED << part, outlen >>
  <2>1. InvCpp
    BY <1>3 DEF SpongeInv
  <2>2. InvCpp' /\ Kept' /\ [Stream!Next]_Stream!vars
    BY <1>1, <1>3, <2>1, StepCpp
  <2> QED BY <1>3, <2>2 DEF SpongeInv, Kept
<1>4. CASE UNCHANGED << vars, part, mode >>
  <2>1. /\ UNCHANGED << pc, s, pos, in, inlen, outlen, msg, domain, out, part, mode >>
    BY <1>4 DEF vars
  <2>2. (InvC <=> InvC') /\ (InvCpp <=> InvCpp')
    BY <2>1 DEF InvC, InvCpp
  <2> QED BY <2>1, <2>2 DEF SpongeInv, Stream!vars
<1> QED BY <1>2, <1>3, <1>4 DEF MCNext, all

(* The position, in the states between calls.                              *)
LEMMA PositionFollows == SpongeInv => PositionCounts
<1> SUFFICES ASSUME SpongeInv, pc = "idle"
             PROVE  /\ domain = "none" => pos = msg % Rate
                    /\ domain # "none" => pos \in 1..Rate /\ pos % Rate = Len(out) % Rate
  BY DEF PositionCounts
<1>0. Rate \in Nat \ {0} /\ msg \in Nat
  BY RateAssumption DEF SpongeInv
<1>1. CASE domain = "none"
  <2>1. CASE part = "C"
    <3>1. Holds(s, pos, msg)
      BY <1>1, <2>1 DEF SpongeInv, InvC
    <3> QED BY <1>1, <3>1, MessagePadded
  <2>2. CASE part # "C"
    <3>1. msg = 0 /\ pos = 0
      BY <2>2 DEF SpongeInv, InvCpp
    <3>2. 0 % Rate = 0
      BY <1>0
    <3> QED BY <1>1, <3>1, <3>2
  <2> QED BY <2>1, <2>2
<1>2. CASE domain # "none"
  <2>1. part = "C" /\ SqueezedC(s, pos, Len(out), msg, domain)
    BY <1>2 DEF SpongeInv, InvC, InvCpp
  <2>2. pos \in 1..Rate
    BY <2>1 DEF SqueezedC
  <2>3. PICK b \in Nat : Len(out) + Rate = Rate * b + pos
    BY <2>1 DEF SqueezedC
  <2>4. Len(out) \in Nat
    BY DEF SpongeInv, OutRight, IsSeq
  <2>5. CASE pos = Rate
    <3>1. Len(out) = Rate * b + 0
      <4>1. Rate * b \in Nat
        BY <1>0, NextMultiple
      <4> QED BY <1>0, <2>3, <2>4, <2>5, <4>1
    <3>2. 0 \in 0..(Rate - 1)
      BY <1>0
    <3>3. Len(out) % Rate = 0
      BY <1>0, <3>1, <3>2, DivUnique, Zenon
    <3>4. pos % Rate = 0
      BY <1>0, <2>5
    <3> QED BY <1>2, <2>2, <3>3, <3>4
  <2>6. CASE pos # Rate
    <3>1. b # 0
      <4>1. b = 0 => Rate * b = 0
        BY <1>0
      <4> QED BY <1>0, <2>2, <2>3, <2>4, <2>6, <4>1
    <3>2. PICK c \in Nat : b = c + 1
      <4>1. b - 1 \in Nat /\ b = (b - 1) + 1
        BY <3>1
      <4> QED BY <4>1
    <3>3. Len(out) = Rate * c + pos
      <4>1. Rate * (c + 1) = Rate * c + Rate /\ Rate * c \in Nat
        BY <1>0, NextMultiple
      <4> QED BY <1>0, <2>2, <2>3, <2>4, <3>2, <4>1
    <3>4. pos \in 0..(Rate - 1)
      BY <1>0, <2>2, <2>6
    <3>5. Len(out) % Rate = pos
      BY <1>0, <3>3, <3>4, DivUnique, Zenon
    <3>6. pos % Rate = pos
      BY <1>0, <3>4, SmallDiv
    <3> QED BY <1>2, <2>2, <3>5, <3>6
  <2> QED BY <2>5, <2>6
<1> QED BY <1>1, <1>2

-----------------------------------------------------------------------------
(* Between calls of fips202.c its position counts the bytes absorbed or    *)
(* squeezed, for every rate, message and division into pieces.             *)
THEOREM PositionsCount == MCSpec => []PositionCounts
<1>1. MCInit => SpongeInv
  BY SpongeInit
<1>2. SpongeInv /\ [MCNext]_all => SpongeInv'
  BY SpongeStep
<1>3. SpongeInv => PositionCounts
  BY PositionFollows
<1> QED BY <1>1, <1>2, <1>3, PTL DEF MCSpec

(* The incremental calls, the calls for whole messages and blocks and the  *)
(* C++ class all yield the stream of FIPS 202: each step is one of Xof or  *)
(* leaves message, domain and output as they are.                          *)
THEOREM StreamImplemented == MCSpec => ImplementsXof
<1>1. MCInit => SpongeInv /\ Stream!Init
  BY SpongeInit
<1>2. SpongeInv /\ [MCNext]_all => SpongeInv' /\ [Stream!Next]_Stream!vars
  BY SpongeStep
<1>3. MCSpec => Stream!Init /\ [][Stream!Next]_Stream!vars
  BY <1>1, <1>2, PTL DEF MCSpec
<1> QED BY <1>3 DEF ImplementsXof, Stream!Spec

(* randombytes, with any number of threads that call it, interrupted or    *)
(* given few bytes at a time by the system, and refused: a call that       *)
(* returns without error has written the whole buffer and nothing behind.  *)
THEOREM BuffersFilled == MCSpec => []FilledWhenReturned
<1> DEFINE I == part = "random" => RandomInv
<1>1. MCInit => I
  BY RandomInit DEF MCInit
<1>2. I /\ [MCNext]_all => I'
  <2> SUFFICES ASSUME I, [MCNext]_all PROVE I'
    OBVIOUS
  <2>1. CASE part = "random" /\ Random!Next /\ part' = part
    <3>1. RandomInv'
      BY <2>1, RandomStep
    <3> QED BY <3>1
  <2>2. CASE part # "random" /\ part' = part
    BY <2>2
  <2>3. CASE UNCHANGED all
    BY <2>3 DEF all, randomVars, RandomInv, Buffered
  <2> QED BY <2>1, <2>2, <2>3 DEF MCNext
<1>3. I => FilledWhenReturned
  BY RandomFills DEF FilledWhenReturned
<1> HIDE DEF I
<1> QED BY <1>1, <1>2, <1>3, PTL DEF MCSpec

-----------------------------------------------------------------------------
(* gen_matrix.  What the invariant says of an entry, with the rejections r *)
(* as an argument: it holds the first n accepted candidates of stream x.   *)
SmallEnough(r, v) == v[2][2] \notin r[v[2][1]]

Accepted(r, x, l) == {m \in 0..(l - 1) : SmallEnough(r, Matrix!Candidate(x, m))}

Held(r, entry, n, x) ==
  /\ entry = [c \in 0..(n - 1) |-> entry[c]]
  /\ \A c \in 0..(n - 1) :
       /\ Matrix!Number(entry[c]) \in Nat
       /\ entry[c] = Matrix!Candidate(x, Matrix!Number(entry[c]))
       /\ SmallEnough(r, entry[c])
       /\ Matrix!Numbers(entry, c) = Accepted(r, x, Matrix!Number(entry[c]))

(* ... and of the buffer of rej_uniform: it holds w triples of the stream  *)
(* behind the first u, y of them have been looked at, and their candidates *)
(* and all before them that are small enough are in the entry.             *)
Read(r, entry, n, x, taken, have, from, bytes) ==
  \E u, w, y \in Nat :
    /\ taken = 3 * (u + w) /\ have = 3 * w /\ from = 3 * y /\ y <= w
    /\ bytes = Matrix!Block(x, 3 * u, 3 * w)
    /\ n < N => Matrix!Numbers(entry, n) = Accepted(r, x, 2 * (u + y))

(* Entries in the order of gen_matrix.                                     *)
Before(e, row, col) == e[1] < row \/ (e[1] = row /\ e[2] < col)

Complete(r, t, entry, e) == Held(r, entry, N, Matrix!Stream(t, e[1], e[2]))

(* Matrices that are done are complete, the others are empty but for the   *)
(* entries of the matrix that is being sampled up to the current one.      *)
Shape ==
  /\ done \subseteq BOOLEAN /\ transposed \in BOOLEAN
  /\ i \in Matrix!Index /\ j \in Matrix!Index
  /\ DOMAIN a = BOOLEAN /\ \A t \in BOOLEAN : DOMAIN a[t] = Matrix!Streams
  /\ entryPc \in {"idle", "entry", "rej_uniform"}
  /\ entryPc # "idle" => transposed \notin done

Finished == \A t \in done, e \in Matrix!Streams : Complete(rejected, t, a[t][e], e)

Unstarted ==
  \A t \in BOOLEAN \ done, e \in Matrix!Streams :
    (entryPc = "idle" \/ t # transposed) => a[t][e] = << >>

Partial ==
  entryPc # "idle" =>
    \A e \in Matrix!Streams :
      /\ Before(e, i, j) => Complete(rejected, transposed, a[transposed][e], e)
      /\ ~Before(e, i, j) /\ (e # << i, j >> \/ entryPc = "entry") => a[transposed][e] = << >>

Filling ==
  entryPc = "rej_uniform" =>
    /\ ctr \in Nat /\ fill \in Nat /\ ctr + fill <= N
    /\ Held(rejected, a[transposed][<< i, j >>], ctr + fill, Matrix!Stream(transposed, i, j))
    /\ Read(rejected, a[transposed][<< i, j >>], ctr + fill, Matrix!Stream(transposed, i, j),
            squeezed, Len(buf), place, buf)

MatrixInv == Shape /\ Finished /\ Unstarted /\ Partial /\ Filling

(* Candidates and their numbers.                                           *)
LEMMA TripleCandidates ==
  ASSUME NEW x, NEW q \in Nat
  PROVE  /\ Matrix!Candidate(x, 2 * q) = << "low", << x, 3 * q >>, << x, 3 * q + 1 >> >>
         /\ Matrix!Candidate(x, 2 * q + 1) = << "high", << x, 3 * q + 1 >>, << x, 3 * q + 2 >> >>
<1>1. (2 * q) \div 2 = q /\ (2 * q) % 2 = 0 /\ (2 * q + 1) \div 2 = q /\ (2 * q + 1) % 2 = 1
  OBVIOUS
<1> QED BY <1>1 DEF Matrix!Candidate

LEMMA CandidateNumber ==
  ASSUME NEW x, NEW l \in Nat
  PROVE  Matrix!Number(Matrix!Candidate(x, l)) = l
<1> DEFINE q == l \div 2
<1>1. q \in Nat /\ (l = 2 * q \/ l = 2 * q + 1)
  OBVIOUS
<1> HIDE DEF q
<1>2. (3 * q) \div 3 = q /\ (3 * q + 1) \div 3 = q
  BY <1>1
<1>3. CASE l = 2 * q
  <2>1. Matrix!Candidate(x, l) = << "low", << x, 3 * q >>, << x, 3 * q + 1 >> >>
    BY <1>1, <1>3, TripleCandidates
  <2>2. Matrix!Number(<< "low", << x, 3 * q >>, << x, 3 * q + 1 >> >>) = 2 * q
    BY <1>1, <1>2 DEF Matrix!Number
  <2> QED BY <1>3, <2>1, <2>2
<1>4. CASE l = 2 * q + 1
  <2>1. Matrix!Candidate(x, l) = << "high", << x, 3 * q + 1 >>, << x, 3 * q + 2 >> >>
    BY <1>1, <1>4, TripleCandidates
  <2>2. Matrix!Number(<< "high", << x, 3 * q + 1 >>, << x, 3 * q + 2 >> >>) = 2 * q + 1
    BY <1>1, <1>2 DEF Matrix!Number
  <2> QED BY <1>4, <2>1, <2>2
<1> QED BY <1>1, <1>3, <1>4

IsEntry(entry, n) == entry = [c \in 0..(n - 1) |-> entry[c]]

(* An entry with one more candidate.                                       *)
Extended(entry, n, v) == [c \in 0..n |-> IF c = n THEN v ELSE entry[c]]

LEMMA TwoTerms ==
  ASSUME NEW v, NEW w
  PROVE  << v >> \o << w >> = << v, w >>
<1> DEFINE U == {v, w}
<1>1. << v >> \in Seq(U) /\ << w >> \in Seq(U)
  OBVIOUS
<1> HIDE DEF U
<1>2. /\ Len(<< v >> \o << w >>) = 2 /\ << v >> \o << w >> \in Seq(U)
      /\ (<< v >> \o << w >>)[1] = v /\ (<< v >> \o << w >>)[2] = w
  BY <1>1
<1> DEFINE z == << v >> \o << w >>
<1> HIDE DEF z
<1>3. z = [n \in 1..2 |-> z[n]] /\ z[1] = v /\ z[2] = w
  BY <1>2, LenProperties DEF z
<1>4. << v, w >> = [n \in 1..2 |-> IF n = 1 THEN v ELSE w]
  OBVIOUS
<1>5. \A n \in 1..2 : z[n] = IF n = 1 THEN v ELSE w
  BY <1>3
<1>6. z = << v, w >>
  BY <1>3, <1>4, <1>5
<1> QED BY <1>6 DEF z

(* The next candidate, kept ...                                            *)
LEMMA KeepCandidate ==
  ASSUME NEW r, NEW x, NEW entry, NEW n \in Nat, NEW l \in Nat,
         Held(r, entry, n, x), Matrix!Numbers(entry, n) = Accepted(r, x, l),
         SmallEnough(r, Matrix!Candidate(x, l))
  PROVE  LET longer == Extended(entry, n, Matrix!Candidate(x, l))
         IN  Held(r, longer, n + 1, x) /\ Matrix!Numbers(longer, n + 1) = Accepted(r, x, l + 1)
<1> DEFINE v == Matrix!Candidate(x, l)
           longer == Extended(entry, n, v)
<1>1. /\ DOMAIN longer = 0..n /\ longer[n] = v
      /\ \A c \in 0..(n - 1) : longer[c] = entry[c]
  BY DEF Extended
<1>2. longer = [c \in 0..n |-> longer[c]]
  BY DEF Extended
<1> HIDE DEF longer
<1>3. Matrix!Number(v) = l
  BY CandidateNumber
<1>4. \A c \in 0..n : Matrix!Numbers(longer, c) = Matrix!Numbers(entry, c)
  <2> SUFFICES ASSUME NEW c \in 0..n
               PROVE  Matrix!Numbers(longer, c) = Matrix!Numbers(entry, c)
    OBVIOUS
  <2>1. \A y \in 0..(c - 1) : longer[y] = entry[y]
    <3>1. \A y \in 0..(c - 1) : y \in 0..(n - 1)
      OBVIOUS
    <3> QED BY <1>1, <3>1, Zenon
  <2> QED BY <2>1 DEF Matrix!Numbers
<1> HIDE DEF v
<1>5. ASSUME NEW c \in 0..n
      PROVE  /\ Matrix!Number(longer[c]) \in Nat
             /\ longer[c] = Matrix!Candidate(x, Matrix!Number(longer[c]))
             /\ SmallEnough(r, longer[c])
             /\ Matrix!Numbers(longer, c) = Accepted(r, x, Matrix!Number(longer[c]))
  <2>1. CASE c = n
    <3>1. n \in 0..n /\ longer[c] = v /\ Matrix!Number(longer[c]) = l
      BY <1>1, <1>3, <2>1
    <3>2. Matrix!Numbers(longer, c) = Accepted(r, x, l)
      BY <1>4, <2>1, <3>1
    <3> QED BY <3>1, <3>2 DEF v
  <2>2. CASE c # n
    <3>1. c \in 0..(n - 1)
      BY <2>2
    <3>2. /\ Matrix!Number(entry[c]) \in Nat
          /\ entry[c] = Matrix!Candidate(x, Matrix!Number(entry[c]))
          /\ SmallEnough(r, entry[c])
          /\ Matrix!Numbers(entry, c) = Accepted(r, x, Matrix!Number(entry[c]))
      BY <3>1, Zenon DEF Held
    <3>3. longer[c] = entry[c] /\ Matrix!Numbers(longer, c) = Matrix!Numbers(entry, c)
      BY <1>1, <1>4, <3>1
    <3> QED BY <3>2, <3>3, Zenon
  <2> QED BY <2>1, <2>2
<1>6. (n + 1) - 1 = n /\ (l + 1) - 1 = l
  OBVIOUS
<1>7. Held(r, longer, n + 1, x)
  BY <1>2, <1>5, <1>6, Zenon DEF Held
<1>8. Matrix!Numbers(longer, n + 1) = Matrix!Numbers(longer, n) \cup {l}
  <2>1. \A c : c \in 0..n <=> c \in 0..(n - 1) \/ c = n
    OBVIOUS
  <2>2. Matrix!Number(longer[n]) = l
    BY <1>1, <1>3
  <2> QED BY <1>6, <2>1, <2>2 DEF Matrix!Numbers
<1>9. Accepted(r, x, l + 1) = Accepted(r, x, l) \cup {l}
  <2>1. \A m : m \in 0..l <=> m \in 0..(l - 1) \/ m = l
    OBVIOUS
  <2> QED BY <1>6, <2>1 DEF Accepted
<1>10. n \in 0..n
  OBVIOUS
<1> QED BY <1>4, <1>7, <1>8, <1>9, <1>10 DEF longer, v

(* ... and rejected.                                                       *)
LEMMA SkipCandidate ==
  ASSUME NEW r, NEW x, NEW l \in Nat, ~SmallEnough(r, Matrix!Candidate(x, l))
  PROVE  Accepted(r, x, l + 1) = Accepted(r, x, l)
<1>1. \A m : m \in 0..((l + 1) - 1) <=> m \in 0..(l - 1) \/ m = l
  OBVIOUS
<1> QED BY <1>1 DEF Accepted

(* An entry is determined by its stream.                                   *)
LEMMA HeldUnique ==
  ASSUME NEW r, NEW x, NEW n \in Nat, NEW e, NEW g, Held(r, e, n, x), Held(r, g, n, x)
  PROVE  e = g
<1> DEFINE T == {c \in Nat : c < n /\ e[c] # g[c]}
<1>1. T = {}
  <2>1. SUFFICES ASSUME T # {} PROVE FALSE
    OBVIOUS
  <2>2. PICK c \in T : \A y \in T : c <= y
    BY <2>1, LeastNatural
  <2>3. c \in 0..(n - 1) /\ c \in Nat /\ c < n /\ e[c] # g[c]
    OBVIOUS
  <2>4. \A y \in 0..(c - 1) : e[y] = g[y]
    <3> SUFFICES ASSUME NEW y \in 0..(c - 1) PROVE e[y] = g[y]
      OBVIOUS
    <3>1. y \in Nat /\ y < n /\ ~(c <= y)
      BY <2>3
    <3> QED BY <2>2, <3>1
  <2>5. Matrix!Numbers(e, c) = Matrix!Numbers(g, c)
    BY <2>4 DEF Matrix!Numbers
  <2> DEFINE k == Matrix!Number(e[c])
             l == Matrix!Number(g[c])
  <2>6. /\ k \in Nat /\ e[c] = Matrix!Candidate(x, k) /\ SmallEnough(r, e[c])
        /\ Matrix!Numbers(e, c) = Accepted(r, x, k)
        /\ l \in Nat /\ g[c] = Matrix!Candidate(x, l) /\ SmallEnough(r, g[c])
        /\ Matrix!Numbers(g, c) = Accepted(r, x, l)
    BY <2>3, Zenon DEF Held
  <2> HIDE DEF k, l
  <2>7. Accepted(r, x, k) = Accepted(r, x, l)
    BY <2>5, <2>6
  <2>8. ~(k < l) /\ ~(l < k)
    <3>1. k \notin Accepted(r, x, k) /\ l \notin Accepted(r, x, l)
      BY <2>6 DEF Accepted
    <3>2. k < l => k \in Accepted(r, x, l)
      BY <2>6 DEF Accepted
    <3>3. l < k => l \in Accepted(r, x, k)
      BY <2>6 DEF Accepted
    <3> QED BY <2>7, <3>1, <3>2, <3>3
  <2>9. k = l
    BY <2>6, <2>8
  <2> QED BY <2>3, <2>6, <2>9
<1>2. \A c \in 0..(n - 1) : e[c] = g[c]
  BY <1>1
<1> HIDE DEF T
<1>3. [c \in 0..(n - 1) |-> e[c]] = [c \in 0..(n - 1) |-> g[c]]
  BY <1>2
<1> QED BY <1>3, Zenon DEF Held

(* What rej_uniform stores of a triple: none, one or two candidates.       *)
LEMMA StoredBehind ==
  ASSUME NEW entry, NEW n \in Nat, IsEntry(entry, n), NEW v, NEW w
  PROVE  /\ Matrix!Stored(entry, n, << >>) = entry
         /\ Matrix!Stored(entry, n, << v >>) = Extended(entry, n, v)
         /\ Matrix!Stored(entry, n, << v, w >>) = Extended(Extended(entry, n, v), n + 1, w)
<1> DEFINE longer == [c \in 0..n |-> IF c = n THEN v ELSE entry[c]]
<1>0. DOMAIN entry = 0..(n - 1) /\ entry = [c \in 0..(n - 1) |-> entry[c]]
  BY Zenon DEF IsEntry
<1>1. Matrix!Stored(entry, n, << >>) = entry
  <2>1. n..(n + Len(<< >>) - 1) = {} /\ (0..(n - 1)) \cup {} = 0..(n - 1)
    OBVIOUS
  <2>2. Matrix!Stored(entry, n, << >>)
          = [c \in 0..(n - 1) |-> IF c \in {} THEN << >>[c - n + 1] ELSE entry[c]]
    BY <1>0, <2>1, Zenon DEF Matrix!Stored
  <2>3. [c \in 0..(n - 1) |-> IF c \in {} THEN << >>[c - n + 1] ELSE entry[c]]
          = [c \in 0..(n - 1) |-> entry[c]]
    OBVIOUS
  <2> QED BY <1>0, <2>2, <2>3, Zenon
<1>2. Matrix!Stored(entry, n, << v >>) = longer
  <2>1. n..(n + Len(<< v >>) - 1) = {n} /\ (0..(n - 1)) \cup {n} = 0..n
    OBVIOUS
  <2>2. Matrix!Stored(entry, n, << v >>)
          = [c \in 0..n |-> IF c \in {n} THEN << v >>[c - n + 1] ELSE entry[c]]
    BY <1>0, <2>1, Zenon DEF Matrix!Stored
  <2>3. [c \in 0..n |-> IF c \in {n} THEN << v >>[c - n + 1] ELSE entry[c]] = longer
    <3>1. << v >>[n - n + 1] = v
      OBVIOUS
    <3>2. \A c \in 0..n : (IF c \in {n} THEN << v >>[c - n + 1] ELSE entry[c])
                            = (IF c = n THEN v ELSE entry[c])
      BY <3>1, Zenon
    <3> QED BY <3>2
  <2> QED BY <2>2, <2>3, Zenon
<1>3. Matrix!Stored(entry, n, << v, w >>)
        = [c \in 0..(n + 1) |-> IF c = n + 1 THEN w ELSE longer[c]]
  <2>1. n..(n + Len(<< v, w >>) - 1) = {n, n + 1} /\ (0..(n - 1)) \cup {n, n + 1} = 0..(n + 1)
    OBVIOUS
  <2>2. Matrix!Stored(entry, n, << v, w >>)
          = [c \in 0..(n + 1) |-> IF c \in {n, n + 1} THEN << v, w >>[c - n + 1] ELSE entry[c]]
    BY <1>0, <2>1, Zenon DEF Matrix!Stored
  <2>3. ASSUME NEW c \in 0..(n + 1)
        PROVE  (IF c \in {n, n + 1} THEN << v, w >>[c - n + 1] ELSE entry[c])
                 = (IF c = n + 1 THEN w ELSE longer[c])
    <3>1. CASE c = n + 1
      <4>1. c - n + 1 = 2 /\ << v, w >>[2] = w
        BY <3>1
      <4> QED BY <3>1, <4>1
    <3>2. CASE c = n
      <4>1. c - n + 1 = 1 /\ << v, w >>[1] = v /\ n \in 0..n /\ n # n + 1 /\ longer[n] = v
        BY <3>2
      <4> HIDE DEF longer
      <4> QED BY <3>2, <4>1
    <3>3. CASE c # n /\ c # n + 1
      <4>1. c \in 0..n
        BY <3>3
      <4> QED BY <3>3, <4>1
    <3> QED BY <3>1, <3>2, <3>3
  <2> HIDE DEF longer
  <2>4. [c \in 0..(n + 1) |-> IF c \in {n, n + 1} THEN << v, w >>[c - n + 1] ELSE entry[c]]
          = [c \in 0..(n + 1) |-> IF c = n + 1 THEN w ELSE longer[c]]
    BY <2>3
  <2> QED BY <2>2, <2>4, Zenon
<1> QED BY <1>1, <1>2, <1>3 DEF Extended

(* A triple: its candidates have numbers l and l + 1; the second is only   *)
(* kept where there is room.                                               *)
Candidates(r, x, l, n) ==
  LET low == IF SmallEnough(r, Matrix!Candidate(x, l)) THEN << Matrix!Candidate(x, l) >> ELSE << >>
      high == IF n + Len(low) < N /\ SmallEnough(r, Matrix!Candidate(x, l + 1))
              THEN << Matrix!Candidate(x, l + 1) >> ELSE << >>
  IN  low \o high

AfterTriple(r, x, entry, n, kept, l) ==
  LET longer == Matrix!Stored(entry, n, kept)
  IN  /\ Len(kept) \in Nat /\ n + Len(kept) <= N
      /\ Held(r, longer, n + Len(kept), x)
      /\ n + Len(kept) < N => Matrix!Numbers(longer, n + Len(kept)) = Accepted(r, x, l + 2)

LEMMA TripleKept ==
  ASSUME NEW r, NEW x, NEW entry, NEW n \in Nat, NEW l \in Nat, N \in Nat, n < N,
         Held(r, entry, n, x), Matrix!Numbers(entry, n) = Accepted(r, x, l)
  PROVE  AfterTriple(r, x, entry, n, Candidates(r, x, l, n), l)
<1> DEFINE v == Matrix!Candidate(x, l)
           w == Matrix!Candidate(x, l + 1)
           kept == Candidates(r, x, l, n)
           one == Extended(entry, n, v)
           only == Extended(entry, n, w)
           two == Extended(one, n + 1, w)
<1>0. IsEntry(entry, n)
  BY Zenon DEF Held, IsEntry
<1>1. /\ Matrix!Stored(entry, n, << >>) = entry
      /\ Matrix!Stored(entry, n, << v >>) = one
      /\ Matrix!Stored(entry, n, << w >>) = only
      /\ Matrix!Stored(entry, n, << v, w >>) = two
  <2> HIDE DEF v, w
  <2>1. /\ Matrix!Stored(entry, n, << >>) = entry
        /\ Matrix!Stored(entry, n, << v >>) = one
        /\ Matrix!Stored(entry, n, << v, w >>) = two
    BY <1>0, StoredBehind
  <2>2. /\ Matrix!Stored(entry, n, << w >>) = only
        /\ Matrix!Stored(entry, n, << w, w >>) = Extended(only, n + 1, w)
    BY <1>0, StoredBehind
  <2> QED BY <2>1, <2>2
<1>2. l + 1 \in Nat /\ n + 1 \in Nat /\ (l + 1) + 1 = l + 2 /\ (n + 1) + 1 = n + 2 /\ n + 0 = n
  OBVIOUS
<1>3. CASE SmallEnough(r, v)
  <2>1. Held(r, one, n + 1, x) /\ Matrix!Numbers(one, n + 1) = Accepted(r, x, l + 1)
    BY <1>3, KeepCandidate
  <2>2. CASE n + 1 < N /\ SmallEnough(r, w)
    <3>1. kept = << v, w >>
      <4> HIDE DEF v, w
      <4>1. Len(<< v >>) = 1 /\ << v >> \o << w >> = << v, w >>
        BY TwoTerms
      <4> QED BY <1>3, <2>2, <4>1 DEF Candidates, v, w
    <3>2. Held(r, two, n + 2, x) /\ Matrix!Numbers(two, n + 2) = Accepted(r, x, l + 2)
      <4> HIDE DEF one
      <4> QED BY <1>2, <2>1, <2>2, KeepCandidate
    <3>3. Len(kept) = 2
      BY <3>1
    <3> HIDE DEF two, kept
    <3>4. n + 2 <= N
      BY <2>2
    <3> QED BY <1>1, <3>1, <3>2, <3>3, <3>4 DEF kept, AfterTriple
  <2>3. CASE ~(n + 1 < N /\ SmallEnough(r, w))
    <3>1. kept = << v >>
      <4>1. Len(<< v >>) = 1 /\ << v >> \o << >> = << v >>
        OBVIOUS
      <4> HIDE DEF v, w
      <4> QED BY <1>3, <2>3, <4>1 DEF Candidates, v, w
    <3>2. n + 1 < N => Matrix!Numbers(one, n + 1) = Accepted(r, x, l + 2)
      <4>1. SUFFICES ASSUME n + 1 < N
                     PROVE  Matrix!Numbers(one, n + 1) = Accepted(r, x, l + 2)
        OBVIOUS
      <4>2. ~SmallEnough(r, w)
        BY <2>3, <4>1
      <4>3. Accepted(r, x, (l + 1) + 1) = Accepted(r, x, l + 1)
        BY <1>2, <4>2, SkipCandidate
      <4> QED BY <1>2, <2>1, <4>3
    <3>3. Len(kept) = 1 /\ n + 1 <= N
      BY <3>1
    <3> HIDE DEF one, kept
    <3> QED BY <1>1, <2>1, <3>1, <3>2, <3>3 DEF kept, AfterTriple
  <2> QED BY <2>2, <2>3
<1>4. CASE ~SmallEnough(r, v)
  <2>1. Matrix!Numbers(entry, n) = Accepted(r, x, l + 1)
    BY <1>4, SkipCandidate
  <2>2. CASE SmallEnough(r, w)
    <3>1. kept = << w >>
      <4>1. Len(<< >>) = 0 /\ << >> \o << w >> = << w >>
        OBVIOUS
      <4> HIDE DEF v, w
      <4> QED BY <1>2, <1>4, <2>2, <4>1 DEF Candidates, v, w
    <3>2. Held(r, only, n + 1, x) /\ Matrix!Numbers(only, n + 1) = Accepted(r, x, l + 2)
      BY <1>2, <2>1, <2>2, KeepCandidate
    <3>3. Len(kept) = 1 /\ n + 1 <= N
      BY <3>1
    <3> HIDE DEF only, kept
    <3> QED BY <1>1, <3>1, <3>2, <3>3 DEF kept, AfterTriple
  <2>3. CASE ~SmallEnough(r, w)
    <3>1. kept = << >>
      <4>1. Len(<< >>) = 0 /\ << >> \o << >> = << >>
        OBVIOUS
      <4> HIDE DEF v, w
      <4> QED BY <1>4, <2>3, <4>1 DEF Candidates, v, w
    <3>2. Matrix!Numbers(entry, n) = Accepted(r, x, l + 2)
      BY <1>2, <2>1, <2>3, SkipCandidate
    <3>3. Len(kept) = 0
      BY <3>1
    <3> HIDE DEF kept, AfterTriple
    <3> QED BY <1>1, <1>2, <3>1, <3>2, <3>3 DEF kept, AfterTriple
  <2> QED BY <2>2, <2>3
<1> QED BY <1>3, <1>4

-----------------------------------------------------------------------------
LEMMA Sizes ==
  /\ K \in Nat \ {0} /\ N \in Nat \ {0} /\ NBlocks \in Nat \ {0}
  /\ \E g \in Nat : BlockBytes = 3 * g
<1>1. /\ K \in Nat \ {0} /\ N \in Nat \ {0} /\ NBlocks \in Nat \ {0}
      /\ BlockBytes \in Nat \ {0} /\ BlockBytes % 3 = 0
  BY StreamsOfThisSize DEF Matrix!SamplingAssumption
<1>2. BlockBytes \div 3 \in Nat /\ BlockBytes = 3 * (BlockBytes \div 3)
  BY <1>1
<1> QED BY <1>1, <1>2

LEMMA MatrixInit == Matrix!Init => MatrixInv
<1> SUFFICES ASSUME Matrix!Init PROVE MatrixInv
  OBVIOUS
<1>1. 0 \in Matrix!Index
  BY Sizes DEF Matrix!Index
<1>2. Shape
  BY <1>1 DEF Matrix!Init, Shape
<1>3. Finished /\ Unstarted /\ Partial /\ Filling
  BY DEF Matrix!Init, Finished, Unstarted, Partial, Filling
<1> QED BY <1>2, <1>3 DEF MatrixInv

LEMMA BeginMatrixKeeps ==
  ASSUME MatrixInv, NEW t \in BOOLEAN, Matrix!BeginMatrix(t)
  PROVE  MatrixInv'
<1>1. /\ entryPc = "idle" /\ t \notin done /\ entryPc' = "entry" /\ transposed' = t
      /\ i' = 0 /\ j' = 0 /\ UNCHANGED << rejected, done, a >>
  BY DEF Matrix!BeginMatrix
<1>2. Shape'
  <2>1. 0 \in Matrix!Index
    BY Sizes DEF Matrix!Index
  <2> QED BY <1>1, <2>1 DEF MatrixInv, Shape, Matrix!Index, Matrix!Streams
<1>3. Finished'
  BY <1>1 DEF MatrixInv, Finished, Matrix!Streams, Matrix!Index
<1>4. Unstarted'
  BY <1>1 DEF MatrixInv, Unstarted, Matrix!Streams, Matrix!Index
<1>5. Partial'
  <2> SUFFICES ASSUME NEW e \in Matrix!Streams
               PROVE  ~Before(e, 0, 0) /\ a[t][e] = << >>
    BY <1>1 DEF Partial, Matrix!Streams, Matrix!Index
  <2>1. e[1] \in Nat /\ e[2] \in Nat
    BY DEF Matrix!Streams, Matrix!Index
  <2> QED BY <1>1, <2>1 DEF MatrixInv, Unstarted, Before
<1>6. Filling'
  BY <1>1 DEF Filling
<1> QED BY <1>2, <1>3, <1>4, <1>5, <1>6 DEF MatrixInv

LEMMA BeginEntryKeeps ==
  ASSUME MatrixInv, Matrix!BeginEntry
  PROVE  MatrixInv'
<1> DEFINE x == Matrix!Stream(transposed, i, j)
           entry == a[transposed][<< i, j >>]
<1>1. /\ entryPc = "entry" /\ entryPc' = "rej_uniform"
      /\ buf' = Matrix!Block(x, 0, NBlocks * BlockBytes) /\ squeezed' = NBlocks * BlockBytes
      /\ ctr' = 0 /\ fill' = 0 /\ place' = 0
      /\ UNCHANGED << rejected, transposed, done, i, j, a >>
  BY DEF Matrix!BeginEntry
<1>2. Shape' /\ Finished' /\ Unstarted'
  BY <1>1 DEF MatrixInv, Shape, Finished, Unstarted
<1>3. Partial'
  BY <1>1 DEF MatrixInv, Partial
<1>4. i \in Matrix!Index /\ j \in Matrix!Index /\ << i, j >> \in Matrix!Streams
  BY DEF MatrixInv, Shape, Matrix!Streams
<1>5. entry = << >>
  <2>1. ~Before(<< i, j >>, i, j)
    BY <1>4 DEF Before, Matrix!Index
  <2> QED BY <1>1, <1>4, <2>1 DEF MatrixInv, Partial
<1> HIDE DEF x
<1>6. Held(rejected, << >>, 0, x) /\ Matrix!Numbers(<< >>, 0) = Accepted(rejected, x, 0)
  <2>1. << >> = [c \in 0..(0 - 1) |-> << >>[c]]
    OBVIOUS
  <2>2. 0..(0 - 1) = {}
    OBVIOUS
  <2> QED BY <2>1, <2>2 DEF Held, Matrix!Numbers, Accepted
<1>7. PICK w \in Nat : NBlocks * BlockBytes = 3 * w
  <2>1. PICK g \in Nat : BlockBytes = 3 * g
    BY Sizes
  <2>2. NBlocks * (3 * g) = 3 * (NBlocks * g) /\ NBlocks * g \in Nat
    BY Sizes
  <2> QED BY <2>1, <2>2
<1>8. Len(buf') = 3 * w
  BY <1>1, <1>7 DEF Matrix!Block
<1>9. Read(rejected, << >>, 0, x, squeezed', Len(buf'), place', buf')
  <2>1. /\ 0 \in Nat /\ 3 * w = 3 * (0 + w) /\ 0 = 3 * 0 /\ 0 <= w /\ 2 * (0 + 0) = 0
    OBVIOUS
  <2>2. /\ squeezed' = 3 * (0 + w) /\ Len(buf') = 3 * w /\ place' = 3 * 0
        /\ buf' = Matrix!Block(x, 3 * 0, 3 * w)
        /\ Matrix!Numbers(<< >>, 0) = Accepted(rejected, x, 2 * (0 + 0))
    BY <1>1, <1>6, <1>7, <1>8, <2>1
  <2> QED BY <2>1, <2>2, Zenon DEF Read
<1>10. Filling'
  <2>1. Held(rejected', a'[transposed'][<< i', j' >>], ctr' + fill', Matrix!Stream(transposed', i', j'))
    BY <1>1, <1>5, <1>6 DEF x
  <2>2. Read(rejected', a'[transposed'][<< i', j' >>], ctr' + fill', Matrix!Stream(transposed', i', j'),
            squeezed', Len(buf'), place', buf')
    BY <1>1, <1>5, <1>9 DEF x
  <2> QED BY <1>1, <2>1, <2>2, Sizes DEF Filling
<1> QED BY <1>2, <1>3, <1>10 DEF MatrixInv

LEMMA RefillKeeps ==
  ASSUME MatrixInv, Matrix!Refill
  PROVE  MatrixInv'
<1> DEFINE x == Matrix!Stream(transposed, i, j)
           entry == a[transposed][<< i, j >>]
<1>1. /\ entryPc = "rej_uniform" /\ ~Matrix!AnotherTriple /\ ctr + fill < N
      /\ buf' = Matrix!Block(x, squeezed, BlockBytes) /\ squeezed' = squeezed + BlockBytes
      /\ ctr' = ctr + fill /\ fill' = 0 /\ place' = 0
      /\ UNCHANGED << rejected, entryPc, transposed, done, i, j, a >>
  BY DEF Matrix!Refill
<1>2. Shape' /\ Finished' /\ Unstarted' /\ Partial'
  BY <1>1 DEF MatrixInv, Shape, Finished, Unstarted, Partial
<1>3. /\ ctr \in Nat /\ fill \in Nat
      /\ Held(rejected, entry, ctr + fill, x)
      /\ Read(rejected, entry, ctr + fill, x, squeezed, Len(buf), place, buf)
  BY <1>1 DEF MatrixInv, Filling
<1> HIDE DEF x, entry
<1>4. PICK u, w, y \in Nat :
        /\ squeezed = 3 * (u + w) /\ Len(buf) = 3 * w /\ place = 3 * y /\ y <= w
        /\ ctr + fill < N => Matrix!Numbers(entry, ctr + fill) = Accepted(rejected, x, 2 * (u + y))
  BY <1>3, Zenon DEF Read
<1>5. y = w
  <2>1. fill < N - ctr
    BY <1>1, <1>3, Sizes
  <2>2. ~(place + 3 <= Len(buf))
    BY <1>1, <2>1 DEF Matrix!AnotherTriple
  <2> QED BY <1>4, <2>2
<1>6. PICK g \in Nat : BlockBytes = 3 * g
  BY Sizes
<1>7. Len(buf') = 3 * g
  BY <1>1, <1>6 DEF Matrix!Block
<1>8. Read(rejected, entry, ctr + fill, x, squeezed', Len(buf'), place', buf')
  <2>1. u + w \in Nat /\ 0 \in Nat /\ 0 <= g /\ 3 * 0 = 0 /\ (u + w) + 0 = u + w
        /\ 3 * (u + w) + 3 * g = 3 * ((u + w) + g)
    OBVIOUS
  <2>2. /\ squeezed' = 3 * ((u + w) + g) /\ Len(buf') = 3 * g /\ place' = 3 * 0
        /\ buf' = Matrix!Block(x, 3 * (u + w), 3 * g)
        /\ Matrix!Numbers(entry, ctr + fill) = Accepted(rejected, x, 2 * ((u + w) + 0))
    BY <1>1, <1>4, <1>5, <1>6, <1>7, <2>1
  <2> QED BY <2>1, <2>2, Zenon DEF Read
<1>9. Filling'
  <2>1. ctr' + fill' = ctr + fill /\ ctr' \in Nat /\ fill' \in Nat /\ ctr' + fill' <= N
    BY <1>1, <1>3, Sizes
  <2>2. Held(rejected', a'[transposed'][<< i', j' >>], ctr' + fill', Matrix!Stream(transposed', i', j'))
    BY <1>1, <1>3, <2>1 DEF x, entry
  <2>3. Read(rejected', a'[transposed'][<< i', j' >>], ctr' + fill', Matrix!Stream(transposed', i', j'),
            squeezed', Len(buf'), place', buf')
    BY <1>1, <1>8, <2>1 DEF x, entry
  <2> QED BY <2>1, <2>2, <2>3 DEF Filling
<1> QED BY <1>2, <1>9 DEF MatrixInv

LEMMA RejUniformKeeps ==
  ASSUME MatrixInv, Matrix!RejUniform
  PROVE  MatrixInv'
<1> DEFINE x == Matrix!Stream(transposed, i, j)
           entry == a[transposed][<< i, j >>]
           n == ctr + fill
           b == SubSeq(buf, place + 1, place + 3)
           low == IF Matrix!BelowQ(Matrix!Val0(b)) THEN << Matrix!Val0(b) >> ELSE << >>
           high == IF Matrix!KeepsHigh(Len(low), Matrix!Val1(b)) THEN << Matrix!Val1(b) >> ELSE << >>
           kept == low \o high
<1>1. /\ entryPc = "rej_uniform" /\ Matrix!AnotherTriple
      /\ a' = [a EXCEPT ![transposed] =
                 [a[transposed] EXCEPT ![<< i, j >>] = Matrix!Stored(entry, n, kept)]]
      /\ fill' = fill + Len(kept) /\ place' = place + 3
      /\ UNCHANGED << rejected, entryPc, transposed, done, i, j, squeezed, buf, ctr >>
  BY Zenon DEF Matrix!RejUniform
<1>2. /\ i \in Matrix!Index /\ j \in Matrix!Index /\ << i, j >> \in Matrix!Streams
      /\ transposed \in BOOLEAN /\ transposed \notin done
      /\ DOMAIN a = BOOLEAN /\ DOMAIN a[transposed] = Matrix!Streams
  BY <1>1 DEF MatrixInv, Shape, Matrix!Streams
<1>3. /\ ctr \in Nat /\ fill \in Nat /\ n \in Nat
      /\ Held(rejected, entry, n, x)
      /\ Read(rejected, entry, n, x, squeezed, Len(buf), place, buf)
  BY <1>1 DEF MatrixInv, Filling
<1>4. n < N /\ fill < N - ctr /\ place + 3 <= Len(buf)
  BY <1>1, <1>3, Sizes DEF Matrix!AnotherTriple
<1> HIDE DEF x, entry
<1>5. PICK u, w, y \in Nat :
        /\ squeezed = 3 * (u + w) /\ Len(buf) = 3 * w /\ place = 3 * y /\ y <= w
        /\ buf = Matrix!Block(x, 3 * u, 3 * w)
        /\ Matrix!Numbers(entry, n) = Accepted(rejected, x, 2 * (u + y))
  BY <1>3, <1>4, Zenon DEF Read
<1>6. y + 1 <= w
  BY <1>4, <1>5
<1>7. /\ b[1] = << x, 3 * (u + y) >> /\ b[2] = << x, 3 * (u + y) + 1 >>
      /\ b[3] = << x, 3 * (u + y) + 2 >>
  <2>1. \A p \in 1..(3 * w) : buf[p] = << x, 3 * u + p - 1 >>
    BY <1>5 DEF Matrix!Block
  <2>2. /\ b[1] = buf[place + 1] /\ b[2] = buf[place + 2] /\ b[3] = buf[place + 3]
    <3>1. buf \in Seq({buf[p] : p \in 1..(3 * w)})
      <4>1. buf = [p \in 1..(3 * w) |-> buf[p]]
        BY <1>5 DEF Matrix!Block
      <4> DEFINE U == {buf[p] : p \in 1..(3 * w)}
      <4>2. buf \in [1..(3 * w) -> U] /\ 3 * w \in Nat
        BY <4>1
      <4> HIDE DEF U
      <4>3. buf \in Seq(U)
        BY <4>2
      <4> QED BY <4>3 DEF U
    <3> DEFINE U == {buf[p] : p \in 1..(3 * w)}
    <3>2. place + 1 \in 1..Len(buf) /\ place + 3 \in 1..Len(buf) /\ place \in Nat
      BY <1>5, <1>6
    <3>3. buf \in Seq(U)
      BY <3>1
    <3> HIDE DEF U
    <3>4. Len(b) = 3 /\ \A p \in 1..3 : b[p] = buf[(place + 1) + p - 1]
      BY <3>2, <3>3
    <3>5. (place + 1) + 1 - 1 = place + 1 /\ (place + 1) + 2 - 1 = place + 2
          /\ (place + 1) + 3 - 1 = place + 3 /\ 1 \in 1..3 /\ 2 \in 1..3 /\ 3 \in 1..3
      BY <3>2
    <3> HIDE DEF b
    <3>6. b[1] = buf[(place + 1) + 1 - 1] /\ b[2] = buf[(place + 1) + 2 - 1]
          /\ b[3] = buf[(place + 1) + 3 - 1]
      BY <3>4, <3>5
    <3> QED BY <3>5, <3>6
  <2>3. /\ place + 1 \in 1..(3 * w) /\ place + 2 \in 1..(3 * w) /\ place + 3 \in 1..(3 * w)
    BY <1>5, <1>6
  <2>4. /\ 3 * u + (place + 1) - 1 = 3 * (u + y) /\ 3 * u + (place + 2) - 1 = 3 * (u + y) + 1
        /\ 3 * u + (place + 3) - 1 = 3 * (u + y) + 2
    BY <1>5
  <2> HIDE DEF b
  <2> QED BY <2>1, <2>2, <2>3, <2>4
<1> DEFINE l == 2 * (u + y)
<1>8. Matrix!Val0(b) = Matrix!Candidate(x, l) /\ Matrix!Val1(b) = Matrix!Candidate(x, l + 1)
  <2>1. u + y \in Nat
    OBVIOUS
  <2> HIDE DEF b
  <2> QED BY <1>7, <2>1, TripleCandidates DEF Matrix!Val0, Matrix!Val1
<1>9. kept = Candidates(rejected, x, l, n)
  <2> HIDE DEF b, l
  <2> DEFINE v == Matrix!Candidate(x, l)
             z == Matrix!Candidate(x, l + 1)
  <2>1. \A c : Matrix!BelowQ(c) <=> SmallEnough(rejected, c)
    BY DEF Matrix!BelowQ, SmallEnough
  <2>2. \A c \in Nat : fill + c < N - ctr <=> n + c < N
    BY <1>3, Sizes
  <2>3. low = IF SmallEnough(rejected, v) THEN << v >> ELSE << >>
    BY <1>8, <2>1, Zenon
  <2>4. Len(low) \in Nat
    OBVIOUS
  <2> HIDE DEF low
  <2>5. Matrix!KeepsHigh(Len(low), z) <=> n + Len(low) < N /\ SmallEnough(rejected, z)
    <3> HIDE DEF n, z
    <3> QED BY <2>1, <2>2, <2>4, Zenon DEF Matrix!KeepsHigh
  <2>6. high = IF n + Len(low) < N /\ SmallEnough(rejected, z) THEN << z >> ELSE << >>
    <3> HIDE DEF n
    <3> QED BY <1>8, <2>5, Zenon
  <2> HIDE DEF high, n
  <2> QED BY <2>3, <2>6, Zenon DEF Candidates
<1> HIDE DEF kept, b, l
<1>10. /\ Len(kept) \in Nat /\ n + Len(kept) <= N
       /\ Held(rejected, Matrix!Stored(entry, n, kept), n + Len(kept), x)
       /\ n + Len(kept) < N => Matrix!Numbers(Matrix!Stored(entry, n, kept), n + Len(kept))
                                 = Accepted(rejected, x, l + 2)
  <2>1. l \in Nat /\ N \in Nat
    BY Sizes DEF l
  <2>2. Matrix!Numbers(entry, n) = Accepted(rejected, x, l)
    BY <1>5 DEF l
  <2> HIDE DEF n
  <2>3. AfterTriple(rejected, x, entry, n, kept, l)
    BY <1>3, <1>4, <1>9, <2>1, <2>2, TripleKept
  <2> QED BY <2>3, Zenon DEF AfterTriple
<1>11. /\ DOMAIN a' = BOOLEAN /\ \A t \in BOOLEAN : DOMAIN a'[t] = DOMAIN a[t]
       /\ \A t \in BOOLEAN, e \in Matrix!Streams :
            t # transposed \/ e # << i, j >> => a'[t][e] = a[t][e]
       /\ a'[transposed][<< i, j >>] = Matrix!Stored(entry, n, kept)
  BY <1>1, <1>2
<1>12. Shape'
  BY <1>1, <1>11 DEF MatrixInv, Shape, Matrix!Streams, Matrix!Index
<1>13. Finished'
  <2> SUFFICES ASSUME NEW t \in done, NEW e \in Matrix!Streams
               PROVE  Complete(rejected, t, a'[t][e], e)
    BY <1>1 DEF Finished, Matrix!Streams, Matrix!Index
  <2>1. t \in BOOLEAN /\ t # transposed /\ Complete(rejected, t, a[t][e], e)
    BY <1>2 DEF MatrixInv, Shape, Finished
  <2> QED BY <1>11, <2>1
<1>14. Unstarted'
  <2> SUFFICES ASSUME NEW t \in BOOLEAN \ done, NEW e \in Matrix!Streams, t # transposed
               PROVE  a'[t][e] = << >>
    BY <1>1 DEF Unstarted, Matrix!Streams, Matrix!Index
  <2>1. a[t][e] = << >>
    BY DEF MatrixInv, Unstarted
  <2> QED BY <1>11, <2>1
<1>15. Partial'
  <2> SUFFICES ASSUME NEW e \in Matrix!Streams
               PROVE  /\ Before(e, i, j) => Complete(rejected, transposed, a'[transposed][e], e)
                      /\ ~Before(e, i, j) /\ e # << i, j >> => a'[transposed][e] = << >>
    BY <1>1 DEF Partial, Matrix!Streams, Matrix!Index
  <2>1. e = << i, j >> => ~Before(e, i, j)
    BY <1>2 DEF Before, Matrix!Index
  <2>2. e # << i, j >> => a'[transposed][e] = a[transposed][e]
    BY <1>2, <1>11
  <2>3. /\ Before(e, i, j) => Complete(rejected, transposed, a[transposed][e], e)
        /\ ~Before(e, i, j) /\ e # << i, j >> => a[transposed][e] = << >>
    BY <1>1 DEF MatrixInv, Partial
  <2> QED BY <2>1, <2>2, <2>3
<1>16. Read(rejected, a'[transposed][<< i, j >>], n + Len(kept), x,
            squeezed, Len(buf), place', buf)
  <2>1. y + 1 \in Nat /\ 3 * (y + 1) = 3 * y + 3 /\ 2 * (u + (y + 1)) = 2 * (u + y) + 2
    OBVIOUS
  <2>2. place' = 3 * (y + 1)
    BY <1>1, <1>5, <2>1
  <2>3. n + Len(kept) < N =>
          Matrix!Numbers(a'[transposed][<< i, j >>], n + Len(kept))
            = Accepted(rejected, x, 2 * (u + (y + 1)))
    BY <1>10, <1>11, <2>1 DEF l
  <2> HIDE DEF n
  <2> QED BY <1>5, <1>6, <2>1, <2>2, <2>3, Zenon DEF Read
<1>17. Filling'
  <2>1. ctr' + fill' = n + Len(kept) /\ ctr' \in Nat /\ fill' \in Nat /\ ctr' + fill' <= N
    BY <1>1, <1>3, <1>10
  <2>2. Held(rejected', a'[transposed'][<< i', j' >>], ctr' + fill', Matrix!Stream(transposed', i', j'))
    <3> HIDE DEF n
    <3> QED BY <1>1, <1>10, <1>11, <2>1 DEF x
  <2>3. Read(rejected', a'[transposed'][<< i', j' >>], ctr' + fill', Matrix!Stream(transposed', i', j'),
            squeezed', Len(buf'), place', buf')
    <3> HIDE DEF n
    <3> QED BY <1>1, <1>16, <2>1 DEF x
  <2> QED BY <2>1, <2>2, <2>3 DEF Filling
<1> QED BY <1>12, <1>13, <1>14, <1>15, <1>17 DEF MatrixInv

LEMMA EndEntryKeeps ==
  ASSUME MatrixInv, Matrix!EndEntry
  PROVE  MatrixInv'
<1>1. /\ entryPc = "rej_uniform" /\ ctr + fill >= N
      /\ UNCHANGED << rejected, transposed, a >>
  BY DEF Matrix!EndEntry
<1>2. /\ i \in 0..(K - 1) /\ j \in 0..(K - 1) /\ K \in Nat \ {0}
      /\ transposed \in BOOLEAN /\ transposed \notin done
  BY <1>1, Sizes DEF MatrixInv, Shape, Matrix!Index
<1>3. Held(rejected, a[transposed][<< i, j >>], N, Matrix!Stream(transposed, i, j))
  <2>1. ctr + fill = N
    BY <1>1, Sizes DEF MatrixInv, Filling
  <2> QED BY <1>1, <2>1 DEF MatrixInv, Filling
<1>4. ASSUME NEW e \in Matrix!Streams, Before(e, i, j) \/ e = << i, j >>
      PROVE  Complete(rejected, transposed, a[transposed][e], e)
  <2>1. CASE e = << i, j >>
    <3>1. e[1] = i /\ e[2] = j
      BY <2>1
    <3> QED BY <1>3, <2>1, <3>1, Zenon DEF Complete
  <2>2. CASE Before(e, i, j)
    BY <1>1, <2>2 DEF MatrixInv, Partial
  <2> QED BY <1>4, <2>1, <2>2
<1>5. ASSUME NEW e \in Matrix!Streams, ~Before(e, i, j), e # << i, j >>
      PROVE  a[transposed][e] = << >>
  BY <1>1, <1>5 DEF MatrixInv, Partial
<1>6. \A e \in Matrix!Streams :
        /\ e = << e[1], e[2] >> /\ e[1] \in 0..(K - 1) /\ e[2] \in 0..(K - 1)
  BY DEF Matrix!Streams, Matrix!Index
<1>7. CASE i = K - 1 /\ j = K - 1
  <2>1. entryPc' = "idle" /\ done' = done \cup {transposed} /\ UNCHANGED << i, j >>
    BY <1>7 DEF Matrix!EndEntry
  <2>2. Shape'
    BY <1>1, <1>2, <2>1 DEF MatrixInv, Shape, Matrix!Streams, Matrix!Index
  <2>3. Finished'
    <3> SUFFICES ASSUME NEW t \in done \cup {transposed}, NEW e \in Matrix!Streams
                 PROVE  Complete(rejected, t, a[t][e], e)
      BY <1>1, <2>1 DEF Finished, Matrix!Streams, Matrix!Index
    <3>1. CASE t \in done
      BY <3>1 DEF MatrixInv, Finished
    <3>2. CASE t = transposed
      <4>1. Before(e, i, j) \/ e = << i, j >>
        <5>1. e = << e[1], e[2] >> /\ e[1] \in 0..(K - 1) /\ e[2] \in 0..(K - 1)
          BY <1>6
        <5>2. e[1] < i \/ (e[1] = i /\ e[2] < j) \/ (e[1] = i /\ e[2] = j)
          BY <1>2, <1>7, <5>1
        <5> QED BY <5>1, <5>2, Zenon DEF Before
      <4> QED BY <1>4, <3>2, <4>1
    <3> QED BY <3>1, <3>2
  <2>4. Unstarted'
    <3> SUFFICES ASSUME NEW t \in BOOLEAN \ (done \cup {transposed}), NEW e \in Matrix!Streams
                 PROVE  a[t][e] = << >>
      BY <1>1, <2>1 DEF Unstarted, Matrix!Streams, Matrix!Index
    <3> QED BY DEF MatrixInv, Unstarted
  <2>5. Partial' /\ Filling'
    BY <2>1 DEF Partial, Filling
  <2> QED BY <2>2, <2>3, <2>4, <2>5 DEF MatrixInv
<1>8. CASE ~(i = K - 1 /\ j = K - 1)
  <2>1. /\ entryPc' = "entry" /\ UNCHANGED done
        /\ j' = (j + 1) % K /\ i' = IF j = K - 1 THEN i + 1 ELSE i
    BY <1>8, Zenon DEF Matrix!EndEntry
  <2>2. \/ j = K - 1 /\ i < K - 1 /\ j' = 0 /\ i' = i + 1
        \/ j < K - 1 /\ j' = j + 1 /\ i' = i
    <3>1. CASE j = K - 1
      <4>1. j + 1 = K /\ K % K = 0 /\ i < K - 1
        BY <1>2, <1>8, <3>1
      <4> QED BY <2>1, <3>1, <4>1
    <3>2. CASE j # K - 1
      <4>1. j + 1 \in 0..(K - 1) /\ j < K - 1
        BY <1>2, <3>2
      <4>2. (j + 1) % K = j + 1
        BY <1>2, <4>1, SmallDiv
      <4> QED BY <2>1, <3>2, <4>1, <4>2
    <3> QED BY <3>1, <3>2
  <2>3. i' \in 0..(K - 1) /\ j' \in 0..(K - 1)
    BY <1>2, <2>2
  <2>4. Shape'
    BY <1>1, <1>2, <2>1, <2>3 DEF MatrixInv, Shape, Matrix!Streams, Matrix!Index
  <2>5. Finished' /\ Unstarted'
    BY <1>1, <2>1 DEF MatrixInv, Finished, Unstarted
  <2>6. \A e \in Matrix!Streams : Before(e, i', j') <=> Before(e, i, j) \/ e = << i, j >>
    <3> SUFFICES ASSUME NEW e \in Matrix!Streams
                 PROVE  Before(e, i', j') <=> Before(e, i, j) \/ e = << i, j >>
      OBVIOUS
    <3>1. e = << e[1], e[2] >> /\ e[1] \in 0..(K - 1) /\ e[2] \in 0..(K - 1)
      BY <1>6
    <3>2. e = << i, j >> <=> e[1] = i /\ e[2] = j
      BY <3>1
    <3>3. (e[1] < i' \/ (e[1] = i' /\ e[2] < j'))
            <=> e[1] < i \/ (e[1] = i /\ e[2] < j) \/ (e[1] = i /\ e[2] = j)
      BY <1>2, <2>2, <3>1
    <3> QED BY <3>2, <3>3, Zenon DEF Before
  <2>7. Partial'
    <3> SUFFICES ASSUME NEW e \in Matrix!Streams
                 PROVE  /\ Before(e, i', j') => Complete(rejected, transposed, a[transposed][e], e)
                        /\ ~Before(e, i', j') => a[transposed][e] = << >>
      BY <1>1 DEF Partial, Matrix!Streams, Matrix!Index
    <3> QED BY <1>4, <1>5, <2>6
  <2>8. Filling'
    BY <2>1 DEF Filling
  <2> QED BY <2>4, <2>5, <2>7, <2>8 DEF MatrixInv
<1> QED BY <1>7, <1>8

LEMMA MatrixStep == MatrixInv /\ Matrix!Next => MatrixInv'
BY BeginMatrixKeeps, BeginEntryKeeps, RejUniformKeeps, RefillKeeps, EndEntryKeeps, Zenon
   DEF Matrix!Next, Matrix!Proceed

(* What the invariant says in the words of Sampling.                       *)
LEMMA HeldHoldsFirst ==
  ASSUME NEW e, NEW n, NEW x, Held(rejected, e, n, x)
  PROVE  Matrix!HoldsFirst(e, n, x)
<1>1. \A v : Matrix!BelowQ(v) <=> SmallEnough(rejected, v)
  BY DEF Matrix!BelowQ, SmallEnough
<1>2. \A l : Matrix!AcceptedBelow(x, l) = Accepted(rejected, x, l)
  BY <1>1 DEF Matrix!AcceptedBelow, Accepted
<1>3. DOMAIN e = 0..(n - 1)
  BY Zenon DEF Held
<1> QED BY <1>1, <1>2, <1>3, Zenon DEF Matrix!HoldsFirst, Held

LEMMA MatrixEntries == MatrixInv => Matrix!EntriesFromStreams
<1> SUFFICES ASSUME MatrixInv PROVE Matrix!EntriesFromStreams
  OBVIOUS
<1>1. ASSUME entryPc = "rej_uniform"
      PROVE  /\ ctr + fill <= N
             /\ Matrix!HoldsFirst(a[transposed][<< i, j >>], ctr + fill, Matrix!Stream(transposed, i, j))
  BY <1>1, HeldHoldsFirst DEF MatrixInv, Filling
<1>2. ASSUME NEW t \in done, NEW e \in Matrix!Streams
      PROVE  Matrix!HoldsFirst(a[t][e], N, Matrix!Stream(t, e[1], e[2]))
  <2>1. Complete(rejected, t, a[t][e], e)
    BY DEF MatrixInv, Finished
  <2> QED BY <2>1, HeldHoldsFirst DEF Complete
<1> QED BY <1>1, <1>2 DEF Matrix!EntriesFromStreams

LEMMA MatrixTransposed == MatrixInv => Matrix!TransposeAgrees
<1> SUFFICES ASSUME MatrixInv, done = BOOLEAN, NEW row \in Matrix!Index, NEW col \in Matrix!Index
             PROVE  a[TRUE][<< row, col >>] = a[FALSE][<< col, row >>]
  BY DEF Matrix!TransposeAgrees
<1> DEFINE e == << row, col >>
           g == << col, row >>
<1>1. e \in Matrix!Streams /\ g \in Matrix!Streams /\ TRUE \in done /\ FALSE \in done
  BY DEF Matrix!Streams
<1>2. Matrix!Stream(TRUE, e[1], e[2]) = << row, col >> /\ Matrix!Stream(FALSE, g[1], g[2]) = << row, col >>
  BY DEF Matrix!Stream
<1> HIDE DEF e, g
<1>3. Complete(rejected, TRUE, a[TRUE][e], e) /\ Complete(rejected, FALSE, a[FALSE][g], g)
  BY <1>1, Zenon DEF MatrixInv, Finished
<1>4. Held(rejected, a[TRUE][e], N, << row, col >>) /\ Held(rejected, a[FALSE][g], N, << row, col >>)
  BY <1>2, <1>3, Zenon DEF Complete
<1>5. a[TRUE][e] = a[FALSE][g]
  BY <1>4, Sizes, HeldUnique
<1> QED BY <1>5 DEF e, g

LEMMA MatrixKept ==
  (part = "matrix" => MatrixInv) /\ [MCNext]_all => (part = "matrix" => MatrixInv)'
<1> SUFFICES ASSUME part = "matrix" => MatrixInv, [MCNext]_all
             PROVE  (part = "matrix" => MatrixInv)'
  OBVIOUS
<1>1. CASE part = "matrix" /\ Matrix!Next /\ part' = part
  BY <1>1, MatrixStep
<1>2. CASE part # "matrix" /\ part' = part
  BY <1>2
<1>3. CASE UNCHANGED all
  <2>1. UNCHANGED << part, matrixVars >>
    BY <1>3 DEF all
  <2>2. UNCHANGED << rejected, entryPc, transposed, done, i, j, squeezed, buf, ctr, fill, place, a >>
    BY <2>1 DEF matrixVars
  <2>3. MatrixInv <=> MatrixInv'
    BY <2>2 DEF MatrixInv, Shape, Finished, Unstarted, Partial, Filling, Matrix!Streams, Matrix!Index
  <2> QED BY <2>1, <2>3
<1> QED BY <1>1, <1>2, <1>3 DEF MCNext

(* However the candidates of a stream fall into blocks and calls of        *)
(* rej_uniform, an entry holds the first accepted ones, in their order,    *)
(* for every rejection, size and number of blocks.                         *)
THEOREM EntriesSampled == MCSpec => []EntriesFromStreams
<1> DEFINE I == part = "matrix" => MatrixInv
<1>1. MCInit => I
  BY MatrixInit DEF MCInit
<1>2. I /\ [MCNext]_all => I'
  BY MatrixKept
<1>3. I => EntriesFromStreams
  BY MatrixEntries DEF EntriesFromStreams
<1> HIDE DEF I
<1> QED BY <1>1, <1>2, <1>3, PTL DEF MCSpec

(* Encryption multiplies by the transpose of the matrix of key generation: *)
(* an entry is determined by its stream, and the seeds agree.              *)
THEOREM TransposesAgree == MCSpec => []TransposeAgrees
<1> DEFINE I == part = "matrix" => MatrixInv
<1>1. MCInit => I
  BY MatrixInit DEF MCInit
<1>2. I /\ [MCNext]_all => I'
  BY MatrixKept
<1>3. I => TransposeAgrees
  BY MatrixTransposed DEF TransposeAgrees
<1> HIDE DEF I
<1> QED BY <1>1, <1>2, <1>3, PTL DEF MCSpec

=============================================================================
