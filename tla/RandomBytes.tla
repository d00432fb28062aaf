---------------------------- MODULE RandomBytes -----------------------------
(***************************************************************************)
(* randombytes.c and random.cpp: threads that fill buffers from the random *)
(* numbers of the operating system, one system call at a time.  A call may *)
(* be interrupted, may return fewer bytes than it was asked for, and may   *)
(* fail.  The variants are those of the preprocessor: getrandom (Linux and *)
(* NetBSD), a file that is opened once for all threads, Windows, and the   *)
(* two of C++.                                                             *)
(***************************************************************************)
EXTENDS Naturals

CONSTANTS
  Threads,
  Length,       (* outlen                                                *)
  MaxChunk,     (* the most bytes that CryptGenRandom is asked for       *)
  MaxInterrupts (* bound: how often the system interrupts a call         *)

(* Assumed by the modules that instantiate this one.                       *)
RandomAssumption == Length \in Nat /\ MaxChunk \in Nat \ {0}

VARIABLES
  variant,      (* the implementation that was compiled                  *)
  pc,           (* per thread: what its call does next                   *)
  at,           (* per thread: how far out has been advanced             *)
  buf,          (* per thread: the buffer and one byte after it          *)
  fd,           (* fd, static: whether it is a descriptor                *)
  aborted,      (* whether abort has ended the process                   *)
  interrupts,   (* history: how often a call was interrupted             *)
  refused       (* history, per thread: whether the system failed        *)

vars == << variant, pc, at, buf, fd, aborted, interrupts, refused >>

Posix == {"getrandom", "urandom"}
Cpp == {"C++ posix", "C++ windows"}

FirstStep == CASE variant = "getrandom" -> "fill"
               [] variant = "urandom" -> "open"
               [] OTHER -> "acquire"

Init ==
  /\ variant \in Posix \cup Cpp \cup {"windows"}
  /\ pc = [t \in Threads |-> "idle"]
  /\ at = [t \in Threads |-> 0]
  /\ buf = [t \in Threads |-> [i \in 0..Length |-> "old"]]
  /\ fd = FALSE /\ aborted = FALSE /\ interrupts = 0
  /\ refused = [t \in Threads |-> FALSE]

Goto(t, from, to) ==
  /\ ~aborted /\ pc[t] = from
  /\ pc' = [pc EXCEPT ![t] = to]
  /\ UNCHANGED variant

Interrupt ==
  /\ interrupts < MaxInterrupts
  /\ interrupts' = interrupts + 1

(* The system stores n bytes at place p of the buffer.                     *)
Written(b, p, n, what) ==
  [i \in 0..Length |-> IF i >= p /\ i < p + n THEN what ELSE b[i]]

Left(t) == Length - at[t]

-----------------------------------------------------------------------------
Call(t) ==
  /\ Goto(t, "idle", FirstStep)
  /\ UNCHANGED << at, buf, fd, aborted, interrupts, refused >>

(* open: the loop is left when there is a descriptor.                      *)
FileIsOpen(t) ==
  /\ Goto(t, "open", "fill") /\ fd
  /\ UNCHANGED << at, buf, fd, aborted, interrupts, refused >>

Open(t) ==
  /\ Goto(t, "open", "opening") /\ ~fd
  /\ UNCHANGED << at, buf, fd, aborted, interrupts, refused >>

(* A failed call stores -1 even if another thread has opened the file in   *)
(* the meantime; a successful one leaves errno as it was.                  *)
Opened(t) ==
  /\ \E errno \in {"EINTR", "other"} : Goto(t, "opening", errno)
  /\ fd' = TRUE
  /\ UNCHANGED << at, buf, aborted, interrupts, refused >>

OpenInterrupted(t) ==
  /\ Interrupt
  /\ Goto(t, "opening", "EINTR")
  /\ fd' = FALSE
  /\ UNCHANGED << at, buf, aborted, refused >>

OpenFails(t) ==
  /\ Goto(t, "opening", "other")
  /\ fd' = FALSE
  /\ UNCHANGED << at, buf, aborted, interrupts, refused >>

(* Two tests follow, each of which reads fd again: what they find may be   *)
(* what another thread has stored.                                         *)
OpenAgain(t) ==
  /\ Goto(t, "EINTR", "open") /\ ~fd
  /\ UNCHANGED << at, buf, fd, aborted, interrupts, refused >>

NotInterrupted(t) ==
  /\ Goto(t, "other", "retest") \/ (Goto(t, "EINTR", "retest") /\ fd)
  /\ UNCHANGED << at, buf, fd, aborted, interrupts, refused >>

OpenOrAbort(t) ==
  /\ Goto(t, "retest", "open")
  /\ aborted' = ~fd
  /\ UNCHANGED << at, buf, fd, interrupts, refused >>

(* Mutant of Fill: the pointer stays where it is.                          *)
FillInPlace(t, n) ==
  /\ variant \in Posix /\ Left(t) > 0 /\ n <= Left(t)
  /\ variant = "urandom" => fd
  /\ Goto(t, "fill", "fill")
  /\ buf' = [buf EXCEPT ![t] = Written(@, 0, n, "random")]
  /\ at' = [at EXCEPT ![t] = @ + n]
  /\ UNCHANGED << fd, aborted, interrupts, refused >>

(* Mutant of Fill: the bytes are not counted.                              *)
FillUncounted(t, n) ==
  /\ variant \in Posix /\ Left(t) > 0 /\ n <= Left(t)
  /\ variant = "urandom" => fd
  /\ Goto(t, "fill", "fill")
  /\ buf' = [buf EXCEPT ![t] = Written(@, at[t], n, "random")]
  /\ UNCHANGED << at, fd, aborted, interrupts, refused >>

(* getrandom or read returns n bytes.                                      *)
Fill(t, n) ==
  /\ variant \in Posix /\ Left(t) > 0 /\ n <= Left(t)
  /\ variant = "urandom" => fd
  /\ Goto(t, "fill", "fill")
  /\ buf' = [buf EXCEPT ![t] = Written(@, at[t], n, "random")]
  /\ at' = [at EXCEPT ![t] = @ + n]
  /\ UNCHANGED << fd, aborted, interrupts, refused >>

(* EINTR: once more.                                                       *)
Interrupted(t) ==
  /\ variant \in Posix /\ Left(t) > 0
  /\ variant = "urandom" => fd
  /\ Interrupt
  /\ Goto(t, "fill", "fill")
  /\ UNCHANGED << at, buf, fd, aborted, refused >>

(* Any other error.                                                        *)
FillFails(t) ==
  /\ variant \notin Cpp /\ Left(t) > 0
  /\ Goto(t, "fill", "fill")
  /\ aborted' = TRUE
  /\ UNCHANGED << at, buf, fd, interrupts, refused >>

(* read has one when an open that was interrupted has taken back fd.       *)
ReadOfNoFile(t) ==
  /\ variant = "urandom" /\ ~fd /\ Left(t) > 0
  /\ Goto(t, "fill", "fill")
  /\ aborted' = TRUE
  /\ UNCHANGED << at, buf, fd, interrupts, refused >>

Return(t) ==
  /\ variant \in Posix /\ Left(t) = 0
  /\ Goto(t, "fill", "returned")
  /\ UNCHANGED << at, buf, fd, aborted, interrupts, refused >>

-----------------------------------------------------------------------------
(* Windows: CryptAcquireContext, CryptGenRandom of a chunk at a time,      *)
(* CryptReleaseContext.                                                    *)
Acquire(t) ==
  /\ variant \notin Posix
  /\ Goto(t, "acquire", "fill")
  /\ UNCHANGED << at, buf, fd, aborted, interrupts, refused >>

AcquireFails(t) ==
  /\ variant = "windows"
  /\ Goto(t, "acquire", "acquire")
  /\ aborted' = TRUE
  /\ UNCHANGED << at, buf, fd, interrupts, refused >>

FillChunk(t) ==
  /\ variant = "windows" /\ Left(t) > 0
  /\ Goto(t, "fill", "fill")
  /\ LET len == IF Left(t) > MaxChunk THEN MaxChunk ELSE Left(t)
     IN  /\ buf' = [buf EXCEPT ![t] = Written(@, at[t], len, "random")]
         /\ at' = [at EXCEPT ![t] = @ + len]
  /\ UNCHANGED << fd, aborted, interrupts, refused >>

Release(t) ==
  /\ variant = "windows" /\ Left(t) = 0
  /\ Goto(t, "fill", "returned")
  /\ aborted' \in BOOLEAN
  /\ UNCHANGED << at, buf, fd, interrupts, refused >>

-----------------------------------------------------------------------------
(* C++: a file that cannot be opened leaves the buffer as it was; without  *)
(* a context it is filled by rand().  The caller is told neither.          *)
CppRefused(t) ==
  /\ variant \in Cpp
  /\ Goto(t, "acquire", "returned")
  /\ buf' = [buf EXCEPT ![t] =
               IF variant = "C++ posix" THEN @ ELSE Written(@, 0, Length, "rand()")]
  /\ refused' = [refused EXCEPT ![t] = TRUE]
  /\ UNCHANGED << at, fd, aborted, interrupts >>

(* One fread or CryptGenRandom of everything, whose result is ignored.     *)
CppFill(t, n) ==
  /\ variant \in Cpp
  /\ Goto(t, "fill", "returned")
  /\ buf' = [buf EXCEPT ![t] = Written(@, 0, n, "random")]
  /\ refused' = [refused EXCEPT ![t] = n < Length]
  /\ UNCHANGED << at, fd, aborted, interrupts >>

Goes(t) ==
  \/ FileIsOpen(t) \/ Open(t) \/ Opened(t) \/ OpenAgain(t) \/ NotInterrupted(t)
  \/ OpenOrAbort(t) \/ ReadOfNoFile(t)
  \/ \E n \in 1..Length : Fill(t, n)
  \/ Return(t) \/ Acquire(t) \/ FillChunk(t) \/ Release(t)
  \/ \E n \in 0..Length : CppFill(t, n)

Fails(t) ==
  \/ OpenInterrupted(t) \/ OpenFails(t) \/ Interrupted(t) \/ FillFails(t)
  \/ AcquireFails(t) \/ CppRefused(t)

Next == \E t \in Threads : Call(t) \/ Goes(t) \/ Fails(t)

Spec == Init /\ [][Next]_vars

(* A call that has begun goes on; nobody has to call, and nothing has to   *)
(* fail.                                                                   *)
Fairness == \A t \in Threads : WF_vars(Goes(t))

FairSpec == Spec /\ Fairness

-----------------------------------------------------------------------------
(* However calls are cut into pieces, interrupted or interleaved, a buffer *)
(* that randombytes returns holds random bytes at every place and nothing  *)
(* was written after it; of the C++ variants this holds unless the system  *)
(* failed, which only refused knows.                                       *)
FilledWhenReturned ==
  \A t \in Threads :
    /\ pc[t] = "returned" /\ ~refused[t] /\ ~aborted =>
         \A i \in 0..(Length - 1) : buf[t][i] = "random"
    /\ variant \notin Cpp => ~refused[t]
    /\ buf[t][Length] = "old"

(* A call returns, or the process has been aborted.                        *)
RandomCallsEnd ==
  \A t \in Threads : pc[t] # "idle" ~> pc[t] = "returned" \/ aborted

=============================================================================
