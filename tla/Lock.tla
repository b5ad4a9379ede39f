-------------------------------- MODULE Lock --------------------------------
(***************************************************************************)
(* The reader/writer spin lock of kernel/core/lock.c, one action per       *)
(* atomic operation on the two words of struct lock.  Threads are          *)
(* preempted between any two of them.                                      *)
(*                                                                         *)
(* A compare-and-exchange that fails writes the value it saw back into the *)
(* caller's `expected', and neither acquire function sets it to false      *)
(* again before it retries: a caller that lost once next asks for a lock   *)
(* whose flag is already set.                                              *)
(***************************************************************************)
EXTENDS Naturals, FiniteSets

CONSTANTS
    Readers,    \* threads that call lock_acquire_reader and lock_release_reader
    Writers     \* threads that call lock_acquire_writer and lock_release_writer

Threads == Readers \cup Writers

ASSUME ThreadsFinite == IsFiniteSet(Threads)

VARIABLES
    writer,     \* lock->writer
    readers,    \* lock->readers
    expected,   \* each caller's local comparand for the exchange
    pc,         \* the operation each thread performs next
    failed,     \* the assertion that stopped the machine, or "none"
    shared      \* history: a reader has called lock_acquire_reader

lock == <<writer, readers, expected, pc, failed, shared>>

PC == {"idle", "reader_cas", "reader_add", "reader_store", "reading",
       "writer_cas", "writer_spin", "writing", "assert_readers",
       "release_store"}

Assertions == {"none", "writer", "readers"}

LockTypeOK ==
    /\ writer \in BOOLEAN
    /\ readers \in Nat
    /\ expected \in [Threads -> BOOLEAN]
    /\ pc \in [Threads -> PC]
    /\ failed \in Assertions
    /\ shared \in BOOLEAN

(* The static initialiser Lock_Clear: no reader, no writer. *)
LockInit ==
    /\ writer = FALSE
    /\ readers = 0
    /\ expected = [t \in Threads |-> FALSE]
    /\ pc = [t \in Threads |-> "idle"]
    /\ failed = "none"
    /\ shared = FALSE

Goto(t, from, to) ==
    /\ failed = "none"
    /\ pc[t] = from
    /\ pc' = [pc EXCEPT ![t] = to]

(* atomic_compare_exchange_weak(&lock->writer, &expected, true), which     *)
(* does not fail spuriously on x86: won continues the caller at the first  *)
(* label, lost at the second.                                              *)
CompareExchange(t, from, won, lost) ==
    \/ /\ writer = expected[t]
       /\ Goto(t, from, won)
       /\ writer' = TRUE
       /\ UNCHANGED <<readers, expected, failed, shared>>
    \/ /\ writer # expected[t]
       /\ Goto(t, from, lost)
       /\ expected' = [expected EXCEPT ![t] = writer]
       /\ UNCHANGED <<writer, readers, failed, shared>>

-----------------------------------------------------------------------------

(* lock_acquire_reader: take the writer flag, count the reader, drop the   *)
(* flag.                                                                   *)
AcquireReader(t) ==
    /\ t \in Readers
    /\ Goto(t, "idle", "reader_cas")
    /\ expected' = [expected EXCEPT ![t] = FALSE]
    /\ shared' = TRUE
    /\ UNCHANGED <<writer, readers, failed>>

ReaderCompareExchange(t) ==
    CompareExchange(t, "reader_cas", "reader_add", "reader_cas")

ReaderAddLost(t) ==
    /\ Goto(t, "reader_add", "reader_store")
    /\ UNCHANGED <<writer, readers, expected, failed, shared>>

ReaderAdd(t) ==
    /\ Goto(t, "reader_add", "reader_store")
    /\ readers' = readers + 1
    /\ UNCHANGED <<writer, expected, failed, shared>>

ReaderStore(t) ==
    /\ Goto(t, "reader_store", "reading")
    /\ writer' = FALSE
    /\ UNCHANGED <<readers, expected, failed, shared>>

ReleaseReader(t) ==
    /\ Goto(t, "reading", "idle")
    /\ readers' = readers - 1
    /\ UNCHANGED <<writer, expected, failed, shared>>

(* lock_acquire_writer: a lost exchange spins until some reader is         *)
(* counted, and only then tries again.                                     *)
AcquireWriter(t) ==
    /\ t \in Writers
    /\ Goto(t, "idle", "writer_cas")
    /\ expected' = [expected EXCEPT ![t] = FALSE]
    /\ UNCHANGED <<writer, readers, failed, shared>>

WriterCompareExchange(t) ==
    CompareExchange(t, "writer_cas", "writing", "writer_spin")

WriterSpinOnce(t) ==
    /\ Goto(t, "writer_spin", "writer_cas")
    /\ UNCHANGED <<writer, readers, expected, failed, shared>>

WriterSpin(t) ==
    /\ readers # 0
    /\ Goto(t, "writer_spin", "writer_cas")
    /\ UNCHANGED <<writer, readers, expected, failed, shared>>

(* lock_release_writer: two assertions, each on its own atomic load, and   *)
(* the store.  A false assertion panics: interrupts off, machine halted.   *)
AssertWriter(t) ==
    /\ Goto(t, "writing", "assert_readers")
    /\ failed' = IF writer THEN "none" ELSE "writer"
    /\ UNCHANGED <<writer, readers, expected, shared>>

AssertReaders(t) ==
    /\ Goto(t, "assert_readers", "release_store")
    /\ failed' = IF readers = 0 THEN "none" ELSE "readers"
    /\ UNCHANGED <<writer, readers, expected, shared>>

ReleaseStore(t) ==
    /\ Goto(t, "release_store", "idle")
    /\ writer' = FALSE
    /\ UNCHANGED <<readers, expected, failed, shared>>

LockNext ==
    \E t \in Threads :
        \/ AcquireReader(t) \/ ReaderCompareExchange(t) \/ ReaderAdd(t)
        \/ ReaderStore(t) \/ ReleaseReader(t)
        \/ AcquireWriter(t) \/ WriterCompareExchange(t) \/ WriterSpin(t)
        \/ AssertWriter(t) \/ AssertReaders(t) \/ ReleaseStore(t)

LockSpec == LockInit /\ [][LockNext]_lock

-----------------------------------------------------------------------------

CountedReaders == {t \in Threads : pc[t] \in {"reader_store", "reading"}}

WriteHolders ==
    {t \in Threads : pc[t] \in {"writing", "assert_readers", "release_store"}}

(* lock->readers is the number of threads between their increment and      *)
(* their decrement, however acquisitions and releases interleave; so a     *)
(* release never takes the unsigned counter below zero.                    *)
ReadersCounted == readers = Cardinality(CountedReaders)

(* Until a reader uses the lock (and only Current_Thread_Lock has readers) *)
(* at most one writer holds it: the stale `expected' is never presented    *)
(* again because the loser cannot leave its inner loop while               *)
(* lock->readers is zero.  And the assertions of lock_release_writer hold; *)
(* afterwards either can fail.                                             *)
WriterExclusion ==
    ~shared => (\A s, t \in WriteHolders : s = t) /\ failed = "none"

(* The price of WriterExclusion: until a reader uses the lock, a writer    *)
(* that loses its exchange never acquires it, not even after the holder    *)
(* has released it.                                                        *)
LoserNeverReturns ==
    [][~shared' =>
        \A t \in Threads : pc[t] = "writer_spin" => pc'[t] = "writer_spin"]_lock

(* assert(lock->writer == true) in lock_release_writer: the flag a writer  *)
(* set is still set when it releases.                                      *)
WriterFlagSurvives == failed # "writer"
=============================================================================
