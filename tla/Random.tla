-------------------------------- MODULE Random --------------------------------
(***************************************************************************)
(* Random numbers: random_init with the entropy pool at boot, and then     *)
(* threads that take numbers from the generator, preempted anywhere.       *)
(* core/random.c, core/entropy.c, core/mt19937_64.c.                       *)
(*                                                                         *)
(* Of the numbers only their origin is kept: a byte of the pool is the     *)
(* serial number of the entropy_pool_seed that put it there, 0 for none,   *)
(* and a random number is the index of the state word it is made of.       *)
(*                                                                         *)
(* The locks are what Lock shows of a lock without readers: who finds one  *)
(* taken never gets it, the holder included.                               *)
(***************************************************************************)
EXTENDS Integers, Sequences, FiniteSets

CONSTANTS
    Callers,            \* threads that call random_number
    Entropy_Pool_Size,
    Qword,              \* bytes of the seed and of a jitter measurement
    N                   \* words of the generator's state

(* The holder of the lock is told apart from nobody. *)
ASSUME RandomAssumption == N \in Nat /\ "free" \notin Callers

VARIABLES
    pool, Entropy_Pool_Index,
    seedings,           \* entropy_pool_seed calls so far
    seed,               \* origins of the bytes taken for the seed
    random_number_function,     \* "NULL", "rdrand" or "mt19937_64"
    MT19937_64_Index, MT19937_64_Lock,
    caller,             \* where each caller is
    drawn               \* history: numbers given, in order

random == <<pool, Entropy_Pool_Index, seedings, seed, random_number_function,
            MT19937_64_Index, MT19937_64_Lock, caller, drawn>>
entropy == <<pool, Entropy_Pool_Index, seedings, seed>>

RandomInit ==
    /\ pool = [k \in 0 .. Entropy_Pool_Size - 1 |-> 0] /\ Entropy_Pool_Index = 0
    /\ seedings = 0 /\ seed = <<>>
    /\ random_number_function = "NULL"
    /\ MT19937_64_Index = N + 1 /\ MT19937_64_Lock = "free"
    /\ caller = [t \in Callers |-> "idle"]
    /\ drawn = <<>>

-------------------------------------------------------------------------------
(* random_init runs before there are other threads: only the interrupt     *)
(* entry could take entropy_lock besides, and on the vectors where it      *)
(* does, those of exceptions, the dispatcher stops the machine.            *)
UsesRdrand ==
    /\ random_number_function = "NULL" /\ seed = <<>>
    /\ random_number_function' = "rdrand"
    /\ UNCHANGED <<entropy, MT19937_64_Index, MT19937_64_Lock, caller, drawn>>

(* entropy_pool_seed: the index moves before the byte is stored. *)
entropy_pool_seed ==
    /\ Entropy_Pool_Index' = Entropy_Pool_Index + 1
    /\ pool' = [pool EXCEPT ![Entropy_Pool_Index'] = seedings + 1]
    /\ seedings' = seedings + 1

(* entropy_pool_consume on an empty pool measures first, for a whole word. *)
Wanting == random_number_function = "NULL" /\ Len(seed) < Qword
ConsumeMeasure ==
    /\ Wanting
    /\ Entropy_Pool_Index < 0 \/ seedings % Qword # 0
    /\ entropy_pool_seed
    /\ UNCHANGED <<seed, random_number_function, MT19937_64_Index, MT19937_64_Lock, caller, drawn>>
Consume ==
    /\ Wanting /\ Entropy_Pool_Index >= 0 /\ seedings % Qword = 0
    /\ seed' = Append(seed, pool[Entropy_Pool_Index])
    /\ Entropy_Pool_Index' = Entropy_Pool_Index - 1
    /\ UNCHANGED <<pool, seedings, random_number_function, MT19937_64_Index, MT19937_64_Lock,
                   caller, drawn>>

mt19937_64_seed ==
    /\ random_number_function = "NULL" /\ Len(seed) = Qword
    /\ MT19937_64_Index' = 0
    /\ random_number_function' = "mt19937_64"
    /\ UNCHANGED <<entropy, MT19937_64_Lock, caller, drawn>>

-------------------------------------------------------------------------------
(* mt19937_64_get_random_number. *)
At(t, from, to) == caller[t] = from /\ caller' = [caller EXCEPT ![t] = to]

Rdrand(t) ==
    /\ random_number_function = "rdrand" /\ Len(drawn) < N
    /\ drawn' = Append(drawn, -1)
    /\ UNCHANGED <<entropy, random_number_function, MT19937_64_Index, MT19937_64_Lock, caller>>

TakeLockAlways(t) ==
    /\ random_number_function = "mt19937_64"
    /\ At(t, "idle", "assert")
    /\ MT19937_64_Lock' = t
    /\ UNCHANGED <<entropy, random_number_function, MT19937_64_Index, drawn>>
TakeLock(t) ==
    /\ random_number_function = "mt19937_64"
    /\ IF MT19937_64_Lock = "free" THEN At(t, "idle", "assert") /\ MT19937_64_Lock' = t
                                   ELSE At(t, "idle", "spinning") /\ UNCHANGED MT19937_64_Lock
    /\ UNCHANGED <<entropy, random_number_function, MT19937_64_Index, drawn>>

Check(t) ==
    /\ IF MT19937_64_Index > N THEN At(t, "assert", "panicked")
       ELSE IF MT19937_64_Index = N THEN At(t, "assert", "twist")
       ELSE At(t, "assert", "read")
    /\ UNCHANGED <<entropy, random_number_function, MT19937_64_Index, MT19937_64_Lock, drawn>>

(* mt19937_64_twist acquires the lock that its caller holds. *)
Twist(t) ==
    /\ IF MT19937_64_Lock = "free"
       THEN At(t, "twist", "read") /\ MT19937_64_Index' = 0
       ELSE At(t, "twist", "spinning") /\ UNCHANGED MT19937_64_Index
    /\ UNCHANGED <<entropy, random_number_function, MT19937_64_Lock, drawn>>

(* The word is read in one step and the index moved on in another. *)
Read(t) ==
    /\ At(t, "read", "index++")
    /\ drawn' = Append(drawn, MT19937_64_Index)
    /\ UNCHANGED <<entropy, random_number_function, MT19937_64_Index, MT19937_64_Lock>>
Advance(t) ==
    /\ At(t, "index++", "release")
    /\ MT19937_64_Index' = MT19937_64_Index + 1
    /\ UNCHANGED <<entropy, random_number_function, MT19937_64_Lock, drawn>>
Release(t) ==
    /\ At(t, "release", "idle")
    /\ MT19937_64_Lock' = "free"
    /\ UNCHANGED <<entropy, random_number_function, MT19937_64_Index, drawn>>

RandomNext ==
    \/ UsesRdrand \/ ConsumeMeasure \/ Consume \/ mt19937_64_seed
    \/ \E t \in Callers : Rdrand(t) \/ TakeLock(t) \/ Check(t) \/ Twist(t)
                            \/ Read(t) \/ Advance(t) \/ Release(t)

RandomSpec == RandomInit /\ [][RandomNext]_random

-------------------------------------------------------------------------------
(* However the callers interleave, the generator gives each word of its    *)
(* state at most once, in order: two callers never get the same number.    *)
NumbersInOrder ==
    random_number_function = "mt19937_64" =>
        /\ Len(drawn) <= N
        /\ \A k \in DOMAIN drawn : drawn[k] = k - 1
        /\ \A t \in Callers : caller[t] # "panicked"

(* After N numbers the generator is never heard of again: the twist waits  *)
(* for the lock that its own caller holds, and so does everyone after it.  *)
GeneratorRunsDry ==
    [][random_number_function = "mt19937_64" /\ MT19937_64_Index = N => MT19937_64_Index' = N /\ drawn' = drawn]_random
===============================================================================
