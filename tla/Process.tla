-------------------------------- MODULE Process -------------------------------
(***************************************************************************)
(* Creating and ending processes: core/process.c with thread_user_stack_-  *)
(* init of arch_process.c and page_table_init of paging.c.  Any allocation *)
(* may fail.                                                               *)
(*                                                                         *)
(* Of a process the model keeps what its creation obtained and still       *)
(* holds: "proc", "threads", "page_table" and "thread" are blocks of the   *)
(* heap, "vector", "kernel_stack" pages of the slab, "root" the frame of   *)
(* the top page table with the tables below it, "user_stack" the frames    *)
(* mapped there.  The stacks of further threads are not counted.           *)
(***************************************************************************)
EXTENDS Integers, FiniteSets

CONSTANTS
    Attempts,       \* calls of process_init
    Pid_Count,      \* values of an unsigned int
    Thread_Pool_Default_Size

(* There is a pid, and nobody is told apart from every process. *)
ASSUME ProcessAssumption == Pid_Count \in Nat \ {0} /\ "nobody" \notin Attempts

VARIABLES
    stage,          \* [Attempts -> Stages]
    held,           \* what each attempt holds
    failed_at,      \* what each failed attempt could not get, or "nothing"
    next_pid, Process_Pool,
    id, start_pid,
    slots,          \* threads in proc->threads
    enlisted,       \* processes whose first thread is in the scheduler's ring
    process_refs, thread_refs,  \* ref_count of process and of first thread
    halted          \* "no", or what stopped the machine or broke its heap

refs == <<process_refs, thread_refs>>
process == <<stage, held, failed_at, next_pid, Process_Pool, id, start_pid, slots, enlisted, refs, halted>>
Stages == {"none", "built", "placing", "placed", "running", "failed", "ended"}

Pids == 0 .. Pid_Count - 1
NOBODY == "nobody"
Everything == {"proc", "threads", "vector", "page_table", "root", "thread", "kernel_stack", "user_stack"}

(* object_clear sets the count to ATOMIC_INT_LOCK_FREE, which is 2. *)
object_clear == 2

ProcessInit ==
    /\ stage = [p \in Attempts |-> "none"] /\ held = [p \in Attempts |-> {}]
    /\ failed_at = [p \in Attempts |-> "nothing"]
    /\ next_pid = 0 /\ Process_Pool = [i \in Pids |-> NOBODY]
    /\ id = [p \in Attempts |-> 0] /\ start_pid = [p \in Attempts |-> 0]
    /\ slots = [p \in Attempts |-> 0]
    /\ enlisted = {} /\ process_refs = [p \in Attempts |-> 0] /\ thread_refs = [p \in Attempts |-> 0]
    /\ halted = "no"

-------------------------------------------------------------------------------
(* The err label frees what process_init's own variables point to.         *)
ErrKeepsThread(got, thread_returned) ==
    got \ ({"proc", "threads", "vector"} \cup (IF "root" \in got THEN {"page_table"} ELSE {}))
Err(got, thread_returned) ==
    got \ ({"proc", "threads", "vector"}
           \cup (IF "root" \in got THEN {"page_table"} ELSE {})
           \cup (IF thread_returned THEN {"thread"} ELSE {}))

(* What is held when the named allocation fails.  thread_init and          *)
(* thread_user_stack_init give back what they obtained themselves;         *)
(* page_table_init does not.                                               *)
HeldBefore(what) ==
    CASE what = "proc" -> {}
      [] what = "threads" -> {"proc"}
      [] what = "vector" -> {"proc", "threads"}
      [] what = "root" -> {"proc", "threads", "vector", "page_table"}
      [] OTHER -> {"proc", "threads", "vector", "page_table", "root"}

(* processes_init makes the first process before anything else runs, and   *)
(* bootstrap_thread_init asserts that there is one.                        *)
Bootstrapped == \E p \in Attempts : stage[p] \in {"running", "ended"}
MayBegin(p) ==
    /\ halted = "no" /\ stage[p] = "none"
    /\ Bootstrapped \/ \A q \in Attempts : stage[q] = "none"
Fails(p, what, got, thread_returned) ==
    /\ stage' = [stage EXCEPT ![p] = "failed"] /\ failed_at' = [failed_at EXCEPT ![p] = what]
    /\ held' = [held EXCEPT ![p] = Err(got, thread_returned)]
    /\ halted' = IF Bootstrapped THEN "no" ELSE "assert"

(* process_init up to process_add_pool.  Its thread takes the first slot:  *)
(* proc->thread_capacity, not set yet, holds the heap's fill, a large      *)
(* number, and the slots are cleared.                                      *)
Build(p) ==
    /\ MayBegin(p)
    /\ stage' = [stage EXCEPT ![p] = "built"] /\ held' = [held EXCEPT ![p] = Everything]
    /\ slots' = [slots EXCEPT ![p] = 1]
    /\ UNCHANGED <<failed_at, next_pid, Process_Pool, id, start_pid, enlisted, refs, halted>>
BuildFails(p, what) ==
    /\ MayBegin(p) /\ what \notin {"page_table", "user_stack"}
    /\ Fails(p, what, HeldBefore(what), FALSE)
    /\ UNCHANGED <<next_pid, Process_Pool, id, start_pid, slots, enlisted, refs>>
(* thread_user_stack_init finds no room in the new address space. *)
UserStackFails(p) ==
    /\ MayBegin(p)
    /\ Fails(p, "user_stack", HeldBefore("user_stack"), FALSE)
    /\ UNCHANGED <<next_pid, Process_Pool, id, start_pid, slots, enlisted, refs>>
(* page_table_init does not test kmalloc's result, which slab_alloc_helper *)
(* asserts; and slab_alloc_helper asserts that there are frames.           *)
BuildHalts(p, what) ==
    /\ MayBegin(p)
    /\ what \in {"page_table", "vector", "root", "kernel_stack", "user_stack"}
    /\ halted' = "assert"
    /\ UNCHANGED <<stage, held, failed_at, next_pid, Process_Pool, id, start_pid, slots, enlisted, refs>>

(* process_add_pool reads where it starts before it takes the lock. *)
ReadStartLate(p) ==
    /\ halted = "no" /\ stage[p] = "built"
    /\ start_pid' = [start_pid EXCEPT ![p] = (next_pid + 1) % Pid_Count]
    /\ stage' = [stage EXCEPT ![p] = "placing"]
    /\ UNCHANGED <<held, failed_at, next_pid, Process_Pool, id, slots, enlisted, refs, halted>>
ReadStart(p) ==
    /\ halted = "no" /\ stage[p] = "built"
    /\ start_pid' = [start_pid EXCEPT ![p] = next_pid]
    /\ stage' = [stage EXCEPT ![p] = "placing"]
    /\ UNCHANGED <<held, failed_at, next_pid, Process_Pool, id, slots, enlisted, refs, halted>>

(* The pids the loop comes to before it is back at the start, and the      *)
(* first free one of them.                                                 *)
Pid(d) == (next_pid + d) % Pid_Count
Reached(p) == {d \in 0 .. Pid_Count - 1 : \A e \in 1 .. d : Pid(e) # start_pid[p]}
FreeReached(p) == {d \in Reached(p) : Process_Pool[Pid(d)] = NOBODY}
FirstFree(p) == CHOOSE d \in FreeReached(p) : \A e \in FreeReached(p) : d <= e

(* hashtable_put stores the entry and may then fail to grow the table. *)
Place(p) ==
    /\ halted = "no" /\ stage[p] = "placing" /\ FreeReached(p) # {}
    /\ LET pid == Pid(FirstFree(p))
       IN  next_pid' = pid /\ id' = [id EXCEPT ![p] = pid]
           /\ Process_Pool' = [Process_Pool EXCEPT ![pid] = p]
    /\ \/ stage' = [stage EXCEPT ![p] = "placed"] /\ UNCHANGED <<held, failed_at, halted>>
       \/ Fails(p, "growth", held[p], TRUE)
    /\ UNCHANGED <<start_pid, slots, enlisted, refs>>
PlaceFull(p) ==
    /\ halted = "no" /\ stage[p] = "placing" /\ FreeReached(p) = {}
    /\ next_pid' = start_pid[p]
    /\ Fails(p, "pid", held[p], TRUE)
    /\ UNCHANGED <<Process_Pool, id, start_pid, slots, enlisted, refs>>

(* The rest of process_init, with scheduler_add_thread.  processes_init    *)
(* goes on with bootstrap_thread_init for the first process, whose stack   *)
(* becomes the boot stack, and drops its reference.                        *)
Enlist(p) ==
    /\ halted = "no" /\ stage[p] = "placed"
    /\ stage' = [stage EXCEPT ![p] = "running"]
    /\ process_refs' = [process_refs EXCEPT ![p] = object_clear + (IF Bootstrapped THEN 1 ELSE 0)]
    /\ thread_refs' = [thread_refs EXCEPT ![p] = object_clear + 1]
    /\ held' = [held EXCEPT ![p] = IF Bootstrapped THEN @ ELSE @ \ {"kernel_stack"}]
    /\ enlisted' = enlisted \cup {p}
    /\ UNCHANGED <<failed_at, next_pid, Process_Pool, id, start_pid, slots, halted>>

-------------------------------------------------------------------------------
(* thread_init for a further thread; thread_count stays as it is.  With no *)
(* slot left, krealloc gets a block of capacity + 10 bytes, not pointers,  *)
(* and the new slot lies behind it; or it fails, and thread_init frees the *)
(* thread and goes on writing to it.                                       *)
process_add_thread(p) ==
    IF slots[p] < Thread_Pool_Default_Size
    THEN slots' = [slots EXCEPT ![p] = @ + 1] /\ UNCHANGED halted
    ELSE halted' \in {"overrun", "freed thread"} /\ UNCHANGED slots
ThreadInit(p) ==
    /\ halted = "no" /\ stage[p] = "running"
    /\ process_add_thread(p)
    /\ UNCHANGED <<stage, held, failed_at, next_pid, Process_Pool, id, start_pid, enlisted, refs>>

(* Every page mapped in the lower half, the tables, the root, the block. *)
page_table_fini(h) == h \ {"page_table", "root", "user_stack"}

(* process_fini: the address space, the page tables and what they map, and *)
(* thread_fini for thread_count threads, which is the first one.           *)
ProcessFiniNoThreads(p) ==
    /\ halted = "no" /\ stage[p] = "running"
    /\ stage' = [stage EXCEPT ![p] = "ended"]
    /\ held' = [held EXCEPT ![p] = page_table_fini(@ \ {"vector"})]
    /\ UNCHANGED <<enlisted, refs, failed_at, next_pid, Process_Pool, id, start_pid, slots, halted>>
ProcessFini(p) ==
    /\ halted = "no" /\ stage[p] = "running"
    /\ stage' = [stage EXCEPT ![p] = "ended"]
    /\ held' = [held EXCEPT ![p] = page_table_fini(@ \ {"vector"})]
    /\ enlisted' = enlisted \ {p}
    /\ thread_refs' = [thread_refs EXCEPT ![p] = @ - 1]
    /\ UNCHANGED <<process_refs, failed_at, next_pid, Process_Pool, id, start_pid, slots, halted>>

ProcessNext ==
    \E p \in Attempts :
        \/ Build(p) \/ ReadStart(p) \/ Place(p) \/ PlaceFull(p) \/ Enlist(p)
        \/ ThreadInit(p) \/ ProcessFini(p) \/ UserStackFails(p)
        \/ \E what \in Everything : BuildFails(p, what) \/ BuildHalts(p, what)

ProcessSpec == ProcessInit /\ [][ProcessNext]_process

-------------------------------------------------------------------------------
(* A failed process_init loses frames: the root of the page table and what *)
(* hangs below it, or the heap block when page_table_init fails half-way;  *)
(* and, when the pool refuses the process, both stacks of its thread.  It  *)
(* loses nothing else.                                                     *)
FailureResidue ==
    \A p \in Attempts : stage[p] = "failed" =>
        held[p] = CASE failed_at[p] = "root" -> {"page_table"}
                    [] failed_at[p] \in {"thread", "kernel_stack", "user_stack"} -> {"root"}
                    [] failed_at[p] \in {"growth", "pid"} -> {"root", "kernel_stack", "user_stack"}
                    [] OTHER -> {}

(* Every process that was placed keeps the pid it was given, whoever else  *)
(* searches; and an entry of the pool points to freed memory only when     *)
(* hashtable_put stored it and then failed to grow the table.  One is      *)
(* refused for want of a pid only when every pid is in use, although the   *)
(* search's end was read before the lock was taken.                        *)
PidsKept ==
    /\ \A p \in Attempts : stage[p] \in {"placed", "running", "ended"} => Process_Pool[id[p]] = p
    /\ \A i \in Pids : Process_Pool[i] # NOBODY /\ stage[Process_Pool[i]] = "failed" =>
           failed_at[Process_Pool[i]] = "growth"
    /\ \A p \in Attempts : failed_at[p] = "pid" => \A i \in Pids : Process_Pool[i] # NOBODY

(* A thread the scheduler may switch to has its structure, its process and *)
(* the page table that thread_switch loads.                                *)
RingIsLive == \A p \in enlisted : {"proc", "thread", "page_table", "root"} \subseteq held[p]

(* No count ever comes down to 0, so that process_free and thread_free,    *)
(* which assert what does not hold and free what process_fini has freed,   *)
(* are never run; a process and its thread are never given back.           *)
NeverReleased ==
    \A p \in Attempts : stage[p] \in {"running", "ended"} =>
        /\ process_refs[p] > 0 /\ thread_refs[p] > 0
        /\ {"proc", "threads", "thread"} \subseteq held[p]
===============================================================================
