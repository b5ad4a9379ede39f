----------------------------- MODULE Scheduler ------------------------------
(***************************************************************************)
(* Threads on the one CPU: the ring of kernel/core/scheduler.c, the switch *)
(* of kernel/arch/x64/arch_process.c and process.S, and the timer          *)
(* interrupt that calls scheduler_yield (kernel/device/pit.c) through      *)
(* interrupts_dispatcher, which acknowledges the interrupt only after the  *)
(* handler has returned.                                                   *)
(*                                                                         *)
(* Handlers run with interrupts off, so a handler is one step up to the    *)
(* switch.  Outside a handler a thread can be interrupted at any point, in *)
(* particular with Current_Thread_Lock held, or between the two halves of  *)
(* a scheduler_yield it called itself.                                     *)
(***************************************************************************)
EXTENDS Naturals, FiniteSets

CONSTANTS
    Threads,
    Boot,       \* the thread that runs kernel_main
    NULL

ASSUME SchedulerAssumption == Boot \in Threads /\ NULL \notin Threads

VARIABLES
    Current_Thread,
    next, prev,     \* the ring
    lock,           \* Current_Thread_Lock is held
    saved,          \* whose stack each thread's current_stack_pointer is in,
                    \* or NULL once it has been switched to
    cpu,            \* whose stack the CPU is on
    pc,             \* where the code on each stack is
    subject,        \* the thread it adds, removes, or yields from
    interrupted,    \* where the timer interrupt found it
    in_service,     \* the PIC waits for the end of a timer interrupt
    members,        \* history: the threads added and not removed
    strayed,        \* history: a thread has called scheduler_yield itself,
                    \* or thread_fini for itself
    failed

vars == <<Current_Thread, next, prev, lock, saved, cpu, pc, subject,
          interrupted, in_service, members, strayed, failed>>

ring == <<Current_Thread, next, prev, members>>

(* Where a timer interrupt can find a thread.                              *)
Interruptible == {"code", "add", "remove", "yield", "switch"}

PC == Interruptible \cup {"created", "away_handler", "away_yield", "handler",
                          "spin", "asleep"}

TypeOK ==
    /\ Current_Thread \in Threads \cup {NULL}
    /\ next \in [Threads -> Threads \cup {NULL}]
    /\ prev \in [Threads -> Threads \cup {NULL}]
    /\ lock \in BOOLEAN
    /\ saved \in [Threads -> Threads \cup {NULL}]
    /\ cpu \in Threads
    /\ pc \in [Threads -> PC]
    /\ subject \in [Threads -> Threads]
    /\ interrupted \in [Threads -> Interruptible]
    /\ in_service \in BOOLEAN
    /\ members \in SUBSET Threads
    /\ strayed \in BOOLEAN
    /\ failed \in {"none", "null", "stale", "assert"}

(* After processes_init and timer_init: the boot thread is the ring.  The  *)
(* stack its current_stack_pointer was set up in has been freed by         *)
(* bootstrap_thread_init.                                                  *)
Init ==
    /\ Current_Thread = Boot
    /\ next = [t \in Threads |-> IF t = Boot THEN Boot ELSE NULL]
    /\ prev = [t \in Threads |-> IF t = Boot THEN Boot ELSE NULL]
    /\ lock = FALSE
    /\ saved = [t \in Threads |-> IF t = Boot THEN NULL ELSE t]
    /\ cpu = Boot
    /\ pc = [t \in Threads |-> IF t = Boot THEN "code" ELSE "created"]
    /\ subject = [t \in Threads |-> t]
    /\ interrupted = [t \in Threads |-> "code"]
    /\ in_service = FALSE
    /\ members = {Boot}
    /\ strayed = FALSE
    /\ failed = "none"

-----------------------------------------------------------------------------

(* thread_switch: the CPU leaves its stack, at the given place, in the old *)
(* thread and takes up the one in the new thread.  A thread that is taken  *)
(* up where it was created or where it yielded goes on with its own code.  *)
SwitchSwapped(old, new, place) ==
    /\ saved' = [saved EXCEPT ![new] = cpu]
    /\ cpu' = new
    /\ pc' = [pc EXCEPT ![cpu] = place, ![new] = "code"]
    /\ UNCHANGED failed

Switch(old, new, place) ==
    IF new = old THEN failed' = "assert" /\ UNCHANGED <<saved, cpu, pc>>
    ELSE IF saved[new] = NULL
    THEN failed' = "stale" /\ UNCHANGED <<saved, cpu, pc>>
    ELSE /\ saved' = [saved EXCEPT ![old] = cpu, ![new] = NULL]
         /\ cpu' = saved[new]
         /\ LET left == [pc EXCEPT ![cpu] = place] IN
            pc' = [left EXCEPT ![saved[new]] =
                      IF left[saved[new]] = "away_handler" THEN "handler" ELSE "code"]
         /\ UNCHANGED failed

(* interrupts_dispatcher, timer_interrupt_handler and scheduler_yield, up  *)
(* to the switch.  With one thread in the ring the handler returns at      *)
(* once, which changes nothing.                                            *)
TimerNoThread ==
    /\ failed = "none" /\ ~in_service /\ pc[cpu] \in Interruptible
    /\ Current_Thread = NULL
    /\ in_service' = TRUE
    /\ pc' = [pc EXCEPT ![cpu] = "asleep"]
    /\ UNCHANGED <<ring, lock, saved, cpu, subject, interrupted, strayed, failed>>

TimerNoNext ==
    /\ failed = "none" /\ ~in_service /\ pc[cpu] \in Interruptible
    /\ Current_Thread # NULL
    /\ next[Current_Thread] = NULL
    /\ failed' = "null"
    /\ UNCHANGED <<ring, lock, saved, cpu, pc, subject, interrupted, in_service,
                   strayed>>

Others == Current_Thread # NULL
            /\ next[Current_Thread] \in Threads \ {Current_Thread}

TimerIgnoresLock ==
    /\ failed = "none" /\ ~in_service /\ pc[cpu] \in Interruptible
    /\ Others /\ lock
    /\ in_service' = TRUE
    /\ interrupted' = [interrupted EXCEPT ![cpu] = pc[cpu]]
    /\ Current_Thread' = next[Current_Thread]
    /\ Switch(Current_Thread, next[Current_Thread], "away_handler")
    /\ UNCHANGED <<next, prev, members, lock, subject, strayed>>

(* The lock is held by the code that was interrupted. *)
TimerLocked ==
    /\ failed = "none" /\ ~in_service /\ pc[cpu] \in Interruptible
    /\ Others /\ lock
    /\ in_service' = TRUE
    /\ pc' = [pc EXCEPT ![cpu] = "spin"]
    /\ UNCHANGED <<ring, lock, saved, cpu, subject, interrupted, strayed, failed>>

TimerSwitch ==
    /\ failed = "none" /\ ~in_service /\ pc[cpu] \in Interruptible
    /\ Others /\ ~lock
    /\ in_service' = TRUE
    /\ interrupted' = [interrupted EXCEPT ![cpu] = pc[cpu]]
    /\ Current_Thread' = next[Current_Thread]
    /\ Switch(Current_Thread, next[Current_Thread], "away_handler")
    /\ UNCHANGED <<next, prev, members, lock, subject, strayed>>

(* The rest of interrupts_dispatcher, once the thread is switched back to. *)
HandlerReturn ==
    /\ failed = "none"
    /\ pc[cpu] = "handler"
    /\ in_service' = FALSE
    /\ pc' = [pc EXCEPT ![cpu] = interrupted[cpu]]
    /\ UNCHANGED <<ring, lock, saved, cpu, subject, interrupted, strayed, failed>>

-----------------------------------------------------------------------------

(* lock_acquire_writer outside a handler; LockHeldOnCpu shows that the     *)
(* lock is free whenever a thread gets there.                              *)
Acquire(place, thread) ==
    /\ failed = "none"
    /\ pc[cpu] = "code"
    /\ ~lock
    /\ lock' = TRUE
    /\ pc' = [pc EXCEPT ![cpu] = place]
    /\ subject' = [subject EXCEPT ![cpu] = thread]
    /\ UNCHANGED <<ring, saved, cpu, interrupted, in_service, failed>>

(* scheduler_add_thread *)
AddThread(thread) ==
    /\ pc[thread] = "created"
    /\ thread \notin members
    /\ next[thread] = NULL
    /\ Acquire("add", thread)
    /\ UNCHANGED strayed

InsertOneWay(thread) ==
    /\ Current_Thread # NULL
    /\ next' = [next EXCEPT ![thread] = next[Current_Thread],
                            ![Current_Thread] = thread]
    /\ prev' = [prev EXCEPT ![thread] = Current_Thread]
    /\ UNCHANGED Current_Thread

Insert(thread) ==
    IF Current_Thread # NULL
    THEN LET after == next[Current_Thread] IN
         /\ next' = [next EXCEPT ![thread] = after, ![Current_Thread] = thread]
         /\ prev' = [prev EXCEPT ![thread] = Current_Thread, ![after] = thread]
         /\ UNCHANGED Current_Thread
    ELSE /\ Current_Thread' = thread
         /\ next' = [next EXCEPT ![thread] = thread]
         /\ prev' = [prev EXCEPT ![thread] = thread]

(* Writing through the NULL next of a thread that is current though it has *)
(* been removed is a page fault.                                           *)
FinishAdd ==
    /\ failed = "none"
    /\ pc[cpu] = "add"
    /\ IF Current_Thread # NULL /\ next[Current_Thread] = NULL
       THEN failed' = "null" /\ UNCHANGED <<ring, lock, pc>>
       ELSE /\ Insert(subject[cpu])
            /\ members' = members \cup {subject[cpu]}
            /\ lock' = FALSE
            /\ pc' = [pc EXCEPT ![cpu] = "code"]
            /\ UNCHANGED failed
    /\ UNCHANGED <<saved, cpu, subject, interrupted, in_service, strayed>>

(* scheduler_remove_thread, called by thread_fini *)
RemoveThread(thread) ==
    /\ thread \in members
    /\ Acquire("remove", thread)
    /\ strayed' = (strayed \/ thread = cpu)

FinishRemove ==
    LET thread == subject[cpu] IN
    /\ failed = "none"
    /\ pc[cpu] = "remove"
    /\ IF next[thread] = thread
       THEN /\ Current_Thread' = NULL
            /\ next' = [next EXCEPT ![thread] = NULL]
            /\ prev' = [prev EXCEPT ![thread] = NULL]
       ELSE /\ next' = [next EXCEPT ![prev[thread]] = next[thread],
                                    ![thread] = NULL]
            /\ prev' = [prev EXCEPT ![next[thread]] = prev[thread],
                                    ![thread] = NULL]
            /\ UNCHANGED Current_Thread
    /\ members' = members \ {thread}
    /\ lock' = FALSE
    /\ pc' = [pc EXCEPT ![cpu] = "code"]
    /\ UNCHANGED <<saved, cpu, subject, interrupted, in_service, strayed, failed>>

(* scheduler_yield outside a handler: the lock is taken, Current_Thread is *)
(* moved and the lock released, and only then are the stacks switched.     *)
Yield ==
    /\ Others
    /\ Acquire("yield", subject[cpu])
    /\ strayed' = TRUE

YieldNoNext ==
    /\ failed = "none" /\ pc[cpu] = "code"
    /\ Current_Thread # NULL
    /\ next[Current_Thread] = NULL
    /\ failed' = "null"
    /\ UNCHANGED <<ring, lock, saved, cpu, pc, subject, interrupted, in_service,
                   strayed>>

YieldAdvance ==
    /\ failed = "none"
    /\ pc[cpu] = "yield"
    /\ subject' = [subject EXCEPT ![cpu] = Current_Thread]
    /\ Current_Thread' = next[Current_Thread]
    /\ lock' = FALSE
    /\ pc' = [pc EXCEPT ![cpu] = "switch"]
    /\ UNCHANGED <<next, prev, members, saved, cpu, interrupted, in_service,
                   strayed, failed>>

YieldSwitch ==
    /\ failed = "none"
    /\ pc[cpu] = "switch"
    /\ Switch(subject[cpu], Current_Thread, "away_yield")
    /\ UNCHANGED <<ring, lock, subject, interrupted, in_service, strayed>>

Timer == TimerNoThread \/ TimerNoNext \/ TimerLocked \/ TimerSwitch

Finish == HandlerReturn \/ FinishAdd \/ FinishRemove \/ YieldAdvance \/ YieldSwitch

Next ==
    \/ TimerNoThread \/ TimerNoNext \/ TimerLocked \/ TimerSwitch
    \/ HandlerReturn
    \/ \E thread \in Threads : AddThread(thread) \/ RemoveThread(thread)
    \/ FinishAdd \/ FinishRemove
    \/ Yield \/ YieldNoNext \/ YieldAdvance \/ YieldSwitch

Spec == Init /\ [][Next]_vars

(* Threads that leave switching to the timer: it keeps ticking, and code   *)
(* that can run does run.                                                  *)
FairSpec ==
    Init /\ [][Next /\ ~strayed']_vars /\ WF_vars(Timer) /\ WF_vars(Finish)

-----------------------------------------------------------------------------

(* The ring is one cycle through exactly the threads added and not         *)
(* removed, prev is its inverse, and a thread outside has no successor:    *)
(* also when the current thread, or the last one, has been removed.        *)
RingIntact ==
    /\ TypeOK
    /\ \A t \in members : next[t] \in members /\ prev[next[t]] = t
    /\ \A S \in (SUBSET members) \ {{}, members} : \E t \in S : next[t] \notin S
    /\ \A t \in Threads \ members : next[t] = NULL

(* Whoever holds Current_Thread_Lock is on the CPU, possibly under a       *)
(* handler that waits or sleeps: no thread that runs its own code ever     *)
(* finds the lock taken.                                                   *)
LockHeldOnCpu ==
    lock => pc[cpu] \in {"add", "remove", "yield", "spin", "asleep"}

(* The CPU is on the stack of Current_Thread, and thread_switch resumes    *)
(* every thread on its own stack, where it left it, with no fault and no   *)
(* failed assertion, as long as only the timer has called scheduler_yield  *)
(* and no thread has finished itself.                                      *)
OwnStack ==
    ~strayed =>
        /\ cpu = Current_Thread
        /\ \A t \in Threads : saved[t] \in {t, NULL}
        /\ failed = "none"

(* "Preemptive multitasking": every thread in the ring gets the CPU again, *)
(* unless it is removed or the timer interrupts a holder of the lock.      *)
EveryThreadRuns ==
    \A t \in Threads :
        [](t \in members => <>(cpu = t \/ t \notin members \/ pc[cpu] = "spin"))
=============================================================================
