------------------------------ MODULE ThreadProofs ----------------------------
(***************************************************************************)
(* The scheduler and the processes, proved for any set of threads and any  *)
(* number of pids.                                                         *)
(*                                                                         *)
(* The three safety properties of Scheduler are proved one after the       *)
(* other, each from the one before: where the stacks are and who holds     *)
(* Current_Thread_Lock; then the ring, which only the holder of the lock   *)
(* changes; then, as long as no thread has yielded or finished itself, the *)
(* stack that each thread is resumed on.  Process has two inductive        *)
(* invariants, one for what a process holds and one for the pids.          *)
(***************************************************************************)
EXTENDS Scheduler, Process, WellFoundedInduction, TLAPS

(* Where a stack that the CPU is not on has been left. *)
Away == {"created", "away_handler", "away_yield"}

(* Only the stack of the CPU is inside the scheduler, and there the lock   *)
(* is held; a yield under way has a thread to go to; a handler found its   *)
(* thread without the lock.                                                *)
PlacesInv ==
    /\ TypeOK
    /\ LockHeldOnCpu
    /\ \A t \in Threads : t # cpu => pc[t] \in Away
    /\ pc[cpu] \in {"add", "remove", "yield"} => lock
    /\ pc[cpu] = "yield" => Others
    /\ Current_Thread = NULL => pc[cpu] \in {"code", "add", "remove", "asleep"}
    /\ \A t \in Threads : interrupted[t] \in {"code", "switch"}

(* The ring, and that the thread under way into it is outside, the one     *)
(* under way out of it inside.                                             *)
RingInv ==
    /\ RingIntact
    /\ Current_Thread = NULL => members = {}
    /\ pc[cpu] = "add" => subject[cpu] \notin members
    /\ pc[cpu] = "remove" => subject[cpu] \in members

(* As long as only the timer switches: the CPU is on the current thread's  *)
(* stack, every other thread has its own saved, and the current thread is  *)
(* not the one being removed.                                              *)
StackInv ==
    ~strayed =>
        /\ cpu = Current_Thread
        /\ Current_Thread \in members
        /\ saved = [t \in Threads |-> IF t = cpu THEN NULL ELSE t]
        /\ failed = "none"
        /\ pc[cpu] \notin {"yield", "switch"}
        /\ pc[cpu] = "remove" => subject[cpu] # cpu
        /\ interrupted = [t \in Threads |-> "code"]

-----------------------------------------------------------------------------

(* What thread_switch leaves where, when it does not fail. *)
LEMMA SwitchPlaces ==
    ASSUME PlacesInv, NEW old \in Threads, NEW new \in Threads,
           NEW place \in Away, Switch(old, new, place)
    PROVE  \/ failed' # "none" /\ UNCHANGED <<saved, cpu, pc>>
           \/ /\ new # old /\ saved[new] \in Threads
              /\ saved' = [saved EXCEPT ![old] = cpu, ![new] = NULL]
              /\ cpu' = saved[new]
              /\ pc' \in [Threads -> PC]
              /\ pc'[cpu'] \in {"handler", "code"}
              /\ pc[cpu'] # "away_handler" /\ cpu' # cpu => pc'[cpu'] = "code"
              /\ \A t \in Threads : t # cpu' => pc'[t] \in Away
              /\ failed' = failed
<1>1. CASE new = old \/ saved[new] = NULL
  BY Zenon, <1>1 DEF Switch
<1>2. CASE new # old /\ saved[new] # NULL
  <2> DEFINE s == saved[new]
             mid == [pc EXCEPT ![cpu] = place]
  <2>1. /\ s \in Threads
        /\ cpu \in Threads
        /\ pc \in [Threads -> PC]
    BY Zenon, <1>2 DEF PlacesInv, TypeOK
  <2>2. /\ cpu' = s
        /\ saved' = [saved EXCEPT ![old] = cpu, ![new] = NULL]
        /\ failed' = failed
        /\ pc' = [mid EXCEPT ![s] = IF mid[s] = "away_handler" THEN "handler" ELSE "code"]
    BY Zenon, <1>2 DEF Switch
  <2>3. mid \in [Threads -> PC] /\ \A t \in Threads : t # s => mid[t] \in Away
    BY Zenon, <2>1 DEF Away, PC, PlacesInv
  <2> HIDE DEF mid, s
  <2>4. pc' \in [Threads -> PC] /\ pc'[s] \in {"handler", "code"}
        /\ \A t \in Threads : t # s => pc'[t] = mid[t]
    BY Zenon, <2>1, <2>2, <2>3 DEF PC, Interruptible
  <2> QED
    BY <1>2, <2>1, <2>2, <2>3, <2>4 DEF s, mid
<1> QED
  BY Zenon, <1>1, <1>2

LEMMA PlacesInit == Init => PlacesInv
<1> SUFFICES ASSUME Init PROVE PlacesInv
  BY Zenon
<1>1. TypeOK
  <2>1. pc \in [Threads -> PC] /\ interrupted \in [Threads -> Interruptible]
    BY Zenon DEF Init, PC, Interruptible
  <2> QED
    BY Zenon, <2>1, SchedulerAssumption DEF Init, TypeOK
<1> QED
  BY Zenon, <1>1, SchedulerAssumption DEF Init, PlacesInv, LockHeldOnCpu, Away

LEMMA PlacesStep == PlacesInv /\ [Next]_vars => PlacesInv'
<1> SUFFICES ASSUME PlacesInv, [Next]_vars PROVE PlacesInv'
  BY Zenon
<1> USE SchedulerAssumption
<1>0. TypeOK
  BY Zenon DEF PlacesInv
<1>1. CASE TimerNoThread
  BY Zenon, <1>1 DEF TimerNoThread, PlacesInv, TypeOK, LockHeldOnCpu, PC, Interruptible,
              Others, ring
<1>2. CASE TimerNoNext
  BY Zenon, <1>2 DEF TimerNoNext, PlacesInv, TypeOK, LockHeldOnCpu, Others, ring
<1>3. CASE TimerLocked
  BY Zenon, <1>3 DEF TimerLocked, PlacesInv, TypeOK, LockHeldOnCpu, PC, Interruptible,
              Others, ring
<1>4. CASE TimerSwitch
  <2>1. /\ ~lock /\ UNCHANGED <<next, prev, members, lock, subject, strayed>>
        /\ Current_Thread \in Threads /\ next[Current_Thread] \in Threads
        /\ Current_Thread' = next[Current_Thread]
        /\ interrupted' = [interrupted EXCEPT ![cpu] = pc[cpu]]
        /\ pc[cpu] \in {"code", "switch"}
        /\ in_service' = TRUE
        /\ Switch(Current_Thread, next[Current_Thread], "away_handler")
    BY Zenon, <1>0, <1>4 DEF TimerSwitch, Others, PlacesInv, TypeOK, Interruptible
  <2>2. \A t \in Threads : interrupted'[t] \in {"code", "switch"}
    BY Zenon, <2>1 DEF PlacesInv, TypeOK
  <2>3. interrupted' \in [Threads -> Interruptible]
    BY Zenon, <2>1 DEF PlacesInv, TypeOK, Interruptible
  <2>4. \/ failed' # "none" /\ UNCHANGED <<saved, cpu, pc>>
        \/ /\ saved' = [saved EXCEPT ![Current_Thread] = cpu, ![next[Current_Thread]] = NULL]
           /\ cpu' \in Threads
           /\ pc' \in [Threads -> PC]
           /\ pc'[cpu'] \in {"handler", "code"}
           /\ \A t \in Threads : t # cpu' => pc'[t] \in Away
           /\ failed' = failed
    BY Zenon, <2>1, SwitchPlaces DEF Away
  <2>5. failed' \in {"none", "null", "stale", "assert"}
    BY Zenon, <1>0, <2>1 DEF Switch, TypeOK
  <2>6. TypeOK'
    BY <1>0, <2>1, <2>3, <2>4, <2>5 DEF TypeOK
  <2> QED
    BY Zenon, <2>1, <2>2, <2>4, <2>6 DEF PlacesInv, LockHeldOnCpu
<1>5. CASE HandlerReturn
  BY Zenon, <1>5 DEF HandlerReturn, PlacesInv, TypeOK, LockHeldOnCpu, PC, Interruptible,
              Others, ring
<1>6. ASSUME NEW place \in {"add", "remove", "yield"}, NEW thread \in Threads,
             Acquire(place, thread), strayed' \in BOOLEAN,
             place = "yield" => Others
      PROVE  PlacesInv'
  BY Zenon, <1>6 DEF Acquire, PlacesInv, TypeOK, LockHeldOnCpu, PC, Interruptible,
              Others, ring
<1>7. ASSUME NEW thread \in Threads, AddThread(thread)
      PROVE  PlacesInv'
  BY Zenon, <1>6, <1>7, <1>0 DEF AddThread, TypeOK
<1>8. ASSUME NEW thread \in Threads, RemoveThread(thread)
      PROVE  PlacesInv'
  BY Zenon, <1>6, <1>8, <1>0 DEF RemoveThread, TypeOK
<1>9. CASE FinishAdd
  <2>1. CASE Current_Thread # NULL /\ next[Current_Thread] = NULL
    BY Zenon, <1>9, <2>1 DEF FinishAdd, PlacesInv, TypeOK, LockHeldOnCpu, Others, ring
  <2>2. CASE ~(Current_Thread # NULL /\ next[Current_Thread] = NULL)
    <3>1. /\ Insert(subject[cpu])
          /\ members' = members \cup {subject[cpu]}
          /\ lock' = FALSE /\ failed' = failed
          /\ pc' = [pc EXCEPT ![cpu] = "code"]
          /\ UNCHANGED <<saved, cpu, subject, interrupted, in_service, strayed>>
      BY Zenon, <1>9, <2>2 DEF FinishAdd
    <3>2. pc' \in [Threads -> PC]
      BY Zenon, <1>0, <3>1 DEF TypeOK, PC, Interruptible
    <3>3. /\ Current_Thread' \in Threads
          /\ next' \in [Threads -> Threads \cup {NULL}]
          /\ prev' \in [Threads -> Threads \cup {NULL}]
      BY <1>0, <2>2, <3>1 DEF TypeOK, Insert
    <3>4. TypeOK'
      BY ZenonT(30), <1>0, <3>1, <3>2, <3>3 DEF TypeOK
    <3> QED
      BY <3>1, <3>3, <3>4 DEF PlacesInv, LockHeldOnCpu, TypeOK
  <2> QED
    BY Zenon, <2>1, <2>2
<1>10. CASE FinishRemove
  <2> DEFINE thread == subject[cpu]
  <2>1. /\ members' = members \ {thread}
        /\ lock' = FALSE /\ failed' = failed
        /\ pc' = [pc EXCEPT ![cpu] = "code"]
        /\ UNCHANGED <<saved, cpu, subject, interrupted, in_service, strayed>>
    BY Zenon, <1>10 DEF FinishRemove
  <2>2. pc' \in [Threads -> PC]
    BY Zenon, <1>0, <2>1 DEF TypeOK, PC, Interruptible
  <2>3. /\ Current_Thread' \in Threads \cup {NULL}
        /\ next' \in [Threads -> Threads \cup {NULL}]
        /\ prev' \in [Threads -> Threads \cup {NULL}]
    BY <1>0, <1>10 DEF TypeOK, FinishRemove
  <2>4. TypeOK'
    BY Zenon, <1>0, <2>1, <2>2, <2>3 DEF TypeOK
  <2> QED
    BY Zenon, <2>1, <2>4 DEF PlacesInv, LockHeldOnCpu, TypeOK
<1>11. CASE Yield
  BY Zenon, <1>6, <1>11, <1>0 DEF Yield, TypeOK
<1>12. CASE YieldNoNext
  BY Zenon, <1>12 DEF YieldNoNext, PlacesInv, TypeOK, LockHeldOnCpu, Others, ring
<1>13. CASE YieldAdvance
  BY Zenon, <1>13 DEF YieldAdvance, PlacesInv, TypeOK, LockHeldOnCpu, PC, Interruptible,
               Others
<1>14. CASE YieldSwitch
  <2>1. /\ ~lock /\ UNCHANGED <<ring, lock, subject, interrupted, in_service, strayed>>
        /\ Current_Thread \in Threads /\ subject[cpu] \in Threads
        /\ Switch(subject[cpu], Current_Thread, "away_yield")
    BY Zenon, <1>0, <1>14 DEF YieldSwitch, PlacesInv, TypeOK, LockHeldOnCpu
  <2>2. \/ failed' # "none" /\ UNCHANGED <<saved, cpu, pc>>
        \/ /\ saved' = [saved EXCEPT ![subject[cpu]] = cpu, ![Current_Thread] = NULL]
           /\ cpu' \in Threads
           /\ pc' \in [Threads -> PC]
           /\ pc'[cpu'] \in {"handler", "code"}
           /\ \A t \in Threads : t # cpu' => pc'[t] \in Away
           /\ failed' = failed
    BY Zenon, <2>1, SwitchPlaces DEF Away
  <2>3. failed' \in {"none", "null", "stale", "assert"}
    BY Zenon, <1>0, <2>1 DEF Switch, TypeOK
  <2>4. TypeOK'
    BY <1>0, <2>1, <2>2, <2>3 DEF TypeOK, ring
  <2> QED
    BY Zenon, <2>1, <2>2, <2>4 DEF PlacesInv, LockHeldOnCpu, ring, Others
<1>15. CASE UNCHANGED vars
  BY Zenon, <1>15 DEF vars, PlacesInv, TypeOK, LockHeldOnCpu, Others
<1> QED
  BY Zenon, <1>1, <1>2, <1>3, <1>4, <1>5, <1>7, <1>8, <1>9, <1>10, <1>11, <1>12, <1>13,
     <1>14, <1>15 DEF Next

-----------------------------------------------------------------------------

(* One cycle through exactly the threads of M: no part of M but all of it  *)
(* is closed under the successor.                                          *)
IsRing(M, nx, pv) ==
    /\ \A t \in M : nx[t] \in M /\ pv[nx[t]] = t
    /\ \A S \in (SUBSET M) \ {{}, M} : \E t \in S : nx[t] \notin S

Links == [Threads -> Threads \cup {NULL}]

LEMMA RingClosed ==
    ASSUME NEW M, NEW nx, NEW pv, IsRing(M, nx, pv), NEW S,
           S \subseteq M, S # {}, \A t \in S : nx[t] \in S
    PROVE  S = M
<1> SUFFICES ASSUME S # M PROVE FALSE
  BY Zenon
<1>1. S \in (SUBSET M) \ {{}, M}
  BY Zenon
<1> QED
  BY Zenon, <1>1 DEF IsRing

(* scheduler_add_thread links a new thread in after another. *)
LEMMA RingInsert ==
    ASSUME NEW M \in SUBSET Threads, NEW nx \in Links, NEW pv \in Links,
           IsRing(M, nx, pv), NEW at \in M, NEW thread \in Threads \ M
    PROVE  IsRing(M \cup {thread}, [nx EXCEPT ![thread] = nx[at], ![at] = thread],
                  [pv EXCEPT ![thread] = at, ![nx[at]] = thread])
<1> DEFINE after == nx[at]
           nx2 == [nx EXCEPT ![thread] = after, ![at] = thread]
           pv2 == [pv EXCEPT ![thread] = at, ![after] = thread]
           M2 == M \cup {thread}
<1>1. after \in M /\ after \in Threads /\ at \in Threads /\ at # thread /\ after # thread
  BY Zenon DEF IsRing
<1>2. /\ nx2[thread] = after /\ nx2[at] = thread
      /\ \A t \in M \ {at} : nx2[t] = nx[t]
  BY Zenon, <1>1 DEF Links
<1>3. /\ pv2[thread] = at /\ pv2[after] = thread
      /\ \A t \in M \ {after} : pv2[t] = pv[t]
  BY Zenon, <1>1 DEF Links
<1>4. \A t \in M \ {at} : nx[t] \in M \ {after}
  BY Zenon, <1>1 DEF IsRing
<1> HIDE DEF after, nx2, pv2
<1>5. \A t \in M2 : nx2[t] \in M2 /\ pv2[nx2[t]] = t
  BY <1>1, <1>2, <1>3, <1>4 DEF IsRing
<1>6. ASSUME NEW S \in SUBSET M2, S # {}, S # M2, \A t \in S : nx2[t] \in S
      PROVE  FALSE
  <2> DEFINE S0 == S \ {thread}
  <2>1. S0 \in SUBSET M
    BY Zenon
  <2>2. thread \in S => after \in S0
    BY Zenon, <1>1, <1>2, <1>6
  <2>3. at \in S => thread \in S
    BY Zenon, <1>2, <1>6
  <2>4. S0 # {}
    BY <1>6, <2>2
  <2>5. S0 # M
    BY Zenon, <1>6, <2>3
  <2>6. \A t \in S0 : nx[t] \in S0
    <3> TAKE t \in S0
    <3>1. CASE t = at
      BY Zenon, <3>1, <2>2, <2>3 DEF after
    <3>2. CASE t # at
      BY Zenon, <3>2, <1>2, <1>4, <1>6
    <3> QED
      BY Zenon, <3>1, <3>2
  <2> QED
    BY Zenon, <2>1, <2>4, <2>5, <2>6, RingClosed
<1>7. ASSUME NEW S \in (SUBSET M2) \ {{}, M2}
      PROVE  \E t \in S : nx2[t] \notin S
  BY Zenon, <1>6, S \in SUBSET M2, S # {}, S # M2
<1> QED
  BY Zenon, <1>5, <1>7 DEF IsRing, nx2, pv2, after

(* The successor is onto: a thread of the ring has a predecessor in it. *)
LEMMA RingPredecessor ==
    ASSUME NEW M \in SUBSET Threads, NEW nx \in Links, NEW pv \in Links,
           IsRing(M, nx, pv), NEW thread \in M
    PROVE  /\ nx[thread] = thread => M = {thread}
           /\ nx[thread] # thread => /\ pv[thread] \in M \ {thread}
                                     /\ nx[pv[thread]] = thread
<1>1. CASE nx[thread] = thread
  <2> DEFINE S == {thread}
  <2>1. S \subseteq M /\ S # {} /\ \A t \in S : nx[t] \in S
    BY Zenon, <1>1
  <2>2. S = M
    <3> HIDE DEF S
    <3> QED
      BY Zenon, <2>1, RingClosed
  <2> QED
    BY Zenon, <1>1, <2>2
<1>2. CASE nx[thread] # thread
  <2> DEFINE S == M \ {thread}
  <2>0. nx[thread] \in S
    BY Zenon, <1>2 DEF IsRing
  <2>1. S \subseteq M /\ S # {} /\ S # M
    BY Zenon, <2>0
  <2>2. PICK u \in S : nx[u] \notin S
    BY Zenon, <2>1, RingClosed
  <2>3. nx[u] = thread /\ pv[thread] = u
    BY Zenon, <2>2 DEF IsRing
  <2> QED
    BY Zenon, <1>2, <2>3
<1> QED
  BY Zenon, <1>1, <1>2

(* scheduler_remove_thread links the neighbours of a thread together. *)
LEMMA RingDelete ==
    ASSUME NEW M \in SUBSET Threads, NEW nx \in Links, NEW pv \in Links,
           IsRing(M, nx, pv), NEW thread \in M, nx[thread] # thread
    PROVE  IsRing(M \ {thread}, [nx EXCEPT ![pv[thread]] = nx[thread], ![thread] = NULL],
                  [pv EXCEPT ![nx[thread]] = pv[thread], ![thread] = NULL])
<1> DEFINE p == pv[thread]
           n == nx[thread]
           nx2 == [nx EXCEPT ![p] = n, ![thread] = NULL]
           pv2 == [pv EXCEPT ![n] = p, ![thread] = NULL]
           M2 == M \ {thread}
<1>0. p \in M2 /\ nx[p] = thread
  BY RingPredecessor
<1>1. p \in M2 /\ nx[p] = thread /\ n \in M2
  BY Zenon, <1>0 DEF IsRing
<1>2. nx2[p] = n /\ \A t \in M2 \ {p} : nx2[t] = nx[t]
  BY Zenon, <1>1 DEF Links
<1>3. pv2[n] = p /\ \A t \in M2 \ {n} : pv2[t] = pv[t]
  BY Zenon, <1>1 DEF Links
<1>4. \A t \in M2 \ {p} : nx[t] \in M2 \ {n}
  <2>1. pv[thread] = p /\ pv[n] = thread
    BY Zenon DEF IsRing
  <2> QED
    BY Zenon, <2>1, <1>1 DEF IsRing
<1> HIDE DEF p, n, nx2, pv2
<1>5. \A t \in M2 : nx2[t] \in M2 /\ pv2[nx2[t]] = t
  BY <1>1, <1>2, <1>3, <1>4 DEF IsRing
<1>6. ASSUME NEW S \in SUBSET M2, S # {}, S # M2, \A t \in S : nx2[t] \in S
      PROVE  FALSE
  <2> DEFINE S1 == IF p \in S THEN S \cup {thread} ELSE S
  <2>1. S1 \in SUBSET M /\ S1 # {} /\ S1 # M
    BY Zenon, <1>6
  <2>2. \A t \in S1 : nx[t] \in S1
    <3> TAKE t \in S1
    <3>1. CASE t = thread
      BY Zenon, <3>1, <1>2, <1>6 DEF n
    <3>2. CASE t = p /\ t # thread
      BY Zenon, <3>2, <1>1
    <3>3. CASE t # p /\ t # thread
      BY Zenon, <3>3, <1>2, <1>6
    <3> QED
      BY Zenon, <3>1, <3>2, <3>3
  <2> QED
    BY Zenon, <2>1, <2>2, RingClosed
<1>7. ASSUME NEW S \in (SUBSET M2) \ {{}, M2}
      PROVE  \E t \in S : nx2[t] \notin S
  BY Zenon, <1>6, S \in SUBSET M2, S # {}, S # M2
<1> QED
  BY Zenon, <1>5, <1>7 DEF IsRing, nx2, pv2, p, n

LEMMA RingIntactIs ==
    RingIntact <=> /\ TypeOK
                   /\ IsRing(members, next, prev)
                   /\ \A t \in Threads \ members : next[t] = NULL
BY Zenon DEF RingIntact, IsRing

LEMMA RingInit == Init => RingInv
<1> SUFFICES ASSUME Init PROVE RingInv
  OBVIOUS
<1>1. TypeOK
  BY Zenon, PlacesInit DEF PlacesInv
<1>2. IsRing(members, next, prev)
  BY Zenon, SchedulerAssumption DEF Init, IsRing
<1> QED
  BY Zenon, <1>1, <1>2, RingIntactIs, SchedulerAssumption DEF Init, RingInv

LEMMA RingStep == PlacesInv /\ PlacesInv' /\ RingInv /\ [Next]_vars => RingInv'
<1> SUFFICES ASSUME PlacesInv, PlacesInv', RingInv, [Next]_vars PROVE RingInv'
  BY Zenon
<1> USE SchedulerAssumption
<1>0. /\ TypeOK /\ TypeOK'
      /\ IsRing(members, next, prev)
      /\ \A t \in Threads \ members : next[t] = NULL
      /\ next \in Links /\ prev \in Links /\ members \in SUBSET Threads
      /\ cpu \in Threads /\ subject[cpu] \in Threads
  BY Zenon, RingIntactIs DEF PlacesInv, RingInv, TypeOK, Links
<1>a. ASSUME IsRing(members', next', prev'), \A t \in Threads \ members' : next'[t] = NULL
      PROVE  RingIntact'
  BY Zenon, <1>0, <1>a DEF RingIntact, IsRing
(* A step that leaves the links alone. *)
<1>1. ASSUME UNCHANGED <<next, prev, members>>,
             Current_Thread' \in {Current_Thread} \cup Threads,
             pc'[cpu'] = "add" => subject'[cpu'] \notin members,
             pc'[cpu'] = "remove" => subject'[cpu'] \in members
      PROVE  RingInv'
  <2>1. RingIntact'
    <3>1. IsRing(members', next', prev') /\ \A t \in Threads \ members' : next'[t] = NULL
      BY Zenon, <1>0, <1>1
    <3> QED
      BY Zenon, <1>a, <3>1
  <2> QED
    BY Zenon, <1>1, <2>1 DEF RingInv
<1>2. CASE TimerNoThread \/ TimerNoNext \/ TimerLocked \/ YieldNoNext
  BY Zenon, <1>0, <1>1, <1>2 DEF TimerNoThread, TimerNoNext, TimerLocked, YieldNoNext, ring, TypeOK,
                    RingInv
<1>3. CASE TimerSwitch
  <2>1. /\ UNCHANGED <<next, prev, members, subject>>
        /\ pc[cpu] \in {"code", "switch"}
        /\ Current_Thread \in Threads /\ next[Current_Thread] \in Threads
        /\ Current_Thread' = next[Current_Thread]
        /\ Switch(Current_Thread, next[Current_Thread], "away_handler")
    BY Zenon, <1>0, <1>3 DEF TimerSwitch, Others, PlacesInv, Interruptible, TypeOK
  <2>2. pc'[cpu'] \in {"handler", "code", "switch"}
    BY Zenon, <2>1, SwitchPlaces DEF Away
  <2> QED
    BY Zenon, <1>1, <2>1, <2>2
<1>4. CASE HandlerReturn
  BY <1>0, <1>1, <1>4 DEF HandlerReturn, ring, TypeOK, PlacesInv
<1>5. ASSUME NEW thread \in Threads, AddThread(thread) \/ RemoveThread(thread)
      PROVE  RingInv'
  BY <1>0, <1>1, <1>5 DEF AddThread, RemoveThread, Acquire, ring, TypeOK
<1>6. CASE FinishAdd
  <2> DEFINE thread == subject[cpu]
  <2>1. CASE Current_Thread # NULL /\ next[Current_Thread] = NULL
    BY Zenon, <1>0, <1>1, <1>6, <2>1 DEF FinishAdd, ring, RingInv
  <2>2. CASE ~(Current_Thread # NULL /\ next[Current_Thread] = NULL)
    <3>1. /\ Insert(thread)
          /\ members' = members \cup {thread}
          /\ cpu' = cpu /\ pc'[cpu] = "code"
          /\ thread \in Threads \ members
      BY <1>0, <1>6, <2>2 DEF FinishAdd, RingInv, TypeOK
    <3>2. CASE Current_Thread # NULL
      <4>1. Current_Thread \in members
        BY Zenon, <1>0, <2>2, <3>2 DEF TypeOK
      <4>2. /\ next' = [next EXCEPT ![thread] = next[Current_Thread], ![Current_Thread] = thread]
            /\ prev' = [prev EXCEPT ![thread] = Current_Thread, ![next[Current_Thread]] = thread]
            /\ Current_Thread' = Current_Thread
        BY Zenon, <3>1, <3>2 DEF Insert
      <4>3. IsRing(members', next', prev')
        BY Zenon, <1>0, <3>1, <4>1, <4>2, RingInsert
      <4>4. \A t \in Threads \ members' : next'[t] = NULL
        BY Zenon, <1>0, <3>1, <4>1, <4>2 DEF Links
      <4> QED
        BY Zenon, <1>0, <3>1, <3>2, <4>2, <4>3, <4>4, <1>a DEF RingInv
    <3>3. CASE Current_Thread = NULL
      <4>1. /\ members = {} /\ Current_Thread' = thread
            /\ next' = [next EXCEPT ![thread] = thread]
            /\ prev' = [prev EXCEPT ![thread] = thread]
        BY Zenon, <3>1, <3>3 DEF Insert, RingInv
      <4>2. IsRing(members', next', prev')
        BY <1>0, <3>1, <4>1 DEF IsRing, Links
      <4>3. \A t \in Threads \ members' : next'[t] = NULL
        BY Zenon, <1>0, <3>1, <4>1 DEF Links
      <4> QED
        BY Zenon, <1>0, <3>1, <4>1, <4>2, <4>3, <1>a DEF RingInv
    <3> QED
      BY Zenon, <3>2, <3>3
  <2> QED
    BY Zenon, <2>1, <2>2
<1>7. CASE FinishRemove
  <2> DEFINE thread == subject[cpu]
  <2>1. /\ thread \in members
        /\ members' = members \ {thread}
        /\ cpu' = cpu /\ pc'[cpu] = "code"
    BY Zenon, <1>0, <1>7 DEF FinishRemove, RingInv, TypeOK
  <2>2. CASE next[thread] = thread
    <3>1. members = {thread}
      <4> HIDE DEF thread
      <4>1. next[thread] = thread => members = {thread}
        BY Zenon, <1>0, <2>1, RingPredecessor
      <4> QED
        BY Zenon, <2>2, <4>1
    <3>2. members' = {} /\ next' = [next EXCEPT ![thread] = NULL]
      BY Zenon, <1>7, <2>1, <2>2, <3>1 DEF FinishRemove
    <3>3. IsRing(members', next', prev') /\ \A t \in Threads \ members' : next'[t] = NULL
      BY <1>0, <3>1, <3>2 DEF IsRing, Links
    <3> QED
      BY Zenon, <1>0, <2>1, <3>2, <3>3, <1>a DEF RingInv
  <2>3. CASE next[thread] # thread
    <3>1. /\ next' = [next EXCEPT ![prev[thread]] = next[thread], ![thread] = NULL]
          /\ prev' = [prev EXCEPT ![next[thread]] = prev[thread], ![thread] = NULL]
          /\ Current_Thread' = Current_Thread
      BY Zenon, <1>7, <2>3 DEF FinishRemove
    <3>2. IsRing(members', next', prev')
      <4> HIDE DEF thread
      <4>1. IsRing(members \ {thread},
                   [next EXCEPT ![prev[thread]] = next[thread], ![thread] = NULL],
                   [prev EXCEPT ![next[thread]] = prev[thread], ![thread] = NULL])
        BY Zenon, <1>0, <2>1, <2>3, RingDelete
      <4> QED
        BY Zenon, <2>1, <3>1, <4>1
    <3>3. prev[thread] \in members
      <4> HIDE DEF thread
      <4>1. prev[thread] \in members \ {thread}
        BY Zenon, <1>0, <2>1, <2>3, RingPredecessor
      <4> QED
        BY Zenon, <4>1
    <3>4. \A t \in Threads \ members' : next'[t] = NULL
      BY Zenon, <1>0, <2>1, <3>1, <3>3 DEF Links
    <3> QED
      BY Zenon, <1>0, <2>1, <3>1, <3>2, <3>4, <1>a DEF RingInv
  <2> QED
    BY Zenon, <2>2, <2>3
<1>8. CASE Yield
  BY <1>0, <1>1, <1>8 DEF Yield, Acquire, ring, TypeOK
<1>9. CASE YieldAdvance
  <2>1. next[Current_Thread] \in Threads
    BY Zenon, <1>9 DEF YieldAdvance, PlacesInv, Others
  <2> QED
    BY <1>0, <1>1, <1>9, <2>1 DEF YieldAdvance, TypeOK
<1>10. CASE YieldSwitch
  <2>1. /\ UNCHANGED <<ring, subject>>
        /\ pc[cpu] = "switch" /\ Current_Thread \in Threads
        /\ Switch(subject[cpu], Current_Thread, "away_yield")
    BY Zenon, <1>0, <1>10 DEF YieldSwitch, PlacesInv, TypeOK
  <2>2. pc'[cpu'] \in {"handler", "code", "switch"}
    BY Zenon, <1>0, <2>1, SwitchPlaces DEF Away
  <2> QED
    BY Zenon, <1>1, <2>1, <2>2 DEF ring
<1>11. CASE UNCHANGED vars
  BY Zenon, <1>0, <1>1, <1>11 DEF vars, RingInv
<1> QED
  BY Zenon, <1>2, <1>3, <1>4, <1>5, <1>6, <1>7, <1>8, <1>9, <1>10, <1>11 DEF Next

-----------------------------------------------------------------------------

LEMMA StackInit == Init => StackInv
BY SchedulerAssumption DEF Init, StackInv

LEMMA StackStep ==
    PlacesInv /\ RingInv /\ StackInv /\ [Next]_vars => StackInv'
<1> SUFFICES ASSUME PlacesInv, RingInv, StackInv, [Next]_vars, ~strayed'
             PROVE  /\ cpu' = Current_Thread'
                    /\ Current_Thread' \in members'
                    /\ saved' = [t \in Threads |-> IF t = cpu' THEN NULL ELSE t]
                    /\ failed' = "none"
                    /\ pc'[cpu'] \notin {"yield", "switch"}
                    /\ pc'[cpu'] = "remove" => subject'[cpu'] # cpu'
                    /\ interrupted' = [t \in Threads |-> "code"]
  BY Zenon DEF StackInv
<1> USE SchedulerAssumption
<1>0. /\ TypeOK
      /\ IsRing(members, next, prev)
      /\ next \in Links /\ prev \in Links /\ members \in SUBSET Threads
  BY Zenon, RingIntactIs DEF PlacesInv, RingInv, TypeOK, Links
<1>1. ~strayed
  BY Zenon, <1>0 DEF Next, vars, TimerNoThread, TimerNoNext, TimerLocked, TimerSwitch, HandlerReturn,
              AddThread, RemoveThread, FinishAdd, FinishRemove, Yield, YieldNoNext,
              YieldAdvance, YieldSwitch
<1>2. /\ cpu = Current_Thread /\ Current_Thread \in members
      /\ saved = [t \in Threads |-> IF t = cpu THEN NULL ELSE t]
      /\ failed = "none"
      /\ pc[cpu] \notin {"yield", "switch"}
      /\ pc[cpu] = "remove" => subject[cpu] # cpu
      /\ interrupted = [t \in Threads |-> "code"]
  BY Zenon, <1>1 DEF StackInv
<1>3. /\ cpu \in Threads /\ Current_Thread # NULL
      /\ next[Current_Thread] \in members /\ next[Current_Thread] # NULL
  BY Zenon, <1>0, <1>2 DEF IsRing
<1>4. CASE TimerNoThread \/ TimerNoNext \/ YieldNoNext \/ Yield \/ YieldAdvance \/ YieldSwitch
  BY Zenon, <1>2, <1>3, <1>4 DEF TimerNoThread, TimerNoNext, YieldNoNext, Yield, YieldAdvance, YieldSwitch
<1>5. CASE TimerLocked
  BY Zenon, <1>0, <1>2, <1>5 DEF TimerLocked, ring, TypeOK
<1>6. CASE TimerSwitch
  <2> DEFINE new == next[Current_Thread]
  <2>1. /\ new # cpu /\ new \in Threads /\ saved[new] = new
        /\ pc[cpu] = "code"
        /\ Switch(cpu, new, "away_handler")
        /\ Current_Thread' = new
        /\ interrupted' = [interrupted EXCEPT ![cpu] = pc[cpu]]
        /\ members' = members
    BY Zenon, <1>0, <1>2, <1>3, <1>6 DEF TimerSwitch, Others, PlacesInv, Interruptible
  <2>2. /\ saved' = [saved EXCEPT ![cpu] = cpu, ![new] = NULL]
        /\ cpu' = new /\ failed' = failed
    BY Zenon, <2>1, <1>3 DEF Switch
  <2>3. pc'[cpu'] \in {"handler", "code"}
    BY Zenon, <1>2, <1>3, <2>1, <2>2, SwitchPlaces DEF Away
  <2>4. saved' = [t \in Threads |-> IF t = cpu' THEN NULL ELSE t]
    BY Zenon, <1>2, <1>3, <2>1, <2>2
  <2>5. interrupted' = [t \in Threads |-> "code"]
    BY Zenon, <1>2, <2>1
  <2> QED
    BY Zenon, <1>2, <1>3, <2>1, <2>2, <2>3, <2>4, <2>5
<1>7. CASE HandlerReturn
  BY Zenon, <1>0, <1>2, <1>3, <1>7 DEF HandlerReturn, ring, TypeOK
<1>8. ASSUME NEW thread \in Threads, AddThread(thread)
      PROVE  /\ UNCHANGED <<ring, saved, cpu, interrupted, failed>>
             /\ pc'[cpu] = "add"
  BY Zenon, <1>0, <1>8 DEF AddThread, Acquire, TypeOK
<1>9. ASSUME NEW thread \in Threads, RemoveThread(thread)
      PROVE  /\ UNCHANGED <<ring, saved, cpu, interrupted, failed>>
             /\ pc'[cpu] = "remove" /\ subject'[cpu] # cpu
  BY Zenon, <1>0, <1>9 DEF RemoveThread, Acquire, TypeOK
<1>10. CASE FinishAdd
  <2>1. /\ Insert(subject[cpu]) /\ members' = members \cup {subject[cpu]}
        /\ pc' = [pc EXCEPT ![cpu] = "code"]
        /\ UNCHANGED <<failed, saved, cpu, interrupted>>
    BY Zenon, <1>3, <1>10 DEF FinishAdd
  <2>2. Current_Thread' = Current_Thread
    BY Zenon, <2>1, <1>3 DEF Insert
  <2> QED
    BY Zenon, <1>0, <1>2, <2>1, <2>2 DEF TypeOK
<1>11. CASE FinishRemove
  <2> DEFINE thread == subject[cpu]
  <2>1. thread \in members /\ thread # cpu
    BY Zenon, <1>2, <1>11 DEF FinishRemove, RingInv
  <2>2. next[thread] # thread
    <3> HIDE DEF thread
    <3>1. next[thread] = thread => members = {thread}
      BY Zenon, <1>0, <2>1, RingPredecessor
    <3> QED
      BY Zenon, <1>2, <2>1, <3>1
  <2>3. /\ members' = members \ {thread} /\ Current_Thread' = Current_Thread
        /\ pc' = [pc EXCEPT ![cpu] = "code"]
        /\ UNCHANGED <<failed, saved, cpu, interrupted>>
    BY Zenon, <1>11, <2>2 DEF FinishRemove
  <2> QED
    BY <1>0, <1>2, <2>1, <2>3 DEF TypeOK
<1>12. CASE UNCHANGED vars
  BY Zenon, <1>2, <1>12 DEF vars
<1> QED
  BY <1>2, <1>4, <1>5, <1>6, <1>7, <1>8, <1>9, <1>10, <1>11, <1>12 DEF Next, ring

-----------------------------------------------------------------------------

Inv == PlacesInv /\ RingInv /\ StackInv

LEMMA InvAlways == Spec => []Inv
<1>1. Init => Inv
  BY Zenon, PlacesInit, RingInit, StackInit DEF Inv
<1>2. Inv /\ [Next]_vars => Inv'
  BY Zenon, PlacesStep, RingStep, StackStep DEF Inv
<1> QED
  BY <1>1, <1>2, PTL DEF Spec

(* scheduler.c: whoever holds Current_Thread_Lock is on the CPU, for any   *)
(* number of threads.                                                      *)
THEOREM LockHolderRuns == Spec => []LockHeldOnCpu
<1>1. Inv => LockHeldOnCpu
  BY Zenon DEF Inv, PlacesInv
<1> QED
  BY <1>1, InvAlways, PTL

(* scheduler_add_thread and scheduler_remove_thread keep one cycle through *)
(* exactly the threads added and not removed, whatever timer interrupts,   *)
(* yields and switches come in between.                                    *)
THEOREM RingAlwaysIntact == Spec => []RingIntact
<1>1. Inv => RingIntact
  BY Zenon DEF Inv, RingInv
<1> QED
  BY <1>1, InvAlways, PTL

(* thread_switch resumes every thread on its own stack, without a fault or *)
(* a failed assertion, as long as only the timer switches threads and no   *)
(* thread finishes itself.                                                 *)
THEOREM StacksKept == Spec => []OwnStack
<1>1. Inv => OwnStack
  BY Zenon DEF Inv, StackInv, OwnStack
<1> QED
  BY <1>1, InvAlways, PTL

-------------------------------------------------------------------------------

(* The processes: what one holds to the end, and what a failure is named   *)
(* after.                                                                  *)
Kept == {"proc", "threads", "thread"}
Reasons == Everything \cup {"growth", "pid"}

ProcessTypeOK ==
    /\ stage \in [Attempts -> Stages]
    /\ held \in [Attempts -> SUBSET Everything]
    /\ failed_at \in [Attempts -> Reasons \cup {"nothing"}]
    /\ process_refs \in [Attempts -> Int]
    /\ thread_refs \in [Attempts -> Int]

(* What a process holds, and its counts, at each stage of its life. *)
Life(p) ==
    /\ stage[p] \in {"built", "placing", "placed"} => held[p] = Everything
    /\ stage[p] = "running" =>
          /\ Everything \ {"kernel_stack"} \subseteq held[p]
          /\ process_refs[p] >= 2 /\ thread_refs[p] = 3
    /\ stage[p] = "ended" =>
          /\ Kept \subseteq held[p]
          /\ process_refs[p] >= 2 /\ thread_refs[p] = 2
    /\ p \in enlisted => stage[p] = "running"

Lives == ProcessTypeOK /\ (\A p \in Attempts : Life(p)) /\ enlisted \subseteq Attempts

(* FailureResidue's account of what each failure leaves. *)
ResidueOf(what) ==
    CASE what = "root" -> {"page_table"}
      [] what \in {"thread", "kernel_stack", "user_stack"} -> {"root"}
      [] what \in {"growth", "pid"} -> {"root", "kernel_stack", "user_stack"}
      [] OTHER -> {}

-------------------------------------------------------------------------------

LEMMA LivesInitially == ProcessInit => Lives /\ FailureResidue
<1> SUFFICES ASSUME ProcessInit PROVE Lives /\ FailureResidue
  OBVIOUS
<1>1. ProcessTypeOK
  <2>1. stage \in [Attempts -> Stages] /\ held \in [Attempts -> SUBSET Everything]
    BY DEF ProcessInit, Stages
  <2>2. failed_at \in [Attempts -> Reasons \cup {"nothing"}]
    BY DEF ProcessInit
  <2>3. process_refs \in [Attempts -> Int] /\ thread_refs \in [Attempts -> Int]
    BY DEF ProcessInit
  <2> QED
    BY <2>1, <2>2, <2>3 DEF ProcessTypeOK
<1>2. \A p \in Attempts : stage[p] = "none"
  BY DEF ProcessInit
<1>3. enlisted = {}
  BY DEF ProcessInit
<1> QED
  BY <1>1, <1>2, <1>3 DEF Lives, Life, FailureResidue

(* What the err label leaves of what each failure finds. *)
LEMMA Residue ==
    /\ \A what \in Everything \ {"page_table"} : Err(HeldBefore(what), FALSE) = ResidueOf(what)
    /\ \A what \in {"growth", "pid"} : Err(Everything, TRUE) = ResidueOf(what)
    /\ \A what \in Reasons : ResidueOf(what) \in SUBSET Everything
<1>1. ASSUME NEW what \in Everything \ {"page_table"}
      PROVE  Err(HeldBefore(what), FALSE) = ResidueOf(what)
  <2> USE DEF Err, HeldBefore, ResidueOf
  <2>1. CASE what = "proc"
    BY <2>1
  <2>2. CASE what = "threads"
    BY <2>2
  <2>3. CASE what = "vector"
    BY <2>3
  <2>4. CASE what = "root"
    BY <2>4
  <2>5. CASE what \in {"thread", "kernel_stack", "user_stack"}
    BY <2>5
  <2> QED
    BY <2>1, <2>2, <2>3, <2>4, <2>5 DEF Everything
<1>2. ASSUME NEW what \in {"growth", "pid"} PROVE Err(Everything, TRUE) = ResidueOf(what)
  BY DEF Err, Everything, ResidueOf
<1>3. ASSUME NEW what \in Reasons PROVE ResidueOf(what) \in SUBSET Everything
  BY DEF Everything, ResidueOf
<1> QED
  BY <1>1, <1>2, <1>3

LEMMA FailureStep ==
    ASSUME Lives, FailureResidue, NEW p \in Attempts, stage[p] # "running",
           NEW what \in Reasons, ResidueOf(what) \in SUBSET Everything,
           stage' = [stage EXCEPT ![p] = "failed"],
           failed_at' = [failed_at EXCEPT ![p] = what],
           held' = [held EXCEPT ![p] = ResidueOf(what)],
           process_refs' = process_refs, thread_refs' = thread_refs, enlisted' = enlisted
    PROVE  Lives' /\ FailureResidue'
<1>1. ProcessTypeOK'
  BY DEF Lives, ProcessTypeOK, Stages
<1>2. \A q \in Attempts : Life(q)'
  BY DEF Lives, ProcessTypeOK, Life
<1>3. FailureResidue'
  <2> SUFFICES ASSUME NEW q \in Attempts, stage'[q] = "failed"
               PROVE  held'[q] = ResidueOf(failed_at'[q])
    BY DEF FailureResidue, ResidueOf
  <2>1. CASE q = p
    BY <2>1 DEF Lives, ProcessTypeOK
  <2>2. CASE q # p
    <3>1. held'[q] = held[q] /\ failed_at'[q] = failed_at[q] /\ stage[q] = "failed"
      BY Zenon, <2>2 DEF Lives, ProcessTypeOK
    <3> QED
      BY <3>1 DEF FailureResidue, ResidueOf
  <2> QED
    BY <2>1, <2>2
<1> QED
  BY <1>1, <1>2, <1>3 DEF Lives

(* The steps that are no failure of process_init leave what failed alone. *)
LEMMA OtherStep ==
    ASSUME Lives, FailureResidue, NEW p \in Attempts,
           \/ Build(p) \/ ReadStart(p) \/ Enlist(p) \/ ThreadInit(p) \/ ProcessFini(p)
           \/ \E what \in Everything : BuildHalts(p, what)
    PROVE  Lives' /\ FailureResidue'
<1>0. FailureResidue'
  <2>1. \A q \in Attempts : stage'[q] = "failed" =>
            stage[q] = "failed" /\ held'[q] = held[q] /\ failed_at'[q] = failed_at[q]
    BY DEF Build, ReadStart, Enlist, ThreadInit, ProcessFini, BuildHalts, Lives, ProcessTypeOK
  <2> QED
    BY <2>1 DEF FailureResidue
<1> SUFFICES Lives'
  BY <1>0
<1> USE DEF Lives, ProcessTypeOK, Life
<1>1. CASE Build(p)
  BY <1>1 DEF Build, MayBegin, Stages, refs
<1>2. CASE ReadStart(p)
  BY <1>2 DEF ReadStart, Stages, refs
<1>3. CASE Enlist(p)
  <2>1. \A q \in Attempts : q # p => /\ stage'[q] = stage[q] /\ held'[q] = held[q]
                                     /\ process_refs'[q] = process_refs[q] /\ thread_refs'[q] = thread_refs[q]
                                     /\ (q \in enlisted' <=> q \in enlisted)
    BY <1>3 DEF Enlist
  <2>2. /\ stage'[p] = "running" /\ Everything \ {"kernel_stack"} \subseteq held'[p]
        /\ held' \in [Attempts -> SUBSET Everything] /\ enlisted' \subseteq Attempts
        /\ stage' \in [Attempts -> Stages] /\ failed_at' = failed_at
    BY <1>3 DEF Enlist, Stages
  <2>3. /\ process_refs' \in [Attempts -> Int] /\ thread_refs' \in [Attempts -> Int]
        /\ process_refs'[p] >= 2 /\ thread_refs'[p] = 3
    BY <1>3 DEF Enlist, object_clear
  <2> QED
    BY <2>1, <2>2, <2>3
<1>4. CASE ThreadInit(p)
  BY <1>4 DEF ThreadInit, refs
<1>5. CASE ProcessFini(p)
  <2>1. \A q \in Attempts : q # p => /\ stage'[q] = stage[q] /\ held'[q] = held[q]
                                     /\ process_refs'[q] = process_refs[q] /\ thread_refs'[q] = thread_refs[q]
                                     /\ (q \in enlisted' <=> q \in enlisted)
    BY <1>5 DEF ProcessFini
  <2>2. /\ stage'[p] = "ended" /\ p \notin enlisted' /\ enlisted' \subseteq Attempts
        /\ stage' \in [Attempts -> Stages] /\ failed_at' = failed_at
    BY <1>5 DEF ProcessFini, Stages
  <2>3. held' \in [Attempts -> SUBSET Everything] /\ Kept \subseteq held'[p]
    <3>1. Everything \ {"kernel_stack"} \subseteq held[p] /\ held[p] \in SUBSET Everything
      BY <1>5 DEF ProcessFini
    <3>2. held' = [held EXCEPT ![p] = page_table_fini(held[p] \ {"vector"})]
      BY <1>5 DEF ProcessFini
    <3>3. /\ page_table_fini(held[p] \ {"vector"}) \in SUBSET Everything
          /\ Kept \subseteq page_table_fini(held[p] \ {"vector"})
      BY <3>1 DEF page_table_fini, Everything, Kept
    <3> QED
      BY <3>2, <3>3
  <2>4. /\ process_refs' \in [Attempts -> Int] /\ thread_refs' \in [Attempts -> Int]
        /\ process_refs'[p] >= 2 /\ thread_refs'[p] = 2
    BY <1>5 DEF ProcessFini
  <2> QED
    BY <2>1, <2>2, <2>3, <2>4
<1>6. CASE \E what \in Everything : BuildHalts(p, what)
  BY <1>6 DEF BuildHalts, refs
<1> QED
  BY <1>1, <1>2, <1>3, <1>4, <1>5, <1>6

LEMMA LivesStep == Lives /\ FailureResidue /\ [ProcessNext]_process => Lives' /\ FailureResidue'
<1> SUFFICES ASSUME Lives, FailureResidue, [ProcessNext]_process
             PROVE  Lives' /\ FailureResidue'
  OBVIOUS
<1>1. CASE UNCHANGED process
  BY <1>1 DEF process, refs, Lives, ProcessTypeOK, Life, FailureResidue
<1>2. ASSUME NEW p \in Attempts, NEW what \in Everything, BuildFails(p, what)
      PROVE  Lives' /\ FailureResidue'
  <2>1. what \in Everything \ {"page_table"} /\ stage[p] # "running"
    BY <1>2 DEF BuildFails, MayBegin
  <2>2. /\ stage' = [stage EXCEPT ![p] = "failed"]
        /\ failed_at' = [failed_at EXCEPT ![p] = what]
        /\ held' = [held EXCEPT ![p] = ResidueOf(what)]
        /\ process_refs' = process_refs /\ thread_refs' = thread_refs /\ enlisted' = enlisted
    BY Zenon, <1>2, <2>1, Residue DEF BuildFails, Fails, refs
  <2> QED
    BY Zenon, <2>1, <2>2, Residue, FailureStep DEF Reasons
<1>3. ASSUME NEW p \in Attempts, UserStackFails(p)
      PROVE  Lives' /\ FailureResidue'
  <2>1. "user_stack" \in Everything \ {"page_table"} /\ stage[p] # "running"
    BY <1>3 DEF UserStackFails, MayBegin, Everything
  <2>2. /\ stage' = [stage EXCEPT ![p] = "failed"]
        /\ failed_at' = [failed_at EXCEPT ![p] = "user_stack"]
        /\ held' = [held EXCEPT ![p] = ResidueOf("user_stack")]
        /\ process_refs' = process_refs /\ thread_refs' = thread_refs /\ enlisted' = enlisted
    BY Zenon, <1>3, <2>1, Residue DEF UserStackFails, Fails, refs
  <2> QED
    BY Zenon, <2>1, <2>2, Residue, FailureStep DEF Reasons
<1>4. ASSUME NEW p \in Attempts, Place(p) \/ PlaceFull(p)
      PROVE  Lives' /\ FailureResidue'
  <2>1. /\ stage[p] = "placing" /\ held[p] = Everything
        /\ process_refs' = process_refs /\ thread_refs' = thread_refs /\ enlisted' = enlisted
    BY Zenon, <1>4 DEF Place, PlaceFull, Lives, Life, refs
  <2>2. ASSUME NEW what \in {"growth", "pid"}, Fails(p, what, held[p], TRUE)
        PROVE  Lives' /\ FailureResidue'
    <3>1. /\ stage' = [stage EXCEPT ![p] = "failed"]
          /\ failed_at' = [failed_at EXCEPT ![p] = what]
          /\ held' = [held EXCEPT ![p] = ResidueOf(what)]
      BY <2>1, <2>2, Residue DEF Fails
    <3> QED
      BY Zenon, <2>1, <3>1, Residue, FailureStep DEF Reasons
  <2>3. CASE stage' = [stage EXCEPT ![p] = "placed"] /\ UNCHANGED <<held, failed_at, halted>>
    BY <2>1, <2>3 DEF Lives, ProcessTypeOK, Life, Stages, FailureResidue
  <2> QED
    BY Zenon, <1>4, <2>2, <2>3 DEF Place, PlaceFull
<1> QED
  BY <1>1, <1>2, <1>3, <1>4, OtherStep DEF ProcessNext

LEMMA LivesAlways == ProcessSpec => [](Lives /\ FailureResidue)
BY LivesInitially, LivesStep, PTL DEF ProcessSpec

-------------------------------------------------------------------------------

(* However many processes are created at once and wherever process_init    *)
(* fails, what it leaves allocated is what FailureResidue says.            *)
THEOREM ResidueAlways == ProcessSpec => []FailureResidue
BY LivesAlways, PTL

(* However many processes are created and ended, each thread in the ring   *)
(* has what thread_switch needs.                                           *)
THEOREM RingAlwaysLive == ProcessSpec => []RingIsLive
<1>1. Lives => RingIsLive
  BY DEF Lives, Life, RingIsLive, Everything
<1> QED
  BY <1>1, LivesAlways, PTL

(* However many processes are created and ended, no count reaches 0: the   *)
(* code of process_free and thread_free never runs.                        *)
THEOREM NeverAnyReleased == ProcessSpec => []NeverReleased
<1>1. Lives => NeverReleased
  <2> SUFFICES ASSUME Lives, NEW p \in Attempts, stage[p] \in {"running", "ended"}
               PROVE  /\ process_refs[p] > 0 /\ thread_refs[p] > 0
                      /\ Kept \subseteq held[p]
    BY DEF NeverReleased, Kept
  <2>1. process_refs[p] \in Int /\ thread_refs[p] \in Int
    BY DEF Lives, ProcessTypeOK
  <2>2. process_refs[p] >= 2 /\ thread_refs[p] \in {2, 3}
    BY DEF Lives, Life
  <2>3. Kept \subseteq held[p]
    BY DEF Lives, Life, Everything, Kept
  <2> QED
    BY <2>1, <2>2, <2>3
<1> QED
  BY <1>1, LivesAlways, PTL

-------------------------------------------------------------------------------

(* The pids.  A search that began at start_pid[p] has come to next_pid     *)
(* over pids that were taken, and no pid is ever given back, so that when  *)
(* it comes round again all of them are taken.                             *)
PoolTypeOK ==
    /\ stage \in [Attempts -> Stages]
    /\ failed_at \in [Attempts -> Reasons \cup {"nothing"}]
    /\ next_pid \in Pids
    /\ start_pid \in [Attempts -> Pids]
    /\ id \in [Attempts -> Pids]
    /\ Process_Pool \in [Pids -> Attempts \cup {NOBODY}]

(* The pid that comes k places after s. *)
After(s, k) == IF s + k < Pid_Count THEN s + k ELSE s + k - Pid_Count

Taken(i) == Process_Pool[i] # NOBODY

(* Since p has read where its search ends, next_pid has moved n places on, *)
(* over pids that are all taken.                                           *)
Passed(p, n) ==
    /\ n \in Pids
    /\ next_pid = After(start_pid[p], n)
    /\ n # 0 => \A e \in 0 .. n : Taken(After(start_pid[p], e))

(* A process in the pool got through the search, and failed at most        *)
(* because the table did not grow.                                         *)
Entered(p) ==
    \/ stage[p] \in {"placed", "running", "ended"}
    \/ stage[p] = "failed" /\ failed_at[p] = "growth"

Pools ==
    /\ PoolTypeOK
    /\ \A p \in Attempts : stage[p] = "placing" => \E n : Passed(p, n)
    /\ \A i \in Pids : Taken(i) => Entered(Process_Pool[i])
    /\ PidsKept

-------------------------------------------------------------------------------

LEMMA LeastExists ==
    ASSUME NEW S \in SUBSET Nat, S # {}
    PROVE  \E x \in S : \A y \in S : x <= y
<1>1. PICK R : R = OpToRel(<, Nat)
  BY Zenon
<1>2. IsWellFoundedOn(R, Nat)
  BY Zenon, <1>1, NatLessThanWellFounded
<1>3. PICK x \in S : \A y \in S : ~ (<<y, x>> \in R)
  BY Zenon, <1>2, WFMin
<1>4. R = {ss \in Nat \X Nat : ss[1] < ss[2]}
  BY <1>1, Zenon DEF OpToRel
<1>5. \A y, z \in Nat : <<y, z>> \in R <=> y < z
  BY Zenon, <1>4
<1>6. \A y \in S : ~ (y < x)
  BY Zenon, <1>3, <1>5
<1> QED
  BY <1>6

LEMMA ModIs ==
    ASSUME NEW n \in Nat \ {0}, NEW q \in Int, NEW r \in 0 .. n - 1
    PROVE  (n * q + r) % n = r
OBVIOUS

(* The sum of two pids, modulo their number. *)
LEMMA AfterIs ==
    ASSUME NEW s \in Pids, NEW k \in Pids
    PROVE  /\ (s + k) % Pid_Count = After(s, k)
           /\ After(s, k) \in Pids
           /\ After(s, 0) = s
<1>1. Pid_Count \in Nat \ {0} /\ s \in 0 .. Pid_Count - 1 /\ k \in 0 .. Pid_Count - 1
  BY ProcessAssumption DEF Pids
<1>2. After(s, k) \in 0 .. Pid_Count - 1 /\ After(s, 0) = s
  BY <1>1 DEF After
<1>3. CASE s + k < Pid_Count
  <2>1. (Pid_Count * 0 + (s + k)) % Pid_Count = s + k
    BY <1>1, <1>3, ModIs
  <2>2. Pid_Count * 0 + (s + k) = s + k
    BY <1>1
  <2> QED
    BY <1>2, <1>3, <2>1, <2>2 DEF After, Pids
<1>4. CASE ~ (s + k < Pid_Count)
  <2>1. s + k - Pid_Count \in 0 .. Pid_Count - 1
    BY <1>1, <1>4
  <2>2. (Pid_Count * 1 + (s + k - Pid_Count)) % Pid_Count = s + k - Pid_Count
    BY <1>1, <2>1, ModIs
  <2>3. Pid_Count * 1 + (s + k - Pid_Count) = s + k
    BY <1>1
  <2> QED
    BY <1>2, <1>4, <2>2, <2>3 DEF After, Pids
<1> QED
  BY <1>3, <1>4

(* Going on from a place. *)
LEMMA FurtherOn ==
    ASSUME NEW s \in Pids, NEW n \in Pids, NEW d \in Pids
    PROVE  /\ n + d < Pid_Count => After(After(s, n), d) = After(s, n + d)
           /\ ~ (n + d < Pid_Count) => After(After(s, n), d) = After(s, n + d - Pid_Count)
           /\ d # 0 /\ After(After(s, n), d) = s => n + d = Pid_Count
           /\ d # 0 /\ n + d = Pid_Count => After(After(s, n), d) = s
BY ProcessAssumption DEF Pids, After

(* Every pid is some places after any other. *)
LEMMA Around ==
    ASSUME NEW s \in Pids, NEW i \in Pids
    PROVE  \E k \in Pids : i = After(s, k)
<1>1. Pid_Count \in Nat \ {0}
  BY ProcessAssumption
<1>2. CASE i >= s
  <2>1. i - s \in Pids /\ i = After(s, i - s)
    BY <1>1, <1>2 DEF Pids, After
  <2> QED
    BY <2>1
<1>3. CASE ~ (i >= s)
  <2>1. i - s + Pid_Count \in Pids /\ i = After(s, i - s + Pid_Count)
    BY <1>1, <1>3 DEF Pids, After
  <2> QED
    BY <2>1
<1> QED
  BY <1>2, <1>3

(* What the loop of process_add_pool comes to: all that next_pid has not   *)
(* passed since.                                                           *)
LEMMA ReachedIs ==
    ASSUME PoolTypeOK, NEW p \in Attempts, NEW n, Passed(p, n)
    PROVE  /\ \A d \in Pids : Pid(d) = After(next_pid, d) /\ Pid(d) \in Pids
           /\ Reached(p) = {d \in Pids : n + d < Pid_Count}
<1>1. \A d \in Pids : Pid(d) = After(next_pid, d) /\ Pid(d) \in Pids
  BY AfterIs DEF PoolTypeOK, Pid
<1>2. n \in Pids /\ start_pid[p] \in Pids /\ next_pid = After(start_pid[p], n)
  BY DEF PoolTypeOK, Passed
<1>3. ASSUME NEW e \in Pids, e # 0
      PROVE  Pid(e) = start_pid[p] <=> n + e = Pid_Count
  <2>1. Pid(e) = After(After(start_pid[p], n), e)
    BY Zenon, <1>1, <1>2
  <2> QED
    BY <1>2, <1>3, <2>1, FurtherOn
<1>4. Pid_Count \in Nat \ {0} /\ n \in 0 .. Pid_Count - 1
  BY <1>2, ProcessAssumption DEF Pids
<1>5. ASSUME NEW d \in Pids
      PROVE  (\A e \in 1 .. d : Pid(e) # start_pid[p]) <=> n + d < Pid_Count
  <2>1. d \in 0 .. Pid_Count - 1 /\ \A e \in 1 .. d : e \in Pids /\ e # 0
    BY <1>4 DEF Pids
  <2>2. CASE n + d < Pid_Count
    <3>1. \A e \in 1 .. d : n + e # Pid_Count
      BY <1>4, <2>1, <2>2
    <3> QED
      BY <1>3, <2>1, <2>2, <3>1
  <2>3. CASE ~ (n + d < Pid_Count)
    <3>1. Pid_Count - n \in 1 .. d /\ n + (Pid_Count - n) = Pid_Count
      BY <1>4, <2>1, <2>3
    <3> QED
      BY <1>3, <2>1, <2>3, <3>1
  <2> QED
    BY <2>2, <2>3
<1> QED
  BY <1>1, <1>5 DEF Reached, Pids

(* A search that finds no free pid has shown that there is none.           *)
LEMMA NoneLeft ==
    ASSUME PoolTypeOK, NEW p \in Attempts, NEW n, Passed(p, n), FreeReached(p) = {}
    PROVE  \A i \in Pids : Taken(i)
<1> SUFFICES ASSUME NEW i \in Pids
             PROVE  Taken(i)
  OBVIOUS
<1>1. n \in Pids /\ start_pid[p] \in Pids /\ next_pid = After(start_pid[p], n)
  BY DEF PoolTypeOK, Passed
<1>2. PICK k \in Pids : i = After(start_pid[p], k)
  BY <1>1, Around
<1>3. Pid_Count \in Nat \ {0} /\ n \in 0 .. Pid_Count - 1 /\ k \in 0 .. Pid_Count - 1
  BY <1>1, <1>2, ProcessAssumption DEF Pids
<1>4. CASE n # 0 /\ k <= n
  <2>1. k \in 0 .. n
    BY <1>3, <1>4
  <2> QED
    BY <1>2, <1>4, <2>1 DEF Passed
<1>5. CASE ~ (n # 0 /\ k <= n)
  <2>1. k - n \in 0 .. Pid_Count - 1 /\ n + (k - n) = k /\ k < Pid_Count
    BY <1>3, <1>5
  <2>2. k - n \in Reached(p) /\ Pid(k - n) = After(next_pid, k - n)
    BY <2>1, ReachedIs DEF Pids
  <2>3. After(After(start_pid[p], n), k - n) = After(start_pid[p], n + (k - n))
    <3>1. k - n \in Pids /\ n + (k - n) < Pid_Count
      BY <1>3, <1>5, <2>1 DEF Pids
    <3> QED
      BY <1>1, <3>1, FurtherOn
  <2> QED
    BY <1>1, <1>2, <2>1, <2>2, <2>3 DEF FreeReached, Taken
<1> QED
  BY <1>4, <1>5

(* The pid that a search takes is the first free one it comes to. *)
LEMMA FirstFreeIs ==
    ASSUME PoolTypeOK, NEW p \in Attempts, NEW n, Passed(p, n), FreeReached(p) # {}
    PROVE  /\ FirstFree(p) \in Pids
           /\ Pid(FirstFree(p)) = After(next_pid, FirstFree(p))
           /\ Pid(FirstFree(p)) \in Pids /\ ~ Taken(Pid(FirstFree(p)))
           /\ \A e \in 0 .. FirstFree(p) - 1 : Taken(After(next_pid, e))
<1>1. FreeReached(p) \in SUBSET Nat
  BY ProcessAssumption DEF FreeReached, Reached
<1>2. \E d \in FreeReached(p) : \A e \in FreeReached(p) : d <= e
  BY <1>1, LeastExists
<1>3. /\ FirstFree(p) \in FreeReached(p)
      /\ \A e \in FreeReached(p) : FirstFree(p) <= e
  BY <1>2 DEF FirstFree
<1> DEFINE d == FirstFree(p)
<1> HIDE DEF d
<1>4. /\ d \in FreeReached(p) /\ \A e \in FreeReached(p) : d <= e
  BY <1>3 DEF d
<1>5. d \in Reached(p) /\ ~ Taken(Pid(d))
  BY <1>4 DEF FreeReached, Taken
<1>6. /\ d \in Pids /\ n + d < Pid_Count
      /\ \A e \in Pids : Pid(e) = After(next_pid, e) /\ Pid(e) \in Pids
  BY <1>5, ReachedIs
<1>7. ASSUME NEW e \in 0 .. d - 1
      PROVE  Taken(After(next_pid, e))
  <2>1. n \in Pids
    BY DEF Passed
  <2>2. e \in Pids /\ n + e < Pid_Count /\ ~ (d <= e)
    BY <1>6, <2>1, ProcessAssumption DEF Pids
  <2>3. e \in Reached(p) /\ Pid(e) = After(next_pid, e)
    BY <2>2, ReachedIs
  <2> QED
    BY <1>4, <2>2, <2>3 DEF FreeReached, Taken
<1>8. /\ d \in Pids /\ Pid(d) = After(next_pid, d) /\ Pid(d) \in Pids /\ ~ Taken(Pid(d))
  BY <1>5, <1>6
<1> QED
  BY <1>7, <1>8 DEF d

(* Whoever else is searching, the pid that one search takes is passed by   *)
(* the others too.                                                         *)
LEMMA StillPassed ==
    ASSUME PoolTypeOK, NEW q \in Attempts, NEW n, Passed(q, n),
           NEW d \in Pids, NEW r,
           \A e \in 0 .. d - 1 : Taken(After(next_pid, e)), r # NOBODY,
           next_pid' = After(next_pid, d), start_pid' = start_pid,
           Process_Pool' = [Process_Pool EXCEPT ![After(next_pid, d)] = r]
    PROVE  \E m : Passed(q, m)'
<1> DEFINE s == start_pid[q]
<1>1. n \in Pids /\ s \in Pids /\ next_pid = After(s, n) /\ next_pid \in Pids
  BY DEF PoolTypeOK, Passed
<1>2. Pid_Count \in Nat \ {0} /\ n \in 0 .. Pid_Count - 1 /\ d \in 0 .. Pid_Count - 1
  BY <1>1, ProcessAssumption DEF Pids
<1>3. /\ \A i \in Pids : Taken(i) => Process_Pool'[i] # NOBODY
      /\ Process_Pool'[After(next_pid, d)] # NOBODY
  <2>1. After(next_pid, d) \in Pids
    BY <1>1, AfterIs
  <2> QED
    BY <2>1 DEF PoolTypeOK, Taken
<1>4. \A e \in Pids : After(s, e) \in Pids
  BY <1>1, AfterIs
<1> HIDE DEF s
<1>5. CASE n + d < Pid_Count
  <2>1. n + d \in Pids /\ next_pid' = After(s, n + d)
    BY <1>1, <1>2, <1>5, FurtherOn DEF Pids
  <2>2. ASSUME n + d # 0, NEW e \in 0 .. n + d
        PROVE  Process_Pool'[After(s, e)] # NOBODY
    <3>1. e \in Pids
      BY <1>2, <1>5 DEF Pids
    <3>2. CASE n # 0 /\ e <= n
      <4>1. e \in 0 .. n
        BY <1>2, <3>2
      <4> QED
        BY <1>3, <1>4, <3>1, <3>2, <4>1 DEF Passed, s
    <3>3. CASE ~ (n # 0 /\ e <= n)
      <4>1. e - n \in 0 .. d /\ n + (e - n) = e
        BY <1>2, <3>3
      <4>2. After(s, e) = After(next_pid, e - n)
        <5>1. e - n \in Pids /\ n + (e - n) < Pid_Count
          BY <1>2, <1>5, <4>1 DEF Pids
        <5>2. After(After(s, n), e - n) = After(s, n + (e - n))
          BY <1>1, <5>1, FurtherOn
        <5> QED
          BY Zenon, <1>1, <4>1, <5>2
      <4>3. CASE e - n = d
        BY Zenon, <1>3, <4>2, <4>3
      <4>4. CASE e - n # d
        <5>1. e - n \in 0 .. d - 1
          BY <1>2, <4>1, <4>4
        <5> QED
          BY Zenon, <1>3, <1>4, <3>1, <4>2, <5>1
      <4> QED
        BY <4>3, <4>4
    <3> QED
      BY <3>2, <3>3
  <2> QED
    BY <2>1, <2>2 DEF Passed, Taken, s
<1>6. CASE ~ (n + d < Pid_Count)
  <2> DEFINE m == n + d - Pid_Count
  <2>1. m \in Pids /\ m < n /\ n # 0
    BY <1>2, <1>6 DEF Pids
  <2>3. next_pid' = After(s, m)
    <3>1. After(After(s, n), d) = After(s, m)
      BY <1>1, <1>6, FurtherOn
    <3> QED
      BY Zenon, <1>1, <3>1
  <2>2. ASSUME NEW e \in 0 .. m
        PROVE  Process_Pool'[After(s, e)] # NOBODY
    <3>1. e \in Pids /\ e \in 0 .. n
      BY <1>2, <2>1 DEF Pids
    <3> QED
      BY Zenon, <1>3, <1>4, <2>1, <3>1 DEF Passed, s
  <2> QED
    BY <2>1, <2>2, <2>3 DEF Passed, Taken, s
<1> QED
  BY <1>5, <1>6

(* When all pids are taken it does not matter where next_pid is. *)
LEMMA AllPassed ==
    ASSUME PoolTypeOK, NEW q \in Attempts, \A i \in Pids : Taken(i),
           next_pid' \in Pids, start_pid' = start_pid, Process_Pool' = Process_Pool
    PROVE  \E m : Passed(q, m)'
<1>1. start_pid[q] \in Pids
  BY DEF PoolTypeOK
<1>2. PICK m \in Pids : next_pid' = After(start_pid[q], m)
  BY Zenon, <1>1, Around
<1>3. \A e \in 0 .. m : e \in Pids
  BY ProcessAssumption DEF Pids
<1>4. \A e \in 0 .. m : Taken(After(start_pid[q], e))'
  BY <1>1, <1>3, AfterIs DEF Taken
<1> QED
  BY <1>2, <1>4 DEF Passed

-------------------------------------------------------------------------------

LEMMA PoolsInitially == ProcessInit => Pools
<1> SUFFICES ASSUME ProcessInit PROVE Pools
  OBVIOUS
<1>1. 0 \in Pids
  BY ProcessAssumption DEF Pids
<1>2. PoolTypeOK
  BY <1>1 DEF ProcessInit, PoolTypeOK, Stages
<1> QED
  BY <1>2 DEF ProcessInit, Pools, PidsKept, Taken

(* A step that leaves the pool, the searches and the failures for want of  *)
(* a pid alone.                                                            *)
LEMMA PoolsKept ==
    ASSUME Pools, PoolTypeOK',
           UNCHANGED <<next_pid, Process_Pool, id, start_pid>>,
           \A q \in Attempts :
              /\ stage'[q] = "placing" => stage[q] = "placing"
              /\ Entered(q) => Entered(q)'
              /\ stage'[q] \in {"placed", "running", "ended"} =>
                    stage[q] \in {"placed", "running", "ended"}
              /\ failed_at'[q] = "pid" => failed_at[q] = "pid"
    PROVE  Pools'
<1>1. \A i \in Pids : Taken(i)' <=> Taken(i)
  BY Zenon DEF Taken
<1>2. \A q \in Attempts : stage'[q] = "placing" => \E n : Passed(q, n)'
  BY DEF Pools, Passed, Taken
<1>3. ASSUME NEW i \in Pids, Taken(i)'
      PROVE  Entered(Process_Pool[i])'
  <2>1. Process_Pool[i] \in Attempts /\ Entered(Process_Pool[i])
    BY Zenon, <1>1, <1>3 DEF Pools, PoolTypeOK, Taken
  <2> QED
    BY <2>1
<1>4. PidsKept'
  <2>1. \A p \in Attempts : stage'[p] \in {"placed", "running", "ended"} => Process_Pool'[id'[p]] = p
    BY Zenon DEF Pools, PidsKept
  <2>2. \A i \in Pids : Process_Pool'[i] # NOBODY /\ stage'[Process_Pool'[i]] = "failed" =>
           failed_at'[Process_Pool'[i]] = "growth"
    BY Zenon, <1>3 DEF Entered, Taken
  <2>3. \A p \in Attempts : failed_at'[p] = "pid" => \A i \in Pids : Process_Pool'[i] # NOBODY
    BY DEF Pools, PidsKept
  <2> QED
    BY <2>1, <2>2, <2>3 DEF PidsKept
<1>5. \A i \in Pids : Taken(i)' => Entered(Process_Pool[i])'
  BY <1>3
<1> QED
  BY <1>2, <1>4, <1>5 DEF Pools, Entered

(* Everything but the search itself. *)
LEMMA PoolsOtherStep ==
    ASSUME Pools, NEW p \in Attempts,
           \/ Build(p) \/ Enlist(p) \/ ThreadInit(p) \/ ProcessFini(p) \/ UserStackFails(p)
           \/ \E what \in Everything : BuildFails(p, what) \/ BuildHalts(p, what)
    PROVE  Pools'
<1>0. PoolTypeOK /\ "pid" \notin Everything
  BY DEF Pools, Everything
<1> SUFFICES /\ PoolTypeOK' /\ UNCHANGED <<next_pid, Process_Pool, id, start_pid>>
             /\ \A q \in Attempts :
                  /\ stage'[q] = "placing" => stage[q] = "placing"
                  /\ Entered(q) => Entered(q)'
                  /\ stage'[q] \in {"placed", "running", "ended"} =>
                        stage[q] \in {"placed", "running", "ended"}
                  /\ failed_at'[q] = "pid" => failed_at[q] = "pid"
  BY Zenon, PoolsKept
<1> USE DEF PoolTypeOK, Stages, Entered
<1>1. CASE Build(p)
  BY Zenon, <1>0, <1>1 DEF Build, MayBegin
<1>2. CASE Enlist(p)
  BY Zenon, <1>0, <1>2 DEF Enlist
<1>3. CASE ThreadInit(p)
  BY Zenon, <1>0, <1>3 DEF ThreadInit
<1>4. CASE ProcessFini(p)
  BY <1>0, <1>4 DEF ProcessFini
<1>5. ASSUME NEW what \in Everything, BuildHalts(p, what)
      PROVE  UNCHANGED <<stage, failed_at, next_pid, Process_Pool, id, start_pid>>
  BY Zenon, <1>5 DEF BuildHalts
<1>6. ASSUME NEW what \in Everything,
             BuildFails(p, what) \/ (UserStackFails(p) /\ what = "user_stack")
      PROVE  /\ stage[p] = "none" /\ UNCHANGED <<next_pid, Process_Pool, id, start_pid>>
             /\ stage' = [stage EXCEPT ![p] = "failed"]
             /\ failed_at' = [failed_at EXCEPT ![p] = what]
  BY Zenon, <1>6 DEF BuildFails, UserStackFails, MayBegin, Fails
<1>7. "user_stack" \in Everything
  BY DEF Everything
<1>8. CASE \E what \in Everything : BuildHalts(p, what)
  BY <1>0, <1>5, <1>8
<1>9. CASE UserStackFails(p) \/ \E what \in Everything : BuildFails(p, what)
  <2>1. PICK what \in Everything : BuildFails(p, what) \/ (UserStackFails(p) /\ what = "user_stack")
    BY <1>7, <1>9
  <2> QED
    BY <1>0, <1>6, <2>1 DEF Reasons
<1> QED
  BY Zenon, <1>1, <1>2, <1>3, <1>4, <1>8, <1>9

(* process_add_pool before it takes the lock: nothing is passed yet.       *)
LEMMA ReadStartStep ==
    ASSUME Pools, NEW p \in Attempts, ReadStart(p)
    PROVE  Pools'
<1>1. PoolTypeOK'
  BY DEF Pools, PoolTypeOK, ReadStart, Stages
<1>2. ASSUME NEW q \in Attempts, stage'[q] = "placing"
      PROVE  \E n : Passed(q, n)'
  <2>1. CASE q = p
    <3>1. 0 \in Pids /\ After(next_pid, 0) = next_pid
      BY AfterIs, ProcessAssumption DEF Pids, Pools, PoolTypeOK
    <3>2. start_pid'[p] = next_pid /\ next_pid' = next_pid
      BY DEF ReadStart, Pools, PoolTypeOK
    <3>3. Passed(p, 0)'
      BY <3>1, <3>2 DEF Passed
    <3> QED
      BY <2>1, <3>3
  <2>2. CASE q # p
    <3>1. /\ stage[q] = "placing" /\ start_pid'[q] = start_pid[q]
          /\ next_pid' = next_pid /\ Process_Pool' = Process_Pool
      BY <1>2, <2>2 DEF ReadStart, Pools, PoolTypeOK
    <3>2. PICK n : Passed(q, n)
      BY <3>1 DEF Pools
    <3>3. Passed(q, n)'
      BY <3>1, <3>2 DEF Passed, Taken
    <3> QED
      BY <3>3
  <2> QED
    BY <2>1, <2>2
<1>3. /\ UNCHANGED <<failed_at, Process_Pool, id>> /\ stage[p] = "built"
      /\ \A q \in Attempts : q # p => stage'[q] = stage[q]
      /\ stage'[p] = "placing"
  BY DEF ReadStart, Pools, PoolTypeOK
<1>4. ASSUME NEW i \in Pids, Taken(i)'
      PROVE  Process_Pool'[i] \in Attempts /\ Entered(Process_Pool[i])'
  BY <1>3, <1>4 DEF Pools, PoolTypeOK, Taken, Entered
<1>5. PidsKept'
  <2>1. \A q \in Attempts : stage'[q] \in {"placed", "running", "ended"} => Process_Pool'[id'[q]] = q
    BY <1>3 DEF Pools, PidsKept
  <2>2. \A i \in Pids : Process_Pool'[i] # NOBODY /\ stage'[Process_Pool'[i]] = "failed" =>
           failed_at'[Process_Pool'[i]] = "growth"
    BY Zenon, <1>4 DEF Entered, Taken
  <2>3. \A q \in Attempts : failed_at'[q] = "pid" => \A i \in Pids : Process_Pool'[i] # NOBODY
    BY Zenon, <1>3 DEF Pools, PidsKept
  <2> QED
    BY Zenon, <2>1, <2>2, <2>3 DEF PidsKept
<1> QED
  BY Zenon, <1>1, <1>2, <1>4, <1>5 DEF Pools, Entered

(* process_add_pool finds a pid. *)
LEMMA PlaceStep ==
    ASSUME Pools, NEW p \in Attempts, Place(p)
    PROVE  Pools'
<1> DEFINE d == FirstFree(p)
           pid == After(next_pid, d)
<1>1. PoolTypeOK /\ stage[p] = "placing" /\ FreeReached(p) # {}
  BY DEF Pools, Place
<1>2. PICK n : Passed(p, n)
  BY <1>1 DEF Pools
<1>3. /\ d \in Pids /\ pid \in Pids /\ ~ Taken(pid) /\ Pid(d) = pid
      /\ \A e \in 0 .. d - 1 : Taken(After(next_pid, e))
  BY <1>1, <1>2, FirstFreeIs
<1>4. /\ next_pid' = pid /\ id' = [id EXCEPT ![p] = pid] /\ start_pid' = start_pid
      /\ Process_Pool' = [Process_Pool EXCEPT ![pid] = p]
  BY <1>3 DEF Place
<1>5. \/ stage' = [stage EXCEPT ![p] = "placed"] /\ failed_at' = failed_at
      \/ /\ stage' = [stage EXCEPT ![p] = "failed"]
         /\ failed_at' = [failed_at EXCEPT ![p] = "growth"]
  BY Zenon DEF Place, Fails
<1> HIDE DEF d
<1>6. PoolTypeOK' /\ p # NOBODY /\ NOBODY \notin Attempts
  BY Zenon, <1>1, <1>3, <1>4, <1>5, ProcessAssumption DEF PoolTypeOK, Stages, Reasons, NOBODY
<1>7. /\ \A q \in Attempts : q # p => /\ stage'[q] = stage[q] /\ failed_at'[q] = failed_at[q]
                                      /\ id'[q] = id[q]
      /\ Entered(p)' /\ stage'[p] # "placing" /\ failed_at'[p] \in {failed_at[p], "growth"}
      /\ id'[p] = pid /\ Process_Pool'[pid] = p
      /\ \A i \in Pids : i # pid => Process_Pool'[i] = Process_Pool[i]
  BY <1>1, <1>3, <1>4, <1>5 DEF PoolTypeOK, Entered
<1>8. ASSUME NEW q \in Attempts, stage'[q] = "placing"
      PROVE  \E m : Passed(q, m)'
  <2>1. stage[q] = "placing"
    BY Zenon, <1>7, <1>8
  <2>2. PICK m : Passed(q, m)
    BY <2>1 DEF Pools
  <2> QED
    BY <1>1, <1>3, <1>4, <1>6, <2>2, StillPassed
<1>9. ASSUME NEW i \in Pids, Taken(i)'
      PROVE  Process_Pool'[i] \in Attempts /\ Entered(Process_Pool[i])'
  <2>1. CASE i = pid
    BY Zenon, <1>7, <2>1
  <2>2. CASE i # pid
    <3>1. /\ Process_Pool'[i] = Process_Pool[i] /\ Process_Pool[i] \in Attempts
          /\ Entered(Process_Pool[i])
      BY <1>1, <1>7, <1>9, <2>2 DEF Pools, PoolTypeOK, Taken
    <3>2. Process_Pool[i] # p
      BY <1>1, <3>1 DEF Entered
    <3> QED
      BY Zenon, <1>7, <3>1, <3>2 DEF Entered
  <2> QED
    BY <2>1, <2>2
<1>10. PidsKept'
  <2>1. ASSUME NEW q \in Attempts, stage'[q] \in {"placed", "running", "ended"}
        PROVE  Process_Pool'[id'[q]] = q
    <3>1. CASE q = p
      BY Zenon, <1>7, <3>1
    <3>2. CASE q # p
      <4>1. Process_Pool[id[q]] = q /\ id'[q] = id[q] /\ id[q] \in Pids
        BY Zenon, <1>1, <1>7, <2>1, <3>2 DEF Pools, PidsKept, PoolTypeOK
      <4>2. id[q] # pid
        BY Zenon, <1>3, <1>6, <4>1 DEF Taken
      <4> QED
        BY <1>7, <4>1, <4>2
    <3> QED
      BY <3>1, <3>2
  <2>2. \A i \in Pids : Process_Pool'[i] # NOBODY /\ stage'[Process_Pool'[i]] = "failed" =>
           failed_at'[Process_Pool'[i]] = "growth"
    BY <1>9 DEF Entered, Taken
  <2>3. \A q \in Attempts : failed_at'[q] = "pid" => \A i \in Pids : Process_Pool'[i] # NOBODY
    <3>1. \A q \in Attempts : failed_at'[q] = "pid" => failed_at[q] = "pid"
      BY Zenon, <1>7
    <3>2. \A i \in Pids : Process_Pool[i] # NOBODY => Process_Pool'[i] # NOBODY
      BY <1>6, <1>7
    <3> QED
      BY Zenon, <3>1, <3>2 DEF Pools, PidsKept
  <2> QED
    BY <2>1, <2>2, <2>3 DEF PidsKept
<1> QED
  BY Zenon, <1>6, <1>8, <1>9, <1>10 DEF Pools, Entered

(* process_add_pool finds none. *)
LEMMA PlaceFullStep ==
    ASSUME Pools, NEW p \in Attempts, PlaceFull(p)
    PROVE  Pools'
<1>1. PoolTypeOK /\ stage[p] = "placing" /\ FreeReached(p) = {}
  BY Zenon DEF Pools, PlaceFull
<1>2. \A i \in Pids : Taken(i)
  <2>1. PICK n : Passed(p, n)
    BY <1>1 DEF Pools
  <2> QED
    BY <1>1, <2>1, NoneLeft
<1>3. /\ next_pid' = start_pid[p] /\ UNCHANGED <<Process_Pool, id, start_pid>>
      /\ stage' = [stage EXCEPT ![p] = "failed"]
      /\ failed_at' = [failed_at EXCEPT ![p] = "pid"]
  BY DEF PlaceFull, Fails
<1>4. PoolTypeOK'
  BY <1>1, <1>3 DEF PoolTypeOK, Stages, Reasons
<1>5. /\ \A q \in Attempts : q # p => stage'[q] = stage[q] /\ failed_at'[q] = failed_at[q]
      /\ stage'[p] = "failed"
  BY Zenon, <1>1, <1>3 DEF PoolTypeOK
<1>6. \A q \in Attempts : stage'[q] = "placing" => \E m : Passed(q, m)'
  BY Zenon, <1>1, <1>2, <1>3, <1>4, AllPassed DEF PoolTypeOK
<1>7. ASSUME NEW i \in Pids
      PROVE  Process_Pool'[i] \in Attempts /\ Entered(Process_Pool[i])'
  <2>1. Process_Pool[i] \in Attempts /\ Entered(Process_Pool[i])
    BY Zenon, <1>1, <1>2 DEF Pools, PoolTypeOK, Taken
  <2>2. Process_Pool[i] # p
    BY Zenon, <1>1, <2>1 DEF Entered
  <2> QED
    BY <1>3, <1>5, <2>1, <2>2 DEF Entered
<1>8. PidsKept'
  <2>1. \A q \in Attempts : stage'[q] \in {"placed", "running", "ended"} => Process_Pool'[id'[q]] = q
    BY <1>3, <1>5 DEF Pools, PidsKept
  <2>2. \A i \in Pids : Process_Pool'[i] # NOBODY /\ stage'[Process_Pool'[i]] = "failed" =>
           failed_at'[Process_Pool'[i]] = "growth"
    BY <1>7 DEF Entered
  <2>3. \A i \in Pids : Process_Pool'[i] # NOBODY
    BY <1>2, <1>3 DEF Taken
  <2> QED
    BY Zenon, <2>1, <2>2, <2>3 DEF PidsKept
<1> QED
  BY Zenon, <1>4, <1>6, <1>7, <1>8 DEF Pools, Entered

LEMMA PoolsStep == Pools /\ [ProcessNext]_process => Pools'
<1> SUFFICES ASSUME Pools, [ProcessNext]_process
             PROVE  Pools'
  OBVIOUS
<1>1. CASE UNCHANGED process
  <2>1. UNCHANGED <<stage, failed_at, next_pid, Process_Pool, id, start_pid>>
    BY <1>1 DEF process
  <2> QED
    BY <2>1, PoolsKept DEF Pools, PoolTypeOK, Entered
<1> QED
  BY <1>1, PoolsOtherStep, ReadStartStep, PlaceStep, PlaceFullStep DEF ProcessNext

(* However many searches for a pid overlap, every process keeps the pid it *)
(* was given, the pool points to freed memory only after a table that did  *)
(* not grow, and process_add_pool refuses only when every pid is in use.   *)
THEOREM PidsAlwaysKept == ProcessSpec => []PidsKept
<1>1. Pools => PidsKept
  BY DEF Pools
<1> QED
  BY <1>1, PoolsInitially, PoolsStep, PTL DEF ProcessSpec
===============================================================================
