--------------------------- MODULE PageAllocator ----------------------------
(***************************************************************************)
(* What the physical allocator promises its callers: a page is either free *)
(* or held, an allocation hands out some free page, and the machine stops  *)
(* only when there is none left.  How the free pages are kept is the       *)
(* business of PhysicalAllocator.                                          *)
(***************************************************************************)
CONSTANT Pages      \* the physical pages

VARIABLES
    free,           \* pages an allocation may hand out
    held,           \* pages handed out, or never given to the allocator
    halted          \* the machine has panicked

vars == <<free, held, halted>>

Init ==
    /\ free = {}
    /\ held = Pages
    /\ halted = FALSE

(* physical_alloc, from the caller's side. *)
Alloc(p) ==
    /\ ~halted
    /\ p \in free
    /\ free' = free \ {p}
    /\ held' = held \cup {p}
    /\ UNCHANGED halted

(* physical_alloc with nothing to hand out. *)
Exhausted ==
    /\ ~halted
    /\ free = {}
    /\ halted' = TRUE
    /\ UNCHANGED <<free, held>>

(* physical_free_range and physical_free. *)
FreeRange(S) ==
    /\ ~halted
    /\ S \subseteq held
    /\ free' = free \cup S
    /\ held' = held \ S
    /\ UNCHANGED halted

Next ==
    \/ \E p \in Pages : Alloc(p)
    \/ Exhausted
    \/ \E S \in SUBSET Pages : FreeRange(S)

Spec == Init /\ [][Next]_vars
=============================================================================
