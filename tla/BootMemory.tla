------------------------------ MODULE BootMemory ------------------------------
(***************************************************************************)
(* insert_regions of core/physical_allocator.c: the usable regions of the  *)
(* boot loader's memory map are handed to the page allocator, around the   *)
(* kernel, the list of modules and the modules.  Addresses count pages; a  *)
(* region runs from its start up to, not including, its end.               *)
(*                                                                         *)
(* The maps are those of a PC: usable memory from 0, a hole that ends      *)
(* below the end of the kernel, usable memory that holds the rest of the   *)
(* kernel, the list (unless it lies lower) and the modules in ascending    *)
(* order, and possibly more usable memory above.                           *)
(***************************************************************************)
EXTENDS Integers, Sequences, FiniteSets

CONSTANTS
    Kernel_Physical_End,
    Memory_End          \* no usable page at or above it

Boot_Map_Start == 1
Boot_Map_End == Kernel_Physical_End

VARIABLES
    mmap,               \* usable regions still to be handed over, ascending
    usable,             \* all of them
    reserved,           \* the regions to spare, in the code's order
    given               \* physical_free_range calls so far

bootmemory == <<mmap, usable, reserved, given>>

Region(a, b) == [start |-> a, end |-> b]
PagesIn(r) == r.start .. r.end - 1

contains(a, b) ==
    \/ b.start > a.start /\ b.start < a.end
    \/ b.end > a.start /\ b.end < a.end

(* The kernel, the list of modules unless it lies with the kernel, and the *)
(* modules as listed.                                                      *)
ReservedOf(list, modules) ==
    LET boot == Region(Boot_Map_Start, Boot_Map_End)
    IN  (IF contains(boot, list) THEN <<boot>>
         ELSE IF boot.start < list.start THEN <<boot, list>> ELSE <<list, boot>>) \o modules

(* A region is changed as the reserved ones in it are met: mmap[i].addr    *)
(* and mmap[i].len become start and end.  The length loses the distance    *)
(* between two reserved regions, not that from the region's start.         *)
ShortenedWhole(mem, r, next) == Region(next.start, mem.end + next.start - mem.start)
Shortened(mem, r, next) ==
    Region(next.start, next.start + (mem.end - mem.start) - (next.start - r.start))

RangesAt(mem, r, next) ==
    (IF r.start > mem.start THEN <<Region(mem.start, r.start)>> ELSE <<>>)
    \o (IF next # <<>> /\ contains(mem, next[1])
        THEN IF r.end # next[1].start THEN <<Region(r.end, next[1].start)>> ELSE <<>>
        ELSE IF r.end < mem.end THEN <<Region(r.end, mem.end)>> ELSE <<>>)

Around(whole, spare) ==
    LET Step[j \in 0 .. Len(spare)] ==
            IF j = 0 THEN [mem |-> whole, inserted |-> FALSE, ranges |-> <<>>]
            ELSE LET was == Step[j - 1]
                     next == IF j < Len(spare) THEN <<spare[j + 1]>> ELSE <<>>
                 IN  IF ~contains(was.mem, spare[j]) THEN was
                     ELSE [mem |-> IF next # <<>> /\ contains(was.mem, next[1])
                                   THEN Shortened(was.mem, spare[j], next[1]) ELSE was.mem,
                           inserted |-> TRUE,
                           ranges |-> was.ranges \o RangesAt(was.mem, spare[j], next)]
        last == Step[Len(spare)]
    IN  last.ranges \o (IF last.inserted THEN <<>> ELSE <<last.mem>>)

(* The memory maps of a PC. *)
Low == {Region(0, a) : a \in 2 .. Boot_Map_End - 2}
High == {Region(a, b) : a \in 3 .. Boot_Map_End - 1, b \in Boot_Map_End + 1 .. Memory_End - 2}
Above(high) == {<<>>, <<Region(high.end + 1, Memory_End)>>}
ListIn(high) ==
    {Region(0, 1), Region(Boot_Map_Start + 1, Boot_Map_Start + 2)}
    \cup {Region(a, a + 1) : a \in Boot_Map_End .. high.end - 1}
ModuleLists(high, list) ==
    LET from == IF list.start < Boot_Map_End THEN Boot_Map_End ELSE list.end
        one == {Region(a, b) : a \in from .. high.end - 1, b \in from + 1 .. high.end}
    IN  {<<>>} \cup {<<x>> : x \in {y \in one : y.start < y.end}}
        \cup {<<p[1], p[2]>> : p \in {q \in one \X one : /\ q[1].start < q[1].end
                                                        /\ q[2].start < q[2].end
                                                        /\ q[1].end <= q[2].start}}
BootMemoryInit ==
    \E low \in Low, high \in High :
       /\ low.end < high.start
       /\ \E more \in Above(high) : usable = <<low, high>> \o more
       /\ mmap = usable
       /\ \E list \in ListIn(high) : \E modules \in ModuleLists(high, list) :
             reserved = ReservedOf(list, modules)
       /\ given = <<>>

InsertRegion ==
    /\ mmap # <<>>
    /\ given' = given \o Around(Head(mmap), reserved)
    /\ mmap' = Tail(mmap)
    /\ UNCHANGED <<usable, reserved>>

-------------------------------------------------------------------------------
(* On the memory maps of a PC, insert_regions gives away no page of the    *)
(* kernel, of the list of modules or of a module, no page that is not      *)
(* usable, no page twice, and no empty range, which physical_free_range    *)
(* asserts.                                                                *)
OnlyFreeGiven ==
    \A k \in DOMAIN given :
        /\ given[k].start < given[k].end
        /\ \E m \in DOMAIN usable : PagesIn(given[k]) \subseteq PagesIn(usable[m])
        /\ \A m \in DOMAIN reserved : PagesIn(given[k]) \cap PagesIn(reserved[m]) = {}
        /\ \A m \in DOMAIN given : m # k => PagesIn(given[k]) \cap PagesIn(given[m]) = {}
===============================================================================
