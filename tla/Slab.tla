-------------------------------- MODULE Slab --------------------------------
(***************************************************************************)
(* kernel/core/slab.c: pages of kernel virtual memory.  slab_higher_half   *)
(* records the free address ranges; an allocation takes a range, a page of *)
(* physical memory for each of its pages, and maps them.  Every function   *)
(* runs under slab_higher_half_lock, so each is one action.                *)
(*                                                                         *)
(* Physical pages come from the physical allocator, here the set of free   *)
(* pages it promises (PageAllocator); page tables exist.  Addresses are    *)
(* counted in units of which Page_Small makes a page: Higher_Half_End is   *)
(* one less than the size of the address space and no page boundary.       *)
(***************************************************************************)
EXTENDS RegionVector

CONSTANTS
    Page_Small,
    Lower_Half_End,
    Kernel_Memory_Start,
    Kernel_Virtual_Start,
    Kernel_Virtual_End,
    Random_Addresses,   \* what random_address may return
    RAM,                \* physical pages
    Device,             \* stands for physical memory a driver asks for
    Absent,             \* no mapping
    Allocations,        \* sizes of allocations, in pages
    Horizon             \* bound: how far past the kernel addresses are given out

Higher_Half_End == AddressSpace - 1

ASSUME SlabAssumption ==
    /\ Page_Small \in Nat \ {0} /\ AddressSpace % Page_Small = 0
    /\ {Lower_Half_End, Kernel_Memory_Start, Kernel_Virtual_Start,
        Kernel_Virtual_End} \subseteq Nat
    /\ Random_Addresses \subseteq 0 .. AddressSpace - 1 /\ Allocations \subseteq Nat \ {0}
    /\ Device \notin RAM /\ Absent \notin RAM \cup {Device}
    /\ Lower_Half_End < Kernel_Memory_Start
    /\ Kernel_Memory_Start < Kernel_Virtual_Start
    /\ Kernel_Virtual_Start < Kernel_Virtual_End
    /\ Kernel_Virtual_End < Higher_Half_End
    /\ \* The first range slab_init records reaches past the address space.
       Higher_Half_End < Kernel_Virtual_End
                             + (Kernel_Virtual_Start - Kernel_Memory_Start)

VARIABLES
    slab_higher_half,
    Usage,          \* bytes still to be had, for slab_get_usage
    page,           \* the physical page behind each virtual page, or Absent
    free_phys,      \* what the physical allocator holds
    live,           \* history: the areas handed out and not given back
    halted          \* what halted the machine, or "none"

slab == <<slab_higher_half, Usage, page, free_phys, live, halted>>

VirtualPages == 0 .. AddressSpace \div Page_Small - 1

Addresses == 0 .. AddressSpace - 1

PagesOf(address, count) ==
    {Wrap(address + k * Page_Small) \div Page_Small : k \in 0 .. count - 1}

SlabTypeOK ==
    /\ slab_higher_half \in
          Seq(Seq([address : Addresses, size : 0 .. AddressSpace]))
    /\ Usage \in Int
    /\ page \in [VirtualPages -> RAM \cup {Device, Absent}]
    /\ free_phys \in SUBSET (RAM \cup {Device})
    /\ live \in SUBSET [address : Addresses, count : Nat]
    /\ halted \in {"none", "no_memory", "map", "lower_half", "null"}

(* slab_init records two ranges, both from the end of the kernel.  *)
SlabInit ==
    /\ slab_higher_half =
          AfterFree(AfterFree(EmptyVector, Kernel_Virtual_End,
                              Kernel_Virtual_Start - Kernel_Memory_Start),
                    Kernel_Virtual_End, Higher_Half_End - Kernel_Virtual_End)
    /\ Usage = (Kernel_Virtual_Start - Kernel_Memory_Start)
                 + (Higher_Half_End - Kernel_Virtual_End)
    /\ page = [v \in VirtualPages |-> Absent]
    /\ free_phys = RAM
    /\ live = {}
    /\ halted = "none"

Panic(why) ==
    /\ halted' = why
    /\ UNCHANGED <<slab_higher_half, Usage, page, free_phys, live>>

WithinBound(address, count) ==
    Wrap(address - Kernel_Virtual_End) + count * Page_Small <= Horizon

Area(address, count) == [address |-> address, count |-> count]

-----------------------------------------------------------------------------

(* slab_alloc_helper, for slab_alloc and slab_alloc_phys.  Running out of  *)
(* physical memory, or finding a page already mapped, ends in a panic.     *)
SlabAlloc(count) ==
    LET size    == count * Page_Small
        address == AllocAddress(slab_higher_half, size)
        virt    == PagesOf(address, count)
    IN  /\ halted = "none"
        /\ LargeEnough(slab_higher_half, size) # {}
        /\ WithinBound(address, count)
        /\ \/ /\ Cardinality(free_phys) < count
              /\ Panic("no_memory")
           \/ /\ \E v \in virt : page[v] # Absent
              /\ Panic("map")
           \/ /\ \A v \in virt : page[v] = Absent
              /\ \E phys \in [virt -> free_phys] :
                    /\ \A v, w \in virt : v # w => phys[v] # phys[w]
                    /\ page' = [v \in VirtualPages |->
                                    IF v \in virt THEN phys[v] ELSE page[v]]
                    /\ free_phys' = free_phys \ {phys[v] : v \in virt}
              /\ slab_higher_half' = AfterAlloc(slab_higher_half, size)
              /\ Usage' = Usage - size
              /\ live' = live \cup {Area(address, count)}
              /\ UNCHANGED halted

(* region_free on slab_higher_half, when the functions around it have come *)
(* to the given vector, usage, mapping, free physical pages and areas.     *)
(* When every section is full, extend_vector takes a page from the slab    *)
(* itself, and a panic follows if it gets none.                            *)
FreeRegion(chain, address, size, usage, mapping, free, areas) ==
    LET section == AllocAddress(chain, Page_Small)
        v       == section \div Page_Small
        fits    == LargeEnough(chain, Page_Small) # {}
    IN  \/ /\ ~NeedsSection(chain)
           /\ slab_higher_half' = AfterFree(chain, address, size)
           /\ Usage' = usage
           /\ page' = mapping
           /\ free_phys' = free
           /\ live' = areas
           /\ UNCHANGED halted
        \/ /\ NeedsSection(chain) /\ fits
           /\ mapping[v] = Absent
           /\ WithinBound(section, 1)
           /\ slab_higher_half' =
                 AfterFree(AfterAlloc(chain, Page_Small), address, size)
           /\ Usage' = usage - Page_Small
           /\ \E phys \in free : /\ page' = [mapping EXCEPT ![v] = phys]
                                 /\ free_phys' = free \ {phys}
           /\ live' = areas \cup {Area(section, 1)}
           /\ UNCHANGED halted
        \/ NeedsSection(chain) /\ (fits => free = {}) /\ Panic("no_memory")
        \/ NeedsSection(chain) /\ fits /\ mapping[v] # Absent /\ Panic("map")

(* map_range over a range taken from the vector, leaving it as in chain.   *)
(* If a page is mapped already, the range goes back, to the end.           *)
MapPhysicalUnchecked(chain, address, count) ==
    LET virt == PagesOf(address, count)
    IN  /\ slab_higher_half' = chain
        /\ page' = [v \in VirtualPages |->
                        IF v \in virt THEN Device ELSE page[v]]
        /\ Usage' = Usage - count * Page_Small
        /\ live' = live \cup {Area(address, count)}
        /\ UNCHANGED <<free_phys, halted>>

MapPhysical(chain, address, count) ==
    LET size == count * Page_Small
        virt == PagesOf(address, count)
    IN  \/ /\ \E v \in virt : page[v] # Absent
           /\ FreeRegion(chain, address, size, Usage, page, free_phys, live)
        \/ /\ \A v \in virt : page[v] = Absent
           /\ slab_higher_half' = chain
           /\ page' = [v \in VirtualPages |->
                           IF v \in virt THEN Device ELSE page[v]]
           /\ Usage' = Usage - size
           /\ live' = live \cup {Area(address, count)}
           /\ UNCHANGED <<free_phys, halted>>

(* slab_alloc_request_physical *)
RequestPhysical(count) ==
    LET size    == count * Page_Small
        address == AllocAddress(slab_higher_half, size)
    IN  /\ halted = "none"
        /\ LargeEnough(slab_higher_half, size) # {}
        /\ WithinBound(address, count)
        /\ MapPhysical(AfterAlloc(slab_higher_half, size), address, count)

(* slab_alloc_request_physical_random.  An address outside every region,   *)
(* five times over, gives up and changes nothing.  An address too close to *)
(* the end of its region: the scan goes on from v = NULL, a page fault.    *)
(* Bound: splitting a region does not need a new section.                  *)
RequestPhysicalRandom(count, addr) ==
    LET size == count * Page_Small
    IN  /\ halted = "none"
        /\ Containing(slab_higher_half, addr) # {}
        /\ IF AfterAddress(slab_higher_half, addr) < size THEN Panic("null")
           ELSE /\ ~NeedsSection(slab_higher_half)
                /\ MapPhysical(AfterRandom(slab_higher_half, addr, size),
                               addr, count)

(* unmap_range in slab_free_helper: slab_free also frees the physical      *)
(* pages, slab_free_virt leaves them to the caller.                        *)
Unmapped(area) ==
    [v \in VirtualPages |->
        IF v \in PagesOf(area.address, area.count) THEN Absent ELSE page[v]]

PhysicalOf(area) == {page[v] : v \in PagesOf(area.address, area.count)}

PutBack(area, free) ==
    LET size == area.count * Page_Small
    IN  FreeRegion(slab_higher_half, area.address, size, Usage + size,
                   Unmapped(area), free, live \ {area})

InLowerHalf(address) == address <= Lower_Half_End

SlabFree(area) ==
    /\ halted = "none"
    /\ IF InLowerHalf(area.address) THEN Panic("lower_half")
       ELSE PutBack(area, free_phys \cup PhysicalOf(area))

SlabFreeVirt(area) ==
    /\ halted = "none"
    /\ IF InLowerHalf(area.address) THEN Panic("lower_half")
       ELSE PutBack(area, free_phys)

SlabNext ==
    \/ \E count \in Allocations : SlabAlloc(count) \/ RequestPhysical(count)
    \/ \E count \in Allocations, addr \in Random_Addresses :
          RequestPhysicalRandom(count, addr)
    \/ \E area \in live : SlabFree(area) \/ SlabFreeVirt(area)

SlabSpec == SlabInit /\ [][SlabNext]_slab

-----------------------------------------------------------------------------

LivePages(area) == PagesOf(area.address, area.count)

(* A page that is mapped belongs to one area that is out, any other page   *)
(* to none: areas share no page, and slab_free unmaps all of its own.  No  *)
(* physical page is behind two virtual pages, and none that is mapped is   *)
(* free: what slab_free gives back was not given back already.             *)
AreasExclusive ==
    /\ SlabTypeOK
    /\ \A v \in VirtualPages :
          Cardinality({area \in live : v \in LivePages(area)}) =
              IF page[v] = Absent THEN 0 ELSE 1
    /\ \A v, w \in VirtualPages : page[v] = page[w] /\ page[v] \in RAM => v = w
    /\ \A v \in VirtualPages : page[v] \in RAM => page[v] \notin free_phys

(* assert(!memory_is_lower_half(address)) in slab_free.                    *)
FreedFromHigherHalf == halted # "lower_half"
=============================================================================
