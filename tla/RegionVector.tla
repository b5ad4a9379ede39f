---------------------------- MODULE RegionVector ----------------------------
(***************************************************************************)
(* kernel/core/region_vector.c as operators on values.  A region vector is *)
(* a chain of sections, here a sequence of sequences of regions; a section *)
(* is a page and has room for Capacity regions, and the first section is   *)
(* there from the start.  Users (Heap, Slab) keep a chain in a variable.   *)
(***************************************************************************)
EXTENDS Integers, Sequences, FiniteSetsExt

CONSTANTS
    Capacity,       \* regions_count
    AddressSpace    \* 2^64: pointer arithmetic wraps here

ASSUME RegionVectorAssumption ==
    Capacity \in Nat \ {0} /\ AddressSpace \in Nat \ {0}

Region(address, size) == [address |-> address, size |-> size]

Wrap(address) == address % AddressSpace

(* region_vector_init *)
EmptyVector == << <<>> >>

(* The order in which every function scans: section by section. *)
Positions(chain) ==
    UNION {{i} \X DOMAIN chain[i] : i \in DOMAIN chain}

Precedes(p, q) == p[1] < q[1] \/ (p[1] = q[1] /\ p[2] < q[2])

First(positions) ==
    CHOOSE p \in positions : \A q \in positions \ {p} : Precedes(p, q)

At(chain, p) == chain[p[1]][p[2]]

Write(chain, p, region) == [chain EXCEPT ![p[1]][p[2]] = region]

Regions(chain) == {At(chain, p) : p \in Positions(chain)}

(* region_alloc takes the front of the first region strictly larger than   *)
(* the request, so its branch for a region used up never runs.             *)
LargeEnough(chain, size) ==
    {p \in Positions(chain) : At(chain, p).size > size}

AllocAddress(chain, size) == At(chain, First(LargeEnough(chain, size))).address

AfterAlloc(chain, size) ==
    LET p == First(LargeEnough(chain, size))
        r == At(chain, p)
    IN  Write(chain, p, Region(Wrap(r.address + size), r.size - size))

(* region_alloc_random, once random_address has hit a region.  The         *)
(* comparisons are on wrapped addresses.                                   *)
Containing(chain, addr) ==
    {p \in Positions(chain) :
        LET r == At(chain, p)
        IN  r.address # 0 /\ r.address <= addr
              /\ addr <= Wrap(r.address + r.size)}

AfterAddress(chain, addr) ==
    LET r == At(chain, First(Containing(chain, addr)))
    IN  r.size - (addr - r.address)

(* region_free appends to the first section with room, or to a new one     *)
(* that extend_vector has to get from the slab.                            *)
WithRoom(chain) == {i \in DOMAIN chain : Len(chain[i]) # Capacity}

NeedsSection(chain) == WithRoom(chain) = {}

AfterFree(chain, address, size) ==
    IF NeedsSection(chain)
    THEN Append(chain, <<Region(address, size)>>)
    ELSE [chain EXCEPT ![Min(WithRoom(chain))] =
            Append(@, Region(address, size))]

(* What region_alloc_random leaves of the region: of one that begins       *)
(* before addr, a region of the suffix's size behind where the old one     *)
(* began; of one that begins at addr, nothing, and the suffix is appended. *)
AfterRandom(chain, addr, size) ==
    LET p      == First(Containing(chain, addr))
        r      == At(chain, p)
        suffix == AfterAddress(chain, addr) - size
    IN  IF suffix = 0 THEN Write(chain, p, Region(r.address, r.size - size))
        ELSE IF addr # r.address
        THEN Write(chain, p, Region(Wrap(r.address + size), suffix))
        ELSE AfterFree(Write(chain, p, Region(r.address, 0)),
                       Wrap(addr + size), suffix)

(* region_find_size_and_free: the last region of the section fills the     *)
(* gap; a section other than the first goes when it is empty.              *)
Recorded(chain, address) ==
    {p \in Positions(chain) : At(chain, p).address = address}

FoundSize(chain, address) == At(chain, First(Recorded(chain, address))).size

DropLast(section, j) == SubSeq(section, 1, Len(section) - 1)

FillGap(section, j) ==
    LET last == Len(section)
    IN  SubSeq([section EXCEPT ![j] = section[last]], 1, last - 1)

AfterFind(chain, address) ==
    LET p == First(Recorded(chain, address))
        i == p[1]
    IN  IF Len(chain[i]) > 1 \/ i = 1
        THEN [chain EXCEPT ![i] = FillGap(@, p[2])]
        ELSE SubSeq(chain, 1, i - 1) \o SubSeq(chain, i + 1, Len(chain))
=============================================================================
