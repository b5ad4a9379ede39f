-------------------------------- MODULE Heap --------------------------------
(***************************************************************************)
(* kernel/core/heap.c, used by one thread at a time.  Two region vectors   *)
(* record the used and the free parts of the heap.  A block is its payload *)
(* between two red zones; free memory and red zones hold a fill pattern,   *)
(* which kmalloc and kfree assert.                                         *)
(*                                                                         *)
(* Memory is counted in words of sizeof(unsigned long), the size of a red  *)
(* zone; of a word only matters whether it still holds the fill.           *)
(***************************************************************************)
EXTENDS RegionVector

CONSTANTS
    Heap_Size,      \* words in the heap
    Requests        \* the payload sizes callers ask for

ASSUME HeapAssumption ==
    /\ Heap_Size \in Nat \ {0}
    /\ Heap_Size < AddressSpace
    /\ Requests \subseteq Nat

VARIABLES
    heap_metadata_used,
    heap_metadata_free,
    dirty,      \* the words of the heap that do not hold the fill
    Used,       \* bytes in use, as heap_get_usage reports
    failed      \* the assertion that halted the machine, or "none"

vars == <<heap_metadata_used, heap_metadata_free, dirty, Used, failed>>

Words == 0 .. Heap_Size - 1

Redzone == 1

Span(r) == r.address .. r.address + r.size - 1

Payload(r) == Span(r) \ {r.address, r.address + r.size - 1}

Chains == Seq(Seq([address : Words, size : 1 .. Heap_Size]))

TypeOK ==
    /\ heap_metadata_used \in Chains
    /\ heap_metadata_free \in Chains
    /\ dirty \in SUBSET Words
    /\ Used \in 0 .. Heap_Size
    /\ failed \in {"none", "fill", "redzone", "extend"}

(* heap_init *)
Init ==
    /\ heap_metadata_used = EmptyVector
    /\ heap_metadata_free = AfterFree(EmptyVector, 0, Heap_Size)
    /\ dirty = {}
    /\ Used = 0
    /\ failed = "none"

(* region_free on one of the vectors: extend_vector may fail, and that is  *)
(* a panic.                                                                *)
Extend(chain) == NeedsSection(chain) /\ failed' = "extend"

-----------------------------------------------------------------------------

(* kmalloc, and what its caller writes next.  When no free region is       *)
(* larger than the request it returns NULL and changes nothing.            *)
AllocateFrom(size, payload_dirty) ==
    LET whole   == size + 2 * Redzone
        address == AllocAddress(heap_metadata_free, whole)
    IN  /\ LargeEnough(heap_metadata_free, whole) # {}
        /\ heap_metadata_free' = AfterAlloc(heap_metadata_free, whole)
        /\ \/ /\ Extend(heap_metadata_used)
              /\ UNCHANGED <<heap_metadata_used, dirty, Used>>
           \/ /\ heap_metadata_used' =
                    AfterFree(heap_metadata_used, address, whole)
              /\ Used' = Used + whole
              /\ failed' = IF Span(Region(address, whole)) \cap dirty = {}
                           THEN "none" ELSE "fill"
              /\ dirty' = dirty \cup payload_dirty

Kmalloc(size) ==
    /\ failed = "none"
    /\ AllocateFrom(size, {})

(* kcalloc writes zeroes over the payload. *)
Kcalloc(size) ==
    LET whole   == size + 2 * Redzone
        address == AllocAddress(heap_metadata_free, whole)
    IN  /\ failed = "none"
        /\ AllocateFrom(size, Payload(Region(address, whole)))

(* krealloc copies as many words as the new block has from the old one,    *)
(* past its end if it is shorter, and leaves the old block allocated.      *)
Krealloc(old, size) ==
    LET whole   == size + 2 * Redzone
        address == AllocAddress(heap_metadata_free, whole)
        copied  == {w \in Payload(Region(address, whole)) :
                        w - address + old.address \in dirty}
    IN  /\ failed = "none"
        /\ AllocateFrom(size, copied)

(* kfree's memset of the fill over the block, and its bookkeeping.         *)
EraseNothing(span) == dirty

Erase(span) == dirty \ span

Credit(size) == Used - size

(* kfree of a block its caller owns. *)
Kfree(r) ==
    LET size == FoundSize(heap_metadata_used, r.address)
        span == Span(Region(r.address, size))
    IN  /\ failed = "none"
        /\ heap_metadata_used' = AfterFind(heap_metadata_used, r.address)
        /\ IF {r.address, r.address + size - 1} \cap dirty # {}
           THEN /\ failed' = "redzone"
                /\ UNCHANGED <<heap_metadata_free, dirty, Used>>
           ELSE /\ dirty' = Erase(span)
                /\ Used' = Credit(size)
                /\ \/ /\ Extend(heap_metadata_free)
                      /\ UNCHANGED heap_metadata_free
                   \/ /\ heap_metadata_free' =
                            AfterFree(heap_metadata_free, r.address, size)
                      /\ UNCHANGED failed

(* The owner of a block writes its payload. *)
OwnerWrite(r) ==
    /\ failed = "none"
    /\ dirty' = dirty \cup Payload(r)
    /\ UNCHANGED <<heap_metadata_used, heap_metadata_free, Used, failed>>

Next ==
    \/ \E size \in Requests : Kmalloc(size) \/ Kcalloc(size)
    \/ \E r \in Regions(heap_metadata_used) :
          \/ \E size \in Requests : Krealloc(r, size)
          \/ Kfree(r)
          \/ OwnerWrite(r)

Spec == Init /\ [][Next]_vars

-----------------------------------------------------------------------------

Holding(chain, w) == {p \in Positions(chain) : w \in Span(At(chain, p))}

(* While the machine runs, every word of the heap is in exactly one region *)
(* of exactly one of the two vectors: blocks never overlap each other or   *)
(* free memory, and no word is lost, however regions are split, appended,  *)
(* moved into gaps and their sections added and dropped.                   *)
HeapPartition ==
    /\ TypeOK
    /\ failed = "none" =>
          \A w \in Words :
              Cardinality(Holding(heap_metadata_used, w))
                + Cardinality(Holding(heap_metadata_free, w)) = 1

(* Callers that stay inside their payload never make an assertion of       *)
(* kmalloc or kfree fail: a fresh block is filled, the red zones of a      *)
(* block it frees are intact.                                              *)
AssertionsHold == failed \in {"none", "extend"}
=============================================================================
