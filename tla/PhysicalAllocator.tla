------------------------- MODULE PhysicalAllocator --------------------------
(***************************************************************************)
(* kernel/core/physical_allocator.c.  Free memory is a stack of blocks.    *)
(* The first page of a block holds the block's length and the address of   *)
(* the next block, and is reached only through one virtual page, the       *)
(* pivot, which maps the top block.  An allocation takes the last page of  *)
(* the top block; the page with the header goes last.                      *)
(*                                                                         *)
(* Addresses and lengths count pages.  Each operation runs under           *)
(* physical_allocator_lock, which only writers use (Lock, WriterMutex), so *)
(* it is one action.  The pivot's page tables exist from boot, so map_page *)
(* on the pivot after unmap_page cannot fail.                              *)
(***************************************************************************)
EXTENDS Integers, Sequences

CONSTANT PageCount              \* pages of physical memory

ASSUME PageCountAssumption == PageCount \in Nat \ {0}

Pages == 0 .. PageCount - 1

Invalid == -1                   \* invalid_phys_addr, and no page at the pivot

Header == [next : Pages \cup {Invalid}, length : 0 .. PageCount]

(* What its owner left in a page, read as a header. *)
Scribble == [next |-> Invalid, length |-> 0]

VARIABLES
    Physical_Page,  \* the top block
    pivot,          \* the page Physical_Page_Stack maps, or Invalid
    memory,         \* the first words of every page
    held,           \* pages handed out, or never given to the allocator
    halted,         \* the machine has panicked
    stack           \* history: the blocks pushed and not used up, top first

vars == <<Physical_Page, pivot, memory, held, halted, stack>>

Block(start, length) == start .. start + length - 1

TypeOK ==
    /\ Physical_Page \in Pages \cup {Invalid}
    /\ pivot \in Pages \cup {Invalid}
    /\ memory \in [Pages -> Header]
    /\ held \in SUBSET Pages
    /\ halted \in BOOLEAN
    /\ stack \in Seq([start : Pages, length : 1 .. PageCount])

(* Before insert_regions: the stack is empty, boot code owns every page.   *)
Init ==
    /\ Physical_Page = Invalid
    /\ pivot = Invalid
    /\ memory = [p \in Pages |-> Scribble]
    /\ held = Pages
    /\ halted = FALSE
    /\ stack = <<>>

(* unmap_page and map_page on the pivot.                                   *)
KeepLastPivot(page) == pivot' = IF page = Invalid THEN pivot ELSE page

MapPivot(page) == pivot' = page

(* The page at the end of the top block, once its length is decremented.   *)
LastPageIsFirst(length) == Physical_Page

LastPage(length) == Physical_Page + length

(* The header physical_free_range writes through the pivot.                *)
NewHeader(length) == [next |-> Physical_Page, length |-> length]

(* physical_alloc with more than one page left in the top block. *)
AllocFromBlock ==
    LET length == memory[pivot].length - 1
        phys   == LastPage(length)
    IN  /\ ~halted
        /\ pivot # Invalid
        /\ length # 0
        /\ memory' = [memory EXCEPT ![pivot].length = length]
        /\ held' = held \cup {phys}
        /\ halted' = (phys \notin Pages \/ phys = Physical_Page)
        /\ stack' = [stack EXCEPT ![1].length = @ - 1]
        /\ UNCHANGED <<Physical_Page, pivot>>

(* physical_alloc taking the last page of the top block, the header        *)
(* itself: the next block moves under the pivot.                           *)
AllocHeader ==
    LET phys == Physical_Page
        next == memory[pivot].next
    IN  /\ ~halted
        /\ pivot # Invalid
        /\ memory[pivot].length - 1 = 0
        /\ memory' = [memory EXCEPT ![pivot].length = 0]
        /\ MapPivot(next)
        /\ Physical_Page' = next
        /\ held' = held \cup {phys}
        /\ halted' = (phys \notin Pages \/ phys = next)
        /\ stack' = Tail(stack)

(* physical_alloc on an empty stack reads through an unmapped pivot: a     *)
(* page fault nobody handles, so a panic.                                  *)
AllocExhausted ==
    /\ ~halted
    /\ pivot = Invalid
    /\ halted' = TRUE
    /\ UNCHANGED <<Physical_Page, pivot, memory, held, stack>>

(* physical_free_range, and physical_free with length 1, on pages the      *)
(* caller owns.                                                            *)
FreeRange(address, length) ==
    /\ ~halted
    /\ length > 0
    /\ Block(address, length) \subseteq held
    /\ MapPivot(address)
    /\ memory' = [memory EXCEPT ![address] = NewHeader(length)]
    /\ Physical_Page' = address
    /\ held' = held \ Block(address, length)
    /\ stack' = <<[start |-> address, length |-> length]>> \o stack
    /\ UNCHANGED halted

(* The owner of a page writes to it. *)
OwnerWrite(p) ==
    /\ ~halted
    /\ p \in held
    /\ memory' = [memory EXCEPT ![p] = Scribble]
    /\ UNCHANGED <<Physical_Page, pivot, held, halted, stack>>

Next ==
    \/ AllocFromBlock
    \/ AllocHeader
    \/ AllocExhausted
    \/ \E address \in Pages, length \in 1 .. PageCount :
          FreeRange(address, length)
    \/ \E p \in Pages : OwnerWrite(p)

Spec == Init /\ [][Next]_vars

-----------------------------------------------------------------------------

BlockAt(i) == Block(stack[i].start, stack[i].length)

FreePages == UNION {BlockAt(i) : i \in DOMAIN stack}

StartOf(i) == IF i \in DOMAIN stack THEN stack[i].start ELSE Invalid

(* The chain of headers in memory, from Physical_Page through each next,   *)
(* spells out exactly the blocks pushed and not yet used up, and the pivot *)
(* maps the first: no operation loses, repeats or cuts a block, whatever   *)
(* owners write into their own pages.                                      *)
Linked ==
    /\ Physical_Page = StartOf(1)
    /\ pivot = StartOf(1)
    /\ \A i \in DOMAIN stack :
          memory[stack[i].start] =
              [next |-> StartOf(i + 1), length |-> stack[i].length]

(* Every page is free or held, and not both; no page lies in two blocks.   *)
(* So physical_alloc never hands out a page that somebody still holds, and *)
(* no page is lost.                                                        *)
Conserved ==
    /\ FreePages \cup held = Pages
    /\ FreePages \cap held = {}
    /\ \A i, j \in DOMAIN stack : i # j => BlockAt(i) \cap BlockAt(j) = {}

(* The allocator never keeps a page somebody holds mapped at the pivot,    *)
(* where the next operation would overwrite it.                            *)
PivotNotHeld == pivot \notin held

Promise == INSTANCE PageAllocator WITH free <- FreePages

(* physical_alloc and physical_free_range implement the promise. *)
ImplementsPromise == Promise!Spec
=============================================================================
