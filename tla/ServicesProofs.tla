--------------------------- MODULE ServicesProofs ---------------------------
(***************************************************************************)
(* The services that the rest of the kernel rests on, each on its own.     *)
(*                                                                         *)
(* PhysicalAllocator, proved for any amount of memory: the headers in      *)
(* memory always spell out the stack of free blocks, free and held pages   *)
(* partition memory, and the allocator implements PageAllocator.           *)
(* The two invariants need each other.  An operation reads its block from  *)
(* memory, so it conserves pages only if memory is Linked; and writing one *)
(* header, or an owner's page, leaves the others alone only because blocks *)
(* are disjoint from each other and from the held pages.                   *)
(*                                                                         *)
(* Lock, which the allocator runs under, proved for every finite set of    *)
(* threads: the type invariant and the count of readers together (the      *)
(* counter stays a natural number only because it counts threads), then    *)
(* exclusion until a reader comes.                                         *)
(*                                                                         *)
(* Random, Clock and FileSystem, with an inductive invariant each.         *)
(***************************************************************************)
EXTENDS PhysicalAllocator, Lock, Random, Clock, FileSystem, SequenceTheorems,
        TLAPS

Inv == TypeOK /\ Linked /\ Conserved

-----------------------------------------------------------------------------

LEMMA PagesFacts == Invalid \notin Pages
BY PageCountAssumption DEF Pages, Invalid

LEMMA BlockFacts ==
    ASSUME NEW s \in Pages, NEW n \in 1 .. PageCount
    PROVE  /\ s \in Block(s, n)
           /\ n - 1 \in Nat
           /\ \A p : p \in Block(s, n) <=> p \in Int /\ s <= p /\ p < s + n
           /\ s + (n - 1) \in Block(s, n)
           /\ n = 1 => Block(s, n) = {s}
           /\ n # 1 => /\ n - 1 \in 1 .. PageCount
                       /\ s + (n - 1) # s
                       /\ Block(s, n - 1) = Block(s, n) \ {s + (n - 1)}
BY PageCountAssumption DEF Block, Pages

LEMMA FreePagesAre ==
    \A p : p \in FreePages <=> \E i \in DOMAIN stack : p \in BlockAt(i)
BY Zenon DEF FreePages

LEMMA StackElements ==
    ASSUME TypeOK
    PROVE  /\ Len(stack) \in Nat
           /\ DOMAIN stack = 1 .. Len(stack)
           /\ \A i \in DOMAIN stack :
                 /\ stack[i] \in [start : Pages, length : 1 .. PageCount]
                 /\ stack[i].start \in Pages
                 /\ stack[i].length \in 1 .. PageCount
                 /\ stack[i].start \in BlockAt(i)
<1>1. stack \in Seq([start : Pages, length : 1 .. PageCount])
  BY Zenon DEF TypeOK
<1>2. /\ Len(stack) \in Nat
      /\ DOMAIN stack = 1 .. Len(stack)
      /\ \A i \in DOMAIN stack :
            stack[i] \in [start : Pages, length : 1 .. PageCount]
  BY Zenon, <1>1, LenProperties, ElementOfSeq
<1>3. ASSUME NEW i \in DOMAIN stack
      PROVE  /\ stack[i].start \in Pages
             /\ stack[i].length \in 1 .. PageCount
  BY Zenon, <1>2
<1>4. ASSUME NEW i \in DOMAIN stack
      PROVE  stack[i].start \in BlockAt(i)
  BY Zenon, <1>3, BlockFacts DEF BlockAt
<1> QED
  BY Zenon, <1>2, <1>3, <1>4

(* The blocks lie in memory, apart from the held pages and each other. *)
LEMMA BlocksApart ==
    ASSUME Inv, NEW i \in DOMAIN stack
    PROVE  /\ BlockAt(i) \subseteq Pages
           /\ BlockAt(i) \cap held = {}
           /\ \A j \in DOMAIN stack :
                 i # j => BlockAt(i) \cap BlockAt(j) = {}
BY Zenon, FreePagesAre DEF Inv, Conserved

(* A mapped pivot is the header of the top block. *)
LEMMA TopOfStack ==
    ASSUME Inv, pivot # Invalid
    PROVE  /\ 1 \in DOMAIN stack
           /\ stack # <<>>
           /\ pivot = stack[1].start
           /\ Physical_Page = stack[1].start
           /\ pivot \in Pages
           /\ memory[pivot].length = stack[1].length
           /\ memory[pivot].next = StartOf(2)
<1>1. 1 \in DOMAIN stack
  BY Zenon DEF Inv, Linked, StartOf
<1>2. stack # <<>>
  BY <1>1, EmptySeq
<1>3. stack[1].start \in Pages
  BY Zenon, <1>1, StackElements DEF Inv
<1>4. pivot = stack[1].start /\ Physical_Page = stack[1].start
  BY Zenon, <1>1 DEF Inv, Linked, StartOf
<1>5. memory[pivot] = [next |-> StartOf(2), length |-> stack[1].length]
  BY <1>1, <1>4 DEF Inv, Linked
<1> QED
  BY <1>1, <1>2, <1>3, <1>4, <1>5

LEMMA EmptyStack ==
    ASSUME Inv, pivot = Invalid
    PROVE  FreePages = {}
<1>1. 1 \notin DOMAIN stack
  BY StackElements, PagesFacts DEF Inv, Linked, StartOf
<1>2. DOMAIN stack = {}
  BY <1>1, StackElements DEF Inv
<1> QED
  BY Zenon, <1>2, FreePagesAre
-----------------------------------------------------------------------------

(* Distinct blocks start at distinct pages, and none at a held page. *)
LEMMA StartsDistinct ==
    ASSUME Inv, NEW i \in DOMAIN stack
    PROVE  /\ stack[i].start \notin held
           /\ \A j \in DOMAIN stack : i # j => stack[i].start # stack[j].start
<1>1. TypeOK
  BY Zenon DEF Inv
<1>2. \A j \in DOMAIN stack : stack[j].start \in BlockAt(j)
  BY Zenon, <1>1, StackElements
<1> QED
  BY Zenon, <1>2, BlocksApart

(* physical_alloc from the middle of a block takes one free page. *)
LEMMA AllocFromBlockStep ==
    ASSUME Inv, AllocFromBlock
    PROVE  /\ Inv'
           /\ halted' = halted
           /\ \E p \in FreePages :
                 FreePages' = FreePages \ {p} /\ held' = held \cup {p}
<1> DEFINE n    == memory[pivot].length
           phys == Physical_Page + (n - 1)
           top  == [start |-> Physical_Page, length |-> n - 1]
<1>1. /\ pivot # Invalid
      /\ ~halted
      /\ n - 1 # 0
      /\ memory' = [memory EXCEPT ![pivot].length = n - 1]
      /\ held' = held \cup {phys}
      /\ halted' = (phys \notin Pages \/ phys = Physical_Page)
      /\ stack' = [stack EXCEPT ![1].length = @ - 1]
      /\ UNCHANGED <<Physical_Page, pivot>>
  BY Zenon DEF AllocFromBlock, LastPage
<1>2. /\ 1 \in DOMAIN stack
      /\ pivot = stack[1].start
      /\ Physical_Page = stack[1].start
      /\ pivot \in Pages
      /\ n = stack[1].length
      /\ memory[pivot].next = StartOf(2)
  BY Zenon, <1>1, TopOfStack
<1>3. /\ TypeOK
      /\ Len(stack) \in Nat
      /\ DOMAIN stack = 1 .. Len(stack)
      /\ stack \in Seq([start : Pages, length : 1 .. PageCount])
      /\ stack[1] \in [start : Pages, length : 1 .. PageCount]
      /\ n \in 1 .. PageCount
  BY Zenon, <1>2, StackElements DEF Inv, TypeOK
<1>4. /\ n # 1
      /\ n - 1 \in 1 .. PageCount
      /\ phys \in BlockAt(1)
      /\ phys # Physical_Page
      /\ Block(Physical_Page, n - 1) = BlockAt(1) \ {phys}
  <2>1. Physical_Page \in Pages /\ BlockAt(1) = Block(Physical_Page, n)
    BY Zenon, <1>2 DEF BlockAt
  <2>2. n \in 1 .. PageCount
    BY Zenon, <1>3
  <2>3. n # 1
    BY <1>1, <2>2
  <2> HIDE DEF n
  <2>4. /\ Physical_Page + (n - 1) \in Block(Physical_Page, n)
        /\ n - 1 \in 1 .. PageCount
        /\ Physical_Page + (n - 1) # Physical_Page
        /\ Block(Physical_Page, n - 1) =
              Block(Physical_Page, n) \ {Physical_Page + (n - 1)}
    BY Zenon, <2>1, <2>2, <2>3, BlockFacts
  <2> QED
    BY Zenon, <2>1, <2>3, <2>4
<1>5. phys \in Pages /\ phys \notin held /\ phys \in FreePages
  BY Zenon, <1>2, <1>4, BlocksApart, FreePagesAre
<1>6. halted' = FALSE /\ halted = FALSE
  BY Zenon, <1>1, <1>3, <1>4, <1>5 DEF TypeOK
<1>7. /\ stack' = [stack EXCEPT ![1] = top]
      /\ top \in [start : Pages, length : 1 .. PageCount]
  <2>1. [stack[1] EXCEPT !.length = @ - 1] = top
    BY <1>2, <1>3
  <2> QED
    BY Zenon, <1>1, <1>2, <1>4, <2>1
<1>8. /\ stack' \in Seq([start : Pages, length : 1 .. PageCount])
      /\ DOMAIN stack' = DOMAIN stack
      /\ stack'[1] = top
      /\ \A i \in DOMAIN stack : i # 1 => stack'[i] = stack[i]
      /\ \A i \in DOMAIN stack : stack'[i].start = stack[i].start
  BY <1>2, <1>3, <1>7, ExceptSeq
<1>9. /\ BlockAt(1)' = BlockAt(1) \ {phys}
      /\ \A i \in DOMAIN stack : i # 1 => BlockAt(i)' = BlockAt(i)
  BY <1>4, <1>8 DEF BlockAt
<1>10. FreePages' = FreePages \ {phys}
  <2>1. \A p : p \in FreePages' <=> \E i \in DOMAIN stack : p \in BlockAt(i)'
    BY Zenon, <1>8 DEF FreePages
  <2>2. \A i \in DOMAIN stack : i # 1 => phys \notin BlockAt(i)
    BY Zenon, <1>2, <1>4, BlocksApart
  <2> QED
    BY <1>2, <1>9, <2>1, <2>2, FreePagesAre
<1>11. Conserved'
  <2>1. \A i, j \in DOMAIN stack : i # j => BlockAt(i)' \cap BlockAt(j)' = {}
    BY <1>9, BlocksApart
  <2> QED
    BY <1>1, <1>5, <1>8, <1>10, <2>1 DEF Inv, Conserved
<1>12. Linked'
  <2>1. \A i : StartOf(i)' = StartOf(i)
    BY Zenon, <1>8 DEF StartOf
  <2>2. memory'[pivot] = [next |-> StartOf(2), length |-> n - 1]
    BY <1>1, <1>2, <1>3 DEF TypeOK, Header
  <2>3. \A i \in DOMAIN stack :
            i # 1 => memory'[stack[i].start] = memory[stack[i].start]
    BY Zenon, <1>1, <1>2, <1>3, StartsDistinct, StackElements DEF TypeOK
  <2>4. ASSUME NEW i \in DOMAIN stack
        PROVE  memory'[stack'[i].start] =
                 [next |-> StartOf(i + 1), length |-> stack'[i].length]
    <3>1. CASE i = 1
      BY <3>1, <2>2, <1>2, <1>8
    <3>2. CASE i # 1
      BY <3>2, <2>3, <1>8 DEF Inv, Linked
    <3> QED
      BY Zenon, <3>1, <3>2
  <2> QED
    BY <1>1, <1>8, <2>1, <2>4 DEF Inv, Linked
<1>13. TypeOK'
  <2>1. memory' \in [Pages -> Header]
    BY <1>1, <1>2, <1>3, <1>4 DEF TypeOK, Header
  <2> QED
    BY Zenon, <1>1, <1>3, <1>5, <1>6, <1>8, <2>1 DEF TypeOK
<1> QED
  BY Zenon, <1>1, <1>5, <1>6, <1>10, <1>11, <1>12, <1>13 DEF Inv

(* physical_alloc of a header page takes that page and uncovers the next   *)
(* block.                                                                  *)
LEMMA AllocHeaderStep ==
    ASSUME Inv, AllocHeader
    PROVE  /\ Inv'
           /\ halted' = halted
           /\ \E p \in FreePages :
                 FreePages' = FreePages \ {p} /\ held' = held \cup {p}
<1> DEFINE phys == Physical_Page
           next == memory[pivot].next
<1>1. /\ pivot # Invalid
      /\ ~halted
      /\ memory[pivot].length - 1 = 0
      /\ memory' = [memory EXCEPT ![pivot].length = 0]
      /\ pivot' = next
      /\ Physical_Page' = next
      /\ held' = held \cup {phys}
      /\ halted' = (phys \notin Pages \/ phys = next)
      /\ stack' = Tail(stack)
  BY Zenon DEF AllocHeader, MapPivot
<1>2. /\ 1 \in DOMAIN stack
      /\ stack # <<>>
      /\ pivot = stack[1].start
      /\ phys = stack[1].start
      /\ phys \in Pages
      /\ memory[pivot].length = stack[1].length
      /\ next = StartOf(2)
  BY Zenon, <1>1, TopOfStack
<1>3. /\ TypeOK
      /\ Len(stack) \in Nat
      /\ DOMAIN stack = 1 .. Len(stack)
      /\ stack \in Seq([start : Pages, length : 1 .. PageCount])
      /\ stack[1].length \in 1 .. PageCount
  BY Zenon, <1>2, StackElements DEF Inv, TypeOK
<1>4. BlockAt(1) = {phys}
  <2>1. stack[1].length = 1
    BY <1>1, <1>2, <1>3
  <2>2. phys \in Pages /\ 1 \in 1 .. PageCount
    BY Zenon, <1>2, <1>3, <2>1
  <2>3. Block(phys, 1) = {phys}
    BY Zenon, <2>2, BlockFacts
  <2> QED
    BY Zenon, <1>2, <2>1, <2>3 DEF BlockAt
<1>5. phys \notin held /\ phys \in FreePages
  BY Zenon, <1>2, <1>4, BlocksApart, FreePagesAre
<1>6. halted' = FALSE /\ halted = FALSE
  <2>1. phys # StartOf(2)
    BY <1>2, <1>3, StartsDistinct, PagesFacts DEF StartOf
  <2> QED
    BY Zenon, <1>1, <1>2, <1>3, <2>1 DEF TypeOK
<1>7. /\ stack' \in Seq([start : Pages, length : 1 .. PageCount])
      /\ Len(stack') = Len(stack) - 1
      /\ DOMAIN stack' = 1 .. Len(stack) - 1
      /\ \A i \in DOMAIN stack' : stack'[i] = stack[i + 1]
  BY <1>1, <1>2, <1>3, HeadTailProperties, LenProperties
<1>7a. /\ Len(stack) \in Nat
       /\ DOMAIN stack = 1 .. Len(stack)
       /\ DOMAIN stack' = 1 .. Len(stack) - 1
  BY Zenon, <1>3, <1>7
<1>8. /\ \A i \in DOMAIN stack' : i + 1 \in DOMAIN stack /\ i + 1 # 1
      /\ \A j \in DOMAIN stack : j # 1 => j - 1 \in DOMAIN stack'
                                         /\ (j - 1) + 1 = j
      /\ \A i \in Nat \ {0} : i \in DOMAIN stack' <=> i + 1 \in DOMAIN stack
  BY <1>7a
<1>9. \A i \in DOMAIN stack' : BlockAt(i)' = BlockAt(i + 1)
  BY Zenon, <1>7 DEF BlockAt
<1>10. FreePages' = FreePages \ {phys}
  <2>1. \A p : p \in FreePages' <=> \E i \in DOMAIN stack' : p \in BlockAt(i)'
    BY Zenon DEF FreePages
  <2>2. \A j \in DOMAIN stack : j # 1 => phys \notin BlockAt(j)
    BY Zenon, <1>2, <1>4, BlocksApart
  <2>3. ASSUME NEW p \in FreePages' PROVE p \in FreePages \ {phys}
    BY <1>8, <1>9, <2>1, <2>2, FreePagesAre
  <2>4. ASSUME NEW p \in FreePages \ {phys} PROVE p \in FreePages'
    <3>1. PICK j \in DOMAIN stack : p \in BlockAt(j)
      BY Zenon, FreePagesAre
    <3>2. j # 1
      BY Zenon, <1>4, <3>1
    <3>3. j - 1 \in DOMAIN stack' /\ p \in BlockAt(j - 1)'
      BY Zenon, <1>8, <1>9, <3>1, <3>2
    <3> QED
      BY Zenon, <2>1, <3>3
  <2> QED
    BY Zenon, <2>3, <2>4
<1>11. Conserved'
  <2>1. \A i, j \in DOMAIN stack' : i # j => BlockAt(i)' \cap BlockAt(j)' = {}
    <3>1. \A i, j \in DOMAIN stack' : i # j => i + 1 # j + 1
      BY <1>7a
    <3> QED
      BY <1>8, <1>9, <3>1, BlocksApart
  <2> QED
    BY Zenon, <1>1, <1>2, <1>5, <1>10, <2>1 DEF Inv, Conserved
<1>12. Linked'
  <2>1. \A i \in Nat \ {0} : StartOf(i)' = StartOf(i + 1)
    BY Zenon, <1>7, <1>8 DEF StartOf
  <2>2. \A j \in DOMAIN stack :
            j # 1 => memory'[stack[j].start] = memory[stack[j].start]
    BY Zenon, <1>1, <1>2, <1>3, StartsDistinct, StackElements DEF TypeOK
  <2>3. ASSUME NEW i \in DOMAIN stack'
        PROVE  memory'[stack'[i].start] =
                 [next |-> StartOf(i + 1)', length |-> stack'[i].length]
    <3>1. i \in Nat \ {0} /\ i + 1 \in Nat \ {0}
      BY <1>7a
    <3>2. memory'[stack'[i].start] = memory[stack[i + 1].start]
      BY Zenon, <1>7, <1>8, <2>2
    <3>3. memory[stack[i + 1].start] =
            [next |-> StartOf((i + 1) + 1), length |-> stack[i + 1].length]
      BY Zenon, <1>8 DEF Inv, Linked
    <3> QED
      BY Zenon, <1>7, <2>1, <3>1, <3>2, <3>3
  <2> QED
    BY <1>1, <1>2, <2>1, <2>3 DEF Linked
<1>13. TypeOK'
  <2>1. memory' \in [Pages -> Header]
    BY SMTT(30), <1>1, <1>2, <1>3, PageCountAssumption DEF TypeOK, Header
  <2>2. next \in Pages \cup {Invalid}
    BY Zenon, <1>2, <1>3, StackElements DEF StartOf
  <2> QED
    BY Zenon, <1>1, <1>2, <1>3, <1>6, <1>7, <2>1, <2>2 DEF TypeOK
<1> QED
  BY Zenon, <1>1, <1>5, <1>6, <1>10, <1>11, <1>12, <1>13 DEF Inv

(* physical_free_range pushes a block made of pages its caller held. *)
LEMMA FreeRangeStep ==
    ASSUME Inv, NEW a \in Pages, NEW n \in 1 .. PageCount, FreeRange(a, n)
    PROVE  /\ Inv'
           /\ FreePages' = FreePages \cup Block(a, n)
<1> DEFINE top == [start |-> a, length |-> n]
           B   == [start : Pages, length : 1 .. PageCount]
<1>1. /\ Block(a, n) \subseteq held
      /\ pivot' = a
      /\ memory' = [memory EXCEPT ![a] =
                        [next |-> Physical_Page, length |-> n]]
      /\ Physical_Page' = a
      /\ held' = held \ Block(a, n)
      /\ stack' = <<top>> \o stack
      /\ UNCHANGED halted
  BY Zenon DEF FreeRange, MapPivot, NewHeader
<1>2. /\ TypeOK
      /\ Len(stack) \in Nat
      /\ DOMAIN stack = 1 .. Len(stack)
      /\ stack \in Seq(B)
      /\ held \subseteq Pages
      /\ a \in Block(a, n)
  BY Zenon, StackElements, BlockFacts DEF Inv, TypeOK
<1>3. /\ stack' \in Seq(B)
      /\ DOMAIN stack' = 1 .. Len(stack) + 1
      /\ stack'[1] = top
      /\ \A i \in 2 .. Len(stack) + 1 : stack'[i] = stack[i - 1]
  <2>1. top \in B /\ <<top>> \in Seq(B) /\ Len(<<top>>) = 1 /\ <<top>>[1] = top
    OBVIOUS
  <2> HIDE DEF top, B
  <2>2. /\ stack' \in Seq(B)
        /\ Len(stack') = 1 + Len(stack)
        /\ \A i \in 1 .. 1 + Len(stack) :
              stack'[i] = IF i <= 1 THEN <<top>>[i] ELSE stack[i - 1]
    BY <1>1, <1>2, <2>1, ConcatProperties
  <2> QED
    BY <1>2, <2>1, <2>2, LenProperties
<1>4. /\ \A i \in DOMAIN stack : i + 1 \in DOMAIN stack' /\ i + 1 # 1
                                  /\ stack'[i + 1] = stack[i]
      /\ \A j \in DOMAIN stack' : j # 1 => /\ j - 1 \in DOMAIN stack
                                           /\ stack'[j] = stack[j - 1]
      /\ 1 \in DOMAIN stack'
  BY SMTT(30), <1>2, <1>3
<1>5. /\ BlockAt(1)' = Block(a, n)
      /\ \A j \in DOMAIN stack' : j # 1 => BlockAt(j)' = BlockAt(j - 1)
      /\ \A i \in DOMAIN stack : BlockAt(i + 1)' = BlockAt(i)
  BY <1>3, <1>4 DEF BlockAt
<1>6. FreePages' = FreePages \cup Block(a, n)
  <2>1. \A p : p \in FreePages' <=> \E j \in DOMAIN stack' : p \in BlockAt(j)'
    BY Zenon DEF FreePages
  <2> QED
    BY <1>4, <1>5, <2>1, FreePagesAre
<1>7. Conserved'
  <2>1. \A i \in DOMAIN stack : BlockAt(i) \cap Block(a, n) = {}
    BY Zenon, <1>1, BlocksApart
  <2>2. \A i, j \in DOMAIN stack' : i # j => BlockAt(i)' \cap BlockAt(j)' = {}
    <3>1. \A i, j \in DOMAIN stack' : i # j => i - 1 # j - 1
      BY <1>2, <1>3
    <3> QED
      BY <1>4, <1>5, <2>1, <3>1, BlocksApart
  <2>3. FreePages' \cup held' = Pages
    BY Zenon, <1>1, <1>2, <1>6 DEF Inv, Conserved
  <2>4. FreePages' \cap held' = {}
    BY Zenon, <1>1, <1>6 DEF Inv, Conserved
  <2> QED
    BY Zenon, <2>2, <2>3, <2>4 DEF Conserved
<1>8. Linked'
  <2>1. StartOf(1)' = a
    BY <1>3, <1>4 DEF StartOf
  <2>2. \A j \in 2 .. Len(stack) + 2 : StartOf(j)' = StartOf(j - 1)
    BY <1>2, <1>3 DEF StartOf
  <2>3. \A i \in DOMAIN stack : stack[i].start # a /\ stack[i].start \in Pages
    BY Zenon, <1>1, <1>2, StartsDistinct, StackElements
  <2>4. ASSUME NEW j \in DOMAIN stack'
        PROVE  memory'[stack'[j].start] =
                 [next |-> StartOf(j + 1)', length |-> stack'[j].length]
    <3>1. CASE j = 1
      <4>1. Physical_Page = StartOf(1) /\ StartOf(2)' = StartOf(1)
        BY <1>2, <2>2 DEF Inv, Linked
      <4> QED
        BY <1>1, <1>2, <1>3, <3>1, <4>1 DEF TypeOK
    <3>2. CASE j # 1
      <4>1. /\ j - 1 \in DOMAIN stack
            /\ stack'[j] = stack[j - 1]
            /\ StartOf(j + 1)' = StartOf((j - 1) + 1)
        BY <1>2, <1>3, <1>4, <2>2, <3>2
      <4>2. memory'[stack[j - 1].start] = memory[stack[j - 1].start]
        BY Zenon, <1>1, <1>2, <2>3, <4>1 DEF TypeOK
      <4> QED
        BY Zenon, <4>1, <4>2 DEF Inv, Linked
    <3> QED
      BY Zenon, <3>1, <3>2
  <2> QED
    BY Zenon, <1>1, <2>1, <2>4 DEF Linked
<1>9. TypeOK'
  <2>1. memory' \in [Pages -> Header]
    <3>1. [next |-> Physical_Page, length |-> n] \in Header
      BY <1>2 DEF TypeOK, Header
    <3> QED
      BY Zenon, <1>1, <1>2, <3>1 DEF TypeOK
  <2> QED
    BY Zenon, <1>1, <1>2, <1>3, <2>1 DEF TypeOK
<1> QED
  BY Zenon, <1>6, <1>7, <1>8, <1>9 DEF Inv

(* What an owner writes into its page changes no header. *)
LEMMA OwnerWriteStep ==
    ASSUME Inv, NEW p \in Pages, OwnerWrite(p)
    PROVE  Inv' /\ FreePages' = FreePages
<1>1. /\ p \in held
      /\ memory' = [memory EXCEPT ![p] = Scribble]
      /\ UNCHANGED <<Physical_Page, pivot, held, halted, stack>>
  BY Zenon DEF OwnerWrite
<1>2. /\ FreePages' = FreePages
      /\ \A i : BlockAt(i)' = BlockAt(i) /\ StartOf(i)' = StartOf(i)
  BY Zenon, <1>1 DEF FreePages, BlockAt, StartOf
<1>3. Conserved'
  BY Zenon, <1>1, <1>2 DEF Inv, Conserved
<1>4. \A i \in DOMAIN stack :
          memory'[stack[i].start] = memory[stack[i].start]
  BY Zenon, <1>1, StartsDistinct, StackElements DEF Inv, TypeOK
<1>5. Linked'
  BY Zenon, <1>1, <1>2, <1>4 DEF Inv, Linked
<1>6. TypeOK'
  BY <1>1, PageCountAssumption DEF Inv, TypeOK, Scribble, Header
<1> QED
  BY Zenon, <1>2, <1>3, <1>5, <1>6 DEF Inv

(* The invariant reads nothing but the allocator's state. *)
LEMMA SameState ==
    ASSUME Inv, halted' \in BOOLEAN,
           UNCHANGED <<Physical_Page, pivot, memory, held, stack>>
    PROVE  Inv' /\ FreePages' = FreePages
<1>1. /\ FreePages' = FreePages
      /\ \A i : BlockAt(i)' = BlockAt(i) /\ StartOf(i)' = StartOf(i)
  BY Zenon DEF FreePages, BlockAt, StartOf
<1>2. TypeOK'
  BY Zenon DEF Inv, TypeOK
<1>3. Linked'
  BY Zenon, <1>1 DEF Inv, Linked
<1>4. Conserved'
  BY Zenon, <1>1 DEF Inv, Conserved
<1> QED
  BY Zenon, <1>1, <1>2, <1>3, <1>4 DEF Inv

-----------------------------------------------------------------------------

LEMMA InitInv == Init => Inv /\ FreePages = {}
<1> SUFFICES ASSUME Init PROVE Inv /\ FreePages = {}
  BY Zenon
<1>1. stack = <<>> /\ DOMAIN stack = {}
  BY DEF Init
<1>2. FreePages = {}
  BY Zenon, <1>1 DEF FreePages
<1>3. TypeOK
  <2>1. <<>> \in Seq([start : Pages, length : 1 .. PageCount])
    BY Zenon, EmptySeq
  <2>2. Scribble \in Header
    BY PageCountAssumption DEF Scribble, Header
  <2> QED
    BY Zenon, <2>1, <2>2 DEF Init, TypeOK
<1>4. Linked
  BY Zenon, <1>1 DEF Init, Linked, StartOf
<1>5. Conserved
  BY Zenon, <1>1, <1>2 DEF Init, Conserved
<1> QED
  BY Zenon, <1>2, <1>3, <1>4, <1>5 DEF Inv

(* Every step keeps the invariant and is a step, or a stutter, of the      *)
(* promise.                                                                *)
LEMMA NextInv == Inv /\ [Next]_vars => Inv' /\ [Promise!Next]_(Promise!vars)
<1> SUFFICES ASSUME Inv, [Next]_vars
             PROVE  Inv' /\ [Promise!Next]_(Promise!vars)
  BY Zenon
<1>1. \A p \in FreePages : p \in Pages
  BY Zenon DEF Inv, Conserved
<1>2. CASE AllocFromBlock
  <2>1. ~halted
    BY Zenon, <1>2 DEF AllocFromBlock
  <2> QED
    BY Zenon, <1>1, <1>2, <2>1, AllocFromBlockStep
       DEF Promise!Next, Promise!Alloc
<1>3. CASE AllocHeader
  <2>1. ~halted
    BY Zenon, <1>3 DEF AllocHeader
  <2> QED
    BY <1>1, <1>3, <2>1, AllocHeaderStep DEF Promise!Next, Promise!Alloc
<1>4. CASE AllocExhausted
  <2>1. Inv' /\ FreePages' = FreePages
    BY Zenon, <1>4, SameState DEF AllocExhausted
  <2>2. FreePages = {}
    BY Zenon, <1>4, EmptyStack DEF AllocExhausted
  <2> QED
    BY Zenon, <1>4, <2>1, <2>2
       DEF AllocExhausted, Promise!Next, Promise!Exhausted
<1>5. ASSUME NEW a \in Pages, NEW n \in 1 .. PageCount, FreeRange(a, n)
      PROVE  Inv' /\ [Promise!Next]_(Promise!vars)
  <2>1. Inv' /\ FreePages' = FreePages \cup Block(a, n)
    BY Zenon, <1>5, FreeRangeStep
  <2>2. /\ Block(a, n) \in SUBSET Pages
        /\ Promise!FreeRange(Block(a, n))
    BY Zenon, <1>5, <2>1 DEF FreeRange, Promise!FreeRange, Inv, TypeOK
  <2> QED
    BY Zenon, <2>1, <2>2 DEF Promise!Next
<1>6. ASSUME NEW p \in Pages, OwnerWrite(p)
      PROVE  Inv' /\ [Promise!Next]_(Promise!vars)
  BY Zenon, <1>6, OwnerWriteStep DEF OwnerWrite, Promise!vars
<1>7. CASE UNCHANGED vars
  <2>1. Inv' /\ FreePages' = FreePages
    BY Zenon, <1>7, SameState DEF vars, Inv, TypeOK
  <2> QED
    BY Zenon, <1>7, <2>1 DEF vars, Promise!vars
<1> QED
  BY Zenon, <1>2, <1>3, <1>4, <1>5, <1>6, <1>7 DEF Next

(* The free list in memory is intact and free and held pages partition     *)
(* memory: physical_alloc never hands out a page that is still held.       *)
THEOREM PagesConserved == Spec => [](TypeOK /\ Linked /\ Conserved)
<1>1. Inv => TypeOK /\ Linked /\ Conserved
  BY Zenon DEF Inv
<1> QED
  BY <1>1, InitInv, NextInv, PTL DEF Spec

(* No page a caller holds is left mapped where the allocator writes its    *)
(* headers.                                                                *)
THEOREM PivotSafe == Spec => []PivotNotHeld
<1>1. Inv => PivotNotHeld
  <2> SUFFICES ASSUME Inv, pivot # Invalid PROVE pivot \notin held
    BY Zenon, PagesFacts DEF Inv, TypeOK, PivotNotHeld
  <2> QED
    BY Zenon, TopOfStack, StartsDistinct
<1> QED
  BY <1>1, InitInv, NextInv, PTL DEF Spec

(* physical_alloc, physical_free and physical_free_range implement the     *)
(* promise of PageAllocator, with the pages of the stacked blocks free.    *)
THEOREM Refinement == Spec => ImplementsPromise
<1>1. Init => Promise!Init
  BY Zenon, InitInv DEF Init, Promise!Init
<1> QED
  BY <1>1, InitInv, NextInv, PTL DEF Spec, ImplementsPromise, Promise!Spec

-----------------------------------------------------------------------------

INSTANCE FiniteSetTheorems

(* No assertion of lock_release_writer has failed, each thread is on the   *)
(* writer's path, the flag is set exactly while some thread holds the      *)
(* lock, and a thread about to exchange still expects a clear flag.        *)
WriterOnly ==
    ~shared =>
        /\ failed = "none"
        /\ readers = 0
        /\ \A t \in Threads :
              /\ pc[t] \in {"idle", "writer_cas", "writer_spin", "writing",
                            "assert_readers", "release_store"}
              /\ pc[t] = "writer_cas" => expected[t] = FALSE
        /\ writer <=> WriteHolders # {}
        /\ \A s, t \in WriteHolders : s = t

Counted == LockTypeOK /\ ReadersCounted

-----------------------------------------------------------------------------

LEMMA CountedReadersFinite ==
    IsFiniteSet(CountedReaders) /\ Cardinality(CountedReaders) \in Nat
BY Zenon, ThreadsFinite, FS_Subset, FS_CardinalityType DEF CountedReaders

(* A step that moves t neither into nor out of the counted section leaves  *)
(* the set of counted readers alone.                                       *)
LEMMA SameReaders ==
    ASSUME LockTypeOK, NEW t \in Threads, NEW to \in PC,
           pc' = [pc EXCEPT ![t] = to],
           pc[t] \in {"reader_store", "reading"}
             <=> to \in {"reader_store", "reading"}
    PROVE  CountedReaders' = CountedReaders
BY Zenon DEF CountedReaders, LockTypeOK, PC

LEMMA InitCounted == LockInit => Counted
<1> SUFFICES ASSUME LockInit PROVE Counted
  BY Zenon
<1>1. LockTypeOK
  BY Zenon DEF LockInit, LockTypeOK, PC, Assertions
<1>2. CountedReaders = {}
  BY Zenon DEF LockInit, CountedReaders
<1> QED
  BY Zenon, <1>1, <1>2, FS_EmptySet DEF LockInit, Counted, ReadersCounted

LEMMA NextCounted == Counted /\ [LockNext]_lock => Counted'
<1> SUFFICES ASSUME Counted, [LockNext]_lock PROVE Counted'
  BY Zenon
<1> USE DEF Counted, ReadersCounted
<1>1. CASE UNCHANGED lock
  BY Zenon, <1>1 DEF lock, LockTypeOK, CountedReaders
<1>2. CASE LockNext
  <2> PICK t \in Threads :
        \/ AcquireReader(t) \/ ReaderCompareExchange(t) \/ ReaderAdd(t)
        \/ ReaderStore(t) \/ ReleaseReader(t)
        \/ AcquireWriter(t) \/ WriterCompareExchange(t) \/ WriterSpin(t)
        \/ AssertWriter(t) \/ AssertReaders(t) \/ ReleaseStore(t)
    BY Zenon, <1>2 DEF LockNext
  <2>1. CASE AcquireReader(t)
    BY ZenonT(30), <2>1, SameReaders DEF AcquireReader, Goto, LockTypeOK, PC
  <2>2. CASE ReaderCompareExchange(t)
    BY ZenonT(30), <2>2, SameReaders
       DEF ReaderCompareExchange, CompareExchange, Goto, LockTypeOK, PC
  <2>3. CASE ReaderAdd(t)
    <3>1. LockTypeOK'
      BY <2>3 DEF ReaderAdd, Goto, LockTypeOK, PC
    <3>2. t \notin CountedReaders /\ CountedReaders' = CountedReaders \cup {t}
      BY Zenon, <2>3 DEF ReaderAdd, Goto, LockTypeOK, CountedReaders
    <3> QED
      BY Zenon, <2>3, <3>1, <3>2, CountedReadersFinite, FS_AddElement
         DEF ReaderAdd
  <2>4. CASE ReaderStore(t)
    BY Zenon, <2>4, SameReaders DEF ReaderStore, Goto, LockTypeOK, PC
  <2>5. CASE ReleaseReader(t)
    <3>1. t \in CountedReaders /\ CountedReaders' = CountedReaders \ {t}
      BY Zenon, <2>5 DEF ReleaseReader, Goto, LockTypeOK, CountedReaders
    <3>2. Cardinality(CountedReaders') = Cardinality(CountedReaders) - 1
      BY Zenon, <3>1, CountedReadersFinite, FS_RemoveElement
    <3>3. Cardinality(CountedReaders) # 0
      BY Zenon, <3>1, CountedReadersFinite, FS_EmptySet
    <3>4. readers' = readers - 1 /\ readers' \in Nat
      BY <2>5, <3>3, CountedReadersFinite DEF ReleaseReader
    <3>5. LockTypeOK'
      BY Zenon, <2>5, <3>4 DEF ReleaseReader, Goto, LockTypeOK, PC
    <3> QED
      BY Zenon, <3>2, <3>4, <3>5
  <2>6. CASE AcquireWriter(t)
    BY Zenon, <2>6, SameReaders DEF AcquireWriter, Goto, LockTypeOK, PC
  <2>7. CASE WriterCompareExchange(t)
    BY Zenon, <2>7, SameReaders
       DEF WriterCompareExchange, CompareExchange, Goto, LockTypeOK, PC
  <2>8. CASE WriterSpin(t)
    BY Zenon, <2>8, SameReaders DEF WriterSpin, Goto, LockTypeOK, PC
  <2>9. CASE AssertWriter(t)
    BY Zenon, <2>9, SameReaders DEF AssertWriter, Goto, LockTypeOK, PC, Assertions
  <2>10. CASE AssertReaders(t)
    BY Zenon, <2>10, SameReaders DEF AssertReaders, Goto, LockTypeOK, PC, Assertions
  <2>11. CASE ReleaseStore(t)
    BY Zenon, <2>11, SameReaders DEF ReleaseStore, Goto, LockTypeOK, PC
  <2> QED
    BY Zenon, <2>1, <2>2, <2>3, <2>4, <2>5, <2>6, <2>7, <2>8, <2>9, <2>10, <2>11
<1> QED
  BY Zenon, <1>1, <1>2

(* lock->readers never leaves the naturals and always equals the number of *)
(* threads between lock_acquire_reader's increment and                     *)
(* lock_release_reader's decrement.                                        *)
THEOREM ReaderCounting == LockSpec => [](LockTypeOK /\ ReadersCounted)
BY InitCounted, NextCounted, PTL DEF LockSpec, Counted
-----------------------------------------------------------------------------

LEMMA InitWriterOnly == LockInit => WriterOnly
BY Zenon DEF LockInit, WriterOnly, WriteHolders

(* A step of t that enters or leaves no critical section. *)
LEMMA SameHolders ==
    ASSUME LockTypeOK, NEW t \in Threads, NEW to \in PC,
           pc' = [pc EXCEPT ![t] = to],
           pc[t] \in {"writing", "assert_readers", "release_store"}
             <=> to \in {"writing", "assert_readers", "release_store"}
    PROVE  WriteHolders' = WriteHolders
BY Zenon DEF WriteHolders, LockTypeOK, PC

LEMMA NextWriterOnly == LockTypeOK /\ WriterOnly /\ [LockNext]_lock => WriterOnly'
<1> SUFFICES ASSUME LockTypeOK, WriterOnly, [LockNext]_lock, ~shared'
             PROVE  WriterOnly'
  BY Zenon DEF WriterOnly
<1>0. ~shared
  BY Zenon DEF LockNext, lock, LockTypeOK, AcquireReader, ReaderCompareExchange, CompareExchange,
         ReaderAdd, ReaderStore, ReleaseReader, AcquireWriter, WriterCompareExchange,
         WriterSpin, AssertWriter, AssertReaders, ReleaseStore
<1> USE <1>0 DEF WriterOnly
<1>1. CASE UNCHANGED lock
  BY Zenon, <1>1 DEF lock, WriteHolders
<1>2. CASE LockNext
  <2> PICK t \in Threads :
        \/ AcquireReader(t) \/ ReaderCompareExchange(t) \/ ReaderAdd(t)
        \/ ReaderStore(t) \/ ReleaseReader(t)
        \/ AcquireWriter(t) \/ WriterCompareExchange(t) \/ WriterSpin(t)
        \/ AssertWriter(t) \/ AssertReaders(t) \/ ReleaseStore(t)
    BY Zenon, <1>2 DEF LockNext
  <2>1. ~ (AcquireReader(t) \/ ReaderCompareExchange(t) \/ ReaderAdd(t)
             \/ ReaderStore(t) \/ ReleaseReader(t) \/ WriterSpin(t))
    BY Zenon DEF AcquireReader, ReaderCompareExchange, CompareExchange, ReaderAdd,
           ReaderStore, ReleaseReader, WriterSpin, Goto
  <2>2. CASE AcquireWriter(t)
    BY Zenon, <2>2, SameHolders DEF AcquireWriter, Goto, LockTypeOK, PC
  <2>3. CASE WriterCompareExchange(t)
    <3>1. CASE writer = FALSE
      <4>1. WriteHolders = {} /\ WriteHolders' = {t}
        BY <2>3, <3>1
           DEF WriterCompareExchange, CompareExchange, Goto, LockTypeOK,
               WriteHolders
      <4> QED
        BY Zenon, <2>3, <3>1, <4>1
           DEF WriterCompareExchange, CompareExchange, Goto, LockTypeOK
    <3>2. CASE writer = TRUE
      BY Zenon, <2>3, <3>2, SameHolders
         DEF WriterCompareExchange, CompareExchange, Goto, LockTypeOK, PC
    <3> QED
      BY ZenonT(30), <3>1, <3>2 DEF LockTypeOK
  <2>4. CASE AssertWriter(t)
    <3>1. t \in WriteHolders
      BY Zenon, <2>4 DEF AssertWriter, Goto, WriteHolders
    <3> QED
      BY ZenonT(30), <2>4, <3>1, SameHolders DEF AssertWriter, Goto, LockTypeOK, PC
  <2>5. CASE AssertReaders(t)
    BY ZenonT(30), <2>5, SameHolders DEF AssertReaders, Goto, LockTypeOK, PC
  <2>6. CASE ReleaseStore(t)
    <3>1. t \in WriteHolders /\ WriteHolders' = WriteHolders \ {t}
      BY Zenon, <2>6 DEF ReleaseStore, Goto, LockTypeOK, WriteHolders
    <3>2. WriteHolders' = {}
      BY Zenon, <3>1
    <3> QED
      BY <2>6, <3>2 DEF ReleaseStore, Goto, LockTypeOK
  <2> QED
    BY ZenonT(30), <2>1, <2>2, <2>3, <2>4, <2>5, <2>6
<1> QED
  BY Zenon, <1>1, <1>2

(* A lock that no reader uses is held by at most one writer, and           *)
(* lock_release_writer's assertions never fail on it.                      *)
THEOREM WriterMutex == LockSpec => []WriterExclusion
<1>1. WriterOnly => WriterExclusion
  BY Zenon DEF WriterOnly, WriterExclusion
<1>2. Counted => LockTypeOK
  BY Zenon DEF Counted
<1> QED
  BY <1>1, <1>2, InitCounted, NextCounted, InitWriterOnly, NextWriterOnly, PTL
     DEF LockSpec

(* On such a lock a writer that loses its compare-and-exchange spins       *)
(* forever: nothing but a counted reader ends the inner loop.              *)
THEOREM LoserStarves == LockSpec => LoserNeverReturns
<1>1. ASSUME WriterOnly, LockTypeOK, [LockNext]_lock, ~shared',
             NEW s \in Threads, pc[s] = "writer_spin"
      PROVE  pc'[s] = "writer_spin"
  <2>1. CASE UNCHANGED lock
    BY <1>1, <2>1 DEF lock
  <2>2. CASE LockNext
    <3>1. PICK t \in Threads :
            \/ AcquireReader(t) \/ ReaderCompareExchange(t) \/ ReaderAdd(t)
            \/ ReaderStore(t) \/ ReleaseReader(t)
            \/ AcquireWriter(t) \/ WriterCompareExchange(t) \/ WriterSpin(t)
            \/ AssertWriter(t) \/ AssertReaders(t) \/ ReleaseStore(t)
      BY Zenon, <2>2 DEF LockNext
    <3>2. ~ WriterSpin(t)
      BY <1>1 DEF WriterSpin, WriterOnly
    <3>3. \/ pc' = pc
          \/ pc[t] # "writer_spin" /\ \E to : pc' = [pc EXCEPT ![t] = to]
      BY Zenon, <1>1, <3>1, <3>2
         DEF AcquireReader, ReaderCompareExchange, CompareExchange, ReaderAdd,
             ReaderStore, ReleaseReader, AcquireWriter, WriterCompareExchange,
             AssertWriter, AssertReaders, ReleaseStore, Goto
    <3> QED
      BY Zenon, <1>1, <3>3 DEF LockTypeOK
  <2> QED
    BY Zenon, <1>1, <2>1, <2>2
<1>2. WriterOnly /\ LockTypeOK /\ [LockNext]_lock =>
        [~shared' => \A t \in Threads :
            pc[t] = "writer_spin" => pc'[t] = "writer_spin"]_lock
  BY Zenon, <1>1
<1>3. Counted => LockTypeOK
  BY DEF Counted
<1> QED
  BY <1>2, <1>3, InitCounted, NextCounted, InitWriterOnly, NextWriterOnly, PTL
     DEF LockSpec, LoserNeverReturns

-------------------------------------------------------------------------------
(* The random numbers. *)

Places == {"idle", "assert", "twist", "read", "index++", "release", "spinning", "panicked"}
Inside == {"assert", "twist", "read", "index++", "release"}

RandomTypeOK ==
    /\ random_number_function \in {"NULL", "rdrand", "mt19937_64"}
    /\ MT19937_64_Index \in Nat
    /\ MT19937_64_Lock \in Callers \cup {"free"}
    /\ caller \in [Callers -> Places]
    /\ drawn \in Seq(Int)

(* Until the generator is seeded nobody has called it.                     *)
Unseeded ==
    random_number_function # "mt19937_64" =>
        /\ \A t \in Callers : caller[t] = "idle"
        /\ MT19937_64_Lock = "free"
        /\ random_number_function = "NULL" => drawn = <<>>

(* Who is inside holds the lock; as many numbers are given as the index    *)
(* says, one more between the reading of a word and the step of the index; *)
(* a word is read only below N, and the twist is entered only at N.        *)
Seeded ==
    random_number_function = "mt19937_64" =>
        /\ MT19937_64_Index <= N
        /\ \A k \in 1 .. Len(drawn) : drawn[k] = k - 1
        /\ \A t \in Callers :
              /\ caller[t] # "panicked"
              /\ caller[t] \in Inside => MT19937_64_Lock = t
              /\ caller[t] \in {"read", "index++"} => MT19937_64_Index < N
              /\ caller[t] = "index++" => Len(drawn) = MT19937_64_Index + 1
        /\ (\A t \in Callers : caller[t] # "index++") => Len(drawn) = MT19937_64_Index

RandomInv == RandomTypeOK /\ Unseeded /\ Seeded

-------------------------------------------------------------------------------

LEMMA RandomInitial == RandomInit => RandomInv
BY RandomAssumption
   DEF RandomInit, RandomInv, RandomTypeOK, Unseeded, Seeded, Places, Inside

(* A caller's step keeps the invariant. *)
LEMMA CallerStep ==
    ASSUME RandomInv, NEW t \in Callers,
           Rdrand(t) \/ TakeLock(t) \/ Check(t) \/ Twist(t) \/ Read(t) \/ Advance(t) \/ Release(t)
    PROVE  RandomInv'
<1> USE RandomAssumption DEF RandomInv, RandomTypeOK, Places, Inside, At
<1>1. CASE Rdrand(t)
  <2>1. drawn' \in Seq(Int) /\ -1 \in Int
    BY <1>1 DEF Rdrand
  <2> QED
    BY <1>1, <2>1 DEF Rdrand, Unseeded, Seeded
<1> SUFFICES ASSUME random_number_function = "mt19937_64",
                    random_number_function' = "mt19937_64",
                    TakeLock(t) \/ Check(t) \/ Twist(t) \/ Read(t) \/ Advance(t) \/ Release(t)
             PROVE  RandomInv'
  BY <1>1 DEF TakeLock, Check, Twist, Read, Advance, Release, Unseeded
<1> USE DEF Unseeded, Seeded
<1>2. CASE TakeLock(t)
  BY Zenon, <1>2 DEF TakeLock
<1>3. CASE Check(t)
  BY <1>3 DEF Check
<1>4. CASE Twist(t)
  BY <1>4 DEF Twist
<1>5. CASE Read(t)
  <2>1. /\ MT19937_64_Lock = t /\ MT19937_64_Index < N
        /\ \A s \in Callers : caller[s] # "index++"
    BY <1>5 DEF Read
  <2>2. /\ Len(drawn) = MT19937_64_Index
        /\ drawn' = Append(drawn, MT19937_64_Index)
    BY <1>5, <2>1 DEF Read
  <2>3. /\ drawn' \in Seq(Int) /\ Len(drawn') = MT19937_64_Index + 1
        /\ \A k \in 1 .. Len(drawn') : drawn'[k] = k - 1
    BY <2>2
  <2> QED
    BY Zenon, <1>5, <2>1, <2>3 DEF Read
<1>6. CASE Advance(t)
  <2>1. /\ MT19937_64_Lock = t /\ MT19937_64_Index < N
        /\ Len(drawn) = MT19937_64_Index + 1
    BY <1>6 DEF Advance
  <2>2. \A s \in Callers : s # t => caller[s] \notin Inside
    BY <2>1
  <2> QED
    BY <1>6, <2>1, <2>2 DEF Advance
<1>7. CASE Release(t)
  BY <1>7 DEF Release
<1> QED
  BY Zenon, <1>2, <1>3, <1>4, <1>5, <1>6, <1>7

LEMMA RandomStep == RandomInv /\ [RandomNext]_random => RandomInv'
<1> SUFFICES ASSUME RandomInv, [RandomNext]_random PROVE RandomInv'
  OBVIOUS
<1>1. CASE UsesRdrand
  BY <1>1 DEF UsesRdrand, RandomInv, RandomTypeOK, Unseeded, Seeded
<1>2. CASE ConsumeMeasure \/ Consume
  BY <1>2 DEF ConsumeMeasure, Consume, Wanting, RandomInv, RandomTypeOK, Unseeded, Seeded
<1>3. CASE mt19937_64_seed
  BY <1>3, RandomAssumption
     DEF mt19937_64_seed, RandomInv, RandomTypeOK, Unseeded, Seeded, Inside
<1>4. ASSUME NEW t \in Callers,
             Rdrand(t) \/ TakeLock(t) \/ Check(t) \/ Twist(t) \/ Read(t) \/ Advance(t) \/ Release(t)
      PROVE  RandomInv'
  BY Zenon, <1>4, CallerStep
<1>5. CASE UNCHANGED random
  BY <1>5 DEF random, RandomInv, RandomTypeOK, Unseeded, Seeded
<1> QED
  BY <1>1, <1>2, <1>3, <1>4, <1>5 DEF RandomNext

LEMMA RandomInvariant == RandomSpec => []RandomInv
BY RandomInitial, RandomStep, PTL DEF RandomSpec

-------------------------------------------------------------------------------

(* Whatever N is and however many threads call mt19937_64_get_random_-     *)
(* number at once, they are given the words of its state in order, none    *)
(* twice, and its assertion never fails.                                   *)
THEOREM NumbersAlwaysInOrder == RandomSpec => []NumbersInOrder
<1>1. RandomInv => NumbersInOrder
  <2> SUFFICES ASSUME RandomInv, random_number_function = "mt19937_64"
               PROVE  NumbersInOrder
    BY DEF NumbersInOrder
  <2>1. DOMAIN drawn = 1 .. Len(drawn) /\ Len(drawn) \in Nat
    BY DEF RandomInv, RandomTypeOK
  <2>2. Len(drawn) <= N
    <3>1. CASE \A t \in Callers : caller[t] # "index++"
      BY <3>1 DEF RandomInv, Seeded
    <3>2. ASSUME NEW t \in Callers, caller[t] = "index++"
          PROVE  Len(drawn) <= N
      <4>1. MT19937_64_Index < N /\ Len(drawn) = MT19937_64_Index + 1
        BY <3>2 DEF RandomInv, Seeded
      <4> QED
        BY <4>1, RandomAssumption DEF RandomInv, RandomTypeOK
    <3> QED
      BY <3>1, <3>2
  <2> QED
    BY <2>1, <2>2 DEF RandomInv, Seeded, NumbersInOrder
<1> QED
  BY <1>1, RandomInvariant, PTL

(* Whatever N is, once N numbers are given mt19937_64_twist, which waits   *)
(* for the lock its caller holds, keeps any further one from being given.  *)
THEOREM GeneratorAlwaysRunsDry == RandomSpec => GeneratorRunsDry
<1>1. RandomInv /\ [RandomNext]_random =>
          [random_number_function = "mt19937_64" /\ MT19937_64_Index = N
             => MT19937_64_Index' = N /\ drawn' = drawn]_random
  <2> SUFFICES ASSUME RandomInv, RandomNext,
                      random_number_function = "mt19937_64", MT19937_64_Index = N
               PROVE  MT19937_64_Index' = N /\ drawn' = drawn
    OBVIOUS
  <2>1. CASE UsesRdrand \/ ConsumeMeasure \/ Consume \/ mt19937_64_seed
    BY <2>1 DEF UsesRdrand, ConsumeMeasure, Consume, Wanting, mt19937_64_seed
  <2>2. ASSUME NEW t \in Callers, Read(t) \/ Advance(t) PROVE FALSE
    BY <2>2, RandomAssumption DEF Read, Advance, At, RandomInv, Seeded, RandomTypeOK
  <2>3. ASSUME NEW t \in Callers, Rdrand(t) \/ TakeLock(t) \/ Check(t) \/ Release(t)
        PROVE  MT19937_64_Index' = N /\ drawn' = drawn
    BY <2>3 DEF Rdrand, TakeLock, Check, Release
  <2>4. ASSUME NEW t \in Callers, Twist(t) PROVE MT19937_64_Index' = N /\ drawn' = drawn
    <3>1. MT19937_64_Lock = t /\ t # "free"
      BY <2>4, RandomAssumption DEF Twist, At, RandomInv, Seeded, Inside
    <3> QED
      BY <2>4, <3>1 DEF Twist
  <2> QED
    BY <2>1, <2>2, <2>3, <2>4 DEF RandomNext
<1> QED
  BY <1>1, RandomInvariant, PTL DEF RandomSpec, GeneratorRunsDry

-------------------------------------------------------------------------------

(* The clock.  A field that was read while the clock stood where the turn  *)
(* began belongs to that instant, and it still stands there at the end of  *)
(* the turn if the seconds are the same: less than a minute has gone by.   *)
Turning == {"day", "hours", "minutes", "seconds2"}

ClockTypeOK ==
    /\ clock \in Int /\ turn_began \in Int
    /\ fields \in [seconds : Int, minutes : Int, hours : Int, day : Int]
    /\ reading \in Turning \cup {"seconds1", "format", "done"}

TurnInv ==
    reading \in Turning =>
        /\ turn_began <= clock /\ clock < turn_began + Minute
        /\ fields.seconds = FieldsAt(turn_began).seconds
        /\ clock = turn_began =>
              /\ reading # "day" => fields.day = FieldsAt(turn_began).day
              /\ reading \in {"minutes", "seconds2"} => fields.hours = FieldsAt(turn_began).hours
              /\ reading = "seconds2" => fields.minutes = FieldsAt(turn_began).minutes

ClockInv == ClockTypeOK /\ TurnInv /\ OneInstant

LEMMA SameRemainder ==
    ASSUME NEW a \in Int, NEW b \in Int, NEW n \in Nat \ {0},
           a <= b, b < a + n, a % n = b % n
    PROVE  a = b
<1>1. a = n * (a \div n) + (a % n) /\ b = n * (b \div n) + (b % n)
  BY Z3
<1>2. PICK q \in Int, r \in Int, k \in Int :
         a = n * q + r /\ b = n * (q + k) + r
  <2>1. a \div n \in Int /\ b \div n \in Int /\ a % n \in Int
    OBVIOUS
  <2>2. (b \div n) - (a \div n) \in Int /\ b \div n = (a \div n) + ((b \div n) - (a \div n))
    BY <2>1
  <2> QED
    BY Zenon, <1>1, <2>1, <2>2
<1>3. n * (q + k) = n * q + n * k /\ n * k \in Int /\ n * q \in Int
  OBVIOUS
<1>4. 0 <= n * k /\ n * k < n
  BY <1>2, <1>3
<1>5. k = 0
  <2>1. CASE k >= 1
    <3>1. n * k >= n
      BY <2>1
    <3> QED
      BY <1>3, <1>4, <3>1
  <2>2. CASE k <= -1
    <3>1. n * k <= -n
      BY <2>2
    <3> QED
      BY <1>3, <1>4, <3>1
  <2> QED
    BY <2>1, <2>2
<1> QED
  BY <1>2, <1>5

LEMMA FieldsAre ==
    ASSUME NEW t \in Int
    PROVE  /\ FieldsAt(t) \in [seconds : Int, minutes : Int, hours : 0 .. 23, day : Int]
           /\ FieldsAt(t).seconds = t % Minute
<1>1. Minute * Hour \in Nat \ {0} /\ Minute * Hour * 24 \in Nat \ {0}
  BY ClockAssumption
<1>2. /\ t % Minute \in Int /\ t \div Minute \in Int /\ t \div (Minute * Hour) \in Int
      /\ t \div (Minute * Hour * 24) \in Int
  BY <1>1, ClockAssumption
<1>3. (t \div Minute) % Hour \in Int /\ (t \div (Minute * Hour)) % 24 \in 0 .. 23
  BY <1>2, ClockAssumption
<1> QED
  BY <1>2, <1>3 DEF FieldsAt

(* A number below 24 comes back from its decimal digits, and with it the   *)
(* bit for the afternoon.                                                  *)
LEMMA DigitsAre ==
    ASSUME NEW x \in 0 .. 23
    PROVE  /\ InBCD(x) \in 0 .. 35
           /\ CMOS_Convert_Hours_BCD(InBCD(x)) = x
           /\ CMOS_Convert_Hours_BCD(InBCD(x) + PM) = x + PM
<1>1. PICK d \in 0 .. 2, u \in 0 .. 9 : x = (d * 10) + u /\ InBCD(x) = (d * 16) + u
  <2>1. CASE x \in 0 .. 9
    BY <2>1 DEF InBCD
  <2>2. CASE x \in 10 .. 19
    BY <2>2 DEF InBCD
  <2>3. CASE x \in 20 .. 23
    BY <2>3 DEF InBCD
  <2> QED
    BY <2>1, <2>2, <2>3
<1>2. /\ ((d * 16) + u) % 16 = u /\ (((d * 16) + u) % 128) \div 16 = d
      /\ ((d * 16) + u + 128) % 16 = u /\ (((d * 16) + u + 128) % 128) \div 16 = d
  BY <1>1
<1>3. CMOS_Convert_Hours_BCD((d * 16) + u) = u + (d * 10)
  BY <1>2 DEF CMOS_Convert_Hours_BCD, PM
<1>4. CMOS_Convert_Hours_BCD((d * 16) + u + 128) = u + (d * 10) + 128
  BY <1>2 DEF CMOS_Convert_Hours_BCD, PM
<1> QED
  BY <1>1, <1>3, <1>4 DEF PM

(* Every hour comes back, but 0 and 12 of the 12-hour formats. *)
LEMMA DecodedIs ==
    ASSUME NEW h \in 0 .. 23, NEW bcd \in BOOLEAN, NEW hour24 \in BOOLEAN
    PROVE  \/ DecodedHour(Presented(h, bcd, hour24), bcd, hour24) = h
           \/ /\ h % 12 = 0
              /\ DecodedHour(Presented(h, bcd, hour24), bcd, hour24) = (h + 12) % 24
<1>1. CASE hour24
  <2>1. Presented(h, bcd, hour24) = IF bcd THEN InBCD(h) ELSE h
    BY <1>1, DigitsAre DEF Presented
  <2> QED
    BY Zenon, <1>1, <2>1, DigitsAre DEF DecodedHour
<1>2. CASE ~hour24
  <2>1. PICK shown \in 1 .. 12 : shown = IF h % 12 = 0 THEN 12 ELSE h % 12
    OBVIOUS
  <2>2. CASE h >= 12
    <3>1. DecodedHour(Presented(h, bcd, hour24), bcd, hour24) = (((shown + PM) % PM) + 12) % 24
      BY <1>2, <2>1, <2>2, DigitsAre DEF DecodedHour, Presented, PM
    <3> QED
      BY <2>1, <2>2, <3>1 DEF PM
  <2>3. CASE h < 12
    <3>1. DecodedHour(Presented(h, bcd, hour24), bcd, hour24) = shown
      BY <1>2, <2>1, <2>3, DigitsAre DEF DecodedHour, Presented, PM
    <3> QED
      BY <2>1, <2>3, <3>1
  <2> QED
    BY <2>2, <2>3
<1> QED
  BY <1>1, <1>2

LEMMA ClockInitially == ClockInit => ClockInv
<1> SUFFICES ASSUME ClockInit PROVE ClockInv
  OBVIOUS
<1>1. clock \in Int
  BY ClockAssumption DEF ClockInit
<1>2. fields \in [seconds : Int, minutes : Int, hours : Int, day : Int]
  <2>1. FieldsAt(0) \in [seconds : Int, minutes : Int, hours : 0 .. 23, day : Int]
    BY FieldsAre
  <2>2. FieldsAt(0) \in [seconds : Int, minutes : Int, hours : Int, day : Int]
    BY <2>1
  <2> QED
    BY <2>2 DEF ClockInit
<1> QED
  BY <1>1, <1>2 DEF ClockInit, ClockInv, ClockTypeOK, TurnInv, OneInstant, Turning

LEMMA ClockStep == ClockInv /\ [ClockNext]_rtc => ClockInv'
<1> SUFFICES ASSUME ClockInv, [ClockNext]_rtc
             PROVE  ClockInv'
  OBVIOUS
<1>0. Minute \in Nat \ {0} /\ ClockTypeOK /\ TurnInv /\ OneInstant
  BY Zenon, ClockAssumption DEF ClockInv
<1>1. CASE Tick
  <2>1. /\ clock' = clock + 1 /\ UNCHANGED <<fields, reading, turn_began, hour_decoded>>
        /\ reading \in Turning => clock + 1 < turn_began + Minute
    BY <1>1 DEF Tick, Turning
  <2>2. ClockTypeOK' /\ OneInstant'
    BY <1>0, <2>1 DEF ClockTypeOK, OneInstant
  <2>3. reading \in Turning =>
            turn_began <= clock' /\ clock' < turn_began + Minute /\ clock' # turn_began
    BY <1>0, <2>1 DEF ClockTypeOK, TurnInv
  <2> QED
    BY Zenon, <1>0, <2>1, <2>2, <2>3 DEF ClockInv, TurnInv
<1>2. CASE cmos_read
  <2>1. /\ clock \in Int
        /\ FieldsAt(clock) \in [seconds : Int, minutes : Int, hours : 0 .. 23, day : Int]
    BY Zenon, <1>0, FieldsAre DEF ClockTypeOK
  <2>2. UNCHANGED <<clock, hour_decoded>> /\ reading \in {"seconds1", "day", "hours", "minutes"}
    BY Zenon, <1>2 DEF cmos_read, Order
  <2>3. CASE reading = "seconds1"
    <3>1. /\ turn_began' = clock /\ reading' = "day"
          /\ fields' = [fields EXCEPT !["seconds"] = FieldsAt(clock)["seconds"]]
      BY Zenon, <1>2, <2>3 DEF cmos_read, Order
    <3> QED
      BY <1>0, <2>1, <2>2, <3>1 DEF ClockInv, ClockTypeOK, TurnInv, OneInstant, Turning
  <2>4. CASE reading = "day"
    <3>1. /\ turn_began' = turn_began /\ reading' = "hours"
          /\ fields' = [fields EXCEPT !["day"] = FieldsAt(clock)["day"]]
      BY Zenon, <1>2, <2>4 DEF cmos_read, Order
    <3> QED
      BY Zenon, <1>0, <2>1, <2>2, <2>4, <3>1 DEF ClockInv, ClockTypeOK, TurnInv, OneInstant, Turning
  <2>5. CASE reading = "hours"
    <3>1. /\ turn_began' = turn_began /\ reading' = "minutes"
          /\ fields' = [fields EXCEPT !["hours"] = FieldsAt(clock)["hours"]]
      BY Zenon, <1>2, <2>5 DEF cmos_read, Order
    <3> QED
      BY <1>0, <2>1, <2>2, <2>5, <3>1 DEF ClockInv, ClockTypeOK, TurnInv, OneInstant, Turning
  <2>6. CASE reading = "minutes"
    <3>1. /\ turn_began' = turn_began /\ reading' = "seconds2"
          /\ fields' = [fields EXCEPT !["minutes"] = FieldsAt(clock)["minutes"]]
      BY <1>2, <2>6 DEF cmos_read, Order
    <3> QED
      BY Zenon, <1>0, <2>1, <2>2, <2>6, <3>1 DEF ClockInv, ClockTypeOK, TurnInv, OneInstant, Turning
  <2> QED
    BY Zenon, <2>2, <2>3, <2>4, <2>5, <2>6
<1>3. CASE While
  <2>1. reading = "seconds2" /\ UNCHANGED <<clock, fields, turn_began, hour_decoded>>
    BY Zenon, <1>3 DEF While
  <2>2. CASE fields.seconds # FieldsAt(clock).seconds
    <3>1. reading' = "seconds1"
      BY Zenon, <1>3, <2>2 DEF While
    <3> QED
      BY <1>0, <2>1, <3>1 DEF ClockInv, ClockTypeOK, TurnInv, OneInstant, Turning
  <2>3. CASE fields.seconds = FieldsAt(clock).seconds
    <3>1. reading' = "format"
      BY <1>3, <2>3 DEF While
    <3>2. clock = turn_began
      <4>1. /\ clock \in Int /\ turn_began \in Int
            /\ turn_began <= clock /\ clock < turn_began + Minute
            /\ fields.seconds = FieldsAt(turn_began).seconds
        BY <1>0, <2>1 DEF ClockTypeOK, TurnInv, Turning
      <4>2. turn_began % Minute = clock % Minute
        BY Zenon, <2>3, <4>1, FieldsAre
      <4> QED
        BY Zenon, <1>0, <4>1, <4>2, SameRemainder
    <3>3. fields = FieldsAt(turn_began)
      <4>1. FieldsAt(turn_began) \in [seconds : Int, minutes : Int, hours : 0 .. 23, day : Int]
        BY Zenon, <1>0, FieldsAre DEF ClockTypeOK
      <4>2. /\ fields.seconds = FieldsAt(turn_began).seconds
            /\ fields.minutes = FieldsAt(turn_began).minutes
            /\ fields.hours = FieldsAt(turn_began).hours
            /\ fields.day = FieldsAt(turn_began).day
        BY Zenon, <1>0, <2>1, <3>2 DEF TurnInv, Turning
      <4>3. fields \in [seconds : Int, minutes : Int, hours : Int, day : Int]
        BY <1>0 DEF ClockTypeOK
      <4> QED
        BY <4>1, <4>2, <4>3
    <3>4. FieldsAt(turn_began)' = FieldsAt(turn_began)
      BY <2>1 DEF FieldsAt
    <3> QED
      BY Zenon, <1>0, <2>1, <3>1, <3>3, <3>4 DEF ClockInv, ClockTypeOK, TurnInv, OneInstant, Turning
  <2> QED
    BY <2>2, <2>3
<1>4. CASE Decode
  <2>1. /\ reading = "format" /\ reading' = "done" /\ UNCHANGED <<clock, fields, turn_began>>
    BY <1>4 DEF Decode
  <2>2. fields.hours \in 0 .. 23
    BY <1>0, <2>1, FieldsAre DEF ClockTypeOK, OneInstant
  <2>3. PICK bcd \in BOOLEAN, hour24 \in BOOLEAN :
            hour_decoded' = DecodedHour(Presented(fields.hours, bcd, hour24), bcd, hour24)
    BY <1>4 DEF Decode
  <2>4. \/ hour_decoded' = fields.hours
        \/ fields.hours % 12 = 0 /\ hour_decoded' = (fields.hours + 12) % 24
    BY Zenon, <2>2, <2>3, DecodedIs
  <2> QED
    BY <1>0, <2>1, <2>4 DEF ClockInv, ClockTypeOK, TurnInv, OneInstant, Turning
<1>5. CASE UNCHANGED rtc
  BY <1>0, <1>5 DEF rtc, ClockInv, ClockTypeOK, TurnInv, OneInstant
<1> QED
  BY Zenon, <1>1, <1>2, <1>3, <1>4, <1>5 DEF ClockNext

(* However long a minute and an hour are, and wherever the clock ticks     *)
(* between the reads of cmos_get_time_of_day, the fields that it uses are  *)
(* those of one second, and the hour is decoded right but for noon and     *)
(* midnight of the 12-hour formats.                                        *)
THEOREM AlwaysOneInstant == ClockSpec => []OneInstant
<1>1. ClockInv => OneInstant
  BY DEF ClockInv
<1> QED
  BY <1>1, ClockInitially, ClockStep, PTL DEF ClockSpec

-------------------------------------------------------------------------------

(* The files.  The capacity of a file is more than 0 only after an attach  *)
(* to it was refused.                                                      *)
FilesInv ==
    /\ child_capacity \in [Files -> Nat]
    /\ child_count = [f \in Files |-> 0]
    /\ children = [f \in Files |-> <<>>]
    /\ ref_count = [f \in Files |-> 1]
    /\ broken \in BOOLEAN
    /\ \A f \in Files : child_capacity[f] # 0 => f \in tried
    /\ broken => tried # {}

LEMMA FilesStep == FilesInv /\ [FileSystemNext]_files => FilesInv'
<1> SUFFICES ASSUME FilesInv, [FileSystemNext]_files
             PROVE  FilesInv'
  OBVIOUS
<1>1. CASE FileAttachPath
  <2>1. Root \in Files
    BY DEF Files
  <2> QED
    BY <1>1, <2>1 DEF FileAttachPath, FilesInv
<1>2. ASSUME NEW parent \in Files, NEW child \in Nodes, FileAttach(parent, child)
      PROVE  FilesInv'
  <2>1. child_count[parent] = 0 /\ children[parent] = <<>> /\ child_capacity[parent] \in Nat
    BY DEF FilesInv
  <2>2. CASE child_capacity[parent] = child_count[parent]
    <3>1. /\ child_capacity' = [child_capacity EXCEPT ![parent] = @ + 10]
          /\ tried' = tried \cup {parent}
          /\ UNCHANGED <<children, child_count, ref_count, broken>>
      BY Zenon, <1>2, <2>1, <2>2 DEF FileAttach, file_attach, krealloc
    <3> QED
      BY <2>1, <3>1 DEF FilesInv
  <2>3. CASE child_capacity[parent] # child_count[parent]
    <3>1. child_count[parent] + 1 \notin DOMAIN children[parent]
      BY <2>1
    <3>2. broken' = TRUE /\ UNCHANGED <<children, child_count, ref_count, tried, child_capacity>>
      BY Zenon, <1>2, <2>3, <3>1 DEF FileAttach, file_attach, Store
    <3>3. parent \in tried
      BY <2>1, <2>3 DEF FilesInv
    <3> QED
      BY <3>2, <3>3 DEF FilesInv
  <2> QED
    BY <2>2, <2>3
<1>3. ASSUME NEW parent \in Files, NEW child \in Nodes, FileDetach(parent, child)
      PROVE  FilesInv'
  <2>1. ~ \E k \in 1 .. child_count[parent] : children[parent][k] = child
    BY DEF FilesInv
  <2>2. UNCHANGED files
    BY <1>3, <2>1 DEF FileDetach, files
  <2> QED
    BY <2>2 DEF files, FilesInv
<1>4. CASE UNCHANGED files
  BY <1>4 DEF files, FilesInv
<1> QED
  BY Zenon, <1>1, <1>2, <1>3, <1>4 DEF FileSystemNext

(* However many files there are, file_attach never attaches one, and the   *)
(* only store through NULL follows an attach that was refused.             *)
THEOREM NothingEverAttached == FileSystemSpec => []NothingAttached
<1>1. ASSUME FileSystemInit PROVE FilesInv
  <2>1. child_capacity \in [Files -> Nat] /\ \A f \in Files : child_capacity[f] = 0
    BY <1>1 DEF FileSystemInit
  <2> QED
    BY Zenon, <1>1, <2>1 DEF FileSystemInit, FilesInv
<1>2. FilesInv => NothingAttached
  BY DEF FilesInv, NothingAttached
<1> QED
  BY <1>1, <1>2, FilesStep, PTL DEF FileSystemSpec
===============================================================================
