------------------------------- MODULE Paging -------------------------------
(***************************************************************************)
(* kernel/arch/x64/paging.c: trees of page tables in physical memory, one  *)
(* tree per struct page_table, all with the same kernel half.  A virtual   *)
(* page is the sequence of its indices, one per level of the tree.         *)
(*                                                                         *)
(* The frames of the physical allocator are interchangeable, so the lowest *)
(* free one stands for the one it returns.  The short-lived slab mapping   *)
(* through which a new root is filled is left out, and so are tables that  *)
(* map_page leaves behind for it.                                          *)
(***************************************************************************)
EXTENDS Naturals, Sequences, FiniteSets

CONSTANTS
    Levels,         \* 4 in the code
    Frames,         \* page frames of RAM, naturals
    Device,         \* stands for physical memory a driver asks for
    Absent,         \* an entry that is not present
    UserTop, KernelTop, Fractal,    \* indices of the root
    Low,            \* indices of the other tables
    Ranges,         \* sequences of adjacent virtual pages
    Attributes,     \* sets of rights that callers ask for
    MaxTables       \* bound: number of trees

VARIABLES
    mem,        \* what each frame holds, read as a table
    free,       \* what the physical allocator holds
    roots,      \* the physical_address of every struct page_table
    cr3,
    tlb,        \* a translation the CPU has cached, or Absent
    halted      \* an assertion has failed

vars == <<mem, free, roots, cr3, tlb, halted>>

Indices == UserTop \cup KernelTop \cup {Fractal} \cup Low

Pages == UNION {{range[i] : i \in DOMAIN range} : range \in Ranges}

Rights == {"Writable", "No_Execute", "User_Access"}

(* The frame that physical_alloc returns. *)
Lowest(frames) == CHOOSE f \in frames : \A g \in frames : f <= g

Entry(to, rights) == [to |-> to, rights |-> rights]

Entries == [to : Frames \cup {Device}, rights : SUBSET Rights]

(* A virtual address is in the lower half or in the kernel half, and the   *)
(* pages of a range are all in one of them.                                *)
ASSUME PagingAssumption ==
    /\ Levels \in Nat \ {0, 1}
    /\ Frames \subseteq Nat /\ KernelTop \subseteq Nat
    /\ Device \notin Frames
    /\ Absent \notin Frames \cup {Device} \cup Entries
    /\ UserTop \cap KernelTop = {}
    /\ Fractal \notin UserTop \cup KernelTop
    /\ \A range \in Ranges :
          /\ range # <<>>
          /\ \E tops \in {UserTop, KernelTop} :
                range \in Seq({page \in [1 .. Levels -> Indices] :
                                page[1] \in tops /\ \A k \in 2 .. Levels : page[k] \in Low})
    /\ Attributes \subseteq SUBSET Rights

EmptyTable == [i \in Indices |-> Absent]

(* What a frame that is no table looks like when it is read as one.        *)
Junk == [i \in Indices |-> Entry(Device, {})]

TypeOK ==
    /\ mem \in [Frames -> [Indices -> Entries \cup {Absent}]]
    /\ free \in SUBSET Frames
    /\ roots \in SUBSET Frames
    /\ cr3 \in roots
    /\ tlb \in [page : Pages, entry : Entries] \cup {Absent}
    /\ halted \in BOOLEAN

(* paging_init has given every index of the kernel half a table; the lower *)
(* half is empty.                                                          *)
BootRootSparse(root, tables) ==
    [EmptyTable EXCEPT ![Fractal] = Entry(root, {"Writable", "No_Execute"})]

BootRoot(root, tables) ==
    [i \in Indices |->
        IF i \in KernelTop
        THEN Entry(tables[i], {"Writable", "No_Execute"})
        ELSE IF i = Fractal THEN Entry(root, {"Writable", "No_Execute"})
        ELSE Absent]

Init ==
    /\ \E root \in Frames :
          /\ root = Lowest(Frames)
          /\ \E tables \in [KernelTop -> Frames \ {root}] :
                /\ \A i, j \in KernelTop : i < j <=> tables[i] < tables[j]
                /\ \A i \in KernelTop : tables[i] <= Cardinality(KernelTop) + root
                /\ mem = [f \in Frames |->
                            IF f = root THEN BootRoot(root, tables)
                            ELSE IF \E i \in KernelTop : f = tables[i]
                            THEN EmptyTable ELSE Junk]
                /\ free = Frames \ ({root} \cup {tables[i] : i \in KernelTop})
          /\ roots = {root}
          /\ cr3 = root
    /\ tlb = Absent
    /\ halted = FALSE

-----------------------------------------------------------------------------

(* get_pl4 and its fellows reach the tables through the fractal index of   *)
(* the root in cr3.                                                        *)
Root == mem[cr3][Fractal].to

Follow(m, table, i) ==
    IF table = Absent \/ m[table][i] = Absent THEN Absent ELSE m[table][i].to

Descend(on, table, k) == Follow(on.mem, table, on.page[k])

Walk == INSTANCE Iteration WITH Step <- Descend

Table(m, root, page, level) ==
    Walk!Loop([mem |-> m, page |-> page], root, level - 1)

LeafTable(m, root, page) == Table(m, root, page, Levels)

Leaf(m, root, page) ==
    LET table == LeafTable(m, root, page)
    IN  IF table = Absent THEN Absent ELSE m[table][page[Levels]]

(* The checks at the head of map_page and map_update_page.                 *)
RefusedUserOnly(page, rights) ==
    page[1] \in KernelTop /\ "User_Access" \in rights

Refused(page, rights) ==
    \/ "Writable" \in rights /\ "No_Execute" \notin rights
    \/ page[1] \in KernelTop /\ "User_Access" \in rights

State(m, frames, status) == [mem |-> m, free |-> frames, status |-> status]

Fail(s, error) == State(s.mem, s.free, error)

(* The memory m with an entry of a table replaced. *)
Write(m, table, i, entry) == [m EXCEPT ![table] = [m[table] EXCEPT ![i] = entry]]

(* map_page as an operator on s, a record of memory, free frames and       *)
(* status: tables that are missing on the way are allocated and cleared,   *)
(* and stay when a later one cannot be had.                                *)
AddTable(at, s, k) ==
    LET table == Table(s.mem, at.root, at.page, k)
        f     == Lowest(s.free)
        new   == Entry(f, {"Writable", "User_Access"})
    IN  IF s.status # "Ok" \/ s.mem[table][at.page[k]] # Absent THEN s
        ELSE IF s.free = {} THEN Fail(s, "Error_No_Memory")
        ELSE State([Write(s.mem, table, at.page[k], new) EXCEPT ![f] = EmptyTable],
                   s.free \ {f}, "Ok")

ForLevels == INSTANCE Iteration WITH Step <- AddTable

MapPage(s, root, page, phys, rights) ==
    LET t == ForLevels!Loop([root |-> root, page |-> page], s, Levels - 1)
    IN  IF Refused(page, rights) THEN Fail(s, "Error_Permissions")
        ELSE IF t.status # "Ok" THEN t
        ELSE IF Leaf(t.mem, root, page) # Absent THEN Fail(t, "Error_Present")
        ELSE State(Write(t.mem, LeafTable(t.mem, root, page), page[Levels],
                         Entry(phys, rights)),
                   t.free, "Ok")

(* unmap_page, of a page that is mapped. *)
UnmapPage(s, root, page, free_physical_memory) ==
    LET entry == Leaf(s.mem, root, page)
    IN  IF entry = Absent THEN s
        ELSE State(Write(s.mem, LeafTable(s.mem, root, page), page[Levels], Absent),
                   IF free_physical_memory THEN s.free \cup {entry.to} ELSE s.free,
                   s.status)

(* unmap_range *)
UnmapNth(on, s, k) == UnmapPage(s, on.root, on.range[k], on.free_phys)

ForUnmapped == INSTANCE Iteration WITH Step <- UnmapNth

UnmapPages(s, root, range, count, free_phys) ==
    ForUnmapped!Loop([root |-> root, range |-> range, free_phys |-> free_phys],
                     s, count)

Now == State(mem, free, "Ok")

Becomes(s) == mem' = s.mem /\ free' = s.free /\ UNCHANGED halted

(* invlpg for the pages given. *)
InvalidateNothing(pages) == tlb

Invalidate(pages) ==
    IF tlb # Absent /\ tlb.page \in pages THEN Absent ELSE tlb

-----------------------------------------------------------------------------

(* A page for slab_alloc_helper: physical_alloc and map_page, and a panic  *)
(* when either fails.                                                      *)
AllocPage(page, rights) ==
    /\ ~halted
    /\ LET s == MapPage(State(mem, free \ {Lowest(free)}, "Ok"), Root, page,
                        Lowest(free), rights)
       IN  IF free = {} \/ s.status # "Ok"
           THEN halted' = TRUE /\ UNCHANGED <<mem, free, tlb>>
           ELSE Becomes(s) /\ tlb' = Invalidate({page})
    /\ UNCHANGED <<roots, cr3>>

(* map_range: the count pages mapped before one that fails are unmapped    *)
(* again.                                                                  *)
UndoAllButLast(s, root, range, count) ==
    Fail(UnmapPages(s, root, range, IF count = 0 THEN 0 ELSE count - 1, FALSE),
         "Error_Present")

Undo(s, root, range, count) ==
    Fail(UnmapPages(s, root, range, count, FALSE), "Error_Present")

MapNth(on, s, k) ==
    LET t == MapPage(s, on.root, on.range[k], Device, on.rights)
    IN  IF s.status # "Ok" THEN s
        ELSE IF t.status = "Ok" THEN t
        ELSE Undo(t, on.root, on.range, k - 1)

ForMapped == INSTANCE Iteration WITH Step <- MapNth

MapPages(range, rights) ==
    ForMapped!Loop([root |-> Root, range |-> range, rights |-> rights],
                   Now, Len(range))

MapRange(range, rights) ==
    /\ ~halted
    /\ range[1][1] \in KernelTop
    /\ Becomes(MapPages(range, rights))
    /\ tlb' = Invalidate({range[i] : i \in DOMAIN range})
    /\ UNCHANGED <<roots, cr3>>

(* unmap_range by slab_free_helper, of pages it mapped: RAM is freed,      *)
(* device memory is not.                                                   *)
UnmapRange(range) ==
    /\ ~halted
    /\ \A i \in DOMAIN range : Leaf(mem, Root, range[i]) # Absent
    /\ LET ram == Leaf(mem, Root, range[1]).to # Device
       IN  /\ \A i \in DOMAIN range : (Leaf(mem, Root, range[i]).to # Device) = ram
           /\ Becomes(UnmapPages(Now, Root, range, Len(range), ram))
    /\ tlb' = Invalidate({range[i] : i \in DOMAIN range})
    /\ UNCHANGED <<roots, cr3>>

(* paging_update_range: what was updated before a failure stays updated.   *)
UpdatePage(s, root, page, rights) ==
    LET entry == Leaf(s.mem, root, page)
    IN  IF Refused(page, rights) THEN Fail(s, "Error_Permissions")
        ELSE IF entry = Absent THEN Fail(s, "Error_Absent")
        ELSE State(Write(s.mem, LeafTable(s.mem, root, page), page[Levels],
                         Entry(entry.to, rights)),
                   s.free, "Ok")

UpdateNth(on, s, k) ==
    IF s.status # "Ok" THEN s ELSE UpdatePage(s, on.root, on.range[k], on.rights)

ForUpdated == INSTANCE Iteration WITH Step <- UpdateNth

UpdateRange(range, rights) ==
    /\ ~halted
    /\ Becomes(ForUpdated!Loop([root |-> Root, range |-> range, rights |-> rights],
                               Now, Len(range)))
    /\ tlb' = Invalidate({range[i] : i \in DOMAIN range})
    /\ UNCHANGED <<roots, cr3>>

(* page_table_init: an empty lower half, the kernel half of the current    *)
(* tree, and a fractal index of its own.                                   *)
NewRoot(root, f) ==
    [i \in Indices |->
        IF i \in KernelTop THEN mem[root][i]
        ELSE IF i = Fractal THEN Entry(f, {"Writable", "No_Execute"})
        ELSE Absent]

PageTableInit ==
    /\ ~halted
    /\ Cardinality(roots) < MaxTables
    /\ IF free = {} THEN halted' = TRUE /\ UNCHANGED <<mem, free, roots>>
       ELSE LET f == Lowest(free) IN
            /\ mem' = [mem EXCEPT ![f] = NewRoot(Root, f)]
            /\ free' = free \ {f}
            /\ roots' = roots \cup {f}
            /\ UNCHANGED halted
    /\ UNCHANGED <<cr3, tlb>>

(* page_table_switch: writing cr3 empties the TLB. *)
PageTableSwitch(root) ==
    /\ ~halted
    /\ cr3' = root
    /\ tlb' = Absent
    /\ UNCHANGED <<mem, free, roots, halted>>

(* The frames that the entries at one level of a tree point to, under the  *)
(* given indices of the root.                                              *)
Below(on, tables, k) ==
    LET indices == IF k = 1 THEN on.tops ELSE Low
    IN  {on.mem[l[1]][l[2]].to :
            l \in {e \in tables \X indices : on.mem[e[1]][e[2]] # Absent}}

Down == INSTANCE Iteration WITH Step <- Below

Targets(root, tops, level) == Down!Loop([mem |-> mem, tops |-> tops], {root}, level)

(* page_table_fini of a tree that is not in use: every table and every     *)
(* page of its lower half is freed, and its root.                          *)
FreedShallow(root) ==
    {root} \cup UNION {Targets(root, UserTop, k) : k \in 1 .. Levels - 1}

Freed(root) ==
    {root} \cup UNION {Targets(root, UserTop, k) : k \in 1 .. Levels}

PageTableFini(root) ==
    /\ ~halted
    /\ root # cr3
    /\ mem' = [f \in Frames |-> IF f \in Freed(root) THEN Junk ELSE mem[f]]
    /\ free' = free \cup Freed(root)
    /\ roots' = roots \ {root}
    /\ tlb' = Absent
    /\ UNCHANGED <<cr3, halted>>

(* The CPU caches a translation of the current tree whenever it likes.     *)
Access(page) ==
    /\ ~halted
    /\ Leaf(mem, cr3, page) # Absent
    /\ tlb' = [page |-> page, entry |-> Leaf(mem, cr3, page)]
    /\ UNCHANGED <<mem, free, roots, cr3, halted>>

Next ==
    \/ \E page \in Pages, rights \in Attributes : AllocPage(page, rights)
    \/ \E range \in Ranges, rights \in Attributes :
          MapRange(range, rights) \/ UpdateRange(range, rights)
    \/ \E range \in Ranges : UnmapRange(range)
    \/ PageTableInit
    \/ \E root \in roots : PageTableSwitch(root) \/ PageTableFini(root)
    \/ \E page \in Pages : Access(page)

Spec == Init /\ [][Next]_vars

-----------------------------------------------------------------------------

(* Every tree names itself in its fractal index and has the same kernel    *)
(* half: what one process maps there, all processes see, however many      *)
(* trees are made and dropped in between.                                  *)
KernelHalfShared ==
    \A r, s \in roots :
        /\ mem[r][Fractal].to = r
        /\ \A i \in KernelTop : mem[r][i] = mem[s][i]

Tables ==
    UNION {UNION {Targets(r, UserTop \cup KernelTop, k) : k \in 1 .. Levels - 1} :
                r \in roots}

Links(f) ==
    {l \in (roots \X UserTop) \cup ({cr3} \X KernelTop) \cup (Tables \X Low) :
        mem[l[1]][l[2]] # Absent /\ mem[l[1]][l[2]].to = f}

(* While the machine runs, every frame is free, or a root, or has exactly  *)
(* one entry that points to it: no table or page is in two trees, none is  *)
(* freed while it is linked, none is lost, with page_table_fini and maps   *)
(* that run out of memory half-way.                                        *)
FrameOwnedOnce ==
    /\ TypeOK
    /\ ~halted =>
          \A f \in Frames :
              Cardinality(Links(f)) + Cardinality({f} \cap free)
                + Cardinality({f} \cap roots) = 1

(* Along no path of tables does the CPU get a page that is writable and    *)
(* executable, or a page of the kernel half with user access.              *)
RightsSafe ==
    \A r \in roots, page \in Pages :
        LET path == {mem[Table(mem, r, page, k)][page[k]] : k \in 1 .. Levels}
        IN  Leaf(mem, r, page) # Absent =>
              /\ \/ \E e \in path : "Writable" \notin e.rights
                 \/ \E e \in path : "No_Execute" \in e.rights
              /\ page[1] \in KernelTop =>
                    \E e \in path : "User_Access" \notin e.rights

(* A cached translation is the one in the tables: no step changes an entry *)
(* without invalidating it.                                                *)
TLBCoherent == tlb # Absent => tlb.entry = Leaf(mem, cr3, tlb.page)

(* map_range called now would map all its pages or change no translation,  *)
(* even where it fails at a later page for want of memory or because that  *)
(* page is mapped.                                                         *)
AllOrNothing ==
    \A range \in Ranges, rights \in Attributes :
        LET s == MapPages(range, rights)
        IN  s.status # "Ok" =>
              \A page \in Pages : Leaf(s.mem, Root, page) = Leaf(mem, Root, page)
=============================================================================
