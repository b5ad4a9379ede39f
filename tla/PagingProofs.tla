---------------------------- MODULE PagingProofs ----------------------------
(***************************************************************************)
(* Paging, proved for any number of levels, frames, trees and addresses:   *)
(* the invariant that gives every frame its level (PagingTrees), that each *)
(* operation keeps it, and the properties that follow.                     *)
(*                                                                         *)
(* That the naturals are well-ordered, and the sizes of the empty set and  *)
(* of a singleton, are hypotheses of the lemmas that need them, and are    *)
(* proved at the end.                                                      *)
(***************************************************************************)
EXTENDS PagingWalks, TLAPS

(* The tables that the trees reach are the frames of the table levels. *)
LEMMA TablesAre ==
    ASSUME WellOrdered, NEW L, NEW U, Tree(mem, free, roots, L, U, {})
    PROVE  \A x : x \in Tables <=> x \in Frames /\ L[x] \in 2 .. Levels
<1> DEFINE T(r, k) == Targets(r, Tops, k)
           Fine(k) == \A x : (\E r \in roots : x \in T(r, k)) <=> x \in Frames /\ L[x] = k + 1
           S == {k \in 0 .. Levels - 1 : Fine(k)}
<1>1. /\ Levels \in Nat /\ Levels >= 2 /\ Levels - 1 \in Nat /\ roots \in SUBSET Frames
      /\ Tops \subseteq Indices /\ Low \subseteq Indices
      /\ L \in [Frames -> 0 .. Levels + 1]
      /\ \A f \in Frames : L[f] = 1 <=> f \in roots
  BY LevelsAre DEF Tree, Typed, Leveled
<1>2. \A r \in roots : T(r, 0) = {r}
  BY Zenon, TargetsRoot
<1>3. \A r \in roots : \A k \in Nat : \A x : x \in T(r, k + 1) <=>
            \E t \in T(r, k), i \in Rung(Tops, k + 1) : mem[t][i] # Absent /\ mem[t][i].to = x
  BY TargetsNext
<1> DEFINE Under(r) == UNION {T(r, k) : k \in 1 .. Levels - 1}
<1>4. Tables = UNION {Under(r) : r \in roots}
  BY Zenon DEF Tables, Tops
<1> HIDE DEF T
<1>a. \A r, x : x \in Under(r) <=> \E k \in 1 .. Levels - 1 : x \in T(r, k)
  BY Zenon
<1> HIDE DEF Under
<1>b. \A x : x \in Tables <=> \E r \in roots, k \in 1 .. Levels - 1 : x \in T(r, k)
  BY Zenon, <1>4, <1>a
<1>5. 0 \in S
  BY <1>1, <1>2
<1>6. ASSUME NEW k \in 0 .. Levels - 1, k \in S, k # Levels - 1
      PROVE  k + 1 \in S
  <2>1. k \in Nat /\ k + 1 \in 0 .. Levels - 1 /\ k + 1 < Levels /\ Fine(k)
    BY <1>1, <1>6
  <2>2. \A t \in Frames, i \in Indices :
          L[t] = k + 1 => (Live(roots, L, t, i) <=> i \in Rung(Tops, k + 1))
    BY <1>1, <2>1 DEF Live, Rung
  <2>3. Rung(Tops, k + 1) \subseteq Indices
    BY Zenon, <1>1 DEF Rung
  <2>4. ASSUME NEW x, NEW r \in roots, x \in T(r, k + 1)
        PROVE  x \in Frames /\ L[x] = (k + 1) + 1
    <3>1. PICK t \in T(r, k), i \in Rung(Tops, k + 1) : mem[t][i] # Absent /\ mem[t][i].to = x
      BY <1>3, <2>1, <2>4
    <3>2. t \in Frames /\ L[t] = k + 1 /\ i \in Indices /\ Live(roots, L, t, i)
      BY Zenon, <2>1, <2>2, <2>3, <3>1
    <3> QED
      BY <1>1, <2>1, <3>1, <3>2 DEF Tree, Leads
  <2>5. ASSUME NEW x \in Frames, L[x] = (k + 1) + 1
        PROVE  \E r \in roots : x \in T(r, k + 1)
    <3>1. L[x] >= 2
      BY <2>1, <2>5
    <3>2. PICK t \in Frames, i \in Indices :
            Live(roots, L, t, i) /\ mem[t][i] # Absent /\ mem[t][i].to = x
      BY Zenon, <3>1 DEF Tree, Owned
    <3>3. L[t] = k + 1
      BY <1>1, <2>1, <2>5, <3>2, DeviceIs DEF Tree, Leads
    <3>4. PICK r \in roots : t \in T(r, k)
      BY Zenon, <2>1, <3>3
    <3> QED
      BY Zenon, <1>3, <2>1, <2>2, <3>2, <3>3, <3>4
  <2>6. Fine(k + 1)
    BY Zenon, <2>4, <2>5
  <2> QED
    BY Zenon, <2>1, <2>6
<1>7. \A k \in 0 .. Levels - 1 : k \in S
  <2> HIDE DEF S
  <2> QED
    BY Zenon, <1>1, <1>5, <1>6, Induction
<1>8. \A k \in 1 .. Levels - 1 : Fine(k)
  BY <1>1, <1>7
<1>9. ASSUME NEW x, x \in Tables
      PROVE  x \in Frames /\ L[x] \in 2 .. Levels
  BY <1>1, <1>8, <1>9, <1>b
<1>10. ASSUME NEW x \in Frames, L[x] \in 2 .. Levels
       PROVE  x \in Tables
  <2>1. L[x] - 1 \in 1 .. Levels - 1 /\ (L[x] - 1) + 1 = L[x]
    BY <1>1, <1>10
  <2> QED
    BY <1>8, <1>b, <2>1
<1> QED
  BY Zenon, <1>9, <1>10

(* The entries that are counted as links are live. *)
LEMMA LinksAre ==
    ASSUME WellOrdered, NEW L, NEW U, Tree(mem, free, roots, L, U, {}), cr3 \in roots,
           NEW f \in Frames
    PROVE  \A g, i : <<g, i>> \in Links(f) <=>
              /\ g \in Frames /\ i \in Indices /\ Live(roots, L, g, i)
              /\ g \in roots /\ i \in KernelTop => g = cr3
              /\ mem[g][i] # Absent /\ mem[g][i].to = f
<1>1. /\ Levels \in Nat /\ roots \in SUBSET Frames
      /\ Tops \subseteq Indices /\ Low \subseteq Indices
      /\ L \in [Frames -> 0 .. Levels + 1]
      /\ \A g \in Frames : L[g] = 1 <=> g \in roots
      /\ UserTop \cap KernelTop = {}
  BY Zenon, LevelsAre, PagingAssumption DEF Tree, Typed, Leveled
<1>2. \A g : g \in Tables <=> g \in Frames /\ L[g] \in 2 .. Levels
  BY Zenon, TablesAre
<1>3. \A g, i : <<g, i>> \in Links(f) <=>
        /\ \/ g \in roots /\ i \in UserTop
           \/ g = cr3 /\ i \in KernelTop
           \/ g \in Tables /\ i \in Low
        /\ mem[g][i] # Absent /\ mem[g][i].to = f
  <2> SUFFICES ASSUME NEW g, NEW i
               PROVE  <<g, i>> \in Links(f) <=>
                        /\ \/ g \in roots /\ i \in UserTop
                           \/ g = cr3 /\ i \in KernelTop
                           \/ g \in Tables /\ i \in Low
                        /\ mem[g][i] # Absent /\ mem[g][i].to = f
    BY Zenon
  <2>1. <<g, i>>[1] = g /\ <<g, i>>[2] = i
    BY Zenon
  <2> QED
    BY Zenon, <2>1 DEF Links
<1>4. ASSUME NEW g, NEW i
      PROVE  (g \in roots /\ i \in UserTop) \/ (g = cr3 /\ i \in KernelTop)
               \/ (g \in Tables /\ i \in Low)
             <=> /\ g \in Frames /\ i \in Indices /\ Live(roots, L, g, i)
                 /\ g \in roots /\ i \in KernelTop => g = cr3
  <2>1. g \in Frames /\ L[g] \in 2 .. Levels => g \notin roots
    BY <1>1
  <2>2. Live(roots, L, g, i) <=>
           (g \in roots /\ (i \in UserTop \/ i \in KernelTop))
             \/ (L[g] \in 2 .. Levels /\ i \in Low)
    BY Zenon DEF Live, Tops
  <2>3. i \in UserTop \/ i \in KernelTop \/ i \in Low => i \in Indices
    BY Zenon, <1>1 DEF Tops
  <2>4. ~ (i \in UserTop /\ i \in KernelTop)
    BY Zenon, <1>1
  <2>5. g \in roots => g \in Frames
    BY Zenon, <1>1
  <2>6. g \in Tables <=> g \in Frames /\ L[g] \in 2 .. Levels
    BY Zenon, <1>2
  <2> QED
    BY <2>1, <2>2, <2>3, <2>4, <2>5, <2>6
<1> QED
  BY Zenon, <1>3, <1>4

LEMMA LinkIsPair ==
    ASSUME NEW f, NEW l \in Links(f)
    PROVE  \E g, i : l = <<g, i>>
<1>1. l \in (roots \X UserTop) \cup ({cr3} \X KernelTop) \cup (Tables \X Low)
  BY Zenon DEF Links
<1>2. CASE l \in roots \X UserTop
  BY <1>2
<1>3. CASE l \in {cr3} \X KernelTop
  BY <1>3
<1>4. CASE l \in Tables \X Low
  <2> HIDE DEF Tables
  <2> QED
    BY <1>4
<1> QED
  BY Zenon, <1>1, <1>2, <1>3, <1>4

Counts == Cardinality({}) = 0 /\ \A x : Cardinality({x}) = 1

LEMMA OwnedOnce ==
    ASSUME WellOrdered, Counts, NEW L, NEW U, Tree(mem, free, roots, L, U, {}), cr3 \in roots,
           NEW f \in Frames
    PROVE  Cardinality(Links(f)) + Cardinality({f} \cap free)
             + Cardinality({f} \cap roots) = 1
<1>1. /\ Levels \in Nat /\ roots \in SUBSET Frames
      /\ L \in [Frames -> 0 .. Levels + 1]
      /\ L[f] = 0 <=> f \in free
      /\ L[f] = 1 <=> f \in roots
      /\ \A g \in Frames : L[g] = 1 <=> g \in roots
  BY Zenon, LevelsAre DEF Tree, Typed, Leveled
<1>2. \A g, i : <<g, i>> \in Links(f) <=>
        /\ g \in Frames /\ i \in Indices /\ Live(roots, L, g, i)
        /\ g \in roots /\ i \in KernelTop => g = cr3
        /\ mem[g][i] # Absent /\ mem[g][i].to = f
  BY Zenon, LinksAre
<1>3. \A l \in Links(f) : \E g, i : l = <<g, i>>
  BY Zenon, LinkIsPair
<1>4. Cardinality({}) = 0 /\ \A x : Cardinality({x}) = 1
  BY Zenon DEF Counts
<1>5. /\ f \in free => {f} \cap free = {f}
      /\ f \notin free => {f} \cap free = {}
      /\ f \in roots => {f} \cap roots = {f}
      /\ f \notin roots => {f} \cap roots = {}
  BY Zenon
<1>6. CASE L[f] < 2
  <2>1. Links(f) = {}
    <3>1. ASSUME NEW g, NEW i, <<g, i>> \in Links(f)
          PROVE  FALSE
      <4>1. g \in Frames /\ i \in Indices /\ Live(roots, L, g, i) /\ mem[g][i] # Absent
              /\ mem[g][i].to = f
        BY Zenon, <1>2, <3>1
      <4>2. L[f] = L[g] + 1
        BY Zenon, <4>1, DeviceIs DEF Tree, Leads
      <4>3. L[g] \in Nat /\ L[g] >= 1
        BY <1>1, <4>1 DEF Live
      <4> QED
        BY <1>6, <4>2, <4>3
    <3> QED
      BY <1>3, <3>1
  <2>2. (L[f] = 0 /\ L[f] # 1) \/ (L[f] = 1 /\ L[f] # 0)
    BY <1>1, <1>6
  <2>3. CASE f \in free /\ f \notin roots
    <3>1. /\ Cardinality(Links(f)) = 0 /\ Cardinality({f} \cap free) = 1
          /\ Cardinality({f} \cap roots) = 0
      BY Zenon, <1>4, <1>5, <2>1, <2>3
    <3> QED
      BY <3>1
  <2>4. CASE f \in roots /\ f \notin free
    <3>1. /\ Cardinality(Links(f)) = 0 /\ Cardinality({f} \cap free) = 0
          /\ Cardinality({f} \cap roots) = 1
      BY Zenon, <1>4, <1>5, <2>1, <2>4
    <3> QED
      BY <3>1
  <2> QED
    BY Zenon, <1>1, <2>2, <2>3, <2>4
<1>7. CASE L[f] >= 2
  <2>1. f \notin free /\ f \notin roots
    BY <1>1, <1>7
  <2>2. PICK h \in Frames, i \in Indices :
          Live(roots, L, h, i) /\ mem[h][i] # Absent /\ mem[h][i].to = f
    BY Zenon, <1>7 DEF Tree, Owned
  <2> DEFINE g == IF h \in roots /\ i \in KernelTop THEN cr3 ELSE h
  <2>3. /\ g \in Frames /\ Live(roots, L, g, i) /\ mem[g][i] # Absent /\ mem[g][i].to = f
        /\ g \in roots /\ i \in KernelTop => g = cr3
    BY <1>1, <2>2 DEF Live, Tops, Tree, Shared
  <2> HIDE DEF g
  <2>4. <<g, i>> \in Links(f)
    BY Zenon, <1>2, <2>3
  <2>5. ASSUME NEW k, NEW j, <<k, j>> \in Links(f)
        PROVE  k = g /\ j = i
    <3>1. /\ k \in Frames /\ j \in Indices /\ Live(roots, L, k, j)
          /\ k \in roots /\ j \in KernelTop => k = cr3
          /\ mem[k][j] # Absent /\ mem[k][j].to = f
      BY Zenon, <1>2, <2>5
    <3>2. j = i /\ (k = g \/ (k \in roots /\ g \in roots /\ j \in KernelTop))
      BY <2>3, <3>1 DEF Tree, Once
    <3> QED
      BY Zenon, <2>3, <3>1, <3>2
  <2>6. Links(f) = {<<g, i>>}
    BY <1>3, <2>4, <2>5
  <2>7. /\ Cardinality(Links(f)) = 1 /\ Cardinality({f} \cap free) = 0
        /\ Cardinality({f} \cap roots) = 0
    BY Zenon, <1>4, <1>5, <2>1, <2>6
  <2> QED
    BY <2>7
<1> QED
  BY <1>1, <1>6, <1>7

-----------------------------------------------------------------------------

(* The inductive invariant. *)
Inv ==
    /\ Forest(mem, free, roots, {})
    /\ cr3 \in roots
    /\ tlb \in [page : Pages, entry : Entries] \cup {Absent}
    /\ halted \in BOOLEAN
    /\ TLBCoherent

LEMMA RangeIs ==
    ASSUME NEW range \in Ranges
    PROVE  /\ Len(range) \in Nat /\ Len(range) >= 1 /\ DOMAIN range = 1 .. Len(range)
           /\ \A k \in 1 .. Len(range) : range[k] \in Address
           /\ range[1][1] \in KernelTop =>
                 \A k \in 1 .. Len(range) : range[k][1] \in KernelTop
<1> DEFINE Under(tops) == {page \in [1 .. Levels -> Indices] :
                            page[1] \in tops /\ \A k \in 2 .. Levels : page[k] \in Low}
<1>1. PICK tops \in {UserTop, KernelTop} : range \in Seq(Under(tops))
  BY Zenon, PagingAssumption
<1>2. range # <<>> /\ UserTop \cap KernelTop = {}
  BY Zenon, PagingAssumption
<1>3. Under(tops) \subseteq Address /\ \A page \in Under(tops) : page[1] \in tops
  BY Zenon DEF Address, Tops
<1> HIDE DEF Under
<1>4. /\ Len(range) \in Nat /\ DOMAIN range = 1 .. Len(range)
      /\ \A k \in 1 .. Len(range) : range[k] \in Under(tops)
  BY <1>1
<1>5. Len(range) >= 1
  BY <1>1, <1>2
<1>6. 1 \in 1 .. Len(range)
  BY <1>4, <1>5
<1> QED
  BY Zenon, <1>2, <1>3, <1>4, <1>5, <1>6

LEMMA PagesAre == Pages \subseteq Address
<1> SUFFICES ASSUME NEW page \in Pages
             PROVE  page \in Address
  BY Zenon
<1>1. PICK range \in Ranges : page \in {range[i] : i \in DOMAIN range}
  BY Zenon DEF Pages
<1>2. PICK i \in DOMAIN range : page = range[i]
  BY Zenon, <1>1
<1> QED
  BY Zenon, <1>2, RangeIs

LEMMA RootIs ==
    ASSUME Inv
    PROVE  Root = cr3
BY Zenon DEF Inv, Forest, Tree, Shared, Root

(* A step that changes translations of the current tree and invalidates    *)
(* them.                                                                   *)
LEMMA StepKeeps ==
    ASSUME Inv, NEW m, NEW fr, Forest(m, fr, roots, {}), mem' = m, free' = fr,
           NEW pages, \A q \in Address : q \notin pages => Leaf(m, cr3, q) = Leaf(mem, cr3, q),
           tlb' = Invalidate(pages), halted' = halted, roots' = roots, cr3' = cr3
    PROVE  Inv'
<1>1. Forest(mem', free', roots', {})
  BY Zenon
<1>2. tlb' \in [page : Pages, entry : Entries] \cup {Absent}
  BY Zenon DEF Inv, Invalidate
<1>3. TLBCoherent'
  <2> SUFFICES ASSUME tlb' # Absent
               PROVE  tlb'.entry = Leaf(mem', cr3', tlb'.page)
    BY Zenon DEF TLBCoherent
  <2>1. tlb' = tlb /\ tlb # Absent /\ tlb.page \notin pages
    BY Zenon DEF Invalidate
  <2>2. tlb.page \in Address
    BY Zenon, <2>1, PagesAre DEF Inv
  <2>3. tlb.entry = Leaf(mem, cr3, tlb.page)
    BY Zenon, <2>1 DEF Inv, TLBCoherent
  <2> QED
    BY Zenon, <2>1, <2>2, <2>3
<1> QED
  BY Zenon, <1>1, <1>2, <1>3 DEF Inv

(* A step that changes no table and no cached translation. *)
LEMMA StutterKeeps ==
    ASSUME Inv, UNCHANGED <<mem, free, tlb>>, roots' = roots, cr3' = cr3, halted' \in BOOLEAN
    PROVE  Inv'
BY Zenon DEF Inv, TLBCoherent

LEMMA InvAllocPage ==
    ASSUME WellOrdered, Inv, NEW page \in Pages, NEW rights \in Attributes, AllocPage(page, rights)
    PROVE  Inv'
<1> DEFINE f == Lowest(free)
           s == State(mem, free \ {f}, "Ok")
           u == MapPage(s, cr3, page, f, rights)
<1>1. page \in Address /\ rights \in SUBSET Rights /\ cr3 \in roots
  BY Zenon, PagesAre, PagingAssumption DEF Inv
<1>2. /\ roots' = roots /\ cr3' = cr3
      /\ IF free = {} \/ u.status # "Ok"
         THEN halted' = TRUE /\ UNCHANGED <<mem, free, tlb>>
         ELSE Becomes(u) /\ tlb' = Invalidate({page})
  BY Zenon, RootIs DEF AllocPage
<1>3. CASE free = {} \/ u.status # "Ok"
  <2>1. UNCHANGED <<mem, free, tlb>> /\ halted' \in BOOLEAN
    BY Zenon, <1>2, <1>3
  <2> QED
    BY Zenon, <1>2, <2>1, StutterKeeps
<1>4. CASE free # {} /\ u.status = "Ok"
  <2>1. PICK L, U : Tree(mem, free, roots, L, U, {})
    BY Zenon DEF Inv, Forest
  <2>2. free \in SUBSET Frames
    BY Zenon, <2>1 DEF Tree, Typed
  <2>3. f \in free /\ f \in Frames
    BY Zenon, <1>4, <2>2, LowestIs
  <2> HIDE DEF f
  <2>4. Forest(mem, free \ {f}, roots, {f})
    <3> DEFINE M == [L EXCEPT ![f] = Levels + 1]
    <3>1. Tree(mem, free \ {f}, roots, M, U, {f})
      BY Zenon, <2>1, <2>3, TakeKeeps
    <3> HIDE DEF M
    <3> QED
      BY Zenon, <3>1 DEF Forest
  <2>5. s.mem = mem /\ s.free = free \ {f}
    BY Zenon DEF State
  <2> HIDE DEF s
  <2>6. /\ Forest(u.mem, u.free, roots, {f} \ (Frames \cap {f}))
        /\ ViewWith(mem, u.mem, cr3, page, Entry(f, rights))
    <3>1. Forest(s.mem, s.free, roots, {f}) /\ f \in {f}
      BY Zenon, <2>4, <2>5
    <3> DEFINE P == {f}
    <3> HIDE DEF P
    <3>2. Forest(s.mem, s.free, roots, P) /\ f \in P
      BY Zenon, <3>1 DEF P
    <3>3. IF u.status = "Ok"
          THEN /\ Forest(u.mem, u.free, roots, P \ (Frames \cap {f}))
               /\ Leaf(s.mem, cr3, page) = Absent
               /\ ViewWith(s.mem, u.mem, cr3, page, Entry(f, rights))
          ELSE Forest(u.mem, u.free, roots, P) /\ SameView(s.mem, u.mem, cr3)
      BY Zenon, <1>1, <3>2, MapPageKeeps
    <3> HIDE DEF u
    <3> QED
      BY Zenon, <1>4, <2>5, <3>3 DEF P
  <2>7. {f} \ (Frames \cap {f}) = {}
    BY Zenon, <2>3
  <2>8. Becomes(u) /\ tlb' = Invalidate({page})
    BY Zenon, <1>2, <1>4
  <2> HIDE DEF u
  <2>9. /\ Forest(u.mem, u.free, roots, {})
        /\ mem' = u.mem /\ free' = u.free /\ halted' = halted
    BY Zenon, <2>6, <2>7, <2>8 DEF Becomes
  <2>10. \A q \in Address : q \notin {page} => Leaf(u.mem, cr3, q) = Leaf(mem, cr3, q)
    BY Zenon, <2>6 DEF ViewWith
  <2> DEFINE pages == {page}
  <2>11. /\ \A q \in Address : q \notin pages => Leaf(u.mem, cr3, q) = Leaf(mem, cr3, q)
         /\ tlb' = Invalidate(pages)
    BY Zenon, <2>8, <2>10
  <2> HIDE DEF pages
  <2> QED
    BY <1>2, <2>9, <2>11, StepKeeps
<1> QED
  BY Zenon, <1>3, <1>4

LEMMA InvMapRange ==
    ASSUME WellOrdered, Inv, NEW range \in Ranges, NEW rights \in Attributes,
           MapRange(range, rights)
    PROVE  Inv'
<1> DEFINE u == ForMapped!Loop([root |-> cr3, range |-> range, rights |-> rights], Now, Len(range))
           pages == {range[i] : i \in DOMAIN range}
<1>1. /\ Len(range) \in Nat /\ DOMAIN range = 1 .. Len(range)
      /\ \A k \in 1 .. Len(range) : range[k] \in Address
      /\ \A k \in 1 .. Len(range) : range[k][1] \in KernelTop
  BY Zenon, RangeIs DEF MapRange
<1>2. rights \in SUBSET Rights /\ cr3 \in roots
  BY Zenon, PagingAssumption DEF Inv
<1>3. Now.mem = mem /\ Now.free = free /\ Now.status = "Ok"
  BY Zenon DEF Now, State
<1>4. Forest(Now.mem, Now.free, roots, {})
  BY Zenon, <1>3 DEF Inv
<1>5. /\ roots' = roots /\ cr3' = cr3 /\ tlb' = Invalidate(pages)
      /\ mem' = u.mem /\ free' = u.free /\ halted' = halted
  BY Zenon, RootIs DEF MapRange, MapPages, Becomes
<1>6. /\ Forest(u.mem, u.free, roots, {})
      /\ IF u.status = "Ok"
         THEN Over(Now.mem, u.mem, cr3, range, Len(range), Entry(Device, rights))
         ELSE SameView(Now.mem, u.mem, cr3)
  <2> DEFINE P == {}
  <2> HIDE DEF P
  <2>1. Forest(Now.mem, Now.free, roots, P)
    BY Zenon, <1>4 DEF P
  <2>2. /\ Forest(u.mem, u.free, roots, P)
        /\ IF u.status = "Ok"
           THEN Over(Now.mem, u.mem, cr3, range, Len(range), Entry(Device, rights))
           ELSE SameView(Now.mem, u.mem, cr3)
    BY ZenonT(30), <1>1, <1>2, <1>3, <2>1, MapPagesKeep
  <2> HIDE DEF u
  <2> QED
    BY Zenon, <2>2 DEF P
<1> HIDE DEF u
<1>7. \A q \in Address : q \notin pages => Leaf(u.mem, cr3, q) = Leaf(mem, cr3, q)
  <2>1. \A q : q \notin pages => ~ \E j \in 1 .. Len(range) : q = range[j]
    BY Zenon, <1>1
  <2> QED
    BY Zenon, <1>3, <1>6, <2>1 DEF Over, SameView
<1> HIDE DEF pages
<1> QED
  BY <1>5, <1>6, <1>7, StepKeeps

LEMMA InvUnmapRange ==
    ASSUME WellOrdered, Inv, NEW range \in Ranges, UnmapRange(range)
    PROVE  Inv'
<1> DEFINE ram == Leaf(mem, cr3, range[1]).to # Device
           u == UnmapPages(Now, cr3, range, Len(range), ram)
           pages == {range[i] : i \in DOMAIN range}
<1>1. /\ Len(range) \in Nat /\ DOMAIN range = 1 .. Len(range)
      /\ \A k \in 1 .. Len(range) : range[k] \in Address
  BY Zenon, RangeIs
<1>2. ram \in BOOLEAN /\ cr3 \in roots
  BY Zenon DEF Inv
<1>3. Now.mem = mem /\ Now.free = free
  BY Zenon DEF Now, State
<1>4. Forest(Now.mem, Now.free, roots, {})
  BY Zenon, <1>3 DEF Inv
<1>5. /\ roots' = roots /\ cr3' = cr3 /\ tlb' = Invalidate(pages)
      /\ mem' = u.mem /\ free' = u.free /\ halted' = halted
      /\ \A i \in DOMAIN range : /\ Leaf(mem, cr3, range[i]) # Absent
                                 /\ (Leaf(mem, cr3, range[i]).to # Device) = ram
  BY Zenon, RootIs DEF UnmapRange, Becomes
<1> HIDE DEF ram
<1>6. \A k \in 1 .. Len(range) :
        Leaf(Now.mem, cr3, range[k]) # Absent =>
           Leaf(Now.mem, cr3, range[k]).to \in (IF ram THEN Frames ELSE {Device})
  <2> SUFFICES ASSUME NEW k \in 1 .. Len(range)
               PROVE  Leaf(mem, cr3, range[k]).to \in (IF ram THEN Frames ELSE {Device})
    BY Zenon, <1>3
  <2>1. Leaf(mem, cr3, range[k]).to \in Frames \cup {Device}
    BY <1>1, <1>2, <1>5, LeafIs, EntryIs DEF Inv
  <2> QED
    BY <1>1, <1>2, <1>5, <2>1
<1>7. Forest(u.mem, u.free, roots, {}) /\ Over(Now.mem, u.mem, cr3, range, Len(range), Absent)
  <2> DEFINE P == {}
  <2> HIDE DEF P
  <2>1. Forest(Now.mem, Now.free, roots, P)
    BY Zenon, <1>4 DEF P
  <2>2. Forest(u.mem, u.free, roots, P) /\ Over(Now.mem, u.mem, cr3, range, Len(range), Absent)
    BY ZenonT(30), <1>1, <1>2, <1>6, <2>1, UnmapPagesKeep
  <2> HIDE DEF u
  <2> QED
    BY Zenon, <2>2 DEF P
<1> HIDE DEF u
<1>8. \A q \in Address : q \notin pages => Leaf(u.mem, cr3, q) = Leaf(mem, cr3, q)
  <2>1. \A q : q \notin pages => ~ \E j \in 1 .. Len(range) : q = range[j]
    BY Zenon, <1>1
  <2> QED
    BY Zenon, <1>3, <1>7, <2>1 DEF Over
<1> HIDE DEF pages
<1> QED
  BY <1>5, <1>7, <1>8, StepKeeps

LEMMA InvUpdateRange ==
    ASSUME WellOrdered, Inv, NEW range \in Ranges, NEW rights \in Attributes,
           UpdateRange(range, rights)
    PROVE  Inv'
<1> DEFINE u == ForUpdated!Loop([root |-> cr3, range |-> range, rights |-> rights], Now, Len(range))
           pages == {range[i] : i \in DOMAIN range}
<1>1. /\ Len(range) \in Nat /\ DOMAIN range = 1 .. Len(range)
      /\ \A k \in 1 .. Len(range) : range[k] \in Address
  BY Zenon, RangeIs
<1>2. rights \in SUBSET Rights /\ cr3 \in roots
  BY PagingAssumption DEF Inv
<1>3. Now.mem = mem /\ Now.free = free
  BY Zenon DEF Now, State
<1>4. Forest(Now.mem, Now.free, roots, {})
  BY Zenon, <1>3 DEF Inv
<1>5. /\ roots' = roots /\ cr3' = cr3 /\ tlb' = Invalidate(pages)
      /\ mem' = u.mem /\ free' = u.free /\ halted' = halted
  BY Zenon, RootIs DEF UpdateRange, Becomes
<1>6. /\ Forest(u.mem, u.free, roots, {})
      /\ Outside(Now.mem, u.mem, cr3, range, Len(range))
  <2> DEFINE P == {}
  <2> HIDE DEF P
  <2>1. Forest(Now.mem, Now.free, roots, P)
    BY <1>4 DEF P
  <2>2. Forest(u.mem, u.free, roots, P) /\ Outside(Now.mem, u.mem, cr3, range, Len(range))
    BY Zenon, <1>1, <1>2, <2>1, UpdatesKeep
  <2> HIDE DEF u
  <2> QED
    BY Zenon, <2>2 DEF P
<1> HIDE DEF u
<1>7. \A q \in Address : q \notin pages => Leaf(u.mem, cr3, q) = Leaf(mem, cr3, q)
  <2>1. \A q : q \notin pages => \A j \in 1 .. Len(range) : q # range[j]
    BY Zenon, <1>1
  <2> QED
    BY Zenon, <1>3, <1>6, <2>1 DEF Outside
<1> HIDE DEF pages
<1> QED
  BY Zenon, <1>5, <1>6, <1>7, StepKeeps

LEMMA InvPageTableInit ==
    ASSUME WellOrdered, Inv, PageTableInit
    PROVE  Inv'
<1> DEFINE f == Lowest(free)
           n == [mem EXCEPT ![f] = NewRoot(cr3, f)]
<1>1. /\ cr3' = cr3 /\ tlb' = tlb
      /\ IF free = {} THEN halted' = TRUE /\ UNCHANGED <<mem, free, roots>>
         ELSE /\ mem' = n /\ free' = free \ {f} /\ roots' = roots \cup {f}
              /\ halted' = halted
  BY Zenon, RootIs DEF PageTableInit
<1>2. CASE free = {}
  <2>1. /\ UNCHANGED <<mem, free, tlb>> /\ roots' = roots /\ cr3' = cr3
        /\ halted' \in BOOLEAN
    BY Zenon, <1>1, <1>2
  <2> QED
    BY Zenon, <2>1, StutterKeeps
<1>3. CASE free # {}
  <2>1. PICK L, U : Tree(mem, free, roots, L, U, {})
    BY Zenon DEF Inv, Forest
  <2>2. /\ mem \in Memory /\ free \in SUBSET Frames /\ cr3 \in roots
        /\ Levels \in 1 .. Levels /\ \A g \in Frames : L[g] = 0 <=> g \in free
    BY <2>1, LevelsAre DEF Tree, Typed, Memory, Leveled, Inv
  <2>3. f \in free /\ f \in Frames
    BY Zenon, <1>3, <2>2, LowestIs
  <2> HIDE DEF f
  <2>4. Forest(n, free \ {f}, roots \cup {f}, {})
    <3> DEFINE M == [L EXCEPT ![f] = 1]
    <3>1. Tree(n, free \ {f}, roots \cup {f}, M, U, {})
      BY Zenon, <2>1, <2>2, <2>3, RootKeeps
    <3> HIDE DEF M, n
    <3> QED
      BY Zenon, <3>1 DEF Forest
  <2>5. \A g \in Frames : g # f => n[g] = mem[g]
    BY Zenon, <2>2 DEF Memory
  <2> HIDE DEF n
  <2>6. \A page \in Address : Leaf(n, cr3, page) = Leaf(mem, cr3, page)
    <3> SUFFICES ASSUME NEW page \in Address
                 PROVE  Leaf(n, cr3, page) = Leaf(mem, cr3, page)
      BY Zenon
    <3>1. \A g \in Frames, j \in Indices : L[g] \in 1 .. Levels - 1 => n[g][j] = mem[g][j]
      <4>1. L[f] = 0
        BY Zenon, <2>2, <2>3
      <4> QED
        BY <2>5, <4>1
    <3>2. \A k \in 1 .. Levels : Table(n, cr3, page, k) = Table(mem, cr3, page, k)
      BY <2>1, <2>2, <3>1, WalkSame
    <3>3. LeafTable(n, cr3, page) = LeafTable(mem, cr3, page)
      BY Zenon, <2>2, <3>2 DEF LeafTable
    <3>4. LeafTable(mem, cr3, page) # Absent =>
             LeafTable(mem, cr3, page) \in Frames /\ L[LeafTable(mem, cr3, page)] = Levels
      BY <2>1, <2>2, WalkIs DEF LeafTable
    <3>5. Levels # 0
      BY LevelsAre
    <3> QED
      BY Zenon, <2>2, <2>3, <2>5, <3>3, <3>4, <3>5 DEF Leaf
  <2>7. mem' = n /\ free' = free \ {f} /\ roots' = roots \cup {f} /\ halted' = halted
    BY Zenon, <1>1, <1>3
  <2>8. TLBCoherent'
    <3>1. tlb # Absent => tlb.page \in Address
      BY Zenon, PagesAre DEF Inv
    <3> QED
      BY Zenon, <1>1, <2>6, <2>7, <3>1 DEF Inv, TLBCoherent
  <2> QED
    BY Zenon, <1>1, <2>4, <2>7, <2>8 DEF Inv
<1> QED
  BY Zenon, <1>2, <1>3

LEMMA InvPageTableFini ==
    ASSUME WellOrdered, Inv, NEW r \in roots, PageTableFini(r)
    PROVE  Inv'
<1> DEFINE F == Freed(r)
           n == [f \in Frames |-> IF f \in F THEN Junk ELSE mem[f]]
<1>1. /\ cr3 # r /\ cr3 \in roots /\ cr3' = cr3 /\ mem' = n /\ free' = free \cup F
      /\ roots' = roots \ {r} /\ tlb' = Absent /\ halted' = halted
  BY Zenon DEF PageTableFini, Inv
<1>2. PICK L, U : Tree(mem, free, roots, L, U, {})
  BY Zenon DEF Inv, Forest
<1> DEFINE M == [f \in Frames |-> IF f \in F THEN 0 ELSE L[f]]
           V == U \ F
<1>3. Tree(n, free \cup F, roots \ {r}, M, V, {})
  BY Zenon, <1>1, <1>2, FiniKeeps
<1> HIDE DEF F, n, M, V
<1>4. Forest(mem', free', roots', {})
  BY Zenon, <1>1, <1>3 DEF Forest
<1> QED
  BY Zenon, <1>1, <1>4 DEF Inv, TLBCoherent

LEMMA InvAccess ==
    ASSUME WellOrdered, Inv, NEW page \in Pages, Access(page)
    PROVE  Inv'
<1>1. Leaf(mem, cr3, page) \in Entries
  BY Zenon, PagesAre, LeafIs DEF Access, Inv
<1> DEFINE t == [page |-> page, entry |-> Leaf(mem, cr3, page)]
<1>2. /\ t \in [page : Pages, entry : Entries] /\ t.page = page
      /\ t.entry = Leaf(mem, cr3, page)
  BY Zenon, <1>1
<1>3. /\ tlb' = t /\ mem' = mem /\ free' = free /\ roots' = roots /\ cr3' = cr3
      /\ halted' = halted
  BY Zenon DEF Access
<1> HIDE DEF t
<1> QED
  BY Zenon, <1>2, <1>3 DEF Inv, TLBCoherent

LEMMA InvNext ==
    ASSUME WellOrdered, Inv, [Next]_vars
    PROVE  Inv'
<1>1. CASE \E page \in Pages, rights \in Attributes : AllocPage(page, rights)
  BY Zenon, <1>1, InvAllocPage
<1>2. CASE \E range \in Ranges, rights \in Attributes : MapRange(range, rights)
  BY Zenon, <1>2, InvMapRange
<1>3. CASE \E range \in Ranges, rights \in Attributes : UpdateRange(range, rights)
  BY Zenon, <1>3, InvUpdateRange
<1>4. CASE \E range \in Ranges : UnmapRange(range)
  BY Zenon, <1>4, InvUnmapRange
<1>5. CASE PageTableInit
  BY Zenon, <1>5, InvPageTableInit
<1>6. CASE \E root \in roots : PageTableSwitch(root)
  BY Zenon, <1>6 DEF PageTableSwitch, Inv, TLBCoherent
<1>7. CASE \E root \in roots : PageTableFini(root)
  BY Zenon, <1>7, InvPageTableFini
<1>8. CASE \E page \in Pages : Access(page)
  BY Zenon, <1>8, InvAccess
<1>9. CASE UNCHANGED vars
  BY Zenon, <1>9 DEF vars, Inv, TLBCoherent
<1> QED
  BY <1>1, <1>2, <1>3, <1>4, <1>5, <1>6, <1>7, <1>8, <1>9 DEF Next

LEMMA InvInit ==
    ASSUME Init
    PROVE  Inv
<1>0. PICK root \in Frames :
         /\ \E tables \in [KernelTop -> Frames \ {root}] :
               /\ \A i, j \in KernelTop : i < j <=> tables[i] < tables[j]
               /\ mem = [f \in Frames |->
                           IF f = root THEN BootRoot(root, tables)
                           ELSE IF \E i \in KernelTop : f = tables[i] THEN EmptyTable ELSE Junk]
               /\ free = Frames \ ({root} \cup {tables[i] : i \in KernelTop})
         /\ roots = {root} /\ cr3 = root
  BY DEF Init
<1>1. PICK tables \in [KernelTop -> Frames \ {root}] :
         /\ \A i, j \in KernelTop : i < j <=> tables[i] < tables[j]
         /\ mem = [f \in Frames |->
                     IF f = root THEN BootRoot(root, tables)
                     ELSE IF \E i \in KernelTop : f = tables[i] THEN EmptyTable ELSE Junk]
         /\ free = Frames \ ({root} \cup {tables[i] : i \in KernelTop})
         /\ roots = {root} /\ cr3 = root
  BY Zenon, <1>0
<1>2. tlb = Absent /\ halted = FALSE
  BY Zenon DEF Init
<1> DEFINE B == {tables[i] : i \in KernelTop}
           L == [f \in Frames |-> IF f = root THEN 1 ELSE IF f \in B THEN 2 ELSE 0]
           own == {"Writable", "No_Execute"}
<1>3. /\ Frames \subseteq Nat /\ KernelTop \subseteq Nat /\ UserTop \cap KernelTop = {}
      /\ Levels \in Nat /\ Levels >= 2 /\ Fractal \notin Tops /\ Fractal \in Indices
      /\ Tops \subseteq Indices /\ Low \subseteq Indices
  BY Zenon, PagingAssumption, LevelsAre
<1>4. \A i, j \in KernelTop : tables[i] = tables[j] => i = j
  <2> SUFFICES ASSUME NEW i \in KernelTop, NEW j \in KernelTop, tables[i] = tables[j]
               PROVE  i = j
    BY Zenon
  <2>1. tables[i] \in Nat /\ tables[j] \in Nat /\ i \in Nat /\ j \in Nat
    BY Zenon, <1>3
  <2>2. (i < j <=> tables[i] < tables[j]) /\ (j < i <=> tables[j] < tables[i])
    BY Zenon, <1>1
  <2> QED
    BY <2>1, <2>2
<1>5. /\ \A i \in KernelTop : tables[i] \in Frames /\ tables[i] # root /\ tables[i] \in B
      /\ \A f \in B : f \in Frames /\ f # root /\ \E i \in KernelTop : f = tables[i]
      /\ free = Frames \ ({root} \cup B)
  BY Zenon, <1>1
<1>6. /\ mem \in Memory
      /\ \A i \in Indices : mem[root][i] = BootRoot(root, tables)[i]
      /\ \A f \in B, i \in Indices : mem[f][i] = Absent
  <2>1. Entry(Device, {}) \in Entries /\ own \in SUBSET Rights
    BY Zenon, EntryIs DEF Rights
  <2>2. Junk \in [Indices -> Entries \cup {Absent}]
    BY Zenon, <2>1 DEF Junk
  <2>3. BootRoot(root, tables) \in [Indices -> Entries \cup {Absent}]
    <3>1. \A f \in Frames : Entry(f, own) \in Entries
      BY Zenon, <2>1, EntryIs
    <3> QED
      BY Zenon, <1>5, <3>1 DEF BootRoot
  <2>4. mem \in Memory
    BY Zenon, <1>1, <2>2, <2>3, EmptyIs DEF Memory
  <2>5. mem[root] = BootRoot(root, tables)
    BY Zenon, <1>1
  <2>6. ASSUME NEW f \in B
        PROVE  mem[f] = EmptyTable
    <3>1. f \in Frames /\ f # root /\ \E i \in KernelTop : f = tables[i]
      BY Zenon, <1>5
    <3> HIDE DEF B
    <3> QED
      BY Zenon, <1>1, <3>1
  <2> QED
    BY Zenon, <2>4, <2>5, <2>6, EmptyIs
<1>7. /\ \A i \in KernelTop : /\ mem[root][i] # Absent /\ mem[root][i].to = tables[i]
                              /\ mem[root][i].rights = own
      /\ mem[root][Fractal] # Absent /\ mem[root][Fractal].to = root
      /\ \A i \in UserTop : mem[root][i] = Absent
  <2>1. \A f \in Frames : /\ Entry(f, own) # Absent /\ Entry(f, own).to = f
                          /\ Entry(f, own).rights = own
    BY Zenon, EntryIs DEF Rights
  <2>2. \A i \in Indices : mem[root][i] = IF i \in KernelTop THEN Entry(tables[i], own)
                                         ELSE IF i = Fractal THEN Entry(root, own)
                                         ELSE Absent
    BY Zenon, <1>6 DEF BootRoot
  <2>3. /\ \A i \in KernelTop : i \in Indices
        /\ \A i \in UserTop : i \in Indices /\ i \notin KernelTop /\ i # Fractal
        /\ Fractal \notin KernelTop /\ Fractal \in Indices
    BY Zenon, <1>3 DEF Tops
  <2> HIDE DEF own
  <2>4. \A i \in KernelTop : tables[i] \in Frames
    BY Zenon, <1>5
  <2>5. \A i \in KernelTop : mem[root][i] = Entry(tables[i], own)
    BY Zenon, <2>2, <2>3
  <2>6. mem[root][Fractal] = Entry(root, own) /\ \A i \in UserTop : mem[root][i] = Absent
    BY Zenon, <2>2, <2>3
  <2> QED
    BY <2>1, <2>4, <2>5, <2>6
<1> HIDE DEF B
<1>8. /\ L \in [Frames -> 0 .. Levels + 1] /\ L[root] = 1
      /\ \A f \in B : L[f] = 2
      /\ \A f \in Frames : f # root /\ f \notin B => L[f] = 0
  BY <1>3, <1>5
<1> HIDE DEF L
<1>9. /\ free \in SUBSET Frames /\ \A f \in Frames : f \in free <=> f # root /\ f \notin B
      /\ roots \in SUBSET Frames /\ \A f : f \in roots <=> f = root
  BY Zenon, <1>1, <1>5
<1>10. \A f \in Frames, i \in Indices :
         Live(roots, L, f, i) /\ mem[f][i] # Absent => f = root /\ i \in KernelTop
  <2> SUFFICES ASSUME NEW f \in Frames, NEW i \in Indices, Live(roots, L, f, i),
                      mem[f][i] # Absent
               PROVE  f = root /\ i \in KernelTop
    BY Zenon
  <2>1. CASE f = root
    BY <1>3, <1>7, <1>8, <2>1 DEF Live, Tops
  <2>2. CASE f # root
    BY <1>3, <1>6, <1>8, <1>9, <2>2 DEF Live
  <2> QED
    BY Zenon, <2>1, <2>2
<1>11. \A i \in KernelTop : Live(roots, L, root, i) /\ i \in Indices
  BY Zenon, <1>3, <1>9 DEF Live, Tops
<1>a. Typed(mem, free, roots, L, {}, {})
  BY Zenon, <1>6, <1>8, <1>9 DEF Typed, Memory
<1>b. Leveled(free, roots, L, {}, {})
  <2>1. ASSUME NEW f \in Frames
        PROVE  (L[f] = 0 <=> f \in free) /\ (L[f] = 1 <=> f \in roots)
    BY <1>5, <1>8, <1>9
  <2> QED
    BY Zenon, <2>1 DEF Leveled
<1>c. Leads(mem, roots, L, {}, {})
  <2>1. ASSUME NEW f \in Frames, NEW i \in Indices, Live(roots, L, f, i), mem[f][i] # Absent
        PROVE  /\ mem[f][i].to \in Frames
               /\ L[mem[f][i].to] = L[f] + 1
               /\ ~ (f \in roots /\ i \in UserTop)
    <3>1. f = root /\ i \in KernelTop
      BY Zenon, <1>10, <2>1
    <3>2. mem[f][i].to \in Frames /\ mem[f][i].to \in B /\ L[f] = 1
      BY <1>5, <1>7, <1>8, <3>1
    <3>3. L[mem[f][i].to] = 2
      BY Zenon, <1>8, <3>2
    <3> QED
      BY <1>3, <3>1, <3>2, <3>3
  <2> QED
    BY Zenon, <2>1 DEF Leads
<1>d. Once(mem, roots, L)
  BY <1>4, <1>7, <1>10 DEF Once
<1>e. Owned(mem, roots, L, {})
  <2> SUFFICES ASSUME NEW t \in Frames, L[t] >= 2
               PROVE  \E h \in Frames, j \in Indices :
                         Live(roots, L, h, j) /\ mem[h][j] # Absent /\ mem[h][j].to = t
    BY Zenon DEF Owned
  <2>1. t \in B
    BY <1>8
  <2>2. PICK i \in KernelTop : t = tables[i]
    BY Zenon, <1>5, <2>1
  <2> QED
    BY Zenon, <1>7, <1>11, <2>2
<1>f. Shared(mem, roots)
  BY <1>7, <1>9 DEF Shared
<1>g. Safe(mem, L)
  <2> SUFFICES ASSUME NEW f \in Frames, NEW i \in Low, L[f] = Levels, mem[f][i] # Absent
               PROVE  FALSE
    BY Zenon DEF Safe
  <2>1. f \in B
    BY <1>3, <1>8
  <2> QED
    BY Zenon, <1>3, <1>6, <2>1
<1>12. Tree(mem, free, roots, L, {}, {})
  BY Zenon, <1>a, <1>b, <1>c, <1>d, <1>e, <1>f, <1>g DEF Tree
<1> HIDE DEF L
<1>13. Forest(mem, free, roots, {})
  BY Zenon, <1>12 DEF Forest
<1> QED
  BY Zenon, <1>1, <1>2, <1>13 DEF Inv, TLBCoherent

-----------------------------------------------------------------------------

(* What the invariant implies. *)

LEMMA InvFrames ==
    ASSUME WellOrdered, Counts, Inv
    PROVE  FrameOwnedOnce
<1>1. TypeOK
  BY Zenon DEF Inv, Forest, Tree, Typed, TypeOK
<1>2. PICK L, U : Tree(mem, free, roots, L, U, {})
  BY Zenon DEF Inv, Forest
<1>3. \A f \in Frames :
         Cardinality(Links(f)) + Cardinality({f} \cap free)
           + Cardinality({f} \cap roots) = 1
  BY Zenon, <1>2, OwnedOnce DEF Inv
<1> QED
  BY Zenon, <1>1, <1>3 DEF FrameOwnedOnce

LEMMA InvRights ==
    ASSUME WellOrdered, Inv
    PROVE  RightsSafe
<1>1. ASSUME NEW r \in roots, NEW page \in Pages, Leaf(mem, r, page) # Absent
      PROVE  LET path == {mem[Table(mem, r, page, k)][page[k]] : k \in 1 .. Levels}
             IN  /\ \/ \E e \in path : "Writable" \notin e.rights
                    \/ \E e \in path : "No_Execute" \in e.rights
                 /\ page[1] \in KernelTop =>
                       \E e \in path : "User_Access" \notin e.rights
  <2> DEFINE T(k) == Table(mem, r, page, k)
             path == {mem[T(k)][page[k]] : k \in 1 .. Levels}
  <2>1. PICK L, U : Tree(mem, free, roots, L, U, {})
    BY Zenon DEF Inv, Forest
  <2>2. 1 \in 1 .. Levels /\ Levels \in 1 .. Levels /\ Levels # 1
    BY LevelsAre
  <2>3. page \in Address /\ page[Levels] \in Low
    BY Zenon, <2>2, PagesAre, AddressIs
  <2>4. T(Levels) # Absent /\ mem[T(Levels)][page[Levels]] # Absent
    BY Zenon, <1>1 DEF Leaf, LeafTable
  <2>5. T(Levels) \in Frames /\ L[T(Levels)] = Levels
    BY <2>1, <2>2, <2>3, <2>4, WalkIs
  <2>6. T(1) = r
    BY Zenon, TableRoot
  <2> HIDE DEF T
  <2>7. mem[T(Levels)][page[Levels]] \in path /\ mem[r][page[1]] \in path
    BY Zenon, <2>2, <2>6
  <2>8. \/ "Writable" \notin mem[T(Levels)][page[Levels]].rights
        \/ "No_Execute" \in mem[T(Levels)][page[Levels]].rights
    BY Zenon, <2>1, <2>3, <2>4, <2>5 DEF Tree, Safe
  <2>9. page[1] \in KernelTop => "User_Access" \notin mem[r][page[1]].rights
    BY <2>1 DEF Tree, Shared
  <2>10. /\ \/ \E e \in path : "Writable" \notin e.rights
            \/ \E e \in path : "No_Execute" \in e.rights
         /\ page[1] \in KernelTop => \E e \in path : "User_Access" \notin e.rights
    <3> HIDE DEF path
    <3> QED
      BY Zenon, <2>7, <2>8, <2>9
  <2> QED
    BY Zenon, <2>10 DEF T
<1> QED
  BY Zenon, <1>1 DEF RightsSafe

LEMMA InvAllOrNothing ==
    ASSUME WellOrdered, Inv
    PROVE  AllOrNothing
<1>1. ASSUME NEW range \in Ranges, NEW rights \in Attributes,
             MapPages(range, rights).status # "Ok"
      PROVE  \A page \in Pages :
                Leaf(MapPages(range, rights).mem, Root, page) = Leaf(mem, Root, page)
  <2> DEFINE u == ForMapped!Loop([root |-> cr3, range |-> range, rights |-> rights],
                                 Now, Len(range))
             P == {Device}
  <2>1. Root = cr3 /\ MapPages(range, rights) = u
    BY Zenon, RootIs DEF MapPages
  <2>2. /\ Len(range) \in Nat /\ \A k \in 1 .. Len(range) : range[k] \in Address
        /\ rights \in SUBSET Rights /\ cr3 \in roots
    BY Zenon, RangeIs, PagingAssumption DEF Inv
  <2>3. Now.mem = mem /\ Now.free = free /\ Now.status = "Ok"
    BY Zenon DEF Now, State
  <2>4. Forest(Now.mem, Now.free, roots, P) /\ Device \in P
    <3>1. PICK L, U : Tree(mem, free, roots, L, U, {})
      BY Zenon DEF Inv, Forest
    <3>2. Tree(mem, free, roots, L, U, P)
      BY <3>1, DeviceIs DEF Tree, Typed, Leveled, Leads, Owned
    <3> QED
      BY Zenon, <2>3, <3>2 DEF Forest
  <2> HIDE DEF P
  <2>5. /\ Forest(u.mem, u.free, roots, P)
        /\ IF u.status = "Ok"
           THEN Over(Now.mem, u.mem, cr3, range, Len(range), Entry(Device, rights))
           ELSE SameView(Now.mem, u.mem, cr3)
    BY Zenon, <2>2, <2>3, <2>4, MapPagesKeep
  <2> HIDE DEF u
  <2>6. SameView(mem, u.mem, cr3)
    BY Zenon, <1>1, <2>1, <2>3, <2>5
  <2> QED
    BY Zenon, <2>1, <2>6, PagesAre DEF SameView
<1> QED
  BY Zenon, <1>1 DEF AllOrNothing

-----------------------------------------------------------------------------

INSTANCE FiniteSetTheorems

LEMMA LeastExists == WellOrdered
<1> SUFFICES ASSUME NEW S \in SUBSET Nat, S # {}
             PROVE  \E x \in S : \A y \in S : x <= y
  BY Zenon DEF WellOrdered
<1>1. PICK R : R = OpToRel(<, Nat)
  BY Zenon
<1>2. IsWellFoundedOn(R, Nat)
  BY Zenon, <1>1, NatLessThanWellFounded
<1>3. PICK x \in S : \A y \in S : ~ (<<y, x>> \in R)
  BY ZenonT(30), <1>2, WFMin
<1>4. R = {ss \in Nat \X Nat : ss[1] < ss[2]}
  BY <1>1, Zenon DEF OpToRel
<1>5. \A y, z \in Nat : <<y, z>> \in R <=> y < z
  BY <1>4
<1>6. \A y \in S : ~ (y < x)
  BY ZenonT(30), <1>3, <1>5
<1> QED
  BY <1>6

LEMMA CountsAre == Counts
BY FS_EmptySet, FS_Singleton DEF Counts

LEMMA Invariance == Spec => []Inv
<1>1. Init => Inv
  BY InvInit
<1>2. Inv /\ [Next]_vars => Inv'
  BY LeastExists, InvNext
<1> QED
  BY <1>1, <1>2, PTL DEF Spec

(* However many trees page_table_init makes and page_table_fini drops, all *)
(* have the kernel half of the first, and each finds itself in its fractal *)
(* index.                                                                  *)
THEOREM KernelHalfIsShared == Spec => []KernelHalfShared
<1>1. Inv => KernelHalfShared
  BY DEF Inv, Forest, Tree, Shared, KernelHalfShared
<1> QED
  BY <1>1, Invariance, PTL

(* No step of map_page, unmap_page, page_table_init or page_table_fini     *)
(* loses a frame, links it twice or frees it while it is linked.           *)
THEOREM FramesAreOwnedOnce == Spec => []FrameOwnedOnce
<1>1. Inv => FrameOwnedOnce
  BY Zenon, LeastExists, CountsAre, InvFrames
<1> QED
  BY <1>1, Invariance, PTL

(* What map_page and map_update_page refuse is enough: no page is writable *)
(* and executable, and none of the kernel half has user access.            *)
THEOREM RightsAreSafe == Spec => []RightsSafe
<1>1. Inv => RightsSafe
  BY Zenon, LeastExists, InvRights
<1> QED
  BY <1>1, Invariance, PTL

(* The invlpg of map_page, unmap_page and map_update_page and the writes   *)
(* of cr3 are enough: what the CPU has cached is in the tables.            *)
THEOREM TLBIsCoherent == Spec => []TLBCoherent
<1>1. Inv => TLBCoherent
  BY Zenon DEF Inv
<1> QED
  BY <1>1, Invariance, PTL

(* Where map_range fails, at whatever page, what it has mapped before is   *)
(* undone, and the tables that it leaves behind translate nothing.         *)
THEOREM MapRangeIsAllOrNothing == Spec => []AllOrNothing
<1>1. Inv => AllOrNothing
  BY LeastExists, InvAllOrNothing
<1> QED
  BY <1>1, Invariance, PTL
=============================================================================
