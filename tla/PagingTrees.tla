---------------------------- MODULE PagingTrees -----------------------------
(***************************************************************************)
(* The trees of Paging, and what keeps their shape, for any number of      *)
(* levels, frames and trees: linking a new table, mapping, unmapping and   *)
(* updating a page, taking a free frame, making a tree and dropping one.   *)
(*                                                                         *)
(* Every frame has a level: 0 when it is free, 1 for a root, up to Levels  *)
(* for a table, one more for a page.  Entries lead one level down, and but *)
(* for the kernel half, which the roots share, no two entries lead to the  *)
(* same frame.  So what page_table_fini frees is linked from nowhere else. *)
(***************************************************************************)
EXTENDS Paging, TLAPS

Tops == UserTop \cup KernelTop

Address ==
    {page \in [1 .. Levels -> Indices] :
        page[1] \in Tops /\ \A k \in 2 .. Levels : page[k] \in Low}

-----------------------------------------------------------------------------

(* The parts of the invariant, of a memory m with the free frames fr, the  *)
(* roots rs, the level L of every frame, the tables and pages U of the     *)
(* lower halves, and P, what may be mapped next: frames that are allocated *)
(* and not linked yet, and Device if the lower halves may have it.         *)

Live(rs, L, f, i) ==
    \/ f \in rs /\ i \in Tops
    \/ L[f] \in 2 .. Levels /\ i \in Low

Typed(m, fr, rs, L, U, P) ==
    /\ m \in [Frames -> [Indices -> Entries \cup {Absent}]]
    /\ fr \in SUBSET Frames /\ rs \in SUBSET Frames
    /\ U \in SUBSET Frames /\ P \in SUBSET (Frames \cup {Device})
    /\ L \in [Frames -> 0 .. Levels + 1]

Leveled(fr, rs, L, U, P) ==
    \A f \in Frames :
        /\ L[f] = 0 <=> f \in fr
        /\ L[f] = 1 <=> f \in rs
        /\ f \in P => L[f] = Levels + 1 /\ f \notin U
        /\ f \in U => L[f] >= 2

(* An entry leads one level down in the same half, or to a device. *)
Leads(m, rs, L, U, P) ==
    \A f \in Frames, i \in Indices :
        Live(rs, L, f, i) /\ m[f][i] # Absent =>
            \/ /\ m[f][i].to \in Frames \ P
               /\ L[m[f][i].to] = L[f] + 1
               /\ m[f][i].to \in U <=> f \in U \/ (f \in rs /\ i \in UserTop)
            \/ m[f][i].to = Device /\ L[f] = Levels /\ (f \notin U \/ Device \in P)

Once(m, rs, L) ==
    \A f, g \in Frames, i, j \in Indices :
        /\ Live(rs, L, f, i) /\ m[f][i] # Absent
        /\ Live(rs, L, g, j) /\ m[g][j] # Absent
        /\ m[f][i].to \in Frames /\ m[f][i].to = m[g][j].to
        => i = j /\ (f = g \/ (f \in rs /\ g \in rs /\ i \in KernelTop))

Owned(m, rs, L, P) ==
    \A t \in Frames :
        L[t] >= 2 /\ t \notin P =>
            \E f \in Frames, i \in Indices :
                Live(rs, L, f, i) /\ m[f][i] # Absent /\ m[f][i].to = t

Shared(m, rs) ==
    \A r, s \in rs :
        /\ m[r][Fractal] # Absent /\ m[r][Fractal].to = r
        /\ \A i \in KernelTop :
              /\ m[r][i] # Absent /\ m[r][i] = m[s][i]
              /\ m[r][i].rights = {"Writable", "No_Execute"}

Safe(m, L) ==
    \A f \in Frames, i \in Low :
        L[f] = Levels /\ m[f][i] # Absent =>
            "Writable" \notin m[f][i].rights \/ "No_Execute" \in m[f][i].rights

Tree(m, fr, rs, L, U, P) ==
    /\ Typed(m, fr, rs, L, U, P)
    /\ Leveled(fr, rs, L, U, P)
    /\ Leads(m, rs, L, U, P)
    /\ Once(m, rs, L)
    /\ Owned(m, rs, L, P)
    /\ Shared(m, rs)
    /\ Safe(m, L)

-----------------------------------------------------------------------------

LEMMA EntryIs ==
    /\ \A t, rights : Entry(t, rights).to = t /\ Entry(t, rights).rights = rights
    /\ \A t \in Frames \cup {Device}, rights \in SUBSET Rights :
          Entry(t, rights) \in Entries /\ Entry(t, rights) # Absent
    /\ \A e \in Entries : /\ e # Absent /\ e.to \in Frames \cup {Device}
                         /\ e.rights \in SUBSET Rights
BY PagingAssumption DEF Entry, Entries

Memory == [Frames -> [Indices -> Entries \cup {Absent}]]

LEMMA WriteIs ==
    ASSUME NEW m \in Memory, NEW t \in Frames, NEW i \in Indices,
           NEW e \in Entries \cup {Absent}
    PROVE  /\ Write(m, t, i, e) \in Memory
           /\ \A f \in Frames, j \in Indices :
                 Write(m, t, i, e)[f][j] = IF f = t /\ j = i THEN e ELSE m[f][j]
<1> DEFINE row == [m[t] EXCEPT ![i] = e]
           w == [m EXCEPT ![t] = row]
<1>1. /\ row \in [Indices -> Entries \cup {Absent}]
      /\ \A j \in Indices : row[j] = IF j = i THEN e ELSE m[t][j]
  BY Zenon DEF Memory
<1> HIDE DEF row
<1>2. w \in Memory /\ \A f \in Frames : w[f] = IF f = t THEN row ELSE m[f]
  BY Zenon, <1>1 DEF Memory
<1>3. w = Write(m, t, i, e)
  BY Zenon DEF Write, row
<1> HIDE DEF w
<1> QED
  BY Zenon, <1>1, <1>2, <1>3

LEMMA EmptyIs ==
    /\ EmptyTable \in [Indices -> Entries \cup {Absent}]
    /\ \A i \in Indices : EmptyTable[i] = Absent
BY Zenon DEF EmptyTable

LEMMA LevelsAre ==
    /\ Levels \in Nat /\ Levels >= 2
    /\ Tops \subseteq Indices /\ Low \subseteq Indices /\ Fractal \in Indices
    /\ Fractal \notin Tops
BY PagingAssumption DEF Tops, Indices

LEMMA DeviceIs == Device \notin Frames /\ Absent \notin Frames /\ Absent # Device
BY Zenon, PagingAssumption

(* The memory after map_page has put the new table f in the entry i of t.  *)
Linked(m, t, i, f) ==
    [Write(m, t, i, Entry(f, {"Writable", "User_Access"})) EXCEPT ![f] = EmptyTable]

LEMMA LinkedIs ==
    ASSUME NEW m \in Memory, NEW t \in Frames, NEW i \in Indices, NEW f \in Frames
    PROVE  /\ Linked(m, t, i, f) \in Memory
           /\ \A g \in Frames, j \in Indices :
                 Linked(m, t, i, f)[g][j] =
                    IF g = f THEN Absent
                    ELSE IF g = t /\ j = i THEN Entry(f, {"Writable", "User_Access"})
                    ELSE m[g][j]
<1> DEFINE e == Entry(f, {"Writable", "User_Access"})
           w == Write(m, t, i, e)
<1>1. e \in Entries \cup {Absent}
  BY Zenon, EntryIs DEF Rights
<1> HIDE DEF e
<1>2. w \in Memory /\ \A g \in Frames, j \in Indices :
                         w[g][j] = IF g = t /\ j = i THEN e ELSE m[g][j]
  BY <1>1, WriteIs
<1> HIDE DEF w
<1> DEFINE x == [w EXCEPT ![f] = EmptyTable]
<1>3. x \in Memory
  BY Zenon, <1>2, EmptyIs DEF Memory
<1>4. \A g \in Frames : x[g] = IF g = f THEN EmptyTable ELSE w[g]
  BY Zenon, <1>2 DEF Memory
<1>5. x = Linked(m, t, i, f)
  BY Zenon DEF Linked, w, e
<1> HIDE DEF x
<1>6. /\ x \in Memory
      /\ \A g \in Frames, j \in Indices :
            x[g][j] = IF g = f THEN Absent ELSE IF g = t /\ j = i THEN e ELSE m[g][j]
  BY <1>2, <1>3, <1>4, EmptyIs
<1> QED
  BY Zenon, <1>5, <1>6 DEF e

(* Linking a new table keeps the tree. *)
LEMMA LinkKeeps ==
    ASSUME NEW m, NEW fr, NEW rs, NEW L, NEW U, NEW P, Tree(m, fr, rs, L, U, P),
           NEW t \in Frames, NEW i \in Indices, Live(rs, L, t, i), L[t] < Levels,
           m[t][i] = Absent, NEW f \in fr
    PROVE  LET M == [L EXCEPT ![f] = L[t] + 1]
               V == IF t \in U \/ (t \in rs /\ i \in UserTop) THEN U \cup {f} ELSE U
           IN  Tree(Linked(m, t, i, f), fr \ {f}, rs, M, V, P)
<1> DEFINE n == Linked(m, t, i, f)
           M == [L EXCEPT ![f] = L[t] + 1]
           V == IF t \in U \/ (t \in rs /\ i \in UserTop) THEN U \cup {f} ELSE U
<1>1. /\ m \in Memory /\ f \in Frames /\ fr \in SUBSET Frames /\ rs \in SUBSET Frames
      /\ U \in SUBSET Frames /\ P \in SUBSET (Frames \cup {Device})
      /\ L \in [Frames -> 0 .. Levels + 1]
  BY Zenon DEF Tree, Typed, Memory
<1>2. /\ L[f] = 0 /\ f \notin rs /\ f \notin P /\ f \notin U /\ L[t] >= 1 /\ f # t
  BY <1>1, LevelsAre DEF Tree, Leveled, Live
<1>3. /\ n \in Memory
      /\ \A j \in Indices : n[f][j] = Absent
      /\ n[t][i] # Absent /\ n[t][i].to = f
      /\ n[t][i].rights = {"Writable", "User_Access"}
      /\ \A g \in Frames, j \in Indices : g # f /\ ~ (g = t /\ j = i) => n[g][j] = m[g][j]
  <2>1. /\ Entry(f, {"Writable", "User_Access"}) # Absent
        /\ Entry(f, {"Writable", "User_Access"}).to = f
        /\ Entry(f, {"Writable", "User_Access"}).rights = {"Writable", "User_Access"}
    BY Zenon, <1>1, EntryIs DEF Rights
  <2>2. /\ n \in Memory
        /\ \A g \in Frames, j \in Indices :
              n[g][j] = IF g = f THEN Absent
                        ELSE IF g = t /\ j = i THEN Entry(f, {"Writable", "User_Access"})
                        ELSE m[g][j]
    BY <1>1, LinkedIs
  <2> HIDE DEF n
  <2> QED
    BY Zenon, <1>1, <1>2, <2>1, <2>2
<1> HIDE DEF n
<1>4. /\ M \in [Frames -> 0 .. Levels + 1] /\ M[f] = L[t] + 1 /\ M[f] \in 2 .. Levels
      /\ \A g \in Frames : g # f => M[g] = L[g]
  BY <1>1, <1>2, LevelsAre
<1> HIDE DEF M
<1>5. /\ V \in SUBSET Frames /\ \A g \in Frames : g # f => (g \in V <=> g \in U)
      /\ f \in V <=> t \in U \/ (t \in rs /\ i \in UserTop)
  BY Zenon, <1>1, <1>2
<1> HIDE DEF V
<1>6. \A g \in Frames, j \in Indices : g # f => (Live(rs, M, g, j) <=> Live(rs, L, g, j))
  BY Zenon, <1>4 DEF Live
<1>7. \A g \in Frames, j \in Indices :
        Live(rs, L, g, j) /\ m[g][j] # Absent => g # f /\ m[g][j].to # f
  BY <1>1, <1>2, LevelsAre, DeviceIs DEF Tree, Leads, Live
<1>8. \A g \in Frames, j \in Indices :
        Live(rs, M, g, j) /\ n[g][j] # Absent =>
            \/ g = t /\ j = i
            \/ g # f /\ Live(rs, L, g, j) /\ m[g][j] # Absent /\ n[g][j] = m[g][j]
                 /\ m[g][j].to # f
  BY <1>3, <1>6, <1>7
<1>a. Typed(n, fr \ {f}, rs, M, V, P)
  BY Zenon, <1>1, <1>3, <1>4, <1>5 DEF Typed, Memory
<1>b. Leveled(fr \ {f}, rs, M, V, P)
  BY <1>1, <1>2, <1>4, <1>5, LevelsAre DEF Tree, Leveled
<1>c. Leads(n, rs, M, V, P)
  <2> SUFFICES ASSUME NEW g \in Frames, NEW j \in Indices,
                      Live(rs, M, g, j), n[g][j] # Absent
               PROVE  \/ /\ n[g][j].to \in Frames \ P
                         /\ M[n[g][j].to] = M[g] + 1
                         /\ n[g][j].to \in V <=> g \in V \/ (g \in rs /\ j \in UserTop)
                      \/ n[g][j].to = Device /\ M[g] = Levels /\ (g \notin V \/ Device \in P)
    BY Zenon DEF Leads
  <2>1. CASE g = t /\ j = i
    BY Zenon, <1>1, <1>2, <1>3, <1>4, <1>5, <2>1
  <2>2. CASE ~ (g = t /\ j = i)
    <3>1. /\ g # f /\ Live(rs, L, g, j) /\ m[g][j] # Absent /\ n[g][j] = m[g][j]
          /\ m[g][j].to # f
      BY Zenon, <1>8, <2>2
    <3>2. \/ /\ m[g][j].to \in Frames \ P
             /\ L[m[g][j].to] = L[g] + 1
             /\ m[g][j].to \in U <=> g \in U \/ (g \in rs /\ j \in UserTop)
          \/ m[g][j].to = Device /\ L[g] = Levels /\ (g \notin U \/ Device \in P)
      BY Zenon, <3>1 DEF Tree, Leads
    <3> QED
      BY Zenon, <1>4, <1>5, <3>1, <3>2
  <2> QED
    BY Zenon, <2>1, <2>2
<1>d. Once(n, rs, M)
  <2> SUFFICES ASSUME NEW g \in Frames, NEW h \in Frames, NEW j \in Indices, NEW k \in Indices,
                      Live(rs, M, g, j), n[g][j] # Absent,
                      Live(rs, M, h, k), n[h][k] # Absent,
                      n[g][j].to \in Frames, n[g][j].to = n[h][k].to
               PROVE  j = k /\ (g = h \/ (g \in rs /\ h \in rs /\ j \in KernelTop))
    BY DEF Once
  <2>1. CASE (g = t /\ j = i) \/ (h = t /\ k = i)
    BY <1>3, <1>8, <2>1
  <2>2. CASE ~ (g = t /\ j = i) /\ ~ (h = t /\ k = i)
    BY <1>8, <2>2 DEF Tree, Once
  <2> QED
    BY Zenon, <2>1, <2>2
<1>e. Owned(n, rs, M, P)
  <2> SUFFICES ASSUME NEW g \in Frames, M[g] >= 2, g \notin P
               PROVE  \E h \in Frames, j \in Indices :
                         Live(rs, M, h, j) /\ n[h][j] # Absent /\ n[h][j].to = g
    BY Zenon DEF Owned
  <2>1. CASE g = f
    BY Zenon, <1>2, <1>3, <1>6, <2>1
  <2>2. CASE g # f
    <3>1. PICK h \in Frames, j \in Indices :
            Live(rs, L, h, j) /\ m[h][j] # Absent /\ m[h][j].to = g
      BY Zenon, <1>4, <2>2 DEF Tree, Owned
    <3>2. h # f /\ ~ (h = t /\ j = i)
      BY Zenon, <1>7, <3>1
    <3> QED
      BY <1>3, <1>6, <3>1, <3>2
  <2> QED
    BY Zenon, <2>1, <2>2
<1>f. Shared(n, rs)
  <2>1. t \in rs => i \notin KernelTop /\ i # Fractal
    BY Zenon, <1>2, LevelsAre DEF Tree, Shared, Tops, Live, Leveled
  <2>2. \A r \in rs : r \in Frames /\ r # f
    BY Zenon, <1>1, <1>2
  <2>3. \A r \in rs, j \in KernelTop \cup {Fractal} : n[r][j] = m[r][j]
    BY <1>3, <2>1, <2>2, LevelsAre DEF Tops
  <2> QED
    BY <2>3 DEF Tree, Shared
<1>g. Safe(n, M)
  <2> SUFFICES ASSUME NEW g \in Frames, NEW j \in Low, M[g] = Levels, n[g][j] # Absent
               PROVE  "Writable" \notin n[g][j].rights \/ "No_Execute" \in n[g][j].rights
    BY Zenon DEF Safe
  <2>1. g # f /\ g # t
    BY <1>2, <1>3, <1>4, LevelsAre
  <2>2. n[g][j] = m[g][j] /\ L[g] = Levels
    BY Zenon, <1>3, <1>4, <2>1, LevelsAre
  <2> QED
    BY Zenon, <2>2 DEF Tree, Safe
<1> QED
  BY Zenon, <1>a, <1>b, <1>c, <1>d, <1>e, <1>f, <1>g DEF Tree, n, M, V

(* An entry of a last-level table is set to a page that waits to be mapped *)
(* or, in the kernel half, to a device.                                    *)
LEMMA MapKeeps ==
    ASSUME NEW m, NEW fr, NEW rs, NEW L, NEW U, NEW P, Tree(m, fr, rs, L, U, P),
           NEW t \in Frames, NEW i \in Low, L[t] = Levels, m[t][i] = Absent,
           NEW phys, phys \in P \/ (phys = Device /\ t \notin U),
           NEW rights \in SUBSET Rights,
           "Writable" \notin rights \/ "No_Execute" \in rights
    PROVE  LET V == IF phys # Device /\ t \in U THEN U \cup {phys} ELSE U
           IN  Tree(Write(m, t, i, Entry(phys, rights)), fr, rs, L, V, P \ (Frames \cap {phys}))
<1> DEFINE e == Entry(phys, rights)
           n == Write(m, t, i, e)
           V == IF phys # Device /\ t \in U THEN U \cup {phys} ELSE U
           Q == P \ (Frames \cap {phys})
<1>1. /\ m \in Memory /\ i \in Indices /\ fr \in SUBSET Frames /\ rs \in SUBSET Frames
      /\ U \in SUBSET Frames /\ P \in SUBSET (Frames \cup {Device})
      /\ L \in [Frames -> 0 .. Levels + 1]
  BY Zenon, LevelsAre DEF Tree, Typed, Memory
<1>2. e \in Entries /\ e # Absent /\ e.to = phys /\ e.rights = rights
  BY Zenon, <1>1, EntryIs
<1> HIDE DEF e
<1>3. /\ n \in Memory /\ n[t][i] = e
      /\ \A g \in Frames, j \in Indices : ~ (g = t /\ j = i) => n[g][j] = m[g][j]
  BY <1>1, <1>2, WriteIs
<1> HIDE DEF n
<1>4. /\ Live(rs, L, t, i) /\ t \notin rs /\ phys # t
      /\ phys \in Frames => L[phys] = Levels + 1 /\ phys \notin U /\ phys # Device
      /\ phys \notin Frames => phys = Device /\ (t \notin U \/ Device \in P)
  <2>1. Live(rs, L, t, i) /\ t \notin rs
    BY <1>1, LevelsAre DEF Tree, Leveled, Live
  <2>2. phys \in Frames => L[phys] = Levels + 1 /\ phys \notin U /\ phys # Device
    BY Zenon, <1>1, DeviceIs DEF Tree, Leveled
  <2>3. phys # t
    BY <1>1, <2>2, LevelsAre, DeviceIs
  <2> QED
    BY Zenon, <1>1, <2>1, <2>2, <2>3
<1>5. /\ V \in SUBSET Frames /\ \A g \in Frames : g # phys => (g \in V <=> g \in U)
      /\ phys \in Frames => (phys \in V <=> t \in U)
      /\ Q \in SUBSET (Frames \cup {Device}) /\ phys \notin Frames \cap Q
      /\ \A g : g # phys => (g \in Q <=> g \in P)
      /\ Device \in P => Device \in Q
  BY Zenon, <1>1, <1>4, DeviceIs
<1> HIDE DEF V, Q
<1>6. \A g \in Frames, j \in Indices :
        Live(rs, L, g, j) /\ m[g][j] # Absent =>
            /\ ~ (g = t /\ j = i)
            /\ m[g][j].to \in Frames => m[g][j].to # phys
            /\ g # phys
  BY <1>1, <1>4, LevelsAre, DeviceIs DEF Tree, Leads, Live, Leveled
<1>a. Typed(n, fr, rs, L, V, Q)
  BY Zenon, <1>1, <1>3, <1>5 DEF Typed, Memory
<1>b. Leveled(fr, rs, L, V, Q)
  <2> SUFFICES ASSUME NEW g \in Frames
               PROVE  /\ L[g] = 0 <=> g \in fr
                      /\ L[g] = 1 <=> g \in rs
                      /\ g \in Q => L[g] = Levels + 1 /\ g \notin V
                      /\ g \in V => L[g] >= 2
    BY Zenon DEF Leveled
  <2>1. /\ L[g] = 0 <=> g \in fr
        /\ L[g] = 1 <=> g \in rs
        /\ g \in P => L[g] = Levels + 1 /\ g \notin U
        /\ g \in U => L[g] >= 2
    BY Zenon DEF Tree, Leveled
  <2>2. CASE g = phys
    BY <1>4, <1>5, <2>1, <2>2, LevelsAre, DeviceIs
  <2>3. CASE g # phys
    BY Zenon, <1>5, <2>1, <2>3
  <2> QED
    BY Zenon, <2>2, <2>3
<1>c. Leads(n, rs, L, V, Q)
  <2> SUFFICES ASSUME NEW g \in Frames, NEW j \in Indices,
                      Live(rs, L, g, j), n[g][j] # Absent
               PROVE  \/ /\ n[g][j].to \in Frames \ Q
                         /\ L[n[g][j].to] = L[g] + 1
                         /\ n[g][j].to \in V <=> g \in V \/ (g \in rs /\ j \in UserTop)
                      \/ n[g][j].to = Device /\ L[g] = Levels /\ (g \notin V \/ Device \in Q)
    BY Zenon DEF Leads
  <2>1. CASE g = t /\ j = i
    BY Zenon, <1>1, <1>2, <1>3, <1>4, <1>5, <2>1
  <2>2. CASE ~ (g = t /\ j = i)
    <3>1. m[g][j] # Absent /\ n[g][j] = m[g][j]
      BY Zenon, <1>3, <2>2
    <3>2. \/ /\ m[g][j].to \in Frames \ P
             /\ L[m[g][j].to] = L[g] + 1
             /\ m[g][j].to \in U <=> g \in U \/ (g \in rs /\ j \in UserTop)
          \/ m[g][j].to = Device /\ L[g] = Levels /\ (g \notin U \/ Device \in P)
      BY Zenon, <3>1 DEF Tree, Leads
    <3>3. g # phys /\ (m[g][j].to \in Frames => m[g][j].to # phys)
      BY Zenon, <1>6, <3>1
    <3> QED
      BY Zenon, <1>5, <3>1, <3>2, <3>3
  <2> QED
    BY Zenon, <2>1, <2>2
<1>d. Once(n, rs, L)
  <2> SUFFICES ASSUME NEW g \in Frames, NEW h \in Frames, NEW j \in Indices, NEW k \in Indices,
                      Live(rs, L, g, j), n[g][j] # Absent,
                      Live(rs, L, h, k), n[h][k] # Absent,
                      n[g][j].to \in Frames, n[g][j].to = n[h][k].to
               PROVE  j = k /\ (g = h \/ (g \in rs /\ h \in rs /\ j \in KernelTop))
    BY DEF Once
  <2>1. CASE (g = t /\ j = i) \/ (h = t /\ k = i)
    BY <1>2, <1>3, <1>6, <2>1
  <2>2. CASE ~ (g = t /\ j = i) /\ ~ (h = t /\ k = i)
    BY <1>3, <2>2 DEF Tree, Once
  <2> QED
    BY Zenon, <2>1, <2>2
<1>e. Owned(n, rs, L, Q)
  <2> SUFFICES ASSUME NEW g \in Frames, L[g] >= 2, g \notin Q
               PROVE  \E h \in Frames, j \in Indices :
                         Live(rs, L, h, j) /\ n[h][j] # Absent /\ n[h][j].to = g
    BY Zenon DEF Owned
  <2>1. CASE g = phys
    BY Zenon, <1>1, <1>2, <1>3, <1>4, <2>1
  <2>2. CASE g # phys
    <3>1. PICK h \in Frames, j \in Indices :
            Live(rs, L, h, j) /\ m[h][j] # Absent /\ m[h][j].to = g
      BY Zenon, <1>5, <2>2 DEF Tree, Owned
    <3> QED
      BY <1>3, <1>6, <3>1
  <2> QED
    BY Zenon, <2>1, <2>2
<1>f. Shared(n, rs)
  <2>1. \A r \in rs, j \in KernelTop \cup {Fractal} : n[r][j] = m[r][j]
    BY Zenon, <1>1, <1>3, <1>4, LevelsAre DEF Tops
  <2> QED
    BY <2>1 DEF Tree, Shared
<1>g. Safe(n, L)
  <2> SUFFICES ASSUME NEW g \in Frames, NEW j \in Low, L[g] = Levels, n[g][j] # Absent
               PROVE  "Writable" \notin n[g][j].rights \/ "No_Execute" \in n[g][j].rights
    BY Zenon DEF Safe
  <2>1. CASE g = t /\ j = i
    BY Zenon, <1>2, <1>3, <2>1
  <2>2. CASE ~ (g = t /\ j = i)
    BY Zenon, <1>3, <2>2, LevelsAre DEF Tree, Safe
  <2> QED
    BY Zenon, <2>1, <2>2
<1> QED
  BY Zenon, <1>a, <1>b, <1>c, <1>d, <1>e, <1>f, <1>g DEF Tree, n, e, V, Q

(* An entry of a last-level table is cleared, and its page freed if it is  *)
(* RAM.                                                                    *)
LEMMA ClearKeeps ==
    ASSUME NEW m, NEW fr, NEW rs, NEW L, NEW U, NEW P, Tree(m, fr, rs, L, U, P),
           NEW t \in Frames, NEW i \in Low, L[t] = Levels, m[t][i] # Absent
    PROVE  LET x == m[t][i].to
               M == [f \in Frames |-> IF f = x THEN 0 ELSE L[f]]
           IN  Tree(Write(m, t, i, Absent), fr \cup (Frames \cap {x}), rs, M, U \ {x}, P)
<1> DEFINE x == m[t][i].to
           M == [f \in Frames |-> IF f = x THEN 0 ELSE L[f]]
           n == Write(m, t, i, Absent)
           V == U \ {x}
           gr == fr \cup (Frames \cap {x})
<1>1. /\ m \in Memory /\ i \in Indices /\ fr \in SUBSET Frames /\ rs \in SUBSET Frames
      /\ U \in SUBSET Frames /\ P \in SUBSET (Frames \cup {Device})
      /\ L \in [Frames -> 0 .. Levels + 1]
  BY Zenon, LevelsAre DEF Tree, Typed, Memory
<1>2. Live(rs, L, t, i) /\ t \notin rs
  BY <1>1, LevelsAre DEF Tree, Leveled, Live
<1>3. (x \in Frames \ P /\ L[x] = Levels + 1) \/ x = Device
  BY Zenon, <1>1, <1>2 DEF Tree, Leads
<1> HIDE DEF x
<1>4. /\ n \in Memory /\ n[t][i] = Absent
      /\ \A g \in Frames, j \in Indices : ~ (g = t /\ j = i) => n[g][j] = m[g][j]
  BY <1>1, WriteIs
<1> HIDE DEF n
<1>5. /\ M \in [Frames -> 0 .. Levels + 1]
      /\ \A g \in Frames : /\ g = x => M[g] = 0 /\ L[g] = Levels + 1
                           /\ g # x => M[g] = L[g]
  BY <1>1, <1>3, LevelsAre, DeviceIs
<1> HIDE DEF M
<1>6. \A g \in Frames, j \in Indices :
        /\ Live(rs, M, g, j) <=> Live(rs, L, g, j)
        /\ Live(rs, L, g, j) => g # x
  BY <1>1, <1>3, <1>5, LevelsAre, DeviceIs DEF Tree, Leveled, Live
<1>7. \A g \in Frames, j \in Indices :
        Live(rs, L, g, j) /\ n[g][j] # Absent =>
            /\ ~ (g = t /\ j = i) /\ n[g][j] = m[g][j]
            /\ m[g][j].to \in Frames => m[g][j].to # x
  <2> SUFFICES ASSUME NEW g \in Frames, NEW j \in Indices,
                      Live(rs, L, g, j), n[g][j] # Absent
               PROVE  /\ ~ (g = t /\ j = i) /\ n[g][j] = m[g][j]
                      /\ m[g][j].to \in Frames => m[g][j].to # x
    BY Zenon
  <2>1. ~ (g = t /\ j = i) /\ n[g][j] = m[g][j]
    BY Zenon, <1>4
  <2>2. ASSUME m[g][j].to \in Frames, m[g][j].to = x
        PROVE  FALSE
    <3>1. Once(m, rs, L)
      BY Zenon DEF Tree
    <3>2. j = i /\ (g = t \/ (g \in rs /\ t \in rs /\ j \in KernelTop))
      BY Zenon, <1>1, <1>2, <2>1, <2>2, <3>1 DEF Once, x
    <3> QED
      BY Zenon, <1>2, <2>1, <3>2
  <2> QED
    BY Zenon, <2>1, <2>2
<1>a. Typed(n, gr, rs, M, V, P)
  BY Zenon, <1>1, <1>4, <1>5 DEF Typed, Memory
<1>b. Leveled(gr, rs, M, V, P)
  <2> SUFFICES ASSUME NEW g \in Frames
               PROVE  /\ M[g] = 0 <=> g \in gr
                      /\ M[g] = 1 <=> g \in rs
                      /\ g \in P => M[g] = Levels + 1 /\ g \notin V
                      /\ g \in V => M[g] >= 2
    BY Zenon DEF Leveled
  <2>1. /\ L[g] = 0 <=> g \in fr
        /\ L[g] = 1 <=> g \in rs
        /\ g \in P => L[g] = Levels + 1 /\ g \notin U
        /\ g \in U => L[g] >= 2
    BY Zenon DEF Tree, Leveled
  <2>2. CASE g = x
    BY <1>3, <1>5, <2>1, <2>2, LevelsAre, DeviceIs
  <2>3. CASE g # x
    BY Zenon, <1>5, <2>1, <2>3
  <2> QED
    BY Zenon, <2>2, <2>3
<1>c. Leads(n, rs, M, V, P)
  <2> SUFFICES ASSUME NEW g \in Frames, NEW j \in Indices,
                      Live(rs, M, g, j), n[g][j] # Absent
               PROVE  \/ /\ n[g][j].to \in Frames \ P
                         /\ M[n[g][j].to] = M[g] + 1
                         /\ n[g][j].to \in V <=> g \in V \/ (g \in rs /\ j \in UserTop)
                      \/ n[g][j].to = Device /\ M[g] = Levels /\ (g \notin V \/ Device \in P)
    BY Zenon DEF Leads
  <2>1. /\ Live(rs, L, g, j) /\ g # x /\ m[g][j] # Absent /\ n[g][j] = m[g][j]
        /\ m[g][j].to \in Frames => m[g][j].to # x
    BY Zenon, <1>6, <1>7
  <2>2. \/ /\ m[g][j].to \in Frames \ P
           /\ L[m[g][j].to] = L[g] + 1
           /\ m[g][j].to \in U <=> g \in U \/ (g \in rs /\ j \in UserTop)
        \/ m[g][j].to = Device /\ L[g] = Levels /\ (g \notin U \/ Device \in P)
    BY Zenon, <2>1 DEF Tree, Leads
  <2> QED
    BY Zenon, <1>5, <2>1, <2>2
<1>d. Once(n, rs, M)
  BY <1>6, <1>7 DEF Tree, Once
<1>e. Owned(n, rs, M, P)
  <2> SUFFICES ASSUME NEW g \in Frames, M[g] >= 2, g \notin P
               PROVE  \E h \in Frames, j \in Indices :
                         Live(rs, M, h, j) /\ n[h][j] # Absent /\ n[h][j].to = g
    BY Zenon DEF Owned
  <2>1. g # x /\ L[g] >= 2
    BY <1>5
  <2>2. PICK h \in Frames, j \in Indices :
          Live(rs, L, h, j) /\ m[h][j] # Absent /\ m[h][j].to = g
    BY Zenon, <2>1 DEF Tree, Owned
  <2>3. ~ (h = t /\ j = i)
    BY Zenon, <2>1, <2>2 DEF x
  <2> QED
    BY <1>4, <1>6, <2>2, <2>3
<1>f. Shared(n, rs)
  <2>1. \A r \in rs, j \in KernelTop \cup {Fractal} : n[r][j] = m[r][j]
    BY Zenon, <1>1, <1>2, <1>4, LevelsAre DEF Tops
  <2> QED
    BY <2>1 DEF Tree, Shared
<1>g. Safe(n, M)
  BY <1>4, <1>5, LevelsAre DEF Tree, Safe
<1> QED
  BY Zenon, <1>a, <1>b, <1>c, <1>d, <1>e, <1>f, <1>g DEF Tree, n, M, x

(* An entry of a last-level table gets other rights. *)
LEMMA UpdateKeeps ==
    ASSUME NEW m, NEW fr, NEW rs, NEW L, NEW U, NEW P, Tree(m, fr, rs, L, U, P),
           NEW t \in Frames, NEW i \in Low, L[t] = Levels, m[t][i] # Absent,
           NEW rights \in SUBSET Rights,
           "Writable" \notin rights \/ "No_Execute" \in rights
    PROVE  Tree(Write(m, t, i, Entry(m[t][i].to, rights)), fr, rs, L, U, P)
<1> DEFINE e == Entry(m[t][i].to, rights)
           n == Write(m, t, i, e)
<1>1. /\ m \in Memory /\ i \in Indices /\ fr \in SUBSET Frames /\ rs \in SUBSET Frames
      /\ U \in SUBSET Frames /\ P \in SUBSET (Frames \cup {Device})
      /\ L \in [Frames -> 0 .. Levels + 1]
  BY Zenon, LevelsAre DEF Tree, Typed, Memory
<1>2. Live(rs, L, t, i) /\ t \notin rs
  BY <1>1, LevelsAre DEF Tree, Leveled, Live
<1>3. e \in Entries /\ e # Absent /\ e.to = m[t][i].to /\ e.rights = rights
  <2>1. m[t][i] \in Entries
    BY Zenon, <1>1 DEF Memory
  <2> QED
    BY Zenon, <2>1, EntryIs
<1> HIDE DEF e
<1>4. /\ n \in Memory /\ n[t][i] = e
      /\ \A g \in Frames, j \in Indices : ~ (g = t /\ j = i) => n[g][j] = m[g][j]
  BY <1>1, <1>3, WriteIs
<1> HIDE DEF n
<1>5. \A g \in Frames, j \in Indices :
        (n[g][j] # Absent <=> m[g][j] # Absent) /\ n[g][j].to = m[g][j].to
  BY Zenon, <1>3, <1>4
<1>a. Typed(n, fr, rs, L, U, P)
  BY Zenon, <1>1, <1>4 DEF Typed, Memory
<1>b. Leveled(fr, rs, L, U, P)
  BY Zenon DEF Tree
<1>c. Leads(n, rs, L, U, P)
  BY <1>5 DEF Tree, Leads
<1>d. Once(n, rs, L)
  BY <1>5 DEF Tree, Once
<1>e. Owned(n, rs, L, P)
  BY <1>5 DEF Tree, Owned
<1>f. Shared(n, rs)
  <2>1. \A r \in rs, j \in KernelTop \cup {Fractal} : n[r][j] = m[r][j]
    BY Zenon, <1>1, <1>2, <1>4, LevelsAre DEF Tops
  <2> QED
    BY <2>1 DEF Tree, Shared
<1>g. Safe(n, L)
  <2> SUFFICES ASSUME NEW g \in Frames, NEW j \in Low, L[g] = Levels, n[g][j] # Absent
               PROVE  "Writable" \notin n[g][j].rights \/ "No_Execute" \in n[g][j].rights
    BY Zenon DEF Safe
  <2>1. CASE g = t /\ j = i
    BY Zenon, <1>3, <1>4, <2>1
  <2>2. CASE ~ (g = t /\ j = i)
    BY Zenon, <1>4, <2>2, LevelsAre DEF Tree, Safe
  <2> QED
    BY Zenon, <2>1, <2>2
<1> QED
  BY Zenon, <1>a, <1>b, <1>c, <1>d, <1>e, <1>f, <1>g DEF Tree, n, e

(* A free frame is allocated for a page. *)
LEMMA TakeKeeps ==
    ASSUME NEW m, NEW fr, NEW rs, NEW L, NEW U, Tree(m, fr, rs, L, U, {}), NEW f \in fr
    PROVE  Tree(m, fr \ {f}, rs, [L EXCEPT ![f] = Levels + 1], U, {f})
<1> DEFINE M == [L EXCEPT ![f] = Levels + 1]
<1>1. /\ m \in Memory /\ f \in Frames /\ fr \in SUBSET Frames /\ rs \in SUBSET Frames
      /\ U \in SUBSET Frames /\ L \in [Frames -> 0 .. Levels + 1]
  BY Zenon DEF Tree, Typed, Memory
<1>2. L[f] = 0 /\ f \notin rs /\ f \notin U
  BY <1>1 DEF Tree, Leveled
<1>3. /\ M \in [Frames -> 0 .. Levels + 1] /\ M[f] = Levels + 1
      /\ \A g \in Frames : g # f => M[g] = L[g]
  BY <1>1, LevelsAre
<1> HIDE DEF M
<1>4. \A g \in Frames, j \in Indices :
        /\ Live(rs, M, g, j) <=> Live(rs, L, g, j)
        /\ Live(rs, L, g, j) => g # f
  BY <1>1, <1>2, <1>3, LevelsAre DEF Live
<1>5. \A g \in Frames, j \in Indices :
        Live(rs, L, g, j) /\ m[g][j] # Absent => m[g][j].to # f
  BY <1>1, <1>2, LevelsAre, DeviceIs DEF Tree, Leads, Live
<1>a. Typed(m, fr \ {f}, rs, M, U, {f})
  BY Zenon, <1>1, <1>3 DEF Typed, Memory
<1>b. Leveled(fr \ {f}, rs, M, U, {f})
  BY <1>1, <1>2, <1>3, LevelsAre DEF Tree, Leveled
<1>c. Leads(m, rs, M, U, {f})
  BY <1>3, <1>4, <1>5 DEF Tree, Leads
<1>d. Once(m, rs, M)
  BY <1>4 DEF Tree, Once
<1>e. Owned(m, rs, M, {f})
  BY <1>3, <1>4 DEF Tree, Owned
<1>f. Shared(m, rs)
  BY Zenon DEF Tree
<1>g. Safe(m, M)
  BY <1>3, LevelsAre DEF Tree, Safe
<1> QED
  BY Zenon, <1>a, <1>b, <1>c, <1>d, <1>e, <1>f, <1>g DEF Tree, M

(* page_table_init makes a root that shares the kernel half. *)
LEMMA RootKeeps ==
    ASSUME NEW L, NEW U, Tree(mem, free, roots, L, U, {}), NEW f \in free, NEW r \in roots
    PROVE  Tree([mem EXCEPT ![f] = NewRoot(r, f)], free \ {f}, roots \cup {f},
                [L EXCEPT ![f] = 1], U, {})
<1> DEFINE M == [L EXCEPT ![f] = 1]
           n == [mem EXCEPT ![f] = NewRoot(r, f)]
           rs == roots \cup {f}
<1>1. /\ mem \in Memory /\ f \in Frames /\ r \in Frames
      /\ free \in SUBSET Frames /\ roots \in SUBSET Frames
      /\ U \in SUBSET Frames /\ L \in [Frames -> 0 .. Levels + 1]
  BY Zenon DEF Tree, Typed, Memory
<1>2. L[f] = 0 /\ f \notin roots /\ f \notin U /\ L[r] = 1 /\ r \notin U
  BY <1>1 DEF Tree, Leveled
<1>3. /\ M \in [Frames -> 0 .. Levels + 1] /\ M[f] = 1
      /\ \A g \in Frames : g # f => M[g] = L[g]
  BY <1>1, LevelsAre
<1> HIDE DEF M
<1>4. /\ n \in Memory
      /\ \A i \in KernelTop : n[f][i] = mem[r][i]
      /\ n[f][Fractal] # Absent /\ n[f][Fractal].to = f
      /\ \A i \in UserTop : n[f][i] = Absent
      /\ \A g \in Frames : g # f => n[g] = mem[g]
  <2> DEFINE row == NewRoot(r, f)
             e == Entry(f, {"Writable", "No_Execute"})
  <2>1. e \in Entries /\ e # Absent /\ e.to = f
    BY Zenon, <1>1, EntryIs DEF Rights
  <2>2. row = [i \in Indices |-> IF i \in KernelTop THEN mem[r][i]
                                 ELSE IF i = Fractal THEN e ELSE Absent]
    BY Zenon DEF NewRoot
  <2> HIDE DEF e
  <2>3. /\ row \in [Indices -> Entries \cup {Absent}]
        /\ \A i \in KernelTop : row[i] = mem[r][i]
        /\ row[Fractal] = e
        /\ \A i \in UserTop : row[i] = Absent
    BY <1>1, <2>1, <2>2, PagingAssumption DEF Memory, Indices
  <2>4. n \in Memory /\ n[f] = row /\ \A g \in Frames : g # f => n[g] = mem[g]
    <3>1. n = [mem EXCEPT ![f] = row]
      BY Zenon
    <3> HIDE DEF row, n
    <3> QED
      BY Zenon, <1>1, <2>3, <3>1 DEF Memory
  <2> HIDE DEF row, n
  <2> QED
    BY Zenon, <2>1, <2>3, <2>4
<1> HIDE DEF n
<1>5. \A g \in Frames, j \in Indices : g # f => (Live(rs, M, g, j) <=> Live(roots, L, g, j))
  BY Zenon, <1>3 DEF Live
<1>6. \A g \in Frames, j \in Indices :
        Live(roots, L, g, j) /\ mem[g][j] # Absent => g # f /\ mem[g][j].to # f
  BY <1>1, <1>2, LevelsAre, DeviceIs DEF Tree, Leads, Live
<1>7. \A j \in Indices :
        Live(rs, M, f, j) /\ n[f][j] # Absent =>
            /\ j \in KernelTop /\ j \notin UserTop /\ n[f][j] = mem[r][j]
            /\ Live(roots, L, r, j) /\ mem[r][j] # Absent
  BY <1>2, <1>3, <1>4, PagingAssumption DEF Live, Tops
<1>a. Typed(n, free \ {f}, rs, M, U, {})
  BY Zenon, <1>1, <1>3, <1>4 DEF Typed, Memory
<1>b. Leveled(free \ {f}, rs, M, U, {})
  BY <1>1, <1>2, <1>3, LevelsAre DEF Tree, Leveled
<1>c. Leads(n, rs, M, U, {})
  <2> SUFFICES ASSUME NEW g \in Frames, NEW j \in Indices,
                      Live(rs, M, g, j), n[g][j] # Absent
               PROVE  \/ /\ n[g][j].to \in Frames \ {}
                         /\ M[n[g][j].to] = M[g] + 1
                         /\ n[g][j].to \in U <=> g \in U \/ (g \in rs /\ j \in UserTop)
                      \/ n[g][j].to = Device /\ M[g] = Levels /\ (g \notin U \/ Device \in {})
    BY Zenon DEF Leads
  <2>1. CASE g = f
    <3>1. /\ j \in KernelTop /\ j \notin UserTop /\ n[f][j] = mem[r][j]
          /\ Live(roots, L, r, j) /\ mem[r][j] # Absent
      BY Zenon, <1>7, <2>1
    <3>2. /\ mem[r][j].to \in Frames /\ L[mem[r][j].to] = 2 /\ mem[r][j].to \notin U
          /\ mem[r][j].to # f
      BY <1>1, <1>2, <1>6, <3>1, LevelsAre DEF Tree, Leads
    <3> QED
      BY <1>2, <1>3, <2>1, <3>1, <3>2
  <2>2. CASE g # f
    <3>1. /\ Live(roots, L, g, j) /\ mem[g][j] # Absent /\ n[g][j] = mem[g][j]
          /\ mem[g][j].to # f
      BY <1>4, <1>5, <1>6, <2>2
    <3>2. \/ /\ mem[g][j].to \in Frames
             /\ L[mem[g][j].to] = L[g] + 1
             /\ mem[g][j].to \in U <=> g \in U \/ (g \in roots /\ j \in UserTop)
          \/ mem[g][j].to = Device /\ L[g] = Levels /\ (g \notin U \/ Device \in {})
      BY Zenon, <3>1 DEF Tree, Leads
    <3> QED
      BY Zenon, <1>3, <2>2, <3>1, <3>2
  <2> QED
    BY Zenon, <2>1, <2>2
<1>d. Once(n, rs, M)
  <2> DEFINE As(g) == IF g = f THEN r ELSE g
  <2>1. \A g \in Frames, j \in Indices :
          Live(rs, M, g, j) /\ n[g][j] # Absent =>
              /\ As(g) \in Frames /\ Live(roots, L, As(g), j) /\ mem[As(g)][j] # Absent
              /\ n[g][j] = mem[As(g)][j]
              /\ g = f => j \in KernelTop
    BY Zenon, <1>1, <1>4, <1>5, <1>7
  <2> SUFFICES ASSUME NEW g \in Frames, NEW h \in Frames, NEW j \in Indices, NEW k \in Indices,
                      Live(rs, M, g, j), n[g][j] # Absent,
                      Live(rs, M, h, k), n[h][k] # Absent,
                      n[g][j].to \in Frames, n[g][j].to = n[h][k].to
               PROVE  j = k /\ (g = h \/ (g \in rs /\ h \in rs /\ j \in KernelTop))
    BY DEF Once
  <2>2. /\ j = k
        /\ As(g) = As(h) \/ (As(g) \in roots /\ As(h) \in roots /\ j \in KernelTop)
    <3>1. /\ As(g) \in Frames /\ Live(roots, L, As(g), j) /\ mem[As(g)][j] # Absent
          /\ As(h) \in Frames /\ Live(roots, L, As(h), k) /\ mem[As(h)][k] # Absent
          /\ n[g][j] = mem[As(g)][j] /\ n[h][k] = mem[As(h)][k]
      BY Zenon, <2>1
    <3>2. mem[As(g)][j].to \in Frames /\ mem[As(g)][j].to = mem[As(h)][k].to
      <4> HIDE DEF As
      <4> QED
        BY Zenon, <3>1
    <3>3. Once(mem, roots, L)
      BY Zenon DEF Tree
    <3> HIDE DEF As
    <3> QED
      BY Zenon, <3>1, <3>2, <3>3 DEF Once
  <2> QED
    BY Zenon, <2>1, <2>2
<1>e. Owned(n, rs, M, {})
  <2> SUFFICES ASSUME NEW g \in Frames, M[g] >= 2
               PROVE  \E h \in Frames, j \in Indices :
                         Live(rs, M, h, j) /\ n[h][j] # Absent /\ n[h][j].to = g
    BY Zenon DEF Owned
  <2>1. L[g] >= 2
    BY <1>3
  <2>2. PICK h \in Frames, j \in Indices :
          Live(roots, L, h, j) /\ mem[h][j] # Absent /\ mem[h][j].to = g
    BY Zenon, <2>1 DEF Tree, Owned
  <2> QED
    BY Zenon, <1>4, <1>5, <1>6, <2>2
<1>f. Shared(n, rs)
  <2>1. \A s \in rs, i \in KernelTop : n[s][i] = mem[r][i]
    BY <1>1, <1>2, <1>4 DEF Tree, Shared
  <2>2. \A s \in rs : n[s][Fractal] # Absent /\ n[s][Fractal].to = s
    BY <1>1, <1>2, <1>4 DEF Tree, Shared
  <2>3. \A i \in KernelTop : mem[r][i] # Absent /\ mem[r][i].rights = {"Writable", "No_Execute"}
    BY DEF Tree, Shared
  <2> QED
    BY <2>1, <2>2, <2>3 DEF Shared
<1>g. Safe(n, M)
  BY <1>3, <1>4, LevelsAre DEF Tree, Safe
<1> QED
  BY Zenon, <1>a, <1>b, <1>c, <1>d, <1>e, <1>f, <1>g DEF Tree, n, M

-----------------------------------------------------------------------------

(* What lies under a root, level by level, and page_table_fini.            *)
(*                                                                         *)
(* That the naturals are well-ordered is a hypothesis of every lemma that  *)
(* rests on an induction; PagingProofs proves it.                          *)
WellOrdered == \A S \in SUBSET Nat : S # {} => \E x \in S : \A y \in S : x <= y

(* Induction up to n, over the set of the numbers for which a fact holds.  *)
LEMMA Induction ==
    ASSUME WellOrdered, NEW n \in Nat, NEW S, 0 \in S,
           \A k \in 0 .. n : k \in S /\ k # n => k + 1 \in S
    PROVE  \A k \in 0 .. n : k \in S
<1> DEFINE T == {k \in 0 .. n : k \notin S}
<1> SUFFICES ASSUME T # {}
             PROVE  FALSE
  BY Zenon
<1>1. PICK k \in T : \A m \in T : k <= m
  <2>1. T \in SUBSET Nat
    OBVIOUS
  <2> HIDE DEF T
  <2> QED
    BY Zenon, <2>1 DEF WellOrdered
<1>2. k \in 1 .. n /\ k - 1 \in 0 .. n /\ k - 1 \notin T
  BY <1>1
<1>3. k - 1 \in S /\ k - 1 # n /\ (k - 1) + 1 = k
  BY <1>2
<1> QED
  BY Zenon, <1>2, <1>3

Rung(tops, k) == IF k = 1 THEN tops ELSE Low

LEMMA TargetsRoot ==
    ASSUME WellOrdered, NEW r, NEW tops
    PROVE  Targets(r, tops, 0) = {r}
BY Zenon, Down!LoopIs DEF WellOrdered, Targets

LEMMA TargetsNext ==
    ASSUME WellOrdered, NEW r, NEW tops, NEW k \in Nat
    PROVE  \A x : x \in Targets(r, tops, k + 1) <=>
                    \E t \in Targets(r, tops, k), i \in Rung(tops, k + 1) :
                        mem[t][i] # Absent /\ mem[t][i].to = x
<1> DEFINE on == [mem |-> mem, tops |-> tops]
           T == Targets(r, tops, k)
           I == Rung(tops, k + 1)
<1>1. on.mem = mem /\ on.tops = tops
  BY Zenon
<1>2. \A n : Targets(r, tops, n) = Down!Loop(on, {r}, n)
  BY Zenon DEF Targets
<1> HIDE DEF on
<1>3. \A n \in Nat : Down!Loop(on, {r}, n + 1) = Below(on, Down!Loop(on, {r}, n), n + 1)
  BY Zenon, Down!LoopIs DEF WellOrdered
<1>4. Targets(r, tops, k + 1) = Below(on, T, k + 1)
  BY Zenon, <1>2, <1>3
<1> HIDE DEF T
<1>5. Below(on, T, k + 1) = {mem[l[1]][l[2]].to : l \in {e \in T \X I : mem[e[1]][e[2]] # Absent}}
  BY Zenon, <1>1 DEF Below, Rung
<1> HIDE DEF I
<1>6. \A x : x \in Below(on, T, k + 1) <=>
               \E t \in T, i \in I : mem[t][i] # Absent /\ mem[t][i].to = x
  <2>1. ASSUME NEW x, x \in Below(on, T, k + 1)
        PROVE  \E t \in T, i \in I : mem[t][i] # Absent /\ mem[t][i].to = x
    <3>1. PICK l \in T \X I : mem[l[1]][l[2]] # Absent /\ mem[l[1]][l[2]].to = x
      BY Zenon, <1>5, <2>1
    <3>2. l[1] \in T /\ l[2] \in I
      BY Zenon, <3>1
    <3> QED
      BY Zenon, <3>1, <3>2
  <2>2. ASSUME NEW x, NEW t \in T, NEW i \in I, mem[t][i] # Absent, mem[t][i].to = x
        PROVE  x \in Below(on, T, k + 1)
    <3>1. <<t, i>> \in T \X I /\ <<t, i>>[1] = t /\ <<t, i>>[2] = i
      BY Zenon
    <3>2. <<t, i>> \in {e \in T \X I : mem[e[1]][e[2]] # Absent}
      BY Zenon, <2>2, <3>1
    <3> QED
      BY Zenon, <1>5, <2>2, <3>1, <3>2
  <2> QED
    BY Zenon, <2>1, <2>2
<1> QED
  BY Zenon, <1>4, <1>6 DEF T, I

(* Below the lower half of a root there are tables and pages of U, one     *)
(* level deeper at each step, and no device.                               *)
LEMMA LowerHalf ==
    ASSUME WellOrdered, NEW L, NEW U, Tree(mem, free, roots, L, U, {}), NEW r \in roots
    PROVE  \A k \in 0 .. Levels : \A x \in Targets(r, UserTop, k) :
              x \in Frames /\ L[x] = k + 1 /\ (k # 0 => x \in U) /\ (k = 0 => x = r)
<1> DEFINE T(k) == Targets(r, UserTop, k)
           Fine(k) == \A x \in T(k) :
              x \in Frames /\ L[x] = k + 1 /\ (k # 0 => x \in U) /\ (k = 0 => x = r)
           S == {k \in 0 .. Levels : Fine(k)}
<1>1. /\ Levels \in Nat /\ Levels >= 2 /\ roots \in SUBSET Frames
      /\ UserTop \subseteq Indices /\ Low \subseteq Indices /\ UserTop \subseteq Tops
      /\ L \in [Frames -> 0 .. Levels + 1]
  BY Zenon, LevelsAre DEF Tree, Typed, Tops
<1>2. T(0) = {r} /\ r \in Frames /\ L[r] = 1
  BY Zenon, <1>1, TargetsRoot DEF Tree, Leveled
<1>3. \A k \in Nat : \A x : x \in T(k + 1) <=>
            \E t \in T(k), i \in Rung(UserTop, k + 1) : mem[t][i] # Absent /\ mem[t][i].to = x
  BY TargetsNext
<1> HIDE DEF T
<1>4. 0 \in S
  BY <1>1, <1>2
<1>5. ASSUME NEW k \in 0 .. Levels, k \in S, k # Levels
      PROVE  k + 1 \in S
  <2>1. k \in Nat /\ k + 1 \in 0 .. Levels /\ k + 1 # 0 /\ Fine(k)
    BY <1>1, <1>5
  <2>2. ASSUME NEW x \in T(k + 1)
        PROVE  x \in Frames /\ L[x] = (k + 1) + 1 /\ x \in U
    <3>1. PICK t \in T(k), i \in Rung(UserTop, k + 1) : mem[t][i] # Absent /\ mem[t][i].to = x
      BY Zenon, <1>3, <2>1
    <3>2. /\ t \in Frames /\ L[t] = k + 1 /\ (k # 0 => t \in U) /\ (k = 0 => t = r)
      BY Zenon, <2>1, <3>1
    <3>3. i \in Indices /\ Live(roots, L, t, i) /\ (k = 0 => t \in roots /\ i \in UserTop)
      BY <1>1, <1>5, <2>1, <3>1, <3>2 DEF Rung, Live
    <3>4. \/ /\ x \in Frames
             /\ L[x] = L[t] + 1
             /\ x \in U <=> t \in U \/ (t \in roots /\ i \in UserTop)
          \/ L[t] = Levels /\ t \notin U
      BY Zenon, <3>1, <3>2, <3>3 DEF Tree, Leads
    <3> QED
      BY <1>1, <2>1, <3>2, <3>3, <3>4
  <2>3. Fine(k + 1)
    BY Zenon, <2>1, <2>2
  <2> QED
    BY Zenon, <2>1, <2>3
<1>6. \A k \in 0 .. Levels : k \in S
  <2> HIDE DEF S
  <2> QED
    BY Zenon, <1>1, <1>4, <1>5, Induction
<1> QED
  BY Zenon, <1>6 DEF T

(* What page_table_fini frees is closed under the links of the lower half, *)
(* and is linked from nowhere else.                                        *)
LEMMA FreedIs ==
    ASSUME WellOrdered, NEW L, NEW U, Tree(mem, free, roots, L, U, {}), NEW r \in roots
    PROVE  /\ r \in Freed(r) /\ Freed(r) \in SUBSET Frames
           /\ \A f \in Freed(r) : f = r \/ (f \in U /\ f \notin roots)
           /\ \A f \in Freed(r), i \in Indices :
                 Live(roots, L, f, i) /\ mem[f][i] # Absent /\ (f = r => i \in UserTop)
                    => mem[f][i].to \in Freed(r)
           /\ \A f \in Frames, i \in Indices :
                 /\ Live(roots, L, f, i) /\ mem[f][i] # Absent
                 /\ mem[f][i].to \in Freed(r)
                 => f \in Freed(r)
<1> DEFINE T(k) == Targets(r, UserTop, k)
           F == Freed(r)
<1>1. /\ Levels \in Nat /\ Levels >= 2 /\ roots \in SUBSET Frames
      /\ UserTop \subseteq Indices /\ Low \subseteq Indices
      /\ L \in [Frames -> 0 .. Levels + 1] /\ UserTop \cap KernelTop = {}
      /\ \A f \in Frames : /\ L[f] = 1 <=> f \in roots
                           /\ f \in U => L[f] >= 2
  BY Zenon, LevelsAre, PagingAssumption DEF Tree, Typed, Tops, Leveled
<1>2. \A k \in 0 .. Levels : \A x \in T(k) :
         x \in Frames /\ L[x] = k + 1 /\ (k # 0 => x \in U) /\ (k = 0 => x = r)
  BY Zenon, LowerHalf
<1>3. T(0) = {r}
  BY Zenon, TargetsRoot
<1>4. \A k \in Nat : \A x : x \in T(k + 1) <=>
            \E t \in T(k), i \in Rung(UserTop, k + 1) : mem[t][i] # Absent /\ mem[t][i].to = x
  BY TargetsNext
<1>5. \A x : x \in F <=> \E k \in 0 .. Levels : x \in T(k)
  <2>1. F = {r} \cup UNION {T(k) : k \in 1 .. Levels}
    BY Zenon DEF Freed
  <2> HIDE DEF F, T
  <2>2. \A x : x \in F <=> x = r \/ \E k \in 1 .. Levels : x \in T(k)
    BY Zenon, <2>1
  <2>3. \A k : k \in 0 .. Levels <=> k = 0 \/ k \in 1 .. Levels
    BY <1>1
  <2> QED
    BY Zenon, <1>3, <2>2, <2>3
<1> HIDE DEF F, T
<1>6. /\ r \in F /\ F \in SUBSET Frames
      /\ \A f \in F : f = r \/ (f \in U /\ f \notin roots)
  <2>1. 0 \in 0 .. Levels
    BY <1>1
  <2>2. r \in F /\ F \in SUBSET Frames
    BY Zenon, <1>2, <1>3, <1>5, <2>1
  <2>3. ASSUME NEW f \in F, f # r
        PROVE  f \in U /\ f \notin roots
    BY <1>1, <1>2, <1>5, <2>2, <2>3
  <2> QED
    BY Zenon, <2>2, <2>3
<1>7. ASSUME NEW f \in F, NEW i \in Indices, Live(roots, L, f, i), mem[f][i] # Absent,
             f = r => i \in UserTop
      PROVE  mem[f][i].to \in F
  <2>1. PICK k \in 0 .. Levels : f \in T(k)
    BY Zenon, <1>5
  <2>2. /\ f \in Frames /\ L[f] = k + 1 /\ (k # 0 => f \notin roots) /\ (k = 0 => f = r)
    BY <1>1, <1>2, <2>1
  <2>3. k + 1 \in 0 .. Levels /\ k \in Nat
    BY <1>1, <1>7, <2>2 DEF Live
  <2>4. i \in Rung(UserTop, k + 1)
    BY Zenon, <1>1, <1>7, <2>2, <2>3 DEF Rung, Live
  <2>5. mem[f][i].to \in T(k + 1)
    BY Zenon, <1>4, <1>7, <2>1, <2>3, <2>4
  <2> QED
    BY Zenon, <1>5, <2>3, <2>5
<1>8. ASSUME NEW f \in Frames, NEW i \in Indices, Live(roots, L, f, i), mem[f][i] # Absent,
             mem[f][i].to \in F
      PROVE  f \in F
  <2> DEFINE x == mem[f][i].to
  <2>1. x \in Frames /\ L[x] = L[f] + 1 /\ L[f] >= 1
    BY <1>1, <1>6, <1>8, DeviceIs DEF Tree, Leads, Live
  <2>2. PICK k \in 0 .. Levels : x \in T(k)
    BY Zenon, <1>5, <1>8
  <2>3. L[x] = k + 1 /\ k # 0 /\ k - 1 \in Nat /\ (k - 1) + 1 = k /\ k - 1 \in 0 .. Levels
    BY <1>1, <1>2, <2>1, <2>2
  <2>4. PICK t \in T(k - 1), j \in Rung(UserTop, k) : mem[t][j] # Absent /\ mem[t][j].to = x
    BY <1>4, <2>2, <2>3
  <2>5. t \in Frames /\ L[t] = k /\ t \in F
    BY Zenon, <1>2, <1>5, <2>3, <2>4
  <2>6. j \in Indices /\ Live(roots, L, t, j) /\ (t \in roots => j \in UserTop)
    BY <1>1, <1>2, <2>3, <2>4, <2>5 DEF Rung, Live, Tops
  <2>7. i = j /\ (f = t \/ (f \in roots /\ t \in roots /\ i \in KernelTop))
    BY Zenon, <1>8, <2>1, <2>4, <2>5, <2>6 DEF Tree, Once
  <2> QED
    BY Zenon, <1>1, <2>5, <2>6, <2>7
<1> QED
  BY Zenon, <1>6, <1>7, <1>8 DEF F

(* page_table_fini keeps the forest, when another tree is in use. *)
LEMMA FiniKeeps ==
    ASSUME WellOrdered, NEW L, NEW U, Tree(mem, free, roots, L, U, {}), NEW r \in roots,
           NEW c \in roots, c # r
    PROVE  Tree([f \in Frames |-> IF f \in Freed(r) THEN Junk ELSE mem[f]],
                free \cup Freed(r), roots \ {r},
                [f \in Frames |-> IF f \in Freed(r) THEN 0 ELSE L[f]], U \ Freed(r), {})
<1> DEFINE F == Freed(r)
           n == [f \in Frames |-> IF f \in F THEN Junk ELSE mem[f]]
           M == [f \in Frames |-> IF f \in F THEN 0 ELSE L[f]]
           V == U \ F
           rs == roots \ {r}
           fr == free \cup F
<1>1. /\ mem \in Memory /\ free \in SUBSET Frames /\ roots \in SUBSET Frames
      /\ U \in SUBSET Frames /\ L \in [Frames -> 0 .. Levels + 1]
      /\ Levels \in Nat /\ Levels >= 2 /\ Tops \subseteq Indices /\ Low \subseteq Indices
      /\ Fractal \in Indices
  BY Zenon, LevelsAre DEF Tree, Typed, Memory
<1>2. /\ r \in F /\ F \in SUBSET Frames
      /\ \A f \in F : f = r \/ (f \in U /\ f \notin roots)
  BY Zenon, FreedIs
<1>3. \A f \in F, i \in Indices :
        Live(roots, L, f, i) /\ mem[f][i] # Absent /\ (f = r => i \in UserTop)
           => mem[f][i].to \in F
  BY Zenon, FreedIs
<1>4. \A f \in Frames, i \in Indices :
        Live(roots, L, f, i) /\ mem[f][i] # Absent /\ mem[f][i].to \in F => f \in F
  BY Zenon, FreedIs
<1> HIDE DEF F
<1>5. /\ n \in Memory /\ \A f \in Frames : f \notin F => n[f] = mem[f]
  <2>1. Junk \in [Indices -> Entries \cup {Absent}]
    <3>1. Entry(Device, {}) \in Entries
      BY Zenon, EntryIs
    <3> QED
      BY Zenon, <3>1 DEF Junk
  <2> QED
    BY Zenon, <1>1, <2>1 DEF Memory
<1>6. /\ M \in [Frames -> 0 .. Levels + 1]
      /\ \A f \in Frames : f \in F => M[f] = 0
      /\ \A f \in Frames : f \notin F => M[f] = L[f]
  BY <1>1
<1>7. /\ rs \in SUBSET Frames /\ fr \in SUBSET Frames /\ V \in SUBSET Frames
      /\ \A f : f \in rs <=> f \in roots /\ f \notin F
      /\ \A f : f \in fr <=> f \in free \/ f \in F
      /\ \A f : f \in V <=> f \in U /\ f \notin F
  BY Zenon, <1>1, <1>2
<1> HIDE DEF n, M, V, rs, fr
<1>8. \A f \in Frames, i \in Indices :
        Live(rs, M, f, i) <=> f \notin F /\ Live(roots, L, f, i)
  BY <1>1, <1>6, <1>7 DEF Live
<1>9. \A f \in Frames, i \in Indices :
        Live(rs, M, f, i) /\ n[f][i] # Absent =>
           /\ f \notin F /\ Live(roots, L, f, i) /\ mem[f][i] # Absent
           /\ n[f][i] = mem[f][i] /\ mem[f][i].to \notin F
  BY <1>4, <1>5, <1>8
<1>a. Typed(n, fr, rs, M, V, {})
  BY Zenon, <1>5, <1>6, <1>7 DEF Typed, Memory
<1>b. Leveled(fr, rs, M, V, {})
  BY <1>1, <1>6, <1>7 DEF Tree, Leveled
<1>c. Leads(n, rs, M, V, {})
  <2> SUFFICES ASSUME NEW g \in Frames, NEW j \in Indices,
                      Live(rs, M, g, j), n[g][j] # Absent
               PROVE  \/ /\ n[g][j].to \in Frames \ {}
                         /\ M[n[g][j].to] = M[g] + 1
                         /\ n[g][j].to \in V <=> g \in V \/ (g \in rs /\ j \in UserTop)
                      \/ n[g][j].to = Device /\ M[g] = Levels /\ (g \notin V \/ Device \in {})
    BY Zenon DEF Leads
  <2>1. /\ g \notin F /\ Live(roots, L, g, j) /\ mem[g][j] # Absent
        /\ n[g][j] = mem[g][j] /\ mem[g][j].to \notin F
    BY Zenon, <1>9
  <2>2. \/ /\ mem[g][j].to \in Frames \ {}
           /\ L[mem[g][j].to] = L[g] + 1
           /\ mem[g][j].to \in U <=> g \in U \/ (g \in roots /\ j \in UserTop)
        \/ mem[g][j].to = Device /\ L[g] = Levels /\ (g \notin U \/ Device \in {})
    BY Zenon, <2>1 DEF Tree, Leads
  <2> QED
    BY Zenon, <1>6, <1>7, <2>1, <2>2
<1>d. Once(n, rs, M)
  <2> SUFFICES ASSUME NEW g \in Frames, NEW h \in Frames, NEW j \in Indices, NEW k \in Indices,
                      Live(rs, M, g, j), n[g][j] # Absent,
                      Live(rs, M, h, k), n[h][k] # Absent,
                      n[g][j].to \in Frames, n[g][j].to = n[h][k].to
               PROVE  j = k /\ (g = h \/ (g \in rs /\ h \in rs /\ j \in KernelTop))
    BY DEF Once
  <2>1. j = k /\ (g = h \/ (g \in roots /\ h \in roots /\ j \in KernelTop))
    BY <1>9 DEF Tree, Once
  <2> QED
    BY Zenon, <1>7, <1>9, <2>1
<1>e. Owned(n, rs, M, {})
  <2> SUFFICES ASSUME NEW t \in Frames, M[t] >= 2
               PROVE  \E h \in Frames, j \in Indices :
                         Live(rs, M, h, j) /\ n[h][j] # Absent /\ n[h][j].to = t
    BY Zenon DEF Owned
  <2>1. t \notin F /\ L[t] >= 2
    BY <1>6
  <2>2. PICK g \in Frames, i \in Indices :
          Live(roots, L, g, i) /\ mem[g][i] # Absent /\ mem[g][i].to = t
    BY Zenon, <2>1 DEF Tree, Owned
  <2>3. CASE g \notin F
    BY Zenon, <1>5, <1>8, <2>2, <2>3
  <2>4. CASE g \in F
    <3>1. g = r /\ i \notin UserTop
      BY Zenon, <1>3, <2>1, <2>2, <2>4
    <3>2. i \in KernelTop
      BY <1>1, <2>2, <3>1 DEF Live, Tops, Tree, Leveled
    <3>3. c \in Frames /\ c \notin F /\ Live(roots, L, c, i) /\ mem[c][i] = mem[r][i]
      BY <1>1, <1>2, <3>2 DEF Live, Tops, Tree, Shared
    <3> QED
      BY Zenon, <1>5, <1>8, <2>2, <3>1, <3>3
  <2> QED
    BY Zenon, <2>3, <2>4
<1>f. Shared(n, rs)
  <2>1. \A g \in rs : g \in roots /\ n[g] = mem[g]
    BY Zenon, <1>1, <1>5, <1>7
  <2> QED
    BY <2>1 DEF Tree, Shared
<1>g. Safe(n, M)
  <2> SUFFICES ASSUME NEW g \in Frames, NEW j \in Low, M[g] = Levels, n[g][j] # Absent
               PROVE  "Writable" \notin n[g][j].rights \/ "No_Execute" \in n[g][j].rights
    BY Zenon DEF Safe
  <2>1. g \notin F /\ n[g] = mem[g] /\ L[g] = Levels
    BY <1>1, <1>5, <1>6
  <2> QED
    BY Zenon, <2>1 DEF Tree, Safe
<1> QED
  BY Zenon, <1>a, <1>b, <1>c, <1>d, <1>e, <1>f, <1>g DEF Tree, F, n, M, V, rs, fr
=============================================================================
