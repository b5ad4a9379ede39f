---------------------------- MODULE PagingWalks -----------------------------
(***************************************************************************)
(* What a walk of the tables finds, and what map_page, unmap_page,         *)
(* map_update_page and the loops over a range do to the translations of a  *)
(* tree, for any number of levels, frames, trees and addresses.  Writing   *)
(* an entry changes the translation of one page, since no other page's     *)
(* walk meets that entry (PagingTrees, Once).                              *)
(***************************************************************************)
EXTENDS PagingTrees

LEMMA TableRoot ==
    ASSUME WellOrdered, NEW m, NEW r, NEW page
    PROVE  Table(m, r, page, 1) = r
BY Walk!LoopIs DEF WellOrdered, Table

LEMMA TableNext ==
    ASSUME WellOrdered, NEW m, NEW r, NEW page, NEW k \in Nat \ {0}
    PROVE  Table(m, r, page, k + 1) = Follow(m, Table(m, r, page, k), page[k])
<1> DEFINE on == [mem |-> m, page |-> page]
<1>1. on.mem = m /\ on.page = page
  BY Zenon
<1>2. k - 1 \in Nat /\ (k - 1) + 1 = k /\ (k + 1) - 1 = k
  OBVIOUS
<1>3. \A j : Table(m, r, page, j) = Walk!Loop(on, r, j - 1)
  BY Zenon DEF Table
<1> HIDE DEF on
<1>5. Table(m, r, page, k + 1) = Walk!Loop(on, r, k)
  BY Zenon, <1>2, <1>3
<1>4. Walk!Loop(on, r, k) = Descend(on, Walk!Loop(on, r, k - 1), k)
  <2>1. \A n \in Nat : Walk!Loop(on, r, n + 1) = Descend(on, Walk!Loop(on, r, n), n + 1)
    BY Zenon, Walk!LoopIs DEF WellOrdered
  <2> QED
    BY Zenon, <1>2, <2>1
<1> QED
  BY Zenon, <1>1, <1>3, <1>4, <1>5 DEF Descend

LEMMA AddressEqual ==
    ASSUME NEW p \in Address, NEW q \in Address, \A k \in 1 .. Levels : p[k] = q[k]
    PROVE  p = q
<1> DEFINE D == 1 .. Levels
<1>1. p \in [D -> Indices] /\ q \in [D -> Indices] /\ \A k \in D : p[k] = q[k]
  BY Zenon DEF Address
<1> HIDE DEF D
<1>2. p = [k \in D |-> p[k]] /\ q = [k \in D |-> q[k]]
  BY Zenon, <1>1
<1>3. [k \in D |-> p[k]] = [k \in D |-> q[k]]
  BY Zenon, <1>1
<1> QED
  BY Zenon, <1>2, <1>3

LEMMA AddressIs ==
    ASSUME NEW page \in Address
    PROVE  /\ page[1] \in Tops
           /\ \A k \in 1 .. Levels : page[k] \in Indices /\ (k # 1 => page[k] \in Low)
BY LevelsAre DEF Address

(* A walk meets a table of the right level, or ends. *)
LEMMA WalkIs ==
    ASSUME WellOrdered, NEW m, NEW fr, NEW rs, NEW L, NEW U, NEW P, Tree(m, fr, rs, L, U, P),
           NEW r \in rs, NEW page \in Address
    PROVE  \A k \in 1 .. Levels :
              Table(m, r, page, k) # Absent =>
                  /\ Table(m, r, page, k) \in Frames
                  /\ L[Table(m, r, page, k)] = k
                  /\ Live(rs, L, Table(m, r, page, k), page[k])
<1> DEFINE T(k) == Table(m, r, page, k)
           Fine(k) == T(k) # Absent => T(k) \in Frames /\ L[T(k)] = k
           S == {k \in 0 .. Levels - 1 : Fine(k + 1)}
<1>1. /\ m \in Memory /\ rs \in SUBSET Frames /\ L \in [Frames -> 0 .. Levels + 1]
      /\ Levels - 1 \in Nat /\ Levels \in Nat
  BY LevelsAre DEF Tree, Typed, Memory
<1>2. T(1) = r /\ \A k \in Nat \ {0} : T(k + 1) = Follow(m, T(k), page[k])
  BY TableRoot, TableNext
<1> HIDE DEF T
<1>3. ASSUME NEW k \in 1 .. Levels, Fine(k), T(k) # Absent
      PROVE  Live(rs, L, T(k), page[k])
  <2>1. CASE k = 1
    BY Zenon, <1>2, <2>1, AddressIs DEF Live
  <2>2. CASE k # 1
    BY <1>1, <1>3, <2>2, AddressIs DEF Live
  <2> QED
    BY Zenon, <2>1, <2>2
<1>4. 0 \in S
  BY <1>1, <1>2 DEF Tree, Leveled
<1>5. ASSUME NEW k \in 0 .. Levels - 1, k \in S, k # Levels - 1
      PROVE  k + 1 \in S
  <2>1. k + 1 \in 1 .. Levels /\ k + 1 \in Nat \ {0} /\ k + 1 \in 0 .. Levels - 1
        /\ k + 1 < Levels /\ page[k + 1] \in Indices
    BY <1>1, <1>5, AddressIs
  <2> SUFFICES ASSUME T((k + 1) + 1) # Absent
               PROVE  /\ T((k + 1) + 1) \in Frames
                      /\ L[T((k + 1) + 1)] = (k + 1) + 1
    BY Zenon, <2>1
  <2>2. /\ T(k + 1) # Absent /\ m[T(k + 1)][page[k + 1]] # Absent
        /\ T((k + 1) + 1) = m[T(k + 1)][page[k + 1]].to
    BY Zenon, <1>2, <2>1 DEF Follow
  <2>3. Fine(k + 1) /\ Live(rs, L, T(k + 1), page[k + 1])
    BY Zenon, <1>3, <1>5, <2>1, <2>2
  <2>4. T(k + 1) \in Frames /\ L[T(k + 1)] = k + 1
    BY Zenon, <2>2, <2>3
  <2>5. Leads(m, rs, L, U, P)
    BY Zenon DEF Tree
  <2> QED
    BY <1>1, <2>1, <2>2, <2>3, <2>4, <2>5 DEF Leads
<1>6. \A k \in 0 .. Levels - 1 : k \in S
  <2> HIDE DEF S
  <2> QED
    BY Zenon, <1>1, <1>4, <1>5, Induction
<1>7. \A k \in 1 .. Levels : Fine(k)
  <2> SUFFICES ASSUME NEW k \in 1 .. Levels
               PROVE  Fine(k)
    BY Zenon
  <2>1. k - 1 \in 0 .. Levels - 1 /\ (k - 1) + 1 = k
    BY <1>1
  <2>2. k - 1 \in S
    BY Zenon, <1>6, <2>1
  <2>3. Fine((k - 1) + 1)
    BY Zenon, <2>2
  <2> QED
    BY Zenon, <2>1, <2>3
<1> QED
  BY Zenon, <1>3, <1>7 DEF T

(* A walk depends only on the tables above its end. *)
LEMMA WalkSame ==
    ASSUME WellOrdered, NEW m, NEW fr, NEW rs, NEW L, NEW U, NEW P, Tree(m, fr, rs, L, U, P),
           NEW r \in rs, NEW page \in Address, NEW K \in 1 .. Levels, NEW n,
           \A g \in Frames, j \in Indices : L[g] \in 1 .. K - 1 => n[g][j] = m[g][j]
    PROVE  \A k \in 1 .. K : Table(n, r, page, k) = Table(m, r, page, k)
<1> DEFINE T(k) == Table(m, r, page, k)
           V(k) == Table(n, r, page, k)
           S == {k \in 0 .. K - 1 : V(k + 1) = T(k + 1)}
<1>1. K - 1 \in Nat /\ K \in Nat /\ Levels \in Nat
  BY LevelsAre
<1>2. /\ T(1) = r /\ \A k \in Nat \ {0} : T(k + 1) = Follow(m, T(k), page[k])
      /\ V(1) = r /\ \A k \in Nat \ {0} : V(k + 1) = Follow(n, V(k), page[k])
  BY TableRoot, TableNext
<1>3. \A k \in 1 .. Levels : T(k) # Absent => T(k) \in Frames /\ L[T(k)] = k
  BY WalkIs
<1> HIDE DEF T, V
<1>4. 0 \in S
  BY <1>1, <1>2
<1>5. ASSUME NEW k \in 0 .. K - 1, k \in S, k # K - 1
      PROVE  k + 1 \in S
  <2>1. /\ k + 1 \in 1 .. Levels /\ k + 1 \in Nat \ {0} /\ k + 1 \in 0 .. K - 1
        /\ k + 1 \in 1 .. K - 1 /\ page[k + 1] \in Indices
    BY <1>1, <1>5, AddressIs
  <2>2. V(k + 1) = T(k + 1)
    BY Zenon, <1>5
  <2>3. Follow(n, T(k + 1), page[k + 1]) = Follow(m, T(k + 1), page[k + 1])
    BY <1>3, <2>1 DEF Follow
  <2>4. V((k + 1) + 1) = T((k + 1) + 1)
    BY Zenon, <1>2, <2>1, <2>2, <2>3
  <2> QED
    BY Zenon, <2>1, <2>4
<1>6. \A k \in 0 .. K - 1 : k \in S
  <2> HIDE DEF S
  <2> QED
    BY Zenon, <1>1, <1>4, <1>5, Induction
<1>7. ASSUME NEW k \in 1 .. K
      PROVE  V(k) = T(k)
  <2>1. k - 1 \in 0 .. K - 1 /\ (k - 1) + 1 = k
    BY <1>1
  <2>2. k - 1 \in S
    BY Zenon, <1>6, <2>1
  <2>3. V((k - 1) + 1) = T((k - 1) + 1)
    BY Zenon, <2>2
  <2> QED
    BY Zenon, <2>1, <2>3
<1> QED
  BY Zenon, <1>7 DEF T, V

(* Two addresses whose walks meet at a level have the same indices above.  *)
LEMMA WalkOnce ==
    ASSUME WellOrdered, NEW m, NEW fr, NEW rs, NEW L, NEW U, NEW P, Tree(m, fr, rs, L, U, P),
           NEW r \in rs, NEW p \in Address, NEW q \in Address
    PROVE  \A k \in 1 .. Levels :
              Table(m, r, p, k) # Absent /\ Table(m, r, p, k) = Table(m, r, q, k) =>
                  \A j \in 1 .. k - 1 : p[j] = q[j]
<1> DEFINE T(k) == Table(m, r, p, k)
           V(k) == Table(m, r, q, k)
           Fine(k) == T(k) # Absent /\ T(k) = V(k) => \A j \in 1 .. k - 1 : p[j] = q[j]
           S == {k \in 0 .. Levels - 1 : Fine(k + 1)}
<1>1. /\ Levels - 1 \in Nat /\ Levels \in Nat /\ rs \in SUBSET Frames
      /\ \A f \in Frames : L[f] = 1 <=> f \in rs
  BY LevelsAre DEF Tree, Typed, Leveled
<1>2. /\ T(1) = r /\ \A k \in Nat \ {0} : T(k + 1) = Follow(m, T(k), p[k])
      /\ V(1) = r /\ \A k \in Nat \ {0} : V(k + 1) = Follow(m, V(k), q[k])
  BY TableRoot, TableNext
<1>3. \A k \in 1 .. Levels :
        /\ T(k) # Absent => T(k) \in Frames /\ L[T(k)] = k /\ Live(rs, L, T(k), p[k])
        /\ V(k) # Absent => V(k) \in Frames /\ L[V(k)] = k /\ Live(rs, L, V(k), q[k])
  BY WalkIs
<1> HIDE DEF T, V
<1>4. 0 \in S
  BY <1>1
<1>5. ASSUME NEW k \in 0 .. Levels - 1, k \in S, k # Levels - 1
      PROVE  k + 1 \in S
  <2>1. /\ k + 1 \in 1 .. Levels /\ k + 1 \in Nat \ {0} /\ k + 1 \in 0 .. Levels - 1
        /\ (k + 1) + 1 \in 1 .. Levels
        /\ p[k + 1] \in Indices /\ q[k + 1] \in Indices /\ Fine(k + 1)
    BY <1>1, <1>5, AddressIs
  <2> SUFFICES ASSUME T((k + 1) + 1) # Absent, T((k + 1) + 1) = V((k + 1) + 1)
               PROVE  \A j \in 1 .. ((k + 1) + 1) - 1 : p[j] = q[j]
    BY Zenon, <2>1
  <2> DEFINE f == T(k + 1)
             g == V(k + 1)
             i == p[k + 1]
             j == q[k + 1]
  <2>2. /\ f # Absent /\ m[f][i] # Absent /\ T((k + 1) + 1) = m[f][i].to
        /\ g # Absent /\ m[g][j] # Absent /\ V((k + 1) + 1) = m[g][j].to
    BY Zenon, <1>2, <2>1 DEF Follow
  <2>3. /\ f \in Frames /\ L[f] = k + 1 /\ Live(rs, L, f, i)
        /\ g \in Frames /\ L[g] = k + 1 /\ Live(rs, L, g, j)
    BY Zenon, <1>3, <2>1, <2>2
  <2>4. m[f][i].to \in Frames /\ m[f][i].to = m[g][j].to
    BY Zenon, <1>3, <2>1, <2>2
  <2>5. i = j /\ (f = g \/ (f \in rs /\ g \in rs))
    <3>1. Once(m, rs, L) /\ i \in Indices /\ j \in Indices
      BY Zenon, <2>1 DEF Tree
    <3> HIDE DEF f, g, i, j
    <3> QED
      BY Zenon, <2>2, <2>3, <2>4, <3>1 DEF Once
  <2>6. f = g
    <3>1. CASE k = 0
      BY <1>2, <3>1
    <3>2. CASE k # 0
      BY <1>1, <2>1, <2>3, <2>5, <3>2
    <3> QED
      BY Zenon, <3>1, <3>2
  <2>7. \A x \in 1 .. (k + 1) - 1 : p[x] = q[x]
    BY Zenon, <2>1, <2>2, <2>6
  <2> QED
    BY <2>1, <2>5, <2>7
<1>6. \A k \in 0 .. Levels - 1 : k \in S
  <2> HIDE DEF S
  <2> QED
    BY Zenon, <1>1, <1>4, <1>5, Induction
<1>7. ASSUME NEW k \in 1 .. Levels
      PROVE  Fine(k)
  <2>1. k - 1 \in 0 .. Levels - 1 /\ (k - 1) + 1 = k
    BY <1>1
  <2>2. k - 1 \in S
    BY Zenon, <1>6, <2>1
  <2>3. Fine((k - 1) + 1)
    BY Zenon, <2>2
  <2> QED
    BY Zenon, <2>1, <2>3
<1> QED
  BY Zenon, <1>7 DEF T, V

(* The tables of the kernel half are not in U. *)
LEMMA WalkKernel ==
    ASSUME WellOrdered, NEW m, NEW fr, NEW rs, NEW L, NEW U, NEW P, Tree(m, fr, rs, L, U, P),
           NEW r \in rs, NEW page \in Address, page[1] \in KernelTop
    PROVE  \A k \in 1 .. Levels : Table(m, r, page, k) \notin U
<1> DEFINE T(k) == Table(m, r, page, k)
           S == {k \in 0 .. Levels - 1 : T(k + 1) \notin U}
<1>1. /\ Levels - 1 \in Nat /\ Levels \in Nat /\ rs \in SUBSET Frames /\ U \in SUBSET Frames
      /\ \A f \in Frames : /\ L[f] = 1 <=> f \in rs
                           /\ f \in U => L[f] >= 2
  BY LevelsAre DEF Tree, Typed, Leveled
<1>2. T(1) = r /\ \A k \in Nat \ {0} : T(k + 1) = Follow(m, T(k), page[k])
  BY TableRoot, TableNext
<1>3. \A k \in 1 .. Levels :
        T(k) # Absent => T(k) \in Frames /\ L[T(k)] = k /\ Live(rs, L, T(k), page[k])
  BY WalkIs
<1> HIDE DEF T
<1>4. 0 \in S
  BY <1>1, <1>2
<1>5. ASSUME NEW k \in 0 .. Levels - 1, k \in S, k # Levels - 1
      PROVE  k + 1 \in S
  <2>1. /\ k + 1 \in 1 .. Levels /\ k + 1 \in Nat \ {0} /\ k + 1 \in 0 .. Levels - 1
        /\ (k + 1) + 1 \in 1 .. Levels /\ page[k + 1] \in Indices
    BY <1>1, <1>5, AddressIs
  <2> SUFFICES ASSUME T((k + 1) + 1) \in U
               PROVE  FALSE
    BY Zenon, <2>1
  <2> DEFINE f == T(k + 1)
             i == page[k + 1]
  <2>2. /\ f # Absent /\ m[f][i] # Absent /\ T((k + 1) + 1) = m[f][i].to
    BY Zenon, <1>1, <1>2, <2>1, DeviceIs DEF Follow
  <2>3. /\ f \in Frames /\ L[f] = k + 1 /\ Live(rs, L, f, i) /\ f \notin U
    BY Zenon, <1>3, <1>5, <2>1, <2>2
  <2>4. ~ (f \in rs /\ i \in UserTop)
    <3>1. CASE k = 0
      BY <3>1, PagingAssumption
    <3>2. CASE k # 0
      BY <1>1, <2>3, <3>2
    <3> QED
      BY Zenon, <3>1, <3>2
  <2>5. Leads(m, rs, L, U, P) /\ i \in Indices /\ m[f][i].to \in Frames
    BY Zenon, <1>1, <2>1, <2>2 DEF Tree
  <2> HIDE DEF f, i
  <2> QED
    BY Zenon, <2>2, <2>3, <2>4, <2>5, DeviceIs DEF Leads
<1>6. \A k \in 0 .. Levels - 1 : k \in S
  <2> HIDE DEF S
  <2> QED
    BY Zenon, <1>1, <1>4, <1>5, Induction
<1>7. ASSUME NEW k \in 1 .. Levels
      PROVE  T(k) \notin U
  <2>1. k - 1 \in 0 .. Levels - 1 /\ (k - 1) + 1 = k
    BY <1>1
  <2>2. k - 1 \in S
    BY Zenon, <1>6, <2>1
  <2>3. T((k - 1) + 1) \notin U
    BY Zenon, <2>2
  <2> QED
    BY Zenon, <2>1, <2>3
<1> QED
  BY Zenon, <1>7 DEF T

(* Writing the entry of a page changes the translation of no other page.   *)
LEMMA LeafWritten ==
    ASSUME WellOrdered, NEW m, NEW fr, NEW rs, NEW L, NEW U, NEW P, Tree(m, fr, rs, L, U, P),
           NEW r \in rs, NEW p \in Address, LeafTable(m, r, p) # Absent,
           NEW e \in Entries \cup {Absent}
    PROVE  \A q \in Address :
              Leaf(Write(m, LeafTable(m, r, p), p[Levels], e), r, q) =
                  IF q = p THEN e ELSE Leaf(m, r, q)
<1> SUFFICES ASSUME NEW q \in Address
             PROVE  Leaf(Write(m, LeafTable(m, r, p), p[Levels], e), r, q) =
                        IF q = p THEN e ELSE Leaf(m, r, q)
  BY Zenon
<1> DEFINE t == LeafTable(m, r, p)
           g == LeafTable(m, r, q)
           n == Write(m, t, p[Levels], e)
<1>1. /\ m \in Memory /\ Levels \in 1 .. Levels /\ Levels \in Nat
      /\ p[Levels] \in Indices /\ q[Levels] \in Indices
  BY LevelsAre, AddressIs DEF Tree, Typed, Memory
<1>2. /\ t \in Frames /\ L[t] = Levels
      /\ g # Absent => g \in Frames /\ L[g] = Levels
  BY <1>1, WalkIs DEF LeafTable
<1>3. \A f \in Frames, j \in Indices :
        n[f][j] = IF f = t /\ j = p[Levels] THEN e ELSE m[f][j]
  <2> HIDE DEF t
  <2> QED
    BY <1>1, <1>2, WriteIs
<1> HIDE DEF n
<1>4. LeafTable(n, r, q) = g
  <2>1. \A f \in Frames, j \in Indices : L[f] \in 1 .. Levels - 1 => n[f][j] = m[f][j]
    BY <1>1, <1>2, <1>3
  <2> QED
    BY <1>1, <2>1, WalkSame DEF LeafTable
<1>5. g = t /\ p[Levels] = q[Levels] => p = q
  <2> SUFFICES ASSUME g = t, p[Levels] = q[Levels]
               PROVE  p = q
    BY Zenon
  <2>1. \A j \in 1 .. Levels - 1 : p[j] = q[j]
    BY <1>1, WalkOnce DEF LeafTable
  <2>2. \A j \in 1 .. Levels : p[j] = q[j]
    BY <1>1, <2>1
  <2> QED
    BY Zenon, <2>2, AddressEqual
<1>6. Leaf(n, r, q) = IF g = Absent THEN Absent ELSE n[g][q[Levels]]
  BY Zenon, <1>4 DEF Leaf
<1>7. Leaf(m, r, q) = IF g = Absent THEN Absent ELSE m[g][q[Levels]]
  BY Zenon DEF Leaf
<1>8. q = p => g = t
  BY Zenon
<1>9. Leaf(n, r, q) = IF q = p THEN e ELSE Leaf(m, r, q)
  <2> HIDE DEF t, g
  <2>1. CASE g = Absent
    BY Zenon, <1>2, <1>6, <1>7, <1>8, <2>1, DeviceIs
  <2>2. CASE g # Absent
    BY Zenon, <1>1, <1>2, <1>3, <1>5, <1>6, <1>7, <1>8, <2>2
  <2> QED
    BY Zenon, <2>1, <2>2
<1> QED
  BY Zenon, <1>9 DEF n

(* Linking a new table changes no translation. *)
LEMMA LeafLinked ==
    ASSUME WellOrdered, NEW m, NEW fr, NEW rs, NEW L, NEW U, NEW P, Tree(m, fr, rs, L, U, P),
           NEW r \in rs, NEW p \in Address, NEW k \in 1 .. Levels - 1,
           Table(m, r, p, k) # Absent, m[Table(m, r, p, k)][p[k]] = Absent, NEW f \in fr
    PROVE  LET n == Linked(m, Table(m, r, p, k), p[k], f)
           IN  /\ Table(n, r, p, k + 1) = f
               /\ \A q \in Address : Leaf(n, r, q) = Leaf(m, r, q)
<1> DEFINE t == Table(m, r, p, k)
           n == Linked(m, t, p[k], f)
<1>1. /\ m \in Memory /\ k \in 1 .. Levels /\ Levels \in Nat /\ Levels - 1 \in Nat
      /\ Levels \in 1 .. Levels /\ k \in Nat \ {0}
      /\ p[k] \in Indices /\ f \in Frames /\ L[f] = 0
  BY LevelsAre, AddressIs DEF Tree, Typed, Memory, Leveled
<1>2. t \in Frames /\ L[t] = k /\ t # f
  BY <1>1, WalkIs
<1>3. \A g \in Frames, j \in Indices :
        n[g][j] = IF g = f THEN Absent
                  ELSE IF g = t /\ j = p[k] THEN Entry(f, {"Writable", "User_Access"})
                  ELSE m[g][j]
  <2> DEFINE i == p[k]
  <2>1. i \in Indices
    BY Zenon, <1>1
  <2> HIDE DEF t, i
  <2>2. \A g \in Frames, j \in Indices :
          Linked(m, t, i, f)[g][j] =
             IF g = f THEN Absent
             ELSE IF g = t /\ j = i THEN Entry(f, {"Writable", "User_Access"})
             ELSE m[g][j]
    BY <1>1, <1>2, <2>1, LinkedIs
  <2> QED
    BY Zenon, <2>2 DEF i
<1> HIDE DEF n
<1>4. n[t][p[k]] # Absent /\ n[t][p[k]].to = f
  <2> HIDE DEF t
  <2> QED
    BY <1>1, <1>2, <1>3, EntryIs DEF Rights
<1>5. Table(n, r, p, k + 1) = f
  <2>1. \A g \in Frames, j \in Indices : L[g] \in 1 .. k - 1 => n[g][j] = m[g][j]
    BY <1>1, <1>2, <1>3
  <2>2. Table(n, r, p, k) = t
    BY <1>1, <2>1, WalkSame
  <2>3. Table(n, r, p, k + 1) = Follow(n, t, p[k])
    BY <1>1, <2>2, TableNext
  <2> QED
    BY Zenon, <1>4, <2>3 DEF Follow
<1>6. ASSUME NEW q \in Address
      PROVE  Leaf(n, r, q) = Leaf(m, r, q)
  <2> DEFINE T(j) == Table(m, r, q, j)
             V(j) == Table(n, r, q, j)
             Fine(j) == V(j) = T(j) \/ (T(j) = Absent /\ V(j) = f)
             S == {j \in 0 .. Levels - 1 : Fine(j + 1)}
  <2>1. /\ T(1) = r /\ \A j \in Nat \ {0} : T(j + 1) = Follow(m, T(j), q[j])
        /\ V(1) = r /\ \A j \in Nat \ {0} : V(j + 1) = Follow(n, V(j), q[j])
    BY TableRoot, TableNext
  <2>2. \A j \in 1 .. Levels : T(j) # Absent => T(j) \in Frames /\ L[T(j)] = j
    BY WalkIs
  <2> HIDE DEF T, V
  <2>3. 0 \in S
    BY <1>1, <2>1
  <2>4. ASSUME NEW j \in 0 .. Levels - 1, j \in S, j # Levels - 1
        PROVE  j + 1 \in S
    <3>1. /\ j + 1 \in 1 .. Levels /\ j + 1 \in Nat \ {0} /\ j + 1 \in 0 .. Levels - 1
          /\ q[j + 1] \in Indices
      BY <1>1, <2>4, AddressIs
    <3>2. /\ T((j + 1) + 1) = Follow(m, T(j + 1), q[j + 1])
          /\ V((j + 1) + 1) = Follow(n, V(j + 1), q[j + 1])
      BY Zenon, <2>1, <3>1
    <3>3. CASE T(j + 1) = Absent
      <4>1. V(j + 1) = Absent \/ V(j + 1) = f
        BY Zenon, <2>4, <3>3
      <4>2. Follow(n, f, q[j + 1]) = Absent
        BY Zenon, <1>1, <1>3, <3>1 DEF Follow
      <4>3. Follow(n, Absent, q[j + 1]) = Absent /\ Follow(m, Absent, q[j + 1]) = Absent
        BY Zenon DEF Follow
      <4>4. V((j + 1) + 1) = T((j + 1) + 1)
        BY Zenon, <3>2, <3>3, <4>1, <4>2, <4>3
      <4> QED
        BY Zenon, <3>1, <4>4
    <3>4. CASE T(j + 1) # Absent
      <4>1. V(j + 1) = T(j + 1) /\ T(j + 1) \in Frames /\ T(j + 1) # f
        BY Zenon, <1>1, <2>2, <2>4, <3>1, <3>4
      <4>2. CASE T(j + 1) = t /\ q[j + 1] = p[k]
        <5>1. T((j + 1) + 1) = Absent
          BY Zenon, <3>2, <4>2 DEF Follow
        <5>2. V((j + 1) + 1) = f
          BY Zenon, <1>2, <1>4, <3>2, <4>1, <4>2, DeviceIs DEF Follow
        <5> QED
          BY Zenon, <3>1, <5>1, <5>2
      <4>3. CASE ~ (T(j + 1) = t /\ q[j + 1] = p[k])
        <5>1. n[T(j + 1)][q[j + 1]] = m[T(j + 1)][q[j + 1]]
          BY Zenon, <1>3, <3>1, <4>1, <4>3
        <5>2. V((j + 1) + 1) = T((j + 1) + 1)
          BY Zenon, <3>2, <4>1, <5>1 DEF Follow
        <5> QED
          BY <3>1, <5>2
      <4> QED
        BY Zenon, <4>2, <4>3
    <3> QED
      BY Zenon, <3>3, <3>4
  <2>5. Levels - 1 \in S
    <3>1. \A j \in 0 .. Levels - 1 : j \in S
      <4> HIDE DEF S
      <4> QED
        BY Zenon, <1>1, <2>3, <2>4, Induction
    <3> QED
      BY <1>1, <3>1
  <2>6. (Levels - 1) + 1 = Levels
    BY <1>1
  <2>7. Fine(Levels)
    <3>1. Fine((Levels - 1) + 1)
      BY Zenon, <2>5
    <3> QED
      BY Zenon, <2>6, <3>1
  <2>8. q[Levels] \in Indices
    BY Zenon, <1>1, AddressIs
  <2>9. /\ Leaf(n, r, q) = IF V(Levels) = Absent THEN Absent ELSE n[V(Levels)][q[Levels]]
        /\ Leaf(m, r, q) = IF T(Levels) = Absent THEN Absent ELSE m[T(Levels)][q[Levels]]
    BY Zenon DEF Leaf, LeafTable, T, V
  <2>10. CASE T(Levels) = Absent
    BY <1>1, <1>3, <2>7, <2>8, <2>9, <2>10
  <2>11. CASE T(Levels) # Absent
    <3>1. V(Levels) = T(Levels) /\ T(Levels) \in Frames /\ L[T(Levels)] = Levels
      BY Zenon, <1>1, <2>2, <2>7, <2>11
    <3>2. T(Levels) # f /\ T(Levels) # t
      BY <1>1, <1>2, <3>1
    <3>3. n[T(Levels)][q[Levels]] = m[T(Levels)][q[Levels]]
      BY Zenon, <1>3, <2>8, <3>1, <3>2
    <3> QED
      BY <2>9, <3>1, <3>3
  <2> QED
    BY Zenon, <2>10, <2>11
<1> QED
  BY Zenon, <1>5, <1>6 DEF n

-----------------------------------------------------------------------------

(* The operations of paging.c, each with what it does to the translations  *)
(* of a tree.                                                              *)

Forest(m, fr, rs, P) == \E L, U : Tree(m, fr, rs, L, U, P)

SameView(m, n, r) == \A q \in Address : Leaf(n, r, q) = Leaf(m, r, q)

(* n translates page to entry, and the other pages as m does. *)
ViewWith(m, n, r, page, entry) ==
    \A q \in Address : Leaf(n, r, q) = IF q = page THEN entry ELSE Leaf(m, r, q)

LEMMA LeafIs ==
    ASSUME WellOrdered, NEW m, NEW fr, NEW rs, NEW P, Forest(m, fr, rs, P), NEW r \in rs,
           NEW page \in Address, Leaf(m, r, page) # Absent
    PROVE  Leaf(m, r, page) \in Entries
<1>1. PICK L, U : Tree(m, fr, rs, L, U, P)
  BY Zenon DEF Forest
<1>2. m \in Memory /\ Levels \in 1 .. Levels /\ page[Levels] \in Indices
  BY <1>1, LevelsAre, AddressIs DEF Tree, Typed, Memory
<1> DEFINE table == LeafTable(m, r, page)
<1>3. table # Absent /\ Leaf(m, r, page) = m[table][page[Levels]]
  BY Zenon DEF Leaf
<1>4. table \in Frames
  BY Zenon, <1>1, <1>2, <1>3, WalkIs DEF LeafTable
<1> HIDE DEF table
<1> QED
  BY <1>2, <1>3, <1>4 DEF Memory

LEMMA LowestIs ==
    ASSUME WellOrdered, NEW fr \in SUBSET Frames, fr # {}
    PROVE  Lowest(fr) \in fr
<1>1. fr \in SUBSET Nat
  BY Zenon, PagingAssumption
<1>2. \E x \in fr : \A y \in fr : x <= y
  BY Zenon, <1>1 DEF WellOrdered
<1> QED
  BY Zenon, <1>2 DEF Lowest

LEMMA AddTableKeeps ==
    ASSUME WellOrdered, NEW at, NEW s, NEW rs, NEW P, NEW r \in rs, NEW p \in Address,
           at.root = r, at.page = p, NEW k \in 1 .. Levels - 1,
           Forest(s.mem, s.free, rs, P),
           s.status = "Ok" => Table(s.mem, r, p, k) # Absent
    PROVE  LET u == AddTable(at, s, k)
           IN  /\ Forest(u.mem, u.free, rs, P)
               /\ SameView(s.mem, u.mem, r)
               /\ u.status = "Ok" => Table(u.mem, r, p, k + 1) # Absent
<1> DEFINE u == AddTable(at, s, k)
           m == s.mem
           t == Table(m, r, p, k)
           f == Lowest(s.free)
<1>1. u = IF s.status # "Ok" \/ m[t][p[k]] # Absent THEN s
          ELSE IF s.free = {} THEN Fail(s, "Error_No_Memory")
          ELSE State(Linked(m, t, p[k], f), s.free \ {f}, "Ok")
  BY Zenon DEF AddTable, Linked
<1>2. PICK L, U : Tree(m, s.free, rs, L, U, P)
  BY Zenon DEF Forest
<1>3. /\ k \in 1 .. Levels /\ k \in Nat \ {0} /\ k < Levels /\ Levels \in Nat
      /\ p[k] \in Indices /\ s.free \in SUBSET Frames /\ m \in Memory
  BY <1>2, LevelsAre, AddressIs DEF Tree, Typed, Memory
<1>4. SameView(m, m, r)
  BY Zenon DEF SameView
<1> SUFFICES /\ Forest(u.mem, u.free, rs, P)
             /\ SameView(s.mem, u.mem, r)
             /\ u.status = "Ok" => Table(u.mem, r, p, k + 1) # Absent
  BY Zenon
<1> HIDE DEF u
<1>5. CASE s.status # "Ok"
  BY Zenon, <1>1, <1>4, <1>5
<1>6. CASE s.status = "Ok" /\ m[t][p[k]] # Absent
  <2>1. u = s /\ t # Absent
    BY Zenon, <1>1, <1>6
  <2>2. t \in Frames
    BY Zenon, <1>2, <1>3, <2>1, WalkIs
  <2>3. Table(m, r, p, k + 1) = m[t][p[k]].to
    BY <1>3, <1>6, <2>1, TableNext DEF Follow
  <2>4. m[t][p[k]].to \in Frames \cup {Device}
    BY <1>3, <1>6, <2>2, EntryIs DEF Memory
  <2> QED
    BY Zenon, <1>4, <2>1, <2>3, <2>4, DeviceIs
<1>7. CASE s.status = "Ok" /\ m[t][p[k]] = Absent /\ s.free = {}
  <2>1. u.mem = m /\ u.free = s.free /\ u.status = "Error_No_Memory"
    BY Zenon, <1>1, <1>7 DEF Fail, State
  <2> QED
    BY Zenon, <1>4, <2>1
<1>8. CASE s.status = "Ok" /\ m[t][p[k]] = Absent /\ s.free # {}
  <2>1. /\ u.mem = Linked(m, t, p[k], f) /\ u.free = s.free \ {f}
    BY Zenon, <1>1, <1>8 DEF State
  <2>2. f \in s.free /\ t # Absent /\ f # Absent
    BY Zenon, <1>3, <1>8, LowestIs, DeviceIs
  <2>3. t \in Frames /\ L[t] = k /\ Live(rs, L, t, p[k])
    BY <1>2, <1>3, <2>2, WalkIs
  <2> HIDE DEF f
  <2>4. /\ Table(Linked(m, t, p[k], f), r, p, k + 1) = f
        /\ \A q \in Address : Leaf(Linked(m, t, p[k], f), r, q) = Leaf(m, r, q)
    BY <1>2, <1>8, <2>2, LeafLinked
  <2>5. Forest(Linked(m, t, p[k], f), s.free \ {f}, rs, P)
    <3> DEFINE i == p[k]
    <3>1. i \in Indices /\ Live(rs, L, t, i) /\ L[t] < Levels /\ m[t][i] = Absent
      BY Zenon, <1>3, <1>8, <2>3
    <3> DEFINE M == [L EXCEPT ![f] = L[t] + 1]
               V == IF t \in U \/ (t \in rs /\ i \in UserTop) THEN U \cup {f} ELSE U
    <3> HIDE DEF i, t
    <3>2. Tree(Linked(m, t, i, f), s.free \ {f}, rs, M, V, P)
      BY Zenon, <1>2, <2>2, <2>3, <3>1, LinkKeeps
    <3> HIDE DEF M, V
    <3> QED
      BY Zenon, <3>2 DEF Forest, i
  <2> QED
    BY Zenon, <2>1, <2>2, <2>4, <2>5 DEF SameView
<1> QED
  BY Zenon, <1>5, <1>6, <1>7, <1>8

LEMMA LevelsKeep ==
    ASSUME WellOrdered, NEW at, NEW s, NEW rs, NEW P, NEW r \in rs, NEW p \in Address,
           at.root = r, at.page = p, Forest(s.mem, s.free, rs, P)
    PROVE  LET u == ForLevels!Loop(at, s, Levels - 1)
           IN  /\ Forest(u.mem, u.free, rs, P)
               /\ SameView(s.mem, u.mem, r)
               /\ u.status = "Ok" => LeafTable(u.mem, r, p) # Absent
<1> DEFINE G(k) == ForLevels!Loop(at, s, k)
           Fine(k) == /\ Forest(G(k).mem, G(k).free, rs, P)
                      /\ SameView(s.mem, G(k).mem, r)
                      /\ G(k).status = "Ok" => Table(G(k).mem, r, p, k + 1) # Absent
           S == {k \in 0 .. Levels - 1 : Fine(k)}
<1>1. Levels - 1 \in Nat /\ (Levels - 1) + 1 = Levels
  BY LevelsAre
<1>2. G(0) = s /\ \A n \in Nat : G(n + 1) = AddTable(at, G(n), n + 1)
  BY Zenon, ForLevels!LoopIs DEF WellOrdered
<1> HIDE DEF G
<1>3. 0 \in S
  <2>1. PICK L, U : Tree(s.mem, s.free, rs, L, U, P)
    BY Zenon DEF Forest
  <2>2. r # Absent
    BY Zenon, <2>1, DeviceIs DEF Tree, Typed
  <2>3. Table(s.mem, r, p, 0 + 1) = r
    BY TableRoot
  <2>4. Fine(0)
    BY Zenon, <1>2, <2>2, <2>3 DEF SameView
  <2> QED
    BY <1>1, <2>4
<1>4. ASSUME NEW k \in 0 .. Levels - 1, k \in S, k # Levels - 1
      PROVE  k + 1 \in S
  <2>1. k + 1 \in 1 .. Levels - 1 /\ k + 1 \in 0 .. Levels - 1 /\ k \in Nat
    BY <1>1, <1>4
  <2>2. G(k + 1) = AddTable(at, G(k), k + 1)
    BY Zenon, <1>2, <2>1
  <2>3. /\ Forest(G(k).mem, G(k).free, rs, P)
        /\ SameView(s.mem, G(k).mem, r)
        /\ G(k).status = "Ok" => Table(G(k).mem, r, p, k + 1) # Absent
    BY Zenon, <1>4
  <2>4. /\ Forest(G(k + 1).mem, G(k + 1).free, rs, P)
        /\ SameView(G(k).mem, G(k + 1).mem, r)
        /\ G(k + 1).status = "Ok" => Table(G(k + 1).mem, r, p, (k + 1) + 1) # Absent
    BY ZenonT(30), <2>1, <2>2, <2>3, AddTableKeeps
  <2>5. Fine(k + 1)
    BY Zenon, <2>3, <2>4 DEF SameView
  <2> QED
    BY Zenon, <2>1, <2>5
<1>5. \A k \in 0 .. Levels - 1 : k \in S
  <2> HIDE DEF S
  <2> QED
    BY Zenon, <1>1, <1>3, <1>4, Induction
<1>6. Levels - 1 \in S
  BY <1>1, <1>5
<1>7. Fine(Levels - 1)
  BY Zenon, <1>6
<1> QED
  BY Zenon, <1>1, <1>7 DEF G, LeafTable

(* map_page maps the page and changes no other translation, or fails and   *)
(* changes none.                                                           *)
LEMMA MapPageKeeps ==
    ASSUME WellOrdered, NEW s, NEW rs, NEW P, NEW r \in rs, NEW p \in Address,
           Forest(s.mem, s.free, rs, P),
           NEW phys, phys \in P \/ (phys = Device /\ p[1] \in KernelTop),
           NEW rights \in SUBSET Rights
    PROVE  LET u == MapPage(s, r, p, phys, rights)
           IN  IF u.status = "Ok"
               THEN /\ Forest(u.mem, u.free, rs, P \ (Frames \cap {phys}))
                    /\ Leaf(s.mem, r, p) = Absent
                    /\ ViewWith(s.mem, u.mem, r, p, Entry(phys, rights))
               ELSE Forest(u.mem, u.free, rs, P) /\ SameView(s.mem, u.mem, r)
<1> DEFINE u == MapPage(s, r, p, phys, rights)
           at == [root |-> r, page |-> p]
           t == ForLevels!Loop(at, s, Levels - 1)
           table == LeafTable(t.mem, r, p)
<1> SUFFICES IF u.status = "Ok"
             THEN /\ Forest(u.mem, u.free, rs, P \ (Frames \cap {phys}))
                  /\ Leaf(s.mem, r, p) = Absent
                  /\ ViewWith(s.mem, u.mem, r, p, Entry(phys, rights))
             ELSE Forest(u.mem, u.free, rs, P) /\ SameView(s.mem, u.mem, r)
  BY Zenon
<1>1. u = IF Refused(p, rights) THEN Fail(s, "Error_Permissions")
          ELSE IF t.status # "Ok" THEN t
          ELSE IF Leaf(t.mem, r, p) # Absent THEN Fail(t, "Error_Present")
          ELSE State(Write(t.mem, table, p[Levels], Entry(phys, rights)), t.free, "Ok")
  BY Zenon DEF MapPage
<1>2. at.root = r /\ at.page = p
  BY Zenon
<1> HIDE DEF u, at
<1>3. /\ Forest(t.mem, t.free, rs, P)
      /\ SameView(s.mem, t.mem, r)
      /\ t.status = "Ok" => table # Absent
  BY Zenon, <1>2, LevelsKeep
<1> HIDE DEF t
<1>4. CASE Refused(p, rights)
  <2>1. u.mem = s.mem /\ u.free = s.free /\ u.status = "Error_Permissions"
    BY Zenon, <1>1, <1>4 DEF Fail, State
  <2> QED
    BY Zenon, <2>1 DEF SameView
<1>5. CASE ~ Refused(p, rights) /\ t.status # "Ok"
  BY Zenon, <1>1, <1>3, <1>5
<1>6. CASE ~ Refused(p, rights) /\ t.status = "Ok" /\ Leaf(t.mem, r, p) # Absent
  <2>1. u.mem = t.mem /\ u.free = t.free /\ u.status = "Error_Present"
    BY Zenon, <1>1, <1>6 DEF Fail, State
  <2> QED
    BY Zenon, <1>3, <2>1
<1>7. CASE ~ Refused(p, rights) /\ t.status = "Ok" /\ Leaf(t.mem, r, p) = Absent
  <2> DEFINE e == Entry(phys, rights)
             i == p[Levels]
  <2>1. /\ u.mem = Write(t.mem, table, i, e) /\ u.free = t.free /\ u.status = "Ok"
    BY Zenon, <1>1, <1>7 DEF State
  <2>2. PICK L, U : Tree(t.mem, t.free, rs, L, U, P)
    BY Zenon, <1>3 DEF Forest
  <2>3. /\ Levels \in 1 .. Levels /\ Levels # 1 /\ i \in Low
        /\ P \in SUBSET (Frames \cup {Device}) /\ rights \in SUBSET Rights
    BY <2>2, LevelsAre, AddressIs DEF Tree, Typed
  <2>4. table # Absent /\ table \in Frames /\ L[table] = Levels
    BY <1>3, <1>7, <2>2, <2>3, WalkIs DEF LeafTable
  <2>5. p[1] \in KernelTop => table \notin U
    BY Zenon, <2>2, <2>3, WalkKernel DEF LeafTable
  <2>6. t.mem[table][i] = Absent
    BY Zenon, <1>7, <2>4 DEF Leaf
  <2>7. "Writable" \notin rights \/ "No_Execute" \in rights
    BY Zenon, <1>7 DEF Refused
  <2>8. e \in Entries \cup {Absent}
    BY Zenon, <2>3, EntryIs, DeviceIs
  <2>9. ViewWith(s.mem, u.mem, r, p, e)
    <3> HIDE DEF e
    <3>1. \A q \in Address :
            Leaf(Write(t.mem, LeafTable(t.mem, r, p), p[Levels], e), r, q) =
                IF q = p THEN e ELSE Leaf(t.mem, r, q)
      BY <2>2, <2>4, <2>8, LeafWritten
    <3> QED
      BY Zenon, <1>3, <2>1, <3>1 DEF ViewWith, SameView
  <2>10. Forest(u.mem, u.free, rs, P \ (Frames \cap {phys}))
    <3> DEFINE V == IF phys # Device /\ table \in U THEN U \cup {phys} ELSE U
    <3>1. phys \in P \/ (phys = Device /\ table \notin U)
      BY Zenon, <2>5
    <3> DEFINE m == t.mem
    <3>0. Tree(m, t.free, rs, L, U, P) /\ m[table][i] = Absent
      BY Zenon, <2>2, <2>6
    <3> HIDE DEF i, table, m
    <3>2. Tree(Write(m, table, i, Entry(phys, rights)), t.free, rs, L, V,
               P \ (Frames \cap {phys}))
      BY ZenonT(30), <3>0, <2>3, <2>4, <2>7, <3>1, MapKeeps
    <3> USE DEF m
    <3> HIDE DEF V
    <3> QED
      BY Zenon, <2>1, <3>2 DEF Forest
  <2>11. Leaf(s.mem, r, p) = Absent
    BY Zenon, <1>3, <1>7 DEF SameView
  <2> QED
    BY Zenon, <2>1, <2>9, <2>10, <2>11
<1> QED
  BY Zenon, <1>4, <1>5, <1>6, <1>7

(* unmap_page frees the page it unmaps just when it is RAM. *)
LEMMA UnmapPageKeeps ==
    ASSUME WellOrdered, NEW s, NEW rs, NEW P, NEW r \in rs, NEW p \in Address,
           Forest(s.mem, s.free, rs, P), NEW free_phys \in BOOLEAN,
           LET e == Leaf(s.mem, r, p)
           IN  e # Absent => e.to \in (IF free_phys THEN Frames ELSE {Device})
    PROVE  LET u == UnmapPage(s, r, p, free_phys)
           IN  /\ Forest(u.mem, u.free, rs, P)
               /\ ViewWith(s.mem, u.mem, r, p, Absent)
<1> DEFINE u == UnmapPage(s, r, p, free_phys)
           e == Leaf(s.mem, r, p)
           table == LeafTable(s.mem, r, p)
           i == p[Levels]
<1> SUFFICES Forest(u.mem, u.free, rs, P) /\ ViewWith(s.mem, u.mem, r, p, Absent)
  BY Zenon
<1>1. u = IF e = Absent THEN s
          ELSE State(Write(s.mem, table, i, Absent),
                     IF free_phys THEN s.free \cup {e.to} ELSE s.free, s.status)
  BY Zenon DEF UnmapPage
<1> HIDE DEF u
<1>2. CASE e = Absent
  BY Zenon, <1>1, <1>2 DEF ViewWith
<1>3. CASE e # Absent
  <2>1. PICK L, U : Tree(s.mem, s.free, rs, L, U, P)
    BY Zenon DEF Forest
  <2>2. Levels \in 1 .. Levels /\ Levels # 1 /\ i \in Low
    BY LevelsAre, AddressIs
  <2>3. table # Absent /\ e = s.mem[table][i]
    BY Zenon, <1>3 DEF Leaf
  <2>4. table \in Frames /\ L[table] = Levels
    BY <2>1, <2>2, <2>3, WalkIs DEF LeafTable
  <2>5. /\ u.mem = Write(s.mem, table, i, Absent)
        /\ u.free = s.free \cup (Frames \cap {e.to})
    <3>1. /\ u.mem = Write(s.mem, table, i, Absent)
          /\ u.free = IF free_phys THEN s.free \cup {e.to} ELSE s.free
      BY Zenon, <1>1, <1>3 DEF State
    <3>2. e.to \in (IF free_phys THEN Frames ELSE {Device})
      BY Zenon, <1>3
    <3> HIDE DEF e
    <3>3. CASE free_phys
      BY Zenon, <3>1, <3>2, <3>3
    <3>4. CASE ~ free_phys
      BY Zenon, <3>1, <3>2, <3>4, DeviceIs
    <3> QED
      BY Zenon, <3>3, <3>4
  <2>6. ViewWith(s.mem, u.mem, r, p, Absent)
    <3>1. \A q \in Address :
            Leaf(Write(s.mem, LeafTable(s.mem, r, p), p[Levels], Absent), r, q) =
                IF q = p THEN Absent ELSE Leaf(s.mem, r, q)
      BY <2>1, <2>3, LeafWritten
    <3> QED
      BY Zenon, <2>5, <3>1 DEF ViewWith
  <2>7. Forest(u.mem, u.free, rs, P)
    <3> DEFINE x == s.mem[table][i].to
               M == [f \in Frames |-> IF f = x THEN 0 ELSE L[f]]
               V == U \ {x}
    <3>1. s.mem[table][i] # Absent /\ e.to = x
      BY Zenon, <1>3, <2>3
    <3> HIDE DEF i, table, e
    <3>2. Tree(Write(s.mem, table, i, Absent), s.free \cup (Frames \cap {x}), rs, M, V, P)
      BY <2>1, <2>2, <2>4, <3>1, ClearKeeps
    <3> HIDE DEF M, V, x
    <3> QED
      BY Zenon, <2>5, <3>1, <3>2 DEF Forest
  <2> QED
    BY Zenon, <2>6, <2>7
<1> QED
  BY Zenon, <1>2, <1>3

(* n translates all pages but p as m does. *)
Elsewhere(m, n, r, p) == \A q \in Address : q # p => Leaf(n, r, q) = Leaf(m, r, q)

LEMMA UpdatePageKeeps ==
    ASSUME WellOrdered, NEW s, NEW rs, NEW P, NEW r \in rs, NEW p \in Address,
           Forest(s.mem, s.free, rs, P), NEW rights \in SUBSET Rights
    PROVE  LET u == UpdatePage(s, r, p, rights)
           IN  /\ Forest(u.mem, u.free, rs, P)
               /\ Elsewhere(s.mem, u.mem, r, p)
<1> DEFINE u == UpdatePage(s, r, p, rights)
           entry == Leaf(s.mem, r, p)
           table == LeafTable(s.mem, r, p)
           i == p[Levels]
           e == Entry(entry.to, rights)
<1> SUFFICES /\ Forest(u.mem, u.free, rs, P)
             /\ \A q \in Address : q # p => Leaf(u.mem, r, q) = Leaf(s.mem, r, q)
  BY Zenon DEF Elsewhere
<1>1. u = IF Refused(p, rights) THEN Fail(s, "Error_Permissions")
          ELSE IF entry = Absent THEN Fail(s, "Error_Absent")
          ELSE State(Write(s.mem, table, i, e), s.free, "Ok")
  BY Zenon DEF UpdatePage
<1> HIDE DEF u
<1>2. CASE Refused(p, rights) \/ entry = Absent
  <2>1. u.mem = s.mem /\ u.free = s.free
    BY Zenon, <1>1, <1>2 DEF Fail, State
  <2> QED
    BY Zenon, <2>1
<1>3. CASE ~ Refused(p, rights) /\ entry # Absent
  <2>1. PICK L, U : Tree(s.mem, s.free, rs, L, U, P)
    BY Zenon DEF Forest
  <2>2. /\ Levels \in 1 .. Levels /\ Levels # 1 /\ i \in Low /\ i \in Indices
        /\ s.mem \in Memory
    BY <2>1, LevelsAre, AddressIs DEF Tree, Typed, Memory
  <2>3. table # Absent /\ entry = s.mem[table][i]
    BY Zenon, <1>3 DEF Leaf
  <2>4. table \in Frames /\ L[table] = Levels
    BY <2>1, <2>2, <2>3, WalkIs DEF LeafTable
  <2>5. u.mem = Write(s.mem, table, i, e) /\ u.free = s.free
    BY Zenon, <1>1, <1>3 DEF State
  <2>6. "Writable" \notin rights \/ "No_Execute" \in rights
    BY Zenon, <1>3 DEF Refused
  <2>7. e \in Entries \cup {Absent}
    <3>1. entry \in Entries
      BY <1>3, <2>2, <2>3, <2>4 DEF Memory
    <3> HIDE DEF entry
    <3> QED
      BY Zenon, <3>1, EntryIs
  <2>8. \A q \in Address : q # p => Leaf(u.mem, r, q) = Leaf(s.mem, r, q)
    <3> HIDE DEF e
    <3>1. \A q \in Address :
            Leaf(Write(s.mem, LeafTable(s.mem, r, p), p[Levels], e), r, q) =
                IF q = p THEN e ELSE Leaf(s.mem, r, q)
      BY <2>1, <2>3, <2>7, LeafWritten
    <3> QED
      BY Zenon, <2>5, <3>1
  <2>9. Forest(u.mem, u.free, rs, P)
    <3>1. s.mem[table][i] # Absent /\ e = Entry(s.mem[table][i].to, rights)
      BY Zenon, <1>3, <2>3
    <3> HIDE DEF i, table, e, entry
    <3>2. Tree(Write(s.mem, table, i, Entry(s.mem[table][i].to, rights)), s.free, rs, L, U, P)
      BY Zenon, <2>1, <2>2, <2>4, <2>6, <3>1, UpdateKeeps
    <3> QED
      BY Zenon, <2>5, <3>1, <3>2 DEF Forest
  <2> QED
    BY Zenon, <2>8, <2>9
<1> QED
  BY Zenon, <1>2, <1>3

-----------------------------------------------------------------------------

(* The loops over a range.  n translates the first k pages of the range to *)
(* e, and the other pages as m does.                                       *)
Over(m, n, r, range, k, e) ==
    \A q \in Address :
        Leaf(n, r, q) = IF \E j \in 1 .. k : q = range[j] THEN e ELSE Leaf(m, r, q)

LEMMA OverNext ==
    ASSUME NEW m, NEW n, NEW w, NEW r, NEW range, NEW k \in Nat, NEW e,
           Over(m, n, r, range, k, e), ViewWith(n, w, r, range[k + 1], e)
    PROVE  Over(m, w, r, range, k + 1, e)
<1>1. \A j : j \in 1 .. k + 1 <=> j \in 1 .. k \/ j = k + 1
  OBVIOUS
<1> QED
  BY Zenon, <1>1 DEF Over, ViewWith

LEMMA UnmapPagesKeep ==
    ASSUME WellOrdered, NEW s, NEW rs, NEW P, NEW r \in rs, Forest(s.mem, s.free, rs, P),
           NEW range, NEW count \in Nat, NEW free_phys \in BOOLEAN,
           \A k \in 1 .. count : range[k] \in Address,
           \A k \in 1 .. count :
              Leaf(s.mem, r, range[k]) # Absent =>
                 Leaf(s.mem, r, range[k]).to \in (IF free_phys THEN Frames ELSE {Device})
    PROVE  LET u == UnmapPages(s, r, range, count, free_phys)
           IN  /\ Forest(u.mem, u.free, rs, P)
               /\ Over(s.mem, u.mem, r, range, count, Absent)
<1> DEFINE on == [root |-> r, range |-> range, free_phys |-> free_phys]
           G(k) == ForUnmapped!Loop(on, s, k)
           Fine(k) == /\ Forest(G(k).mem, G(k).free, rs, P)
                      /\ Over(s.mem, G(k).mem, r, range, k, Absent)
           S == {k \in 0 .. count : Fine(k)}
<1>1. on.root = r /\ on.range = range /\ on.free_phys = free_phys
  BY Zenon
<1>2. UnmapPages(s, r, range, count, free_phys) = G(count)
  BY Zenon DEF UnmapPages
<1> HIDE DEF on
<1>3. G(0) = s /\ \A n \in Nat : G(n + 1) = UnmapNth(on, G(n), n + 1)
  BY Zenon, ForUnmapped!LoopIs DEF WellOrdered
<1> HIDE DEF G
<1>4. 0 \in S
  <2>1. Over(s.mem, s.mem, r, range, 0, Absent)
    BY DEF Over
  <2> QED
    BY <1>3, <2>1
<1>5. ASSUME NEW k \in 0 .. count, k \in S, k # count
      PROVE  k + 1 \in S
  <2>1. k + 1 \in 1 .. count /\ k + 1 \in 0 .. count /\ k \in Nat
    BY <1>5
  <2> DEFINE p == range[k + 1]
             u == UnmapPage(G(k), r, p, free_phys)
  <2>2. p \in Address /\ G(k + 1) = u
    BY Zenon, <1>1, <1>3, <2>1 DEF UnmapNth
  <2>3. Forest(G(k).mem, G(k).free, rs, P) /\ Over(s.mem, G(k).mem, r, range, k, Absent)
    BY Zenon, <1>5
  <2>4. Leaf(G(k).mem, r, p) # Absent =>
           Leaf(G(k).mem, r, p).to \in (IF free_phys THEN Frames ELSE {Device})
    <3>1. Leaf(G(k).mem, r, p) # Absent => Leaf(G(k).mem, r, p) = Leaf(s.mem, r, p)
      BY Zenon, <2>2, <2>3 DEF Over
    <3> QED
      BY Zenon, <2>1, <3>1
  <2>5. Forest(u.mem, u.free, rs, P) /\ ViewWith(G(k).mem, u.mem, r, p, Absent)
    <3> HIDE DEF p
    <3> QED
      BY Zenon, <2>2, <2>3, <2>4, UnmapPageKeeps
  <2> HIDE DEF u
  <2>6. Fine(k + 1)
    BY Zenon, <2>1, <2>2, <2>3, <2>5, OverNext
  <2> QED
    BY Zenon, <2>1, <2>6
<1>6. count \in S
  <2> HIDE DEF S
  <2> QED
    BY <1>4, <1>5, Induction
<1>7. Fine(count)
  BY Zenon, <1>6
<1> QED
  BY Zenon, <1>2, <1>7

(* map_range, with its unmap_range when a page fails: all or nothing. *)
LEMMA MapPagesKeep ==
    ASSUME WellOrdered, NEW s, NEW rs, NEW P, NEW r \in rs, Forest(s.mem, s.free, rs, P),
           NEW range, NEW count \in Nat, NEW rights \in SUBSET Rights,
           \A k \in 1 .. count : range[k] \in Address,
           Device \in P \/ \A k \in 1 .. count : range[k][1] \in KernelTop,
           s.status = "Ok"
    PROVE  LET u == ForMapped!Loop([root |-> r, range |-> range, rights |-> rights], s, count)
           IN  /\ Forest(u.mem, u.free, rs, P)
               /\ IF u.status = "Ok"
                  THEN Over(s.mem, u.mem, r, range, count, Entry(Device, rights))
                  ELSE SameView(s.mem, u.mem, r)
<1> DEFINE on == [root |-> r, range |-> range, rights |-> rights]
           e == Entry(Device, rights)
           G(k) == ForMapped!Loop(on, s, k)
           Fine(k) == /\ Forest(G(k).mem, G(k).free, rs, P)
                      /\ G(k).status = "Ok" =>
                            /\ Over(s.mem, G(k).mem, r, range, k, e)
                            /\ \A j \in 1 .. k : Leaf(s.mem, r, range[j]) = Absent
                      /\ G(k).status # "Ok" => SameView(s.mem, G(k).mem, r)
           S == {k \in 0 .. count : Fine(k)}
<1>1. on.root = r /\ on.range = range /\ on.rights = rights
  BY Zenon
<1>2. e # Absent /\ e.to = Device
  BY Zenon, EntryIs
<1> SUFFICES Fine(count)
  BY Zenon
<1> HIDE DEF on, e
<1>3. G(0) = s /\ \A n \in Nat : G(n + 1) = MapNth(on, G(n), n + 1)
  BY Zenon, ForMapped!LoopIs DEF WellOrdered
<1> HIDE DEF G
<1>4. 0 \in S
  <2>1. Over(s.mem, s.mem, r, range, 0, e)
    BY DEF Over
  <2> QED
    BY <1>3, <2>1
<1>5. ASSUME NEW k \in 0 .. count, k \in S, k # count
      PROVE  k + 1 \in S
  <2>1. k + 1 \in 1 .. count /\ k + 1 \in 0 .. count /\ k \in Nat /\ (k + 1) - 1 = k
    BY <1>5
  <2> DEFINE p == range[k + 1]
             t == MapPage(G(k), r, p, Device, rights)
             u == UnmapPages(t, r, range, k, FALSE)
  <2>2. /\ p \in Address
        /\ G(k + 1) = IF G(k).status # "Ok" THEN G(k)
                      ELSE IF t.status = "Ok" THEN t ELSE Fail(u, "Error_Present")
    BY Zenon, <1>1, <1>3, <2>1 DEF MapNth, Undo
  <2>3. /\ Forest(G(k).mem, G(k).free, rs, P)
        /\ G(k).status = "Ok" =>
              /\ Over(s.mem, G(k).mem, r, range, k, e)
              /\ \A j \in 1 .. k : Leaf(s.mem, r, range[j]) = Absent
        /\ G(k).status # "Ok" => SameView(s.mem, G(k).mem, r)
    BY Zenon, <1>5
  <2>4. CASE G(k).status # "Ok"
    BY Zenon, <2>1, <2>2, <2>3, <2>4
  <2>5. IF t.status = "Ok"
        THEN /\ Forest(t.mem, t.free, rs, P)
             /\ Leaf(G(k).mem, r, p) = Absent
             /\ ViewWith(G(k).mem, t.mem, r, p, e)
        ELSE Forest(t.mem, t.free, rs, P) /\ SameView(G(k).mem, t.mem, r)
    <3>1. Device \in P \/ (Device = Device /\ p[1] \in KernelTop)
      BY Zenon, <2>1
    <3>2. P \ (Frames \cap {Device}) = P
      BY Zenon, DeviceIs
    <3>3. IF t.status = "Ok"
          THEN /\ Forest(t.mem, t.free, rs, P \ (Frames \cap {Device}))
               /\ Leaf(G(k).mem, r, p) = Absent
               /\ ViewWith(G(k).mem, t.mem, r, p, Entry(Device, rights))
          ELSE Forest(t.mem, t.free, rs, P) /\ SameView(G(k).mem, t.mem, r)
      <4> HIDE DEF p
      <4> QED
        BY Zenon, <2>2, <2>3, <3>1, MapPageKeeps
    <3> HIDE DEF t, p
    <3> QED
      BY Zenon, <3>2, <3>3 DEF e
  <2> HIDE DEF t
  <2>6. CASE G(k).status = "Ok" /\ t.status = "Ok"
    <3>1. G(k + 1) = t
      BY Zenon, <2>2, <2>6
    <3>2. Over(s.mem, t.mem, r, range, k + 1, e)
      BY Zenon, <2>1, <2>3, <2>5, <2>6, OverNext
    <3>3. Leaf(s.mem, r, p) = Absent
      BY <1>2, <2>2, <2>3, <2>5, <2>6 DEF Over
    <3>4. \A j \in 1 .. k + 1 : Leaf(s.mem, r, range[j]) = Absent
      <4>1. \A j \in 1 .. k + 1 : j \in 1 .. k \/ j = k + 1
        BY <2>1
      <4> QED
        BY Zenon, <2>3, <2>6, <3>3, <4>1
    <3>5. Fine(k + 1)
      BY <2>5, <2>6, <3>1, <3>2, <3>4
    <3> QED
      BY Zenon, <2>1, <3>5
  <2>7. CASE G(k).status = "Ok" /\ t.status # "Ok"
    <3>1. /\ Forest(t.mem, t.free, rs, P) /\ SameView(G(k).mem, t.mem, r)
          /\ Over(s.mem, G(k).mem, r, range, k, e)
          /\ \A j \in 1 .. k : Leaf(s.mem, r, range[j]) = Absent
      BY Zenon, <2>3, <2>5, <2>7
    <3>2. \A j \in 1 .. k : range[j] \in Address
      BY <2>1
    <3>3. \A j \in 1 .. k :
             Leaf(t.mem, r, range[j]) # Absent =>
                Leaf(t.mem, r, range[j]).to \in (IF FALSE THEN Frames ELSE {Device})
      BY Zenon, <1>2, <3>1, <3>2 DEF Over, SameView
    <3>4. Forest(u.mem, u.free, rs, P) /\ Over(t.mem, u.mem, r, range, k, Absent)
      BY ZenonT(30), <2>1, <3>1, <3>2, <3>3, UnmapPagesKeep
    <3> HIDE DEF u
    <3>5. /\ G(k + 1).mem = u.mem /\ G(k + 1).free = u.free
          /\ G(k + 1).status = "Error_Present"
      BY <2>2, <2>7 DEF Fail, State
    <3>6. SameView(s.mem, u.mem, r)
      BY <3>1, <3>4 DEF SameView, Over
    <3>7. Fine(k + 1)
      BY Zenon, <3>4, <3>5, <3>6
    <3> QED
      BY <2>1, <3>7
  <2> QED
    BY Zenon, <2>4, <2>6, <2>7
<1>6. count \in S
  <2> HIDE DEF S
  <2> QED
    BY <1>4, <1>5, Induction
<1> QED
  BY Zenon, <1>6

(* paging_update_range changes the translations of its range only. *)
Outside(m, n, r, range, count) ==
    \A q \in Address :
        (\A j \in 1 .. count : q # range[j]) => Leaf(n, r, q) = Leaf(m, r, q)

LEMMA UpdatesKeep ==
    ASSUME WellOrdered, NEW s, NEW rs, NEW P, NEW r \in rs, Forest(s.mem, s.free, rs, P),
           NEW range, NEW count \in Nat, NEW rights \in SUBSET Rights,
           \A k \in 1 .. count : range[k] \in Address
    PROVE  LET u == ForUpdated!Loop([root |-> r, range |-> range, rights |-> rights], s, count)
           IN  /\ Forest(u.mem, u.free, rs, P)
               /\ Outside(s.mem, u.mem, r, range, count)
<1> DEFINE on == [root |-> r, range |-> range, rights |-> rights]
           G(k) == ForUpdated!Loop(on, s, k)
           Fine(k) ==
              /\ Forest(G(k).mem, G(k).free, rs, P)
              /\ \A q \in Address :
                    (\A j \in 1 .. count : q # range[j]) => Leaf(G(k).mem, r, q) = Leaf(s.mem, r, q)
           S == {k \in 0 .. count : Fine(k)}
<1>1. on.root = r /\ on.range = range /\ on.rights = rights
  BY Zenon
<1> SUFFICES Fine(count)
  BY Zenon DEF Outside
<1> HIDE DEF on
<1>3. G(0) = s /\ \A n \in Nat : G(n + 1) = UpdateNth(on, G(n), n + 1)
  BY Zenon, ForUpdated!LoopIs DEF WellOrdered
<1> HIDE DEF G
<1>4. 0 \in S
  BY <1>3
<1>5. ASSUME NEW k \in 0 .. count, k \in S, k # count
      PROVE  k + 1 \in S
  <2>1. k + 1 \in 1 .. count /\ k + 1 \in 0 .. count /\ k \in Nat
    BY <1>5
  <2> DEFINE p == range[k + 1]
             u == UpdatePage(G(k), r, p, rights)
  <2>2. p \in Address /\ G(k + 1) = IF G(k).status # "Ok" THEN G(k) ELSE u
    BY Zenon, <1>1, <1>3, <2>1 DEF UpdateNth
  <2>3. Fine(k)
    BY Zenon, <1>5
  <2>4. Forest(u.mem, u.free, rs, P) /\ Elsewhere(G(k).mem, u.mem, r, p)
    <3> HIDE DEF p
    <3> QED
      BY Zenon, <2>2, <2>3, UpdatePageKeeps
  <2> HIDE DEF u
  <2>5. Fine(k + 1)
    BY Zenon, <2>1, <2>2, <2>3, <2>4 DEF Elsewhere
  <2> QED
    BY Zenon, <2>1, <2>5
<1>6. count \in S
  <2> HIDE DEF S
  <2> QED
    BY <1>4, <1>5, Induction
<1> QED
  BY Zenon, <1>6
=============================================================================
