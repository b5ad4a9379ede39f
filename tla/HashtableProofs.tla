-------------------------- MODULE HashtableProofs ---------------------------
(***************************************************************************)
(* Hashtable, proved for any keys, values, hash function and sizes: the    *)
(* count of used slots is right, and the table implements a multimap.      *)
(*                                                                         *)
(* That a get finds a key if it is there needs an invariant of linear      *)
(* probing: between the home slot of an entry and the entry itself no slot *)
(* is empty.  A put keeps it because it takes the first empty slot, a      *)
(* remove because it leaves a tombstone, a rebuild because the new table   *)
(* is filled by puts.  The puts of a rebuild find room because the new     *)
(* table is larger than the old one and has no tombstones.                 *)
(***************************************************************************)
EXTENDS Hashtable, FiniteSetTheorems, WellFoundedInduction, TLAPS

Entries == {Full(k, v) : k \in Keys, v \in Values}

IsTable(t) ==
    /\ t = [size |-> t.size, used |-> t.used, data |-> t.data]
    /\ t.size \in Nat \ {0}
    /\ t.used \in Nat
    /\ t.data \in [Slots(t.size) -> {Empty, Tombstone} \cup Entries]

FullIn(t) == {s \in Slots(t.size) : t.data[s].state = "Full"}

Count(t, key, value) ==
    Cardinality({s \in Slots(t.size) : t.data[s] = Full(key, value)})

(* Slot s is d steps from the home slot of key, past slots none of which   *)
(* is empty.                                                               *)
Reaches(t, key, d, s) ==
    /\ d \in Slots(t.size)
    /\ Probe(t, key, d) = s
    /\ \A e \in Slots(t.size) : e < d => t.data[Probe(t, key, e)] # Empty

Reachable(t) ==
    \A s \in FullIn(t) :
        \E d \in Slots(t.size) : Reaches(t, t.data[s].key, d, s)

Inv ==
    /\ IsTable(table)
    /\ table.used = Cardinality(FullIn(table))
    /\ Reachable(table)
    /\ answer \in Values \cup {Null}
    /\ mode \in {"live", "destroyed", "halted"}
    /\ failed \in {"none", "not_reached", "rebalance"}

-----------------------------------------------------------------------------

LEMMA LeastExists == \A S \in SUBSET Nat : S # {} => \E x \in S : \A y \in S : x <= y
<1> SUFFICES ASSUME NEW S \in SUBSET Nat, S # {}
             PROVE  \E x \in S : \A y \in S : x <= y
  BY Zenon
<1>1. PICK R : R = OpToRel(<, Nat)
  BY Zenon
<1>2. IsWellFoundedOn(R, Nat)
  BY Zenon, <1>1, NatLessThanWellFounded
<1>3. PICK x \in S : \A y \in S : ~ (<<y, x>> \in R)
  BY Zenon, <1>2, WFMin
<1>4. R = {ss \in Nat \X Nat : ss[1] < ss[2]}
  BY <1>1, Zenon DEF OpToRel
<1>5. \A y, z \in Nat : <<y, z>> \in R <=> y < z
  BY Zenon, <1>4
<1>6. \A y \in S : ~ (y < x)
  BY Zenon, <1>3, <1>5
<1> QED
  BY <1>6

(* Induction up to n, over the set of the numbers for which a fact holds.  *)
LEMMA Induction ==
    ASSUME NEW n \in Nat, NEW S, 0 \in S,
           \A k \in 0 .. n : k \in S /\ k # n => k + 1 \in S
    PROVE  \A k \in 0 .. n : k \in S
<1> DEFINE T == {k \in 0 .. n : k \notin S}
<1> SUFFICES ASSUME T # {}
             PROVE  FALSE
  BY Zenon
<1>1. PICK k \in T : \A m \in T : k <= m
  <2>1. T \in SUBSET Nat
    OBVIOUS
  <2> HIDE DEF T
  <2> QED
    BY Zenon, <2>1, LeastExists
<1>2. k \in 1 .. n /\ k - 1 \in 0 .. n /\ k - 1 \notin T
  BY <1>1
<1>3. k - 1 \in S /\ k - 1 # n /\ (k - 1) + 1 = k
  BY <1>2
<1> QED
  BY Zenon, <1>2, <1>3

LEMMA MinIs ==
    ASSUME NEW S \in SUBSET Nat, S # {}
    PROVE  Min(S) \in S /\ \A y \in S : Min(S) <= y
BY Zenon, LeastExists DEF Min

LEMMA DivMod ==
    ASSUME NEW h \in Nat, NEW n \in Nat \ {0}
    PROVE  /\ h \div n \in Nat /\ h % n \in 0 .. n - 1
           /\ h = n * (h \div n) + (h % n)
<1>1. h = n * (h \div n) + (h % n)
  BY Z3
<1> QED
  BY <1>1

LEMMA ModIs ==
    ASSUME NEW n \in Nat \ {0}, NEW q \in Int, NEW r \in 0 .. n - 1
    PROVE  (n * q + r) % n = r
OBVIOUS

(* A probe sequence visits every slot. *)
LEMMA ProbeAll ==
    ASSUME NEW t, t.size \in Nat \ {0}, NEW key \in Keys
    PROVE  /\ \A d \in Slots(t.size) : Probe(t, key, d) \in Slots(t.size)
           /\ \A s \in Slots(t.size) : \E d \in Slots(t.size) : Probe(t, key, d) = s
<1> DEFINE n == t.size
           h == Hash[key]
           q == h \div n
           r == h % n
<1>1. h \in Nat /\ n \in Nat \ {0}
  BY Zenon, HashtableAssumption
<1>2. \A d \in Slots(n) : Probe(t, key, d) = (h + d) % n
  BY Zenon DEF Probe
<1> HIDE DEF n, h
<1>3. q \in Nat /\ r \in 0 .. n - 1 /\ h = n * q + r
  BY Zenon, <1>1, DivMod
<1> HIDE DEF q, r
<1>4. \A d \in Slots(n) : (h + d) % n \in Slots(n)
  BY <1>1 DEF Slots
<1>5. ASSUME NEW s \in Slots(n)
      PROVE  \E d \in Slots(n) : (h + d) % n = s
  <2>1. CASE r <= s
    <3>1. s - r \in Slots(n) /\ h + (s - r) = n * q + s
      BY <1>1, <1>3, <2>1 DEF Slots
    <3>2. (n * q + s) % n = s
      BY <1>1, <1>3, ModIs DEF Slots
    <3> QED
      BY Zenon, <3>1, <3>2
  <2>2. CASE s < r
    <3>1. (n + s) - r \in Slots(n) /\ h + ((n + s) - r) = n * (q + 1) + s
      BY <1>1, <1>3, <2>2 DEF Slots
    <3>2. (n * (q + 1) + s) % n = s
      BY <1>1, <1>3, ModIs DEF Slots
    <3> QED
      BY Zenon, <3>1, <3>2
  <2> QED
    BY <1>1, <1>3, <2>1, <2>2 DEF Slots
<1> QED
  BY Zenon, <1>2, <1>4, <1>5 DEF n

LEMMA EntryIs ==
    /\ Empty.state = "Empty" /\ Tombstone.state = "Tombstone" /\ Empty # Tombstone
    /\ \A k, v : /\ Full(k, v).state = "Full"
                 /\ Full(k, v).key = k
                 /\ Full(k, v).value = v
                 /\ Full(k, v) # Empty /\ Full(k, v) # Tombstone
BY Zenon DEF Empty, Tombstone, Full

LEMMA SlotIs ==
    ASSUME NEW t, IsTable(t), NEW s \in Slots(t.size)
    PROVE  /\ t.data[s] = Empty \/ t.data[s] = Tombstone \/ t.data[s] \in Entries
           /\ t.data[s].state = "Full" <=> t.data[s] \in Entries
           /\ t.data[s].state = "Full" =>
                 /\ t.data[s].key \in Keys /\ t.data[s].value \in Values
                 /\ t.data[s] = Full(t.data[s].key, t.data[s].value)
<1>1. t.data[s] = Empty \/ t.data[s] = Tombstone \/ t.data[s] \in Entries
  BY Zenon DEF IsTable
<1> QED
  BY <1>1, EntryIs DEF Entries

-----------------------------------------------------------------------------

LEMMA SlotsFinite ==
    ASSUME NEW n \in Nat
    PROVE  /\ IsFiniteSet(Slots(n)) /\ Cardinality(Slots(n)) = n
           /\ \A S \in SUBSET Slots(n) :
                 IsFiniteSet(S) /\ Cardinality(S) \in Nat /\ Cardinality(S) <= n
<1>1. IsFiniteSet(0 .. n - 1) /\ Cardinality(0 .. n - 1) = n
  <2>1. n - 1 \in Int /\ (0 > n - 1 => n = 0)
    OBVIOUS
  <2> QED
    BY <2>1, FS_Interval
<1>2. IsFiniteSet(Slots(n)) /\ Cardinality(Slots(n)) = n
  BY Zenon, <1>1 DEF Slots
<1> QED
  BY <1>2, FS_Subset, FS_CardinalityType

(* hashtable_seek_empty returns the first empty slot of the probe sequence,*)
(* and fails only when there is none at all.                               *)
LEMMA SeekEmptyIs ==
    ASSUME NEW t, IsTable(t), NEW key \in Keys
    PROVE  LET s == SeekEmpty(t, key)
           IN  /\ s # NotReached =>
                     /\ s \in Slots(t.size) /\ t.data[s] = Empty
                     /\ \E d : Reaches(t, key, d, s)
               /\ s = NotReached => \A x \in Slots(t.size) : t.data[x] # Empty
<1> DEFINE empty == {d \in Slots(t.size) : t.data[Probe(t, key, d)] = Empty}
           d == Min(empty)
<1>1. t.size \in Nat \ {0}
  BY Zenon DEF IsTable
<1>2. /\ \A e \in Slots(t.size) : Probe(t, key, e) \in Slots(t.size) /\ e \in Nat
      /\ \A s \in Slots(t.size) : \E e \in Slots(t.size) : Probe(t, key, e) = s
  BY <1>1, ProbeAll DEF Slots
<1>3. \A s \in Slots(t.size) : s # NotReached
  BY <1>1 DEF Slots, NotReached
<1>4. SeekEmpty(t, key) = IF empty = {} THEN NotReached ELSE Probe(t, key, d)
  BY Zenon DEF SeekEmpty
<1>5. CASE empty = {}
  BY Zenon, <1>2, <1>4, <1>5
<1>6. CASE empty # {}
  <2>1. empty \in SUBSET Nat
    BY Zenon, <1>2
  <2>2. d \in empty /\ \A y \in empty : d <= y
    <3> HIDE DEF empty
    <3> QED
      BY Zenon, <1>6, <2>1, MinIs
  <2>3. /\ d \in Slots(t.size) /\ Probe(t, key, d) \in Slots(t.size)
        /\ t.data[Probe(t, key, d)] = Empty
    BY Zenon, <1>2, <2>2
  <2>a. d \in Nat /\ \A e \in empty : d <= e /\ e \in Nat
    BY Zenon, <2>1, <2>2
  <2> HIDE DEF d
  <2>4. \A e \in Slots(t.size) : e < d => t.data[Probe(t, key, e)] # Empty
    BY <1>2, <2>a
  <2>5. Reaches(t, key, d, Probe(t, key, d))
    BY Zenon, <2>3, <2>4 DEF Reaches
  <2> QED
    BY Zenon, <1>3, <1>4, <1>6, <2>3, <2>5
<1> QED
  BY Zenon, <1>5, <1>6

(* Slots that are not empty stay so. *)
LEMMA ReachesKept ==
    ASSUME NEW t, IsTable(t), NEW u, u.size = t.size,
           \A x \in Slots(t.size) : t.data[x] # Empty => u.data[x] # Empty,
           NEW k \in Keys, NEW e, NEW s, Reaches(t, k, e, s)
    PROVE  Reaches(u, k, e, s)
<1>1. \A d \in Slots(t.size) : Probe(t, k, d) \in Slots(t.size)
  BY Zenon, ProbeAll DEF IsTable
<1>2. \A d : Probe(u, k, d) = Probe(t, k, d)
  BY Zenon DEF Probe
<1>3. /\ e \in Slots(t.size) /\ Probe(t, k, e) = s
      /\ \A d \in Slots(t.size) : d < e => t.data[Probe(t, k, d)] # Empty
  BY Zenon DEF Reaches
<1>4. \A d \in Slots(u.size) : d < e => u.data[Probe(u, k, d)] # Empty
  BY Zenon, <1>1, <1>2, <1>3
<1> QED
  BY Zenon, <1>2, <1>3, <1>4 DEF Reaches

(* An empty slot becomes full. *)
LEMMA FilledSlot ==
    ASSUME NEW t, IsTable(t), t.used = Cardinality(FullIn(t)), Reachable(t),
           NEW key \in Keys, NEW value \in Values,
           NEW s \in Slots(t.size), t.data[s] = Empty,
           NEW d, Reaches(t, key, d, s),
           NEW u, IsTable(u), u.size = t.size, u.used = t.used + 1,
           \A x \in Slots(t.size) :
               u.data[x] = IF x = s THEN Full(key, value) ELSE t.data[x]
    PROVE  /\ u.used = Cardinality(FullIn(u))
           /\ Reachable(u)
           /\ FullIn(u) = FullIn(t) \cup {s}
           /\ \A k \in Keys, v \in Values :
                 Count(u, k, v) = IF k = key /\ v = value
                                  THEN Count(t, k, v) + 1 ELSE Count(t, k, v)
<1>1. t.size \in Nat
  BY Zenon DEF IsTable
<1>2. FullIn(u) = FullIn(t) \cup {s} /\ s \notin FullIn(t)
  BY EntryIs DEF FullIn
<1>3. IsFiniteSet(FullIn(t)) /\ Cardinality(FullIn(t)) \in Nat
  BY Zenon, <1>1, SlotsFinite DEF FullIn
<1>4. u.used = Cardinality(FullIn(u))
  <2>1. Cardinality(FullIn(t) \cup {s}) = Cardinality(FullIn(t)) + 1
    BY Zenon, <1>2, <1>3, FS_AddElement
  <2> QED
    BY Zenon, <1>2, <2>1
<1>5. ASSUME NEW k \in Keys, NEW e, NEW x, Reaches(t, k, e, x)
      PROVE  Reaches(u, k, e, x)
  BY Zenon, <1>5, EntryIs, ReachesKept
<1>6. Reachable(u)
  <2> SUFFICES ASSUME NEW x \in FullIn(u)
               PROVE  \E e \in Slots(u.size) : Reaches(u, u.data[x].key, e, x)
    BY Zenon DEF Reachable
  <2>1. CASE x = s
    BY <1>5, <2>1, EntryIs DEF Reaches
  <2>2. CASE x # s
    <3>1. x \in FullIn(t) /\ u.data[x] = t.data[x]
      BY Zenon, <1>2, <2>2 DEF FullIn
    <3> QED
      BY Zenon, <1>5, <3>1, SlotIs DEF Reachable, FullIn
  <2> QED
    BY Zenon, <2>1, <2>2
<1>7. ASSUME NEW k \in Keys, NEW v \in Values
      PROVE  Count(u, k, v) = IF k = key /\ v = value
                              THEN Count(t, k, v) + 1 ELSE Count(t, k, v)
  <2> DEFINE S == {x \in Slots(t.size) : t.data[x] = Full(k, v)}
             T == {x \in Slots(u.size) : u.data[x] = Full(k, v)}
  <2>1. Count(t, k, v) = Cardinality(S) /\ Count(u, k, v) = Cardinality(T)
    BY Zenon DEF Count
  <2>2. s \notin S /\ IsFiniteSet(S)
    BY <1>1, EntryIs, SlotsFinite
  <2>3. CASE k = key /\ v = value
    <3>1. T = S \cup {s}
      BY Zenon, <2>3
    <3> HIDE DEF S, T
    <3>2. Cardinality(S \cup {s}) = Cardinality(S) + 1
      BY Zenon, <2>2, FS_AddElement
    <3> QED
      BY Zenon, <2>1, <2>3, <3>1, <3>2
  <2>4. CASE ~ (k = key /\ v = value)
    <3>1. Full(k, v) # Full(key, value)
      BY <2>4, EntryIs
    <3>2. T = S
      BY Zenon, <2>2, <3>1
    <3> QED
      BY Zenon, <2>1, <2>4, <3>2
  <2> QED
    BY Zenon, <2>3, <2>4
<1> QED
  BY Zenon, <1>2, <1>4, <1>6, <1>7

(* hashtable_put without growing. *)
LEMMA InsertIs ==
    ASSUME NEW t, IsTable(t), t.used = Cardinality(FullIn(t)), Reachable(t),
           NEW key \in Keys, NEW value \in Values,
           SeekEmpty(t, key) # NotReached
    PROVE  LET u == Insert(t, key, value)
           IN  /\ IsTable(u) /\ u.size = t.size /\ u.used = t.used + 1
               /\ u.used = Cardinality(FullIn(u))
               /\ Reachable(u)
               /\ \A x \in Slots(t.size) : u.data[x] = Tombstone => t.data[x] = Tombstone
               /\ \A k \in Keys, v \in Values :
                     Count(u, k, v) = IF k = key /\ v = value
                                      THEN Count(t, k, v) + 1 ELSE Count(t, k, v)
<1> DEFINE s == SeekEmpty(t, key)
           u == Insert(t, key, value)
<1>1. s \in Slots(t.size) /\ t.data[s] = Empty /\ \E d : Reaches(t, key, d, s)
  BY Zenon, SeekEmptyIs
<1>2. PICK d : Reaches(t, key, d, s)
  BY Zenon, <1>1
<1>3. u = Store(t, s, Full(key, value), t.used + 1)
  BY Zenon DEF Insert
<1>4. Full(key, value) \in Entries /\ t.used + 1 \in Nat
  BY DEF Entries, IsTable
<1>b. s \in Slots(t.size) /\ Full(key, value) \in {Empty, Tombstone} \cup Entries
  BY Zenon, <1>1, <1>4
<1> HIDE DEF s, u
<1>5. /\ IsTable(u) /\ u.size = t.size /\ u.used = t.used + 1
      /\ \A x \in Slots(t.size) :
            u.data[x] = IF x = s THEN Full(key, value) ELSE t.data[x]
  <2> DEFINE e == Full(key, value)
             n == t.used + 1
  <2> HIDE DEF e, n
  <2>1. /\ s \in Slots(t.size) /\ e \in {Empty, Tombstone} \cup Entries
        /\ n \in Nat /\ u = Store(t, s, e, n)
    BY Zenon, <1>3, <1>4, <1>b DEF e, n
  <2>2. /\ IsTable(u) /\ u.size = t.size /\ u.used = n
        /\ \A x \in Slots(t.size) : u.data[x] = IF x = s THEN e ELSE t.data[x]
    BY Zenon, <2>1 DEF Store, IsTable
  <2> QED
    BY Zenon, <2>2 DEF e, n
<1>6. /\ u.used = Cardinality(FullIn(u)) /\ Reachable(u)
      /\ \A k \in Keys, v \in Values :
            Count(u, k, v) = IF k = key /\ v = value
                             THEN Count(t, k, v) + 1 ELSE Count(t, k, v)
  BY <1>1, <1>2, <1>5, FilledSlot
<1>7. \A x \in Slots(t.size) : u.data[x] = Tombstone => t.data[x] = Tombstone
  BY <1>5, EntryIs
<1> QED
  BY Zenon, <1>5, <1>6, <1>7 DEF u

-----------------------------------------------------------------------------

(* A table with the entries of the first n slots of t, and nothing else. *)
Holding(w, t, size, n) ==
    /\ IsTable(w)
    /\ w.size = size
    /\ w.used = Cardinality(FullIn(w))
    /\ w.used <= n
    /\ Reachable(w)
    /\ \A s \in Slots(size) : w.data[s] # Tombstone
    /\ \A k \in Keys, v \in Values :
          Count(w, k, v) = Cardinality({s \in Slots(n) : t.data[s] = Full(k, v)})

LEMMA NewTableIs ==
    ASSUME NEW t, NEW size \in Nat \ {0}
    PROVE  Holding(NewTable(size), t, size, 0)
<1> DEFINE w == NewTable(size)
<1>1. /\ w.size = size /\ w.used = 0 /\ IsTable(w)
      /\ \A s \in Slots(size) : w.data[s] = Empty
  BY Zenon DEF NewTable, IsTable
<1> HIDE DEF w
<1>2. FullIn(w) = {} /\ Cardinality({}) = 0
  BY <1>1, EntryIs, FS_EmptySet DEF FullIn
<1>3. Reachable(w)
  BY Zenon, <1>2 DEF Reachable
<1>4. ASSUME NEW k \in Keys, NEW v \in Values
      PROVE  Count(w, k, v) = Cardinality({s \in Slots(0) : t.data[s] = Full(k, v)})
  <2>1. {s \in Slots(w.size) : w.data[s] = Full(k, v)} = {}
    BY <1>1, EntryIs
  <2>2. {s \in Slots(0) : t.data[s] = Full(k, v)} = {}
    BY DEF Slots
  <2> QED
    BY Zenon, <2>1, <2>2 DEF Count
<1>5. w.used = Cardinality(FullIn(w)) /\ w.used <= 0
  BY <1>1, <1>2
<1>6. \A s \in Slots(size) : w.data[s] # Tombstone
  BY Zenon, <1>1, EntryIs
<1> QED
  BY Zenon, <1>1, <1>3, <1>4, <1>5, <1>6 DEF w, Holding

LEMMA ReinsertIs ==
    ASSUME NEW t, IsTable(t), NEW size \in Nat, size > t.size,
           NEW n \in 1 .. t.size, NEW w, Holding(w, t, size, n - 1)
    PROVE  Holding(Reinsert(t, w, n), t, size, n)
<1>1. /\ t.size \in Nat /\ n \in Nat /\ n - 1 \in Nat /\ n - 1 \in Slots(t.size)
      /\ Slots(n) = Slots(n - 1) \cup {n - 1} /\ n - 1 \notin Slots(n - 1)
  BY DEF IsTable, Slots
<1>2. /\ IsTable(w) /\ w.size = size /\ w.used = Cardinality(FullIn(w)) /\ w.used <= n - 1
      /\ Reachable(w) /\ \A s \in Slots(size) : w.data[s] # Tombstone
      /\ w.used \in Nat
  BY Zenon DEF Holding, IsTable
<1> DEFINE In(m, k, v) == {s \in Slots(m) : t.data[s] = Full(k, v)}
<1>3. \A k \in Keys, v \in Values : Count(w, k, v) = Cardinality(In(n - 1, k, v))
  BY Zenon DEF Holding
<1>4. ASSUME NEW k, NEW v
      PROVE  /\ IsFiniteSet(In(n - 1, k, v))
             /\ n - 1 \notin In(n - 1, k, v)
             /\ In(n, k, v) = IF t.data[n - 1] = Full(k, v)
                              THEN In(n - 1, k, v) \cup {n - 1} ELSE In(n - 1, k, v)
  BY Zenon, <1>1, SlotsFinite
<1>5. CASE t.data[n - 1].state = "Full"
  <2> DEFINE key == t.data[n - 1].key
             value == t.data[n - 1].value
             u == Insert(w, key, value)
  <2>1. /\ key \in Keys /\ value \in Values /\ t.data[n - 1] = Full(key, value)
        /\ Reinsert(t, w, n) = u
    BY Zenon, <1>1, <1>5, SlotIs DEF Reinsert
  <2> HIDE DEF key, value
  <2>2. SeekEmpty(w, key) # NotReached
    <3> SUFFICES ASSUME SeekEmpty(w, key) = NotReached
                 PROVE  FALSE
      BY Zenon
    <3>1. \A s \in Slots(size) : w.data[s] # Empty
      BY Zenon, <1>2, <2>1, SeekEmptyIs
    <3>2. \A s \in Slots(size) : w.data[s].state = "Full"
      BY Zenon, <1>2, <3>1, SlotIs
    <3>3. FullIn(w) = Slots(size)
      BY Zenon, <1>2, <3>2 DEF FullIn
    <3>4. Cardinality(Slots(size)) = size
      BY Zenon, SlotsFinite
    <3>5. w.used = size
      BY Zenon, <1>2, <3>3, <3>4
    <3> QED
      BY <1>1, <1>2, <3>5
  <2>3. /\ IsTable(u) /\ u.size = w.size /\ u.used = w.used + 1
        /\ u.used = Cardinality(FullIn(u))
        /\ Reachable(u)
        /\ \A x \in Slots(w.size) : u.data[x] = Tombstone => w.data[x] = Tombstone
        /\ \A k \in Keys, v \in Values :
              Count(u, k, v) = IF k = key /\ v = value
                               THEN Count(w, k, v) + 1 ELSE Count(w, k, v)
    BY <1>2, <2>1, <2>2, InsertIs
  <2> HIDE DEF u
  <2>4. ASSUME NEW k \in Keys, NEW v \in Values
        PROVE  Count(u, k, v) = Cardinality(In(n, k, v))
    <3>1. CASE k = key /\ v = value
      <4>1. In(n, k, v) = In(n - 1, k, v) \cup {n - 1}
        BY Zenon, <1>4, <2>1, <3>1
      <4>2. Cardinality(In(n - 1, k, v) \cup {n - 1}) = Cardinality(In(n - 1, k, v)) + 1
        <5>1. IsFiniteSet(In(n - 1, k, v)) /\ n - 1 \notin In(n - 1, k, v)
          BY Zenon, <1>4
        <5> HIDE DEF In
        <5> QED
          BY Zenon, <5>1, FS_AddElement
      <4>3. Cardinality(In(n, k, v)) = Cardinality(In(n - 1, k, v)) + 1
        <5> HIDE DEF In
        <5> QED
          BY Zenon, <4>1, <4>2
      <4> HIDE DEF In
      <4> QED
        BY Zenon, <1>3, <2>3, <3>1, <4>3
    <3>2. CASE ~ (k = key /\ v = value)
      <4>1. t.data[n - 1] # Full(k, v)
        BY <2>1, <3>2, EntryIs
      <4>2. In(n, k, v) = In(n - 1, k, v)
        BY Zenon, <1>4, <4>1
      <4> HIDE DEF In
      <4> QED
        BY Zenon, <1>3, <2>3, <3>2, <4>2
    <3> QED
      BY Zenon, <3>1, <3>2
  <2>5. u.used <= n
    BY <1>1, <1>2, <2>3
  <2>6. \A s \in Slots(size) : u.data[s] # Tombstone
    BY Zenon, <1>2, <2>3
  <2> QED
    BY Zenon, <1>2, <2>1, <2>3, <2>4, <2>5, <2>6 DEF Holding
<1>6. CASE t.data[n - 1].state # "Full"
  <2>1. Reinsert(t, w, n) = w
    BY Zenon, <1>6 DEF Reinsert
  <2>2. ASSUME NEW k \in Keys, NEW v \in Values
        PROVE  Count(w, k, v) = Cardinality(In(n, k, v))
    <3>1. t.data[n - 1] # Full(k, v)
      BY <1>6, EntryIs
    <3>2. In(n, k, v) = In(n - 1, k, v)
      BY ZenonT(30), <1>4, <3>1
    <3> HIDE DEF In
    <3> QED
      BY Zenon, <1>3, <3>2
  <2>3. w.used <= n
    BY <1>1, <1>2
  <2> QED
    BY Zenon, <1>2, <2>1, <2>2, <2>3 DEF Holding
<1> QED
  BY Zenon, <1>5, <1>6

(* hashtable_rebalance into a larger table keeps every binding. *)
LEMMA RebuildIs ==
    ASSUME NEW t, IsTable(t), NEW size \in Nat, size > t.size
    PROVE  LET u == Rebuild(t, size)
           IN  /\ IsTable(u)
               /\ u.used = Cardinality(FullIn(u))
               /\ Reachable(u)
               /\ \A k \in Keys, v \in Values : Count(u, k, v) = Count(t, k, v)
<1>1. t.size \in Nat /\ size \in Nat \ {0}
  BY DEF IsTable
<1> DEFINE w(n) == ForSlots!Loop(t, NewTable(size), n)
           S == {n \in 0 .. t.size : Holding(w(n), t, size, n)}
<1>2. w(0) = NewTable(size) /\ \A n \in Nat : w(n + 1) = Reinsert(t, w(n), n + 1)
  BY Zenon, LeastExists, ForSlots!LoopIs
<1> HIDE DEF w
<1>3. 0 \in S
  BY <1>1, <1>2, NewTableIs
<1>4. ASSUME NEW n \in 0 .. t.size, n \in S, n # t.size
      PROVE  n + 1 \in S
  <2>1. n + 1 \in 1 .. t.size /\ (n + 1) - 1 = n /\ n \in Nat
    BY <1>1, <1>4
  <2>2. Holding(w(n), t, size, (n + 1) - 1)
    BY Zenon, <1>4, <2>1
  <2>3. Holding(Reinsert(t, w(n), n + 1), t, size, n + 1)
    BY Zenon, <2>1, <2>2, ReinsertIs
  <2> QED
    BY <1>2, <2>1, <2>3
<1>5. t.size \in S
  <2> HIDE DEF S
  <2> QED
    BY <1>1, <1>3, <1>4, Induction
<1>6. Holding(Rebuild(t, size), t, size, t.size)
  BY Zenon, <1>5 DEF w, Rebuild
<1> QED
  BY Zenon, <1>6 DEF Holding, Count

-----------------------------------------------------------------------------

(* hashtable_seek ends at the key, or at an empty slot and then the key is *)
(* nowhere in the table.                                                   *)
LEMMA SeekIs ==
    ASSUME NEW t, IsTable(t), Reachable(t), NEW key \in Keys,
           Seek(t, key) # NotReached
    PROVE  LET s == Seek(t, key)
           IN  /\ s \in Slots(t.size)
               /\ Holds(t, s, key) \/ t.data[s] = Empty
               /\ t.data[s] = Empty => \A x \in FullIn(t) : t.data[x].key # key
<1> DEFINE d == Min(SeekStops(t, key))
           s == Seek(t, key)
<1>1. SeekStops(t, key) # {} /\ s = Probe(t, key, d)
  BY Zenon DEF Seek
<1>2. t.size \in Nat \ {0} /\ SeekStops(t, key) \in SUBSET Nat
  BY DEF IsTable, SeekStops, Slots
<1>3. d \in SeekStops(t, key) /\ \A y \in SeekStops(t, key) : d <= y
  BY Zenon, <1>1, <1>2, MinIs
<1> HIDE DEF d, s
<1>4. d \in Slots(t.size) /\ (Holds(t, s, key) \/ t.data[s] = Empty)
  BY Zenon, <1>1, <1>3 DEF SeekStops
<1>5. s \in Slots(t.size)
  BY Zenon, <1>1, <1>2, <1>4, ProbeAll
<1>6. ASSUME t.data[s] = Empty, NEW x \in FullIn(t), t.data[x].key = key
      PROVE  FALSE
  <2>1. PICK e \in Slots(t.size) : Reaches(t, key, e, x)
    BY Zenon, <1>6 DEF Reachable
  <2>2. Holds(t, Probe(t, key, e), key)
    BY Zenon, <1>6, <2>1 DEF Reaches, Holds, FullIn
  <2>3. d <= e
    BY Zenon, <1>3, <2>2 DEF SeekStops
  <2>4. d # e
    BY Zenon, <1>1, <1>6, <2>2, EntryIs DEF Holds
  <2>5. d < e
    BY <1>4, <2>3, <2>4 DEF Slots
  <2> QED
    BY Zenon, <1>1, <1>4, <1>6, <2>1, <2>5 DEF Reaches
<1> QED
  BY Zenon, <1>4, <1>5, <1>6 DEF s

(* hashtable_remove: the slot becomes a tombstone, so every other entry    *)
(* stays within reach of its home slot.                                    *)
LEMMA RemoveIs ==
    ASSUME NEW t, IsTable(t), t.used = Cardinality(FullIn(t)), Reachable(t),
           NEW s \in Slots(t.size), t.data[s].state = "Full"
    PROVE  LET u == Store(t, s, Tombstone, t.used - 1)
           IN  /\ IsTable(u)
               /\ u.used = Cardinality(FullIn(u))
               /\ Reachable(u)
               /\ Count(t, t.data[s].key, t.data[s].value) > 0
               /\ \A k \in Keys, v \in Values :
                     Count(u, k, v) = IF k = t.data[s].key /\ v = t.data[s].value
                                      THEN Count(t, k, v) - 1 ELSE Count(t, k, v)
<1> DEFINE u == Store(t, s, Tombstone, t.used - 1)
           key == t.data[s].key
           value == t.data[s].value
<1>1. t.size \in Nat \ {0} /\ t.used \in Nat
  BY Zenon DEF IsTable
<1>2. /\ u.size = t.size /\ u.used = t.used - 1
      /\ u = [size |-> u.size, used |-> u.used, data |-> u.data]
      /\ u.data \in [Slots(t.size) -> {Empty, Tombstone} \cup Entries]
      /\ \A x \in Slots(t.size) : u.data[x] = IF x = s THEN Tombstone ELSE t.data[x]
  BY Zenon DEF IsTable, Store
<1>3. key \in Keys /\ value \in Values /\ t.data[s] = Full(key, value)
  BY Zenon, SlotIs
<1> HIDE DEF u, key, value
<1>4. /\ s \in FullIn(t) /\ FullIn(u) = FullIn(t) \ {s}
      /\ IsFiniteSet(FullIn(t)) /\ IsFiniteSet(FullIn(u))
  <2>1. FullIn(t) \in SUBSET Slots(t.size) /\ FullIn(u) \in SUBSET Slots(t.size)
    BY Zenon, <1>2 DEF FullIn
  <2>2. s \in FullIn(t) /\ FullIn(u) = FullIn(t) \ {s}
    BY <1>2, EntryIs DEF FullIn
  <2> QED
    BY Zenon, <1>1, <2>1, <2>2, SlotsFinite
<1>5. Cardinality(FullIn(u)) = Cardinality(FullIn(t)) - 1 /\ Cardinality(FullIn(u)) \in Nat
  BY Zenon, <1>4, FS_RemoveElement, FS_CardinalityType
<1>6. IsTable(u) /\ u.used = Cardinality(FullIn(u))
  BY Zenon, <1>1, <1>2, <1>5 DEF IsTable
<1>7. Reachable(u)
  <2> SUFFICES ASSUME NEW x \in FullIn(u)
               PROVE  \E d \in Slots(u.size) : Reaches(u, u.data[x].key, d, x)
    BY Zenon DEF Reachable
  <2>1. x \in FullIn(t) /\ x \in Slots(t.size) /\ u.data[x] = t.data[x]
    BY Zenon, <1>2, <1>4 DEF FullIn
  <2>2. t.data[x].key \in Keys
    BY Zenon, <2>1, SlotIs DEF FullIn
  <2>3. PICK d \in Slots(t.size) : Reaches(t, t.data[x].key, d, x)
    BY Zenon, <2>1 DEF Reachable
  <2>4. \A y \in Slots(t.size) : t.data[y] # Empty => u.data[y] # Empty
    BY Zenon, <1>2, EntryIs
  <2>5. Reaches(u, t.data[x].key, d, x)
    BY <1>2, <2>2, <2>3, <2>4, ReachesKept
  <2> QED
    BY Zenon, <1>2, <2>1, <2>3, <2>5
<1> DEFINE In(w, k, v) == {x \in Slots(w.size) : w.data[x] = Full(k, v)}
<1>8. ASSUME NEW k, NEW v
      PROVE  /\ IsFiniteSet(In(t, k, v)) /\ Cardinality(In(t, k, v)) \in Nat
             /\ k = key /\ v = value =>
                   s \in In(t, k, v) /\ In(u, k, v) = In(t, k, v) \ {s}
             /\ ~ (k = key /\ v = value) => In(u, k, v) = In(t, k, v)
  <2>1. In(t, k, v) \in SUBSET Slots(t.size)
    BY Zenon
  <2>2. IsFiniteSet(In(t, k, v))
    BY Zenon, <1>1, <2>1, SlotsFinite
  <2>3. k = key /\ v = value =>
                   s \in In(t, k, v) /\ In(u, k, v) = In(t, k, v) \ {s}
    BY <1>2, <1>3, EntryIs
  <2>4. ~ (k = key /\ v = value) => In(u, k, v) = In(t, k, v)
    BY <1>2, <1>3, EntryIs
  <2> HIDE DEF In
  <2> QED
    BY <2>2, <2>3, <2>4, FS_CardinalityType
<1>9. \A w, k, v : Count(w, k, v) = Cardinality(In(w, k, v))
  BY Zenon DEF Count
<1> HIDE DEF In
<1>10. ASSUME NEW k, NEW v, k = key, v = value
       PROVE  Count(u, k, v) = Count(t, k, v) - 1 /\ Count(t, k, v) > 0
  <2>1. /\ Cardinality(In(t, k, v) \ {s}) = Cardinality(In(t, k, v)) - 1
        /\ Cardinality(In(t, k, v) \ {s}) \in Nat
    BY <1>8, <1>10, FS_RemoveElement, FS_CardinalityType
  <2>2. In(u, k, v) = In(t, k, v) \ {s}
    BY Zenon, <1>8, <1>10
  <2>3. Count(u, k, v) = Cardinality(In(t, k, v)) - 1
    BY <1>9, <2>1, <2>2
  <2>4. Count(t, k, v) = Cardinality(In(t, k, v)) /\ Cardinality(In(t, k, v)) \in Nat
    BY Zenon, <1>8, <1>9
  <2>5. Count(u, k, v) \in Nat
    BY Zenon, <1>9, <2>1, <2>2
  <2> QED
    BY <2>3, <2>4, <2>5
<1>11. ASSUME NEW k, NEW v, ~ (k = key /\ v = value)
       PROVE  Count(u, k, v) = Count(t, k, v)
  BY Zenon, <1>8, <1>9, <1>11
<1> QED
  BY Zenon, <1>6, <1>7, <1>10, <1>11 DEF u, key, value

-----------------------------------------------------------------------------

LEMMA InitInv == Init => Inv
<1> SUFFICES ASSUME Init PROVE Inv
  BY Zenon
<1>1. Holding(NewTable(InitialSize), table, InitialSize, 0)
  BY Zenon, HashtableAssumption, NewTableIs
<1> QED
  BY Zenon, <1>1 DEF Init, Inv, Holding

(* A put adds one binding, whether or not the table grows. *)
LEMMA PutIs ==
    ASSUME Inv, NEW key \in Keys, NEW value \in Values, Put(key, value)
    PROVE  /\ IsTable(table')
           /\ table'.used = Cardinality(FullIn(table'))
           /\ Reachable(table')
           /\ \A k \in Keys, v \in Values :
                 Count(table', k, v) = IF k = key /\ v = value
                                       THEN Count(table, k, v) + 1 ELSE Count(table, k, v)
<1> DEFINE t == Insert(table, key, value)
<1>1. /\ IsTable(t) /\ t.used = Cardinality(FullIn(t)) /\ Reachable(t)
      /\ \A k \in Keys, v \in Values :
            Count(t, k, v) = IF k = key /\ v = value
                             THEN Count(table, k, v) + 1 ELSE Count(table, k, v)
  BY InsertIs DEF Put, Inv
<1>2. table' = t \/ table' = Rebuild(t, t.size * 2)
  BY Zenon DEF Put
<1> HIDE DEF t
<1>3. CASE table' = t
  BY Zenon, <1>1, <1>3
<1>4. CASE table' = Rebuild(t, t.size * 2)
  <2>1. t.size * 2 \in Nat /\ t.size * 2 > t.size
    BY <1>1 DEF IsTable
  <2>2. /\ IsTable(table') /\ table'.used = Cardinality(FullIn(table'))
        /\ Reachable(table')
        /\ \A k \in Keys, v \in Values : Count(table', k, v) = Count(t, k, v)
    BY Zenon, <1>1, <1>4, <2>1, RebuildIs
  <2> QED
    BY Zenon, <1>1, <2>2
<1> QED
  BY <1>2, <1>3, <1>4

(* A get answers with a value bound to the key, or NULL if there is none. *)
LEMMA GetIs ==
    ASSUME Inv, NEW key \in Keys, Get(key)
    PROVE  \/ answer' \in Values /\ Count(table, key, answer') > 0
           \/ answer' = Null /\ \A v \in Values : Count(table, key, v) = 0
<1> DEFINE s == Seek(table, key)
<1>1. /\ s \in Slots(table.size)
      /\ Holds(table, s, key) \/ table.data[s] = Empty
      /\ table.data[s] = Empty => \A x \in FullIn(table) : table.data[x].key # key
  BY Zenon, SeekIs DEF Get, Inv
<1>2. answer' = IF table.data[s] = Empty THEN Null ELSE table.data[s].value
  BY Zenon DEF Get
<1> HIDE DEF s
<1>3. CASE Holds(table, s, key)
  <2>1. table.data[s].state = "Full" /\ table.data[s].key = key /\ table.data[s] # Empty
    BY Zenon, <1>3, EntryIs DEF Holds
  <2>2. Count(table, key, table.data[s].value) > 0 /\ table.data[s].value \in Values
    BY Zenon, <1>1, <2>1, RemoveIs, SlotIs DEF Inv
  <2> QED
    BY Zenon, <1>2, <2>1, <2>2
<1>4. CASE table.data[s] = Empty
  <2>1. ASSUME NEW v \in Values
        PROVE  Count(table, key, v) = 0
    <3>1. {x \in Slots(table.size) : table.data[x] = Full(key, v)} = {}
      BY <1>1, <1>4, EntryIs DEF FullIn
    <3> QED
      BY Zenon, <3>1, FS_EmptySet DEF Count
  <2> QED
    BY Zenon, <1>2, <1>4, <2>1
<1> QED
  BY Zenon, <1>1, <1>3, <1>4

LEMMA NextInv == Inv /\ [Next]_vars => Inv'
<1> SUFFICES ASSUME Inv, [Next]_vars
             PROVE  Inv'
  BY Zenon
<1>1. ASSUME NEW key \in Keys, NEW value \in Values, Put(key, value)
      PROVE  Inv'
  <2>1. IsTable(table') /\ table'.used = Cardinality(FullIn(table')) /\ Reachable(table')
    BY Zenon, <1>1, PutIs
  <2>2. UNCHANGED <<answer, mode, failed>>
    BY Zenon, <1>1 DEF Put
  <2> QED
    BY Zenon, <2>1, <2>2 DEF Inv, IsTable, FullIn, Reachable, Reaches, Probe
<1>2. ASSUME NEW key \in Keys, Get(key)
      PROVE  Inv'
  <2>1. UNCHANGED <<table, mode, failed>>
    BY Zenon, <1>2 DEF Get
  <2>2. answer' \in Values \cup {Null}
    BY Zenon, <1>2, GetIs
  <2> QED
    BY <2>1, <2>2 DEF Inv, IsTable, FullIn, Reachable, Reaches, Probe
<1>3. ASSUME NEW key \in Keys, Remove(key)
      PROVE  Inv'
  <2>1. Seek(table, key) \in Slots(table.size) /\ table.data[Seek(table, key)].state = "Full"
    BY Zenon, <1>3, SeekIs DEF Remove, Holds, Inv
  <2>2. IsTable(table') /\ table'.used = Cardinality(FullIn(table')) /\ Reachable(table')
    BY Zenon, <1>3, <2>1, RemoveIs DEF Remove, Inv
  <2> QED
    BY Zenon, <1>3, <2>2 DEF Remove, Assertion, Inv, IsTable, FullIn, Reachable, Reaches, Probe
<1>4. CASE UNCHANGED table /\ UNCHANGED answer
           /\ mode' \in {"live", "destroyed", "halted"}
           /\ failed' \in {"none", "not_reached", "rebalance"}
  BY <1>4 DEF Inv, IsTable, FullIn, Reachable, Reaches, Probe
<1>5. ASSUME NEW key \in Keys, PutFull(key) \/ SeekFull(key) \/ RemoveAbsent(key)
      PROVE  Inv'
  BY Zenon, <1>4, <1>5 DEF PutFull, SeekFull, RemoveAbsent, Assertion, Inv
<1>6. CASE Destroy
  BY Zenon, <1>4, <1>6 DEF Destroy, Inv
<1>7. CASE UNCHANGED vars
  BY Zenon, <1>4, <1>7 DEF vars, Inv
<1> QED
  BY Zenon, <1>1, <1>2, <1>3, <1>5, <1>6, <1>7 DEF Next

(* In every table that hashtable_put, hashtable_remove and                 *)
(* hashtable_rebalance build, ht->used is the number of full slots.        *)
THEOREM UsedAlwaysCounts == Spec => []UsedCounts
<1>1. Inv => UsedCounts
  <2> SUFFICES ASSUME Inv PROVE UsedCounts
    BY Zenon
  <2>1. FullSlots = FullIn(table) /\ FullIn(table) \in SUBSET Slots(table.size)
    BY Zenon DEF FullSlots, FullIn
  <2>2. table.size \in Nat /\ table.used = Cardinality(FullIn(table))
    BY Zenon DEF Inv, IsTable
  <2>3. Cardinality(FullIn(table)) <= table.size
    BY Zenon, <2>1, <2>2, SlotsFinite, FS_Subset
  <2>4. table.used \in 0 .. table.size
    BY <2>2, <2>3 DEF Inv, IsTable
  <2> QED
    BY <2>1, <2>2, <2>4 DEF UsedCounts, TypeOK, Inv, IsTable, Entries
<1> QED
  BY <1>1, InitInv, NextInv, PTL DEF Spec

-----------------------------------------------------------------------------

IsBag(f) == f = [b \in Keys \X Values |-> f[b]]

Changed(f, key, value, n) == [f EXCEPT ![<<key, value>>] = n]

LEMMA OneChanged ==
    ASSUME NEW f, NEW g, NEW key \in Keys, NEW value \in Values, NEW n,
           IsBag(f), IsBag(g),
           \A k \in Keys, v \in Values :
               g[<<k, v>>] = IF k = key /\ v = value THEN n ELSE f[<<k, v>>]
    PROVE  g = Changed(f, key, value, n)
<1> DEFINE h == [f EXCEPT ![<<key, value>>] = n]
<1>1. h = [b \in Keys \X Values |-> h[b]]
  BY Zenon DEF IsBag
<1>2. ASSUME NEW b \in Keys \X Values
      PROVE  h[b] = g[b]
  <2>1. PICK k \in Keys, v \in Values : b = <<k, v>>
    OBVIOUS
  <2>2. b = <<key, value>> <=> k = key /\ v = value
    BY Zenon, <2>1
  <2>3. h[b] = IF b = <<key, value>> THEN n ELSE f[b]
    BY Zenon DEF IsBag
  <2> HIDE DEF h
  <2> QED
    BY Zenon, <2>1, <2>2, <2>3
<1> HIDE DEF h
<1>3. h = g
  BY Zenon, <1>1, <1>2 DEF IsBag
<1> QED
  BY Zenon, <1>3 DEF h, Changed

LEMMA StepImplements ==
    Inv /\ [Next]_vars => [Promise!Next]_(Promise!vars)
<1> SUFFICES ASSUME Inv, [Next]_vars
             PROVE  [Promise!Next]_(Promise!vars)
  BY Zenon
<1>0. /\ Bindings = [b \in Keys \X Values |-> Count(table, b[1], b[2])]
      /\ Bindings' = [b \in Keys \X Values |-> Count(table', b[1], b[2])]
  BY Zenon DEF Bindings, Count
<1>1. ASSUME NEW key \in Keys, NEW value \in Values, Put(key, value)
      PROVE  Promise!Put(key, value)
  <2>1. \A k \in Keys, v \in Values :
          Count(table', k, v) = IF k = key /\ v = value
                                THEN Count(table, k, v) + 1 ELSE Count(table, k, v)
    BY Zenon, <1>1, PutIs
  <2>2. Bindings' = [Bindings EXCEPT ![<<key, value>>] = Bindings[<<key, value>>] + 1]
    <3>1. \A k \in Keys, v \in Values :
            Bindings'[<<k, v>>] = IF k = key /\ v = value
                                  THEN Bindings[<<key, value>>] + 1 ELSE Bindings[<<k, v>>]
      BY Zenon, <1>0, <2>1
    <3> DEFINE f == Bindings
               g == Bindings'
    <3>2. IsBag(f) /\ IsBag(g)
      BY Zenon, <1>0 DEF IsBag
    <3> HIDE DEF f, g
    <3>3. ASSUME NEW n, \A k \in Keys, v \in Values :
                           g[<<k, v>>] = IF k = key /\ v = value THEN n ELSE f[<<k, v>>]
          PROVE  g = Changed(f, key, value, n)
      BY <3>2, <3>3, OneChanged
    <3> QED
      BY Zenon, <3>1, <3>3 DEF f, g, Changed
  <2> QED
    BY Zenon, <1>1, <2>2 DEF Put, Promise!Put
<1>2. ASSUME NEW key \in Keys, Get(key)
      PROVE  Promise!Get(key)
  <2>1. \A v \in Values : Bindings[<<key, v>>] = Count(table, key, v)
    BY Zenon, <1>0
  <2>2. answer' \in IF Promise!BoundTo(key) = {} THEN {Null} ELSE Promise!BoundTo(key)
    BY <1>2, <2>1, GetIs DEF Promise!BoundTo
  <2>3. UNCHANGED Bindings
    BY Zenon, <1>2 DEF Get, Bindings
  <2> QED
    BY Zenon, <1>2, <2>2, <2>3 DEF Get, Promise!Get
<1>3. ASSUME NEW key \in Keys, Remove(key)
      PROVE  Promise!Remove(key)
  <2> DEFINE s == Seek(table, key)
             value == table.data[s].value
  <2>1. /\ s \in Slots(table.size) /\ table.data[s].state = "Full"
        /\ table.data[s].key = key
        /\ table' = Store(table, s, Tombstone, table.used - 1)
    BY Zenon, <1>3, SeekIs DEF Remove, Holds, Inv
  <2>2. value \in Values
    BY Zenon, <2>1, SlotIs DEF Inv
  <2> HIDE DEF s
  <2>3. /\ Count(table, key, value) > 0
        /\ \A k \in Keys, v \in Values :
              Count(table', k, v) = IF k = key /\ v = value
                                    THEN Count(table, k, v) - 1 ELSE Count(table, k, v)
    BY <2>1, RemoveIs DEF Inv
  <2> HIDE DEF value
  <2>4. Bindings' = [Bindings EXCEPT ![<<key, value>>] = Bindings[<<key, value>>] - 1]
    <3>1. \A k \in Keys, v \in Values :
            Bindings'[<<k, v>>] = IF k = key /\ v = value
                                  THEN Bindings[<<key, value>>] - 1 ELSE Bindings[<<k, v>>]
      BY Zenon, <1>0, <2>2, <2>3
    <3> DEFINE f == Bindings
               g == Bindings'
    <3>2. IsBag(f) /\ IsBag(g)
      BY Zenon, <1>0 DEF IsBag
    <3> HIDE DEF f, g
    <3>3. ASSUME NEW n, \A k \in Keys, v \in Values :
                           g[<<k, v>>] = IF k = key /\ v = value THEN n ELSE f[<<k, v>>]
          PROVE  g = Changed(f, key, value, n)
      BY <2>2, <3>2, <3>3, OneChanged
    <3> QED
      BY Zenon, <3>1, <3>3 DEF f, g, Changed
  <2>5. value \in Promise!BoundTo(key)
    BY Zenon, <1>0, <2>2, <2>3 DEF Promise!BoundTo
  <2>6. mode = "live" /\ mode' \in {"live", "halted"} /\ UNCHANGED answer
    BY Zenon, <1>3 DEF Remove, Assertion
  <2> QED
    BY Zenon, <2>4, <2>5, <2>6 DEF Promise!Remove
<1>4. UNCHANGED table => UNCHANGED Bindings
  BY Zenon DEF Bindings
<1>5. ASSUME NEW key \in Keys, PutFull(key) \/ SeekFull(key) \/ RemoveAbsent(key)
      PROVE  Promise!Panic
  BY Zenon, <1>4, <1>5 DEF PutFull, SeekFull, RemoveAbsent, Assertion, Promise!Panic
<1>6. CASE Destroy
  BY Zenon, <1>4, <1>6 DEF Destroy, Promise!Destroy, Promise!Next
<1>7. CASE UNCHANGED vars
  BY Zenon, <1>4, <1>7 DEF vars, Promise!vars
<1> QED
  BY Zenon, <1>1, <1>2, <1>3, <1>5, <1>6, <1>7 DEF Next, Promise!Next

(* hashtable_put, hashtable_get and hashtable_remove implement a multimap: *)
(* no call loses, adds or changes another binding, and a get that returns  *)
(* finds a binding of its key if there is one.                             *)
THEOREM TableImplements == Spec => ImplementsMultiMap
<1>1. Init => Promise!Init
  <2> SUFFICES ASSUME Init PROVE Promise!Init
    OBVIOUS
  <2>1. ASSUME NEW k, NEW v
        PROVE  {s \in Slots(table.size) : table.data[s] = Full(k, v)} = {}
    BY EntryIs DEF Init, NewTable
  <2>2. \A k, v : Cardinality({s \in Slots(table.size) : table.data[s] = Full(k, v)}) = 0
    BY Zenon, <2>1, FS_EmptySet
  <2>3. Bindings = [b \in Keys \X Values |-> 0]
    BY <2>2 DEF Bindings
  <2> QED
    BY Zenon, <2>3 DEF Init, Promise!Init
<1> QED
  BY <1>1, InitInv, NextInv, StepImplements, PTL DEF Spec, ImplementsMultiMap, Promise!Spec
=============================================================================
