----------------------------- MODULE HeapProofs -----------------------------
(***************************************************************************)
(* Heap, proved for a heap of any size, any requests and sections of any   *)
(* capacity: while the machine runs the two vectors partition the heap,    *)
(* and no assertion of kmalloc or kfree fails.                             *)
(*                                                                         *)
(* The first part says what the operators of RegionVector do to the set of *)
(* regions a chain records, for chains of any length.  As long as no       *)
(* region is recorded twice, allocating replaces one region, freeing adds  *)
(* one and finding removes one, and none is recorded twice afterwards.     *)
(*                                                                         *)
(* The second part is about the two sets of regions that the vectors       *)
(* record.  That regions are disjoint is not enough: freeing a block must  *)
(* find the fill pattern in its red zones, so the invariant also says that *)
(* only the payload of a used block is dirty; and Used stays in range      *)
(* because it is the number of words that used regions cover.              *)
(***************************************************************************)
EXTENDS Heap, SequenceTheorems, FiniteSetTheorems, WellFoundedInduction, TLAPS

(* No region is recorded at two positions. *)
Once(chain) ==
    \A p, q \in Positions(chain) : At(chain, p) = At(chain, q) => p = q

-----------------------------------------------------------------------------

LEMMA LeastExists ==
    ASSUME NEW S \in SUBSET Nat, S # {}
    PROVE  \E x \in S : \A y \in S : x <= y
<1>1. PICK R : R = OpToRel(<, Nat)
  BY Zenon
<1>2. IsWellFoundedOn(R, Nat)
  BY Zenon, <1>1, NatLessThanWellFounded
<1>3. PICK x \in S : \A y \in S : ~ (<<y, x>> \in R)
  BY Zenon, <1>2, WFMin
<1>4. R = {ss \in Nat \X Nat : ss[1] < ss[2]}
  BY <1>1, Zenon DEF OpToRel
<1>5. \A y, z \in Nat : <<y, z>> \in R <=> y < z
  BY Zenon, <1>4
<1>6. \A y \in S : ~ (y < x)
  BY Zenon, <1>3, <1>5
<1> QED
  BY <1>6

LEMMA MinIs ==
    ASSUME NEW S \in SUBSET Nat, S # {}
    PROVE  Min(S) \in S /\ \A y \in S : Min(S) <= y
BY Zenon, LeastExists DEF Min

(* The first position of a set of positions, in the order of the scans.    *)
LEMMA FirstIs ==
    ASSUME NEW S \in SUBSET (Nat \X Nat), S # {}
    PROVE  First(S) \in S
<1> DEFINE Is == {p[1] : p \in S}
<1>1. PICK i \in Is : \A k \in Is : i <= k
  <2>1. Is \in SUBSET Nat /\ Is # {}
    BY Zenon
  <2> HIDE DEF Is
  <2> QED
    BY Zenon, <2>1, LeastExists
<1> DEFINE Js == {j \in Nat : <<i, j>> \in S}
<1>2. PICK j \in Js : \A k \in Js : j <= k
  <2>1. Js \in SUBSET Nat /\ Js # {}
    OBVIOUS
  <2> HIDE DEF Js
  <2> QED
    BY Zenon, <2>1, LeastExists
<1>3. <<i, j>> \in S
  BY Zenon
<1>4. ASSUME NEW q \in S \ {<<i, j>>}
      PROVE  Precedes(<<i, j>>, q)
  <2>1. q = <<q[1], q[2]>> /\ q[1] \in Nat /\ q[2] \in Nat /\ i \in Nat /\ j \in Nat
    OBVIOUS
  <2>2. i <= q[1]
    BY Zenon, <1>1
  <2>3. q[1] = i => j <= q[2] /\ j # q[2]
    BY Zenon, <1>2, <2>1
  <2> QED
    BY <2>1, <2>2, <2>3 DEF Precedes
<1> QED
  BY Zenon, <1>3, <1>4 DEF First

-----------------------------------------------------------------------------

LEMMA PositionIs ==
    ASSUME NEW R, NEW chain \in Seq(Seq(R))
    PROVE  /\ Positions(chain) \in SUBSET (Nat \X Nat)
           /\ \A i, j : <<i, j>> \in Positions(chain) <=>
                           /\ i \in 1 .. Len(chain)
                           /\ j \in 1 .. Len(chain[i])
           /\ \A p \in Positions(chain) :
                 p = <<p[1], p[2]>> /\ At(chain, p) \in R
<1>1. Len(chain) \in Nat /\ DOMAIN chain = 1 .. Len(chain)
  OBVIOUS
<1>2. \A i \in DOMAIN chain :
         /\ chain[i] \in Seq(R) /\ Len(chain[i]) \in Nat
         /\ DOMAIN chain[i] = 1 .. Len(chain[i])
  BY Zenon, ElementOfSeq, LenProperties
<1>3. \A i, j : <<i, j>> \in Positions(chain) <=>
                           /\ i \in 1 .. Len(chain)
                           /\ j \in 1 .. Len(chain[i])
  BY <1>1, <1>2 DEF Positions
<1>4. \A p \in Positions(chain) : p = <<p[1], p[2]>>
  BY DEF Positions
<1>5. Positions(chain) \in SUBSET (Nat \X Nat)
  BY <1>1, <1>2 DEF Positions
<1>6. \A p \in Positions(chain) : At(chain, p) \in R
  BY <1>1, <1>2, <1>3, <1>4, ElementOfSeq DEF At
<1> QED
  BY Zenon, <1>3, <1>4, <1>5, <1>6

-----------------------------------------------------------------------------

LEMMA SamePairs ==
    ASSUME NEW P, NEW Q,
           \A p \in P : p = <<p[1], p[2]>>, \A q \in Q : q = <<q[1], q[2]>>,
           \A i, j : <<i, j>> \in P <=> <<i, j>> \in Q
    PROVE  P = Q
<1>1. ASSUME NEW p \in P
      PROVE  p \in Q
  <2>1. <<p[1], p[2]>> \in Q
    BY Zenon
  <2> QED
    BY Zenon, <2>1
<1>2. ASSUME NEW q \in Q
      PROVE  q \in P
  <2>1. <<q[1], q[2]>> \in P
    BY Zenon
  <2> QED
    BY Zenon, <2>1
<1> QED
  BY Zenon, <1>1, <1>2

(* Writing r at position p. *)
LEMMA Replaced ==
    ASSUME NEW R, NEW chain \in Seq(Seq(R)), Once(chain),
           NEW p \in Positions(chain), NEW r \in R,
           r \notin Regions(chain) \ {At(chain, p)}
    PROVE  /\ Write(chain, p, r) \in Seq(Seq(R))
           /\ Once(Write(chain, p, r))
           /\ Regions(Write(chain, p, r)) = (Regions(chain) \ {At(chain, p)}) \cup {r}
<1> DEFINE new == Write(chain, p, r)
<1> DEFINE i == p[1]
           j == p[2]
           section == [chain[i] EXCEPT ![j] = r]
<1>1. p = <<i, j>> /\ i \in 1 .. Len(chain) /\ j \in 1 .. Len(chain[i])
  BY PositionIs
<1>2. chain[i] \in Seq(R) /\ Len(chain) \in Nat
  BY <1>1, ElementOfSeq
<1> HIDE DEF i, j
<1>3. /\ section \in Seq(R) /\ Len(section) = Len(chain[i])
      /\ \A k \in 1 .. Len(chain[i]) : section[k] = IF k = j THEN r ELSE chain[i][k]
  BY <1>1, <1>2, ExceptSeq
<1>4. new = [chain EXCEPT ![i] = section]
  BY Zenon, <1>1 DEF i, j, Write
<1> HIDE DEF section, new
<1>5. /\ new \in Seq(Seq(R)) /\ Len(new) = Len(chain)
      /\ \A k \in 1 .. Len(chain) : new[k] = IF k = i THEN section ELSE chain[k]
  BY <1>1, <1>3, <1>4, ExceptSeq
<1>6. Positions(new) = Positions(chain)
  <2>1. \A k, l : <<k, l>> \in Positions(chain) <=>
                  k \in 1 .. Len(chain) /\ l \in 1 .. Len(chain[k])
    BY Zenon, PositionIs
  <2>2. \A k, l : <<k, l>> \in Positions(new) <=>
                  k \in 1 .. Len(new) /\ l \in 1 .. Len(new[k])
    BY Zenon, <1>5, PositionIs
  <2>3. \A k, l : <<k, l>> \in Positions(new) <=> <<k, l>> \in Positions(chain)
    BY Zenon, <1>3, <1>5, <2>1, <2>2
  <2>4. \A q \in Positions(chain) : q = <<q[1], q[2]>>
    BY Zenon, PositionIs
  <2>5. \A q \in Positions(new) : q = <<q[1], q[2]>>
    BY Zenon, <1>5, PositionIs
  <2> QED
    BY Zenon, <2>3, <2>4, <2>5, SamePairs
<1>9. \A q \in Positions(chain) :
         At(new, q) = IF q = p THEN r ELSE At(chain, q)
  <2> TAKE q \in Positions(chain)
  <2>1. /\ q = <<q[1], q[2]>>
        /\ q[1] \in 1 .. Len(chain) /\ q[2] \in 1 .. Len(chain[q[1]])
    BY PositionIs
  <2>2. q = p <=> q[1] = i /\ q[2] = j
    BY Zenon, <1>1, <2>1 DEF i, j
  <2>3. CASE q[1] = i
    BY Zenon, <1>3, <1>5, <2>1, <2>2, <2>3 DEF At
  <2>4. CASE q[1] # i
    BY Zenon, <1>5, <2>1, <2>2, <2>4 DEF At
  <2> QED
    BY Zenon, <2>3, <2>4
<1>7. Once(new)
  BY Zenon, <1>6, <1>9 DEF Once, Regions
<1>8. Regions(new) = (Regions(chain) \ {At(chain, p)}) \cup {r}
  BY <1>6, <1>9 DEF Once, Regions
<1> QED
  BY Zenon, <1>5, <1>7, <1>8 DEF new

(* region_free records one more region. *)
LEMMA Added ==
    ASSUME NEW R, NEW chain \in Seq(Seq(R)), Once(chain),
           NEW a, NEW s, Region(a, s) \in R, Region(a, s) \notin Regions(chain)
    PROVE  LET new == AfterFree(chain, a, s)
           IN  /\ new \in Seq(Seq(R))
               /\ Once(new)
               /\ Regions(new) = Regions(chain) \cup {Region(a, s)}
<1> DEFINE new == AfterFree(chain, a, s)
           r   == Region(a, s)
<1>0. Len(chain) \in Nat /\ DOMAIN chain = 1 .. Len(chain)
  OBVIOUS
<1>1. \E n : /\ new \in Seq(Seq(R))
              /\ n \notin Positions(chain)
              /\ Positions(new) = Positions(chain) \cup {n}
              /\ At(new, n) = r
              /\ \A q \in Positions(chain) : At(new, q) = At(chain, q)
  <2>1. CASE NeedsSection(chain)
    <3>1. new = Append(chain, <<r>>)
      BY Zenon, <2>1 DEF AfterFree
    <3>2. <<r>> \in Seq(R) /\ Len(<<r>>) = 1 /\ <<r>>[1] = r
      OBVIOUS
    <3> HIDE DEF new, r
    <3>3. /\ new \in Seq(Seq(R)) /\ Len(new) = Len(chain) + 1
          /\ new[Len(chain) + 1] = <<r>>
          /\ \A i \in 1 .. Len(chain) : new[i] = chain[i]
      BY <1>0, <3>1, <3>2, AppendProperties
    <3>4. \A i, j : <<i, j>> \in Positions(new) <=>
                    <<i, j>> \in Positions(chain) \cup {<<Len(chain) + 1, 1>>}
      <4>1. \A i, j : <<i, j>> \in Positions(new) <=>
                      i \in 1 .. Len(chain) + 1 /\ j \in 1 .. Len(new[i])
        BY Zenon, <3>3, PositionIs
      <4>2. \A i, j : <<i, j>> \in Positions(chain) <=>
                      i \in 1 .. Len(chain) /\ j \in 1 .. Len(chain[i])
        BY Zenon, PositionIs
      <4>3. \A j : j \in 1 .. Len(<<r>>) <=> j = 1
        BY <3>2
      <4>4. \A i : i \in 1 .. Len(chain) + 1 <=> i \in 1 .. Len(chain) \/ i = Len(chain) + 1
        BY <1>0
      <4>5. Len(chain) + 1 \notin 1 .. Len(chain)
        BY <1>0
      <4> QED
        BY Zenon, <3>3, <4>1, <4>2, <4>3, <4>4, <4>5
    <3>5. Positions(new) = Positions(chain) \cup {<<Len(chain) + 1, 1>>}
      <4>1. \A p \in Positions(new) : p = <<p[1], p[2]>>
        BY Zenon, <3>3, PositionIs
      <4>2. \A p \in Positions(chain) : p = <<p[1], p[2]>>
        BY Zenon, PositionIs
      <4> QED
        BY <3>4, <4>1, <4>2
    <3>6. <<Len(chain) + 1, 1>> \notin Positions(chain)
      BY <1>0, PositionIs
    <3>7. \A q \in Positions(chain) : At(new, q) = At(chain, q)
      <4> TAKE q \in Positions(chain)
      <4>1. q = <<q[1], q[2]>> /\ q[1] \in 1 .. Len(chain)
        BY PositionIs
      <4> QED
        BY Zenon, <3>3, <4>1 DEF At
    <3>8. At(new, <<Len(chain) + 1, 1>>) = r
      BY Zenon, <3>2, <3>3 DEF At
    <3> QED
      BY Zenon, <3>3, <3>5, <3>6, <3>7, <3>8
  <2>2. CASE ~NeedsSection(chain)
    <3> DEFINE i == Min(WithRoom(chain))
    <3>1. i \in 1 .. Len(chain)
      <4>1. WithRoom(chain) \in SUBSET Nat /\ WithRoom(chain) # {}
        BY <1>0, <2>2 DEF NeedsSection, WithRoom
      <4>2. i \in WithRoom(chain)
        BY Zenon, <4>1, MinIs
      <4> QED
        BY Zenon, <1>0, <4>2 DEF WithRoom
    <3>2. new = [chain EXCEPT ![i] = Append(chain[i], r)]
      BY Zenon, <2>2, <3>1 DEF AfterFree
    <3> DEFINE n == <<i, Len(chain[i]) + 1>>
    <3> HIDE DEF new, r, i
    <3>3. chain[i] \in Seq(R) /\ Len(chain[i]) \in Nat
      BY <3>1, ElementOfSeq
    <3>4. /\ Append(chain[i], r) \in Seq(R)
          /\ Len(Append(chain[i], r)) = Len(chain[i]) + 1
          /\ Append(chain[i], r)[Len(chain[i]) + 1] = r
          /\ \A k \in 1 .. Len(chain[i]) : Append(chain[i], r)[k] = chain[i][k]
      BY <3>3, AppendProperties DEF r
    <3>5. /\ new \in Seq(Seq(R)) /\ Len(new) = Len(chain)
          /\ new[i] = Append(chain[i], r)
          /\ \A k \in 1 .. Len(chain) : k # i => new[k] = chain[k]
      BY <3>1, <3>2, <3>4, ExceptSeq
    <3>6. \A k, j : <<k, j>> \in Positions(new) <=>
                    <<k, j>> \in Positions(chain) \cup {n}
      <4>1. \A k, j : <<k, j>> \in Positions(new) <=>
                      k \in 1 .. Len(chain) /\ j \in 1 .. Len(new[k])
        BY Zenon, <3>5, PositionIs
      <4>2. \A k, j : <<k, j>> \in Positions(chain) <=>
                      k \in 1 .. Len(chain) /\ j \in 1 .. Len(chain[k])
        BY ZenonT(30), PositionIs
      <4>3. \A j : j \in 1 .. Len(new[i]) <=>
                   j \in 1 .. Len(chain[i]) \/ j = Len(chain[i]) + 1
        <5>1. Len(new[i]) = Len(chain[i]) + 1
          BY Zenon, <3>4, <3>5
        <5> DEFINE count == Len(chain[i])
        <5>2. count \in Nat
          BY Zenon, <3>3
        <5> HIDE DEF count
        <5>3. \A j : j \in 1 .. count + 1 <=> j \in 1 .. count \/ j = count + 1
          BY <5>2
        <5> QED
          BY Zenon, <5>1, <5>3 DEF count
      <4> SUFFICES ASSUME NEW k, NEW j
                   PROVE  <<k, j>> \in Positions(new) <=>
                          <<k, j>> \in Positions(chain) \cup {n}
        BY Zenon
      <4>4. CASE k = i
        BY Zenon, <3>1, <4>1, <4>2, <4>3, <4>4
      <4>5. CASE k # i /\ k \in 1 .. Len(chain)
        <5>1. new[k] = chain[k] /\ <<k, j>> # n
          BY Zenon, <3>5, <4>5
        <5> QED
          BY Zenon, <4>1, <4>2, <5>1
      <4>6. CASE k # i /\ k \notin 1 .. Len(chain)
        <5>1. <<k, j>> # n
          BY Zenon, <4>6
        <5> QED
          BY Zenon, <4>1, <4>2, <4>6, <5>1
      <4> QED
        BY Zenon, <4>4, <4>5, <4>6
    <3>7. Positions(new) = Positions(chain) \cup {n}
      <4>1. \A p \in Positions(new) : p = <<p[1], p[2]>>
        BY Zenon, <3>5, PositionIs
      <4>2. \A p \in Positions(chain) : p = <<p[1], p[2]>>
        BY PositionIs
      <4> QED
        BY <3>6, <4>1, <4>2
    <3>8. n \notin Positions(chain)
      BY <3>3, PositionIs
    <3>9. \A q \in Positions(chain) : At(new, q) = At(chain, q)
      <4> TAKE q \in Positions(chain)
      <4>1. /\ q = <<q[1], q[2]>>
            /\ q[1] \in 1 .. Len(chain) /\ q[2] \in 1 .. Len(chain[q[1]])
        BY PositionIs
      <4>2. CASE q[1] = i
        <5>1. new[q[1]] = Append(chain[i], r) /\ q[2] \in 1 .. Len(chain[i])
          BY Zenon, <3>5, <4>1, <4>2
        <5>2. new[q[1]][q[2]] = chain[q[1]][q[2]]
          BY <3>4, <4>2, <5>1
        <5> QED
          BY Zenon, <5>2 DEF At
      <4>3. CASE q[1] # i
        <5>1. new[q[1]] = chain[q[1]]
          BY Zenon, <3>5, <4>1, <4>3
        <5> QED
          BY Zenon, <5>1 DEF At
      <4> QED
        BY Zenon, <4>2, <4>3
    <3>10. At(new, n) = r
      BY Zenon, <3>4, <3>5 DEF At
    <3> QED
      BY Zenon, <3>5, <3>7, <3>8, <3>9, <3>10
  <2> QED
    BY Zenon, <2>1, <2>2
<1> HIDE DEF new, r
<1>2. PICK n : /\ new \in Seq(Seq(R))
               /\ n \notin Positions(chain)
               /\ Positions(new) = Positions(chain) \cup {n}
               /\ At(new, n) = r
               /\ \A q \in Positions(chain) : At(new, q) = At(chain, q)
  BY Zenon, <1>1
<1>3. r \notin Regions(chain)
  BY Zenon DEF r
<1>4. Regions(new) = Regions(chain) \cup {r}
  BY <1>2 DEF Regions
<1>5. Once(new)
  BY Zenon, <1>2, <1>3 DEF Once, Regions
<1> QED
  BY Zenon, <1>2, <1>4, <1>5 DEF new, r

(* region_alloc shortens one region that was larger than the request.      *)
LEMMA Allocated ==
    ASSUME NEW R, NEW chain \in Seq(Seq(R)), Once(chain), NEW s,
           LargeEnough(chain, s) # {}
    PROVE  \E r \in Regions(chain) :
              LET rest == Region(Wrap(r.address + s), r.size - s)
                  new  == AfterAlloc(chain, s)
              IN  /\ r.size > s
                  /\ AllocAddress(chain, s) = r.address
                  /\ rest \in R /\ rest \notin Regions(chain) \ {r} =>
                        /\ new \in Seq(Seq(R))
                        /\ Once(new)
                        /\ Regions(new) = (Regions(chain) \ {r}) \cup {rest}
<1> DEFINE p == First(LargeEnough(chain, s))
           r == At(chain, p)
           rest == Region(Wrap(r.address + s), r.size - s)
<1>1. p \in LargeEnough(chain, s)
  <2>1. LargeEnough(chain, s) \in SUBSET (Nat \X Nat)
    BY Zenon, PositionIs DEF LargeEnough
  <2> QED
    BY Zenon, <2>1, FirstIs
<1>2. p \in Positions(chain) /\ r.size > s /\ r \in Regions(chain)
  BY Zenon, <1>1 DEF LargeEnough, Regions
<1>3. AfterAlloc(chain, s) = Write(chain, p, rest)
  BY Zenon DEF AfterAlloc
<1>4. AllocAddress(chain, s) = r.address
  BY Zenon DEF AllocAddress
<1>5. ASSUME rest \in R, rest \notin Regions(chain) \ {r}
      PROVE  /\ AfterAlloc(chain, s) \in Seq(Seq(R))
             /\ Once(AfterAlloc(chain, s))
             /\ Regions(AfterAlloc(chain, s)) = (Regions(chain) \ {r}) \cup {rest}
  <2> HIDE DEF p, rest
  <2> QED
    BY <1>2, <1>3, <1>5, Replaced
<1> QED
  BY Zenon, <1>2, <1>4, <1>5

(* The positions of new are those of old but p, renamed by m. *)
Renames(m, old, new, p) ==
    /\ m \in [Positions(new) -> Positions(old) \ {p}]
    /\ \A q \in Positions(old) \ {p} : \E n \in Positions(new) : m[n] = q
    /\ \A n1, n2 \in Positions(new) : m[n1] = m[n2] => n1 = n2
    /\ \A n \in Positions(new) : At(new, n) = At(old, m[n])

LEMMA Renamed ==
    ASSUME NEW old, NEW new, NEW m, NEW p \in Positions(old), Once(old),
           Renames(m, old, new, p)
    PROVE  Once(new) /\ Regions(new) = Regions(old) \ {At(old, p)}
<1>1. Once(new)
  BY Zenon DEF Once, Renames
<1>2. Regions(new) \subseteq Regions(old) \ {At(old, p)}
  BY DEF Once, Regions, Renames
<1>3. Regions(old) \ {At(old, p)} \subseteq Regions(new)
  BY DEF Once, Regions, Renames
<1> QED
  BY Zenon, <1>1, <1>2, <1>3

(* The last region of a section takes the place of the one found.          *)
Filled(chain, p) == [chain EXCEPT ![p[1]] = FillGap(chain[p[1]], p[2])]

LEMMA GapFilled ==
    ASSUME NEW R, NEW chain \in Seq(Seq(R)), Once(chain),
           NEW p \in Positions(chain)
    PROVE  /\ Filled(chain, p) \in Seq(Seq(R))
           /\ Once(Filled(chain, p))
           /\ Regions(Filled(chain, p)) = Regions(chain) \ {At(chain, p)}
<1> DEFINE new == Filled(chain, p)
           i == p[1]
           j == p[2]
           section == FillGap(chain[i], j)
           last == Len(chain[i])
<1>1. p = <<i, j>> /\ i \in 1 .. Len(chain) /\ j \in 1 .. last
  BY PositionIs
<1>2. chain[i] \in Seq(R) /\ Len(chain) \in Nat /\ last \in Nat
  BY <1>1, ElementOfSeq
<1>3. /\ section \in Seq(R) /\ Len(section) = last - 1
      /\ \A k \in 1 .. last - 1 :
            section[k] = IF k = j THEN chain[i][last] ELSE chain[i][k]
  <2> DEFINE filled == [chain[i] EXCEPT ![j] = chain[i][last]]
  <2>1. chain[i][last] \in R
    BY <1>1, <1>2, ElementOfSeq
  <2>2. /\ filled \in Seq(R) /\ Len(filled) = last
        /\ \A k \in 1 .. last : filled[k] = IF k = j THEN chain[i][last] ELSE chain[i][k]
    BY <1>1, <1>2, <2>1, ExceptSeq
  <2>3. section = SubSeq(filled, 1, last - 1)
    BY Zenon DEF FillGap
  <2> HIDE DEF filled, section, i, j
  <2>4. /\ section \in Seq(R) /\ Len(section) = last - 1
        /\ \A k \in 1 .. last - 1 : section[k] = filled[k]
    BY <1>1, <1>2, <2>2, <2>3, SubSeqProperties
  <2> QED
    BY <1>1, <1>2, <2>2, <2>4
<1> HIDE DEF section, i, j, new
<1>4. /\ new \in Seq(Seq(R)) /\ Len(new) = Len(chain)
      /\ \A k \in 1 .. Len(chain) : new[k] = IF k = i THEN section ELSE chain[k]
  <2>1. new = [chain EXCEPT ![i] = section]
    BY Zenon DEF section, i, j, new, Filled
  <2> QED
    BY <1>1, <1>3, <2>1, ExceptSeq
<1>5. \A k, l : <<k, l>> \in Positions(chain) <=>
                k \in 1 .. Len(chain) /\ l \in 1 .. Len(chain[k])
  BY Zenon, PositionIs
<1>6. \A k, l : <<k, l>> \in Positions(new) <=>
                k \in 1 .. Len(chain) /\ l \in 1 .. Len(new[k])
  BY Zenon, <1>4, PositionIs
<1>7. /\ \A q \in Positions(chain) : q = <<q[1], q[2]>>
      /\ \A q \in Positions(new) : q = <<q[1], q[2]>>
  BY Zenon, <1>4, PositionIs
<1> DEFINE gone == <<i, last>>
<1>8. Positions(new) = Positions(chain) \ {gone}
  <2>1. \A k, l : <<k, l>> \in Positions(new) <=>
                  <<k, l>> \in Positions(chain) \ {gone}
    <3>1. \A l : l \in 1 .. Len(new[i]) <=> l \in 1 .. last /\ l # last
      BY <1>1, <1>2, <1>3, <1>4
    <3>2. \A k \in 1 .. Len(chain) : k # i => new[k] = chain[k]
      BY Zenon, <1>4
    <3> QED
      BY Zenon, <1>5, <1>6, <3>1, <3>2
  <2> QED
    BY <1>7, <2>1, SamePairs
<1>9. gone \in Positions(chain) /\ last \in 1 .. last
  BY <1>1, <1>2, <1>5
<1> DEFINE m == [q \in Positions(new) |-> IF q = p THEN gone ELSE q]
<1>10. \A q \in Positions(new) : At(new, q) = At(chain, m[q])
  <2> TAKE q \in Positions(new)
  <2>1. /\ q = <<q[1], q[2]>> /\ q[1] \in 1 .. Len(chain)
        /\ q[2] \in 1 .. Len(new[q[1]])
    BY <1>6, <1>7
  <2>2. CASE q[1] # i
    <3>1. q # p
      BY <1>1, <2>2
    <3> QED
      BY Zenon, <1>4, <2>1, <2>2, <3>1 DEF At
  <2>3. CASE q[1] = i
    <3>1. q = p <=> q[2] = j
      BY ZenonT(30), <1>1, <2>1, <2>3 DEF i, j
    <3>2. q[2] \in 1 .. last - 1 /\ new[i] = section
      BY <1>1, <1>3, <1>4, <2>1, <2>3
    <3> QED
      BY ZenonT(30), <1>3, <2>3, <3>1, <3>2 DEF At
  <2> QED
    BY Zenon, <2>2, <2>3
<1>11. /\ m \in [Positions(new) -> Positions(chain) \ {p}]
       /\ \A q \in Positions(chain) \ {p} : \E n \in Positions(new) : m[n] = q
       /\ \A n1, n2 \in Positions(new) : m[n1] = m[n2] => n1 = n2
  BY ZenonT(30), <1>8, <1>9
<1>12. Renames(m, chain, new, p)
  BY Zenon, <1>10, <1>11 DEF Renames
<1>13. Once(new) /\ Regions(new) = Regions(chain) \ {At(chain, p)}
  <2> HIDE DEF m
  <2> QED
    BY <1>12, Renamed
<1> QED
  BY Zenon, <1>4, <1>13 DEF new

(* A section that held nothing else is unlinked. *)
Unlinked(chain, i) ==
    SubSeq(chain, 1, i - 1) \o SubSeq(chain, i + 1, Len(chain))

LEMMA SectionDropped ==
    ASSUME NEW R, NEW chain \in Seq(Seq(R)), Once(chain),
           NEW p \in Positions(chain), Len(chain[p[1]]) = 1
    PROVE  /\ Unlinked(chain, p[1]) \in Seq(Seq(R))
           /\ Once(Unlinked(chain, p[1]))
           /\ Regions(Unlinked(chain, p[1])) = Regions(chain) \ {At(chain, p)}
<1> DEFINE i == p[1]
           new == Unlinked(chain, i)
           n == Len(chain)
           Up(k) == IF k < i THEN k ELSE k + 1
<1>1. p = <<i, 1>> /\ i \in 1 .. n /\ n \in Nat
  <2>1. p = <<i, p[2]>> /\ i \in 1 .. n /\ p[2] \in 1 .. Len(chain[i])
    <3>1. /\ p = <<p[1], p[2]>>
          /\ \A k, l : <<k, l>> \in Positions(chain) <=>
                       k \in 1 .. Len(chain) /\ l \in 1 .. Len(chain[k])
      BY Zenon, PositionIs
    <3> QED
      BY <3>1, Zenon
  <2>2. p[2] \in 1 .. 1
    BY Zenon, <2>1
  <2>3. p[2] = 1
    BY <2>2
  <2> QED
    BY <2>1, <2>3
<1>2. \A k \in 1 .. n : chain[k] \in Seq(R)
  BY Zenon, ElementOfSeq
<1> HIDE DEF i
<1>3. /\ new \in Seq(Seq(R)) /\ Len(new) = n - 1
      /\ \A k \in 1 .. n - 1 : new[k] = chain[Up(k)]
  <2> DEFINE s1 == SubSeq(chain, 1, i - 1)
             s2 == SubSeq(chain, i + 1, n)
  <2>1. /\ s1 \in Seq(Seq(R)) /\ Len(s1) = i - 1
        /\ \A k \in 1 .. i - 1 : s1[k] = chain[k]
    BY <1>1, <1>2, SubSeqProperties
  <2>2. /\ s2 \in Seq(Seq(R)) /\ Len(s2) = n - i
        /\ \A k \in 1 .. n - i : s2[k] = chain[i + k]
    BY <1>1, <1>2, SubSeqProperties
  <2>3. new = s1 \o s2
    BY Zenon DEF Unlinked
  <2> HIDE DEF s1, s2, new
  <2>4. /\ new \in Seq(Seq(R)) /\ Len(new) = (i - 1) + (n - i)
        /\ \A k \in 1 .. (i - 1) + (n - i) :
              new[k] = IF k <= i - 1 THEN s1[k] ELSE s2[k - (i - 1)]
    <3>1. /\ new \in Seq(Seq(R)) /\ Len(new) = Len(s1) + Len(s2)
          /\ \A k \in 1 .. Len(s1) + Len(s2) :
                new[k] = IF k <= Len(s1) THEN s1[k] ELSE s2[k - Len(s1)]
      BY ZenonT(30), <2>1, <2>2, <2>3, ConcatProperties
    <3> QED
      BY Zenon, <2>1, <2>2, <3>1
  <2>5. ASSUME NEW k \in 1 .. n - 1
        PROVE  new[k] = chain[Up(k)]
    <3>0. k \in 1 .. (i - 1) + (n - i)
      BY <1>1
    <3>1. CASE k < i
      <4>1. k \in 1 .. i - 1 /\ k <= i - 1 /\ Up(k) = k
        BY <1>1, <3>1
      <4>2. new[k] = s1[k] /\ s1[k] = chain[k]
        BY Zenon, <2>1, <2>4, <3>0, <4>1
      <4> QED
        BY Zenon, <4>1, <4>2
    <3>2. CASE ~ (k < i)
      <4>1. /\ k - (i - 1) \in 1 .. n - i /\ i + (k - (i - 1)) = k + 1
            /\ ~ (k <= i - 1) /\ Up(k) = k + 1
        BY <1>1, <3>2
      <4>2. new[k] = s2[k - (i - 1)] /\ s2[k - (i - 1)] = chain[i + (k - (i - 1))]
        BY Zenon, <2>2, <2>4, <3>0, <4>1
      <4> QED
        BY Zenon, <4>1, <4>2
    <3> QED
      BY Zenon, <3>1, <3>2
  <2> QED
    BY <1>1, <2>4, <2>5
<1> HIDE DEF new
<1>4. \A k, l : <<k, l>> \in Positions(chain) <=>
                k \in 1 .. n /\ l \in 1 .. Len(chain[k])
  BY Zenon, PositionIs
<1>5. \A k, l : <<k, l>> \in Positions(new) <=>
                k \in 1 .. n - 1 /\ l \in 1 .. Len(chain[Up(k)])
  BY Zenon, <1>3, PositionIs
<1>6. /\ \A q \in Positions(chain) : q = <<q[1], q[2]>>
      /\ \A q \in Positions(new) : q = <<q[1], q[2]>>
  BY Zenon, <1>3, PositionIs
<1> DEFINE m == [q \in Positions(new) |-> <<Up(q[1]), q[2]>>]
           Down(k) == IF k < i THEN k ELSE k - 1
<1>a. /\ \A k \in 1 .. n - 1 : Up(k) \in 1 .. n /\ Up(k) # i
      /\ \A k \in 1 .. n : k # i => Down(k) \in 1 .. n - 1 /\ Up(Down(k)) = k
      /\ \A k, l \in 1 .. n - 1 : Up(k) = Up(l) => k = l
  <2>1. i \in Int /\ n \in Int /\ 1 <= i /\ i <= n
    BY <1>1
  <2> HIDE DEF n
  <2> QED
    BY <2>1
<1> HIDE DEF Up, Down
<1>7. \A q \in Positions(new) : m[q] \in Positions(chain) \ {p} /\ At(new, q) = At(chain, m[q])
  <2> TAKE q \in Positions(new)
  <2>1. q[1] \in 1 .. n - 1 /\ q[2] \in 1 .. Len(chain[Up(q[1])])
    <3>1. <<q[1], q[2]>> \in Positions(new)
      BY Zenon, <1>6
    <3> QED
      BY Zenon, <1>5, <3>1
  <2>2. Up(q[1]) \in 1 .. n /\ Up(q[1]) # i
    BY Zenon, <1>a, <2>1
  <2>3. m[q] \in Positions(chain) /\ m[q] # p
    BY <1>1, <1>4, <2>1, <2>2
  <2>4. At(new, q) = At(chain, m[q])
    BY ZenonT(30), <1>3, <2>1 DEF At
  <2> QED
    BY Zenon, <2>3, <2>4
<1>8. ASSUME NEW q \in Positions(chain) \ {p}
      PROVE  \E x \in Positions(new) : m[x] = q
  <2>1. q[1] \in 1 .. n /\ q[2] \in 1 .. Len(chain[q[1]]) /\ q = <<q[1], q[2]>>
    BY <1>4, <1>6
  <2>2. q[1] # i
    <3>1. q[1] = i => q[2] \in 1 .. 1
      BY Zenon, <2>1 DEF i
    <3> QED
      BY <1>1, <2>1, <3>1
  <2> DEFINE k == Down(q[1])
  <2>3. k \in 1 .. n - 1 /\ Up(k) = q[1]
    BY Zenon, <1>a, <2>1, <2>2
  <2> HIDE DEF k
  <2>4. <<k, q[2]>> \in Positions(new)
    BY Zenon, <1>5, <2>1, <2>3
  <2>5. m[<<k, q[2]>>] = q
    BY Zenon, <2>1, <2>3, <2>4
  <2> QED
    BY ZenonT(30), <2>4, <2>5
<1>9. ASSUME NEW q1 \in Positions(new), NEW q2 \in Positions(new), m[q1] = m[q2]
      PROVE  q1 = q2
  <2>1. <<q1[1], q1[2]>> \in Positions(new) /\ <<q2[1], q2[2]>> \in Positions(new)
    BY Zenon, <1>6
  <2>2. q1[1] \in 1 .. n - 1 /\ q2[1] \in 1 .. n - 1
    BY Zenon, <1>5, <2>1
  <2>3. Up(q1[1]) = Up(q2[1]) /\ q1[2] = q2[2]
    BY Zenon, <1>9
  <2>4. q1[1] = q2[1]
    BY Zenon, <1>a, <2>2, <2>3
  <2> QED
    BY Zenon, <1>6, <2>3, <2>4
<1>10. Renames(m, chain, new, p)
  BY Zenon, <1>7, <1>8, <1>9 DEF Renames
<1>11. Once(new) /\ Regions(new) = Regions(chain) \ {At(chain, p)}
  <2> HIDE DEF m
  <2> QED
    BY Zenon, <1>10, Renamed
<1> QED
  BY <1>3, <1>11 DEF new, i

(* region_find_size_and_free returns the size of the one region recorded   *)
(* at an address, and removes that region.                                 *)
LEMMA Found ==
    ASSUME NEW R, NEW chain \in Seq(Seq(R)), Once(chain),
           NEW r \in Regions(chain),
           \A q \in Regions(chain) : q.address = r.address => q = r
    PROVE  /\ FoundSize(chain, r.address) = r.size
           /\ AfterFind(chain, r.address) \in Seq(Seq(R))
           /\ Once(AfterFind(chain, r.address))
           /\ Regions(AfterFind(chain, r.address)) = Regions(chain) \ {r}
<1> DEFINE p == First(Recorded(chain, r.address))
<1>1. p \in Recorded(chain, r.address)
  <2>1. /\ Recorded(chain, r.address) \in SUBSET (Nat \X Nat)
        /\ Recorded(chain, r.address) # {}
    BY Zenon, PositionIs DEF Recorded, Regions
  <2> QED
    BY Zenon, <2>1, FirstIs
<1>2. p \in Positions(chain) /\ At(chain, p) = r
  BY Zenon, <1>1 DEF Recorded, Regions
<1>3. FoundSize(chain, r.address) = r.size
  BY Zenon, <1>2 DEF FoundSize
<1>4. p[1] \in 1 .. Len(chain) /\ p[2] \in 1 .. Len(chain[p[1]]) /\ Len(chain[p[1]]) \in Nat
  <2>1. p = <<p[1], p[2]>> /\ p[1] \in 1 .. Len(chain) /\ p[2] \in 1 .. Len(chain[p[1]])
    BY <1>2, PositionIs
  <2> QED
    BY <2>1, ElementOfSeq
<1>5. AfterFind(chain, r.address) =
         IF Len(chain[p[1]]) > 1 \/ p[1] = 1 THEN Filled(chain, p) ELSE Unlinked(chain, p[1])
  BY Zenon, <1>4 DEF AfterFind, Filled, Unlinked
<1> HIDE DEF p
<1>6. CASE Len(chain[p[1]]) > 1 \/ p[1] = 1
  BY <1>2, <1>3, <1>5, <1>6, GapFilled
<1>7. CASE ~ (Len(chain[p[1]]) > 1 \/ p[1] = 1)
  <2>1. \A len \in Nat : \A j : j \in 1 .. len /\ ~ (len > 1) => len = 1
    OBVIOUS
  <2>2. Len(chain[p[1]]) = 1
    BY Zenon, <1>4, <1>7, <2>1
  <2> QED
    BY <1>2, <1>3, <1>5, <1>7, <2>2, SectionDropped
<1> QED
  BY Zenon, <1>6, <1>7

-----------------------------------------------------------------------------

Records == [address : Words, size : 1 .. Heap_Size]

Covered(regions) == UNION {Span(r) : r \in regions}

Payloads(regions) == UNION {Payload(r) : r \in regions}

(* used and free are apart, and their regions share no word and leave none *)
(* out.                                                                    *)
Partition(used, free) ==
    /\ used \cup free \subseteq Records
    /\ used \cap free = {}
    /\ \A r, q \in used \cup free : r # q => Span(r) \cap Span(q) = {}
    /\ Covered(used \cup free) = Words

Books ==
    /\ Once(heap_metadata_used)
    /\ Once(heap_metadata_free)
    /\ Partition(Regions(heap_metadata_used), Regions(heap_metadata_free))
    /\ dirty \subseteq Payloads(Regions(heap_metadata_used))
    /\ Used = Cardinality(Covered(Regions(heap_metadata_used)))

Inv ==
    /\ TypeOK
    /\ AssertionsHold
    /\ failed = "none" => Books

-----------------------------------------------------------------------------

LEMMA SpanIs ==
    ASSUME NEW r \in Records
    PROVE  /\ \A w : w \in Span(r) <=>
                       w \in Int /\ r.address <= w /\ w < r.address + r.size
           /\ r.address \in Span(r) /\ r.address + r.size - 1 \in Span(r)
           /\ IsFiniteSet(Span(r)) /\ Cardinality(Span(r)) = r.size
<1>1. r.address \in Nat /\ r.size \in Nat \ {0}
  BY HeapAssumption DEF Records, Words
<1>2. /\ IsFiniteSet(r.address .. r.address + r.size - 1)
      /\ Cardinality(r.address .. r.address + r.size - 1) = r.size
  <2> DEFINE a == r.address
             b == r.address + r.size - 1
  <2>1. a \in Int /\ b \in Int /\ ~ (a > b) /\ b - a + 1 = r.size
    BY <1>1
  <2> HIDE DEF a, b
  <2>2. IsFiniteSet(a .. b) /\ Cardinality(a .. b) = b - a + 1
    BY Zenon, <2>1, FS_Interval
  <2> QED
    BY Zenon, <2>1, <2>2 DEF a, b
<1> QED
  BY <1>1, <1>2 DEF Span

LEMMA DisjointUnion ==
    ASSUME NEW S, NEW T, IsFiniteSet(S), IsFiniteSet(T), S \cap T = {}
    PROVE  Cardinality(S \cup T) = Cardinality(S) + Cardinality(T)
<1>1. Cardinality(S \cap T) = Cardinality({})
  BY Zenon
<1>2. Cardinality(S \cap T) = 0
  BY Zenon, <1>1, FS_EmptySet
<1>3. Cardinality(S) \in Nat /\ Cardinality(T) \in Nat
  BY Zenon, FS_CardinalityType
<1>4. Cardinality(S \cup T) = Cardinality(S) + Cardinality(T) - Cardinality(S \cap T)
  BY Zenon, FS_Union
<1> QED
  BY <1>2, <1>3, <1>4

LEMMA WordsFinite ==
    IsFiniteSet(Words) /\ Cardinality(Words) = Heap_Size /\ Heap_Size \in Nat
<1>1. Heap_Size - 1 \in Int /\ 0 \in Int /\ ~ (0 > Heap_Size - 1)
  BY HeapAssumption
<1> QED
  BY <1>1, FS_Interval, HeapAssumption DEF Words

LEMMA WrapIs ==
    ASSUME NEW x \in Words
    PROVE  Wrap(x) = x
<1>1. x \in 0 .. AddressSpace - 1
  BY HeapAssumption, RegionVectorAssumption DEF Words
<1> QED
  BY <1>1, RegionVectorAssumption DEF Wrap

(* Regions of a partition that share an address are the same. *)
LEMMA AddressDecides ==
    ASSUME NEW used, NEW free, Partition(used, free),
           NEW r \in used \cup free, NEW q \in used \cup free,
           r.address = q.address
    PROVE  r = q
BY Zenon, SpanIs DEF Partition

(* A region inside the heap covers words of the heap. *)
LEMMA WithinWords ==
    ASSUME NEW used, NEW free, Partition(used, free), NEW r \in used \cup free
    PROVE  /\ r \in Records
           /\ Span(r) \subseteq Words
           /\ r.address + r.size <= Heap_Size
<1>1. r \in Records /\ Span(r) \subseteq Words
  BY Zenon DEF Partition, Covered
<1>2. r.address + r.size - 1 \in Words
  BY Zenon, <1>1, SpanIs
<1> QED
  BY <1>1, <1>2, HeapAssumption DEF Records, Words

(* region_alloc: the front of a free region becomes used. *)
LEMMA Split ==
    ASSUME NEW used, NEW free, Partition(used, free), NEW r \in free,
           NEW whole \in Nat \ {0}, r.size > whole,
           NEW front, front = Region(r.address, whole),
           NEW rest, rest = Region(r.address + whole, r.size - whole)
    PROVE  /\ front \in Records /\ rest \in Records
           /\ r.address + whole \in Words
           /\ front \notin used /\ rest \notin free \ {r}
           /\ Partition(used \cup {front}, (free \ {r}) \cup {rest})
           /\ Span(front) \cap Covered(used) = {}
<1>1. /\ r \in Records /\ Span(r) \subseteq Words
      /\ r.address + r.size <= Heap_Size
      /\ r.address \in Nat /\ r.size \in Nat /\ r.size <= Heap_Size
  BY WithinWords, HeapAssumption DEF Records, Words
<1>2. front \in Records /\ rest \in Records /\ r.address + whole \in Words
  BY <1>1, HeapAssumption DEF Records, Words, Region
<1>3. /\ front.address = r.address /\ front.size = whole
      /\ rest.address = r.address + whole /\ rest.size = r.size - whole
  BY Zenon DEF Region
<1>4. /\ Span(front) \cup Span(rest) = Span(r)
      /\ Span(front) \cap Span(rest) = {}
      /\ Span(front) # {} /\ Span(rest) # {}
  BY <1>1, <1>2, <1>3, SpanIs
<1>5. \A q \in (used \cup free) \ {r} :
         /\ q \in Records
         /\ Span(q) \cap Span(front) = {} /\ Span(q) \cap Span(rest) = {}
         /\ q # front /\ q # rest
  BY Zenon, <1>4 DEF Partition
<1>6. r \notin used /\ front # rest
  BY Zenon, <1>4 DEF Partition
<1>7. \A q, t \in (used \cup {front}) \cup ((free \ {r}) \cup {rest}) :
         q # t => Span(q) \cap Span(t) = {}
  BY <1>4, <1>5, <1>6 DEF Partition
<1>8. Covered((used \cup {front}) \cup ((free \ {r}) \cup {rest})) = Words
  BY <1>4, <1>6 DEF Partition, Covered
<1>9. (used \cup {front}) \cap ((free \ {r}) \cup {rest}) = {}
  BY <1>5, <1>6 DEF Partition
<1>10. Partition(used \cup {front}, (free \ {r}) \cup {rest})
  BY Zenon, <1>2, <1>5, <1>6, <1>7, <1>8, <1>9 DEF Partition
<1>11. Span(front) \cap Covered(used) = {}
  BY <1>5, <1>6 DEF Covered
<1> QED
  BY <1>2, <1>5, <1>6, <1>10, <1>11

(* kfree: a used region becomes free. *)
LEMMA Returned ==
    ASSUME NEW used, NEW free, Partition(used, free), NEW r \in used
    PROVE  /\ r \notin free
           /\ Partition(used \ {r}, free \cup {r})
           /\ Covered(used \ {r}) = Covered(used) \ Span(r)
           /\ Payloads(used) \ Span(r) \subseteq Payloads(used \ {r})
           /\ {r.address, r.address + r.size - 1} \cap Payloads(used) = {}
<1>1. r \notin free /\ (used \ {r}) \cup (free \cup {r}) = used \cup free
  BY Zenon DEF Partition
<1>2. Partition(used \ {r}, free \cup {r})
  BY Zenon, <1>1 DEF Partition
<1>3. \A q \in used \ {r} : Span(q) \cap Span(r) = {} /\ Payload(q) \subseteq Span(q)
  BY Zenon DEF Partition, Payload
<1>4. Covered(used \ {r}) = Covered(used) \ Span(r)
  BY Zenon, <1>3 DEF Covered
<1>5. Payloads(used) \ Span(r) \subseteq Payloads(used \ {r})
  BY Zenon DEF Payloads, Payload
<1>6. {r.address, r.address + r.size - 1} \subseteq Span(r)
  BY SpanIs DEF Partition
<1>7. {r.address, r.address + r.size - 1} \cap Payload(r) = {}
  BY Zenon DEF Payload
<1>8. {r.address, r.address + r.size - 1} \cap Payloads(used) = {}
  BY <1>3, <1>6, <1>7 DEF Payloads
<1> QED
  BY Zenon, <1>1, <1>2, <1>4, <1>5, <1>8

(* Used counts words of the heap. *)
LEMMA CoveredIs ==
    ASSUME NEW used, NEW free, Partition(used, free)
    PROVE  /\ Covered(used) \subseteq Words
           /\ IsFiniteSet(Covered(used))
           /\ Cardinality(Covered(used)) \in 0 .. Heap_Size
<1>1. Covered(used) \subseteq Words
  BY Zenon DEF Partition, Covered
<1>2. /\ IsFiniteSet(Covered(used))
      /\ Cardinality(Covered(used)) <= Heap_Size
  BY <1>1, WordsFinite, FS_Subset
<1>3. Cardinality(Covered(used)) \in Nat
  BY Zenon, <1>2, FS_CardinalityType
<1> QED
  BY <1>1, <1>2, <1>3, WordsFinite

-----------------------------------------------------------------------------

LEMMA InvInit == Init => Inv
<1> SUFFICES ASSUME Init
             PROVE  Inv
  BY Zenon
<1> DEFINE whole == Region(0, Heap_Size)
<1>1. EmptyVector \in Seq(Seq(Records)) /\ Positions(EmptyVector) = {}
  BY DEF EmptyVector, Positions
<1>2. Regions(EmptyVector) = {} /\ Once(EmptyVector)
  BY Zenon, <1>1 DEF Regions, Once
<1>3. whole \in Records /\ Span(whole) = Words
  BY HeapAssumption DEF Records, Region, Words, Span
<1>4. /\ heap_metadata_free \in Seq(Seq(Records))
      /\ Once(heap_metadata_free)
      /\ Regions(heap_metadata_free) = {whole}
  BY <1>1, <1>2, <1>3, Added DEF Init
<1>5. heap_metadata_used = EmptyVector /\ dirty = {} /\ Used = 0 /\ failed = "none"
  BY Zenon DEF Init
<1>6. Covered({whole}) = Words /\ Covered({}) = {}
  BY Zenon, <1>3 DEF Covered
<1>7. Partition({}, {whole})
  BY Zenon, <1>3, <1>6 DEF Partition
<1>8. Cardinality(Covered({})) = 0
  BY Zenon, <1>6, FS_EmptySet
<1>9. TypeOK
  BY <1>1, <1>4, <1>5, HeapAssumption DEF TypeOK, Chains, Records
<1> QED
  BY ZenonT(30), <1>2, <1>4, <1>5, <1>7, <1>8, <1>9 DEF Inv, Books, AssertionsHold

(* kmalloc, kcalloc and krealloc, whatever part of the payload they dirty. *)
LEMMA AllocateStep ==
    ASSUME Inv, failed = "none", NEW size \in Requests, NEW payload_dirty,
           payload_dirty \subseteq
              Payload(Region(AllocAddress(heap_metadata_free, size + 2 * Redzone),
                             size + 2 * Redzone)),
           AllocateFrom(size, payload_dirty)
    PROVE  Inv'
<1> DEFINE whole == size + 2 * Redzone
           used  == Regions(heap_metadata_used)
           free  == Regions(heap_metadata_free)
<1>1. whole \in Nat \ {0}
  BY HeapAssumption DEF Redzone
<1>2. /\ TypeOK /\ Books
      /\ heap_metadata_used \in Seq(Seq(Records))
      /\ heap_metadata_free \in Seq(Seq(Records))
  BY Zenon DEF Inv, TypeOK, Chains, Records
<1>3. /\ Once(heap_metadata_used) /\ Once(heap_metadata_free)
      /\ Partition(used, free)
      /\ dirty \subseteq Payloads(used)
      /\ Used = Cardinality(Covered(used))
  BY Zenon, <1>2 DEF Books
<1>4. /\ LargeEnough(heap_metadata_free, whole) # {}
      /\ heap_metadata_free' = AfterAlloc(heap_metadata_free, whole)
  BY Zenon DEF AllocateFrom
<1> HIDE DEF whole
<1>5. PICK r \in free :
         LET rest == Region(Wrap(r.address + whole), r.size - whole)
             new  == AfterAlloc(heap_metadata_free, whole)
         IN  /\ r.size > whole
             /\ AllocAddress(heap_metadata_free, whole) = r.address
             /\ rest \in Records /\ rest \notin free \ {r} =>
                   /\ new \in Seq(Seq(Records))
                   /\ Once(new)
                   /\ Regions(new) = (free \ {r}) \cup {rest}
  BY Zenon, <1>2, <1>3, <1>4, Allocated
<1> DEFINE front == Region(r.address, whole)
           rest == Region(r.address + whole, r.size - whole)
<1>6. /\ front \in Records /\ rest \in Records
      /\ r.address + whole \in Words
      /\ front \notin used /\ rest \notin free \ {r}
      /\ Partition(used \cup {front}, (free \ {r}) \cup {rest})
      /\ Span(front) \cap Covered(used) = {}
  <2>1. front = Region(r.address, whole) /\ rest = Region(r.address + whole, r.size - whole)
    BY Zenon
  <2>2. r.size > whole
    BY Zenon, <1>5
  <2> HIDE DEF front, rest, used, free
  <2> QED
    BY <1>1, <1>3, <2>1, <2>2, Split
<1>7. Wrap(r.address + whole) = r.address + whole
  BY Zenon, <1>6, WrapIs
<1>8. /\ heap_metadata_free' \in Seq(Seq(Records))
      /\ Once(heap_metadata_free')
      /\ Regions(heap_metadata_free') = (free \ {r}) \cup {rest}
  BY Zenon, <1>4, <1>5, <1>6, <1>7
<1>9. CASE Extend(heap_metadata_used) /\ UNCHANGED <<heap_metadata_used, dirty, Used>>
  BY Zenon, <1>2, <1>8, <1>9 DEF Extend, Inv, TypeOK, Chains, Records, AssertionsHold
<1>10. CASE /\ heap_metadata_used' = AfterFree(heap_metadata_used, r.address, whole)
            /\ Used' = Used + whole
            /\ failed' = IF Span(front) \cap dirty = {} THEN "none" ELSE "fill"
            /\ dirty' = dirty \cup payload_dirty
  <2>1. /\ heap_metadata_used' \in Seq(Seq(Records))
        /\ Once(heap_metadata_used')
        /\ Regions(heap_metadata_used') = used \cup {front}
    BY <1>2, <1>3, <1>6, <1>10, Added
  <2>2. dirty \subseteq Covered(used)
    BY <1>3 DEF Payloads, Payload, Covered
  <2>3. failed' = "none"
    BY Zenon, <1>6, <1>10, <2>2
  <2>4. payload_dirty \subseteq Payload(front) /\ Payload(front) \subseteq Span(front)
    BY Zenon, <1>5 DEF whole, Payload
  <2>5. dirty' \subseteq Payloads(used \cup {front})
    BY Zenon, <1>3, <1>10, <2>4 DEF Payloads
  <2>6. /\ IsFiniteSet(Span(front)) /\ Cardinality(Span(front)) = whole
        /\ IsFiniteSet(Covered(used)) /\ Cardinality(Covered(used)) \in Nat
    <3>1. front.size = whole
      BY Zenon DEF Region
    <3> QED
      BY <1>3, <1>6, <3>1, SpanIs, CoveredIs
  <2>7. Covered(used \cup {front}) = Covered(used) \cup Span(front)
    BY Zenon DEF Covered
  <2>8. Cardinality(Covered(used \cup {front})) = Cardinality(Covered(used)) + whole
    <3> DEFINE S == Covered(used)
               T == Span(front)
    <3>1. /\ IsFiniteSet(S) /\ IsFiniteSet(T) /\ S \cap T = {}
          /\ Cardinality(S) \in Nat /\ Cardinality(T) = whole
          /\ Covered(used \cup {front}) = S \cup T
      BY Zenon, <1>6, <2>6, <2>7
    <3> HIDE DEF S, T, front
    <3>2. Cardinality(S \cup T) = Cardinality(S) + Cardinality(T)
      BY Zenon, <3>1, DisjointUnion
    <3> QED
      BY Zenon, <3>1, <3>2 DEF S
  <2>9. Used' = Cardinality(Covered(used \cup {front})) /\ Used' \in 0 .. Heap_Size
    BY Zenon, <1>3, <1>6, <1>10, <2>8, CoveredIs
  <2>10. dirty' \subseteq Words
    <3>1. Span(front) \subseteq Words
      BY <1>6 DEF Partition, Covered
    <3> QED
      BY <1>2, <1>10, <2>4, <3>1 DEF TypeOK
  <2> QED
    BY Zenon, <1>6, <1>8, <2>1, <2>3, <2>5, <2>9, <2>10
       DEF Inv, TypeOK, Chains, Records, Books, AssertionsHold
<1> QED
  BY Zenon, <1>5, <1>9, <1>10 DEF AllocateFrom, whole

LEMMA KfreeStep ==
    ASSUME Inv, NEW r \in Regions(heap_metadata_used), Kfree(r)
    PROVE  Inv'
<1> DEFINE used == Regions(heap_metadata_used)
           free == Regions(heap_metadata_free)
           size == FoundSize(heap_metadata_used, r.address)
<1>1. /\ failed = "none" /\ TypeOK /\ Books
      /\ heap_metadata_used \in Seq(Seq(Records))
      /\ heap_metadata_free \in Seq(Seq(Records))
  BY Zenon DEF Kfree, Inv, TypeOK, Chains, Records
<1>2. /\ Once(heap_metadata_used) /\ Once(heap_metadata_free)
      /\ Partition(used, free)
      /\ dirty \subseteq Payloads(used)
      /\ Used = Cardinality(Covered(used))
  BY Zenon, <1>1 DEF Books
<1>3. /\ r \notin free
      /\ Partition(used \ {r}, free \cup {r})
      /\ Covered(used \ {r}) = Covered(used) \ Span(r)
      /\ Payloads(used) \ Span(r) \subseteq Payloads(used \ {r})
      /\ {r.address, r.address + r.size - 1} \cap Payloads(used) = {}
  <2> HIDE DEF used, free
  <2> QED
    BY Zenon, <1>2, Returned DEF used
<1>4. /\ size = r.size
      /\ AfterFind(heap_metadata_used, r.address) \in Seq(Seq(Records))
      /\ Once(AfterFind(heap_metadata_used, r.address))
      /\ Regions(AfterFind(heap_metadata_used, r.address)) = used \ {r}
  <2>1. \A q \in used : q.address = r.address => q = r
    BY Zenon, <1>2, AddressDecides
  <2> QED
    BY <1>1, <1>2, <2>1, Found
<1>5. r \in Records /\ r = Region(r.address, r.size)
  BY Zenon, <1>2 DEF Partition, Records, Region
<1>6. /\ heap_metadata_used' = AfterFind(heap_metadata_used, r.address)
      /\ dirty' = dirty \ Span(r)
      /\ Used' = Used - r.size
      /\ \/ /\ Extend(heap_metadata_free)
            /\ UNCHANGED heap_metadata_free
         \/ /\ heap_metadata_free' = AfterFree(heap_metadata_free, r.address, r.size)
            /\ failed' = "none"
  <2>1. {r.address, r.address + size - 1} \cap dirty = {}
    BY Zenon, <1>2, <1>3, <1>4
  <2> QED
    BY <1>1, <1>4, <1>5, <2>1 DEF Kfree, Erase, Credit
<1>7. dirty' \subseteq Payloads(used \ {r}) /\ dirty' \subseteq Words
  BY Zenon, <1>1, <1>2, <1>3, <1>6 DEF TypeOK
<1>8. Used' = Cardinality(Covered(used \ {r})) /\ Used' \in 0 .. Heap_Size
  <2> DEFINE S == Covered(used \ {r})
             T == Span(r)
  <2>1. S \cap T = {} /\ Covered(used) = S \cup T
    BY Zenon, <1>3 DEF Covered
  <2>2. IsFiniteSet(T) /\ Cardinality(T) = r.size /\ r.size \in Nat
    BY <1>5, SpanIs DEF Records
  <2>3. IsFiniteSet(S) /\ Cardinality(S) \in 0 .. Heap_Size
    BY Zenon, <1>3, CoveredIs
  <2> HIDE DEF S, T
  <2>4. Used = Cardinality(S) + Cardinality(T)
    BY <1>2, <2>1, <2>2, <2>3, DisjointUnion
  <2>5. Used' = Cardinality(S)
    BY <1>6, <2>2, <2>3, <2>4
  <2> QED
    BY Zenon, <2>3, <2>5 DEF S
<1>9. CASE Extend(heap_metadata_free) /\ UNCHANGED heap_metadata_free
  BY <1>1, <1>4, <1>6, <1>7, <1>8, <1>9
     DEF Extend, Inv, TypeOK, Chains, Records, AssertionsHold
<1>10. CASE /\ heap_metadata_free' = AfterFree(heap_metadata_free, r.address, r.size)
            /\ failed' = "none"
  <2>1. /\ heap_metadata_free' \in Seq(Seq(Records))
        /\ Once(heap_metadata_free')
        /\ Regions(heap_metadata_free') = free \cup {r}
    BY <1>1, <1>2, <1>3, <1>5, <1>10, Added
  <2> QED
    BY ZenonT(30), <1>3, <1>4, <1>6, <1>7, <1>8, <1>10, <2>1
       DEF Inv, TypeOK, Chains, Records, Books, AssertionsHold
<1> QED
  BY Zenon, <1>6, <1>9, <1>10

LEMMA InvStep == Inv /\ [Next]_vars => Inv'
<1> SUFFICES ASSUME Inv, [Next]_vars
             PROVE  Inv'
  BY Zenon
<1>1. ASSUME NEW size \in Requests, Kmalloc(size)
      PROVE  Inv'
  BY Zenon, <1>1, AllocateStep DEF Kmalloc
<1>2. ASSUME NEW size \in Requests, Kcalloc(size)
      PROVE  Inv'
  BY Zenon, <1>2, AllocateStep DEF Kcalloc
<1>3. ASSUME NEW r \in Regions(heap_metadata_used), NEW size \in Requests, Krealloc(r, size)
      PROVE  Inv'
  <2> DEFINE whole   == size + 2 * Redzone
             address == AllocAddress(heap_metadata_free, whole)
             copied  == {w \in Payload(Region(address, whole)) :
                            w - address + r.address \in dirty}
  <2>1. failed = "none" /\ AllocateFrom(size, copied)
    BY Zenon, <1>3 DEF Krealloc
  <2>2. copied \subseteq Payload(Region(address, whole))
    BY Zenon
  <2> HIDE DEF copied
  <2> QED
    BY Zenon, <2>1, <2>2, AllocateStep
<1>4. ASSUME NEW r \in Regions(heap_metadata_used), Kfree(r)
      PROVE  Inv'
  BY Zenon, <1>4, KfreeStep
<1>5. ASSUME NEW r \in Regions(heap_metadata_used), OwnerWrite(r)
      PROVE  Inv'
  <2>1. /\ dirty' = dirty \cup Payload(r) /\ failed = "none" /\ Books
        /\ UNCHANGED <<heap_metadata_used, heap_metadata_free, Used, failed>>
    BY Zenon, <1>5 DEF OwnerWrite, Inv
  <2>2. Payload(r) \subseteq Words /\ Payload(r) \subseteq Payloads(Regions(heap_metadata_used))
    BY Zenon, <2>1 DEF Books, Partition, Covered, Payload, Payloads
  <2>3. Books'
    BY Zenon, <2>1, <2>2 DEF Books
  <2> QED
    BY Zenon, <2>1, <2>2, <2>3 DEF Inv, TypeOK, AssertionsHold
<1>6. CASE UNCHANGED vars
  BY Zenon, <1>6 DEF vars, Inv, TypeOK, AssertionsHold, Books
<1> QED
  BY Zenon, <1>1, <1>2, <1>3, <1>4, <1>5, <1>6 DEF Next

LEMMA InvAlways == Spec => []Inv
BY InvInit, InvStep, PTL DEF Spec

-----------------------------------------------------------------------------

(* kmalloc and kfree: for every heap, every word is in exactly one region  *)
(* of exactly one vector as long as the machine runs.                      *)
THEOREM HeapPartitioned == Spec => []HeapPartition
<1>1. Inv => HeapPartition
  <2> SUFFICES ASSUME Inv, failed = "none", NEW w \in Words
               PROVE  Cardinality(Holding(heap_metadata_used, w))
                        + Cardinality(Holding(heap_metadata_free, w)) = 1
    BY Zenon DEF Inv, HeapPartition
  <2> DEFINE used == Regions(heap_metadata_used)
             free == Regions(heap_metadata_free)
  <2>1. Partition(used, free) /\ Once(heap_metadata_used) /\ Once(heap_metadata_free)
    BY Zenon DEF Inv, Books
  <2>2. PICK r \in used \cup free : w \in Span(r)
    BY Zenon, <2>1 DEF Partition, Covered
  <2>3. \A q \in used \cup free : w \in Span(q) => q = r
    BY Zenon, <2>1, <2>2 DEF Partition
  <2>4. Cardinality({}) = 0 /\ \A x : Cardinality({x}) = 1
    BY Zenon, FS_EmptySet, FS_Singleton
  <2>5. CASE r \in used
    <3>1. r \notin free
      BY Zenon, <2>1, <2>5 DEF Partition
    <3>2. PICK p \in Positions(heap_metadata_used) : At(heap_metadata_used, p) = r
      BY Zenon, <2>5 DEF Regions
    <3>3. Holding(heap_metadata_used, w) = {p}
      BY Zenon, <2>1, <2>2, <2>3, <3>2 DEF Holding, Regions, Once
    <3>4. Holding(heap_metadata_free, w) = {}
      BY Zenon, <2>3, <3>1 DEF Holding, Regions
    <3> QED
      BY <2>4, <3>3, <3>4
  <2>6. CASE r \in free
    <3>1. r \notin used
      BY Zenon, <2>1, <2>6 DEF Partition
    <3>2. PICK p \in Positions(heap_metadata_free) : At(heap_metadata_free, p) = r
      BY Zenon, <2>6 DEF Regions
    <3>3. Holding(heap_metadata_free, w) = {p}
      BY <2>1, <2>2, <2>3, <3>2 DEF Holding, Regions, Once
    <3>4. Holding(heap_metadata_used, w) = {}
      BY <2>3, <3>1 DEF Holding, Regions
    <3> QED
      BY <2>4, <3>3, <3>4
  <2> QED
    BY Zenon, <2>5, <2>6
<1> QED
  BY <1>1, InvAlways, PTL

(* kmalloc and kfree: for every heap, callers that write only inside their *)
(* payload never make the checks of the fill pattern fail.                 *)
THEOREM AssertionsAlwaysHold == Spec => []AssertionsHold
<1>1. Inv => AssertionsHold
  BY Zenon DEF Inv
<1> QED
  BY <1>1, InvAlways, PTL

(* heap_get_usage: while the machine runs, Used is exactly the number of   *)
(* words, red zones included, in the blocks that are out.                  *)
THEOREM UsageExact ==
    Spec => [](failed = "none" =>
                  Used = Cardinality(Covered(Regions(heap_metadata_used))))
<1>1. Inv => (failed = "none" =>
                  Used = Cardinality(Covered(Regions(heap_metadata_used))))
  BY Zenon DEF Inv, Books
<1> QED
  BY <1>1, InvAlways, PTL
=============================================================================
