----------------------------- MODULE Iteration ------------------------------
(***************************************************************************)
(* A loop for (k = 1; k <= n; ++k) over a state s, with Step for its body: *)
(* arg is what the body reads and does not change.  An instance for one    *)
(* body brings the two equations of the loop, which are proved here for    *)
(* any body.  They rest on the well-ordering of the naturals, which        *)
(* whoever cites them has to prove.                                        *)
(***************************************************************************)
EXTENDS Naturals

CONSTANT Step(_, _, _)

Loop(arg, s, n) ==
    LET after[k \in 0 .. n] ==
            IF k = 0 THEN s ELSE Step(arg, after[k - 1], k)
    IN  after[n]

-----------------------------------------------------------------------------

After(f, arg, s, n) ==
    f = [k \in 0 .. n |-> IF k = 0 THEN s ELSE Step(arg, f[k - 1], k)]

(* The function of which Loop takes the last value exists, by induction on *)
(* the length of the loop, and a longer run starts as a shorter one does.  *)
LEMMA LoopIs ==
    ASSUME \A S \in SUBSET Nat : S # {} => \E x \in S : \A y \in S : x <= y,
           NEW arg, NEW s
    PROVE  /\ Loop(arg, s, 0) = s
           /\ \A n \in Nat : Loop(arg, s, n + 1) = Step(arg, Loop(arg, s, n), n + 1)
<1>1. ASSUME NEW n \in Nat, NEW S, 0 \in S,
             \A k \in 0 .. n : k \in S /\ k # n => k + 1 \in S
      PROVE  n \in S
  <2> DEFINE T == {k \in 0 .. n : k \notin S}
  <2> SUFFICES ASSUME T # {}
               PROVE  FALSE
    OBVIOUS
  <2>1. PICK k \in T : \A m \in T : k <= m
    <3>1. T \in SUBSET Nat
      OBVIOUS
    <3> HIDE DEF T
    <3> QED
      BY <3>1
  <2>2. k \in 1 .. n /\ k - 1 \in 0 .. n /\ k - 1 \notin T
    BY <1>1, <2>1
  <2>3. k - 1 \in S /\ k - 1 # n /\ (k - 1) + 1 = k
    BY <2>2
  <2> QED
    BY <1>1, <2>2, <2>3
<1>2. ASSUME NEW n \in Nat
      PROVE  \E f : After(f, arg, s, n)
  <2> DEFINE S == {k \in Nat : \E f : After(f, arg, s, k)}
  <2>1. 0 \in S
    <3> DEFINE f == [k \in 0 .. 0 |-> s]
    <3>1. f = [k \in 0 .. 0 |-> IF k = 0 THEN s ELSE Step(arg, f[k - 1], k)]
      OBVIOUS
    <3>2. After(f, arg, s, 0)
      BY <3>1 DEF After
    <3> QED
      BY <3>2
  <2>2. ASSUME NEW m \in S
        PROVE  m + 1 \in S
    <3>1. PICK g : After(g, arg, s, m)
      OBVIOUS
    <3>2. /\ m \in Nat
          /\ \A k \in 0 .. m : g[k] = IF k = 0 THEN s ELSE Step(arg, g[k - 1], k)
      BY <3>1 DEF After
    <3> DEFINE f == [k \in 0 .. m + 1 |-> IF k = m + 1 THEN Step(arg, g[m], m + 1) ELSE g[k]]
    <3>3. ASSUME NEW k \in 0 .. m + 1
          PROVE  f[k] = IF k = 0 THEN s ELSE Step(arg, f[k - 1], k)
      <4>1. CASE k = m + 1
        <5>1. k # 0 /\ k - 1 = m /\ m \in 0 .. m + 1 /\ m # m + 1
          BY <3>2, <4>1
        <5>2. f[m] = g[m] /\ f[k] = Step(arg, g[m], m + 1)
          BY <4>1, <5>1
        <5> HIDE DEF f
        <5> QED
          BY <4>1, <5>1, <5>2
      <4>2. CASE k # m + 1 /\ k # 0
        <5>1. k \in 0 .. m /\ k - 1 \in 0 .. m + 1 /\ k - 1 # m + 1
          BY <3>2, <4>2
        <5>2. f[k] = g[k] /\ f[k - 1] = g[k - 1]
          BY <4>2, <5>1
        <5> HIDE DEF f
        <5> QED
          BY <3>2, <4>2, <5>1, <5>2
      <4>3. CASE k # m + 1 /\ k = 0
        <5>1. k \in 0 .. m
          BY <3>2, <4>3
        <5> QED
          BY <3>2, <4>3, <5>1
      <4> QED
        BY <4>1, <4>2, <4>3
    <3>4. f = [k \in 0 .. m + 1 |-> f[k]]
      OBVIOUS
    <3> HIDE DEF f
    <3>5. After(f, arg, s, m + 1)
      BY <3>3, <3>4 DEF After
    <3> QED
      BY <3>2, <3>5
  <2>3. n \in S
    <3> HIDE DEF S
    <3> QED
      BY <1>1, <2>1, <2>2
  <2> QED
    BY <2>3
<1>3. ASSUME NEW n \in Nat, NEW f, NEW g, After(f, arg, s, n), After(g, arg, s, n + 1)
      PROVE  f[n] = g[n]
  <2>1. \A k \in 0 .. n : f[k] = IF k = 0 THEN s ELSE Step(arg, f[k - 1], k)
    BY <1>3 DEF After
  <2>2. \A k \in 0 .. n : g[k] = IF k = 0 THEN s ELSE Step(arg, g[k - 1], k)
    BY <1>3 DEF After
  <2> DEFINE S == {k \in 0 .. n : f[k] = g[k]}
  <2>3. 0 \in S
    <3>1. 0 \in 0 .. n
      OBVIOUS
    <3>2. f[0] = s /\ g[0] = s
      BY <2>1, <2>2, <3>1
    <3> QED
      BY <3>1, <3>2
  <2>4. ASSUME NEW k \in 0 .. n, k \in S, k # n
        PROVE  k + 1 \in S
    <3>1. k + 1 \in 0 .. n /\ k + 1 # 0 /\ (k + 1) - 1 = k
      BY <2>4
    <3>2. f[k + 1] = Step(arg, f[k], k + 1) /\ g[k + 1] = Step(arg, g[k], k + 1)
      BY <2>1, <2>2, <3>1
    <3> QED
      BY <2>4, <3>1, <3>2
  <2>5. n \in S
    <3> HIDE DEF S
    <3>1. \A k \in 0 .. n : k \in S /\ k # n => k + 1 \in S
      BY <2>4
    <3> QED
      BY <1>1, <2>3, <3>1
  <2> QED
    BY <2>5
<1> DEFINE F(n) == CHOOSE f : After(f, arg, s, n)
<1>4. \A n : Loop(arg, s, n) = F(n)[n]
  BY DEF Loop, After
<1>5. \A n \in Nat : After(F(n), arg, s, n)
  BY <1>2
<1> HIDE DEF F
<1>6. F(0)[0] = s
  BY <1>5 DEF After
<1>7. ASSUME NEW n \in Nat
      PROVE  F(n + 1)[n + 1] = Step(arg, F(n)[n], n + 1)
  <2>1. F(n + 1)[n] = F(n)[n]
    BY <1>3, <1>5
  <2>2. F(n + 1)[n + 1] = Step(arg, F(n + 1)[(n + 1) - 1], n + 1)
    BY <1>5 DEF After
  <2>3. (n + 1) - 1 = n
    OBVIOUS
  <2> QED
    BY <2>1, <2>2, <2>3
<1> QED
  BY <1>4, <1>6, <1>7
=============================================================================
