----------------------------- MODULE Edwards25519 -----------------------------
(***************************************************************************)
(* Points of the curve -x^2 + y^2 = 1 + d x^2 y^2 and the group operations *)
(* of src/kernel/crypto/ed25519/curve25519_ref10.c, over the integers      *)
(* modulo a prime: Field25519 has the limbs behind them.  The prime, the   *)
(* curve, the base tables and the length of a scalar are constants; the     *)
(* code is written for a prime that is 5 modulo 8, and so is this.         *)
(***************************************************************************)
EXTENDS Integers, Sequences

CONSTANTS
    Prime, d, sqrtm1,  \* sqrtm1^2 = -1
    Nibbles,           \* of a scalar: 64 in the code, half as many bytes
    base, Bi           \* the tables of base.h and base2.h: (j+1) * 256^i * B and (2i+1) * B

LOCAL S == INSTANCE SequencesExt

Mod(a) == a % Prime
RECURSIVE Power(_, _)
Power(a, n) ==
    IF n = 0 THEN 1
    ELSE LET h == Power(a, n \div 2) IN Mod(h * h * (IF n % 2 = 1 THEN a ELSE 1))
fe_invert(a) == Power(a, Prime - 2)
fe_pow22523(a) == Power(a, (Prime - 5) \div 8)

(* Points as the code keeps them: P2 projective, P3 with T = XY/Z, P1P1    *)
(* completed, Cached and Precomp prepared for an addition.                 *)
P2(X, Y, Z) == [X |-> Mod(X), Y |-> Mod(Y), Z |-> Mod(Z)]
P3(X, Y, Z, T) == [X |-> Mod(X), Y |-> Mod(Y), Z |-> Mod(Z), T |-> Mod(T)]
Precomp(plus, minus, xy2d) == [yplusx |-> Mod(plus), yminusx |-> Mod(minus), xy2d |-> Mod(xy2d)]

ge_p2_0 == P2(0, 1, 1)
ge_p3_0 == P3(0, 1, 1, 0)
ge_precomp_0 == Precomp(1, 1, 0)
ge_p3_to_p2(p) == P2(p.X, p.Y, p.Z)
ge_p1p1_to_p2(p) == P2(p.X * p.T, p.Y * p.Z, p.Z * p.T)
ge_p1p1_to_p3(p) == P3(p.X * p.T, p.Y * p.Z, p.Z * p.T, p.X * p.Y)
ge_p3_to_cached(p) ==
    [YplusX |-> Mod(p.Y + p.X), YminusX |-> Mod(p.Y - p.X), Z |-> p.Z, T2d |-> Mod(p.T * 2 * d)]

(* The four additions differ in where the second point's sums come from    *)
(* (plus and minus swapped for a subtraction), in its Z (1 for Precomp)    *)
(* and in the sign of the last two lines.                                  *)
Completed(p, plus, minus, t2d, zz, sign) ==
    LET a == (p.Y + p.X) * plus
        b == (p.Y - p.X) * minus
        c == sign * Mod(t2d * p.T)
        t0 == 2 * Mod(zz)
    IN  P3(a - b, a + b, t0 + c, t0 - c)
ge_add(p, q) == Completed(p, q.YplusX, q.YminusX, q.T2d, p.Z * q.Z, 1)
ge_sub(p, q) == Completed(p, q.YminusX, q.YplusX, q.T2d, p.Z * q.Z, -1)
ge_madd(p, q) == Completed(p, q.yplusx, q.yminusx, q.xy2d, p.Z, 1)
ge_msubUnswapped(p, q) == Completed(p, q.yplusx, q.yminusx, q.xy2d, p.Z, -1)
ge_msub(p, q) == Completed(p, q.yminusx, q.yplusx, q.xy2d, p.Z, -1)

ge_p2_dbl(p) ==
    LET xx == Mod(p.X * p.X)
        yy == Mod(p.Y * p.Y)
        s == Mod((p.X + p.Y) * (p.X + p.Y))
    IN  P3(s - (yy + xx), yy + xx, yy - xx, 2 * Mod(p.Z * p.Z) - (yy - xx))
ge_p3_dbl(p) == ge_p2_dbl(ge_p3_to_p2(p))

(* A point as bytes: y in SignBit's place, the parity of x above it. *)
SignBit == CHOOSE b \in {2^k : k \in 1 .. 20} : b > Prime /\ b \div 2 < Prime
ge_tobytes(p) ==
    LET recip == fe_invert(p.Z)
    IN  Mod(p.Y * recip) + SignBit * (Mod(p.X * recip) % 2)

(* Decode and negate: a square root of u/v by one power, then one of three *)
(* cases.  NotOnCurve stands for the return value -1.                      *)
NotOnCurve == [X |-> -1]
Cube(v) == Mod(Mod(v * v) * v)
Candidate(u, v, v3) == Mod(Mod(fe_pow22523(Mod(Mod(Mod(v3 * v3) * v) * u)) * v3) * u)
Root(x, vxx, u) == IF vxx = u THEN x ELSE Mod(x * sqrtm1)
Negated(x, sign) == IF x % 2 = sign THEN Mod(-x) ELSE x
FromAffine(x, y) == P3(x, y, 1, x * y)
ge_frombytes_negate_vartime(s) ==
    LET y == Mod(s % SignBit)
        u == Mod(y * y - 1)
        v == Mod(Mod(y * y) * d + 1)
        x == Candidate(u, v, Cube(v))
        vxx == Mod(Mod(x * x) * v)
    IN  IF vxx \notin {u, Mod(-u)} THEN NotOnCurve
        ELSE FromAffine(Negated(Root(x, vxx, u), s \div SignBit), y)

-------------------------------------------------------------------------------
ge_select(pos, b) ==
    LET babs == IF b < 0 THEN -b ELSE b
        t == IF babs \in 1 .. 8 THEN base[pos][babs - 1] ELSE ge_precomp_0
    IN  IF b < 0 THEN Precomp(t.yminusx, t.yplusx, -t.xy2d) ELSE t

-------------------------------------------------------------------------------
(* slide: digits of a scalar, odd and between -15 and 15, most of them 0.  *)
Bits == 0 .. 4 * Nibbles - 1

(* Add 1 at bit k and up: the inner loop that carries a subtraction.       *)
CarryUp(r, k) ==
    LET zeros == {j \in Bits : j >= k /\ r[j] = 0}
        stop == IF zeros = {} THEN 4 * Nibbles ELSE CHOOSE j \in zeros : \A i \in zeros : j <= i
    IN  [j \in Bits |-> IF j \in k .. stop - 1 THEN 0 ELSE IF j = stop THEN 1 ELSE r[j]]

(* The loop over b for bit i, left by break when neither sum fits. *)
RECURSIVE Absorb(_, _, _)
Absorb(r, i, b) ==
    IF b > 6 \/ i + b \notin Bits THEN r
    ELSE LET add == r[i] + r[i + b] * 2^b
             sub == r[i] - r[i + b] * 2^b
         IN  IF r[i + b] = 0 THEN Absorb(r, i, b + 1)
             ELSE IF add <= 15 THEN Absorb([r EXCEPT ![i] = add, ![i + b] = 0], i, b + 1)
             ELSE IF sub >= -15 THEN Absorb(CarryUp([r EXCEPT ![i] = sub], i + b), i, b + 1)
             ELSE r
RECURSIVE SlideFrom(_, _)
SlideFrom(r, i) ==
    IF i \notin Bits THEN r
    ELSE SlideFrom(IF r[i] = 0 THEN r ELSE Absorb(r, i, 1), i + 1)
slide(a) == SlideFrom([i \in Bits |-> (a \div 2^i) % 2], 0)

(* A, 3A, ..., 15A, each from the one before by adding 2A. *)
OddMultiples(A) ==
    LET A2 == ge_p1p1_to_p3(ge_p3_dbl(A))
        Step(ai, k) == Append(ai, ge_p3_to_cached(ge_p1p1_to_p3(ge_add(A2, ai[k]))))
    IN  S!FoldLeft(Step, <<ge_p3_to_cached(A)>>, <<1, 2, 3, 4, 5, 6, 7>>)

Downward == [k \in 1 .. 4 * Nibbles |-> 4 * Nibbles - k]

AddDigit(t, e, ai) ==
    IF e > 0 THEN ge_add(ge_p1p1_to_p3(t), ai[e \div 2 + 1])
    ELSE IF e < 0 THEN ge_sub(ge_p1p1_to_p3(t), ai[(-e) \div 2 + 1])
    ELSE t
AddBaseDigit(t, e) ==
    IF e > 0 THEN ge_madd(ge_p1p1_to_p3(t), Bi[e \div 2])
    ELSE IF e < 0 THEN ge_msub(ge_p1p1_to_p3(t), Bi[(-e) \div 2])
    ELSE t

(* Doublings of the neutral element above the highest digit change nothing *)
(* but Z, and the code skips them.                                         *)
ge_double_scalarmult_vartime(a, A, b) ==
    LET sa == slide(a)
        sb == slide(b)
        ai == OddMultiples(A)
        top == {i \in Bits : sa[i] # 0 \/ sb[i] # 0}
        Step(r, i) == IF \A j \in top : j < i THEN r
                      ELSE ge_p1p1_to_p2(AddBaseDigit(AddDigit(ge_p2_dbl(r), sa[i], ai), sb[i]))
    IN  S!FoldLeft(Step, ge_p2_0, Downward)

ge_scalarmult_vartime(a, A) ==
    LET sa == slide(a)
        ai == OddMultiples(A)
        Step(r, i) == IF \A j \in Bits : j >= i => sa[j] = 0 THEN r
                      ELSE ge_p1p1_to_p3(AddDigit(ge_p3_dbl(r), sa[i], ai))
    IN  S!FoldLeft(Step, ge_p3_0, Downward)

-------------------------------------------------------------------------------
(* ge_scalarmult_base: digits between -8 and 8 to the base 16; the odd     *)
(* ones first, times 16 by four doublings, then the even ones.             *)
SignedNibbles(a) ==
    LET Carry(st, i) ==
            LET x == ((a \div 16^i) % 16) + st.carry
                c == IF i = Nibbles - 1 THEN 0 ELSE (x + 8) \div 16
            IN  [e |-> Append(st.e, x - 16 * c), carry |-> c]
    IN  S!FoldLeft(Carry, [e |-> <<>>, carry |-> 0], [k \in 1 .. Nibbles |-> k - 1]).e

AddNibbles(h, e, parity) ==
    S!FoldLeft(LAMBDA acc, k : IF (k - 1) % 2 # parity THEN acc
                               ELSE ge_p1p1_to_p3(ge_madd(acc, ge_select((k - 1) \div 2, e[k]))),
               h, [k \in 1 .. Nibbles |-> k])
ge_scalarmult_base(a) ==
    LET e == SignedNibbles(a)
        h == AddNibbles(ge_p3_0, e, 1)
        s2 == ge_p1p1_to_p2(ge_p3_dbl(h))
        s4 == ge_p1p1_to_p2(ge_p2_dbl(s2))
        s8 == ge_p1p1_to_p2(ge_p2_dbl(s4))
    IN  AddNibbles(ge_p1p1_to_p3(ge_p2_dbl(s8)), e, 0)
===============================================================================
