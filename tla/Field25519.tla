------------------------------ MODULE Field25519 ------------------------------
(***************************************************************************)
(* Field elements of src/kernel/crypto/ed25519/curve25519_ref10.c: numbers *)
(* modulo P = 2^255 - 19 kept as ten signed limbs of 26 and 25 bits in     *)
(* turn.  The number of limbs, their widths, the 19, the width of a byte   *)
(* and of int32_t are constants here: the same code with short limbs has a *)
(* P small enough for its results to be compared with arithmetic on Int.   *)
(***************************************************************************)
EXTENDS Integers, Sequences, FiniteSetsExt

CONSTANTS
    Limbs,     \* 10 in the code; even
    Even, Odd, \* widths of the limbs with an even and an odd index: 26 and 25
    C,         \* 19
    Byte,      \* 8
    Word       \* 32, the width of int32_t

LOCAL S == INSTANCE SequencesExt

Index == 0 .. Limbs - 1
Width(i) == IF i % 2 = 0 THEN Even ELSE Odd
Position(i) == (i \div 2) * (Even + Odd) + (i % 2) * Even
P == 2^Position(Limbs) - C

(* The number that the limbs h stand for. *)
Value(h) == MapThenSumSet(LAMBDA i : h[i] * 2^Position(i), Index)

fe_add(f, g) == [i \in Index |-> f[i] + g[i]]
fe_sub(f, g) == [i \in Index |-> f[i] - g[i]]
fe_neg(f) == [i \in Index |-> -f[i]]

(* Carry from limb i to the next one, or C times over from the last to the *)
(* first; the carry of Rounded goes to the nearest multiple, so that the   *)
(* rest may be negative.                                                   *)
CarryBy(h, i, c) ==
    [h EXCEPT ![i] = @ - c * 2^Width(i),
              ![(i + 1) % Limbs] = @ + (IF i = Limbs - 1 THEN C ELSE 1) * c]
Rounded(h, i) == CarryBy(h, i, (h[i] + 2^(Width(i) - 1)) \div 2^Width(i))

(* The twelve carries of a product: two chains half the limbs apart, then  *)
(* the last limb, whose carry enters the first one again.                  *)
Half == Limbs \div 2 - 1
CarryOrder == [k \in 1 .. 2 * Half + 2 |-> (k - 1) \div 2 + ((k - 1) % 2) * Half]
                  \o <<Limbs - 1, 0>>
CarryProduct(h) == S!FoldLeft(Rounded, h, CarryOrder)

(* A product of limbs i and j belongs to limb i + j, modulo Limbs: it      *)
(* counts double when both are odd and C times when it passes the end.     *)
FactorNoDouble(i, j) == IF i + j >= Limbs THEN C ELSE 1
Factor(i, j) ==
    (IF i % 2 = 1 /\ j % 2 = 1 THEN 2 ELSE 1) * (IF i + j >= Limbs THEN C ELSE 1)

Products(f, g) ==
    [k \in Index |-> MapThenSumSet(
        LAMBDA i : LET j == (k - i) % Limbs IN Factor(i, j) * f[i] * g[j], Index)]

fe_mul(f, g) == CarryProduct(Products(f, g))

(* The square adds every product of two different limbs once, doubled. *)
Squares(f) ==
    [k \in Index |-> MapThenSumSet(
        LAMBDA i : LET j == (k - i) % Limbs IN
                   IF i > j THEN 0
                   ELSE (IF i = j THEN 1 ELSE 2) * Factor(i, j) * f[i] * f[j], Index)]

fe_sq(f) == CarryProduct(Squares(f))
fe_sq2(f) == LET h == Squares(f) IN CarryProduct([i \in Index |-> h[i] + h[i]])

(* fe_frombytes reads limb i from the first whole byte at or after its     *)
(* position, ignores the top bit, and then carries from the odd limbs and  *)
(* from the even ones.  s is the number that the bytes spell.              *)
Cut(i) == IF i = Limbs THEN Position(Limbs)
          ELSE ((Position(i) + Byte - 1) \div Byte) * Byte
LoadLimbs(s) ==
    [i \in Index |-> ((s \div 2^Cut(i)) % 2^(Cut(i + 1) - Cut(i))) * 2^(Cut(i) - Position(i))]
LoadOrder == <<Limbs - 1>> \o [k \in 1 .. Half |-> 2 * k - 1] \o [k \in 1 .. Half + 1 |-> 2 * k - 2]
fe_frombytes(s) == S!FoldLeft(Rounded, LoadLimbs(s), LoadOrder)

(* fe_tobytes finds the multiple q of P to subtract by running the carries *)
(* once without keeping them.  Its first shift is one of an unsigned word. *)
Quotient(h) ==
    LET q0 == ((C * h[Limbs - 1] + 2^(Odd - 1)) % 2^Word) \div 2^Odd
    IN  S!FoldLeft(LAMBDA q, i : (h[i] + q) \div 2^Width(i), q0, [k \in 1 .. Limbs |-> k - 1])

(* The number spelled by the bytes; the carry out of the last limb is lost. *)
fe_tobytes(h) ==
    LET h1 == [h EXCEPT ![0] = @ + C * Quotient(h)]
        Shift(g, i) == CarryBy(g, i, g[i] \div 2^Width(i))
        h2 == S!FoldLeft(Shift, h1, [k \in 1 .. Limbs - 1 |-> k - 1])
    IN  Value([h2 EXCEPT ![Limbs - 1] = @ % 2^Odd])

fe_isnegative(f) == fe_tobytes(f) % 2
fe_isnonzero(f) == IF fe_tobytes(f) # 0 THEN 1 ELSE 0

-------------------------------------------------------------------------------
(* Exponents of the two addition chains, fe_invert and fe_pow22523, modulo *)
(* m: a multiplication adds exponents, n squarings multiply one by 2^n.    *)
RECURSIVE TwoTo(_, _)
TwoTo(n, m) == IF n = 0 THEN 1 % m
               ELSE LET h == TwoTo(n \div 2, m) IN (h * h * (1 + (n % 2))) % m
Sq(e, n, m) == (e * TwoTo(n, m)) % m

(* The common part: the exponents 2^250 - 1, and 11 in t0, from z^1. *)
Chain250(m) ==
    LET z2 == Sq(1, 1, m)
        z9 == (1 + Sq(z2, 2, m)) % m
        z11 == (z2 + z9) % m
        e5 == (z9 + Sq(z11, 1, m)) % m
        e10 == (Sq(e5, 5, m) + e5) % m
        e20 == (Sq(e10, 10, m) + e10) % m
        e40 == (Sq(e20, 20, m) + e20) % m
        e50 == (Sq(e40, 10, m) + e10) % m
        e100 == (Sq(e50, 50, m) + e50) % m
        e200 == (Sq(e100, 100, m) + e100) % m
    IN  [t |-> (Sq(e200, 50, m) + e50) % m, t0 |-> z11]

InvertExponent(m) == (Sq(Chain250(m).t, 5, m) + Chain250(m).t0) % m
Pow22523Exponent(m) == (Sq(Chain250(m).t, 2, m) + 1) % m
===============================================================================
