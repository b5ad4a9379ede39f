------------------------------ MODULE Scalar25519 -----------------------------
(***************************************************************************)
(* Scalars modulo the order L of the base point, sc_muladd and sc_reduce   *)
(* of src/kernel/crypto/ed25519/curve25519_ref10.c: 24 signed limbs of 21  *)
(* bits, of which the upper 12 are folded into the lower ones with the six *)
(* multipliers that spell 2^252 modulo L.  The width of a limb and the     *)
(* multipliers are constants; L follows from them.                         *)
(***************************************************************************)
EXTENDS Integers, Sequences, FiniteSetsExt

CONSTANTS
    Bits,  \* width of a limb, 21 in the code
    Mu     \* 666643, 470296, 654183, -997805, 136657, -683901 in the code

LOCAL S == INSTANCE SequencesExt

Limb == 0 .. 23
L == 2^(12 * Bits) - MapThenSumSet(LAMBDA k : Mu[k] * 2^(Bits * (k - 1)), 1 .. 6)

(* The number that the limbs stand for, modulo L. *)
ModL(s) == S!FoldRight(LAMBDA x, acc : (x + 2^Bits * acc) % L, [k \in 1 .. 24 |-> s[k - 1]], 0)

(* The limbs of a number given as a sequence of digits, lowest first; the  *)
(* last of twelve or of 24 takes the bits that are left.                   *)
LoadScalar(digits) ==
    [i \in Limb |-> IF i < Len(digits) THEN digits[i + 1] ELSE 0]

MulAdd(a, b, c) ==
    [k \in Limb |-> c[k] + MapThenSumSet(LAMBDA i : a[i] * b[k - i],
                                         {i \in 0 .. 11 : k - i \in 0 .. 11})]

CarryOut(s, i, q) == [s EXCEPT ![i] = @ - q * 2^Bits, ![i + 1] = @ + q]
Near(s, i) == CarryOut(s, i, (s[i] + 2^(Bits - 1)) \div 2^Bits)
Floor(s, i) == CarryOut(s, i, s[i] \div 2^Bits)

(* Limb i, i >= 12, is worth Mu of itself from limb i - 12 on.  The code   *)
(* leaves the upper limb in place, and clears it only where it is read     *)
(* again.                                                                  *)
EliminateFive(s, i) ==
    S!FoldLeft(LAMBDA t, k : [t EXCEPT ![i - 13 + k] = @ + Mu[k] * s[i]],
               [s EXCEPT ![i] = 0], <<1, 2, 3, 4, 5>>)
Eliminate(s, i) ==
    S!FoldLeft(LAMBDA t, k : [t EXCEPT ![i - 13 + k] = @ + Mu[k] * s[i]],
               [s EXCEPT ![i] = 0], <<1, 2, 3, 4, 5, 6>>)

(* The code is straight-line: one step per multiplication by Mu or carry.  *)
Every2(op, lo, hi) == [k \in 1 .. (hi - lo) \div 2 + 1 |-> <<op, lo + 2 * (k - 1)>>]
Floors(hi) == [k \in 1 .. hi + 1 |-> <<"floor", k - 1>>]
Eliminations(hi) == [k \in 1 .. 6 |-> <<"eliminate", hi + 1 - k>>]

(* sc_muladd first evens out the products of the limbs. *)
EvenOut == Every2("near", 0, 22) \o Every2("near", 1, 21)
ReduceHigh == Eliminations(23) \o Every2("near", 6, 16) \o Every2("near", 7, 15)
ReduceLow ==
    Eliminations(17) \o Every2("near", 0, 10) \o Every2("near", 1, 11)
        \o <<<<"eliminate", 12>>>> \o Floors(11) \o <<<<"eliminate", 12>>>> \o Floors(10)
sc_reduce == ReduceHigh \o ReduceLow
sc_muladd == EvenOut \o ReduceHigh \o ReduceLow

Step(s, step) ==
    CASE step[1] = "eliminate" -> Eliminate(s, step[2])
      [] step[1] = "near" -> Near(s, step[2])
      [] step[1] = "floor" -> Floor(s, step[2])
===============================================================================
