------------------------------ MODULE EdwardsLaw ------------------------------
(***************************************************************************)
(* The addition law of the curve -x^2 + y^2 = 1 + d x^2 y^2 in affine      *)
(* coordinates over the integers modulo Prime: what the tables in base.h   *)
(* and base2.h hold, and what the operations of Edwards25519 are compared  *)
(* with.                                                                   *)
(***************************************************************************)
EXTENDS Integers, Sequences

CONSTANTS Prime, d

LOCAL Mod(a) == a % Prime
Inv(a) == CHOOSE b \in 1 .. Prime - 1 : Mod(a * b) = 1

Curve == {q \in (0 .. Prime - 1) \X (0 .. Prime - 1) :
             Mod(q[2] * q[2] - q[1] * q[1]) = Mod(1 + d * Mod(Mod(q[1] * q[1]) * Mod(q[2] * q[2])))}
Plus(q, r) ==
    LET e == Mod(d * Mod(Mod(q[1] * r[1]) * Mod(q[2] * r[2])))
    IN  <<Mod((q[1] * r[2] + r[1] * q[2]) * Inv(Mod(1 + e))),
          Mod((q[2] * r[2] + q[1] * r[1]) * Inv(Mod(1 - e)))>>
Minus(q) == <<Mod(-q[1]), q[2]>>
RECURSIVE Times(_, _)
Times(n, q) ==
    IF n = 0 THEN <<0, 1>>
    ELSE LET h == Times(n \div 2, q)
             hh == Plus(h, h)
         IN  IF n % 2 = 1 THEN Plus(hh, q) ELSE hh

(* The point that X, Y and Z stand for, and a point with Z = 1. *)
Affine(p) == <<Mod(p.X * Inv(p.Z)), Mod(p.Y * Inv(p.Z))>>
Extended(q) == [X |-> q[1], Y |-> q[2], Z |-> 1, T |-> Mod(q[1] * q[2])]
Prepared(q) == [yplusx |-> Mod(q[2] + q[1]), yminusx |-> Mod(q[2] - q[1]),
                xy2d |-> Mod(2 * d * Mod(q[1] * q[2]))]
===============================================================================
