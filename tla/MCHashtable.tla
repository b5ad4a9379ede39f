---------------------------- MODULE MCHashtable -----------------------------
EXTENDS Hashtable, TLC

CONSTANTS k1, k2, k3

(* In a table of 4 all three keys collide in the last slot; in one of 8,   *)
(* k1 and k3 collide and k2 wraps around into their probe sequence.        *)
MCHash == (k1 :> 3) @@ (k2 :> 7) @@ (k3 :> 11)
=============================================================================
