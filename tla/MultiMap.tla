------------------------------ MODULE MultiMap ------------------------------
(***************************************************************************)
(* What a table of kernel/core/hashtable.c promises its users.  A put adds *)
(* a binding and hides none; a get answers with a value bound to the key,  *)
(* and with NULL only when there is none; a remove takes one binding of    *)
(* the key away.  Any call may panic instead of returning.                 *)
(***************************************************************************)
EXTENDS Naturals

CONSTANTS Keys, Values, Null

VARIABLES
    bindings,   \* how often each key is bound to each value
    answer,     \* what the last hashtable_get returned
    mode        \* "live", "destroyed" or "halted"

vars == <<bindings, answer, mode>>

BoundTo(key) == {value \in Values : bindings[<<key, value>>] > 0}

Init ==
    /\ bindings = [b \in Keys \X Values |-> 0]
    /\ answer = Null
    /\ mode = "live"

Put(key, value) ==
    /\ mode = "live"
    /\ bindings' = [bindings EXCEPT ![<<key, value>>] = @ + 1]
    /\ UNCHANGED <<answer, mode>>

Get(key) ==
    /\ mode = "live"
    /\ answer' \in IF BoundTo(key) = {} THEN {Null} ELSE BoundTo(key)
    /\ UNCHANGED <<bindings, mode>>

Remove(key) ==
    /\ mode = "live"
    /\ \E value \in BoundTo(key) :
          bindings' = [bindings EXCEPT ![<<key, value>>] = @ - 1]
    /\ mode' \in {"live", "halted"}
    /\ UNCHANGED answer

Panic ==
    /\ mode = "live"
    /\ mode' = "halted"
    /\ UNCHANGED <<bindings, answer>>

Destroy ==
    /\ mode = "live"
    /\ mode' = "destroyed"
    /\ UNCHANGED <<bindings, answer>>

Next ==
    \/ \E key \in Keys, value \in Values : Put(key, value)
    \/ \E key \in Keys : Get(key) \/ Remove(key)
    \/ Panic
    \/ Destroy

Spec == Init /\ [][Next]_vars
=============================================================================
