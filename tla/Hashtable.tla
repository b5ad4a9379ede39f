----------------------------- MODULE Hashtable ------------------------------
(***************************************************************************)
(* kernel/core/hashtable.c: open addressing with linear probing and        *)
(* tombstones.  The table grows when fewer than a quarter of its slots are *)
(* not full; a tombstone counts as not full, yet only an empty slot takes  *)
(* a new key and only an empty slot ends a search.                         *)
(*                                                                         *)
(* The callers serialise their calls, so each function is one action.      *)
(* Rebuilding a table of size n into one of 2n with at most n entries      *)
(* never grows the new table in turn (ShouldGrow(2n, u) is false for       *)
(* u <= n), so the puts of a rebuild are plain insertions.                 *)
(***************************************************************************)
EXTENDS Integers, FiniteSets, FiniteSetsExt

CONSTANTS
    Keys, Values,
    Null,           \* NULL
    Hash,           \* ht->hash, the hash of each key
    InitialSize,    \* the size given to hashtable_init
    ShrinkBelow,    \* 32 in should_shrink
    MaxTouched      \* bound: no put once this many slots are not empty

ASSUME HashtableAssumption ==
    /\ Hash \in [Keys -> Nat]
    /\ InitialSize \in Nat \ {0}
    /\ Null \notin Values

VARIABLES
    table,      \* *ht: its size, its count of used slots, its slots
    answer,     \* what the last hashtable_get returned
    mode,       \* "live", "destroyed" or "halted"
    failed      \* the assertion that halted the machine, or "none"

vars == <<table, answer, mode, failed>>

Empty == [state |-> "Empty"]

Tombstone == [state |-> "Tombstone"]

Full(key, value) == [state |-> "Full", key |-> key, value |-> value]

Slots(size) == 0 .. size - 1

TypeOK ==
    /\ table.used \in 0 .. table.size
    /\ table.data \in [Slots(table.size) ->
            {Empty, Tombstone} \cup {Full(k, v) : k \in Keys, v \in Values}]
    /\ answer \in Values \cup {Null}
    /\ mode \in {"live", "destroyed", "halted"}
    /\ failed \in {"none", "not_reached", "rebalance"}

NewTable(size) ==
    [size |-> size, used |-> 0, data |-> [s \in Slots(size) |-> Empty]]

(* hashtable_init *)
Init ==
    /\ table = NewTable(InitialSize)
    /\ answer = Null
    /\ mode = "live"
    /\ failed = "none"

-----------------------------------------------------------------------------

NotReached == -1        \* a probe went all the way round

Probe(t, key, d) == (Hash[key] + d) % t.size

Holds(t, s, key) == t.data[s].state = "Full" /\ t.data[s].key = key

(* hashtable_seek stops at a slot that holds the key or, except in the     *)
(* home slot, at an empty one.                                             *)
SeekStops(t, key) ==
    {d \in Slots(t.size) :
        \/ Holds(t, Probe(t, key, d), key)
        \/ d # 0 /\ t.data[Probe(t, key, d)] = Empty}

Seek(t, key) ==
    IF SeekStops(t, key) = {} THEN NotReached
    ELSE Probe(t, key, Min(SeekStops(t, key)))

(* hashtable_seek_empty *)
SeekEmpty(t, key) ==
    LET empty == {d \in Slots(t.size) : t.data[Probe(t, key, d)] = Empty}
    IN  IF empty = {} THEN NotReached ELSE Probe(t, key, Min(empty))

ShouldGrow(size, used) == size - used < size \div 4

ShouldShrink(size, used) == used < size \div 4 /\ size < ShrinkBelow

Store(t, s, entry, used) ==
    [size |-> t.size, used |-> used, data |-> [t.data EXCEPT ![s] = entry]]

Insert(t, key, value) ==
    Store(t, SeekEmpty(t, key), Full(key, value), t.used + 1)

(* hashtable_rebalance: the full slots, in order, go into a new table.     *)
Reinsert(t, new, n) ==
    LET slot == t.data[n - 1]
    IN  IF slot.state = "Full" THEN Insert(new, slot.key, slot.value) ELSE new

ForSlots == INSTANCE Iteration WITH Step <- Reinsert

RebuildKeepsUsed(t, new_size) ==
    ForSlots!Loop(t, [NewTable(new_size) EXCEPT !.used = t.used], t.size)

Rebuild(t, new_size) == ForSlots!Loop(t, NewTable(new_size), t.size)

-----------------------------------------------------------------------------

Assertion(which) == mode' = "halted" /\ failed' = which

(* hashtable_put finds no empty slot. *)
PutFull(key) ==
    /\ mode = "live"
    /\ SeekEmpty(table, key) = NotReached
    /\ Assertion("not_reached")
    /\ UNCHANGED <<table, answer>>

(* hashtable_put.  When the table is due to grow, kmalloc may fail: the    *)
(* caller gets Error_No_Memory and the entry stays in the old table.       *)
Put(key, value) ==
    /\ mode = "live"
    /\ Cardinality({s \in Slots(table.size) : table.data[s] # Empty}) < MaxTouched
    /\ SeekEmpty(table, key) # NotReached
    /\ LET t == Insert(table, key, value)
       IN  \/ table' = t
           \/ /\ ShouldGrow(t.size, t.used)
              /\ table' = Rebuild(t, t.size * 2)
    /\ UNCHANGED <<answer, mode, failed>>

(* hashtable_get *)
Get(key) ==
    /\ mode = "live"
    /\ Seek(table, key) # NotReached
    /\ answer' = LET slot == table.data[Seek(table, key)]
                 IN  IF slot = Empty THEN Null ELSE slot.value
    /\ UNCHANGED <<table, mode, failed>>

(* hashtable_seek goes all the way round, in hashtable_get or              *)
(* hashtable_remove.                                                       *)
SeekFull(key) ==
    /\ mode = "live"
    /\ Seek(table, key) = NotReached
    /\ Assertion("not_reached")
    /\ UNCHANGED <<table, answer>>

(* hashtable_remove.  A table due to shrink fails the assertion of         *)
(* hashtable_rebalance, which only accepts a larger size.                  *)
RemoveClears(key) ==
    /\ mode = "live"
    /\ Seek(table, key) # NotReached
    /\ Holds(table, Seek(table, key), key)
    /\ table' = Store(table, Seek(table, key), Empty, table.used - 1)
    /\ UNCHANGED <<answer, mode, failed>>

Remove(key) ==
    /\ mode = "live"
    /\ Seek(table, key) # NotReached
    /\ Holds(table, Seek(table, key), key)
    /\ table' = Store(table, Seek(table, key), Tombstone, table.used - 1)
    /\ IF ShouldShrink(table.size, table'.used)
       THEN Assertion("rebalance") ELSE UNCHANGED <<mode, failed>>
    /\ UNCHANGED answer

(* hashtable_remove of a key that is not there writes through NULL. *)
RemoveAbsent(key) ==
    /\ mode = "live"
    /\ Seek(table, key) # NotReached
    /\ table.data[Seek(table, key)] = Empty
    /\ mode' = "halted"
    /\ UNCHANGED <<table, answer, failed>>

(* hashtable_destroy *)
Destroy ==
    /\ mode = "live"
    /\ mode' = "destroyed"
    /\ UNCHANGED <<table, answer, failed>>

Next ==
    \/ \E key \in Keys, value \in Values : Put(key, value)
    \/ \E key \in Keys : \/ PutFull(key) \/ Get(key) \/ SeekFull(key)
                         \/ Remove(key) \/ RemoveAbsent(key)
    \/ Destroy

Spec == Init /\ [][Next]_vars

-----------------------------------------------------------------------------

FullSlots == {s \in Slots(table.size) : table.data[s].state = "Full"}

(* ht->used is the number of full slots through every put, remove and      *)
(* rebuild: the load factor that decides about growing is the real one.    *)
UsedCounts == TypeOK /\ table.used = Cardinality(FullSlots)

Bindings ==
    [b \in Keys \X Values |->
        Cardinality({s \in Slots(table.size) :
                        table.data[s] = Full(b[1], b[2])})]

Promise == INSTANCE MultiMap WITH bindings <- Bindings

(* The table implements a multimap: through collisions, wrap-around,       *)
(* tombstones, duplicate keys and rebuilds, a get that returns finds a     *)
(* binding of its key if there is one, and no operation loses, adds or     *)
(* changes another binding.                                                *)
ImplementsMultiMap == Promise!Spec

(* "The hash table is full. Should never be reached."                      *)
NeverFull == failed # "not_reached"
=============================================================================
