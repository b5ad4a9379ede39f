-------------------------------- MODULE CString -------------------------------
(***************************************************************************)
(* Blocks and strings, core/string.c: the byte loops of memcpy, memmove,   *)
(* memcmp and strncmp.  Memory is a function from addresses to bytes, and  *)
(* a char has a sign.                                                      *)
(***************************************************************************)
EXTENDS Integers

CONSTANTS
    Addresses,      \* 0 .. Addresses - 1 are the addresses of the memory
    Chars           \* bytes of strings, 0 among them

VARIABLES
    bytes,          \* the memory
    asked,          \* the call made: operation, two addresses and a size
    memory_then,    \* history: the memory before the call
    result          \* what a comparison returned, and how many bytes of each it looked at

strings == <<bytes, asked, memory_then, result>>

Address == 0 .. Addresses - 1
NoCall == [op |-> "none", a |-> 0, b |-> 0, n |-> 0]
Equal == [order |-> 0, looked |-> 0]

(* Copies are made in memory of different bytes, comparisons in any. *)
CStringInit ==
    /\ \/ bytes = [k \in Address |-> k]
       \/ bytes \in [Address -> Chars]
    /\ asked = NoCall /\ memory_then = bytes /\ result = Equal

-------------------------------------------------------------------------------
(* The loops that copy, from the first byte on and from the last. *)
CopiedUp(dst, src, n) ==
    LET After[i \in 0 .. n] ==
            IF i = 0 THEN bytes ELSE [After[i - 1] EXCEPT ![dst + i - 1] = After[i - 1][src + i - 1]]
    IN  After[n]
CopiedDown(dst, src, n) ==
    LET After[i \in 0 .. n] ==
            IF i = n THEN bytes ELSE [After[i + 1] EXCEPT ![dst + i] = After[i + 1][src + i]]
    IN  After[0]

memcpy(dst, src, n) == CopiedUp(dst, src, n)
memmoveUp(dst, src, n) == CopiedUp(dst, src, n)
memmove(dst, src, n) == IF dst < src THEN CopiedUp(dst, src, n) ELSE CopiedDown(dst, src, n)

Differ(a, b, n) == {i \in 0 .. n - 1 : bytes[a + i] # bytes[b + i]}
First(S) == CHOOSE i \in S : \A j \in S : i <= j

(* The greater block is the one that memcmp answers -1 for. *)
memcmp(a, b, n) ==
    IF Differ(a, b, n) = {} THEN [order |-> 0, looked |-> n]
    ELSE LET i == First(Differ(a, b, n))
         IN  [order |-> IF bytes[a + i] > bytes[b + i] THEN -1 ELSE 1, looked |-> i + 1]

(* strncmp stops at a difference or at the end of either string. *)
strncmp(a, b, n) ==
    LET ends == {i \in 0 .. n - 1 : bytes[a + i] = 0 \/ bytes[b + i] = 0}
        stops == Differ(a, b, n) \cup ends
        i == First(stops)
    IN  IF stops = {} THEN [order |-> 0, looked |-> n]
        ELSE [order |-> bytes[a + i] - bytes[b + i], looked |-> i + 1]

-------------------------------------------------------------------------------
Ask(op, a, b, n) ==
    /\ asked = NoCall
    /\ a + n <= Addresses /\ b + n <= Addresses
    /\ asked' = [op |-> op, a |-> a, b |-> b, n |-> n]
    /\ UNCHANGED memory_then
Copy(op, a, b, n) ==
    /\ bytes = [k \in Address |-> k]
    /\ Ask(op, a, b, n)
    /\ bytes' = IF op = "memcpy" THEN memcpy(a, b, n) ELSE memmove(a, b, n)
    /\ UNCHANGED result
Compare(op, a, b, n) ==
    /\ bytes # [k \in Address |-> k]
    /\ Ask(op, a, b, n)
    /\ result' = IF op = "memcmp" THEN memcmp(a, b, n) ELSE strncmp(a, b, n)
    /\ UNCHANGED bytes

CStringNext ==
    \E a, b \in Address, n \in 0 .. Addresses :
        \/ \E op \in {"memcpy", "memmove"} : Copy(op, a, b, n)
        \/ \E op \in {"memcmp", "strncmp"} : Compare(op, a, b, n)

-------------------------------------------------------------------------------
(* memmove copies as if all bytes were read first, however the blocks      *)
(* overlap, as the signing functions need, which move a message within one *)
(* buffer; memcpy does so unless the destination begins inside the source. *)
MovedWhole ==
    LET a == asked.a b == asked.b n == asked.n
    IN  asked.op = "memmove" \/ (asked.op = "memcpy" /\ a \notin b + 1 .. b + n - 1) =>
            bytes = [k \in Address |-> IF k \in a .. a + n - 1 THEN memory_then[b + k - a]
                                       ELSE memory_then[k]]

(* strncmp answers 0 for strings that are equal up to their ends or n, and *)
(* never looks beyond the end of one; the hash table relies on it with n a *)
(* page, the look-up of files and sections with the length of a name.      *)
(* memcmp answers 0 for equal blocks, ends in them included.               *)
ComparedToEnd ==
    LET A(i) == bytes[asked.a + i]
        B(i) == bytes[asked.b + i]
        length(S(_)) == {i \in 0 .. asked.n : \A j \in 0 .. i - 1 : S(j) # 0}
    IN  /\ asked.op = "strncmp" =>
            /\ \A i \in 0 .. result.looked - 2 : A(i) # 0 /\ B(i) # 0
            /\ result.order = 0 <=>
                   /\ length(A) = length(B)
                   /\ \A i \in length(A) : i < asked.n => A(i) = B(i)
        /\ asked.op = "memcmp" => (result.order = 0 <=> \A i \in 0 .. asked.n - 1 : A(i) = B(i))

(* The four functions do what their callers rely on.                       *)
StringsRight == MovedWhole /\ ComparedToEnd
===============================================================================
