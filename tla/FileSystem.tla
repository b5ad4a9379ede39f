------------------------------- MODULE FileSystem -----------------------------
(***************************************************************************)
(* The tree of files: core/file.c, with the calls of keyboard_init and     *)
(* vga_init.  file_attach gets room for children from krealloc, which      *)
(* returns NULL for a block that is NULL, as the children of a new file    *)
(* are.                                                                    *)
(***************************************************************************)
EXTENDS Integers, Sequences, FiniteSets

CONSTANT Nodes          \* files besides Root

Root == "Root"

VARIABLES
    child_capacity, child_count,
    children,           \* for each file the block of its children, <<>> for NULL
    ref_count,
    broken,             \* a store through NULL
    tried               \* history: parents of an attach that was refused

files == <<child_capacity, child_count, children, ref_count, broken, tried>>
Files == Nodes \cup {Root}

FileSystemInit ==
    /\ child_capacity = [f \in Files |-> 0] /\ child_count = [f \in Files |-> 0]
    /\ children = [f \in Files |-> <<>>]
    /\ ref_count = [f \in Files |-> 1]
    /\ broken = FALSE /\ tried = {}

kreallocAlways(block, size) == {[k \in 1 .. size |-> IF k \in DOMAIN block THEN block[k] ELSE Root]}
krealloc(block, size) ==
    IF block = <<>> THEN {<<>>}
    ELSE {<<>>, [k \in 1 .. size |-> IF k \in DOMAIN block THEN block[k] ELSE Root]}

(* file_attach, for a child whose name is valid.  The capacity is raised   *)
(* before the memory is there.                                             *)
Store(parent, child, block) ==
    IF child_count[parent] + 1 \in DOMAIN block
    THEN /\ children' = [children EXCEPT ![parent] = [block EXCEPT ![child_count[parent] + 1] = child]]
         /\ child_count' = [child_count EXCEPT ![parent] = @ + 1]
         /\ ref_count' = [ref_count EXCEPT ![parent] = @ + 1]
         /\ UNCHANGED <<broken, tried>>
    ELSE broken' = TRUE /\ UNCHANGED <<children, child_count, ref_count, tried>>
file_attach(parent, child) ==
    IF child_capacity[parent] = child_count[parent]
    THEN /\ child_capacity' = [child_capacity EXCEPT ![parent] = @ + 10]
         /\ \E block \in krealloc(children[parent], child_capacity'[parent]) :
               IF block = <<>>
               THEN tried' = tried \cup {parent} /\ UNCHANGED <<children, child_count, ref_count, broken>>
               ELSE Store(parent, child, block)
    ELSE Store(parent, child, children[parent]) /\ UNCHANGED child_capacity

FileAttach(parent, child) == ~broken /\ parent # child /\ file_attach(parent, child)

(* file_detach releases the parent. *)
FileDetach(parent, child) ==
    /\ ~broken
    /\ IF \E k \in 1 .. child_count[parent] : children[parent][k] = child
       THEN LET k == CHOOSE j \in 1 .. child_count[parent] : children[parent][j] = child
            IN  /\ child_count' = [child_count EXCEPT ![parent] = @ - 1]
                /\ children' = [children EXCEPT ![parent][k] = @[child_count[parent]]]
                /\ ref_count' = [ref_count EXCEPT ![parent] = @ - 1]
       ELSE UNCHANGED <<child_count, children, ref_count>>
    /\ UNCHANGED <<child_capacity, broken, tried>>

(* file_attach_path("/dev/", child): file_from_path compares no character  *)
(* of the first component, so that any child of Root will do, and all of   *)
(* the rest with its slash for the second, so that none will.              *)
FileAttachPath ==
    /\ ~broken
    /\ ref_count' = IF child_count[Root] = 0 THEN ref_count
                    ELSE [ref_count EXCEPT ![children[Root][1]] = @ + 1]
    /\ UNCHANGED <<child_capacity, child_count, children, broken, tried>>

FileSystemNext ==
    \/ FileAttachPath
    \/ \E child \in Nodes, parent \in Files : FileAttach(parent, child) \/ FileDetach(parent, child)

FileSystemSpec == FileSystemInit /\ [][FileSystemNext]_files

-------------------------------------------------------------------------------
(* No file ever gets a child: the first file_attach to a parent is refused *)
(* as if memory were short, and the next one, which takes the raised       *)
(* capacity for room, stores through NULL.                                 *)
NothingAttached ==
    /\ \A f \in Files : child_count[f] = 0 /\ ref_count[f] = 1
    /\ broken => tried # {}
===============================================================================
