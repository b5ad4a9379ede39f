------------------------------- MODULE MCLoader -------------------------------
(***************************************************************************)
(* ModuleLoader on images as modules/link.ld lays them out: the code at    *)
(* address 0 and offset 4, then a page of data, a page of constants and    *)
(* the tables.                                                             *)
(***************************************************************************)
EXTENDS ModuleLoader

Section(name, at, offset, holds) ==
    [name |-> name, at |-> at, type |-> IF name = <<>> THEN "NULL" ELSE "PROGBITS",
     offset |-> offset, size |-> IF name = <<>> THEN 0 ELSE 1 + Len(holds), holds |-> holds]

Global(name, type, index, value) ==
    [name |-> name, bind |-> "GLOBAL", type |-> type, index |-> index, value |-> value]
Delimiters ==
    << Global(<<"__module_", "rx_start">>, "NOTYPE", 1, 0), Global(<<"__module_", "rx_end">>, "NOTYPE", 1, 4),
       Global(<<"__module_", "rw_start">>, "NOTYPE", 2, 4), Global(<<"__module_", "rw_end">>, "NOTYPE", 2, 8),
       Global(<<"__module_", "ro_start">>, "NOTYPE", 3, 8), Global(<<"__module_", "ro_end">>, "NOTYPE", 3, 12) >>

(* A module that defines export in its code and refers to import: word 4   *)
(* of the data points into the data, word 8 is the import's entry of the   *)
(* global offset table and word 5 the address of a word after the export.  *)
Plain ==
    [export |-> <<"f">>, import |-> <<"k">>, delimiters |-> TRUE, index |-> 1, far |-> 0,
     fails |-> {}, signed |-> TRUE, ok |-> TRUE, symtab |-> TRUE, strange |-> FALSE]
Image(o) ==
    LET dynsym == << [name |-> <<>>, at |-> 0, index |-> 0, value |-> 0],
                     [name |-> o.import, at |-> 1 + o.far, index |-> 0, value |-> 0],
                     [name |-> o.export, at |-> 2, index |-> 1, value |-> 2] >>
        rela == << [type |-> "RELATIVE", offset |-> 8, sym |-> 0, addend |-> 5],
                   [type |-> IF o.strange THEN "COPY" ELSE "GLOB_DAT", offset |-> 8, sym |-> 1, addend |-> 0],
                   [type |-> "64", offset |-> 5, sym |-> 2, addend |-> 1],
                   [type |-> "JUMP_SLOT", offset |-> 9, sym |-> 1, addend |-> 0] >>
        symbols == << [name |-> <<"source">>, bind |-> "LOCAL", type |-> "FILE", index |-> 60000, value |-> 0],
                     Global(o.export, "FUNC", o.index, 2), Global(o.import, "NOTYPE", 0, 0) >>
        dynamic == << [tag |-> "SONAME", val |-> 1],
                      [tag |-> "INIT_ARRAY", val |-> [ptr |-> 1, holds |-> <<"init1", "init2">>]],
                      [tag |-> "INIT_ARRAYSZ", val |-> 2],
                      [tag |-> "FINI_ARRAYSZ", val |-> 1],
                      [tag |-> "FINI_ARRAY", val |-> [ptr |-> 3, holds |-> <<"fini1">>]] >>
    IN  [ok |-> o.ok, rel |-> FALSE, size |-> 50, shoff |-> 40, names |-> 39,
         signed |-> o.signed, fails |-> o.fails,
         sections |->
           << Section(<<>>, 39, 0, <<>>),
              Section(<<".text">>, 40, 4, <<>>),
              Section(<<".data">>, 41, 8, <<>>),
              Section(<<".ro", "data">>, 42, 12, <<>>),
              Section(<<".dyn", "amic">>, 43, 16, dynamic),
              Section(<<".dyn", "sym">>, 44, 22, dynsym),
              Section(<<".dyn", "str">>, 45, 26, <<1, 2>>),
              Section(<<".rela", ".dyn">>, 46, 29, rela),
              Section(<<IF o.symtab THEN ".sym" ELSE ".other", "tab">>, 47, 34,
                      symbols \o IF o.delimiters THEN Delimiters ELSE <<>>),
              Section(<<".str", "tab">>, 48, 38, <<>>) >>]

MCImages ==
    {Image(o) : o \in
        {Plain, [Plain EXCEPT !.export = <<"g">>, !.import = <<"f">>],
         [Plain EXCEPT !.delimiters = FALSE], [Plain EXCEPT !.delimiters = FALSE, !.export = <<"k">>, !.import = <<"l">>],
         [Plain EXCEPT !.export = <<"k", "2">>],
         [Plain EXCEPT !.index = 60000], [Plain EXCEPT !.delimiters = FALSE, !.index = 60000],
         [Plain EXCEPT !.signed = FALSE], [Plain EXCEPT !.ok = FALSE],
         [Plain EXCEPT !.symtab = FALSE], [Plain EXCEPT !.strange = TRUE],
         [Plain EXCEPT !.far = 40], [Plain EXCEPT !.fails = {"init2"}],
         [Plain EXCEPT !.import = <<"missing">>]}}
MCKernel == {<<<<"k">>, 10>>, <<<<"l">>, 11>>}

-------------------------------------------------------------------------------
(* module_load verifies a module before it uses it: nothing of a module    *)
(* that is not signed by the kernel's key is relocated, bound, listed,     *)
(* made executable or run.                                                 *)
VerifiedFirst ==
    \A m \in Modules : ~image[m].signed =>
        /\ words[m] = [a \in {} |-> 0]
        /\ ran[m] = <<>>
        /\ \A b \in table : Owner(b[2]) # m
        /\ m \notin {Module_List[k] : k \in DOMAIN Module_List}
        /\ \A p \in DOMAIN attrs[m] : attrs[m][p] = "W"

Listed == {Module_List[k] : k \in DOMAIN Module_List}
Between == pc \in {"map", "done"}
ExportedNames(m) ==
    LET symbols == Exported(m) IN {symbols[k].name : k \in DOMAIN symbols}

(* Between two modules the symbol table holds no more bindings of a name   *)
(* than the kernel and the listed modules define: what a failed module_-   *)
(* load inserted it has removed.  And a symbol of the kernel is missing    *)
(* from a table in use only when a module that names it was abandoned:     *)
(* module_remove_symbols takes away what the module imports with what it   *)
(* exports, and nothing else does.                                         *)
RolledBack ==
    /\ Between => \A name \in Names :
          Cardinality(Bound(name)) <=
              Cardinality({m \in Listed : name \in ExportedNames(m)})
              + Cardinality({b \in Kernel : b[1] = name})
    /\ alive /\ Between /\ (pc = "done" => modules_status = "Ok") =>
          \A b \in Kernel : Bound(b[1]) = {} =>
              \E m \in Modules \ Listed : m < i /\ b[1] \in GlobalNames(m)

(* A word of a listed module that was resolved through the symbol table    *)
(* points into the kernel, into a module that is on the list, or into one  *)
(* that shares a name with another definition: only then may its rollback  *)
(* have taken the other's binding and left its own.  Every module on the   *)
(* list has all of its pages unless it failed after module_load had        *)
(* returned; only those are left on the list with a page given back.       *)
Shared(m) ==
    \E name \in ExportedNames(m) :
        \/ \E b \in Kernel : b[1] = name
        \/ \E n \in Modules \ {m} : name \in ExportedNames(n)
ReferencesLive ==
    \A m \in Listed :
        /\ \A a \in DOMAIN words[m] : 
                LET o == Owner(words[m][a]) IN o = 0 \/ o \in Listed \/ Shared(o)
        /\ DOMAIN attrs[m] = PagesOf(m) \/ m \in late

(* The reference for a relocation, from the x86-64 ABI: the import is the  *)
(* address of a definition of its name, the word after the export is       *)
(* inside the module's own code, and the constants' words are writable     *)
(* until they are filled in.  RELATIVE words are left out: the code writes *)
(* them base bytes before their place.                                     *)
Definitions(name) ==
    {b[2] : b \in {c \in Kernel : c[1] = name}}
        \cup {Start(m) + 4 + 2 : m \in {n \in Modules : name \in ExportedNames(n)}}
Relocated ==
    \A m \in Listed :
        LET dynsym == elf_get_section(image[m], <<".dyn", "sym">>).holds
        IN  /\ {4 + 5, 4 + 8, 4 + 9} \subseteq DOMAIN words[m]
            /\ words[m][4 + 8] \in Definitions(dynsym[2].name)
            /\ words[m][4 + 9] \in Definitions(dynsym[2].name)
            /\ words[m][4 + 5] = Start(m) + 4 + dynsym[3].value + 1

(* A function of a module runs only when the module's code is executable   *)
(* and cannot be written, its data is writable and its constants are       *)
(* read-only; a module that loaded stays so.                               *)
Ready(m) ==
    \A p \in 1 .. 3 : p \in DOMAIN attrs[m] /\ attrs[m][p] = <<"X", "W", "R">>[p]
PermissionsSet == \A m \in Modules : ran[m] # <<>> => Ready(m)

(* The init functions run in order, once, up to the first that fails; the  *)
(* fini functions run only after that, twice: elf_run_init and then        *)
(* modules_init run them.                                                  *)
InitThenFini ==
    \A m \in Modules : ran[m] \in
        IF image[m].fails = {} THEN {<<>>, <<"init1", "init2">>}
                               ELSE {<<>>, <<"init1", "init2", "fini1", "fini1">>}

(* modules_init reports Ok exactly when every module was loaded, made      *)
(* ready and initialised, and only then is the symbol table kept.          *)
StatusHonest ==
    pc = "done" /\ i > mods_count =>
        /\ (modules_status = "Ok") =
               \A m \in Modules : m \in Listed \ late /\ ran[m] = <<"init1", "init2">> /\ Ready(m)
        /\ alive = (modules_status = "Ok")

(* What elf_relocate wrote into a module on the list is what the ABI asks  *)
(* for, and still points to something loaded.                              *)
ReferencesRight == ReferencesLive /\ Relocated

(* The functions of a module run on pages made ready for them, in the      *)
(* order of their arrays.                                                  *)
RunsWhenReady == PermissionsSet /\ InitThenFini
===============================================================================
