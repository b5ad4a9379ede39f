------------------------------ MODULE ModuleLoader ----------------------------
(***************************************************************************)
(* Loading of modules at boot: modules_init and module_load of             *)
(* kernel/core/module.c with the symbol table of kernel/core/symbols.c.    *)
(* Images are read by the operators of Elf.  Every allocation may fail.    *)
(* The symbol table is what MultiMap promises: a name may have several     *)
(* bindings, a look-up gives any of them and a removal takes any of them;  *)
(* hashtable_remove faults when there is none.                             *)
(***************************************************************************)
EXTENDS Elf

CONSTANTS
    Images,     \* with signed: what module_verify finds at the end of the file
    mods_count, \* modules that the boot loader passes
    Kernel,     \* <<name, location>> of the kernel's own symbols
    Page        \* Page_Small, in units of Elf

VARIABLES
    image,      \* the file of each module
    pc, i,      \* where modules_init is, and its loop counter
    table,      \* bindings of the symbol table, <<name, location>>
    alive,      \* symbol_table is not destroyed
    Module_List,
    attrs,      \* of the pages that are mapped, by module
    words,      \* relocated words of each module
    ran,        \* history: module functions called
    late,       \* history: modules that failed after module_load returned Ok
    modules_status

loader == <<image, pc, i, table, alive, Module_List, attrs, words, ran, late, modules_status>>
fixed == <<image, attrs, ran, late>>

Modules == 1 .. mods_count
Start(m) == 100 * m
Owner(location) == location \div 100
Names == {b[1] : b \in table}

(* symbol_get with the table as it is. *)
Bound(name) == {b[2] : b \in {c \in table : c[1] = name}}
Lookups(names) ==
    {f \in [names -> {b[2] : b \in table} \cup {NULL}] :
        \A n \in names : IF Bound(n) = {} THEN f[n] = NULL ELSE f[n] \in Bound(n)}

symtab(m) == elf_get_section(image[m], <<".sym", "tab">>)
Globals(m) ==
    LET symbols == symtab(m)
    IN  IF elf_get_section(image[m], <<".str", "tab">>) = NULL \/ symbols = NULL THEN <<>>
        ELSE SelectSeq(symbols.holds, LAMBDA s : s.bind = "GLOBAL")
Exported(m) == SelectSeq(Globals(m), LAMBDA s : s.type \in {"FUNC", "OBJECT"})
GlobalNames(m) ==
    LET symbols == Globals(m) IN {symbols[k].name : k \in DOMAIN symbols}

LoaderInit ==
    /\ image \in [Modules -> Images]
    /\ pc = "symbols" /\ i = 1
    /\ table = {} /\ alive = FALSE
    /\ Module_List = <<>>
    /\ attrs = [m \in Modules |-> [p \in {} |-> "W"]]
    /\ words = [m \in Modules |-> [a \in {} |-> 0]]
    /\ ran = [m \in Modules |-> <<>>]
    /\ late = {}
    /\ modules_status = "Ok"

-------------------------------------------------------------------------------
(* symbol_init: without memory for the table, or for its growth, modules_- *)
(* init returns at once.  The put that could not grow the table leaves its *)
(* binding; those before it are removed and the table is kept.             *)
SymbolInit ==
    /\ pc = "symbols"
    /\ \/ pc' = "list" /\ alive' = TRUE /\ table' = Kernel /\ UNCHANGED modules_status
       \/ /\ pc' = "done" /\ modules_status' = "Error_No_Memory"
          /\ \/ UNCHANGED <<alive, table>>
             \/ \E b \in Kernel : alive' = TRUE /\ table' = {b}
    /\ UNCHANGED <<fixed, i, Module_List, words>>

(* The page with the list of modules; without it symbol_fini is called. *)
MapList ==
    /\ pc = "list"
    /\ \/ pc' = "map" /\ UNCHANGED <<modules_status, alive>>
       \/ pc' = "done" /\ modules_status' = "Error_No_Memory" /\ alive' = FALSE
    /\ UNCHANGED <<fixed, i, table, Module_List, words>>

PagesOf(m) == 0 .. (image[m].size + Page - 1) \div Page - 1

MapModule ==
    /\ pc = "map" /\ i <= mods_count
    /\ \/ /\ attrs' = [attrs EXCEPT ![i] = [p \in PagesOf(i) |-> "W"]]
          /\ pc' = "load"
          /\ UNCHANGED <<i, modules_status>>
       \/ /\ i' = i + 1
          /\ modules_status' = "Error_Invalid"
          /\ UNCHANGED <<pc, attrs>>
    /\ UNCHANGED <<image, table, alive, Module_List, words, ran, late>>

(* The end of an iteration that failed: slab_free gives one page back. *)
Give(m) == [attrs EXCEPT ![m] = [p \in DOMAIN @ \ {0} |-> @[p]]]
Abandon(status) ==
    /\ attrs' = Give(i)
    /\ modules_status' = status
    /\ pc' = "map" /\ i' = i + 1

(* elf_verify and module_verify; the module's name is only logged. *)
VerifyLate ==
    /\ pc = "load"
    /\ IF elf_verify(image[i]) THEN pc' = "relocate" /\ UNCHANGED <<attrs, i, modules_status>>
                               ELSE Abandon("Error_Invalid")
    /\ UNCHANGED <<image, table, alive, Module_List, words, ran, late>>
Verify ==
    /\ pc = "load"
    /\ IF elf_verify(image[i]) /\ image[i].signed
       THEN pc' = "relocate" /\ UNCHANGED <<attrs, i, modules_status>>
       ELSE Abandon("Error_Invalid")
    /\ UNCHANGED <<image, table, alive, Module_List, words, ran, late>>

(* The names that the relocations of module m look up. *)
Wanted(m) ==
    LET dynsym == elf_get_section(image[m], <<".dyn", "sym">>)
    IN  IF dynsym = NULL THEN {}
        ELSE {dynsym.holds[k].name : k \in {j \in DOMAIN dynsym.holds : dynsym.holds[j].index = SHN_UNDEF}}

Relocate ==
    /\ pc = "relocate"
    /\ \E get \in Lookups(Wanted(i)) :
          LET r == elf_relocate(image[i], Start(i), get)
          IN  /\ words' = [words EXCEPT ![i] = r.words]
              /\ IF r.status = "Ok" THEN pc' = "insert" /\ UNCHANGED <<attrs, i, modules_status>>
                                    ELSE Abandon(r.status)
    /\ UNCHANGED <<image, table, alive, Module_List, ran, late>>

(* module_remove_symbols removes every global symbol, also those that      *)
(* module_insert_symbols passes over or had not come to.                   *)
RemoveSymbols(bindings, status) ==
    LET names == GlobalNames(i)
        Of(n) == {b \in bindings : b[1] = n}
    IN  IF \E n \in names : Of(n) = {}
        THEN pc' = "fault" /\ table' = bindings /\ UNCHANGED <<attrs, i, modules_status>>
        ELSE /\ \E taken \in [names -> bindings] :
                   /\ \A n \in names : taken[n] \in Of(n)
                   /\ table' = bindings \ {taken[n] : n \in names}
             /\ Abandon(status)

Binding(s) ==
    LET section == elf_get_section_index(image[i], s.index)
    IN  <<s.name, Start(i) + section.offset + s.value>>

(* A put that cannot grow the table reports it after it has added the      *)
(* binding; a symbol without a section stops the insertion before its own. *)
InsertSymbols ==
    LET exported == Exported(i)
        bad == {k \in DOMAIN exported : elf_get_section_index(image[i], exported[k].index) = NULL}
        upto(k) == table \cup {Binding(exported[j]) : j \in 1 .. k}
    IN  /\ pc = "insert"
        /\ \/ /\ symtab(i) = NULL \/ elf_get_section(image[i], <<".str", "tab">>) = NULL
              /\ Abandon("Error_Invalid")
              /\ UNCHANGED table
           \/ \E k \in bad :
                 /\ \A j \in bad : k <= j
                 /\ RemoveSymbols(upto(k - 1), "Error_Invalid")
           \/ \E k \in DOMAIN exported :
                 /\ \A j \in bad : k < j
                 /\ RemoveSymbols(upto(k), "Error_No_Memory")
           \/ /\ symtab(i) # NULL /\ elf_get_section(image[i], <<".str", "tab">>) # NULL
              /\ bad = {}
              /\ table' = upto(Len(exported))
              /\ pc' = "append"
              /\ UNCHANGED <<attrs, i, modules_status>>
        /\ UNCHANGED <<image, alive, Module_List, words, ran, late>>

ListModuleKeepSymbols ==
    /\ pc = "append"
    /\ \/ Module_List' = <<i>> \o Module_List /\ pc' = "permissions"
          /\ UNCHANGED <<table, attrs, i, modules_status>>
       \/ Abandon("Error_No_Memory") /\ UNCHANGED <<Module_List, table>>
    /\ UNCHANGED <<image, alive, words, ran, late>>
ListModule ==
    /\ pc = "append"
    /\ \/ Module_List' = <<i>> \o Module_List /\ pc' = "permissions"
          /\ UNCHANGED <<table, attrs, i, modules_status>>
       \/ RemoveSymbols(table, "Error_No_Memory") /\ UNCHANGED Module_List
    /\ UNCHANGED <<image, alive, words, ran, late>>

-------------------------------------------------------------------------------
(* The whole allocation, not the file, bounds the delimiters. *)
Delimiter(m, part) ==
    elf_get_symbol_address([image[m] EXCEPT !.size = Page * Cardinality(PagesOf(m))],
                           <<"__module_", part>>)
Parts == {"rw_start", "rw_end", "rx_start", "rx_end", "ro_start", "ro_end"}
Pages(first, last) == first \div Page .. first \div Page + (last - first) \div Page - 1
Update(a, pages, to) == [p \in DOMAIN a |-> IF p \in pages THEN to ELSE a[p]]

(* paging_update_range fails at the first page that is not mapped; then    *)
(* what was changed is made writable again.                                *)
SetPermissions ==
    LET at == [part \in Parts |-> Delimiter(i, part)]
        rw == Pages(at["rw_start"], at["rw_end"])
        rx == Pages(at["rx_start"], at["rx_end"])
        ro == Pages(at["ro_start"], at["ro_end"])
    IN  /\ pc = "permissions"
        /\ IF \E part \in Parts : at[part] = NULL
           THEN Abandon("Error_Permissions") /\ late' = late \cup {i}
           ELSE IF ~(rw \cup rx \cup ro) \subseteq DOMAIN attrs[i]
           THEN Abandon("Error_Absent") /\ late' = late \cup {i}
           ELSE /\ attrs' = [attrs EXCEPT ![i] = Update(Update(Update(@, rw, "W"), rx, "X"), ro, "R")]
                /\ pc' = "init"
                /\ UNCHANGED <<i, modules_status, late>>
        /\ UNCHANGED <<image, table, alive, Module_List, words, ran>>

(* elf_run_init has run the fini table already when it reports a failure;  *)
(* modules_init runs it again.                                             *)
RunInit ==
    /\ pc = "init"
    /\ \E init \in {elf_run_init(image[i], image[i].fails)} :
       \E again \in {elf_run_fini(image[i], image[i].fails)} :
           IF init.status = "Ok"
           THEN /\ ran' = [ran EXCEPT ![i] = init.ran]
                /\ pc' = "map" /\ i' = i + 1
                /\ UNCHANGED <<attrs, modules_status, late>>
           ELSE /\ ran' = [ran EXCEPT ![i] = init.ran \o again.ran]
                /\ Abandon(init.status)
                /\ late' = late \cup {i}
    /\ UNCHANGED <<image, table, alive, Module_List, words>>

FinishForgetful ==
    /\ pc = "map" /\ i > mods_count
    /\ pc' = "done"
    /\ modules_status' = IF Module_List # <<>> THEN "Ok" ELSE modules_status
    /\ alive' = (modules_status = "Ok")
    /\ UNCHANGED <<fixed, i, table, Module_List, words>>
Finish ==
    /\ pc = "map" /\ i > mods_count
    /\ pc' = "done"
    /\ alive' = (modules_status = "Ok")
    /\ UNCHANGED <<fixed, i, table, Module_List, words, modules_status>>

LoaderNext ==
    \/ SymbolInit \/ MapList \/ MapModule
    \/ Verify \/ Relocate \/ InsertSymbols \/ ListModule
    \/ SetPermissions \/ RunInit \/ Finish
===============================================================================
