---------------------------------- MODULE Elf ---------------------------------
(***************************************************************************)
(* The reader of kernel/core/elf.c.  An image is a record; its sizes and   *)
(* offsets are in units of one table entry, and what a section holds is    *)
(* kept with the section:                                                  *)
(*   ok        the magic, version, machine and class fields are right      *)
(*   rel       e_type is ET_REL                                            *)
(*   size      of the file                                                 *)
(*   shoff     where the section headers begin                             *)
(*   sections  a sequence of [name, at, type, offset, size, holds]; name   *)
(*             is a sequence of parts and at where it is in the file       *)
(*   names     where the table of section names is in the file             *)
(* Section i of the code is sections[i + 1].                               *)
(***************************************************************************)
EXTENDS Integers, Sequences, FiniteSets

CONSTANT NULL

LOCAL S == INSTANCE SequencesExt
LOCAL F == INSTANCE FiniteSetsExt

HeaderSize == 1

elf_verify(image) == image.size > HeaderSize /\ image.ok

HeadersInBounds(image) == image.shoff + Len(image.sections) <= image.size

elf_get_section_index(image, index) ==
    IF ~HeadersInBounds(image) THEN NULL
    ELSE IF image.shoff + index < image.size THEN image.sections[index + 1]
    ELSE NULL

(* strncmp with the length of the name looked for: the first section whose *)
(* name begins with it.                                                    *)
Begins(whole, name) == S!IsPrefix(name, whole)
Named(image, name) ==
    {i \in DOMAIN image.sections :
        image.sections[i].at < image.size /\ Begins(image.sections[i].name, name)}
IfInside(section, size) == IF section.offset > size THEN NULL ELSE section
elf_get_section(image, name) ==
    LET found == Named(image, name)
    IN  IF ~HeadersInBounds(image) \/ image.names >= image.size \/ found = {} THEN NULL
        ELSE IfInside(image.sections[F!Min(found)], image.size)

(* The lowest offset of a section; the image's addresses count from there. *)
elf_get_base_address(image) ==
    LET offsets == {image.sections[i].offset :
                       i \in {j \in DOMAIN image.sections : image.sections[j].type # "NULL"}}
    IN  IF ~HeadersInBounds(image) \/ offsets = {} THEN NULL
        ELSE F!Min(offsets)

-------------------------------------------------------------------------------
(* elf_relocate writes words into the image, in the order of the table,    *)
(* and stops at the first entry it cannot resolve: the result has the      *)
(* words written so far.  get is symbol_get.  The name of an undefined     *)
(* symbol, at sym.at in .dynstr, is bounded as if it were in .dynsym.      *)
SHN_UNDEF == 0

(* Where an entry writes: RELATIVE counts from the start of the file, the  *)
(* others from the base.                                                   *)
Slot(r, base) == IF r.type = "RELATIVE" THEN r.offset ELSE base + r.offset

RelocateOne(st, r, image, dynsym, base, start, get) ==
    LET sym == dynsym.holds[r.sym + 1]
        value == IF r.type = "RELATIVE" THEN start + base + r.addend
                 ELSE IF sym.index = SHN_UNDEF THEN get[sym.name]
                 ELSE start + base + sym.value + (IF r.type = "64" THEN r.addend ELSE 0)
        write == [st EXCEPT !.words = [a \in DOMAIN @ \cup {Slot(r, base)} |->
                                          IF a = Slot(r, base) THEN value ELSE @[a]]]
        fail == [st EXCEPT !.status = "Error_Invalid"]
    IN  IF st.status # "Ok" THEN st
        ELSE IF r.type = "RELATIVE" THEN write
        ELSE IF r.type \notin {"JUMP_SLOT", "GLOB_DAT", "64"} THEN fail
        ELSE IF dynsym.offset + r.sym + 1 > image.size THEN fail
        ELSE IF sym.index = SHN_UNDEF /\ dynsym.offset + sym.at > image.size THEN fail
        ELSE IF value = NULL THEN fail
        ELSE write

elf_relocate(image, start, get) ==
    LET dynstr == elf_get_section(image, <<".dyn", "str">>)
        rela == elf_get_section(image, <<".rela", ".dyn">>)
        dynsym == elf_get_section(image, <<".dyn", "sym">>)
        base == elf_get_base_address(image)
        none == [a \in {} |-> 0]
    IN  IF dynstr = NULL \/ rela = NULL \/ dynsym = NULL \/ base = NULL
        THEN [status |-> "Error_Invalid", words |-> none]
        ELSE S!FoldLeft(LAMBDA st, r : RelocateOne(st, r, image, dynsym, base, start, get),
                        [status |-> "Ok", words |-> none], rela.holds)

-------------------------------------------------------------------------------
(* elf_run_init and elf_run_fini: the functions of the table that the      *)
(* dynamic entries of the two tags describe, up to the first that fails;   *)
(* a linker writes each tag once.                                          *)
Upto(funcs, fails) ==
    LET bad == {i \in DOMAIN funcs : funcs[i] \in fails}
    IN  IF bad = {} THEN funcs
        ELSE SubSeq(funcs, 1, F!Min(bad))

Entry(dynamic, tag) ==
    LET with == S!SelectSeq(dynamic.holds, LAMBDA e : e.tag = tag)
    IN  IF with = <<>> THEN NULL ELSE with[1].val
Outcome(ran, fails) ==
    [status |-> IF ran # <<>> /\ ran[Len(ran)] \in fails THEN "Error_Invalid" ELSE "Ok", ran |-> ran]
CallAll(funcs, count, base, size, fails) ==
    IF funcs = NULL \/ count = NULL THEN [status |-> "Ok", ran |-> <<>>]
    ELSE IF base + funcs.ptr + count > size THEN [status |-> "Error_Invalid", ran |-> <<>>]
    ELSE Outcome(Upto(funcs.holds, fails), fails)
RunTable(image, array, size, fails) ==
    LET dynamic == elf_get_section(image, <<".dyn", "amic">>)
        base == elf_get_base_address(image)
    IN  IF dynamic = NULL \/ base = NULL THEN [status |-> "Error_Invalid", ran |-> <<>>]
        ELSE CallAll(Entry(dynamic, array), Entry(dynamic, size), base, image.size, fails)

elf_run_fini(image, fails) == RunTable(image, "FINI_ARRAY", "FINI_ARRAYSZ", fails)
elf_run_initAlone(image, fails) == RunTable(image, "INIT_ARRAY", "INIT_ARRAYSZ", fails)
elf_run_init(image, fails) ==
    LET init == RunTable(image, "INIT_ARRAY", "INIT_ARRAYSZ", fails)
    IN  IF init.status = "Ok" THEN init
        ELSE [init EXCEPT !.ran = @ \o elf_run_fini(image, fails).ran]

(* The address of the first symbol whose name begins with the given one;   *)
(* every symbol before it must have a section.                             *)
elf_get_symbol_address(image, name) ==
    LET strtab == elf_get_section(image, <<".str", "tab">>)
        symtab == elf_get_section(image, <<".sym", "tab">>)
        base == elf_get_base_address(image)
        candidates == S!SelectSeq(symtab.holds, LAMBDA s : s.type # "FILE")
        hits == {i \in DOMAIN candidates : Begins(candidates[i].name, name)}
        hit == F!Min(hits)
    IN  IF strtab = NULL \/ symtab = NULL \/ base = NULL \/ hits = {} THEN NULL
        ELSE IF \E i \in 1 .. hit : elf_get_section_index(image, candidates[i].index) = NULL THEN NULL
        ELSE IF base + candidates[hit].value > image.size THEN NULL
        ELSE base + candidates[hit].value
===============================================================================
