------------------------------ MODULE MCServices ------------------------------
(***************************************************************************)
(* The services around the core, each on its own: the loading of modules,  *)
(* the cryptographic library that verifies them, the console with the      *)
(* interrupts, the random numbers, the processes, the files, the memory    *)
(* map at boot, the tool that signs modules, formatted output, the clock   *)
(* and the byte loops of strings.  They share no state here, so a          *)
(* behaviour follows one of them, chosen at the start, and the others stay *)
(* in one initial state.                                                   *)
(***************************************************************************)
EXTENDS MCLoader, MCCrypto, Console, Random, Process, FileSystem, BootMemory,
        Truesign, Format, Clock, CString

VARIABLE focus

vars == <<focus, loader, call, console, random, process, files, bootmemory, truesign,
          format, rtc, strings>>

Followed == {"modules", "crypto", "console", "random", "process", "files", "memory", "tool",
             "format", "clock", "strings"}
(* The greatest and least numbers of a byte and of two, and those where a  *)
(* decimal digit is lost; strings that leave the buffer empty, one short   *)
(* of full, full, and more than twice full.                                *)
MCArguments == {-32768, -100, -1, 0, 99, 100, 127, 9999, 32767}
MCStrings == {[k \in 1 .. n |-> "s"] : n \in {0, 1, 15, 16, 33}}
MCChars == {-2, 0, 1}
OneImage == CHOOSE image0 \in MCImages : TRUE
Init ==
    /\ focus \in Followed
    /\ LoaderInit /\ CryptoInit /\ ConsoleInit /\ RandomInit /\ ProcessInit /\ FileSystemInit
    /\ TruesignInit /\ FormatInit /\ ClockInit /\ CStringInit
    /\ focus # "clock" => clock = Minute * Hour - 2
    /\ focus # "strings" => bytes = [k \in Address |-> k]
    /\ focus # "modules" => \A m \in Modules : image[m] = OneImage
    /\ IF focus = "memory" THEN BootMemoryInit
       ELSE mmap = <<>> /\ usable = <<>> /\ reserved = <<>> /\ given = <<>>

FollowModules ==
    focus = "modules" /\ LoaderNext
        /\ UNCHANGED <<focus, call, console, random, process, files,
                       bootmemory, truesign, format, rtc, strings>>
FollowCrypto ==
    focus = "crypto" /\ CryptoNext
        /\ UNCHANGED <<focus, loader, console, random, process, files,
                       bootmemory, truesign, format, rtc, strings>>
FollowConsole ==
    focus = "console" /\ ConsoleNext
        /\ UNCHANGED <<focus, loader, call, random, process, files,
                       bootmemory, truesign, format, rtc, strings>>
FollowRandom ==
    focus = "random" /\ RandomNext
        /\ UNCHANGED <<focus, loader, call, console, process, files,
                       bootmemory, truesign, format, rtc, strings>>
FollowProcess ==
    focus = "process" /\ ProcessNext
        /\ UNCHANGED <<focus, loader, call, console, random, files,
                       bootmemory, truesign, format, rtc, strings>>
FollowFiles ==
    focus = "files" /\ FileSystemNext
        /\ UNCHANGED <<focus, loader, call, console, random, process,
                       bootmemory, truesign, format, rtc, strings>>
FollowMemory ==
    focus = "memory" /\ InsertRegion
        /\ UNCHANGED <<focus, loader, call, console, random, process,
                       files, truesign, format, rtc, strings>>
FollowTool ==
    focus = "tool" /\ TruesignNext
        /\ UNCHANGED <<focus, loader, call, console, random, process,
                       files, bootmemory, format, rtc, strings>>
FollowFormat ==
    focus = "format" /\ FormatNext
        /\ UNCHANGED <<focus, loader, call, console, random, process,
                       files, bootmemory, truesign, rtc, strings>>
FollowClock ==
    focus = "clock" /\ ClockNext
        /\ UNCHANGED <<focus, loader, call, console, random, process,
                       files, bootmemory, truesign, format, strings>>
FollowStrings ==
    focus = "strings" /\ CStringNext
        /\ UNCHANGED <<focus, loader, call, console, random, process,
                       files, bootmemory, truesign, format, rtc>>

Next ==
    \/ FollowModules \/ FollowCrypto \/ FollowConsole \/ FollowRandom
    \/ FollowProcess \/ FollowFiles \/ FollowMemory \/ FollowTool
    \/ FollowFormat \/ FollowClock \/ FollowStrings

Spec == Init /\ [][Next]_vars
===============================================================================
