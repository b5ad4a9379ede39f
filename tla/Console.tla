-------------------------------- MODULE Console -------------------------------
(***************************************************************************)
(* The VGA console, the log that is copied to it, the keyboard that echoes *)
(* on it, and the interrupt path in between: device/vga.c, device/         *)
(* serial.c, core/log.c, device/ps2_keyboard.c, arch/x64/interrupts.c and  *)
(* arch/x64/pic.c.                                                         *)
(*                                                                         *)
(* One processor.  Code outside interrupts starts the devices in the order *)
(* of kernel_main and then writes to the console, one statement of         *)
(* vga_putc_unlocked at a time; interrupts come between any two of them    *)
(* and run to their end with interrupts off.  VGA_Cursor_Row is the        *)
(* position in a line and VGA_Cursor_Column the line, as in the code.      *)
(*                                                                         *)
(* The lock of the console is what Lock shows of a lock without readers:   *)
(* who finds it taken never gets it.                                       *)
(***************************************************************************)
EXTENDS Integers, Sequences, FiniteSets

CONSTANTS
    VGA_Width, VGA_Height, VGA_Tab_Size,
    Interrupt_Handlers_Count,
    Lines,      \* interrupt request lines that devices raise
    Limit       \* bound on characters written and on interrupts

VARIABLES
    screen,     \* [row, column, cells]: the cursor and VGA_Framebuffer, NULL before vga_init
    console_lock,   \* VGA.obj.lock
    log_enabled,
    dispatch,   \* Interrupt_Dispatch: for each line, its slots
    shift_held,
    requested, in_service,      \* the two interrupt controllers
    task,       \* the code outside interrupts: [at, text, todo, index]
    stopped,    \* why nothing runs any more: "no", "spin", "fault" or "assert"
    shown,      \* history: characters put on the console, in order
    torn        \* history: a character was put inside another

console == <<screen, console_lock, log_enabled, dispatch, shift_held, requested, in_service,
             task, stopped, shown, torn>>

Unmapped == <<>>
Cells == 0 .. VGA_Width * VGA_Height + VGA_Tab_Size - 1     \* within the page of VGA_Framebuffer_Size
Blank == " "
FREE == "none"                                              \* no handler in a slot

ConsoleInit ==
    /\ screen = [row |-> 0, column |-> 0, cells |-> Unmapped]
    /\ console_lock = FALSE /\ log_enabled = FALSE
    /\ dispatch = [l \in Lines |-> [s \in 1 .. Interrupt_Handlers_Count |-> FREE]]
    /\ shift_held = FALSE
    /\ requested = {} /\ in_service = {}
    /\ task = [at |-> "interrupts_init", text |-> <<>>, todo |-> <<>>, index |-> 0]
    /\ stopped = "no" /\ shown = <<>> /\ torn = FALSE

-------------------------------------------------------------------------------
(* vga_putc_unlocked, one statement at a time.  The first computes the     *)
(* index and decides what is left to do; the others change the screen, and *)
(* two of them add further statements.                                     *)
Statements(names) == [k \in DOMAIN names |-> [op |-> names[k], y |-> 0]]
Plan(c, s) ==
    Statements(IF c = "\n" \/ (c = "\t" /\ s.column + VGA_Tab_Size >= VGA_Width)
               THEN <<"row=0", "column++", "full?">>
               ELSE IF c = "\t" THEN <<"blank", "column++", "full?">>
               ELSE <<"draw", "row++", "wrap?", "full?">>)

Index(s) == s.column * VGA_Width + s.row
OnScreen(index) == index < VGA_Width * VGA_Height

(* vga_scroll_up_line, a line at a time. *)
ScrollingKeepsLast ==
    Statements(<<"scroll">>) \o [k \in 1 .. VGA_Height - 1 |-> [op |-> "copy", y |-> k - 1]]
Scrolling ==
    Statements(<<"scroll">>) \o [k \in 1 .. VGA_Height - 1 |-> [op |-> "copy", y |-> k - 1]]
        \o Statements(<<"clear last">>)
Added(op, s) ==
    IF op.op = "wrap?" /\ s.row = 0 THEN Statements(<<"column++">>)
    ELSE IF op.op = "full?" /\ s.column = VGA_Height THEN Scrolling
    ELSE <<>>

Line(s, y) == [x \in 0 .. VGA_Width - 1 |-> s.cells[x + y * VGA_Width]]
SetLine(s, y, line) ==
    [s EXCEPT !.cells = [k \in DOMAIN @ |-> IF k \div VGA_Width = y THEN line[k % VGA_Width] ELSE @[k]]]

Statement(op, s, c, index) ==
    IF op.op = "row=0" THEN [s EXCEPT !.row = 0]
    ELSE IF op.op = "column++" THEN [s EXCEPT !.column = @ + 1]
    ELSE IF op.op = "blank" THEN [s EXCEPT !.cells = [k \in DOMAIN @ |->
                                  IF k \in index .. index + VGA_Tab_Size - 1 THEN Blank ELSE @[k]]]
    ELSE IF op.op = "draw" THEN [s EXCEPT !.cells[index] = c]
    ELSE IF op.op = "row++" THEN [s EXCEPT !.row = (@ + 1) % VGA_Width]
    ELSE IF op.op = "scroll" THEN [s EXCEPT !.row = 0, !.column = VGA_Height - 1]
    ELSE IF op.op = "clear last" THEN SetLine(s, VGA_Height - 1, [x \in 0 .. VGA_Width - 1 |-> Blank])
    ELSE IF op.op = "copy" THEN SetLine(s, op.y, Line(s, op.y + 1))
    ELSE s

RECURSIVE Complete(_, _, _, _)
Complete(todo, s, c, index) ==
    IF todo = <<>> THEN s
    ELSE Complete(Added(Head(todo), s) \o Tail(todo), Statement(Head(todo), s, c, index), c, index)
putc(s, c) == Complete(Plan(c, s), s, c, Index(s))

-------------------------------------------------------------------------------
(* Starting the devices.  interrupts_init clears both masks.               *)
Goto(from, to) == stopped = "no" /\ task.at = from /\ task' = [task EXCEPT !.at = to]

InterruptsInit ==
    /\ Goto("interrupts_init", "keyboard_init")
    /\ UNCHANGED <<screen, console_lock, log_enabled, dispatch, shift_held, requested, in_service,
                   stopped, shown, torn>>

(* interrupt_register_handler: the first free slot. *)
register(l, handler) ==
    LET free == {s \in DOMAIN dispatch[l] : dispatch[l][s] = FREE}
    IN  IF free = {} THEN dispatch
        ELSE [dispatch EXCEPT ![l][CHOOSE s \in free : \A t \in free : s <= t] = handler]

Keyboard == 1
KeyboardInit ==
    /\ Goto("keyboard_init", "vga_init")
    /\ dispatch' = register(Keyboard, "keyboard_handler")
    /\ UNCHANGED <<screen, console_lock, log_enabled, shift_held, requested, in_service,
                   stopped, shown, torn>>

(* vga_init maps the frame buffer, clears it, writes the logo and lets the *)
(* log through.  If there is no address for the mapping, it gives up.      *)
VgaInit ==
    /\ \/ Goto("vga_init", "clear") /\ screen' = [screen EXCEPT !.cells = [k \in Cells |-> "?"]]
       \/ Goto("vga_init", "no console") /\ UNCHANGED screen
    /\ UNCHANGED <<console_lock, log_enabled, dispatch, shift_held, requested, in_service,
                   stopped, shown, torn>>

(* vga_framebuffer_clear, with the lock held: the cells of the screen, not *)
(* the whole page.                                                         *)
VgaLockClear ==
    /\ Goto("clear", "clearing")
    /\ console_lock' = TRUE
    /\ UNCHANGED <<screen, log_enabled, dispatch, shift_held, requested, in_service,
                   stopped, shown, torn>>
VgaClear ==
    /\ Goto("clearing", "logo")
    /\ console_lock' = FALSE
    /\ screen' = [screen EXCEPT !.cells = [k \in Cells |-> IF OnScreen(k) THEN Blank ELSE @[k]]]
    /\ shown' = [k \in DOMAIN shown |-> IF shown[k] \in {"\n", "\t"} THEN shown[k] ELSE Blank]
    /\ UNCHANGED <<log_enabled, dispatch, shift_held, requested, in_service,
                   stopped, torn>>

VgaLogEnable ==
    /\ Goto("log_enable", "idle")
    /\ log_enabled' = TRUE
    /\ UNCHANGED <<screen, console_lock, dispatch, shift_held, requested, in_service,
                   stopped, shown, torn>>

-------------------------------------------------------------------------------
(* vga_puts and vga_write hold the lock for the whole text. *)
StartLocked(from, at, text) ==
    /\ stopped = "no" /\ task.at = from
    /\ task' = [task EXCEPT !.at = at, !.text = text]
    /\ IF console_lock THEN stopped' = "spin" /\ UNCHANGED console_lock
                       ELSE console_lock' = TRUE /\ UNCHANGED stopped
    /\ UNCHANGED <<screen, log_enabled, dispatch, shift_held, requested, in_service,
                   shown, torn>>

VgaPuts == StartLocked("logo", "puts", <<"l", "\n">>)
VgaWrite == \E c \in {"w", "\n", "\t"} : StartLocked("idle", "write", <<c, "w">>)

(* log: each character goes to the serial port and then, without the lock, *)
(* to the console.                                                         *)
Log ==
    /\ stopped = "no" /\ task.at \in {"idle", "no console"} /\ Len(shown) < Limit
    /\ \E c \in {"g", "\n"} : task' = [task EXCEPT !.at = "log", !.text = <<c>>]
    /\ UNCHANGED <<screen, console_lock, log_enabled, dispatch, shift_held, requested, in_service,
                   stopped, shown, torn>>
(* Sent once the port's holding register is empty, which it comes to be. *)
SerialWrite ==
    /\ stopped = "no" /\ task.at = "log"
    /\ task' = IF log_enabled THEN [task EXCEPT !.at = "log put"]
               ELSE [task EXCEPT !.at = "no console", !.text = Tail(@)]
    /\ UNCHANGED <<screen, console_lock, log_enabled, dispatch, shift_held, requested, in_service,
                   stopped, shown, torn>>

Putting == task.at \in {"puts", "write", "log put"}

BeginCharacter ==
    /\ stopped = "no" /\ Putting /\ task.todo = <<>> /\ task.text # <<>>
    /\ Len(shown) < Limit
    /\ IF OnScreen(Index(screen))
       THEN /\ task' = [task EXCEPT !.todo = Plan(Head(task.text), screen), !.index = Index(screen)]
            /\ shown' = Append(shown, Head(task.text))
            /\ UNCHANGED stopped
       ELSE stopped' = "assert" /\ UNCHANGED <<task, shown>>
    /\ UNCHANGED <<screen, console_lock, log_enabled, dispatch, shift_held, requested, in_service,
                   torn>>

DoStatement ==
    /\ stopped = "no" /\ task.todo # <<>>
    /\ LET op == Head(task.todo)
           rest == Added(op, screen) \o Tail(task.todo)
       IN  /\ screen' = Statement(op, screen, Head(task.text), task.index)
           /\ task' = [task EXCEPT !.todo = rest, !.text = IF rest = <<>> THEN Tail(@) ELSE @]
    /\ UNCHANGED <<console_lock, log_enabled, dispatch, shift_held, requested, in_service,
                   stopped, shown, torn>>

EndTextKeepLock ==
    /\ stopped = "no" /\ Putting /\ task.text = <<>>
    /\ task' = [task EXCEPT !.at = IF task.at = "puts" THEN "log_enable" ELSE "idle"]
    /\ UNCHANGED <<screen, console_lock, log_enabled, dispatch, shift_held, requested, in_service,
                   stopped, shown, torn>>
EndText ==
    /\ stopped = "no" /\ Putting /\ task.text = <<>>
    /\ task' = [task EXCEPT !.at = IF task.at = "puts" THEN "log_enable" ELSE "idle"]
    /\ console_lock' = (console_lock /\ task.at = "log put")
    /\ UNCHANGED <<screen, log_enabled, dispatch, shift_held, requested, in_service,
                   stopped, shown, torn>>

-------------------------------------------------------------------------------
(* A device raises its line; the controllers deliver it when nothing of    *)
(* higher or equal priority is in service.                                 *)
Raise ==
    /\ stopped = "no"
    /\ \E l \in Lines \ requested : requested' = requested \cup {l}
    /\ UNCHANGED <<screen, console_lock, log_enabled, dispatch, shift_held, in_service,
                   task, stopped, shown, torn>>

(* Lines 8 to 15 are the second controller's; the first one serves them    *)
(* after its line 1.                                                       *)
Second(l) == l >= 8
Priority(l) == IF Second(l) THEN 2 * 16 + l ELSE IF l <= 2 THEN 16 * l ELSE 16 * 16 + l

Accepted(l) == IF Second(l) THEN {l, 2} ELSE {l}    \* the first is told through its line 2

(* pic_end_of_interrupt ends, on each controller it writes to, the         *)
(* interrupt of highest priority that is in service there.                 *)
PIC1_Offset == 32
PIC2_First_Interrupt == 8
EndHighest(served, chip) ==
    served \ {l \in chip \cap served : \A k \in chip \cap served : Priority(l) <= Priority(k)}
pic_end_of_interrupt(number, served) ==
    LET second == IF number > PIC2_First_Interrupt
                  THEN EndHighest(served, {l \in served : Second(l)}) ELSE served
    IN  EndHighest(second, {l \in second : ~Second(l)})

(* keyboard_handler: shift keys change the state, the others give a        *)
(* character of one of the two maps, or none.                              *)
Codes == {"right shift", "left shift", "right shift up", "left shift up", "a", "enter", "tab", "alt"}
keyboard_map(code, shifted) ==
    IF code = "a" THEN IF shifted THEN "A" ELSE "a"
    ELSE IF code = "enter" THEN "\n" ELSE IF code = "tab" THEN "\t" ELSE ""
Shift(code) ==
    IF code = "right shift" THEN TRUE
    ELSE IF code \in {"right shift up", "left shift up"} THEN FALSE ELSE shift_held
Typed(code) ==
    IF code \in {"right shift", "right shift up", "left shift up"} THEN ""
    ELSE keyboard_map(code, shift_held)

(* An exception has no handler: the dispatcher logs it and panics. *)
Exception == "fault"

(* vga_putc from a handler.  A new line touches no cell unless it scrolls. *)
Touches(c) ==
    \/ \E k \in DOMAIN Plan(c, screen) : Plan(c, screen)[k].op \in {"draw", "blank"}
    \/ screen.column + 1 = VGA_Height
HandlerPut(c) ==
    IF c = "" THEN UNCHANGED <<screen, stopped, shown, torn>>
    ELSE IF console_lock THEN stopped' = "spin" /\ UNCHANGED <<screen, shown, torn>>
    ELSE IF ~OnScreen(Index(screen)) THEN stopped' = "assert" /\ UNCHANGED <<screen, shown, torn>>
    ELSE IF Touches(c) /\ screen.cells = Unmapped
         THEN stopped' = Exception /\ UNCHANGED <<screen, shown, torn>>
    ELSE /\ screen' = putc(screen, c)
         /\ shown' = Append(shown, c)
         /\ torn' = (torn \/ task.todo # <<>>)
         /\ UNCHANGED stopped

(* interrupts_dispatcher on a line: the handlers in order, until one says  *)
(* that it handled the interrupt; the keyboard's always does.              *)
Interrupt ==
    /\ stopped = "no" /\ task.at # "interrupts_init"
    /\ \E l \in requested :
          /\ \A k \in in_service : Priority(l) < Priority(k)
          /\ \A k \in requested : Priority(l) <= Priority(k)
          /\ requested' = requested \ {l}
          /\ IF l = Keyboard /\ \E s \in DOMAIN dispatch[l] : dispatch[l][s] = "keyboard_handler"
             THEN \E code \in Codes :
                     /\ Typed(code) = "" \/ Len(shown) < Limit
                     /\ shift_held' = Shift(code)
                     /\ HandlerPut(Typed(code))
             ELSE UNCHANGED <<shift_held, screen, stopped, shown, torn>>
          /\ in_service' = IF stopped' = "no"
                           THEN pic_end_of_interrupt(PIC1_Offset + l, in_service \cup Accepted(l))
                           ELSE in_service \cup Accepted(l)
    /\ UNCHANGED <<console_lock, log_enabled, dispatch, task>>

ConsoleNext ==
    \/ InterruptsInit \/ KeyboardInit \/ VgaInit \/ VgaLockClear \/ VgaClear \/ VgaPuts
    \/ VgaLogEnable \/ VgaWrite \/ Log \/ SerialWrite \/ BeginCharacter \/ DoStatement \/ EndText
    \/ Raise \/ Interrupt

-------------------------------------------------------------------------------
(* Between interrupts none is in service on either controller, where it    *)
(* would block the others, so the console stops the machine in three ways  *)
(* only: a key is echoed while vga_init or vga_write holds the lock, which *)
(* the handler then waits for with interrupts off; a key comes while the   *)
(* log, which takes no lock, has moved the cursor past the last line and   *)
(* not yet scrolled, and the assertion of vga_putc_unlocked fails; a key   *)
(* comes before the frame buffer is mapped, or when it could not be.       *)
StopsExplained ==
    /\ stopped = "no" => in_service = {}
    /\ stopped = "spin" => task.at \in {"clearing", "puts", "write"}
    /\ stopped = "assert" => task.at = "log put" /\ task.todo # <<>>
    /\ stopped = "fault" => screen.cells = Unmapped

(* The screen shows the last lines of everything that was put on it, by    *)
(* vga_write, the log and the keyboard in the order they came, as long as  *)
(* no character came inside another and no tab was written (a tab moves    *)
(* the cursor down).                                                       *)
RECURSIVE Wrapped(_, _)
Wrapped(text, lines) ==
    IF text = <<>> THEN lines
    ELSE LET n == Len(lines)
             longer == Append(lines[n], Head(text))
         IN  Wrapped(Tail(text),
                     IF Head(text) = "\n" THEN Append(lines, <<>>)
                     ELSE [lines EXCEPT ![n] = longer]
                          \o (IF Len(longer) = VGA_Width THEN <<<<>>>> ELSE <<>>))
ScreenShowsOutput ==
    LET lines == Wrapped(shown, <<<<>>>>)
        above == IF Len(lines) > VGA_Height THEN Len(lines) - VGA_Height ELSE 0
        At(y, x) == IF y + 1 + above \in DOMAIN lines /\ x + 1 \in DOMAIN lines[y + 1 + above]
                    THEN lines[y + 1 + above][x + 1] ELSE Blank
    IN  screen.cells # Unmapped /\ task.at \notin {"clear", "clearing"} /\ task.todo = <<>>
        /\ ~torn /\ (\A k \in DOMAIN shown : shown[k] # "\t") =>
            \A y \in 0 .. VGA_Height - 1, x \in 0 .. VGA_Width - 1 :
                screen.cells[x + y * VGA_Width] = At(y, x)
===============================================================================
