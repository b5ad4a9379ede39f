-------------------------------- MODULE Format --------------------------------
(***************************************************************************)
(* Formatted output: vfprintf, print_number and print_string of core/      *)
(* format.c.  A format is taken one directive at a time; an action is one  *)
(* turn of vfprintf's loop.  Of the modifiers and of the conversions       *)
(* matter the size of the argument, the base and the sign.                 *)
(***************************************************************************)
EXTENDS Integers, Sequences

CONSTANTS
    buf_size,
    Int_Size, Long_Size,      \* sizes in bytes of int and of long, also of int64_t
    Arguments,      \* numbers that are printed
    Strings,        \* strings that are printed
    Directives      \* bound on the directives of a format

VARIABLES
    buf,            \* the characters buffered: top is their number
    out,            \* what file->write has accepted
    text,           \* history: everything put in the buffer, in order
    last,           \* history: the last number printed, and how
    directives,     \* directives so far
    status          \* "printing", then what vfprintf returned

format == <<buf, out, text, last, directives, status>>

NoNumber == [conversion |-> "", size |-> 0, number |-> 0, digits |-> <<>>]

FormatInit ==
    /\ buf = <<>> /\ out = <<>> /\ text = <<>> /\ last = NoNumber
    /\ directives = 0 /\ status = "printing"

-------------------------------------------------------------------------------
(* A write takes everything or fails, and vfprintf returns the failure.    *)
WriteBuffer(chars, rest) ==
    \/ out' = out \o chars /\ buf' = rest /\ UNCHANGED status
    \/ chars # <<>> /\ status' = "Error" /\ UNCHANGED <<out, buf>>

(* The end of a turn: a full buffer is flushed. *)
FlushKeeps(chars) ==
    IF Len(chars) = buf_size THEN WriteBuffer(chars, chars)
    ELSE buf' = chars /\ UNCHANGED <<out, status>>
Flush(chars) ==
    IF Len(chars) = buf_size THEN WriteBuffer(chars, <<>>)
    ELSE buf' = chars /\ UNCHANGED <<out, status>>

Turn == status = "printing" /\ directives < Directives /\ directives' = directives + 1

(* A plain character, %c, %% and an unknown conversion put one character.  *)
(* After a modifier the unknown conversion puts the modifier's letter.     *)
PutCharacter ==
    /\ Turn
    /\ \E c \in {"a", "%", "l"} : Flush(Append(buf, c)) /\ text' = Append(text, c)
    /\ UNCHANGED last

(* print_string flushes each time the buffer is full. *)
PrintString(string) ==
    LET all == buf \o string
        whole == Len(all) \div buf_size
    IN  /\ Turn
        /\ text' = text \o string
        /\ \/ /\ out' = out \o SubSeq(all, 1, whole * buf_size)
              /\ buf' = SubSeq(all, whole * buf_size + 1, Len(all))
              /\ UNCHANGED status
           \/ \E k \in 0 .. whole - 1 :
                 /\ out' = out \o SubSeq(all, 1, k * buf_size)
                 /\ buf' = SubSeq(all, k * buf_size + 1, (k + 1) * buf_size)
                 /\ status' = "Error"
        /\ UNCHANGED last

-------------------------------------------------------------------------------
Bases == [d |-> 10, u |-> 10, p |-> 16, x |-> 16, o |-> 8, b |-> 2]
is_signed(conversion) == conversion \in {"d", "o"}
Size(conversion, modifier) == IF modifier = "l" \/ conversion = "p" THEN Long_Size ELSE Int_Size

(* The digits print_number makes room for. *)
Width(base, size) == (size * 8) \div (IF base = 8 THEN 2 ELSE IF base = 2 THEN 1 ELSE 4)

Digit(d) == <<"0", "1", "2", "3", "4", "5", "6", "7", "8", "9", "a", "b", "c", "d", "e", "f">>[d + 1]
uint64(n) == n % 2 ^ (Long_Size * 8)

(* print_number writes out the buffer, with the sign, and fills it with    *)
(* the number's last digits.                                               *)
PrintNumber(conversion, modifier, n) ==
    LET base == Bases[conversion]
        size == Size(conversion, modifier)
        negative == is_signed(conversion) /\ n < 0
        signed == IF negative THEN Append(buf, "-") ELSE buf
        number == uint64(IF negative THEN -n ELSE n)
        width == Width(base, size)
        digits == [k \in 1 .. width |-> Digit((number \div base ^ (width - k)) % base)]
    IN  /\ Turn
        /\ n \in -(2 ^ (size * 8 - 1)) .. 2 ^ (size * 8 - 1) - 1
        /\ text' = text \o (IF negative THEN <<"-">> ELSE <<>>) \o digits
        /\ last' = [conversion |-> conversion, size |-> size, number |-> n, digits |-> digits]
        /\ \/ IF width = buf_size
              THEN \/ out' = out \o signed \o digits /\ buf' = <<>> /\ UNCHANGED status
                   \/ out' = out \o signed /\ buf' = digits /\ status' = "Error"
              ELSE out' = out \o signed /\ buf' = digits /\ UNCHANGED status
           \/ signed # <<>> /\ status' = "Error" /\ buf' = signed /\ UNCHANGED out

(* The end of the format. *)
EndFormat ==
    /\ status = "printing"
    /\ \/ out' = out \o buf /\ status' = "Ok"
       \/ buf # <<>> /\ status' = "Error" /\ UNCHANGED out
    /\ buf' = <<>>
    /\ UNCHANGED <<text, last, directives>>

FormatNext ==
    \/ PutCharacter \/ EndFormat
    \/ \E string \in Strings : PrintString(string)
    \/ \E conversion \in DOMAIN Bases, modifier \in {"", "l"}, n \in Arguments :
          PrintNumber(conversion, modifier, n)

-------------------------------------------------------------------------------
(* Whatever directives follow each other and wherever the buffer fills up, *)
(* everything comes out once and in order; after a write that failed, what *)
(* came out is a beginning of it.  The buffer has room for a character at  *)
(* every turn.                                                             *)
TextInOrder ==
    /\ status = "printing" => out \o buf = text /\ Len(buf) < buf_size
    /\ status = "Ok" => out = text
    /\ status = "Error" => Len(out) <= Len(text) /\ out = SubSeq(text, 1, Len(out))

(* What the digits printed last stand for. *)
Denotes(digits, base) ==
    LET Is[k \in 0 .. Len(digits)] ==
            IF k = 0 THEN 0
            ELSE base * Is[k - 1] + CHOOSE d \in 0 .. base - 1 : Digit(d) = digits[k]
    IN  Is[Len(digits)]

(* In base 2 and 16 all bits of the argument are printed, in base 8 its    *)
(* magnitude; in base 10 the magnitude of what is not negative or has a    *)
(* sign, as long as it fits two digits for each byte: print_number takes   *)
(* a decimal digit for four bits, where it stands for fewer.               *)
NumbersKept ==
    LET base == Bases[last.conversion]
        magnitude == IF last.number < 0 THEN -last.number ELSE last.number
    IN  last # NoNumber =>
            IF base \in {2, 16} THEN Denotes(last.digits, base) = last.number % 2 ^ (last.size * 8)
            ELSE is_signed(last.conversion) \/ last.number >= 0 =>
                    Denotes(last.digits, base) =
                        IF base = 10 THEN magnitude % 10 ^ (2 * last.size) ELSE magnitude

(* kprintf prints what it is asked to: every number as it should be spelt, *)
(* and everything in order through the buffer.                             *)
PrintedRight == TextInOrder /\ NumbersKept
===============================================================================
