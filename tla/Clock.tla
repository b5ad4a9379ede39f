--------------------------------- MODULE Clock --------------------------------
(***************************************************************************)
(* The real-time clock, device/cmos.c: cmos_get_time_of_day reads the      *)
(* fields one after the other while the clock ticks, and reads them again  *)
(* if the seconds have changed; then it decodes them from one of the four  *)
(* formats the chip may be set to.                                         *)
(*                                                                         *)
(* The clock is the number of seconds since a midnight.  The fields above  *)
(* the hours, which change with them at most, are one field, the day.      *)
(* A minute has Minute seconds and an hour Hour minutes.                   *)
(***************************************************************************)
EXTENDS Integers

CONSTANTS
    Minute, Hour,
    Ticks           \* bound: the clock stops so many seconds after the hour

ASSUME ClockAssumption == Minute \in Nat \ {0} /\ Hour \in Nat \ {0}

VARIABLES
    clock,          \* seconds since the first midnight
    fields,         \* what the present turn of the loop has read
    reading,        \* the field to read next, "format" after the loop, "done"
    turn_began,     \* history: the clock when seconds1 was read
    hour_decoded    \* the hour as cmos_get_time_of_day takes it

rtc == <<clock, fields, reading, turn_began, hour_decoded>>

FieldsAt(t) ==
    [seconds |-> t % Minute,
     minutes |-> (t \div Minute) % Hour,
     hours |-> (t \div (Minute * Hour)) % 24,
     day |-> t \div (Minute * Hour * 24)]

(* Any hour of the first day may be about to end. *)
ClockInit ==
    /\ clock \in {(h * Minute * Hour) - 2 : h \in 1 .. 24}
    /\ fields = FieldsAt(0) /\ reading = "seconds1"
    /\ turn_began = 0 /\ hour_decoded = 0

(* Bound: a turn of the loop takes less than a minute. *)
Tick ==
    /\ reading # "done" /\ clock % (Minute * Hour) # Ticks
    /\ reading \notin {"seconds1", "format"} => clock + 1 < turn_began + Minute
    /\ clock' = clock + 1
    /\ UNCHANGED <<fields, reading, turn_began, hour_decoded>>

Order == [seconds1 |-> "day", day |-> "hours", hours |-> "minutes", minutes |-> "seconds2"]

cmos_read ==
    /\ reading \in DOMAIN Order
    /\ LET field == IF reading = "seconds1" THEN "seconds" ELSE reading
       IN  fields' = [fields EXCEPT ![field] = FieldsAt(clock)[field]]
    /\ turn_began' = IF reading = "seconds1" THEN clock ELSE turn_began
    /\ reading' = Order[reading]
    /\ UNCHANGED <<clock, hour_decoded>>

(* The end of the loop. *)
WhileOnce ==
    /\ reading = "seconds2"
    /\ reading' = "format"
    /\ UNCHANGED <<clock, fields, turn_began, hour_decoded>>
While ==
    /\ reading = "seconds2"
    /\ reading' = IF fields.seconds # FieldsAt(clock).seconds THEN "seconds1" ELSE "format"
    /\ UNCHANGED <<clock, fields, turn_began, hour_decoded>>

-------------------------------------------------------------------------------
(* How the chip presents a number and an hour. *)
PM == 128
InBCD(x) == ((x \div 10) * 16) + (x % 10)
Presented(hour, bcd, hour24) ==
    LET shown == IF hour24 THEN hour ELSE IF hour % 12 = 0 THEN 12 ELSE hour % 12
    IN  (IF bcd THEN InBCD(shown) ELSE shown) + (IF ~hour24 /\ hour >= 12 THEN PM ELSE 0)

(* CMOS_Convert_Hours_BCD keeps the bit for the afternoon. *)
CMOS_Convert_Hours_BCD(x) ==
    (x % 16) + (((x % PM) \div 16) * 10) + (IF x >= PM THEN PM ELSE 0)
DecodedHour(x, bcd, hour24) ==
    LET hours == IF bcd THEN CMOS_Convert_Hours_BCD(x) ELSE x
    IN  IF ~hour24 /\ hours >= PM THEN ((hours % PM) + 12) % 24 ELSE hours

Decode ==
    /\ reading = "format"
    /\ \E bcd, hour24 \in BOOLEAN :
          hour_decoded' = DecodedHour(Presented(fields.hours, bcd, hour24), bcd, hour24)
    /\ reading' = "done"
    /\ UNCHANGED <<clock, fields, turn_began>>

ClockNext == Tick \/ cmos_read \/ While \/ Decode

ClockSpec == ClockInit /\ [][ClockNext]_rtc

-------------------------------------------------------------------------------
(* The fields that are used belong to one instant, that of the first read  *)
(* of the seconds, although minute, hour and day may turn between the      *)
(* reads.  And the hour is decoded from every format, but for noon and     *)
(* midnight of the 12-hour format, which are taken for each other.         *)
OneInstant ==
    /\ reading \in {"format", "done"} => fields = FieldsAt(turn_began)
    /\ reading = "done" =>
          \/ hour_decoded = fields.hours
          \/ fields.hours % 12 = 0 /\ hour_decoded = (fields.hours + 12) % 24
===============================================================================
