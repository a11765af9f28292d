-------------------------------- MODULE Clock --------------------------------
(***************************************************************************)
(* The time of day: the CMOS clock, which changes its registers one at a   *)
(* time once a second while it shows "update in progress", and             *)
(* cmos_rtc_irq8_handler(), which reads them one at a time with interrupts *)
(* off, twice until both readings agree, and converts them.  Nothing holds *)
(* the reader to the 244 microseconds the clock leaves it after the flag   *)
(* was seen clear: the machine may be a guest that is not running.         *)
(***************************************************************************)
EXTENDS Integers, Sequences

CONSTANTS
    StartTimes,  \* what the clock shows when the handler comes
    MaxSeconds,  \* updates of the clock from one reading interrupt to the next
    MaxInterrupts, \* bound: interrupts that read after the first
    ByteModulus  \* 2^8: a register, and every field but the year

Fields == <<"second", "minute", "hour", "day", "month", "year">>
FieldNames == {"second", "minute", "hour", "day", "month", "year"}
NoReading == [f \in FieldNames |-> 0]

DaysIn(t) ==
    IF t.month = 2 THEN (IF t.year % 4 = 0 THEN 29 ELSE 28)
    ELSE IF t.month \in {4, 6, 9, 11} THEN 30 ELSE 31

\* Each field has a value the calendar has; the clock keeps two digits of the year.
IsTime(t) ==
    /\ t \in [FieldNames -> Nat]
    /\ t.second < 60 /\ t.minute < 60 /\ t.hour < 24
    /\ t.day > 0 /\ t.day <= DaysIn(t) /\ t.month > 0 /\ t.month <= 12 /\ t.year < 100

ASSUME TimesAssumption ==
    /\ MaxSeconds \in Nat /\ MaxInterrupts \in Nat /\ ByteModulus \in Nat /\ ByteModulus > 255
    /\ \A t \in StartTimes : IsTime(t)

VARIABLES
    regs,         \* the clock's registers
    updating,     \* register A, bit 7
    time,         \* the time the registers show, or are changed to
    bcd, hour12,  \* register B: bit 2 is clear, bit 1 is clear
    pc,           \* where the handler is: waiting for the flag, reading, done
    at,           \* the register it reads next
    again,        \* it is in the do loop
    new_datetime, old_datetime,
    datetime,     \* what the rest of the system reads
    shown,        \* the times the clock has shown since it came (ghost)
    seconds,      \* updates since it came, with one that was under way
    interrupts    \* interrupts that have read after the first

clock == <<regs, updating, time, shown, seconds>>
handler == <<pc, at, again, new_datetime, old_datetime, datetime, interrupts>>
vars == <<clock, bcd, hour12, handler>>

-----------------------------------------------------------------------------
(* The clock                                                               *)

\* The field moves on when all smaller ones are at their last value.
NextSecond(t) ==
    LET lastSecond == t.second = 59
        lastMinute == lastSecond /\ t.minute = 59
        lastHour == lastMinute /\ t.hour = 23
        lastDay == lastHour /\ t.day = DaysIn(t)
        lastMonth == lastDay /\ t.month = 12
    IN  [second |-> IF lastSecond THEN 0 ELSE t.second + 1,
         minute |-> IF lastMinute THEN 0 ELSE IF lastSecond THEN t.minute + 1 ELSE t.minute,
         hour   |-> IF lastHour THEN 0 ELSE IF lastMinute THEN t.hour + 1 ELSE t.hour,
         day    |-> IF lastDay THEN 1 ELSE IF lastHour THEN t.day + 1 ELSE t.day,
         month  |-> IF lastMonth THEN 1 ELSE IF lastDay THEN t.month + 1 ELSE t.month,
         year   |-> IF lastMonth THEN (t.year + 1) % 100 ELSE t.year]

ToBcd(v) == IF bcd THEN 16 * (v \div 10) + (v % 10) ELSE v

\* In 12 hour mode midnight and noon are 12, and the top bit is for pm.
HourRegister(h) ==
    IF hour12
    THEN ToBcd(IF h % 12 = 0 THEN 12 ELSE h % 12) + (IF h >= 12 THEN 128 ELSE 0)
    ELSE ToBcd(h)

Registers(t) ==
    [f \in FieldNames |-> IF f = "hour" THEN HourRegister(t.hour) ELSE ToBcd(t[f])]

BeginUpdate ==
    /\ ~updating
    /\ seconds < MaxSeconds
    /\ seconds' = seconds + 1
    /\ updating' = TRUE
    /\ time' = NextSecond(time)
    /\ UNCHANGED <<regs, shown, bcd, hour12, handler>>

ChangeRegister(f) ==
    /\ updating
    /\ regs[f] # Registers(time)[f]
    /\ regs' = [regs EXCEPT ![f] = Registers(time)[f]]
    /\ UNCHANGED <<updating, time, shown, seconds, bcd, hour12, handler>>

EndUpdate ==
    /\ updating
    /\ regs = Registers(time)
    /\ updating' = FALSE
    /\ shown' = shown \cup {time}
    /\ UNCHANGED <<regs, time, seconds, bcd, hour12, handler>>

-----------------------------------------------------------------------------
(* The handler                                                             *)

Init ==
    /\ time \in StartTimes
    /\ bcd \in BOOLEAN /\ hour12 \in BOOLEAN
    /\ regs = Registers(time)
    /\ updating = FALSE
    /\ shown = {time}
    /\ seconds = 0 /\ interrupts = 0
    /\ pc = "wait" /\ at = 1 /\ again = FALSE
    /\ new_datetime = NoReading /\ old_datetime = NoReading
    /\ datetime = NoReading

\* Variant: the flag is not looked at in the loop.
cmos_update_in_progressOnce == updating /\ ~again

cmos_update_in_progress == updating

\* while (cmos_update_in_progress()) ;
WaitForUpdate ==
    /\ pc = "wait"
    /\ ~cmos_update_in_progress
    /\ pc' = "read"
    /\ at' = 1
    /\ UNCHANGED <<clock, bcd, hour12, again, new_datetime, old_datetime, datetime,
                   interrupts>>

\* Variant: the year is read with its century.
get_rtc_registerPast ==
    /\ pc = "read" /\ at <= Len(Fields)
    /\ new_datetime' = [new_datetime EXCEPT ![Fields[at]] =
                           regs[Fields[at]] + (IF Fields[at] = "year" THEN 2000 ELSE 0)]
    /\ at' = at + 1
    /\ UNCHANGED <<clock, bcd, hour12, pc, again, old_datetime, datetime, interrupts>>

get_rtc_register ==
    /\ pc = "read" /\ at <= Len(Fields)
    /\ new_datetime' = [new_datetime EXCEPT ![Fields[at]] = regs[Fields[at]]]
    /\ at' = at + 1
    /\ UNCHANGED <<clock, bcd, hour12, pc, again, old_datetime, datetime, interrupts>>

ReadAll == pc = "read" /\ at > Len(Fields)
Agree == again /\ new_datetime = old_datetime

\* Variant: the first reading is compared with all others.
OldOnce == IF again THEN old_datetime ELSE new_datetime

OldReading == new_datetime

\* The do loop, entered or once more.
ReadAgain ==
    /\ ReadAll /\ ~Agree
    /\ old_datetime' = OldReading
    /\ again' = TRUE
    /\ pc' = "wait"
    /\ UNCHANGED <<clock, bcd, hour12, at, new_datetime, datetime, interrupts>>

FromBcd(v) == IF bcd THEN (v % 16) + (v \div 16) * 10 ELSE v

\* The top bit of the hour is kept.
BinaryHour(h) ==
    IF bcd THEN (h % 16) + ((h \div 16) % 8) * 10 + (IF h >= 128 THEN 128 ELSE 0) ELSE h

\* Only an hour with its top bit set is converted, and 12 pm like the others.
Hour24(h) == IF hour12 /\ h >= 128 THEN ((h % 128) + 12) % 24 ELSE h

Converted(r) ==
    [f \in FieldNames |->
        IF f = "hour" THEN Hour24(BinaryHour(r.hour)) % ByteModulus
        ELSE IF f = "year" THEN FromBcd(r.year) + 2000
        ELSE FromBcd(r[f]) % ByteModulus]

Store ==
    /\ ReadAll /\ Agree
    /\ datetime' = Converted(new_datetime)
    /\ pc' = "done"
    /\ UNCHANGED <<clock, bcd, hour12, at, again, new_datetime, old_datetime, interrupts>>

\* 1024 interrupts later the next second is read.
cmos_rtc_irq8_handler ==
    /\ pc = "done"
    /\ interrupts < MaxInterrupts                                     \* bound
    /\ interrupts' = interrupts + 1
    /\ pc' = "wait"
    /\ again' = FALSE
    /\ shown' = IF updating THEN {} ELSE {time}
    /\ seconds' = IF updating THEN 1 ELSE 0
    /\ UNCHANGED <<regs, updating, time, bcd, hour12, at,
                   new_datetime, old_datetime, datetime>>

Handler == WaitForUpdate \/ get_rtc_register \/ ReadAgain \/ Store
Cmos == BeginUpdate \/ EndUpdate \/ \E f \in FieldNames : ChangeRegister(f)

Next == Cmos \/ Handler \/ cmos_rtc_irq8_handler

\* An update that has begun ends, and the handler is not stopped for good.
Fairness ==
    /\ WF_vars(EndUpdate) /\ \A f \in FieldNames : WF_vars(ChangeRegister(f))
    /\ WF_vars(Handler)

Spec == Init /\ [][Next]_vars /\ Fairness

-----------------------------------------------------------------------------
(* Properties                                                              *)

\* Type correctness of the handler's two readings; a register holds a byte.
TypeOK ==
    /\ regs \in [FieldNames -> 0 .. ByteModulus - 1]
    /\ new_datetime \in [FieldNames -> 0 .. ByteModulus - 1]
    /\ old_datetime \in [FieldNames -> 0 .. ByteModulus - 1]
    /\ pc \in {"wait", "read", "done"}
    /\ at \in 1 .. Len(Fields) + 1
    /\ updating \in BOOLEAN /\ again \in BOOLEAN
    /\ seconds \in 0 .. MaxSeconds /\ interrupts \in 0 .. MaxInterrupts
    /\ \A f \in FieldNames \ {"year"} : datetime[f] < ByteModulus

Calendar(t) == [t EXCEPT !.year = @ + 2000]

\* In 12 hour mode the handler takes noon for midnight and midnight for noon.
Swapped(t) ==
    [t EXCEPT !.hour = IF hour12 /\ @ = 12 THEN 0 ELSE IF hour12 /\ @ = 0 THEN 12 ELSE @]

\* However the updates of the clock come between the twelve and more reads of
\* the handler, what it stores is one time the clock has shown since it came,
\* in binary and 24 hours, the two twelves of 12 hour mode apart.
StoredWasShown ==
    pc = "done" => \E t \in shown : datetime = Calendar(Swapped(t))

\* The handler's loop (pic.h:341-360) ends: two readings agree once the clock stands still between them.
HandlerReturns == pc = "wait" ~> pc = "done"
=============================================================================
