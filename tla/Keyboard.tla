------------------------------- MODULE Keyboard -------------------------------
(***************************************************************************)
(* The path of a key from the keyboard's interrupt handler (pic.h) to the  *)
(* program that asks for one with get_key() (keyboard.h).  The two share   *)
(* the file stdin, open as descriptor 0, and that descriptor's one offset: *)
(* the handler writes where the reader last moved it, and the reader polls *)
(* by stepping back and reading again, with a sleep in between.            *)
(*                                                                         *)
(* A system call runs with interrupts off and is one step; the handler,    *)
(* which makes up to four of them, is one too and comes between any two of *)
(* the reader's.  The file is counted in key_info records.  Which key a    *)
(* scancode stands for, and the shift and control keys, which write        *)
(* nothing, are left out: a key is the number of its press, 0 is what a    *)
(* key without a character, and an erased record, hold, and OldKey is any  *)
(* key of the last session.                                                *)
(***************************************************************************)
EXTENDS Integers, Sequences

CONSTANTS
    RingSlots,      \* records at which the handler starts over (1365 / 3)
    SleepTicks,     \* ticks get_key() sleeps for (8)
    InitialSlots,   \* bound: records the file has from the last session
    MaxTyped        \* bound: how many keys are pressed

ASSUME SlotsAssumption ==
    /\ RingSlots \in Nat \ {0} /\ SleepTicks \in Nat \ {0}
    /\ InitialSlots \in Nat /\ MaxTyped \in Nat \ {0}

VARIABLES
    slots,              \* the records of stdin; key and null records
    offset,             \* the descriptor's offset
    rewind_file,        \* the handler's static flag
    sleep_timer_ticks,  \* what is left of the sleep
    pc,                 \* the reader's next step
    key,                \* key_info.key, as the reader has it
    typed,              \* the last key pressed (ghost)
    pressed,            \* that press: the key, what the reader was at, and whether
                        \* its record is the file's last (ghost)
    delivered           \* the last key of this session get_key() returned (ghost)

file == <<slots, offset>>
ghosts == <<typed, pressed, delivered>>
vars == <<file, rewind_file, sleep_timer_ticks, pc, key, ghosts>>

NullKey == 0
Keys == 1 .. MaxTyped
OldKey == MaxTyped + 1
Records == Keys \cup {NullKey, OldKey}

\* Where the reader is: waiting for a key in get_key()'s loop, or done with one.
Waiting == {"back", "sleep", "asleep", "again"}
Erasing == {"erase back", "erase"}

\* stdin is kept from boot to boot: its records are erased or left as they were.
Init ==
    /\ \E size \in 0 .. InitialSlots : slots \in [1 .. size -> {NullKey, OldKey}]
    /\ offset = 0
    /\ rewind_file = FALSE
    /\ sleep_timer_ticks = 0
    /\ pc = "busy" /\ key = NullKey
    /\ typed = 0 /\ delivered = 0
    /\ pressed = [key |-> NullKey, during |-> "busy", last |-> FALSE]

\* What write() makes of the file, and of the offset, for a record at offset at.
Written(at, k) ==
    /\ slots' = IF at = Len(slots) THEN Append(slots, k) ELSE [slots EXCEPT ![at + 1] = k]
    /\ offset' = at + 1

-----------------------------------------------------------------------------
(* The reader: a program, and get_key()                                    *)

\* At the end of the file read() copies nothing and key stays as it is.
Read ==
    /\ IF offset < Len(slots) THEN key' = slots[offset + 1] /\ offset' = offset + 1
       ELSE UNCHANGED <<key, offset>>
    /\ pc' = IF key' = NullKey THEN "back" ELSE "erase back"
    /\ UNCHANGED <<slots, rewind_file, sleep_timer_ticks, ghosts>>

get_key == pc = "busy" /\ Read

ReadAgain == pc = "again" /\ Read

\* Variant: the reader waits where it is, without stepping back.
SeekBackNot(from, to) ==
    /\ pc = from
    /\ pc' = to
    /\ UNCHANGED <<file, rewind_file, sleep_timer_ticks, key, ghosts>>

\* Variant: a step back from the start goes before it.
SeekBackUnclamped(from, to) ==
    /\ pc = from
    /\ offset' = offset - 1
    /\ pc' = to
    /\ UNCHANGED <<slots, rewind_file, sleep_timer_ticks, key, ghosts>>

SeekBack(from, to) ==
    /\ pc = from
    /\ offset' = IF offset = 0 THEN 0 ELSE offset - 1
    /\ pc' = to
    /\ UNCHANGED <<slots, rewind_file, sleep_timer_ticks, key, ghosts>>

StartSleep ==
    /\ pc = "sleep"
    /\ sleep_timer_ticks' = SleepTicks
    /\ pc' = "asleep"
    /\ UNCHANGED <<file, rewind_file, key, ghosts>>

Wake ==
    /\ pc = "asleep" /\ sleep_timer_ticks = 0
    /\ pc' = "again"
    /\ UNCHANGED <<file, rewind_file, sleep_timer_ticks, key, ghosts>>

\* Variant: the record is left as it is.
EraseNot ==
    /\ pc = "erase"
    /\ offset' = offset + 1 /\ UNCHANGED slots
    /\ pc' = "busy" /\ key' = NullKey
    /\ delivered' = IF key = OldKey THEN delivered ELSE key
    /\ UNCHANGED <<rewind_file, sleep_timer_ticks, typed, pressed>>

\* The null record goes to wherever the offset is by now; get_key() returns.
Erase ==
    /\ pc = "erase"
    /\ Written(offset, NullKey)
    /\ pc' = "busy" /\ key' = NullKey
    /\ delivered' = IF key = OldKey THEN delivered ELSE key
    /\ UNCHANGED <<rewind_file, sleep_timer_ticks, typed, pressed>>

Reader ==
    \/ get_key
    \/ SeekBack("back", "sleep") \/ StartSleep \/ Wake \/ ReadAgain
    \/ SeekBack("erase back", "erase") \/ Erase

-----------------------------------------------------------------------------
(* The interrupts                                                          *)

timer_irq0_handler ==
    /\ sleep_timer_ticks > 0
    /\ sleep_timer_ticks' = sleep_timer_ticks - 1
    /\ UNCHANGED <<file, rewind_file, pc, key, ghosts>>

\* Where the handler writes: at the start of the file once it has been full.
WriteAt == IF rewind_file THEN 0 ELSE offset

\* A press of a key with a character, or of one without, which writes a null key.
keyboard_irq1_handler(k) ==
    /\ typed < MaxTyped
    /\ Written(WriteAt, k)
    /\ rewind_file' = (rewind_file \/ offset' = RingSlots)
    /\ typed' = typed + 1
    /\ pressed' = [key |-> k, during |-> pc, last |-> offset' = Len(slots')]
    /\ UNCHANGED <<sleep_timer_ticks, pc, key, delivered>>

Next ==
    \/ Reader
    \/ timer_irq0_handler
    \/ keyboard_irq1_handler(typed + 1) \/ keyboard_irq1_handler(NullKey)

\* The timer ticks on, and the program that runs comes back for the next key.
Fairness == WF_vars(Reader) /\ WF_vars(timer_irq0_handler)

Spec == Init /\ [][Next]_vars /\ Fairness

-----------------------------------------------------------------------------
(* Properties                                                              *)

\* Every variable has its type and the offset is within the file, so that no
\* read() finds it beyond the end and no write() has a gap to fill.
TypeOK ==
    /\ slots \in Seq(Records)
    /\ offset \in 0 .. Len(slots)
    /\ rewind_file \in BOOLEAN
    /\ sleep_timer_ticks \in 0 .. SleepTicks
    /\ pc \in Waiting \cup Erasing \cup {"busy"}
    /\ key \in Records
    /\ typed \in 0 .. MaxTyped
    /\ pressed \in [key : Keys \cup {NullKey}, during : Waiting \cup Erasing \cup {"busy"}, last : BOOLEAN]
    /\ delivered \in 0 .. typed

\* Until the file has been full once get_key() returns the keys of this session
\* in the order they were pressed and none twice, wherever the handler comes
\* between its calls and whatever the last session left in the file
\* (keyboard.h:25 erases "to prevent infinite duplicate reads").
InOrderUntilFull ==
    [][pc = "erase" /\ pc' = "busy" /\ key # OldKey => delivered' > delivered \/ rewind_file]_vars

\* A key that is pressed at the end of the file, and not while get_key() erases
\* the one before, is returned unless another press follows first (get_key()'s
\* loop, the sleep and its timer).
TimelyKeyIsReturned ==
    \A k \in Keys :
        typed = k /\ pressed.key = k /\ pressed.last /\ pressed.during \notin Erasing
            ~> delivered = k \/ typed > k

=============================================================================
