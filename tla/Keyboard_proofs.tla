---------------------------- MODULE Keyboard_proofs ----------------------------
(***************************************************************************)
(* Keyboard, for every length of the file, every number of keys and any    *)
(* file the last session left: its variables keep their types, and         *)
(* get_key() returns keys in order until the file has been full.           *)
(*                                                                         *)
(* The order rests on where a key of this session can be.  The handler     *)
(* writes at the offset, so there is none beyond it, but for the record    *)
(* the reader has just stepped back over; and the record the reader comes  *)
(* to next holds no key that was returned before it.                       *)
(***************************************************************************)
EXTENDS Keyboard, SequenceTheorems, TLAPS

\* The states in which the reader has stepped back.
SteppedBack == {"sleep", "asleep", "again", "erase"}

\* The last record that may hold a key of this session.
Furthest == IF pc \in SteppedBack THEN offset + 1 ELSE offset

\* The record that the reader in get_key()'s loop comes to next, or is at the end
\* of the file just behind.
Coming ==
    IF pc \in SteppedBack /\ offset < Len(slots) THEN offset + 1 ELSE offset

\* The reader has a key when it erases one, and only then.
HasKey == pc \in Erasing <=> key # NullKey

\* A key in the file or with the reader was pressed.
KeysTyped ==
    /\ key \in Keys => key <= typed
    /\ \A i \in 1 .. Len(slots) : slots[i] \in Keys => slots[i] <= typed

NoKeyBeyond == \A i \in 1 .. Len(slots) : i > Furthest => slots[i] \notin Keys

ComingIsNew ==
    pc \notin Erasing =>
        \A i \in 1 .. Len(slots) : i = Coming /\ slots[i] \in Keys => slots[i] > delivered

ReadIsNew == pc \in Erasing /\ key \in Keys => key > delivered

Ordered == rewind_file \/ (NoKeyBeyond /\ ComingIsNew /\ ReadIsNew)

IInv == TypeOK /\ HasKey /\ KeysTyped /\ Ordered

-----------------------------------------------------------------------------

\* What write() makes of the records of a file, at its end and within it.
LEMMA WrittenRecords ==
    ASSUME NEW S, NEW s \in Seq(S), NEW at \in 0 .. Len(s), NEW k \in S, NEW t,
           t = IF at = Len(s) THEN Append(s, k) ELSE [s EXCEPT ![at + 1] = k]
    PROVE  /\ t \in Seq(S)
           /\ Len(t) \in Nat /\ Len(t) >= Len(s) /\ at + 1 <= Len(t)
           /\ t[at + 1] = k
           /\ \A i \in 1 .. Len(t) : i # at + 1 => i \in 1 .. Len(s) /\ t[i] = s[i]
<1>0. Len(s) \in Nat
  OBVIOUS
<1>1. CASE at = Len(s)
  <2>1. t = Append(s, k)
    BY <1>1
  <2>2. t \in Seq(S) /\ Len(t) = Len(s) + 1 /\ t[Len(s) + 1] = k
    BY <2>1
  <2>3. \A i \in 1 .. Len(s) : t[i] = s[i]
    BY <2>1
  <2> QED
    BY <1>0, <1>1, <2>2, <2>3
<1>2. CASE at # Len(s)
  <2>1. t = [s EXCEPT ![at + 1] = k] /\ at + 1 \in 1 .. Len(s)
    BY <1>0, <1>2
  <2>2. t \in Seq(S) /\ Len(t) = Len(s) /\ \A i \in 1 .. Len(s) : t[i] = IF i = at + 1 THEN k ELSE s[i]
    BY <2>1, ExceptSeq
  <2> QED
    BY <1>0, <2>1, <2>2
<1> QED
  BY <1>1, <1>2

\* The kinds of record exclude each other.
LEMMA RecordKinds ==
    /\ NullKey \notin Keys /\ OldKey \notin Keys /\ OldKey # NullKey
    /\ Keys \subseteq Nat /\ MaxTyped \in Nat \ {0}
    /\ NullKey \in Records /\ Keys \subseteq Records /\ NullKey = 0
BY SlotsAssumption DEF NullKey, Keys, OldKey, Records

\* What the invariant says of the numbers.
LEMMA Numbers ==
    ASSUME IInv
    PROVE  /\ Len(slots) \in Nat /\ offset \in Nat /\ offset <= Len(slots)
           /\ offset \in 0 .. Len(slots)
           /\ typed \in Nat /\ delivered \in Nat /\ delivered <= typed
<1>1. slots \in Seq(Records) /\ offset \in 0 .. Len(slots)
  BY DEF IInv, TypeOK
<1>2. typed \in 0 .. MaxTyped /\ delivered \in 0 .. typed
  BY DEF IInv, TypeOK
<1>3. Len(slots) \in Nat
  BY <1>1
<1>4. offset \in Nat /\ offset <= Len(slots)
  BY <1>1, <1>3
<1>5. typed \in Nat /\ delivered \in Nat /\ delivered <= typed
  BY <1>2, SlotsAssumption
<1> QED
  BY <1>1, <1>3, <1>4, <1>5

LEMMA InitInvariant == Init => IInv
<1> SUFFICES ASSUME Init PROVE IInv
  OBVIOUS
<1> USE RecordKinds
<1>1. PICK size \in 0 .. InitialSlots : slots \in [1 .. size -> {NullKey, OldKey}]
  BY DEF Init
<1>2. size \in Nat
  BY SlotsAssumption
<1>3. slots \in Seq(Records) /\ Len(slots) = size
  <2>1. {NullKey, OldKey} \subseteq Records
    BY DEF Records
  <2>2. slots \in [1 .. size -> Records]
    BY <1>1, <2>1
  <2> QED
    BY <1>2, <2>2
<1>4. \A i \in 1 .. Len(slots) : slots[i] \notin Keys
  BY <1>1, <1>3
<1>5. TypeOK
  <2>1. offset \in 0 .. Len(slots) /\ key \in Records /\ typed \in 0 .. MaxTyped /\ delivered \in 0 .. typed
    BY <1>2, <1>3 DEF Init
  <2>2. pressed \in [key : Keys \cup {NullKey}, during : Waiting \cup Erasing \cup {"busy"}, last : BOOLEAN]
    BY DEF Init
  <2>3. rewind_file \in BOOLEAN /\ pc \in Waiting \cup Erasing \cup {"busy"}
    BY DEF Init
  <2>4. sleep_timer_ticks \in 0 .. SleepTicks
    BY SlotsAssumption DEF Init
  <2> QED
    BY <1>3, <2>1, <2>2, <2>3, <2>4 DEF TypeOK
<1>6. HasKey /\ KeysTyped /\ NoKeyBeyond /\ ComingIsNew /\ ReadIsNew
  BY <1>4 DEF Init, HasKey, KeysTyped, NoKeyBeyond, ComingIsNew, ReadIsNew, Erasing
<1> QED
  BY <1>5, <1>6 DEF IInv, Ordered

-----------------------------------------------------------------------------
(* The steps of the reader.                                                *)

\* read(): what it finds, in get_key()'s first call and in its loop.
LEMMA ReadStep ==
    ASSUME IInv, Read, pc \in {"busy", "again"}
    PROVE  IInv'
<1>0. key = NullKey
  BY DEF IInv, HasKey, Erasing
<1>1. Len(slots) \in Nat /\ offset \in Nat /\ offset <= Len(slots)
  BY Numbers
<1>2. /\ slots' = slots /\ typed' = typed /\ delivered' = delivered
      /\ rewind_file' = rewind_file /\ sleep_timer_ticks' = sleep_timer_ticks
      /\ pressed' = pressed
  BY DEF Read, ghosts
<1>3. pc' = IF key' = NullKey THEN "back" ELSE "erase back"
  BY DEF Read
<1>4. CASE offset < Len(slots)
  <2>0. key' = slots[offset + 1] /\ offset' = offset + 1
    BY <1>4 DEF Read
  <2>1. /\ key' = slots[offset + 1] /\ offset' = offset + 1
        /\ offset + 1 \in 1 .. Len(slots) /\ offset + 1 \in 0 .. Len(slots)
    BY <1>1, <1>4, <2>0
  <2>2. key' \in Records
    <3>1. slots \in Seq(Records)
      BY DEF IInv, TypeOK
    <3> QED
      BY <2>1, <3>1
  <2>3. TypeOK'
    <3>1. pc' \in Waiting \cup Erasing \cup {"busy"}
      BY <1>3 DEF Waiting, Erasing
    <3> QED
      BY <1>2, <2>1, <2>2, <3>1 DEF IInv, TypeOK
  <2>4. HasKey'
    BY <1>3 DEF HasKey, Erasing
  <2>5. KeysTyped'
    BY <1>2, <2>0, <2>1 DEF IInv, KeysTyped
  <2>6. Ordered'
    <3> SUFFICES ASSUME ~rewind_file PROVE (NoKeyBeyond /\ ComingIsNew /\ ReadIsNew)'
      BY <1>2 DEF Ordered
    <3>0. NoKeyBeyond /\ ComingIsNew
      BY DEF IInv, Ordered
    <3>1. Furthest' = offset + 1 /\ Coming' = offset + 1
      BY <1>3, <2>1 DEF Furthest, Coming, SteppedBack
    <3>2. Furthest <= offset + 1
      BY <1>1 DEF Furthest
    <3>3. NoKeyBeyond'
      BY <1>1, <1>2, <3>0, <3>1, <3>2 DEF NoKeyBeyond, Furthest
    <3>4. ComingIsNew'
      BY <1>2, <1>3, <2>1, <3>1, RecordKinds DEF ComingIsNew, Erasing
    <3>5. ReadIsNew'
      <4>1. CASE pc = "busy"
        <5>1. key' \notin Keys
          BY <1>1, <2>1, <3>0, <4>1 DEF NoKeyBeyond, Furthest, SteppedBack
        <5> QED
          BY <5>1 DEF ReadIsNew
      <4>2. CASE pc = "again"
        <5>1. Coming = offset + 1
          BY <1>4, <4>2 DEF Coming, SteppedBack
        <5> QED
          BY <1>2, <2>1, <3>0, <4>2, <5>1 DEF ComingIsNew, ReadIsNew, Erasing
      <4> QED
        BY <4>1, <4>2
    <3> QED
      BY <3>3, <3>4, <3>5
  <2> QED
    BY <2>3, <2>4, <2>5, <2>6 DEF IInv
<1>5. CASE ~(offset < Len(slots))
  <2>0. offset = Len(slots)
    BY <1>1, <1>5
  <2>1. key' = NullKey /\ key' = key /\ offset' = offset /\ offset = Len(slots) /\ pc' = "back"
    BY <1>0, <1>3, <1>5, <2>0 DEF Read
  <2>2. TypeOK'
    BY <1>2, <2>1 DEF IInv, TypeOK, Waiting
  <2>3. HasKey' /\ KeysTyped'
    BY <1>2, <2>1 DEF IInv, HasKey, KeysTyped, Erasing
  <2>4. Ordered'
    <3> SUFFICES ASSUME ~rewind_file PROVE (NoKeyBeyond /\ ComingIsNew /\ ReadIsNew)'
      BY <1>2 DEF Ordered
    <3>1. Furthest' = Len(slots) /\ Coming' = offset /\ Coming = offset
      BY <2>1 DEF Furthest, Coming, SteppedBack
    <3>2. NoKeyBeyond'
      BY <1>1, <1>2, <3>1 DEF NoKeyBeyond
    <3>3. ComingIsNew'
      BY <1>2, <3>1 DEF IInv, Ordered, ComingIsNew, Erasing
    <3>4. ReadIsNew'
      BY <2>1, RecordKinds DEF ReadIsNew
    <3> QED
      BY <3>2, <3>3, <3>4
  <2> QED
    BY <2>2, <2>3, <2>4 DEF IInv
<1> QED
  BY <1>4, <1>5

\* One back from o, but not before the start.
LEMMA OneBack ==
    ASSUME NEW l \in Nat, NEW o \in Nat, o <= l, NEW p, p = IF o = 0 THEN 0 ELSE o - 1
    PROVE  p \in 0 .. l /\ \A i \in 1 .. l : i > p + 1 => i > o
OBVIOUS

\* seek() by one record, in the loop and before the key is erased.
LEMMA SeekBackStep ==
    IInv /\ (SeekBack("back", "sleep") \/ SeekBack("erase back", "erase")) => IInv'
<1>1. ASSUME IInv,
             (pc = "back" /\ pc' = "sleep") \/ (pc = "erase back" /\ pc' = "erase"),
             offset' = IF offset = 0 THEN 0 ELSE offset - 1,
             slots' = slots /\ typed' = typed /\ delivered' = delivered /\ key' = key,
             UNCHANGED <<rewind_file, sleep_timer_ticks, pressed>>
      PROVE  IInv'
  <2>1. Len(slots) \in Nat /\ offset \in Nat /\ offset <= Len(slots)
    BY <1>1, Numbers
  <2>2. /\ offset' \in 0 .. Len(slots)
        /\ \A i \in 1 .. Len(slots) : i > offset' + 1 => i > offset
    BY <1>1, <2>1, OneBack
  <2>3. TypeOK'
    <3>1. pc' \in Waiting \cup Erasing \cup {"busy"}
      BY <1>1 DEF Waiting, Erasing
    <3> QED
      BY <1>1, <2>2, <3>1 DEF IInv, TypeOK
  <2>4. HasKey' /\ KeysTyped'
    BY <1>1 DEF IInv, HasKey, KeysTyped, Erasing
  <2>5. Ordered'
    <3> SUFFICES ASSUME ~rewind_file PROVE (NoKeyBeyond /\ ComingIsNew /\ ReadIsNew)'
      BY <1>1 DEF Ordered
    <3>0. NoKeyBeyond /\ ComingIsNew /\ ReadIsNew
      BY <1>1 DEF IInv, Ordered
    <3>1. \A i \in 1 .. Len(slots) : i > offset => slots[i] \notin Keys
      BY <1>1, <3>0 DEF NoKeyBeyond, Furthest, SteppedBack
    <3>2. NoKeyBeyond'
      <4>1. Furthest' = offset' + 1
        BY <1>1 DEF Furthest, SteppedBack
      <4> QED
        BY <1>1, <2>2, <3>1, <4>1 DEF NoKeyBeyond
    <3>3. ComingIsNew'
      <4> SUFFICES ASSUME pc' \notin Erasing,
                          NEW i \in 1 .. Len(slots), i = Coming', slots[i] \in Keys
                   PROVE  slots[i] > delivered
        BY <1>1 DEF ComingIsNew
      <4>1. pc = "back" /\ pc' = "sleep"
        BY <1>1 DEF Erasing
      <4>2. i <= offset
        BY <2>1, <3>1
      <4>3. i = offset
        BY <1>1, <2>1, <4>1, <4>2 DEF Coming, SteppedBack
      <4>4. Coming = offset
        BY <4>1 DEF Coming, SteppedBack
      <4> QED
        BY <3>0, <4>1, <4>3, <4>4 DEF ComingIsNew, Erasing
    <3>4. ReadIsNew'
      BY <1>1, <3>0 DEF ReadIsNew, Erasing
    <3> QED
      BY <3>2, <3>3, <3>4
  <2> QED
    BY <2>3, <2>4, <2>5 DEF IInv
<1>2. ASSUME IInv, SeekBack("back", "sleep")
      PROVE  IInv'
  <2>1. /\ pc = "back" /\ pc' = "sleep"
        /\ offset' = IF offset = 0 THEN 0 ELSE offset - 1
        /\ slots' = slots /\ typed' = typed /\ delivered' = delivered /\ key' = key
        /\ UNCHANGED <<rewind_file, sleep_timer_ticks, pressed>>
    BY <1>2 DEF SeekBack, ghosts
  <2>2. (pc = "back" /\ pc' = "sleep") \/ (pc = "erase back" /\ pc' = "erase")
    BY <2>1
  <2> QED
    BY <1>1, <1>2, <2>1, <2>2
<1>3. ASSUME IInv, SeekBack("erase back", "erase")
      PROVE  IInv'
  <2>1. /\ pc = "erase back" /\ pc' = "erase"
        /\ offset' = IF offset = 0 THEN 0 ELSE offset - 1
        /\ slots' = slots /\ typed' = typed /\ delivered' = delivered /\ key' = key
        /\ UNCHANGED <<rewind_file, sleep_timer_ticks, pressed>>
    BY <1>3 DEF SeekBack, ghosts
  <2>2. (pc = "back" /\ pc' = "sleep") \/ (pc = "erase back" /\ pc' = "erase")
    BY <2>1
  <2> QED
    BY <1>1, <1>3, <2>1, <2>2
<1> QED
  BY <1>2, <1>3

\* The steps of the sleep, which leave the file alone.
LEMMA SleepStep ==
    ASSUME IInv,
           pc \in {"sleep", "asleep", "again"}, pc' \in {"sleep", "asleep", "again"},
           slots' = slots /\ offset' = offset /\ key' = key,
           typed' = typed /\ delivered' = delivered,
           rewind_file' = rewind_file /\ pressed' = pressed,
           sleep_timer_ticks' \in 0 .. SleepTicks
    PROVE  IInv'
<1>1. TypeOK'
  BY DEF IInv, TypeOK, Waiting
<1>2. HasKey' /\ KeysTyped'
  BY DEF IInv, HasKey, KeysTyped, Erasing
<1>3. Furthest' = Furthest /\ Coming' = Coming
  BY DEF Furthest, Coming, SteppedBack
<1>4. Ordered'
  BY <1>3 DEF IInv, Ordered, NoKeyBeyond, ComingIsNew, ReadIsNew, Erasing
<1> QED
  BY <1>1, <1>2, <1>4 DEF IInv

\* write() of the null record over wherever the offset is.
LEMMA EraseStep ==
    ASSUME IInv, Erase
    PROVE  IInv'
<1>1. Len(slots) \in Nat /\ offset \in Nat /\ offset <= Len(slots) /\ offset \in 0 .. Len(slots)
  BY Numbers
<1>2. /\ pc = "erase" /\ pc' = "busy" /\ key' = NullKey /\ offset' = offset + 1
      /\ rewind_file' = rewind_file /\ sleep_timer_ticks' = sleep_timer_ticks
      /\ typed' = typed /\ pressed' = pressed
      /\ delivered' = IF key = OldKey THEN delivered ELSE key
  BY DEF Erase, Written
<1>3. slots' = IF offset = Len(slots) THEN Append(slots, NullKey)
               ELSE [slots EXCEPT ![offset + 1] = NullKey]
  BY DEF Erase, Written
<1>4. /\ slots' \in Seq(Records) /\ Len(slots') \in Nat /\ offset + 1 <= Len(slots')
      /\ slots'[offset + 1] = NullKey
      /\ \A i \in 1 .. Len(slots') :
             i # offset + 1 => i \in 1 .. Len(slots) /\ slots'[i] = slots[i]
  <2>1. slots \in Seq(Records) /\ NullKey \in Records
    BY RecordKinds DEF IInv, TypeOK
  <2> QED
    BY <1>1, <1>3, <2>1, WrittenRecords
<1>5. key \in Keys \cup {OldKey} /\ key # NullKey
  BY <1>2 DEF IInv, TypeOK, HasKey, Records, Erasing
<1>6. TypeOK'
  <2>1. offset' \in 0 .. Len(slots')
    BY <1>1, <1>2, <1>4
  <2>2. delivered' \in 0 .. typed
    <3>1. key \in Keys => key \in 0 .. typed
      BY Numbers, RecordKinds DEF IInv, KeysTyped
    <3> QED
      BY <1>2, <1>5, <3>1 DEF IInv, TypeOK
  <2>3. pc' \in Waiting \cup Erasing \cup {"busy"} /\ key' \in Records
    BY <1>2, RecordKinds
  <2> QED
    BY <1>2, <1>4, <2>1, <2>2, <2>3 DEF IInv, TypeOK
<1>7. HasKey'
  BY <1>2 DEF HasKey, Erasing
<1>8. KeysTyped'
  BY <1>2, <1>4, RecordKinds DEF IInv, KeysTyped
<1>9. Ordered'
  <2> SUFFICES ASSUME ~rewind_file PROVE (NoKeyBeyond /\ ComingIsNew /\ ReadIsNew)'
    BY <1>2 DEF Ordered
  <2>0. Furthest = offset + 1 /\ Furthest' = offset + 1 /\ Coming' = offset + 1
    BY <1>2 DEF Furthest, Coming, SteppedBack
  <2>1. NoKeyBeyond'
    BY <1>4, <2>0, RecordKinds DEF IInv, Ordered, NoKeyBeyond
  <2>2. ComingIsNew'
    BY <1>4, <2>0, RecordKinds DEF ComingIsNew
  <2>3. ReadIsNew'
    BY <1>2 DEF ReadIsNew, Erasing
  <2> QED
    BY <2>1, <2>2, <2>3
<1> QED
  BY <1>6, <1>7, <1>8, <1>9 DEF IInv

-----------------------------------------------------------------------------
(* The handler, and the theorems.                                          *)

\* A press: the record goes to the offset, or to the start of a file that has
\* been full.
LEMMA PressStep ==
    ASSUME IInv, NEW k \in {typed + 1, NullKey}, keyboard_irq1_handler(k)
    PROVE  IInv'
<1>0. /\ Len(slots) \in Nat /\ offset \in Nat /\ offset \in 0 .. Len(slots)
      /\ typed \in Nat /\ delivered \in Nat /\ delivered <= typed
  BY Numbers
<1>1. /\ typed < MaxTyped /\ typed' = typed + 1 /\ offset' = WriteAt + 1
      /\ rewind_file' = (rewind_file \/ offset' = RingSlots)
      /\ pressed' = [key |-> k, during |-> pc, last |-> offset' = Len(slots')]
      /\ sleep_timer_ticks' = sleep_timer_ticks /\ pc' = pc /\ key' = key
      /\ delivered' = delivered
  BY DEF keyboard_irq1_handler, Written
<1>2. slots' = IF WriteAt = Len(slots) THEN Append(slots, k)
               ELSE [slots EXCEPT ![WriteAt + 1] = k]
  BY DEF keyboard_irq1_handler, Written
<1>3. WriteAt \in 0 .. Len(slots) /\ WriteAt \in Nat
  BY <1>0 DEF WriteAt
<1>4. typed + 1 \in Keys
  BY <1>0, <1>1, SlotsAssumption DEF Keys
<1>5. k \in Keys \cup {NullKey} /\ k \in Records
  BY <1>4, RecordKinds
<1>6. /\ slots' \in Seq(Records) /\ Len(slots') \in Nat /\ WriteAt + 1 <= Len(slots')
      /\ slots'[WriteAt + 1] = k
      /\ \A i \in 1 .. Len(slots') :
             i # WriteAt + 1 => i \in 1 .. Len(slots) /\ slots'[i] = slots[i]
  <2>1. slots \in Seq(Records)
    BY DEF IInv, TypeOK
  <2> QED
    BY <1>2, <1>3, <1>5, <2>1, WrittenRecords
<1>7. TypeOK'
  <2>1. offset' \in 0 .. Len(slots')
    BY <1>1, <1>3, <1>6
  <2>2. typed' \in 0 .. MaxTyped /\ delivered' \in 0 .. typed'
    BY <1>0, <1>1, SlotsAssumption
  <2>3. pressed' \in [key : Keys \cup {NullKey}, during : Waiting \cup Erasing \cup {"busy"}, last : BOOLEAN]
    <3>1. pc \in Waiting \cup Erasing \cup {"busy"} /\ (offset' = Len(slots')) \in BOOLEAN
      BY DEF IInv, TypeOK
    <3> QED
      BY <1>1, <1>5, <3>1
  <2>4. rewind_file' \in BOOLEAN
    BY <1>1
  <2> QED
    BY <1>1, <1>6, <2>1, <2>2, <2>3, <2>4 DEF IInv, TypeOK
<1>8. HasKey'
  BY <1>1 DEF IInv, HasKey
<1>9. KeysTyped'
  <2>1. key' \in Keys => key' <= typed'
    BY <1>0, <1>1, RecordKinds DEF IInv, KeysTyped
  <2>2. ASSUME NEW i \in 1 .. Len(slots'), slots'[i] \in Keys
        PROVE  slots'[i] <= typed'
    <3>1. CASE i = WriteAt + 1
      BY <1>0, <1>1, <1>6, <2>2, <3>1, RecordKinds
    <3>2. CASE i # WriteAt + 1
      <4>1. slots'[i] \in Nat /\ slots'[i] <= typed
        BY <1>6, <2>2, <3>2, RecordKinds DEF IInv, KeysTyped
      <4> QED
        BY <1>0, <1>1, <4>1
    <3> QED
      BY <3>1, <3>2
  <2> QED
    BY <2>1, <2>2 DEF KeysTyped
<1>10. Ordered'
  <2> SUFFICES ASSUME ~rewind_file PROVE (NoKeyBeyond /\ ComingIsNew /\ ReadIsNew)'
    BY <1>1 DEF Ordered
  <2>0. NoKeyBeyond /\ ComingIsNew /\ ReadIsNew
    BY DEF IInv, Ordered
  <2>1. WriteAt = offset /\ offset' = offset + 1
    BY <1>1 DEF WriteAt
  <2>2. \A i \in 1 .. Len(slots') : i > offset + 1 => slots'[i] \notin Keys
    <3>1. \A i \in 1 .. Len(slots) : i > offset + 1 => slots[i] \notin Keys
      BY <1>0, <2>0 DEF NoKeyBeyond, Furthest
    <3> QED
      BY <1>6, <2>1, <3>1
  <2>3. NoKeyBeyond'
    <3>1. CASE pc \in SteppedBack
      <4>1. Furthest' = offset + 2
        BY <1>0, <1>1, <2>1, <3>1 DEF Furthest
      <4> QED
        BY <1>0, <1>6, <2>2, <4>1 DEF NoKeyBeyond
    <3>2. CASE pc \notin SteppedBack
      <4>1. Furthest' = offset + 1
        BY <1>1, <2>1, <3>2 DEF Furthest
      <4> QED
        BY <2>2, <4>1 DEF NoKeyBeyond
    <3> QED
      BY <3>1, <3>2
  <2>4. ComingIsNew'
    <3> SUFFICES ASSUME NEW i \in 1 .. Len(slots'), i = Coming', slots'[i] \in Keys
                 PROVE  slots'[i] > delivered
      BY <1>1 DEF ComingIsNew
    <3>1. i <= offset + 1
      BY <1>0, <1>6, <2>2
    <3>2. i = offset + 1
      <4>1. Coming' = offset + 1 \/ Coming' = offset + 2
        BY <1>0, <2>1 DEF Coming
      <4> QED
        BY <1>0, <3>1, <4>1
    <3>3. slots'[i] = k /\ k = typed + 1
      BY <1>6, <2>1, <3>2, RecordKinds
    <3> QED
      BY <1>0, <3>3
  <2>5. ReadIsNew'
    BY <1>1, <2>0 DEF ReadIsNew
  <2> QED
    BY <2>3, <2>4, <2>5
<1> QED
  BY <1>7, <1>8, <1>9, <1>10 DEF IInv

LEMMA NextInvariant == IInv /\ [Next]_vars => IInv'
<1> SUFFICES ASSUME IInv, [Next]_vars PROVE IInv'
  OBVIOUS
<1>1. CASE get_key
  BY <1>1, ReadStep DEF get_key
<1>2. CASE SeekBack("back", "sleep") \/ SeekBack("erase back", "erase")
  BY <1>2, SeekBackStep
<1>3. CASE StartSleep
  <2>1. SleepTicks \in 0 .. SleepTicks
    BY SlotsAssumption
  <2> QED
    BY <1>3, <2>1, SleepStep DEF StartSleep, file, ghosts
<1>4. CASE Wake
  <2>1. sleep_timer_ticks \in 0 .. SleepTicks
    BY DEF IInv, TypeOK
  <2> QED
    BY <1>4, <2>1, SleepStep DEF Wake, file, ghosts
<1>5. CASE ReadAgain
  BY <1>5, ReadStep DEF ReadAgain
<1>6. CASE Erase
  BY <1>6, EraseStep
<1>7. CASE timer_irq0_handler
  <2>1. sleep_timer_ticks' \in 0 .. SleepTicks
    BY <1>7, SlotsAssumption DEF IInv, TypeOK, timer_irq0_handler
  <2>2. /\ slots' = slots /\ offset' = offset /\ rewind_file' = rewind_file /\ pc' = pc
        /\ key' = key /\ typed' = typed /\ pressed' = pressed /\ delivered' = delivered
    BY <1>7 DEF timer_irq0_handler, file, ghosts
  <2>3. TypeOK'
    BY <2>1, <2>2 DEF IInv, TypeOK
  <2> QED
    BY <2>2, <2>3 DEF IInv, HasKey, KeysTyped, Ordered, NoKeyBeyond, ComingIsNew, ReadIsNew, Furthest, Coming
<1>8. CASE keyboard_irq1_handler(typed + 1) \/ keyboard_irq1_handler(NullKey)
  BY <1>8, PressStep
<1>9. CASE UNCHANGED vars
  BY <1>9 DEF vars, file, ghosts, IInv, TypeOK, HasKey, KeysTyped, Ordered, NoKeyBeyond, ComingIsNew, ReadIsNew,
     Furthest, Coming
<1> QED
  BY <1>1, <1>2, <1>3, <1>4, <1>5, <1>6, <1>7, <1>8, <1>9 DEF Next, Reader

THEOREM Invariant == Spec => []IInv
<1>1. Init => IInv
  BY InitInvariant
<1>2. IInv /\ [Next]_vars => IInv'
  BY NextInvariant
<1> QED
  BY <1>1, <1>2, PTL DEF Spec

\* Every variable keeps its type, and the offset stays within the file: no read()
\* finds it beyond the end, whoever moved it last (pic.h, keyboard.h).
THEOREM TypeCorrect == Spec => []TypeOK
<1>1. IInv => TypeOK
  BY DEF IInv
<1> QED
  BY <1>1, Invariant, PTL

\* Until the file has been full get_key() returns the keys of the session in the
\* order they were pressed and none twice, for files of every length, whatever
\* the last session left in them.
THEOREM KeysInOrder == Spec => InOrderUntilFull
<1>1. IInv /\ [Next]_vars =>
        [pc = "erase" /\ pc' = "busy" /\ key # OldKey => delivered' > delivered \/ rewind_file]_vars
  <2> SUFFICES ASSUME IInv, Next, pc = "erase", pc' = "busy", key # OldKey, ~rewind_file
               PROVE  delivered' > delivered
    OBVIOUS
  <2>1. Erase
    BY DEF Next, Reader, get_key, ReadAgain, SeekBack, StartSleep, Wake,
       timer_irq0_handler, keyboard_irq1_handler
  <2>2. key \in Keys
    BY DEF IInv, TypeOK, HasKey, Records, Erasing
  <2>3. delivered' = key
    BY <2>1 DEF Erase
  <2> QED
    BY <2>2, <2>3 DEF IInv, Ordered, ReadIsNew, Erasing
<1> QED
  BY <1>1, Invariant, PTL DEF Spec, InOrderUntilFull
================================================================================
