---------------------------- MODULE Clock_proofs ----------------------------
(***************************************************************************)
(* What the handler of the clock's interrupt stores is a time the clock    *)
(* has shown, whatever time it starts from and however the clock's updates *)
(* fall among the handler's reads.                                         *)
(***************************************************************************)
EXTENDS Clock, TLAPS

\* The time n seconds after t, for less than a minute: only once do fields other
\* than the seconds change.
NextMinute(t) == NextSecond([t EXCEPT !.second = 59])

Later(t, n) ==
    IF t.second + n < 60 THEN [t EXCEPT !.second = t.second + n]
    ELSE [NextMinute(t) EXCEPT !.second = t.second + n - 60]

Reg(t, n) == Registers(Later(t, n))

-----------------------------------------------------------------------------
(* Times                                                                   *)

\* The clock goes from one time of the calendar to another.
LEMMA NextIsTime ==
    ASSUME NEW t, IsTime(t)
    PROVE  IsTime(NextSecond(t))
<1> DEFINE u == NextSecond(t)
<1>1. t \in [FieldNames -> Nat]
  BY DEF IsTime
<1>2. t.second \in Nat /\ t.minute \in Nat /\ t.hour \in Nat
      /\ t.day \in Nat /\ t.month \in Nat /\ t.year \in Nat
  BY <1>1 DEF FieldNames
<1>3. /\ u.second \in 0 .. 59 /\ u.minute \in 0 .. 59 /\ u.hour \in 0 .. 23
      /\ u.month \in 1 .. 12 /\ u.year \in 0 .. 99
  BY <1>2 DEF IsTime, NextSecond, DaysIn
<1>4. u.day \in Nat /\ u.day > 0 /\ u.day <= DaysIn(u)
  BY <1>2 DEF IsTime, NextSecond, DaysIn
<1>5. u = [f \in FieldNames |-> u[f]]
  BY DEF NextSecond, FieldNames
<1>6. u \in [FieldNames -> Nat]
  BY <1>3, <1>4, <1>5 DEF FieldNames
<1> QED BY <1>3, <1>4, <1>6 DEF IsTime


LEMMA NextMinuteIsTime ==
    ASSUME NEW t, IsTime(t)
    PROVE  IsTime(NextMinute(t))
<1>1. IsTime([t EXCEPT !.second = 59])
  BY DEF IsTime, FieldNames, DaysIn
<1> QED BY <1>1, NextIsTime DEF NextMinute

LEMMA LaterNextMinute ==
    ASSUME NEW t, NEW n \in Nat, NEW r, r = t.second + n - 60, ~ (t.second + n < 60)
    PROVE  Later(t, n) = [NextMinute(t) EXCEPT !.second = r]
BY DEF Later

LEMMA LaterIsTime ==
    ASSUME NEW t, IsTime(t), NEW n \in Nat, n < 60
    PROVE  IsTime(Later(t, n))
<1> DEFINE s == t.second + n
           r == s - 60
           u == NextMinute(t)
<1>1. t \in [FieldNames -> Nat] /\ t.second \in Nat /\ t.second < 60
  BY DEF IsTime, FieldNames
<1>2. CASE s < 60
  <2>1. Later(t, n) = [t EXCEPT !.second = s]
    BY <1>2 DEF Later
  <2>2. s \in Nat
    BY <1>1
  <2> HIDE DEF s
  <2> QED BY <1>1, <1>2, <2>1, <2>2 DEF IsTime, FieldNames, DaysIn
<1>3. CASE ~ (s < 60)
  <2>1. Later(t, n) = [u EXCEPT !.second = r]
    <3>1. r = t.second + n - 60 /\ ~ (t.second + n < 60)
      BY <1>1, <1>3
    <3> HIDE DEF r, s
    <3> QED BY <3>1, LaterNextMinute
  <2>2. IsTime(u)
    BY NextMinuteIsTime
  <2>3. r \in Nat /\ r < 60
    BY <1>1, <1>3
  <2> HIDE DEF s, u, r
  <2> QED BY <2>1, <2>2, <2>3 DEF IsTime, FieldNames, DaysIn
<1> QED BY <1>2, <1>3

LEMMA LaterNow ==
    ASSUME NEW t, IsTime(t)
    PROVE  Later(t, 0) = t
BY DEF Later, IsTime, FieldNames

\* The clock's next time is the one a second later, if a minute has not gone by.
LEMMA LaterNext ==
    ASSUME NEW t, IsTime(t), NEW n \in Nat, n + 1 < 60
    PROVE  NextSecond(Later(t, n)) = Later(t, n + 1)
<1> DEFINE s == t.second + n
           last == [t EXCEPT !.second = 59]
<1>1. t \in [FieldNames -> Nat] /\ t.second \in Nat /\ t.second < 60
  BY DEF IsTime, FieldNames
<1>2. s \in Nat /\ t.second + (n + 1) = s + 1
  BY <1>1
<1>3. CASE s < 59
  <2>1. Later(t, n) = [t EXCEPT !.second = s] /\ Later(t, n + 1) = [t EXCEPT !.second = s + 1]
    BY <1>2, <1>3 DEF Later
  <2> HIDE DEF s
  <2> QED BY <1>1, <1>2, <1>3, <2>1 DEF NextSecond, FieldNames
<1>4. CASE s = 59
  <2>1. Later(t, n) = last
    BY <1>4 DEF Later
  <2>2. Later(t, n + 1) = [NextSecond(last) EXCEPT !.second = 0]
    <3>1. 0 = t.second + (n + 1) - 60 /\ ~ (t.second + (n + 1) < 60) /\ n + 1 \in Nat
      BY <1>1, <1>2, <1>4
    <3> QED BY <3>1, LaterNextMinute DEF NextMinute
  <2>3. last.second = 59
    BY <1>1 DEF FieldNames
  <2> HIDE DEF s, last
  <2>4. [NextSecond(last) EXCEPT !.second = 0] = NextSecond(last)
    BY <2>3 DEF NextSecond
  <2> QED BY <2>1, <2>2, <2>4
<1>5. CASE s > 59
  <2> DEFINE u == NextMinute(t)
             r == s - 60
  <2>1. Later(t, n) = [u EXCEPT !.second = r] /\ Later(t, n + 1) = [u EXCEPT !.second = r + 1]
    <3>1. r = t.second + n - 60 /\ ~ (t.second + n < 60)
          /\ r + 1 = t.second + (n + 1) - 60 /\ ~ (t.second + (n + 1) < 60) /\ n + 1 \in Nat
      BY <1>1, <1>5
    <3> HIDE DEF s, r
    <3> QED BY <3>1, LaterNextMinute
  <2>2. IsTime(u)
    BY NextMinuteIsTime
  <2>3. r \in Nat /\ r < 59
    BY <1>1, <1>2, <1>5
  <2> HIDE DEF s, last, u, r
  <2>4. NextSecond([u EXCEPT !.second = r]) = [u EXCEPT !.second = r + 1]
    BY <2>2, <2>3 DEF NextSecond, IsTime, FieldNames
  <2> QED BY <2>1, <2>3, <2>4
<1> QED BY <1>2, <1>3, <1>4, <1>5

\* A field that is the same at two times less than a minute apart has not changed
\* in between: seconds do not come again, and other fields change once.
LEMMA SameBetween ==
    ASSUME NEW t, IsTime(t), NEW f \in FieldNames,
           NEW i \in Nat, NEW w \in Nat, NEW j \in Nat, i <= w, w <= j, j < 60,
           Later(t, i)[f] = Later(t, j)[f]
    PROVE  Later(t, w)[f] = Later(t, i)[f]
<1> DEFINE u == NextMinute(t)
           s == t.second
<1>1. t \in [FieldNames -> Nat] /\ s \in Nat /\ s < 60
  BY DEF IsTime, FieldNames
<1>2. u \in [FieldNames -> Nat]
  BY NextMinuteIsTime DEF IsTime
<1>3. \A n \in Nat : Later(t, n) = IF s + n < 60 THEN [t EXCEPT !.second = s + n]
                                   ELSE [u EXCEPT !.second = s + n - 60]
  BY DEF Later
<1> HIDE DEF u, s
<1>4. CASE f = "second"
  <2>1. \A n \in Nat : Later(t, n)[f] = IF s + n < 60 THEN s + n ELSE s + n - 60
    BY <1>1, <1>2, <1>3, <1>4 DEF FieldNames
  <2>2. i = j
    BY <2>1, <1>1
  <2> QED BY <2>2
<1>5. CASE f # "second"
  <2>1. \A n \in Nat : Later(t, n)[f] = IF s + n < 60 THEN t[f] ELSE u[f]
    BY <1>1, <1>2, <1>3, <1>5 DEF FieldNames
  <2> HIDE DEF Later
  <2> QED BY <2>1, <1>1
<1> QED BY <1>4, <1>5

-----------------------------------------------------------------------------
(* Registers                                                               *)

LEMMA Bcd ==
    ASSUME NEW v \in 0 .. 99
    PROVE  /\ ToBcd(v) \in 0 .. 255 /\ FromBcd(ToBcd(v)) = v
<1>1. 16 * (v \div 10) + (v % 10) \in 0 .. 255
  OBVIOUS
<1>2. CASE bcd
  <2> DEFINE r == 16 * (v \div 10) + (v % 10)
  <2>1. r % 16 = v % 10 /\ r \div 16 = v \div 10
    OBVIOUS
  <2>2. v = (v % 10) + (v \div 10) * 10
    OBVIOUS
  <2> QED BY <1>1, <1>2, <2>1, <2>2 DEF ToBcd, FromBcd
<1>3. CASE ~ bcd
  BY <1>3 DEF ToBcd, FromBcd
<1> QED BY <1>2, <1>3

\* The two twelves of 12 hour mode are told apart by the top bit, and read as
\* each other.
LEMMA Hours ==
    ASSUME NEW h \in 0 .. 23
    PROVE  /\ HourRegister(h) \in 0 .. 255
           /\ Hour24(BinaryHour(HourRegister(h)))
                  = IF hour12 /\ h = 12 THEN 0 ELSE IF hour12 /\ h = 0 THEN 12 ELSE h
<1> DEFINE m == IF h % 12 = 0 THEN 12 ELSE h % 12
           top == IF h >= 12 THEN 128 ELSE 0
<1>1. m \in 1 .. 12 /\ top \in {0, 128}
  OBVIOUS
<1>2. \A v \in 0 .. 23 : ToBcd(v) \in 0 .. 127 /\ (bcd => ToBcd(v) = 16 * (v \div 10) + (v % 10))
                         /\ (~ bcd => ToBcd(v) = v)
  BY DEF ToBcd
<1>3. CASE ~ hour12
  <2>1. HourRegister(h) = ToBcd(h)
    BY <1>3 DEF HourRegister
  <2>2. BinaryHour(ToBcd(h)) = h
    BY <1>2 DEF BinaryHour
  <2> QED BY <1>2, <1>3, <2>1, <2>2 DEF Hour24
<1>4. CASE hour12
  <2>1. HourRegister(h) = ToBcd(m) + top
    BY <1>4 DEF HourRegister
  <2>2. BinaryHour(ToBcd(m) + top) = m + top
    <3>1. CASE bcd
      <4>1. ToBcd(m) = 16 * (m \div 10) + (m % 10)
        BY <1>1, <1>2, <3>1
      <4> HIDE DEF m, top
      <4> QED BY <1>1, <3>1, <4>1 DEF BinaryHour
    <3>2. CASE ~ bcd
      BY <1>1, <1>2, <3>2 DEF BinaryHour
    <3> QED BY <3>1, <3>2
  <2>3. Hour24(m + top) = IF h = 12 THEN 0 ELSE IF h = 0 THEN 12 ELSE h
    BY <1>4 DEF Hour24
  <2>4. ToBcd(m) + top \in 0 .. 255
    <3> HIDE DEF m, top
    <3>1. ToBcd(m) \in 0 .. 127
      BY <1>1, <1>2
    <3> QED BY <1>1, <3>1
  <2> QED BY <1>4, <2>1, <2>2, <2>3, <2>4
<1> QED BY <1>3, <1>4

\* A register holds a byte, and what it holds tells the field's value.
LEMMA FieldRanges ==
    ASSUME NEW t, IsTime(t), NEW f \in FieldNames
    PROVE  t[f] \in 0 .. 99
<1>1. t \in [FieldNames -> Nat]
  BY DEF IsTime
<1>2. t.day \in Nat /\ t.month \in Nat /\ t.year \in Nat /\ t.day <= DaysIn(t)
  BY <1>1 DEF IsTime, FieldNames
<1>3. t.day <= 31
  BY <1>2 DEF DaysIn
<1> QED BY <1>1, <1>2, <1>3 DEF IsTime, FieldNames

LEMMA RegisterTypes ==
    ASSUME NEW t, IsTime(t)
    PROVE  Registers(t) \in [FieldNames -> 0 .. ByteModulus - 1]
<1>1. ByteModulus \in Nat /\ ByteModulus > 255
  BY TimesAssumption
<1>2. t \in [FieldNames -> Nat] /\ t.hour \in 0 .. 23
  BY DEF IsTime, FieldNames
<1>3. \A f \in FieldNames : t[f] \in 0 .. 99
  BY FieldRanges
<1>4. HourRegister(t.hour) \in 0 .. 255
  BY <1>2, Hours
<1>5. \A f \in FieldNames : ToBcd(t[f]) \in 0 .. 255
  BY <1>3, Bcd
<1>6. \A f \in FieldNames : Registers(t)[f] \in 0 .. 255
  BY <1>4, <1>5 DEF Registers
<1> QED BY <1>1, <1>6 DEF Registers

LEMMA RegistersTell ==
    ASSUME NEW t, IsTime(t), NEW u, IsTime(u), NEW f \in FieldNames,
           Registers(t)[f] = Registers(u)[f]
    PROVE  t[f] = u[f]
<1>1. t[f] \in 0 .. 99 /\ u[f] \in 0 .. 99
  BY FieldRanges
<1>2. CASE f = "hour"
  <2>1. t.hour \in 0 .. 23 /\ u.hour \in 0 .. 23
    BY DEF IsTime, FieldNames
  <2>2. HourRegister(t.hour) = HourRegister(u.hour)
    BY <1>2 DEF Registers
  <2> DEFINE back(h) == IF hour12 /\ h = 12 THEN 0 ELSE IF hour12 /\ h = 0 THEN 12 ELSE h
  <2>3. back(t.hour) = back(u.hour)
    <3> HIDE DEF back
    <3>1. /\ Hour24(BinaryHour(HourRegister(t.hour))) = back(t.hour)
          /\ Hour24(BinaryHour(HourRegister(u.hour))) = back(u.hour)
      BY <2>1, Hours DEF back
    <3> QED BY <2>2, <3>1
  <2>4. t.hour = u.hour
    BY <2>1, <2>3
  <2> QED BY <1>2, <2>4
<1>3. CASE f # "hour"
  <2>1. ToBcd(t[f]) = ToBcd(u[f])
    BY <1>3 DEF Registers
  <2>2. FromBcd(ToBcd(t[f])) = t[f] /\ FromBcd(ToBcd(u[f])) = u[f]
    BY <1>1, Bcd
  <2> QED BY <2>1, <2>2
<1> QED BY <1>2, <1>3

\* The handler converts the registers of a time to that time, with its century.
LEMMA ConvertedRegisters ==
    ASSUME NEW t, IsTime(t)
    PROVE  Converted(Registers(t)) = Calendar(Swapped(t))
<1> DEFINE r == Registers(t)
           c == Calendar(Swapped(t))
           h == IF hour12 /\ t.hour = 12 THEN 0 ELSE IF hour12 /\ t.hour = 0 THEN 12 ELSE t.hour
<1>1. ByteModulus \in Nat /\ ByteModulus > 255
  BY TimesAssumption
<1>2. t \in [FieldNames -> Nat] /\ t.hour \in 0 .. 23
  BY DEF IsTime, FieldNames
<1>3. \A f \in FieldNames : t[f] \in 0 .. 99
  BY FieldRanges
<1>4. c = [f \in FieldNames |-> IF f = "hour" THEN h ELSE IF f = "year" THEN t[f] + 2000 ELSE t[f]]
  <2> HIDE DEF h
  <2>1. Swapped(t) = [t EXCEPT !.hour = h]
    BY <1>2 DEF Swapped, h, FieldNames
  <2>2. c = [Swapped(t) EXCEPT !.year = t.year + 2000]
    BY <1>2, <2>1 DEF Calendar, FieldNames
  <2> DEFINE w == Swapped(t)
             y == t.year + 2000
  <2>3. y \in Nat /\ h \in Nat
    BY <1>2 DEF FieldNames, h
  <2> HIDE DEF c, w, y
  <2>4. w = [f \in FieldNames |-> IF f = "hour" THEN h ELSE t[f]]
    BY <1>2, <2>1 DEF FieldNames, w
  <2>5. c = [f \in FieldNames |-> IF f = "year" THEN y ELSE w[f]]
    BY <2>2, <2>4 DEF FieldNames, w, y
  <2> QED BY <2>4, <2>5 DEF y, FieldNames
<1>5. Hour24(BinaryHour(r.hour)) % ByteModulus = h
  <2>1. r.hour = HourRegister(t.hour)
    BY DEF Registers, FieldNames
  <2>2. Hour24(BinaryHour(r.hour)) = h
    BY <1>2, <2>1, Hours
  <2>3. h \in 0 .. 23
    BY <1>2
  <2> HIDE DEF h, r
  <2> QED BY <1>1, <2>2, <2>3
<1>6. ASSUME NEW f \in FieldNames \ {"hour"}
      PROVE  FromBcd(r[f]) = t[f] /\ t[f] % ByteModulus = t[f]
  <2>1. r[f] = ToBcd(t[f])
    BY DEF Registers
  <2>2. FromBcd(r[f]) = t[f]
    BY <1>3, <2>1, Bcd
  <2> DEFINE v == t[f]
  <2>3. v \in 0 .. 99
    BY <1>3
  <2>4. v % ByteModulus = v
    <3> HIDE DEF v
    <3> QED BY <1>1, <2>3
  <2> QED BY <2>2, <2>4
<1>7. Converted(r) = [f \in FieldNames |->
                         IF f = "hour" THEN h ELSE IF f = "year" THEN t[f] + 2000 ELSE t[f]]
  <2> HIDE DEF r, h
  <2> QED BY <1>5, <1>6 DEF Converted, FieldNames
<1> QED BY <1>4, <1>7

-----------------------------------------------------------------------------
(* Types                                                                   *)

\* An update that is under way is counted.
TypeInv == TypeOK /\ IsTime(time) /\ (updating => seconds > 0)

LEMMA FieldsAre ==
    /\ Len(Fields) = 6 /\ \A i \in 1 .. 6 : Fields[i] \in FieldNames
    /\ \A f \in FieldNames : \E i \in 1 .. 6 : Fields[i] = f
BY DEF Fields, FieldNames

LEMMA TypeInitial == Init => TypeInv
<1> SUFFICES ASSUME Init PROVE TypeInv
  OBVIOUS
<1>1. IsTime(time)
  BY TimesAssumption DEF Init
<1>2. regs \in [FieldNames -> 0 .. ByteModulus - 1]
  BY <1>1, RegisterTypes DEF Init
<1>3. ByteModulus \in Nat /\ ByteModulus > 255 /\ MaxSeconds \in Nat /\ MaxInterrupts \in Nat
  BY TimesAssumption
<1>4. NoReading \in [FieldNames -> 0 .. ByteModulus - 1] /\ \A f \in FieldNames : NoReading[f] = 0
  BY <1>3 DEF NoReading
<1>5. /\ pc = "wait" /\ at = 1 /\ updating = FALSE /\ again = FALSE /\ seconds = 0
      /\ interrupts = 0
      /\ new_datetime = NoReading /\ old_datetime = NoReading /\ datetime = NoReading
  BY DEF Init
<1>6. at \in 1 .. Len(Fields) + 1
  BY <1>5, FieldsAre
<1>7. /\ seconds \in 0 .. MaxSeconds /\ interrupts \in 0 .. MaxInterrupts
      /\ \A f \in FieldNames \ {"year"} : datetime[f] < ByteModulus
  BY <1>3, <1>4, <1>5
<1> QED BY <1>1, <1>2, <1>4, <1>5, <1>6, <1>7 DEF TypeInv, TypeOK

LEMMA TypeNext ==
    ASSUME TypeInv, [Next]_vars
    PROVE  TypeInv'
<1>1. ByteModulus \in Nat /\ ByteModulus > 255 /\ MaxSeconds \in Nat /\ MaxInterrupts \in Nat
  BY TimesAssumption
<1>2. CASE BeginUpdate
  <2>1. IsTime(time')
    BY <1>2, NextIsTime DEF BeginUpdate, TypeInv
  <2>2. seconds' \in 0 .. MaxSeconds /\ seconds' > 0
    BY <1>1, <1>2 DEF BeginUpdate, TypeInv, TypeOK
  <2> QED BY <1>2, <2>1, <2>2 DEF BeginUpdate, handler, TypeInv, TypeOK
<1>3. CASE EndUpdate
  BY <1>3 DEF EndUpdate, handler, TypeInv, TypeOK
<1>4. ASSUME NEW f \in FieldNames, ChangeRegister(f) PROVE TypeInv'
  <2>1. Registers(time)[f] \in 0 .. ByteModulus - 1
    BY RegisterTypes DEF TypeInv
  <2>2. regs' \in [FieldNames -> 0 .. ByteModulus - 1]
    BY <1>4, <2>1 DEF ChangeRegister, TypeInv, TypeOK
  <2> QED BY <1>4, <2>2 DEF ChangeRegister, handler, TypeInv, TypeOK
<1>5. CASE WaitForUpdate
  <2>1. at' \in 1 .. Len(Fields) + 1
    BY <1>5, FieldsAre DEF WaitForUpdate
  <2> QED BY <1>5, <2>1 DEF WaitForUpdate, clock, TypeInv, TypeOK
<1>6. CASE get_rtc_register
  <2>1. at \in 1 .. 6 /\ Fields[at] \in FieldNames
    BY <1>6, FieldsAre DEF get_rtc_register, TypeInv, TypeOK
  <2>2. at' \in 1 .. Len(Fields) + 1
    BY <1>6, <2>1, FieldsAre DEF get_rtc_register
  <2>3. new_datetime' \in [FieldNames -> 0 .. ByteModulus - 1]
    <3>1. regs[Fields[at]] \in 0 .. ByteModulus - 1
      BY <2>1 DEF TypeInv, TypeOK
    <3> QED BY <1>6, <2>1, <3>1 DEF get_rtc_register, TypeInv, TypeOK
  <2> QED BY <1>6, <2>2, <2>3 DEF get_rtc_register, clock, TypeInv, TypeOK
<1>7. CASE ReadAgain
  BY <1>7 DEF ReadAgain, OldReading, clock, TypeInv, TypeOK
<1>8. CASE Store
  <2> DEFINE r == new_datetime
  <2>1. \A f \in FieldNames : r[f] \in Nat
    BY <1>1 DEF TypeInv, TypeOK
  <2> HIDE DEF r
  <2>2. \A f \in FieldNames : FromBcd(r[f]) \in Nat
    BY <2>1 DEF FromBcd
  <2>3. Hour24(BinaryHour(r.hour)) \in Nat
    <3>1. r.hour \in Nat
      BY <2>1 DEF FieldNames
    <3>2. BinaryHour(r.hour) \in Nat
      BY <3>1 DEF BinaryHour
    <3> QED BY <3>2 DEF Hour24
  <2>4. \A n \in Nat : n % ByteModulus < ByteModulus
    BY <1>1
  <2>5. \A f \in FieldNames \ {"year"} : Converted(r)[f] < ByteModulus
    BY <2>2, <2>3, <2>4 DEF Converted
  <2> QED BY <1>8, <2>5 DEF Store, clock, TypeInv, TypeOK, r
<1>9. CASE cmos_rtc_irq8_handler
  <2>1. seconds' \in 0 .. MaxSeconds /\ (updating => seconds' > 0)
    BY <1>1, <1>9 DEF cmos_rtc_irq8_handler, TypeInv, TypeOK
  <2>2. interrupts' \in 0 .. MaxInterrupts
    BY <1>1, <1>9 DEF cmos_rtc_irq8_handler, TypeInv, TypeOK
  <2> QED BY <1>9, <2>1, <2>2 DEF cmos_rtc_irq8_handler, TypeInv, TypeOK
<1>10. CASE UNCHANGED vars
  BY <1>10 DEF vars, clock, handler, TypeInv, TypeOK
<1> QED BY <1>2, <1>3, <1>4, <1>5, <1>6, <1>7, <1>8, <1>9, <1>10 DEF Next, Cmos, Handler

\* A register and what is read of it is a byte, whatever the clock shows at first.
THEOREM TypeCorrect == Spec => []TypeOK
<1>1. Spec => []TypeInv
  BY TypeInitial, TypeNext, PTL DEF Spec
<1>2. TypeInv => TypeOK
  BY DEF TypeInv
<1> QED BY <1>1, <1>2, PTL

-----------------------------------------------------------------------------
(* What is read and what was shown                                         *)

\* What field f held at one of the seconds from a to b.
Held(t, v, f, a, b) == \E i \in a .. b : v = Reg(t, i)[f]

HasRead(f) == \E i \in 1 .. Len(Fields) : i < at /\ Fields[i] = f

\* The registers are those of the time that is shown, or change to those of the next.
RegistersFrom(t) ==
    /\ time = Later(t, seconds)
    /\ ~ updating => regs = Registers(time) /\ time \in shown
    /\ updating =>
           /\ seconds > 0
           /\ \A f \in FieldNames : regs[f] \in {Reg(t, seconds - 1)[f], Registers(time)[f]}

\* In second w the flag was clear before this reading and after the one before:
\* every field was read before it last time, and has been read after it now.
Between(t, w) ==
    /\ Later(t, w) \in shown /\ (updating => w < seconds)
    /\ again => \A f \in FieldNames : Held(t, old_datetime[f], f, 0, w)
    /\ \A f \in FieldNames : HasRead(f) => Held(t, new_datetime[f], f, w, seconds)

ReadingFrom(t) ==
    /\ pc = "wait" /\ again =>
           \A f \in FieldNames : Held(t, old_datetime[f], f, 0, seconds)
    /\ pc = "read" => \E w \in 0 .. seconds : Between(t, w)

ShownFrom(t) == RegistersFrom(t) /\ ReadingFrom(t)

\* For some time t, that of the interrupt or the one before.
ShownInv == StoredWasShown /\ \E t : IsTime(t) /\ ShownFrom(t)

LEMMA ShownInitial == Init => ShownInv
<1> SUFFICES ASSUME Init PROVE ShownInv
  OBVIOUS
<1>1. time \in StartTimes /\ IsTime(time)
  BY TimesAssumption DEF Init
<1>2. Later(time, seconds) = time
  BY <1>1, LaterNow DEF Init
<1> QED BY <1>1, <1>2 DEF Init, ShownInv, StoredWasShown, ShownFrom, RegistersFrom, ReadingFrom

\* The clock's steps leave what was read, and what was held is not lost.
LEMMA ClockStep ==
    ASSUME TypeInv, TypeInv', StoredWasShown, NEW t, IsTime(t), ShownFrom(t),
           UNCHANGED <<bcd, hour12, handler>>,
           shown \subseteq shown', seconds <= seconds',
           updating' => updating \/ seconds < seconds', RegistersFrom(t)'
    PROVE  StoredWasShown' /\ ShownFrom(t)'
<1>1. /\ bcd' = bcd /\ hour12' = hour12 /\ pc' = pc /\ at' = at /\ again' = again
      /\ new_datetime' = new_datetime /\ old_datetime' = old_datetime /\ datetime' = datetime
  BY DEF handler
<1>2. seconds \in Nat /\ seconds' \in Nat
  BY TimesAssumption DEF TypeInv, TypeOK
<1>3. StoredWasShown'
  <2>1. \A u : Calendar(Swapped(u))' = Calendar(Swapped(u))
    BY <1>1 DEF Calendar, Swapped
  <2> QED BY <1>1, <2>1 DEF StoredWasShown
<1>4. \A i, f : (Reg(t, i)[f])' = Reg(t, i)[f]
  BY <1>1 DEF Reg, Registers, HourRegister, ToBcd
<1>5. \A v, f, a, b : Held(t, v, f, a, b)' <=> Held(t, v, f, a, b)
  BY <1>4 DEF Held
<1>6. \A v, f : \A a \in Nat : Held(t, v, f, a, seconds) => Held(t, v, f, a, seconds')
  BY <1>2 DEF Held
<1>7. \A f : HasRead(f)' <=> HasRead(f)
  BY <1>1 DEF HasRead
<1>8. ReadingFrom(t)'
  <2>1. ASSUME pc' = "wait", again'
        PROVE  \A f \in FieldNames : Held(t, old_datetime'[f], f, 0, seconds')
    BY <1>1, <1>6, <2>1 DEF ShownFrom, ReadingFrom
  <2>2. ASSUME pc' = "read"
        PROVE  \E w \in 0 .. seconds' : Between(t, w)'
    <3>1. PICK w \in 0 .. seconds : Between(t, w)
      BY <1>1, <2>2 DEF ShownFrom, ReadingFrom
    <3>2. w \in Nat /\ w \in 0 .. seconds'
      BY <1>2
    <3>3. \A f \in FieldNames : HasRead(f) => Held(t, new_datetime[f], f, w, seconds')
      BY <1>6, <3>1, <3>2 DEF Between
    <3>4. Between(t, w)'
      <4>1. updating' => w < seconds'
        BY <1>2, <3>1 DEF Between
      <4> QED BY <1>1, <1>5, <1>7, <3>1, <3>3, <4>1 DEF Between
    <3> QED BY <3>2, <3>4
  <2> QED BY <1>5, <2>1, <2>2 DEF ReadingFrom
<1> QED BY <1>3, <1>8 DEF ShownFrom

LEMMA BeginUpdateShown ==
    ASSUME MaxSeconds < 60, TypeInv, TypeInv', StoredWasShown,
           NEW t, IsTime(t), ShownFrom(t), BeginUpdate
    PROVE  StoredWasShown' /\ ShownFrom(t)'
<1>1. /\ updating' /\ ~ updating /\ seconds' = seconds + 1 /\ time' = NextSecond(time)
      /\ UNCHANGED <<regs, shown, bcd, hour12, handler>>
  BY DEF BeginUpdate, TypeInv, TypeOK
<1>2. seconds \in Nat /\ seconds + 1 < 60 /\ seconds' - 1 = seconds /\ seconds' > 0
      /\ shown \subseteq shown' /\ seconds < seconds' /\ seconds <= seconds'
  BY <1>1, TimesAssumption DEF BeginUpdate, TypeInv, TypeOK
<1>3. IsTime(t)
  OBVIOUS
<1>4. time' = Later(t, seconds')
  BY <1>1, <1>2, <1>3, LaterNext DEF ShownFrom, RegistersFrom
<1>5. \A f \in FieldNames : regs'[f] = (Reg(t, seconds - 1)[f])'
  <2>1. regs = Reg(t, seconds)
    BY <1>1 DEF ShownFrom, RegistersFrom, Reg
  <2>2. \A i, f : (Reg(t, i)[f])' = Reg(t, i)[f]
    BY <1>1 DEF Reg, Registers, HourRegister, ToBcd
  <2> QED BY <1>1, <1>2, <2>1, <2>2
<1>6. RegistersFrom(t)'
  BY <1>1, <1>2, <1>4, <1>5 DEF RegistersFrom
<1> QED BY <1>1, <1>2, <1>6, ClockStep

LEMMA ChangeRegisterShown ==
    ASSUME TypeInv, TypeInv', StoredWasShown,
           NEW t, IsTime(t), ShownFrom(t), NEW g \in FieldNames, ChangeRegister(g)
    PROVE  StoredWasShown' /\ ShownFrom(t)'
<1>1. /\ updating /\ updating' = updating /\ seconds' = seconds /\ time' = time
      /\ regs' = [regs EXCEPT ![g] = Registers(time)[g]]
      /\ UNCHANGED <<shown, bcd, hour12, handler>>
  BY DEF ChangeRegister
<1>2. seconds \in Nat /\ shown \subseteq shown' /\ seconds <= seconds'
  BY <1>1, TimesAssumption DEF TypeInv, TypeOK
<1>3. \A u, f : (Registers(u)[f])' = Registers(u)[f]
  BY <1>1 DEF Registers, HourRegister, ToBcd
<1>4. ASSUME NEW f \in FieldNames
      PROVE  regs'[f] \in {Reg(t, seconds - 1)[f], Registers(time)[f]}
  <2>1. regs[f] \in {Reg(t, seconds - 1)[f], Registers(time)[f]}
    BY <1>1 DEF ShownFrom, RegistersFrom
  <2>2. regs'[f] = IF f = g THEN Registers(time)[f] ELSE regs[f]
    BY <1>1 DEF TypeInv, TypeOK
  <2> QED BY <2>1, <2>2
<1>5. RegistersFrom(t)'
  <2>1. \A f \in FieldNames : regs'[f] \in {(Reg(t, seconds - 1)[f])', (Registers(time)[f])'}
    BY <1>1, <1>3, <1>4 DEF Reg
  <2> QED BY <1>1, <2>1 DEF ShownFrom, RegistersFrom
<1> QED BY <1>1, <1>2, <1>5, ClockStep

LEMMA EndUpdateShown ==
    ASSUME TypeInv, TypeInv', StoredWasShown,
           NEW t, IsTime(t), ShownFrom(t), EndUpdate
    PROVE  StoredWasShown' /\ ShownFrom(t)'
<1>1. /\ ~ updating' /\ regs = Registers(time) /\ shown' = shown \cup {time}
      /\ UNCHANGED <<regs, time, seconds, bcd, hour12, handler>>
  BY DEF EndUpdate, TypeInv, TypeOK
<1>2. seconds \in Nat /\ shown \subseteq shown' /\ seconds <= seconds'
  BY <1>1, TimesAssumption DEF TypeInv, TypeOK
<1>3. \A u : Registers(u)' = Registers(u)
  BY <1>1 DEF Registers, HourRegister, ToBcd
<1>4. Registers(time)' = Registers(time)
  BY <1>1 DEF Registers, HourRegister, ToBcd
<1>5. RegistersFrom(t)'
  BY <1>1, <1>4 DEF ShownFrom, RegistersFrom
<1> QED BY <1>1, <1>2, <1>5, ClockStep

\* The handler's steps leave the clock.
LEMMA ClockStands ==
    ASSUME UNCHANGED <<clock, bcd, hour12>>, NEW t, RegistersFrom(t)
    PROVE  /\ RegistersFrom(t)'
           /\ \A v, f, a, b : Held(t, v, f, a, b)' <=> Held(t, v, f, a, b)
<1>1. /\ regs' = regs /\ updating' = updating /\ time' = time /\ shown' = shown
      /\ seconds' = seconds /\ bcd' = bcd /\ hour12' = hour12
  BY DEF clock
<1>2. \A i, f : (Reg(t, i)[f])' = Reg(t, i)[f]
  BY <1>1 DEF Reg, Registers, HourRegister, ToBcd
<1>3. Registers(time)' = Registers(time)
  BY <1>1 DEF Registers, HourRegister, ToBcd
<1>4. \A f \in FieldNames : Reg(t, seconds - 1)[f]' = Reg(t, seconds - 1)[f]
  BY <1>1, <1>2
<1>5. \A v, f, a, b : Held(t, v, f, a, b)' <=> Held(t, v, f, a, b)
  BY <1>2 DEF Held
<1> QED BY <1>1, <1>3, <1>4, <1>5 DEF RegistersFrom

LEMMA WaitForUpdateShown ==
    ASSUME TypeInv, NEW t, IsTime(t), ShownFrom(t), WaitForUpdate
    PROVE  StoredWasShown' /\ ShownFrom(t)'
<1>1. /\ ~ updating /\ pc = "wait" /\ pc' = "read" /\ at' = 1
      /\ UNCHANGED <<clock, bcd, hour12, again, old_datetime>>
  BY DEF WaitForUpdate, cmos_update_in_progress
<1>2. /\ RegistersFrom(t)'
      /\ \A v, f, a, b : Held(t, v, f, a, b)' <=> Held(t, v, f, a, b)
  BY <1>1, ClockStands DEF ShownFrom
<1>3. /\ updating' = updating /\ time' = time /\ shown' = shown /\ seconds' = seconds
  BY <1>1 DEF clock
<1>4. seconds \in 0 .. seconds
  BY TimesAssumption DEF TypeInv, TypeOK
<1>5. \A f : ~ HasRead(f)'
  BY <1>1 DEF HasRead
<1>6. Later(t, seconds) \in shown
  BY <1>1 DEF ShownFrom, RegistersFrom
<1>7. again => \A f \in FieldNames : Held(t, old_datetime[f], f, 0, seconds)
  BY <1>1 DEF ShownFrom, ReadingFrom
<1>8. Between(t, seconds)'
  BY <1>1, <1>2, <1>3, <1>5, <1>6, <1>7 DEF Between
<1>9. ReadingFrom(t)'
  BY <1>1, <1>3, <1>4, <1>8 DEF ReadingFrom
<1> QED BY <1>1, <1>2, <1>9 DEF StoredWasShown, ShownFrom

\* A register is read after the flag was clear: an update that is on now has
\* begun since.
LEMMA get_rtc_registerShown ==
    ASSUME TypeInv, NEW t, IsTime(t), ShownFrom(t), get_rtc_register
    PROVE  StoredWasShown' /\ ShownFrom(t)'
<1> DEFINE g == Fields[at]
<1>1. /\ pc = "read" /\ pc' = "read" /\ at' = at + 1
      /\ new_datetime' = [new_datetime EXCEPT ![g] = regs[g]]
      /\ UNCHANGED <<clock, bcd, hour12, again, old_datetime>>
  BY DEF get_rtc_register
<1>2. /\ RegistersFrom(t)'
      /\ \A v, f, a, b : Held(t, v, f, a, b)' <=> Held(t, v, f, a, b)
  BY <1>1, ClockStands DEF ShownFrom
<1>3. /\ updating' = updating /\ shown' = shown /\ seconds' = seconds
  BY <1>1 DEF clock
<1>4. at \in 1 .. 6 /\ g \in FieldNames /\ seconds \in Nat
  BY FieldsAre, TimesAssumption DEF get_rtc_register, TypeInv, TypeOK
<1>5. PICK w \in 0 .. seconds : Between(t, w)
  BY <1>1 DEF ShownFrom, ReadingFrom
<1>6. Held(t, regs[g], g, w, seconds)
  <2>1. CASE ~ updating
    <3>1. regs[g] = Reg(t, seconds)[g] /\ seconds \in w .. seconds
      BY <1>4, <1>5, <2>1 DEF ShownFrom, RegistersFrom, Reg
    <3> QED BY <3>1 DEF Held
  <2>2. CASE updating
    <3>1. seconds \in w .. seconds /\ seconds - 1 \in w .. seconds
      BY <1>4, <1>5, <2>2 DEF Between
    <3>2. regs[g] \in {Reg(t, seconds - 1)[g], Reg(t, seconds)[g]}
      BY <1>4, <2>2 DEF ShownFrom, RegistersFrom, Reg
    <3> QED BY <3>1, <3>2 DEF Held
  <2> QED BY <2>1, <2>2
<1>7. ASSUME NEW f \in FieldNames, HasRead(f)'
      PROVE  Held(t, new_datetime'[f], f, w, seconds)
  <2>1. CASE f = g
    <3>1. new_datetime'[f] = regs[g]
      BY <1>1, <1>4, <2>1 DEF TypeInv, TypeOK
    <3> QED BY <1>6, <2>1, <3>1
  <2>2. CASE f # g
    <3>1. new_datetime'[f] = new_datetime[f]
      BY <1>1, <1>4, <2>2 DEF TypeInv, TypeOK
    <3>2. HasRead(f)
      <4>1. PICK i \in 1 .. Len(Fields) : i < at + 1 /\ Fields[i] = f
        BY <1>1, <1>7 DEF HasRead
      <4>2. i # at /\ i \in Nat
        BY <2>2, <4>1
      <4>3. i < at
        BY <1>4, <4>1, <4>2
      <4> QED BY <4>1, <4>3 DEF HasRead
    <3> QED BY <1>5, <3>1, <3>2 DEF Between
  <2> QED BY <2>1, <2>2
<1> HIDE DEF g
<1>8. Between(t, w)'
  BY <1>1, <1>2, <1>3, <1>5, <1>7 DEF Between
<1>9. ReadingFrom(t)'
  BY <1>1, <1>3, <1>5, <1>8 DEF ReadingFrom
<1> QED BY <1>1, <1>2, <1>9 DEF StoredWasShown, ShownFrom

\* Once all fields are read, each was read after the flag was clear.
LEMMA AllRead ==
    ASSUME TypeInv, NEW t, ShownFrom(t), ReadAll
    PROVE  \E w \in 0 .. seconds :
               Between(t, w) /\ \A f \in FieldNames : Held(t, new_datetime[f], f, w, seconds)
<1>1. PICK w \in 0 .. seconds : Between(t, w)
  BY DEF ReadAll, ShownFrom, ReadingFrom
<1>2. at = 7
  BY FieldsAre DEF ReadAll, TypeInv, TypeOK
<1>3. ASSUME NEW f \in FieldNames PROVE HasRead(f)
  <2>1. PICK i \in 1 .. 6 : Fields[i] = f
    BY FieldsAre
  <2> QED BY <1>2, <2>1, FieldsAre DEF HasRead
<1> QED BY <1>1, <1>3 DEF Between

LEMMA ReadAgainShown ==
    ASSUME TypeInv, NEW t, IsTime(t), ShownFrom(t), ReadAgain
    PROVE  StoredWasShown' /\ ShownFrom(t)'
<1>1. /\ ReadAll /\ pc' = "wait" /\ old_datetime' = new_datetime
      /\ UNCHANGED <<clock, bcd, hour12>>
  BY DEF ReadAgain, OldReading
<1>2. /\ RegistersFrom(t)'
      /\ \A v, f, a, b : Held(t, v, f, a, b)' <=> Held(t, v, f, a, b)
  BY <1>1, ClockStands DEF ShownFrom
<1>3. seconds' = seconds /\ seconds \in Nat
  BY <1>1, TimesAssumption DEF clock, TypeInv, TypeOK
<1>4. PICK w \in 0 .. seconds : \A f \in FieldNames : Held(t, new_datetime[f], f, w, seconds)
  BY <1>1, AllRead
<1>5. \A f \in FieldNames : Held(t, new_datetime[f], f, 0, seconds)
  <2>1. \A i \in w .. seconds : i \in 0 .. seconds
    BY <1>3
  <2> QED BY <1>4, <2>1 DEF Held
<1>6. ReadingFrom(t)'
  BY <1>1, <1>2, <1>3, <1>5 DEF ReadingFrom
<1> QED BY <1>1, <1>2, <1>6 DEF StoredWasShown, ShownFrom

\* Two readings agree in the fields of the second in which the flag was clear.
LEMMA StoreShown ==
    ASSUME MaxSeconds < 60, TypeInv, NEW t, IsTime(t), ShownFrom(t), Store
    PROVE  StoredWasShown' /\ ShownFrom(t)'
<1>1. /\ ReadAll /\ again /\ new_datetime = old_datetime /\ pc' = "done"
      /\ datetime' = Converted(new_datetime) /\ UNCHANGED <<clock, bcd, hour12>>
  BY DEF Store, Agree
<1>2. RegistersFrom(t)'
  BY <1>1, ClockStands DEF ShownFrom
<1>3. shown' = shown /\ seconds \in Nat /\ seconds < 60 /\ IsTime(t)
  BY <1>1, TimesAssumption DEF clock, TypeInv, TypeOK
<1>4. PICK w \in 0 .. seconds :
          Between(t, w) /\ \A f \in FieldNames : Held(t, new_datetime[f], f, w, seconds)
  BY <1>1, AllRead
<1> DEFINE u == Later(t, w)
<1>5. w \in Nat /\ w < 60 /\ IsTime(u)
  BY <1>3, <1>4, LaterIsTime
<1>6. ASSUME NEW f \in FieldNames
      PROVE  new_datetime[f] = Registers(u)[f]
  <2>1. PICK j \in w .. seconds : new_datetime[f] = Reg(t, j)[f]
    BY <1>4 DEF Held
  <2>2. PICK i \in 0 .. w : new_datetime[f] = Reg(t, i)[f]
    BY <1>1, <1>4 DEF Between, Held
  <2>3. i \in Nat /\ j \in Nat /\ i <= w /\ w <= j /\ j < 60 /\ i < 60
    BY <1>3, <1>5
  <2>4. IsTime(Later(t, i)) /\ IsTime(Later(t, j))
    BY <1>3, <2>3, LaterIsTime
  <2>5. Later(t, i)[f] = Later(t, j)[f]
    <3>1. Registers(Later(t, i))[f] = Registers(Later(t, j))[f]
      BY <2>1, <2>2 DEF Reg
    <3> QED BY <2>4, <3>1, RegistersTell
  <2>6. u[f] = Later(t, i)[f]
    BY <1>3, <1>5, <2>3, <2>5, SameBetween
  <2>7. f = "hour" => u.hour = Later(t, i).hour
    BY <2>6
  <2> HIDE DEF u
  <2>8. Registers(u)[f] = Registers(Later(t, i))[f]
    BY <2>6, <2>7 DEF Registers
  <2> QED BY <2>2, <2>8 DEF Reg
<1>7. new_datetime = Registers(u)
  <2>1. new_datetime \in [FieldNames -> 0 .. ByteModulus - 1]
    BY DEF TypeInv, TypeOK
  <2>2. Registers(u) \in [FieldNames -> 0 .. ByteModulus - 1]
    BY <1>5, RegisterTypes
  <2> HIDE DEF u
  <2> QED BY <1>6, <2>1, <2>2
<1>8. datetime' = Calendar(Swapped(u)) /\ u \in shown'
  BY <1>1, <1>3, <1>4, <1>5, <1>7, ConvertedRegisters DEF Between
<1> HIDE DEF u
<1>9. Calendar(Swapped(u))' = Calendar(Swapped(u))
  BY <1>1 DEF Calendar, Swapped
<1>10. StoredWasShown'
  BY <1>8, <1>9 DEF StoredWasShown
<1> QED BY <1>1, <1>2, <1>10 DEF ShownFrom, ReadingFrom

\* The handler comes again. From then on times are counted from the one it meets, or
\* from the one before if that is being changed.
LEMMA HandlerShown ==
    ASSUME MaxSeconds < 60, TypeInv, NEW t, IsTime(t), ShownFrom(t), cmos_rtc_irq8_handler
    PROVE  StoredWasShown' /\ \E p : IsTime(p) /\ ShownFrom(p)'
<1>1. /\ pc' = "wait" /\ ~ again'
      /\ seconds' = IF updating THEN 1 ELSE 0
      /\ ~ updating => shown' = {time}
      /\ UNCHANGED <<regs, updating, time, bcd, hour12>>
  BY DEF cmos_rtc_irq8_handler
<1>2. Registers(time)' = Registers(time)
  BY <1>1 DEF Registers, HourRegister, ToBcd
<1>3. \A u, i, f : (Reg(u, i)[f])' = Reg(u, i)[f]
  BY <1>1 DEF Reg, Registers, HourRegister, ToBcd
<1>4. seconds \in Nat /\ seconds < 60
  BY TimesAssumption DEF TypeInv, TypeOK
<1>5. PICK p : p = IF updating THEN Later(t, seconds - 1) ELSE time
  OBVIOUS
<1>6. CASE ~ updating
  <2>1. IsTime(p) /\ time' = Later(p, seconds')
    BY <1>5, <1>1, <1>6, LaterNow DEF TypeInv
  <2>2. RegistersFrom(p)'
    BY <1>1, <1>2, <1>6, <2>1 DEF ShownFrom, RegistersFrom
  <2> QED BY <1>1, <2>1, <2>2 DEF StoredWasShown, ShownFrom, ReadingFrom
<1>7. CASE updating
  <2>1. /\ seconds - 1 \in Nat /\ seconds - 1 < 60 /\ (seconds - 1) + 1 < 60
        /\ (seconds - 1) + 1 = seconds
    BY <1>4, <1>7 DEF TypeInv
  <2>2. p = Later(t, seconds - 1) /\ IsTime(p)
    BY <1>5, <1>7, <2>1, LaterIsTime
  <2>3. time = NextSecond(p)
    <3>1. NextSecond(Later(t, seconds - 1)) = Later(t, (seconds - 1) + 1)
      BY <2>1, LaterNext
    <3>2. NextSecond(Later(t, seconds - 1)) = Later(t, seconds)
      BY <2>1, <3>1
    <3> QED BY <2>2, <3>2 DEF ShownFrom, RegistersFrom
  <2>4. Later(p, 0) = p
    BY <2>2, LaterNow
  <2>5. time' = Later(p, seconds')
    <3>1. NextSecond(Later(p, 0)) = Later(p, 0 + 1)
      BY <2>2, LaterNext
    <3>2. time = Later(p, 0 + 1) /\ 0 + 1 = 1
      BY <2>3, <2>4, <3>1
    <3>3. time = Later(p, 1)
      BY <3>2
    <3> QED BY <1>1, <1>7, <3>3
  <2>6. ASSUME NEW f \in FieldNames
        PROVE  regs'[f] \in {(Reg(p, seconds - 1)[f])', (Registers(time)[f])'}
    <3>1. regs[f] \in {Reg(t, seconds - 1)[f], Registers(time)[f]}
      BY <1>7 DEF ShownFrom, RegistersFrom
    <3>2. Reg(t, seconds - 1)[f] = Reg(p, 0)[f]
      BY <2>2, <2>4 DEF Reg
    <3>3. seconds' - 1 = 0
      BY <1>1, <1>7
    <3>4. (Reg(p, seconds - 1)[f])' = Reg(p, 0)[f]
      BY <1>3, <3>3
    <3> QED BY <1>1, <1>2, <3>1, <3>2, <3>4
  <2>7. RegistersFrom(p)'
    BY <1>1, <1>7, <2>5, <2>6 DEF RegistersFrom
  <2> QED BY <1>1, <2>2, <2>7 DEF StoredWasShown, ShownFrom, ReadingFrom
<1> QED BY <1>6, <1>7

LEMMA ShownNext ==
    ASSUME MaxSeconds < 60, TypeInv, TypeInv', ShownInv, [Next]_vars
    PROVE  ShownInv'
<1>1. PICK t : IsTime(t) /\ ShownFrom(t)
  BY DEF ShownInv
<1>2. StoredWasShown
  BY DEF ShownInv
<1> DEFINE Stays == StoredWasShown' /\ ShownFrom(t)'
<1> SUFFICES Stays \/ (StoredWasShown' /\ \E p : IsTime(p) /\ ShownFrom(p)')
  BY <1>1 DEF ShownInv
<1>3. CASE BeginUpdate
  BY <1>1, <1>2, <1>3, BeginUpdateShown
<1>4. CASE EndUpdate
  BY <1>1, <1>2, <1>4, EndUpdateShown
<1>5. ASSUME NEW f \in FieldNames, ChangeRegister(f) PROVE Stays
  BY <1>1, <1>2, <1>5, ChangeRegisterShown
<1>6. CASE WaitForUpdate
  BY <1>1, <1>6, WaitForUpdateShown
<1>7. CASE get_rtc_register
  BY <1>1, <1>7, get_rtc_registerShown
<1>8. CASE ReadAgain
  BY <1>1, <1>8, ReadAgainShown
<1>9. CASE Store
  BY <1>1, <1>9, StoreShown
<1>10. CASE cmos_rtc_irq8_handler
  BY <1>1, <1>10, HandlerShown
<1>11. CASE UNCHANGED vars
  <2>1. UNCHANGED <<clock, bcd, hour12, handler>>
    BY <1>11 DEF vars
  <2>2. RegistersFrom(t)'
    BY <1>1, <2>1, ClockStands DEF ShownFrom
  <2>3. /\ shown \subseteq shown' /\ seconds <= seconds'
        /\ (updating' => updating \/ seconds < seconds')
    BY <2>1, TimesAssumption DEF clock, TypeInv, TypeOK
  <2> QED BY <1>1, <1>2, <2>1, <2>2, <2>3, ClockStep
<1> QED BY <1>3, <1>4, <1>5, <1>6, <1>7, <1>8, <1>9, <1>10, <1>11 DEF Next, Cmos, Handler

\* Whatever time it is, in BCD or binary, 12 or 24 hours, and however the updates
\* fall among the handler's reads, less than a minute of them from one reading interrupt
\* to the next, what it stores is one time the clock has shown since it came, the two
\* twelves of 12 hour mode apart.
THEOREM StoresWhatWasShown ==
    ASSUME MaxSeconds < 60
    PROVE  Spec => []StoredWasShown
<1>1. Init => TypeInv /\ ShownInv
  BY TypeInitial, ShownInitial
<1>2. (TypeInv /\ ShownInv) /\ [Next]_vars => (TypeInv /\ ShownInv)'
  BY TypeNext, ShownNext
<1>3. ShownInv => StoredWasShown
  BY DEF ShownInv
<1> QED BY <1>1, <1>2, <1>3, PTL DEF Spec
=============================================================================
