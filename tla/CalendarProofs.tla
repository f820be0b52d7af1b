---------------------------- MODULE CalendarProofs ----------------------------
(***************************************************************************)
(* Proofs that the date arithmetic of rtc.cpp agrees with the Gregorian    *)
(* calendar on every day from 2000/01/01 to the end of LastYear.           *)
(*                                                                         *)
(* The properties compare the walk with closed formulas and are not        *)
(* inductive: the date has to be one of the calendar, and a step from the  *)
(* last day of a month or of a year needs the length of what it leaves.    *)
(* WalkInv says where each counter of the walk stands, in terms of the     *)
(* days before the month and of the years before the year; that the        *)
(* formulas of rtc.cpp compute the same is arithmetic, which the lemmas    *)
(* below state apart from the walk.  days_from_20xx is the exception: that *)
(* it disagrees, and when, is proved at the end.                           *)
(***************************************************************************)
EXTENDS Calendar, TLAPS

-----------------------------------------------------------------------------
(* The tables and the leap years.                                          *)

\* The days before each month of a common year, written out.
MonthStart == <<0, 31, 59, 90, 120, 151, 181, 212, 243, 273, 304, 334>>

\* The loop over daysInMonth (rtc.cpp:361, 374) computes them.
LEMMA LoopOverMonths == \A m \in 1 .. 12 : DaysBefore[m] = MonthStart[m]
<1> DEFINE Body(f) == [m \in 1 .. 12 |-> IF m = 1 THEN 0 ELSE f[m - 1] + daysInMonth[m - 1]]
           h == [m \in 1 .. 12 |-> MonthStart[m]]
<1>1. ASSUME NEW m \in 1 .. 12
      PROVE  MonthStart[m] = IF m = 1 THEN 0 ELSE MonthStart[m - 1] + daysInMonth[m - 1]
  BY DEF MonthStart, daysInMonth
<1>2. ASSUME NEW m \in 1 .. 12 PROVE h[m] = IF m = 1 THEN 0 ELSE h[m - 1] + daysInMonth[m - 1]
  BY <1>1
<1>3. h = Body(h)
  BY <1>2
<1>4. DaysBefore = CHOOSE f : f = Body(f)
  BY DEF DaysBefore
<1> HIDE DEF Body, h
<1>5. DaysBefore = Body(DaysBefore)
  BY <1>3, <1>4
<1>6. \A m \in 1 .. 12 :
        DaysBefore[m] = IF m = 1 THEN 0 ELSE DaysBefore[m - 1] + daysInMonth[m - 1]
  BY <1>5 DEF Body
<1>7. /\ DaysBefore[1] = 0 /\ DaysBefore[2] = 31 /\ DaysBefore[3] = 59
      /\ DaysBefore[4] = 90 /\ DaysBefore[5] = 120 /\ DaysBefore[6] = 151
  BY <1>6 DEF daysInMonth
<1>8. /\ DaysBefore[7] = 181 /\ DaysBefore[8] = 212 /\ DaysBefore[9] = 243
      /\ DaysBefore[10] = 273 /\ DaysBefore[11] = 304 /\ DaysBefore[12] = 334
  BY <1>6, <1>7 DEF daysInMonth
<1> QED BY <1>7, <1>8 DEF MonthStart

\* Between 2000 and 2099 every fourth year is a leap year: the code may leave
\* the rule for centuries out, and test the year of the century.
LEMMA EveryFourthYear ==
    ASSUME NEW y \in 2000 .. 2099
    PROVE  /\ Leap(y) <=> y % 4 = 0
           /\ y % 4 = 0 <=> (y - 2000) % 4 = 0
BY DEF Leap

\* The ranges of dates, named so that only the steps of arithmetic look inside.
Century == 2000 .. 2099
Months == 1 .. 12
Days == 1 .. 31
Lengths == 28 .. 31
Starts == 0 .. 335

\* The days of year y before month m.
Before(y, m) == DaysBefore[m] + LeapDay(y - 2000, m)

\* The leap days of the century before year y, as the code counts them.
LeapCount(y) == (y - 2000 + 3) \div 4

\* The days of the century before year y.
YearsBefore(y) == 365 * (y - 2000) + LeapCount(y)

\* A month begins where the one before it ends.
LEMMA MonthsFollow ==
    ASSUME NEW y \in Century, NEW m \in Months
    PROVE  /\ Before(y, m) \in Starts
           /\ MonthLength(y, m) \in Lengths
           /\ m < 12 => Before(y, m + 1) = Before(y, m) + MonthLength(y, m)
<1> DEFINE leap == (y - 2000) % 4 = 0
<1>1. Leap(y) <=> leap
  BY EveryFourthYear DEF Century
<1> USE DEF Century, Months
<1>2. \A n \in 1 .. 12 : Before(y, n) = MonthStart[n] + IF n > 2 /\ leap THEN 1 ELSE 0
  BY LoopOverMonths DEF Before, LeapDay
<1>3. MonthLength(y, m) = CASE m = 2 -> (IF leap THEN 29 ELSE 28)
                            [] m \in {4, 6, 9, 11} -> 30
                            [] OTHER -> 31
  BY <1>1 DEF MonthLength
<1> HIDE DEF leap
<1> QED BY <1>2, <1>3 DEF MonthStart, Lengths, Starts

\* January begins the year and December ends it.
LEMMA YearsFollow ==
    ASSUME NEW y \in Century
    PROVE  /\ Before(y, 1) = 0
           /\ YearsBefore(y + 1) = YearsBefore(y) + Before(y, 12) + 31
           /\ YearsBefore(y) \in Nat
<1> USE DEF Century, LeapCount
<1>1. DaysBefore[1] = 0 /\ DaysBefore[12] = 334
  BY LoopOverMonths DEF MonthStart
<1>2. Before(y, 1) = 0
  BY <1>1 DEF Before, LeapDay
<1>3. Before(y, 12) = 334 + IF (y - 2000) % 4 = 0 THEN 1 ELSE 0
  BY <1>1 DEF Before, LeapDay
<1>4. YearsBefore(y + 1) = YearsBefore(y) + Before(y, 12) + 31
  BY <1>3 DEF YearsBefore
<1>5. YearsBefore(y) \in Nat
  BY DEF YearsBefore
<1> HIDE DEF Century, LeapCount
<1> QED BY <1>2, <1>4, <1>5, Zenon

-----------------------------------------------------------------------------
(* The inductive invariant.                                                *)

\* The date is one of the calendar.
DateOK ==
    /\ year \in 2000 .. LastYear
    /\ month \in Months
    /\ dom \in 1 .. MonthLength(year, month)

\* Where the counters of the walk stand.
CountersOK ==
    /\ doy = Before(year, month) + dom - 1
    /\ count = YearsBefore(year) + doy
    /\ dow = (count + 5) % 7

WalkInv == DateOK /\ CountersOK

LEMMA InitWalk == Init => WalkInv
<1> SUFFICES ASSUME Init PROVE WalkInv
  OBVIOUS
<1> USE DEF Init
<1>1. Before(2000, 1) = 0 /\ YearsBefore(2000) = 0 /\ LeapCount(2000) = 0
  BY LoopOverMonths DEF Before, LeapDay, MonthStart, YearsBefore, LeapCount
<1>2. 1 \in 1 .. MonthLength(2000, 1)
  BY DEF MonthLength
<1>3. DateOK
  BY <1>2, CalendarAssumption DEF DateOK, Months
<1>4. CountersOK
  BY <1>1 DEF CountersOK
<1> QED BY <1>3, <1>4 DEF WalkInv

\* An invariant state has a date the lemmas are about, and counters that are
\* numbers.
LEMMA WalkDates ==
    ASSUME WalkInv
    PROVE  /\ year \in Century /\ month \in Months /\ dom \in Days
           /\ Before(year, month) \in Starts
           /\ MonthLength(year, month) \in Lengths
           /\ YearsBefore(year) \in Nat
<1>1. year \in Century /\ month \in Months
  BY CalendarAssumption DEF WalkInv, DateOK, Century
<1>2. /\ Before(year, month) \in Starts
      /\ MonthLength(year, month) \in Lengths
      /\ YearsBefore(year) \in Nat
  BY <1>1, MonthsFollow, YearsFollow, Zenon
<1>3. dom \in Days
  BY <1>2 DEF WalkInv, DateOK, Lengths, Days
<1> QED BY <1>1, <1>2, <1>3, Zenon

\* The walk as the formulas see it.
LEMMA WalkCounts ==
    ASSUME WalkInv
    PROVE  /\ doy = Before(year, month) + dom - 1
           /\ count = YearsBefore(year) + Before(year, month) + dom - 1
           /\ dow = (YearsBefore(year) + Before(year, month) + dom - 1 + 5) % 7
<1>1. dom \in Int /\ Before(year, month) \in Int /\ YearsBefore(year) \in Int
  BY WalkDates DEF Starts, Days
<1> QED BY <1>1 DEF WalkInv, CountersOK

LEMMA NextWalk == WalkInv /\ [Next]_vars => WalkInv'
<1> SUFFICES ASSUME WalkInv, [Next]_vars PROVE WalkInv'
  OBVIOUS
<1>1. /\ year \in Century /\ month \in Months /\ dom \in Days
      /\ Before(year, month) \in Starts
      /\ MonthLength(year, month) \in Lengths
      /\ YearsBefore(year) \in Nat
  BY WalkDates, Zenon
<1>2. DateOK /\ CountersOK
  BY DEF WalkInv
<1>3. /\ year \in Int /\ month \in Int /\ dom \in Int /\ LastYear \in Int
      /\ Before(year, month) \in Int /\ MonthLength(year, month) \in Int
      /\ YearsBefore(year) \in Int /\ doy \in Int /\ count \in Int
  BY <1>1, <1>2, CalendarAssumption DEF Century, Months, Days, Starts, Lengths, CountersOK
<1>4. CASE Next /\ NextDay
  <2>1. DateOK'
    BY <1>2, <1>3, <1>4 DEF NextDay, DateOK
  <2>2. CountersOK'
    BY <1>2, <1>3, <1>4 DEF Next, NextDay, CountersOK
  <2> QED BY <2>1, <2>2 DEF WalkInv
<1>5. CASE Next /\ NextMonth
  <2> DEFINE next == month + 1
  <2>1. month < 12 /\ next \in Months
    BY <1>1, <1>5 DEF NextMonth, Months
  <2>2. Before(year, next) = Before(year, month) + MonthLength(year, month)
    BY <1>1, <2>1, MonthsFollow, Zenon
  <2>3. MonthLength(year, next) \in Lengths
    <3> HIDE DEF next
    <3> QED BY <1>1, <2>1, MonthsFollow, Zenon
  <2>4. DateOK'
    BY <1>2, <1>5, <2>1, <2>3 DEF NextMonth, DateOK, Lengths
  <2>5. CountersOK'
    BY <1>2, <1>3, <1>5, <2>2 DEF Next, NextMonth, CountersOK
  <2> QED BY <2>4, <2>5 DEF WalkInv
<1>6. CASE Next /\ NextYear
  <2> DEFINE next == year + 1
  <2>1. next \in Century /\ 1 \in Months
    BY <1>1, <1>6, CalendarAssumption DEF NextYear, Century, Months
  <2>2. next \in 2000 .. LastYear
    BY <1>1, <1>6, CalendarAssumption DEF NextYear, Century
  <2>3. YearsBefore(next) = YearsBefore(year) + Before(year, 12) + 31
    BY <1>1, YearsFollow, Zenon
  <2> HIDE DEF next
  <2>4. MonthLength(next, 1) \in Lengths /\ Before(next, 1) = 0
    BY <2>1, MonthsFollow, YearsFollow, Zenon
  <2>5. DateOK'
    BY <1>6, <2>1, <2>2, <2>4 DEF NextYear, DateOK, Lengths, next
  <2>6. CountersOK'
    BY <1>2, <1>3, <1>6, <2>3, <2>4 DEF Next, NextYear, CountersOK, next
  <2> QED BY <2>5, <2>6 DEF WalkInv
<1>7. CASE UNCHANGED vars
  BY <1>2, <1>7 DEF vars, WalkInv, DateOK, CountersOK
<1> QED BY <1>4, <1>5, <1>6, <1>7 DEF Next

-----------------------------------------------------------------------------
(* What the formulas of rtc.cpp compute in such a state.                   *)

\* What a uint16_t holds.
UShort == {n \in Nat : n <= 65535}

\* A sum below 2^16 is kept by a uint16_t.
LEMMA SixteenBits == ASSUME NEW n \in UShort PROVE n % 2^16 = n
<1> DEFINE w == 2^16
<1>1. w = 65536
  BY SMT
<1> HIDE DEF w
<1>2. n % w = n
  BY <1>1 DEF UShort
<1> QED BY <1>2 DEF w

\* The days before month m are small numbers.
LEMMA SmallTerms ==
    ASSUME NEW y \in Century, NEW m \in Months
    PROVE  /\ Before(y, m) = DaysBefore[m] + LeapDay(y - 2000, m)
           /\ DaysBefore[m] \in 0 .. 334 /\ LeapDay(y - 2000, m) \in 0 .. 1
<1>1. DaysBefore[m] \in 0 .. 334
  BY LoopOverMonths DEF MonthStart, Months
<1>2. LeapDay(y - 2000, m) \in 0 .. 1
  BY DEF LeapDay
<1> QED BY <1>1, <1>2 DEF Before

\* The year of the century, as a year of two digits.
TwoDigits(y) == y - 2000

\* The sum of days_from_2000 never reaches 2^16 in this century, so that the
\* uint16_t loses nothing; a year of two digits gives the same as one of four.
LEMMA CountFormula ==
    ASSUME NEW y \in Century, NEW m \in Months, NEW d \in Days
    PROVE  /\ days_from_2000(y, m, d) = YearsBefore(y) + Before(y, m) + d - 1
           /\ days_from_2000(TwoDigits(y), m, d) = YearsBefore(y) + Before(y, m) + d - 1
           /\ days_from_20xx(y, m, d) = LeapCount(y) + Before(y, m) + d - 1
<1> DEFINE s == y - 2000
           a == DaysBefore[m]
           b == LeapDay(s, m)
           leaps == (s + 3) \div 4
           days == d + a + b + 365 * s + leaps - 1
           short == d + a + b + leaps - 1
<1>1. Before(y, m) = a + b /\ a \in 0 .. 334 /\ b \in 0 .. 1
  BY SmallTerms
<1>2. s \in 0 .. 99 /\ leaps \in 0 .. 25
  BY DEF Century
<1>3. LeapCount(y) = leaps /\ YearsBefore(y) = 365 * s + leaps
  BY DEF LeapCount, YearsBefore
<1>4. ShortYear(y) = s /\ ShortYear(s) = s /\ TwoDigits(y) = s
  BY <1>2 DEF ShortYear, Century, TwoDigits
<1> HIDE DEF s
<1>5. days_from_2000(y, m, d) = days % 2^16 /\ days_from_2000(TwoDigits(y), m, d) = days % 2^16
  BY <1>4 DEF days_from_2000
<1>6. days_from_20xx(y, m, d) = short % 2^16
  BY <1>4 DEF days_from_20xx
<1> HIDE DEF a, b, leaps
<1>7. days \in UShort /\ short \in UShort
  <2>1. days \in Int /\ 0 <= days /\ days <= 65535
    BY <1>1, <1>2 DEF Days
  <2>2. short \in Int /\ 0 <= short /\ short <= 65535
    BY <1>1, <1>2 DEF Days
  <2> HIDE DEF days, short
  <2> QED BY <2>1, <2>2 DEF UShort
<1>8. days = YearsBefore(y) + Before(y, m) + d - 1 /\ short = LeapCount(y) + Before(y, m) + d - 1
  BY <1>1, <1>2, <1>3 DEF Days
<1> HIDE DEF days, short
<1>9. days % 2^16 = days /\ short % 2^16 = short
  BY <1>7, SixteenBits, Zenon
<1> QED BY <1>5, <1>6, <1>8, <1>9, Zenon

\* In March and in October the weekday follows from the year and its leap days.
LEMMA SundayFormula ==
    ASSUME NEW y \in Century, NEW d \in Days
    PROVE  /\ d = begin_DST_dayOfMonth(y) <=>
                (YearsBefore(y) + Before(y, 3) + d - 1 + 5) % 7 = 6 /\ d + 7 > 31
           /\ d = end_DST_dayOfMonth(y) <=>
                (YearsBefore(y) + Before(y, 10) + d - 1 + 5) % 7 = 6 /\ d + 7 > 31
<1> DEFINE s == (y - 2000) + ((y - 2000) \div 4)
<1> USE DEF Century, Days
<1>1. s \in 0 .. 123 /\ (5 * y) \div 4 = 2500 + s
  OBVIOUS
<1>2. YearsBefore(y) + LeapDay(y - 2000, 3) = 364 * (y - 2000) + s + 1
  BY DEF YearsBefore, LeapDay, LeapCount
<1>3. LeapDay(y - 2000, 10) = LeapDay(y - 2000, 3) /\ LeapDay(y - 2000, 3) \in 0 .. 1
  BY DEF LeapDay
<1>4. DaysBefore[3] = 59 /\ DaysBefore[10] = 273
  BY LoopOverMonths DEF MonthStart
<1>5. YearsBefore(y) \in Int
  BY DEF YearsBefore, LeapCount
<1>6. /\ YearsBefore(y) + Before(y, 3) + d - 1 + 5 = 7 * (52 * (y - 2000)) + s + d + 64
      /\ YearsBefore(y) + Before(y, 10) + d - 1 + 5 = 7 * (52 * (y - 2000)) + s + d + 278
  BY <1>2, <1>3, <1>4, <1>5 DEF Before
<1> HIDE DEF s
<1>7. /\ (7 * (52 * (y - 2000)) + s + d + 64) % 7 = (s + d + 1) % 7
      /\ (7 * (52 * (y - 2000)) + s + d + 278) % 7 = (s + d + 5) % 7
  BY <1>1
<1>8. d = 31 - ((2500 + s + 4) % 7) <=> (s + d + 1) % 7 = 6 /\ d + 7 > 31
  BY <1>1
<1>9. d = 31 - ((2500 + s + 1) % 7) <=> (s + d + 5) % 7 = 6 /\ d + 7 > 31
  BY <1>1
<1> QED BY <1>1, <1>6, <1>7, <1>8, <1>9 DEF begin_DST_dayOfMonth, end_DST_dayOfMonth

-----------------------------------------------------------------------------
(* The theorems.                                                           *)

LEMMA WalkInvariant == Spec => []WalkInv
BY InitWalk, NextWalk, PTL DEF Spec

\* days_from_2000 counts the days since 2000/01/01, for years of four digits
\* and of two, and its 16 bits suffice.
THEOREM DaysCounted == Spec => []DayCountRight
<1>1. ASSUME WalkInv PROVE DayCountRight
  <2>1. year \in Century /\ month \in Months /\ dom \in Days
    BY <1>1, WalkDates, Zenon
  <2>2. count = YearsBefore(year) + Before(year, month) + dom - 1
    BY <1>1, WalkCounts, Zenon
  <2>3. /\ days_from_2000(year, month, dom) = count
        /\ days_from_2000(TwoDigits(year), month, dom) = count
    BY <2>1, <2>2, CountFormula, Zenon
  <2> QED BY <2>3 DEF DayCountRight, TwoDigits
<1> QED BY <1>1, WalkInvariant, PTL

\* dayOfWeekManual names the day of the week the walk is on.
THEOREM WeekdaysNamed == Spec => []WeekdayRight
<1>1. ASSUME WalkInv PROVE WeekdayRight
  <2>1. year \in Century /\ month \in Months /\ dom \in Days
    BY <1>1, WalkDates, Zenon
  <2>2. dow = (YearsBefore(year) + Before(year, month) + dom - 1 + 5) % 7
    BY <1>1, WalkCounts, Zenon
  <2>3. days_from_2000(year, month, dom) = YearsBefore(year) + Before(year, month) + dom - 1
    BY <2>1, CountFormula, Zenon
  <2> QED BY <2>2, <2>3, Zenon DEF WeekdayRight, dayOfWeekManual
<1> QED BY <1>1, WalkInvariant, PTL

\* begin_DST_dayOfMonth and end_DST_dayOfMonth give the last Sundays of March
\* and of October, and no other day.
THEOREM DstSundays == Spec => []DstOnLastSundays
<1>1. ASSUME WalkInv PROVE DstOnLastSundays
  <2>1. year \in Century /\ dom \in Days
    BY <1>1, WalkDates, Zenon
  <2>2. dow = (YearsBefore(year) + Before(year, month) + dom - 1 + 5) % 7
    BY <1>1, WalkCounts, Zenon
  <2>3. CASE month = 3
    <3>1. dom = begin_DST_dayOfMonth(year) <=> dow = 6 /\ dom + 7 > 31
      BY <2>1, <2>2, <2>3, SundayFormula, Zenon
    <3> QED BY <2>3, <3>1 DEF DstOnLastSundays
  <2>4. CASE month = 10
    <3>1. dom = end_DST_dayOfMonth(year) <=> dow = 6 /\ dom + 7 > 31
      BY <2>1, <2>2, <2>4, SundayFormula, Zenon
    <3> QED BY <2>4, <3>1 DEF DstOnLastSundays
  <2> QED BY <2>3, <2>4 DEF DstOnLastSundays
<1> QED BY <1>1, WalkInvariant, PTL

\* "number of days since 20xx/01/01, valid for 2001..2099" (rtc.cpp:357) of
\* days_from_20xx holds on no day of these years: the value exceeds the number
\* of days since the 1st of January.  The day-of-year register, to which
\* RTC_time_SetTime writes it, counts from 1; read so, the value is right until
\* 2004 and too large from 2005 on.
DayOfYearWrong ==
    LET n == days_from_20xx(year, month, dom)
    IN  /\ year >= 2001 => n > doy
        /\ year \in 2001 .. 2004 => n = doy + 1
        /\ year >= 2005 => n > doy + 1

\* The leap days of earlier years are in the sum of days_from_20xx ("TODO: check
\* if this is correct!!!", rtc.cpp:366): no day of a later year comes out right.
THEOREM DayOfYearOff == Spec => []DayOfYearWrong
<1>1. ASSUME WalkInv PROVE DayOfYearWrong
  <2>1. year \in Century /\ month \in Months /\ dom \in Days
    BY <1>1, WalkDates, Zenon
  <2>2. days_from_20xx(year, month, dom) = LeapCount(year) + Before(year, month) + dom - 1
    BY <2>1, CountFormula, Zenon
  <2>3. doy = Before(year, month) + dom - 1
    BY <1>1, WalkCounts, Zenon
  <2>4. Before(year, month) \in Int /\ dom \in Int
    BY <1>1, WalkDates DEF Starts, Days
  <2>5. days_from_20xx(year, month, dom) = doy + LeapCount(year) /\ doy \in Int
    BY <2>1, <2>2, <2>3, <2>4 DEF Century, LeapCount
  <2>6. /\ LeapCount(year) \in Int
        /\ year >= 2001 => LeapCount(year) >= 1
        /\ year \in 2001 .. 2004 => LeapCount(year) = 1
        /\ year >= 2005 => LeapCount(year) >= 2
    BY <2>1 DEF Century, LeapCount
  <2>7. year \in 2000 .. 2099
    BY <2>1 DEF Century
  <2> QED BY <2>5, <2>6, <2>7 DEF DayOfYearWrong
<1> QED BY <1>1, WalkInvariant, PTL

=============================================================================
