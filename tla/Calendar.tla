------------------------------- MODULE Calendar -------------------------------
(***************************************************************************)
(* The calendar arithmetic of libraries/RTClib/rtc.cpp, compared with the  *)
(* Gregorian calendar.  A behaviour walks through the days of the century  *)
(* one by one, the way a calendar is defined (lengths of months, leap      *)
(* years, seven days a week); in every state the functions of rtc.cpp must *)
(* agree with how far the walk has come.                                   *)
(***************************************************************************)
EXTENDS Integers, Sequences

CONSTANT LastYear    \* bound: the walk ends with this year

ASSUME CalendarAssumption == LastYear \in 2000 .. 2099

-----------------------------------------------------------------------------
(* The functions of rtc.cpp.                                               *)

\* rtc.h
daysInMonth == <<31, 28, 31, 30, 31, 30, 31, 31, 30, 31, 30, 31>>

\* The loop of days_from_2000 and days_from_20xx: the full months before m.
DaysBefore[m \in 1 .. 12] == IF m = 1 THEN 0 ELSE DaysBefore[m - 1] + daysInMonth[m - 1]

\* Mutant of LeapDay: the day is counted from February on.
LeapDayEarly(y, m) == IF m >= 2 /\ y % 4 = 0 THEN 1 ELSE 0

LeapDay(y, m) == IF m > 2 /\ y % 4 = 0 THEN 1 ELSE 0

\* Both functions subtract 2000 from a year that has four digits.
ShortYear(y) == IF y >= 2000 THEN y - 2000 ELSE y

\* Days since 2000/01/01, a uint16_t.
days_from_2000(year, m, d) ==
    LET y == ShortYear(year)
    IN  (d + DaysBefore[m] + LeapDay(y, m) + 365 * y + ((y + 3) \div 4) - 1) % 2^16

\* "number of days since 20xx/01/01"
days_from_20xx(year, m, d) ==
    LET y == ShortYear(year)
    IN  (d + DaysBefore[m] + LeapDay(y, m) + ((y + 3) \div 4) - 1) % 2^16

\* Mutant of dayOfWeekManual: the week begins on a Sunday.
dayOfWeekSunday(year, m, d) == (days_from_2000(year, m, d) + 6) % 7

\* Monday is 0.
dayOfWeekManual(year, m, d) == (days_from_2000(year, m, d) + 5) % 7

\* Mutant of begin_DST_dayOfMonth: the constant of the end of DST.
begin_DST_dayOfMonthWrong(y) == 31 - ((((5 * y) \div 4) + 1) % 7)

\* The days of March and October on which daylight saving begins and ends.
begin_DST_dayOfMonth(y) == 31 - ((((5 * y) \div 4) + 4) % 7)
end_DST_dayOfMonth(y) == 31 - ((((5 * y) \div 4) + 1) % 7)

-----------------------------------------------------------------------------
(* The reference: the Gregorian calendar, day by day.                      *)

VARIABLES year, month, dom,    \* the date
          count,               \* days since 2000/01/01
          doy,                 \* days since the 1st of January
          dow                  \* day of the week, Monday is 0

vars == <<year, month, dom, count, doy, dow>>

Leap(y) == y % 4 = 0 /\ (y % 100 # 0 \/ y % 400 = 0)

MonthLength(y, m) ==
    CASE m = 2 -> (IF Leap(y) THEN 29 ELSE 28)
      [] m \in {4, 6, 9, 11} -> 30
      [] OTHER -> 31

\* 2000/01/01 was a Saturday.
Init ==
    /\ year = 2000 /\ month = 1 /\ dom = 1
    /\ count = 0 /\ doy = 0 /\ dow = 5

NextDay ==
    /\ dom < MonthLength(year, month)
    /\ dom' = dom + 1 /\ doy' = doy + 1
    /\ UNCHANGED <<year, month>>

NextMonth ==
    /\ dom = MonthLength(year, month) /\ month < 12
    /\ dom' = 1 /\ month' = month + 1 /\ doy' = doy + 1
    /\ UNCHANGED year

NextYear ==
    /\ dom = 31 /\ month = 12 /\ year < LastYear
    /\ dom' = 1 /\ month' = 1 /\ doy' = 0 /\ year' = year + 1

Next ==
    /\ NextDay \/ NextMonth \/ NextYear
    /\ count' = count + 1
    /\ dow' = (dow + 1) % 7

Spec == Init /\ [][Next]_vars

-----------------------------------------------------------------------------
(* Properties.                                                             *)

\* days_from_2000 counts the days, whether it is given 2012 or 12
\* ("valid for 2001..2099", rtc.cpp:369).
DayCountRight ==
    /\ days_from_2000(year, month, dom) = count
    /\ days_from_2000(year - 2000, month, dom) = count

\* dayOfWeekManual names the right day of the week (rtc.cpp:389).
WeekdayRight == dayOfWeekManual(year, month, dom) = dow

\* The closed formulas for the DST days give the last Sunday of March and
\* of October in every year.
DstOnLastSundays ==
    /\ month = 3 => (dom = begin_DST_dayOfMonth(year) <=> dow = 6 /\ dom + 7 > 31)
    /\ month = 10 => (dom = end_DST_dayOfMonth(year) <=> dow = 6 /\ dom + 7 > 31)

=============================================================================
