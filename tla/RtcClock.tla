------------------------------- MODULE RtcClock -------------------------------
(***************************************************************************)
(* The clock of libraries/RTClib/rtc.cpp: the RTC registers, the secondly  *)
(* interrupt with its daylight saving correction, setting the time from    *)
(* the web page, and power loss (the registers and the DST mark in a       *)
(* general purpose register are battery backed, RAM is not).               *)
(*                                                                         *)
(* RTC_time_SetTime writes the registers one after the other.  It runs in  *)
(* two contexts: "main" (the web page) and "isr" (the interrupt handler,   *)
(* or RTC_time_Init before interrupts are enabled).  The handler can       *)
(* interrupt the main loop between any two writes, power can fail anywhere.*)
(*                                                                         *)
(* A date is a year and a day of that year, an hour has a few seconds:     *)
(* the calendar itself is the subject of module Calendar.                  *)
(***************************************************************************)
EXTENDS Integers

CONSTANTS
    Secs, Hours, Days,   \* seconds an hour, hours a day, days a year
    BeginDay, EndDay,    \* days on which daylight saving begins and ends
    SwitchHour,          \* begin_DST_Hour and end_DST_Hour, both 1
    Compiled,            \* the time the program was compiled
    MaxYear              \* bound: years are 0 .. MaxYear

ASSUME RtcAssumption ==
    /\ Secs \in Nat /\ Secs > 0
    /\ Hours \in Nat /\ SwitchHour \in 1 .. (Hours - 2)
    /\ Days \in Nat /\ BeginDay \in 1 .. (Days - 1) /\ EndDay \in (BeginDay + 1) .. (Days - 1)
    /\ MaxYear \in Nat

Year == 0 .. MaxYear
Time == [y : Year, d : 0 .. (Days - 1), h : 0 .. (Hours - 1), s : 0 .. (Secs - 1)]

ASSUME CompiledAssumption == Compiled \in Time

VARIABLES
    rtc, dow,     \* the time registers; the day-of-week register
    mark,         \* GPREG3 holds "DST"
    valid,        \* GPREG4 holds 0xaa: the clock has been set once
    dstYear,      \* the year DST_begin_calculated and DST_end_calculated are for
    power,        \* off, boot_time, boot_check, run
    pending,      \* the RTC interrupt is pending
    at, arg,      \* where RTC_time_SetTime is in each context, its argument
    std,          \* history: standard time in seconds, kept until torn or spoilt
    torn,         \* history: a setting of the clock was cut into
    spoilt,       \* history: a correction was spoilt or crossed midnight
    setBacks      \* history: times the clock was set back in a row

regVars == <<rtc, dow, mark, valid>>
setVars == <<at, arg>>
hist == <<std, torn, spoilt, setBacks>>
vars == <<regVars, dstYear, power, pending, setVars, hist>>

Context == {"main", "isr"}
NoYear == -1

-----------------------------------------------------------------------------
(* Arithmetic.                                                             *)

\* RTC_time_FindUnixtime
FindUnixtime(t) == ((t.y * Days + t.d) * Hours + t.h) * Secs + t.s

begin_DST_unix(y) == FindUnixtime([y |-> y, d |-> BeginDay, h |-> SwitchHour, s |-> 0])
end_DST_unix(y) == FindUnixtime([y |-> y, d |-> EndDay, h |-> SwitchHour, s |-> 0])

\* dst_correction_needed_t_y: by the dates of the year given.
dst_correction_needed_t_y(u, y) == begin_DST_unix(y) <= u /\ u <= end_DST_unix(y)

\* dst_correction_needed: by the dates calculated last.
dst_correction_needed(u) == dstYear # NoYear /\ dst_correction_needed_t_y(u, dstYear)

\* DST_CORRECTION_VALUE_SEC
Correction(on) == IF on THEN Secs ELSE 0

\* Mutant of WithTimeOf: the hour is not reduced to the day.
WithTimeOfNoDay(t, u) == [t EXCEPT !.h = u \div Secs, !.s = u % Secs]

\* unix_to_hh_mm_ss: the date stays, the time of day is that of u.
WithTimeOf(t, u) == [t EXCEPT !.h = (u \div Secs) % Hours, !.s = u % Secs]

\* dayOfWeekManual, up to the weekday of the first day.
dayOfWeek(t) == (t.y * Days + t.d) % 7

\* One second later: the registers carry from left to right.
SecondLater(t) ==
    IF t.s < Secs - 1 THEN [t EXCEPT !.s = @ + 1]
    ELSE IF t.h < Hours - 1 THEN [t EXCEPT !.s = 0, !.h = @ + 1]
    ELSE IF t.d < Days - 1 THEN [t EXCEPT !.s = 0, !.h = 0, !.d = @ + 1]
    ELSE [y |-> t.y + 1, d |-> 0, h |-> 0, s |-> 0]

-----------------------------------------------------------------------------
(* RTC_time_SetTime in context c, one write after the other.               *)

Running(c) ==
    \/ c = "isr" /\ power # "off"
    \/ c = "main" /\ power = "run" /\ ~pending /\ at["isr"] = "off"

Step(c, from, to) == Running(c) /\ at[c] = from /\ at' = [at EXCEPT ![c] = to]

\* Mutant of MarkFor: setting the clock leaves the mark alone.
MarkKept(t) == mark

\* dst_correction of RTC_time_SetTime.
MarkFor(t) == dst_correction_needed_t_y(FindUnixtime(t), t.y)

\* The mark is decided by the new time and its year, before any register.
SetMark(c) ==
    /\ Step(c, "mark", "year")
    /\ mark' = MarkFor(arg[c])
    /\ spoilt' = (spoilt \/ (c = "isr" /\ power # "boot_time" /\ mark' # mark))
    /\ UNCHANGED <<rtc, dow, valid, dstYear, power, pending, arg, std, torn, setBacks>>

SetYear(c) ==
    /\ Step(c, "year", "day")
    /\ rtc' = [rtc EXCEPT !.y = arg[c].y]
    /\ UNCHANGED <<dow, mark, valid, dstYear, power, pending, arg, hist>>

\* Month, day of the month, day of the week, day of the year.
SetDay(c) ==
    /\ Step(c, "day", "second")
    /\ rtc' = [rtc EXCEPT !.d = arg[c].d]
    /\ dow' = dayOfWeek(arg[c])
    /\ UNCHANGED <<mark, valid, dstYear, power, pending, arg, hist>>

\* Second and minute.
SetSecond(c) ==
    /\ Step(c, "second", "hour")
    /\ rtc' = [rtc EXCEPT !.s = arg[c].s]
    /\ UNCHANGED <<dow, mark, valid, dstYear, power, pending, arg, hist>>

SetHour(c) ==
    /\ Step(c, "hour", "yearly")
    /\ rtc' = [rtc EXCEPT !.h = arg[c].h]
    /\ UNCHANGED <<dow, mark, valid, dstYear, power, pending, arg, hist>>

\* yearlyCheck -> DSTyearly, by the year register.
SetYearly(c) ==
    /\ Step(c, "yearly", "off")
    /\ dstYear' = rtc.y
    /\ arg' = [arg EXCEPT ![c] = Compiled]
    /\ UNCHANGED <<regVars, power, pending, hist>>

SetTime(c) ==
    SetMark(c) \/ SetYear(c) \/ SetDay(c) \/ SetSecond(c) \/ SetHour(c) \/ SetYearly(c)

-----------------------------------------------------------------------------
(* The interrupt.                                                          *)

\* Mutant of CorrectedTime: forward and back are exchanged.
CorrectedTimeSwapped(u, needed) == IF needed THEN u - Secs ELSE u + Secs

CorrectedTime(u, needed) == IF needed THEN u + Secs ELSE u - Secs

Smaller(a, b) == IF a < b THEN a ELSE b

\* update_time and DST_check_and_correct, with the DST dates of year y: when
\* the mark disagrees with the dates, set it and set the clock.
secondlyCheck(y) ==
    LET u == FindUnixtime(rtc)
        needed == dst_correction_needed_t_y(u, y)
    IN  IF needed = mark
        THEN UNCHANGED <<mark, setVars, setBacks, spoilt>>
        ELSE /\ mark' = needed
             /\ at' = [at EXCEPT !["isr"] = "mark"]
             /\ arg' = [arg EXCEPT !["isr"] = WithTimeOf(rtc, CorrectedTime(u, needed))]
             /\ spoilt' = (spoilt \/ FindUnixtime(arg'["isr"]) # CorrectedTime(u, needed))
             /\ setBacks' = IF needed THEN 0 ELSE Smaller(setBacks + 1, 2)

\* The weekday on which yearlyCheck is run on the 1st of January, at midnight.
YearlyDue == rtc.d = 0 /\ rtc.h = 0 /\ rtc.s = 0 /\ dow = 1

YearNow == IF YearlyDue THEN rtc.y ELSE dstYear

RTC_IRQHandler ==
    /\ power = "run" /\ pending /\ at["isr"] = "off"
    /\ pending' = FALSE
    /\ dstYear' = YearNow
    /\ secondlyCheck(YearNow)
    /\ UNCHANGED <<rtc, dow, valid, power, std, torn>>

-----------------------------------------------------------------------------
(* Power, RTC_time_Init, and the main loop.                                *)

\* What somebody who sets the clock to t means.
StandardTime(t) ==
    FindUnixtime(t) - Correction(dst_correction_needed_t_y(FindUnixtime(t), t.y))

PowerOn ==
    /\ power = "off"
    /\ power' = IF valid THEN "boot_check" ELSE "boot_time"
    /\ IF valid
       THEN UNCHANGED <<setVars, hist>>
       ELSE /\ at' = [at EXCEPT !["isr"] = "mark"]
            /\ arg' = [arg EXCEPT !["isr"] = Compiled]
            /\ std' = StandardTime(Compiled)
            /\ torn' = FALSE /\ spoilt' = FALSE /\ setBacks' = 0
    /\ UNCHANGED <<regVars, dstYear, pending>>

\* RTC_WriteGPREG(4, 0xaa) once the compile time is in the registers.
BootMarkValid ==
    /\ power = "boot_time" /\ at["isr"] = "off"
    /\ valid' = TRUE
    /\ power' = "boot_check"
    /\ UNCHANGED <<rtc, dow, mark, dstYear, pending, setVars, hist>>

\* yearlyCheck ... secondlyCheck, then interrupts are enabled.
BootCheck ==
    /\ power = "boot_check" /\ at["isr"] = "off"
    /\ power' = "run"
    /\ dstYear' = rtc.y
    /\ secondlyCheck(rtc.y)
    /\ UNCHANGED <<rtc, dow, valid, pending, std, torn>>

\* Power fails: RAM is lost, the battery keeps the registers.
PowerOff ==
    /\ power # "off"
    /\ power' = "off"
    /\ dstYear' = NoYear /\ pending' = FALSE
    /\ at' = [c \in Context |-> "off"] /\ arg' = [c \in Context |-> Compiled]
    /\ torn' = (torn \/ \E c \in Context : at[c] # "off")
    /\ setBacks' = 0
    /\ UNCHANGED <<regVars, std, spoilt>>

\* The web page sets the clock.
WebSetTime(t) ==
    /\ Running("main") /\ at["main"] = "off"
    /\ at' = [at EXCEPT !["main"] = "mark"] /\ arg' = [arg EXCEPT !["main"] = t]
    /\ std' = StandardTime(t)
    /\ torn' = FALSE /\ spoilt' = FALSE /\ setBacks' = 0
    /\ UNCHANGED <<regVars, dstYear, power, pending>>

\* A round of the main loop that does not touch the clock.
Idle == Running("main") /\ at["main"] = "off" /\ UNCHANGED vars

-----------------------------------------------------------------------------
(* The oscillator.  A handler takes far less than a second, so the next    *)
(* second comes after it; a setting from the main loop meets at most one.  *)

Tick ==
    /\ ~pending /\ at["isr"] = "off" /\ power \in {"off", "run"}
    /\ at["main"] # "off" => ~torn
    /\ SecondLater(rtc).y <= MaxYear
    /\ rtc' = SecondLater(rtc)
    /\ dow' = IF rtc'.d = rtc.d THEN dow ELSE (dow + 1) % 7
    /\ pending' = (power = "run")
    /\ torn' = (torn \/ at["main"] # "off")
    /\ std' = IF torn' \/ spoilt THEN 0 ELSE std + 1
    /\ UNCHANGED <<mark, valid, dstYear, power, setVars, spoilt, setBacks>>

-----------------------------------------------------------------------------

\* A new board: the registers hold anything, here their lowest values.
Init ==
    /\ rtc = [y |-> 0, d |-> 0, h |-> 0, s |-> 0] /\ dow = 0
    /\ mark = FALSE /\ valid = FALSE
    /\ dstYear = NoYear /\ power = "off" /\ pending = FALSE
    /\ at = [c \in Context |-> "off"] /\ arg = [c \in Context |-> Compiled]
    /\ std = 0 /\ torn = FALSE /\ spoilt = FALSE /\ setBacks = 0

Next ==
    \/ Tick \/ RTC_IRQHandler
    \/ \E c \in Context : SetTime(c)
    \/ \E t \in Time : WebSetTime(t)
    \/ PowerOn \/ BootMarkValid \/ BootCheck \/ PowerOff \/ Idle

Spec == Init /\ [][Next]_vars

-----------------------------------------------------------------------------
(* Properties.                                                             *)

\* The clock has been set and nobody is about to change it.
Settled ==
    /\ power = "run" /\ ~pending /\ \A c \in Context : at[c] = "off"

\* Types; in particular every value written to a register fits it.
TypeOK ==
    /\ rtc \in Time /\ dow \in 0 .. 6
    /\ mark \in BOOLEAN /\ valid \in BOOLEAN
    /\ dstYear \in Year \cup {NoYear}
    /\ power \in {"off", "boot_time", "boot_check", "run"} /\ pending \in BOOLEAN
    /\ at \in [Context -> {"off", "mark", "year", "day", "second", "hour", "yearly"}]
    /\ arg \in [Context -> Time]
    /\ std \in Int /\ torn \in BOOLEAN /\ spoilt \in BOOLEAN /\ setBacks \in 0 .. 2

\* The clock, less the hour the mark says it is ahead, is standard time:
\* whatever happens (seconds, corrections, settings, power failures over
\* either change) no hour is gained or lost, with three exceptions: a second
\* or a power failure cut into RTC_time_SetTime; RTC_time_SetTime put back
\* the mark that DST_check_and_correct had just changed (which every end of
\* daylight saving does, see SetBackOnce: from then on nothing is said until the
\* clock is set); the corrected time was on the other side of midnight, where
\* the date is not corrected.
StandardTimeKept ==
    Settled /\ ~torn /\ ~spoilt => FindUnixtime(rtc) - Correction(mark) = std

\* After every second the mark says what the calculated dates say of the
\* time in the registers, so that no correction is left to be made.
MarkMatchesClock ==
    Settled /\ ~torn => mark = dst_correction_needed(FindUnixtime(rtc))

\* "Only update time once for DST when it ticks over" (rtc.cpp:434): with
\* nobody setting the clock it is not set back a second time.
SetBackOnce == ~torn => setBacks < 2

=============================================================================
