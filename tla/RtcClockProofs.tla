---------------------------- MODULE RtcClockProofs ----------------------------
(***************************************************************************)
(* Proofs about RtcClock, for every length of the hour, the day and the year,*)
(* all dates of daylight saving and any number of years: the types, that no*)
(* correction is left to be made (MarkMatchesClock), and that no hour is   *)
(* gained or lost (StandardTimeKept).                                      *)
(*                                                                         *)
(* Both properties speak of a clock nobody is setting. What they need about*)
(* a setting under way is that nothing else writes the registers meanwhile *)
(* (WhoSets, MainAlone), that what is written so far is what was given     *)
(* (SoFarWritten), and that what was given is the standard time plus the   *)
(* hour of the mark (ArgKeepsTime). RegistersKeepTime carries the standard *)
(* time over a power failure, when Settled says nothing.                   *)
(***************************************************************************)
EXTENDS RtcClock, TLAPS

\* Who may be setting the clock when: the main loop only while the clock runs,
\* the interrupt only once it has been taken; nobody while power is off.
WhoSets ==
    /\ power # "run" => at["main"] = "off" /\ ~pending
    /\ power \in {"off", "boot_check"} => at["isr"] = "off"
    /\ at["isr"] # "off" => ~pending

\* A setting of the main loop that nothing has cut into runs alone.
MainAlone == at["main"] # "off" /\ ~torn => at["isr"] = "off" /\ ~pending

\* The stages of RTC_time_SetTime after which the mark, the year, the day, the
\* second and the hour are written.
MarkWritten   == {"year", "day", "second", "hour", "yearly"}
YearWritten   == MarkWritten \ {"year"}
DayWritten    == YearWritten \ {"day"}
SecondWritten == DayWritten \ {"second"}
HourWritten   == SecondWritten \ {"hour"}

\* What RTC_time_SetTime has written so far is what it was given.
Written(c) ==
    /\ at[c] \in MarkWritten => mark = MarkFor(arg[c])
    /\ at[c] \in YearWritten => rtc.y = arg[c].y
    /\ at[c] \in DayWritten => rtc.d = arg[c].d
    /\ at[c] \in SecondWritten => rtc.s = arg[c].s
    /\ at[c] \in HourWritten => rtc.h = arg[c].h

SoFarWritten == ~torn => \A c \in Context : Written(c)

\* The dates of daylight saving are calculated before interrupts are enabled.
DatesKnown == power = "run" => dstYear # NoYear

SettingInv == WhoSets /\ MainAlone /\ SoFarWritten

\* A setting that was asked for, rather than made by a correction, and has not
\* yet written the mark.
Fresh(c) == at[c] = "mark" /\ (c = "main" \/ power = "boot_time")

\* The time being written is standard time plus the hour of the mark.
ArgKeepsTime ==
    ~torn /\ ~spoilt =>
        \A c \in Context : at[c] # "off" =>
            IF Fresh(c) THEN StandardTime(arg[c]) = std
            ELSE FindUnixtime(arg[c]) - Correction(mark) = std

\* So is the time in the registers while nobody writes them, whether or not
\* the power is on, once they have been set.
RegistersKeepTime ==
    ~torn /\ ~spoilt /\ (power # "off" \/ valid) /\ (\A c \in Context : at[c] = "off") =>
        FindUnixtime(rtc) - Correction(mark) = std

ClockInv ==
    TypeOK /\ SettingInv /\ DatesKnown /\ MarkMatchesClock /\ ArgKeepsTime /\ RegistersKeepTime

-----------------------------------------------------------------------------
(* Arithmetic.                                                             *)

\* Unix times are integers.
LEMMA UnixInt == ASSUME NEW t \in Time PROVE FindUnixtime(t) \in Int
<1>1. t.y \in Int /\ t.d \in Int /\ t.h \in Int /\ t.s \in Int
  BY RtcAssumption DEF Time, Year
<1>2. Secs \in Int /\ Hours \in Int /\ Days \in Int
  BY RtcAssumption
<1>3. t.y * Days + t.d \in Int
  BY <1>1, <1>2
<1>4. (t.y * Days + t.d) * Hours + t.h \in Int
  BY <1>1, <1>2, <1>3
<1> QED BY <1>1, <1>2, <1>4 DEF FindUnixtime

\* A second more in the registers is a second more in Unix time.
LEMMA OneSecondLater ==
    ASSUME NEW t \in Time PROVE FindUnixtime(SecondLater(t)) = FindUnixtime(t) + 1
<1> DEFINE y == t.y
           d == t.d
           h == t.h
           s == t.s
           u == y * Days + d
           v == u * Hours + h
<1>1. y \in Int /\ d \in Int /\ h \in Int /\ s \in Int
  BY RtcAssumption DEF Time, Year
<1>2. d <= Days - 1 /\ h <= Hours - 1 /\ s <= Secs - 1
  BY RtcAssumption DEF Time
<1>3. Secs \in Int /\ Hours \in Int /\ Days \in Int
  BY RtcAssumption
<1>4. FindUnixtime(t) = v * Secs + s
  BY DEF FindUnixtime
<1>5. CASE s < Secs - 1
  <2>1. SecondLater(t) = [t EXCEPT !.s = @ + 1]
    BY <1>5 DEF SecondLater
  <2>2. /\ SecondLater(t).y = y /\ SecondLater(t).d = d /\ SecondLater(t).h = h
        /\ SecondLater(t).s = s + 1
    BY <2>1 DEF Time
  <2>3. FindUnixtime(SecondLater(t)) = v * Secs + (s + 1)
    BY <2>2 DEF FindUnixtime
  <2>4. v \in Int
    BY <1>1, <1>3
  <2> HIDE DEF v
  <2>5. v * Secs \in Int
    BY <1>3, <2>4
  <2> HIDE DEF s
  <2> QED BY <1>1, <1>4, <2>3, <2>5
<1>6. CASE s = Secs - 1 /\ h < Hours - 1
  <2>1. SecondLater(t) = [t EXCEPT !.s = 0, !.h = @ + 1]
    BY <1>3, <1>6 DEF SecondLater
  <2>2. /\ SecondLater(t).y = y /\ SecondLater(t).d = d /\ SecondLater(t).h = h + 1
        /\ SecondLater(t).s = 0
    BY <2>1 DEF Time
  <2>3. FindUnixtime(SecondLater(t)) = (u * Hours + (h + 1)) * Secs + 0
    BY <2>2 DEF FindUnixtime
  <2>4. u * Hours + (h + 1) = v + 1 /\ v \in Int
    <3>1. u \in Int
      BY <1>1, <1>3
    <3> HIDE DEF u
    <3>2. u * Hours \in Int
      BY <1>3, <3>1
    <3> HIDE DEF h
    <3> QED BY <1>1, <3>2
  <2> HIDE DEF v
  <2>5. (v + 1) * Secs + 0 = (v * Secs + (Secs - 1)) + 1
    BY <1>3, <2>4
  <2> QED BY <1>4, <1>6, <2>3, <2>4, <2>5
<1>7. CASE s = Secs - 1 /\ h = Hours - 1 /\ d < Days - 1
  <2>1. SecondLater(t) = [t EXCEPT !.s = 0, !.h = 0, !.d = @ + 1]
    BY <1>3, <1>7 DEF SecondLater
  <2>2. /\ SecondLater(t).y = y /\ SecondLater(t).d = d + 1 /\ SecondLater(t).h = 0
        /\ SecondLater(t).s = 0
    BY <2>1 DEF Time
  <2>3. FindUnixtime(SecondLater(t)) = ((y * Days + (d + 1)) * Hours + 0) * Secs + 0
    BY <2>2 DEF FindUnixtime
  <2>4. y * Days + (d + 1) = u + 1 /\ u \in Int
    <3>1. y * Days \in Int
      BY <1>1, <1>3
    <3> HIDE DEF d
    <3> QED BY <1>1, <3>1
  <2>5. v = u * Hours + (Hours - 1)
    BY <1>7
  <2> HIDE DEF u, v
  <2>6. (u + 1) * Hours + 0 = v + 1 /\ v \in Int
    BY <1>3, <2>4, <2>5
  <2>7. (v + 1) * Secs + 0 = (v * Secs + (Secs - 1)) + 1
    BY <1>3, <2>6
  <2> QED BY <1>4, <1>7, <2>3, <2>4, <2>6, <2>7
<1>8. CASE s = Secs - 1 /\ h = Hours - 1 /\ d = Days - 1
  <2>1. SecondLater(t) = [y |-> y + 1, d |-> 0, h |-> 0, s |-> 0]
    BY <1>3, <1>8 DEF SecondLater
  <2>3. FindUnixtime(SecondLater(t)) = (((y + 1) * Days + 0) * Hours + 0) * Secs + 0
    BY <2>1 DEF FindUnixtime
  <2>4. u = y * Days + (Days - 1)
    BY <1>8
  <2>5. v = u * Hours + (Hours - 1)
    BY <1>8
  <2> HIDE DEF u, v, y
  <2>6. (y + 1) * Days + 0 = u + 1 /\ u \in Int
    BY <1>1, <1>3, <2>4
  <2>7. (u + 1) * Hours + 0 = v + 1 /\ v \in Int
    BY <1>3, <2>5, <2>6
  <2>8. (v + 1) * Secs + 0 = (v * Secs + (Secs - 1)) + 1
    BY <1>3, <2>7
  <2> QED BY <1>4, <1>8, <2>3, <2>6, <2>7, <2>8
<1> HIDE DEF y, d, h, s, u, v
<1> QED BY <1>1, <1>2, <1>3, <1>5, <1>6, <1>7, <1>8

\* The registers carry into each other and stay in their ranges.
LEMMA SecondType ==
    ASSUME NEW t \in Time, SecondLater(t).y <= MaxYear PROVE SecondLater(t) \in Time
<1>1. /\ t.y \in 0 .. MaxYear /\ t.d \in 0 .. Days - 1 /\ t.h \in 0 .. Hours - 1
      /\ t.s \in 0 .. Secs - 1
  BY DEF Time, Year
<1>2. Secs \in Nat /\ Hours \in Nat /\ Days \in Nat /\ MaxYear \in Nat /\ Secs > 0 /\ Hours > 0
      /\ Days > 0
  BY RtcAssumption
<1>3. CASE t.s < Secs - 1
  BY <1>1, <1>2, <1>3 DEF SecondLater, Time, Year
<1>4. CASE ~(t.s < Secs - 1) /\ t.h < Hours - 1
  <2>1. SecondLater(t) = [t EXCEPT !.s = 0, !.h = t.h + 1]
    BY <1>4 DEF SecondLater
  <2>2. 0 \in 0 .. Secs - 1 /\ t.h + 1 \in 0 .. Hours - 1
    BY <1>1, <1>2, <1>4
  <2> QED BY <2>1, <2>2 DEF Time
<1>5. CASE ~(t.s < Secs - 1) /\ ~(t.h < Hours - 1) /\ t.d < Days - 1
  <2>1. SecondLater(t) = [t EXCEPT !.s = 0, !.h = 0, !.d = t.d + 1]
    BY <1>5 DEF SecondLater
  <2>2. 0 \in 0 .. Secs - 1 /\ 0 \in 0 .. Hours - 1 /\ t.d + 1 \in 0 .. Days - 1
    BY <1>1, <1>2, <1>5
  <2> QED BY <2>1, <2>2 DEF Time
<1>6. CASE ~(t.s < Secs - 1) /\ ~(t.h < Hours - 1) /\ ~(t.d < Days - 1)
  <2>1. SecondLater(t) = [y |-> t.y + 1, d |-> 0, h |-> 0, s |-> 0]
    BY <1>6 DEF SecondLater
  <2>2. t.y + 1 \in 0 .. MaxYear
    BY <1>1, <1>2, <2>1
  <2> QED BY <1>2, <2>1, <2>2 DEF Time, Year
<1> QED BY <1>3, <1>4, <1>5, <1>6

\* The time of day of any Unix time fits the registers.
LEMMA TimeOfDay ==
    ASSUME NEW t \in Time, NEW u \in Int PROVE WithTimeOf(t, u) \in Time
<1>1. u % Secs \in 0 .. Secs - 1 /\ u \div Secs \in Int
  BY RtcAssumption
<1>2. ASSUME NEW a \in Int PROVE a % Hours \in 0 .. Hours - 1
  BY RtcAssumption
<1>3. (u \div Secs) % Hours \in 0 .. Hours - 1
  BY <1>1, <1>2
<1> QED BY <1>1, <1>3 DEF WithTimeOf, Time

\* A time is made of its four registers.
LEMMA SameTime ==
    ASSUME NEW t \in Time, NEW u \in Time, t.y = u.y, t.d = u.d, t.h = u.h, t.s = u.s
    PROVE  t = u
BY DEF Time

-----------------------------------------------------------------------------
(* Types.                                                                  *)

Stages == {"off", "mark", "year", "day", "second", "hour", "yearly"}

\* The mark is a truth value whatever decides it.
LEMMA NeededType == \A u, y : dst_correction_needed_t_y(u, y) \in BOOLEAN
BY DEF dst_correction_needed_t_y

\* What somebody means is an integer.
LEMMA StandardType == ASSUME NEW t \in Time PROVE StandardTime(t) \in Int
<1>1. FindUnixtime(t) \in Int
  BY UnixInt
<1>2. \A on : Correction(on) \in Int
  BY RtcAssumption DEF Correction
<1> QED BY <1>1, <1>2 DEF StandardTime

\* A correction writes a time.
LEMMA CorrectedType ==
    ASSUME NEW t \in Time, NEW needed PROVE WithTimeOf(t, CorrectedTime(FindUnixtime(t), needed)) \in Time
<1>1. CorrectedTime(FindUnixtime(t), needed) \in Int
  BY UnixInt, RtcAssumption DEF CorrectedTime
<1> QED BY <1>1, TimeOfDay

\* secondlyCheck keeps the types.
LEMMA CheckType ==
    ASSUME TypeOK, NEW y, secondlyCheck(y)
    PROVE  mark' \in BOOLEAN /\ at' \in [Context -> Stages] /\ arg' \in [Context -> Time]
           /\ spoilt' \in BOOLEAN /\ setBacks' \in 0 .. 2
<1> DEFINE u == FindUnixtime(rtc)
           needed == dst_correction_needed_t_y(u, y)
<1>0. rtc \in Time /\ at \in [Context -> Stages] /\ arg \in [Context -> Time]
      /\ mark \in BOOLEAN /\ spoilt \in BOOLEAN /\ setBacks \in 0 .. 2
  BY DEF TypeOK, Stages
<1>1. CASE needed = mark
  BY <1>0, <1>1 DEF secondlyCheck, setVars
<1>2. CASE needed # mark
  <2>1. /\ mark' = needed /\ at' = [at EXCEPT !["isr"] = "mark"]
        /\ arg' = [arg EXCEPT !["isr"] = WithTimeOf(rtc, CorrectedTime(u, needed))]
        /\ spoilt' \in BOOLEAN
        /\ setBacks' = IF needed THEN 0 ELSE Smaller(setBacks + 1, 2)
    BY <1>0, <1>2 DEF secondlyCheck
  <2>2. WithTimeOf(rtc, CorrectedTime(u, needed)) \in Time
    BY <1>0, CorrectedType
  <2>3. needed \in BOOLEAN
    BY NeededType
  <2> HIDE DEF u, needed
  <2>4. setBacks' \in 0 .. 2
    BY <1>0, <2>1 DEF Smaller
  <2> QED BY <1>0, <2>1, <2>2, <2>3, <2>4 DEF Stages
<1> QED BY <1>1, <1>2

\* The day-of-week register has three bits and is given 0 to 6.
LEMMA WeekdayType == ASSUME NEW t \in Time PROVE dayOfWeek(t) \in 0 .. 6
<1> DEFINE n == t.y * Days + t.d
<1>1. t.y \in Int /\ t.d \in Int /\ Days \in Int
  BY RtcAssumption DEF Time, Year
<1>2. n \in Int
  BY <1>1
<1> HIDE DEF n
<1>3. n % 7 \in 0 .. 6
  BY <1>2
<1> QED BY <1>3 DEF dayOfWeek, n

\* TypeOK is inductive: one step per action.
LEMMA TypeStep == TypeOK /\ [Next]_vars => TypeOK'
<1> SUFFICES ASSUME TypeOK, [Next]_vars PROVE TypeOK'
  OBVIOUS
<1> USE DEF TypeOK, regVars, setVars, hist
<1>1. CASE UNCHANGED vars
  BY <1>1 DEF vars
<1>2. CASE Tick
  <2>1. rtc' \in Time
    BY <1>2, SecondType DEF Tick
  <2>2. dow' \in 0 .. 6
    BY <1>2 DEF Tick
  <2>3. std' \in Int /\ torn' \in BOOLEAN /\ pending' \in BOOLEAN
    BY <1>2 DEF Tick
  <2> QED BY <1>2, <2>1, <2>2, <2>3 DEF Tick
<1>3. CASE RTC_IRQHandler
  <2>1. dstYear' \in Year \cup {NoYear}
    BY <1>3 DEF RTC_IRQHandler, YearNow, Time
  <2>2. mark' \in BOOLEAN /\ at' \in [Context -> Stages] /\ arg' \in [Context -> Time]
        /\ spoilt' \in BOOLEAN /\ setBacks' \in 0 .. 2
    BY <1>3, CheckType DEF RTC_IRQHandler
  <2> QED BY <1>3, <2>1, <2>2 DEF RTC_IRQHandler, Stages
<1>4. ASSUME NEW c \in Context, SetTime(c) PROVE TypeOK'
  <2>0. arg[c] \in Time
    OBVIOUS
  <2>1. CASE SetMark(c)
    <3>1. mark' \in BOOLEAN
      BY <2>1, NeededType DEF SetMark, MarkFor
    <3> QED BY <2>1, <3>1 DEF SetMark, Step
  <2>2. CASE SetYear(c)
    <3>1. rtc' \in Time
      BY <2>0, <2>2 DEF SetYear, Time
    <3> QED BY <2>2, <3>1 DEF SetYear, Step
  <2>3. CASE SetDay(c)
    <3>1. rtc' \in Time /\ dow' \in 0 .. 6
      BY <2>0, <2>3, WeekdayType DEF SetDay, Time
    <3> QED BY <2>3, <3>1 DEF SetDay, Step
  <2>4. CASE SetSecond(c)
    <3>1. rtc' \in Time
      BY <2>0, <2>4 DEF SetSecond, Time
    <3> QED BY <2>4, <3>1 DEF SetSecond, Step
  <2>5. CASE SetHour(c)
    <3>1. rtc' \in Time
      BY <2>0, <2>5 DEF SetHour, Time
    <3> QED BY <2>5, <3>1 DEF SetHour, Step
  <2>6. CASE SetYearly(c)
    <3>1. dstYear' \in Year
      BY <2>6 DEF SetYearly, Time
    <3> QED BY <2>6, <3>1, CompiledAssumption DEF SetYearly, Step
  <2> QED BY <1>4, <2>1, <2>2, <2>3, <2>4, <2>5, <2>6 DEF SetTime
<1>5. ASSUME NEW t \in Time, WebSetTime(t) PROVE TypeOK'
  <2>1. std' \in Int
    BY <1>5, StandardType DEF WebSetTime
  <2>2. at' \in [Context -> Stages] /\ arg' \in [Context -> Time]
    BY <1>5 DEF WebSetTime, Stages
  <2>3. torn' \in BOOLEAN /\ spoilt' \in BOOLEAN
    BY <1>5, Zenon DEF WebSetTime
  <2> QED BY <1>5, <2>1, <2>2, <2>3 DEF WebSetTime, Stages
<1>6. CASE PowerOn
  <2>1. std' \in Int
    BY <1>6, StandardType, CompiledAssumption DEF PowerOn
  <2>2. at' \in [Context -> Stages] /\ arg' \in [Context -> Time]
    BY <1>6, CompiledAssumption DEF PowerOn, Stages
  <2>3. power' \in {"off", "boot_time", "boot_check", "run"}
    BY <1>6 DEF PowerOn
  <2>4. torn' \in BOOLEAN /\ spoilt' \in BOOLEAN
    BY <1>6, Zenon DEF PowerOn
  <2>5. setBacks' \in {0, setBacks}
    BY <1>6 DEF PowerOn
  <2> QED BY <1>6, <2>1, <2>2, <2>3, <2>4, <2>5 DEF PowerOn, Stages
<1>7. CASE BootMarkValid
  BY <1>7 DEF BootMarkValid
<1>8. CASE BootCheck
  <2>1. dstYear' \in Year
    BY <1>8 DEF BootCheck, Time
  <2>2. mark' \in BOOLEAN /\ at' \in [Context -> Stages] /\ arg' \in [Context -> Time]
        /\ spoilt' \in BOOLEAN /\ setBacks' \in 0 .. 2
    BY <1>8, CheckType DEF BootCheck
  <2> QED BY <1>8, <2>1, <2>2 DEF BootCheck, Stages
<1>9. CASE PowerOff
  <2>1. at' \in [Context -> Stages] /\ arg' \in [Context -> Time]
    BY <1>9, CompiledAssumption DEF PowerOff, Stages
  <2>2. torn' \in BOOLEAN
    BY <1>9 DEF PowerOff
  <2>3. dstYear' \in Year \cup {NoYear} /\ setBacks' = 0
    BY <1>9 DEF PowerOff
  <2>4. pending' \in BOOLEAN
    BY <1>9, Zenon DEF PowerOff
  <2> QED BY <1>9, <2>1, <2>2, <2>3, <2>4 DEF PowerOff, Stages
<1>10. CASE Idle
  BY <1>1, <1>10 DEF Idle
<1> QED BY <1>1, <1>2, <1>3, <1>4, <1>5, <1>6, <1>7, <1>8, <1>9, <1>10 DEF Next

\* The board when it is new.
LEMMA TypeInit == Init => TypeOK
<1> SUFFICES ASSUME Init PROVE TypeOK
  OBVIOUS
<1>1. rtc \in Time
  BY RtcAssumption DEF Init, Time, Year
<1>2. at \in [Context -> Stages] /\ arg \in [Context -> Time]
  BY CompiledAssumption DEF Init, Stages
<1>3. setBacks \in 0 .. 2 /\ std \in Int /\ dow \in 0 .. 6 /\ dstYear \in Year \cup {NoYear}
  BY DEF Init
<1> QED BY <1>1, <1>2, <1>3 DEF Init, TypeOK, Stages

\* Every value written to a register of the RTC fits it, the corrected hour
\* included.
THEOREM ClockTyped == Spec => []TypeOK
BY TypeInit, TypeStep, PTL DEF Spec

-----------------------------------------------------------------------------
(* What a setting of the clock has written.                                *)

\* Written, after a step.
LEMMA WrittenPrimed ==
    ASSUME NEW c \in Context
    PROVE  Written(c)' <=>
               /\ at'[c] \in MarkWritten => mark' = MarkFor(arg'[c])
               /\ at'[c] \in YearWritten => rtc'.y = arg'[c].y
               /\ at'[c] \in DayWritten => rtc'.d = arg'[c].d
               /\ at'[c] \in SecondWritten => rtc'.s = arg'[c].s
               /\ at'[c] \in HourWritten => rtc'.h = arg'[c].h
BY DEF Written, MarkFor, dst_correction_needed_t_y, begin_DST_unix, end_DST_unix, FindUnixtime,
       MarkWritten, YearWritten, DayWritten, SecondWritten, HourWritten

\* A setting that has not begun or has ended has written nothing to speak of.
LEMMA NothingWritten ==
    ASSUME NEW c \in Context, at'[c] \in {"off", "mark"} PROVE Written(c)'
BY WrittenPrimed DEF MarkWritten, YearWritten, DayWritten, SecondWritten, HourWritten

\* secondlyCheck sets nothing, or begins a setting.
LEMMA CheckSets ==
    ASSUME TypeOK, NEW y, secondlyCheck(y), \A c \in Context : at[c] = "off"
    PROVE  at'["main"] = "off" /\ at'["isr"] \in {"off", "mark"}
<1>1. at \in [Context -> Stages] /\ at["main"] = "off" /\ at["isr"] = "off"
  BY DEF TypeOK, Stages, Context
<1>2. at' = at \/ at' = [at EXCEPT !["isr"] = "mark"]
  BY DEF secondlyCheck, setVars
<1> QED BY <1>1, <1>2 DEF Context

\* One write of RTC_time_SetTime, when the other context does not set.
LEMMA WriteStep ==
    ASSUME TypeOK, NEW c \in Context, SetTime(c), Written(c),
           \A e \in Context \ {c} : at[e] = "off"
    PROVE  \A e \in Context : Written(e)'
<1>0. rtc \in Time /\ at \in [Context -> Stages] /\ arg \in [Context -> Time] /\ arg[c] \in Time
  BY DEF TypeOK, Stages
<1>1. \A e \in Context \ {c} : at'[e] = "off"
  <2>1. PICK to : at' = [at EXCEPT ![c] = to]
    BY DEF SetTime, SetMark, SetYear, SetDay, SetSecond, SetHour, SetYearly, Step
  <2> QED BY <1>0, <2>1
<1>2. \A e \in Context \ {c} : Written(e)'
  BY <1>1, NothingWritten
<1>3. Written(c)'
  <2> USE DEF Written, MarkWritten, YearWritten, DayWritten, SecondWritten, HourWritten
  <2>1. CASE SetMark(c)
    <3>1. at'[c] = "year" /\ mark' = MarkFor(arg'[c])
      BY <1>0, <2>1 DEF SetMark, Step
    <3> QED BY <3>1, WrittenPrimed
  <2>2. CASE SetYear(c)
    <3>1. at[c] = "year" /\ at'[c] = "day" /\ arg' = arg /\ mark' = mark /\ rtc'.y = arg[c].y
      BY <1>0, <2>2 DEF SetYear, Step, Time
    <3>2. mark' = MarkFor(arg'[c])
      BY <3>1
    <3> QED BY <3>1, <3>2, WrittenPrimed
  <2>3. CASE SetDay(c)
    <3>1. at[c] = "day" /\ at'[c] = "second" /\ arg' = arg /\ mark' = mark /\ rtc'.y = rtc.y
          /\ rtc'.d = arg[c].d
      BY <1>0, <2>3 DEF SetDay, Step, Time
    <3>2. mark' = MarkFor(arg'[c])
      BY <3>1
    <3> QED BY <3>1, <3>2, WrittenPrimed
  <2>4. CASE SetSecond(c)
    <3>1. at[c] = "second" /\ at'[c] = "hour" /\ arg' = arg /\ mark' = mark /\ rtc'.y = rtc.y
          /\ rtc'.d = rtc.d /\ rtc'.s = arg[c].s
      BY <1>0, <2>4 DEF SetSecond, Step, Time
    <3>2. mark' = MarkFor(arg'[c])
      BY <3>1
    <3> QED BY <3>1, <3>2, WrittenPrimed
  <2>5. CASE SetHour(c)
    <3>1. at[c] = "hour" /\ at'[c] = "yearly" /\ arg' = arg /\ mark' = mark /\ rtc'.y = rtc.y
          /\ rtc'.d = rtc.d /\ rtc'.s = rtc.s /\ rtc'.h = arg[c].h
      BY <1>0, <2>5 DEF SetHour, Step, Time
    <3>2. mark' = MarkFor(arg'[c])
      BY <3>1
    <3> QED BY <3>1, <3>2, WrittenPrimed
  <2>6. CASE SetYearly(c)
    <3>1. at'[c] = "off"
      BY <1>0, <2>6 DEF SetYearly, Step
    <3> QED BY <3>1, NothingWritten
  <2> QED BY <2>1, <2>2, <2>3, <2>4, <2>5, <2>6 DEF SetTime
<1> QED BY <1>2, <1>3

\* What the writes of RTC_time_SetTime leave alone.
LEMMA WriteFrame ==
    ASSUME TypeOK, NEW c \in Context, SetTime(c)
    PROVE  /\ UNCHANGED <<power, pending, torn, valid, std>> /\ Running(c) /\ at[c] # "off"
           /\ \A e \in Context \ {c} : at'[e] = at[e] /\ arg'[e] = arg[e]
           /\ at' \in [Context -> Stages]
<1>1. UNCHANGED <<power, pending, torn, valid, std>> /\ Running(c) /\ at[c] # "off"
  BY DEF SetTime, SetMark, SetYear, SetDay, SetSecond, SetHour, SetYearly, Step, hist, regVars
<1>2. PICK to \in Stages : at' = [at EXCEPT ![c] = to]
  BY DEF SetTime, SetMark, SetYear, SetDay, SetSecond, SetHour, SetYearly, Step, Stages
<1>3. PICK t : arg' = [arg EXCEPT ![c] = t] \/ arg' = arg
  BY DEF SetTime, SetMark, SetYear, SetDay, SetSecond, SetHour, SetYearly
<1>4. at \in [Context -> Stages] /\ arg \in [Context -> Time]
  BY DEF TypeOK, Stages
<1> QED BY <1>1, <1>2, <1>3, <1>4

\* SettingInv is inductive: one step per action.
LEMMA SettingStep == TypeOK /\ SettingInv /\ [Next]_vars => SettingInv'
<1> SUFFICES ASSUME TypeOK, SettingInv, [Next]_vars PROVE SettingInv'
  OBVIOUS
<1>0. WhoSets /\ MainAlone /\ SoFarWritten
  BY DEF SettingInv
<1>a. at \in [Context -> Stages] /\ Context = {"main", "isr"} /\ torn \in BOOLEAN
  BY DEF TypeOK, Stages, Context
<1>b. ASSUME UNCHANGED <<at, arg, mark, rtc, torn>> PROVE SoFarWritten'
  BY <1>0, <1>b, WrittenPrimed DEF SoFarWritten, Written
<1>c. ASSUME \A c \in Context : at'[c] \in {"off", "mark"} PROVE SoFarWritten'
  BY <1>c, NothingWritten DEF SoFarWritten
<1>1. CASE UNCHANGED vars
  BY <1>0, <1>1, <1>b DEF vars, regVars, setVars, hist, SettingInv, WhoSets, MainAlone
<1>2. CASE Tick
  <2>1. at' = at /\ arg' = arg /\ mark' = mark /\ power' = power /\ at["isr"] = "off"
        /\ power \in {"off", "run"} /\ (pending' <=> power = "run")
        /\ (torn' <=> torn \/ at["main"] # "off")
    BY <1>2, <1>a DEF Tick, setVars
  <2>2. WhoSets' /\ MainAlone'
    BY <1>0, <2>1 DEF WhoSets, MainAlone
  <2>3. SoFarWritten'
    <3>1. CASE at["main"] # "off"
      BY <2>1, <3>1 DEF SoFarWritten
    <3>2. CASE at["main"] = "off"
      BY <1>a, <1>c, <2>1, <3>2
    <3> QED BY <3>1, <3>2
  <2> QED BY <2>2, <2>3 DEF SettingInv
<1>3. CASE RTC_IRQHandler
  <2>1. power = "run" /\ power' = power /\ at["isr"] = "off" /\ pending /\ ~pending' /\ torn' = torn
    BY <1>3 DEF RTC_IRQHandler
  <2>2. CASE torn
    <3>1. at' = at \/ at' = [at EXCEPT !["isr"] = "mark"]
      BY <1>3 DEF RTC_IRQHandler, secondlyCheck, setVars
    <3> QED BY <1>0, <1>a, <2>1, <2>2, <3>1 DEF WhoSets, MainAlone, SoFarWritten, SettingInv
  <2>3. CASE ~torn
    <3>1. \A c \in Context : at[c] = "off"
      BY <1>0, <1>a, <2>1, <2>3 DEF MainAlone
    <3>2. at'["main"] = "off" /\ at'["isr"] \in {"off", "mark"}
      BY <1>3, <3>1, CheckSets DEF RTC_IRQHandler
    <3> QED BY <1>a, <1>c, <2>1, <3>2 DEF WhoSets, MainAlone, SettingInv
  <2> QED BY <2>2, <2>3
<1>4. ASSUME NEW c \in Context, SetTime(c) PROVE SettingInv'
  <2>1. /\ UNCHANGED <<power, pending, torn>> /\ Running(c) /\ at[c] # "off"
        /\ \A e \in Context \ {c} : at'[e] = at[e]
    BY <1>4, WriteFrame
  <2>2. WhoSets' /\ MainAlone'
    BY <1>0, <1>a, <2>1 DEF WhoSets, MainAlone, Running
  <2>3. CASE torn
    BY <2>1, <2>2, <2>3 DEF SettingInv, SoFarWritten
  <2>4. CASE ~torn
    <3>1. \A e \in Context \ {c} : at[e] = "off"
      BY <1>0, <1>a, <2>1, <2>4 DEF MainAlone, Running
    <3>2. Written(c)
      BY <1>0, <2>4 DEF SoFarWritten
    <3>3. \A e \in Context : Written(e)'
      BY <1>4, <3>1, <3>2, WriteStep
    <3> QED BY <2>2, <3>3 DEF SettingInv, SoFarWritten
  <2> QED BY <2>3, <2>4
<1>5. ASSUME NEW t \in Time, WebSetTime(t) PROVE SettingInv'
  <2>1. /\ at' = [at EXCEPT !["main"] = "mark"] /\ power' = power /\ pending' = pending
        /\ power = "run" /\ ~pending /\ at["isr"] = "off"
    BY <1>5 DEF WebSetTime, Running
  <2>2. at'["main"] = "mark" /\ at'["isr"] = "off"
    BY <1>a, <2>1
  <2> QED BY <1>a, <1>c, <2>1, <2>2 DEF SettingInv, WhoSets, MainAlone
<1>6. CASE PowerOn
  <2>1. /\ power = "off" /\ power' \in {"boot_check", "boot_time"} /\ pending' = pending
        /\ at' = IF valid THEN at ELSE [at EXCEPT !["isr"] = "mark"]
        /\ power' = IF valid THEN "boot_check" ELSE "boot_time"
    BY <1>6 DEF PowerOn, setVars
  <2>2. at["main"] = "off" /\ at["isr"] = "off" /\ ~pending
    BY <1>0, <2>1 DEF WhoSets
  <2>3. at'["main"] = "off" /\ at'["isr"] = IF valid THEN "off" ELSE "mark"
    BY <1>a, <2>1, <2>2
  <2> QED BY <1>a, <1>c, <2>1, <2>2, <2>3 DEF SettingInv, WhoSets, MainAlone
<1>7. CASE BootMarkValid
  <2>1. power = "boot_time" /\ at["isr"] = "off" /\ power' = "boot_check" /\ at' = at
        /\ UNCHANGED <<arg, mark, rtc, torn, pending>>
    BY <1>7 DEF BootMarkValid, setVars, hist
  <2> QED BY <1>0, <1>b, <2>1 DEF SettingInv, WhoSets, MainAlone
<1>8. CASE BootCheck
  <2>1. power = "boot_check" /\ power' = "run" /\ at["isr"] = "off" /\ pending' = pending
    BY <1>8 DEF BootCheck
  <2>2. at["main"] = "off" /\ ~pending
    BY <1>0, <2>1 DEF WhoSets
  <2>3. at'["main"] = "off" /\ at'["isr"] \in {"off", "mark"}
    BY <1>8, <1>a, <2>1, <2>2, CheckSets DEF BootCheck
  <2> QED BY <1>a, <1>c, <2>1, <2>2, <2>3 DEF SettingInv, WhoSets, MainAlone
<1>9. CASE PowerOff
  <2>1. power' = "off" /\ ~pending' /\ \A c \in Context : at'[c] = "off"
    BY <1>9 DEF PowerOff
  <2> QED BY <1>a, <1>c, <2>1 DEF SettingInv, WhoSets, MainAlone
<1>10. CASE Idle
  BY <1>1, <1>10 DEF Idle
<1> QED BY <1>1, <1>2, <1>3, <1>4, <1>5, <1>6, <1>7, <1>8, <1>9, <1>10 DEF Next

-----------------------------------------------------------------------------
(* The mark and the dates.                                                 *)

\* MarkMatchesClock, after a step.
LEMMA MatchPrimed ==
    MarkMatchesClock' <=>
        ((power' = "run" /\ ~pending' /\ \A c \in Context : at'[c] = "off") /\ ~torn' =>
            mark' = (dstYear' # NoYear /\ dst_correction_needed_t_y(FindUnixtime(rtc'), dstYear')))
BY DEF MarkMatchesClock, Settled, dst_correction_needed, dst_correction_needed_t_y, begin_DST_unix,
       end_DST_unix, FindUnixtime

\* When RTC_time_SetTime ends, the registers hold the time it was given.
LEMMA AllWritten ==
    ASSUME TypeOK, NEW c \in Context, at[c] = "yearly", Written(c)
    PROVE  rtc = arg[c] /\ mark = MarkFor(rtc)
<1>1. rtc \in Time /\ arg[c] \in Time
  BY DEF TypeOK
<1>2. rtc.y = arg[c].y /\ rtc.d = arg[c].d /\ rtc.s = arg[c].s /\ rtc.h = arg[c].h
      /\ mark = MarkFor(arg[c])
  BY DEF Written, MarkWritten, YearWritten, DayWritten, SecondWritten, HourWritten
<1>3. rtc = arg[c]
  BY <1>1, <1>2, SameTime
<1> QED BY <1>2, <1>3

\* secondlyCheck finds the mark right for the dates of year y, or begins a
\* setting.
LEMMA CheckMatches ==
    ASSUME TypeOK, NEW y, secondlyCheck(y), at'["isr"] = "off"
    PROVE  mark' = dst_correction_needed_t_y(FindUnixtime(rtc), y)
<1>1. at \in [Context -> Stages]
  BY DEF TypeOK, Stages
<1>2. CASE dst_correction_needed_t_y(FindUnixtime(rtc), y) = mark
  BY <1>2 DEF secondlyCheck
<1>3. CASE dst_correction_needed_t_y(FindUnixtime(rtc), y) # mark
  <2>1. at' = [at EXCEPT !["isr"] = "mark"]
    BY <1>3 DEF secondlyCheck
  <2> QED BY <1>1, <2>1 DEF Context
<1> QED BY <1>2, <1>3

\* The dates are known: one step per action.
LEMMA DatesStep == TypeOK /\ DatesKnown /\ [Next]_vars => DatesKnown'
<1> SUFFICES ASSUME TypeOK, DatesKnown, [Next]_vars, power' = "run" PROVE dstYear' # NoYear
  BY DEF DatesKnown
<1>1. rtc.y # NoYear
  BY RtcAssumption DEF TypeOK, Time, Year, NoYear
<1>2. CASE UNCHANGED <<power, dstYear>>
  BY <1>2 DEF DatesKnown
<1>3. CASE RTC_IRQHandler
  BY <1>1, <1>3 DEF RTC_IRQHandler, YearNow, DatesKnown
<1>4. ASSUME NEW c \in Context, SetTime(c) PROVE dstYear' # NoYear
  BY <1>1, <1>2, <1>4 DEF SetTime, SetMark, SetYear, SetDay, SetSecond, SetHour, SetYearly
<1>5. CASE BootCheck
  BY <1>1, <1>5 DEF BootCheck
<1>6. CASE PowerOn \/ BootMarkValid \/ PowerOff
  BY <1>6 DEF PowerOn, BootMarkValid, PowerOff
<1>7. CASE Tick \/ Idle \/ \E t \in Time : WebSetTime(t)
  BY <1>2, <1>7 DEF Tick, Idle, WebSetTime, vars
<1> QED BY <1>2, <1>3, <1>4, <1>5, <1>6, <1>7 DEF Next, vars

\* MarkMatchesClock is inductive relative to SettingInv: one step per action.
LEMMA MatchStep ==
    TypeOK /\ SettingInv /\ DatesKnown /\ MarkMatchesClock /\ [Next]_vars => MarkMatchesClock'
<1> SUFFICES ASSUME TypeOK, SettingInv, DatesKnown, MarkMatchesClock, [Next]_vars,
                    power' = "run", ~pending', \A c \in Context : at'[c] = "off", ~torn'
             PROVE  mark' = (dstYear' # NoYear
                             /\ dst_correction_needed_t_y(FindUnixtime(rtc'), dstYear'))
  BY MatchPrimed
<1>0. at \in [Context -> Stages] /\ Context = {"main", "isr"} /\ rtc \in Time
  BY DEF TypeOK, Stages, Context
<1>n. dst_correction_needed_t_y(FindUnixtime(rtc'), dstYear') \in BOOLEAN
  BY NeededType
<1>1. CASE UNCHANGED vars
  BY <1>1 DEF vars, regVars, setVars, hist, MarkMatchesClock, Settled, dst_correction_needed
<1>2. CASE Tick
  <2>1. power' = power /\ (pending' <=> power = "run")
    BY <1>2 DEF Tick
  <2> QED BY <2>1
<1>3. CASE RTC_IRQHandler
  <2>1. secondlyCheck(dstYear') /\ rtc' = rtc /\ at["isr"] = "off"
    BY <1>3 DEF RTC_IRQHandler
  <2>2. mark' = dst_correction_needed_t_y(FindUnixtime(rtc), dstYear')
    BY <1>0, <2>1, CheckMatches
  <2>3. dstYear' # NoYear
    BY DatesStep DEF DatesKnown
  <2> QED BY <1>n, <2>1, <2>2, <2>3
<1>4. ASSUME NEW c \in Context, SetTime(c)
      PROVE  mark' = (dstYear' # NoYear
                      /\ dst_correction_needed_t_y(FindUnixtime(rtc'), dstYear'))
  <2>1. SetYearly(c)
    <3>1. at'[c] = "off"
      OBVIOUS
    <3> QED BY <1>0, <1>4, <3>1 DEF SetTime, SetMark, SetYear, SetDay, SetSecond, SetHour, Step
  <2>2. at[c] = "yearly" /\ UNCHANGED <<rtc, mark, torn>> /\ dstYear' = rtc.y
    BY <2>1 DEF SetYearly, Step, regVars, hist
  <2>3. Written(c)
    BY <2>2 DEF SettingInv, SoFarWritten
  <2>4. mark = MarkFor(rtc)
    BY <2>2, <2>3, AllWritten
  <2>5. rtc.y # NoYear
    BY <1>0, RtcAssumption DEF Time, Year, NoYear
  <2> QED BY <1>n, <2>2, <2>4, <2>5 DEF MarkFor
<1>5. CASE \E t \in Time : WebSetTime(t)
  BY <1>0, <1>5 DEF WebSetTime
<1>6. CASE PowerOn \/ BootMarkValid \/ PowerOff
  BY <1>6 DEF PowerOn, BootMarkValid, PowerOff
<1>7. CASE BootCheck
  <2>1. secondlyCheck(rtc.y) /\ rtc' = rtc /\ dstYear' = rtc.y
    BY <1>7 DEF BootCheck
  <2>2. mark' = dst_correction_needed_t_y(FindUnixtime(rtc), rtc.y)
    BY <1>0, <2>1, CheckMatches
  <2>3. rtc.y # NoYear
    BY <1>0, RtcAssumption DEF Time, Year, NoYear
  <2> QED BY <1>n, <2>1, <2>2, <2>3
<1>8. CASE Idle
  BY <1>1, <1>8 DEF Idle
<1> QED BY <1>1, <1>2, <1>3, <1>4, <1>5, <1>6, <1>7, <1>8 DEF Next

-----------------------------------------------------------------------------
(* Standard time.                                                          *)

\* ArgKeepsTime and RegistersKeepTime, after a step.
LEMMA KeepPrimed ==
    /\ ArgKeepsTime' <=>
           (~torn' /\ ~spoilt' =>
               \A c \in Context : at'[c] # "off" =>
                   IF at'[c] = "mark" /\ (c = "main" \/ power' = "boot_time")
                   THEN StandardTime(arg'[c]) = std'
                   ELSE FindUnixtime(arg'[c]) - Correction(mark') = std')
    /\ RegistersKeepTime' <=>
           (~torn' /\ ~spoilt' /\ (power' # "off" \/ valid') /\ (\A c \in Context : at'[c] = "off") =>
               FindUnixtime(rtc') - Correction(mark') = std')
BY DEF ArgKeepsTime, Fresh, RegistersKeepTime, StandardTime, dst_correction_needed_t_y,
       begin_DST_unix, end_DST_unix, FindUnixtime, Correction

\* A correction that is not spoilt moves the clock by the hour that the mark
\* says, so that the standard time stays.
LEMMA CorrectionKeeps ==
    ASSUME TypeOK, NEW y, secondlyCheck(y), ~spoilt', std' = std, rtc' = rtc,
           \A c \in Context : at[c] = "off", FindUnixtime(rtc) - Correction(mark) = std
    PROVE  /\ ~spoilt
           /\ at'["isr"] # "off" => FindUnixtime(arg'["isr"]) - Correction(mark') = std
           /\ at'["isr"] = "off" => FindUnixtime(rtc) - Correction(mark') = std
<1> DEFINE u == FindUnixtime(rtc)
           needed == dst_correction_needed_t_y(u, y)
<1>0. at \in [Context -> Stages] /\ "isr" \in Context /\ at["isr"] = "off" /\ mark \in BOOLEAN
      /\ rtc \in Time /\ spoilt \in BOOLEAN
  BY DEF TypeOK, Stages, Context
<1>1. CASE needed = mark
  BY <1>0, <1>1 DEF secondlyCheck, setVars
<1>2. CASE needed # mark
  <2>1. /\ mark' = needed /\ at' = [at EXCEPT !["isr"] = "mark"]
        /\ spoilt' = (spoilt \/ FindUnixtime(arg'["isr"]) # CorrectedTime(u, needed))
    BY <1>2 DEF secondlyCheck
  <2>2. ~spoilt /\ FindUnixtime(arg'["isr"]) = CorrectedTime(u, needed) /\ at'["isr"] = "mark"
    BY <1>0, <2>1
  <2>3. needed \in BOOLEAN /\ u \in Int /\ Secs \in Int
    BY <1>0, NeededType, UnixInt, RtcAssumption
  <2> HIDE DEF u, needed
  <2>4. CASE needed
    <3>1. mark = FALSE
      BY <1>0, <1>2, <2>4, Zenon
    <3>2. CorrectedTime(u, needed) = u + Secs /\ Correction(mark') = Secs /\ Correction(mark) = 0
      BY <2>1, <2>4, <3>1 DEF CorrectedTime, Correction
    <3>3. u - 0 = std
      BY <3>2 DEF u
    <3> QED BY <2>2, <2>3, <3>2, <3>3
  <2>5. CASE ~needed
    <3>1. mark = TRUE
      BY <1>0, <1>2, <2>3, <2>5, Zenon
    <3>2. CorrectedTime(u, needed) = u - Secs /\ Correction(mark') = 0 /\ Correction(mark) = Secs
      BY <2>1, <2>5, <3>1 DEF CorrectedTime, Correction
    <3>3. u - Secs = std
      BY <3>2 DEF u
    <3> QED BY <2>2, <2>3, <3>2, <3>3
  <2> QED BY <2>4, <2>5
<1> QED BY <1>1, <1>2

\* A check of the dates, by the interrupt or at the start, when nobody sets the
\* clock.
LEMMA CheckKeeps ==
    ASSUME TypeOK, ArgKeepsTime, RegistersKeepTime, NEW y, secondlyCheck(y),
           UNCHANGED <<rtc, std, torn>>, power' = "run", power # "off",
           \A c \in Context : at[c] = "off"
    PROVE  ArgKeepsTime' /\ RegistersKeepTime'
<1> SUFFICES ASSUME ~torn', ~spoilt' PROVE ArgKeepsTime' /\ RegistersKeepTime'
  BY KeepPrimed
<1>1. ~spoilt
  <2>1. spoilt \in BOOLEAN
    BY DEF TypeOK
  <2> QED BY <2>1 DEF secondlyCheck
<1>2. FindUnixtime(rtc) - Correction(mark) = std
  BY <1>1 DEF RegistersKeepTime
<1>3. /\ at'["isr"] # "off" => FindUnixtime(arg'["isr"]) - Correction(mark') = std
      /\ at'["isr"] = "off" => FindUnixtime(rtc) - Correction(mark') = std
  BY <1>2, CorrectionKeeps
<1>4. at'["main"] = "off" /\ Context = {"main", "isr"}
  BY CheckSets DEF Context
<1>5. ArgKeepsTime'
  BY <1>3, <1>4, KeepPrimed
<1>6. RegistersKeepTime'
  BY <1>3, <1>4, KeepPrimed
<1> QED BY <1>5, <1>6

\* One write of RTC_time_SetTime, when the other context does not set.
LEMMA WriteKeeps ==
    ASSUME TypeOK, ArgKeepsTime, NEW c \in Context, SetTime(c), Written(c),
           \A e \in Context \ {c} : at[e] = "off"
    PROVE  ArgKeepsTime' /\ RegistersKeepTime'
<1> SUFFICES ASSUME ~torn', ~spoilt' PROVE ArgKeepsTime' /\ RegistersKeepTime'
  BY KeepPrimed
<1>0. /\ UNCHANGED <<power, torn, std>> /\ at[c] # "off" /\ at \in [Context -> Stages]
      /\ (\A e \in Context \ {c} : at'[e] = "off") /\ arg \in [Context -> Time]
  BY WriteFrame DEF TypeOK, Stages
<1>1. ~spoilt
  <2>1. spoilt \in BOOLEAN
    BY DEF TypeOK
  <2> QED BY <2>1 DEF SetTime, SetMark, SetYear, SetDay, SetSecond, SetHour, SetYearly, hist
<1>2. IF Fresh(c) THEN StandardTime(arg[c]) = std
      ELSE FindUnixtime(arg[c]) - Correction(mark) = std
  BY <1>0, <1>1 DEF ArgKeepsTime
<1>3. CASE SetMark(c)
  <2>1. at[c] = "mark" /\ at'[c] = "year" /\ arg' = arg /\ mark' = MarkFor(arg[c])
    BY <1>0, <1>3 DEF SetMark, Step
  <2>2. FindUnixtime(arg[c]) - Correction(mark') = std
    <3>1. CASE Fresh(c)
      BY <1>2, <2>1, <3>1 DEF StandardTime, MarkFor
    <3>2. CASE ~Fresh(c)
      <4>1. c = "isr" /\ power # "boot_time"
        BY <2>1, <3>2 DEF Fresh, Context
      <4>2. mark' = mark
        BY <1>3, <4>1 DEF SetMark
      <4> QED BY <1>2, <3>2, <4>2
    <3> QED BY <3>1, <3>2
  <2> QED BY <1>0, <2>1, <2>2, KeepPrimed
<1>4. CASE SetYear(c) \/ SetDay(c) \/ SetSecond(c) \/ SetHour(c)
  <2>1. at[c] # "mark" /\ at'[c] # "off" /\ at'[c] # "mark" /\ arg' = arg /\ mark' = mark
    BY <1>0, <1>4 DEF SetYear, SetDay, SetSecond, SetHour, Step
  <2>2. FindUnixtime(arg[c]) - Correction(mark) = std
    BY <1>2, <2>1 DEF Fresh
  <2> QED BY <1>0, <2>1, <2>2, KeepPrimed
<1>5. CASE SetYearly(c)
  <2>1. at[c] = "yearly" /\ at'[c] = "off" /\ mark' = mark /\ rtc' = rtc
    BY <1>0, <1>5 DEF SetYearly, Step, regVars
  <2>2. rtc = arg[c]
    BY <2>1, AllWritten
  <2>3. FindUnixtime(rtc) - Correction(mark) = std
    BY <1>2, <2>1, <2>2 DEF Fresh
  <2> QED BY <1>0, <2>1, <2>3, KeepPrimed
<1> QED BY <1>3, <1>4, <1>5 DEF SetTime

\* Both are inductive relative to SettingInv: one step per action.
LEMMA KeepStep ==
    TypeOK /\ SettingInv /\ ArgKeepsTime /\ RegistersKeepTime /\ [Next]_vars
        => ArgKeepsTime' /\ RegistersKeepTime'
<1> SUFFICES ASSUME TypeOK, SettingInv, ArgKeepsTime, RegistersKeepTime, [Next]_vars
             PROVE  ArgKeepsTime' /\ RegistersKeepTime'
  OBVIOUS
<1>0. /\ at \in [Context -> Stages] /\ Context = {"main", "isr"} /\ arg \in [Context -> Time]
      /\ WhoSets /\ MainAlone /\ SoFarWritten /\ rtc \in Time
  BY DEF TypeOK, Stages, Context, SettingInv
<1>1. CASE UNCHANGED vars
  BY <1>1, KeepPrimed
  DEF vars, regVars, setVars, hist, ArgKeepsTime, RegistersKeepTime, Fresh
<1>2. CASE Tick
  <2>1. at' = at /\ arg' = arg /\ mark' = mark /\ power' = power /\ valid' = valid
        /\ spoilt' = spoilt /\ at["isr"] = "off" /\ rtc' = SecondLater(rtc)
        /\ torn' = (torn \/ at["main"] # "off")
        /\ std' = IF torn' \/ spoilt THEN 0 ELSE std + 1
    BY <1>2 DEF Tick, setVars
  <2> SUFFICES ASSUME ~torn', ~spoilt' PROVE ArgKeepsTime' /\ RegistersKeepTime'
    BY KeepPrimed
  <2>2. torn \in BOOLEAN
    BY DEF TypeOK
  <2>3. ~torn /\ ~spoilt /\ \A c \in Context : at[c] = "off"
    BY <1>0, <2>1, <2>2
  <2>4. ArgKeepsTime'
    BY <2>1, <2>3, KeepPrimed
  <2>5. std' = std + 1 /\ FindUnixtime(rtc') = FindUnixtime(rtc) + 1
    BY <1>0, <2>1, <2>3, OneSecondLater
  <2>6. RegistersKeepTime'
    <3> SUFFICES ASSUME power # "off" \/ valid
                 PROVE  FindUnixtime(rtc') - Correction(mark) = std'
      BY <2>1, KeepPrimed
    <3>1. FindUnixtime(rtc) - Correction(mark) = std
      BY <2>3 DEF RegistersKeepTime
    <3>2. FindUnixtime(rtc) \in Int /\ Correction(mark) \in Int
      BY <1>0, UnixInt, RtcAssumption DEF Correction
    <3> QED BY <2>5, <3>1, <3>2
  <2> QED BY <2>4, <2>6
<1>3. CASE RTC_IRQHandler
  <2>1. /\ power = "run" /\ power' = "run" /\ pending /\ at["isr"] = "off" /\ secondlyCheck(YearNow)
        /\ UNCHANGED <<rtc, std, torn>>
    BY <1>3 DEF RTC_IRQHandler
  <2>2. CASE torn
    BY <2>1, <2>2, KeepPrimed
  <2>3. CASE ~torn
    <3>1. \A c \in Context : at[c] = "off"
      BY <1>0, <2>1, <2>3 DEF MainAlone
    <3> QED BY <2>1, <3>1, CheckKeeps
  <2> QED BY <2>2, <2>3
<1>4. ASSUME NEW c \in Context, SetTime(c) PROVE ArgKeepsTime' /\ RegistersKeepTime'
  <2>1. torn' = torn /\ Running(c) /\ at[c] # "off"
    BY <1>4, WriteFrame
  <2>2. CASE torn
    BY <2>1, <2>2, KeepPrimed
  <2>3. CASE ~torn
    <3>1. \A e \in Context \ {c} : at[e] = "off"
      BY <1>0, <2>1, <2>3 DEF MainAlone, Running
    <3>2. Written(c)
      BY <1>0, <2>3 DEF SoFarWritten
    <3> QED BY <1>4, <3>1, <3>2, WriteKeeps
  <2> QED BY <2>2, <2>3
<1>5. ASSUME NEW t \in Time, WebSetTime(t) PROVE ArgKeepsTime' /\ RegistersKeepTime'
  <2>1. at' = [at EXCEPT !["main"] = "mark"] /\ arg' = [arg EXCEPT !["main"] = t]
        /\ std' = StandardTime(t) /\ at["isr"] = "off"
    BY <1>5 DEF WebSetTime, Running
  <2>2. at'["main"] = "mark" /\ at'["isr"] = "off" /\ arg'["main"] = t
    BY <1>0, <2>1
  <2> QED BY <1>0, <2>1, <2>2, KeepPrimed
<1>6. CASE PowerOn
  <2>1. power = "off" /\ at["main"] = "off" /\ at["isr"] = "off"
    BY <1>0, <1>6 DEF PowerOn, WhoSets
  <2>2. CASE valid
    <3>1. UNCHANGED <<at, arg, std, torn, spoilt, rtc, mark, valid>>
      BY <1>6, <2>2 DEF PowerOn, setVars, hist, regVars
    <3> QED BY <1>0, <2>1, <2>2, <3>1, KeepPrimed DEF RegistersKeepTime
  <2>3. CASE ~valid
    <3>1. at' = [at EXCEPT !["isr"] = "mark"] /\ arg' = [arg EXCEPT !["isr"] = Compiled]
          /\ std' = StandardTime(Compiled) /\ power' = "boot_time"
      BY <1>6, <2>3 DEF PowerOn
    <3>2. at'["main"] = "off" /\ at'["isr"] = "mark" /\ arg'["isr"] = Compiled
      BY <1>0, <2>1, <3>1
    <3> QED BY <1>0, <3>1, <3>2, KeepPrimed
  <2> QED BY <2>2, <2>3
<1>7. CASE BootMarkValid
  <2>1. power = "boot_time" /\ at["isr"] = "off" /\ power' = "boot_check"
        /\ UNCHANGED <<at, arg, std, torn, spoilt, rtc, mark>>
    BY <1>7 DEF BootMarkValid, setVars, hist
  <2>2. at["main"] = "off"
    BY <1>0, <2>1 DEF WhoSets
  <2> QED BY <1>0, <2>1, <2>2, KeepPrimed DEF RegistersKeepTime
<1>8. CASE BootCheck
  <2>1. /\ power = "boot_check" /\ power' = "run" /\ at["isr"] = "off" /\ secondlyCheck(rtc.y)
        /\ UNCHANGED <<rtc, std, torn>>
    BY <1>8 DEF BootCheck
  <2>2. \A c \in Context : at[c] = "off"
    BY <1>0, <2>1 DEF WhoSets
  <2> QED BY <2>1, <2>2, CheckKeeps
<1>9. CASE PowerOff
  <2>1. /\ (\A c \in Context : at'[c] = "off") /\ power # "off" /\ UNCHANGED <<rtc, mark, valid, std, spoilt>>
        /\ torn' = (torn \/ \E c \in Context : at[c] # "off")
    BY <1>9 DEF PowerOff, regVars
  <2> SUFFICES ASSUME ~torn', ~spoilt' PROVE ArgKeepsTime' /\ RegistersKeepTime'
    BY KeepPrimed
  <2>2. torn \in BOOLEAN
    BY DEF TypeOK
  <2>3. ~torn /\ \A c \in Context : at[c] = "off"
    BY <2>1, <2>2
  <2> QED BY <2>1, <2>3, KeepPrimed DEF RegistersKeepTime
<1>10. CASE Idle
  BY <1>1, <1>10 DEF Idle
<1> QED BY <1>1, <1>2, <1>3, <1>4, <1>5, <1>6, <1>7, <1>8, <1>9, <1>10 DEF Next

-----------------------------------------------------------------------------
(* The theorems.                                                           *)

\* A new board satisfies the invariant.
LEMMA ClockInit == Init => ClockInv
<1> SUFFICES ASSUME Init PROVE ClockInv
  OBVIOUS
<1>1. TypeOK
  BY TypeInit
<1>2. power = "off" /\ pending = FALSE /\ valid = FALSE /\ \A c \in Context : at[c] = "off"
  BY DEF Init
<1>3. SettingInv
  BY <1>2 DEF SettingInv, WhoSets, MainAlone, SoFarWritten, Written, MarkWritten, YearWritten,
              DayWritten, SecondWritten, HourWritten, Context
<1>4. DatesKnown /\ MarkMatchesClock /\ ArgKeepsTime /\ RegistersKeepTime
  BY <1>2 DEF DatesKnown, MarkMatchesClock, Settled, ArgKeepsTime, RegistersKeepTime
<1> QED BY <1>1, <1>3, <1>4 DEF ClockInv

\* It always holds.
LEMMA ClockInvariance == Spec => []ClockInv
<1>1. ClockInv /\ [Next]_vars => ClockInv'
  BY TypeStep, SettingStep, DatesStep, MatchStep, KeepStep DEF ClockInv
<1> QED BY <1>1, ClockInit, PTL DEF Spec

\* After every second, setting and restart the mark says what the dates say of
\* the time in the registers, unless a setting was cut into.
THEOREM MarkRight == Spec => []MarkMatchesClock
<1>1. ClockInv => MarkMatchesClock
  BY DEF ClockInv
<1> QED BY <1>1, ClockInvariance, PTL

\* No hour is gained or lost: the clock shows the standard time plus the hour
\* of the mark, over corrections, settings and power failures.
THEOREM NoHourLost == Spec => []StandardTimeKept
<1>1. ClockInv => StandardTimeKept
  BY DEF ClockInv, RegistersKeepTime, StandardTimeKept, Settled
<1> QED BY <1>1, ClockInvariance, PTL

=============================================================================
