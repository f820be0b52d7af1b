\* The walk ends at the last day: no deadlock check.
SPECIFICATION Spec
CONSTANT LastYear = 2099
INVARIANTS DayCountRight WeekdayRight DstOnLastSundays
CHECK_DEADLOCK FALSE
