SPECIFICATION Spec
CONSTANTS
    Secs = 2
    Hours = 3
    Days = 4
    BeginDay = 1
    EndDay = 2
    SwitchHour = 1
    MaxYear = 1
    Compiled <- FirstWinter
INVARIANT SetBackOnce
