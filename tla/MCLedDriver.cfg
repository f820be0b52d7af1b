\* Patterns, commands, pacing and scan together.
SPECIFICATION FairSpec
CONSTANTS
    REGS = 1
    BITS = 2
    Levels = {2}
    Frames <- FullFrame
    TestWords <- FullWord
INVARIANTS TypeOK AllColourKept
PROPERTIES FrozenWhilePaused RequestServed
