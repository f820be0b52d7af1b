\* The colour test contributes nothing here: its words are dark.
SPECIFICATION Spec
CONSTANTS
    REGS = 2
    BITS = 2
    Levels = {3}
    Frames <- FullFrame
    TestWords <- DarkWord
INVARIANT OffIsDark
