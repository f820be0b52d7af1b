----------------------------- MODULE LedDriver -----------------------------
(***************************************************************************)
(* The LED ring of libraries/LED/ShiftPWM.c.  The main loop draws a frame  *)
(* of brightnesses (LED_RAW), turns it into bit planes (LED_PRECALC) and   *)
(* obeys the commands of the web page and of the serial lines.  Timer 0    *)
(* starts a DMA transfer of the next plane to the LED drivers, the end of  *)
(* the transfer starts timer 1, and timer 1 latches what was shifted.      *)
(* Timer 2 paces the drawing through LED_INT_OCCURED.                      *)
(*                                                                         *)
(* A frame is one brightness per driver register, standing for its fifteen *)
(* LEDs.  The four interrupts have one priority above the main loop, so    *)
(* each handler is one step; the DMA works beside the processor, one word  *)
(* at a time.  Timer periods are left out: a timer that runs may match at  *)
(* any moment, except that timer 0 waits for the transfer before (nine     *)
(* microseconds at least against about two).                               *)
(***************************************************************************)
EXTENDS Naturals

CONSTANTS
    REGS,       \* driver registers in the chain
    BITS,       \* bit planes of a frame
    Frames,     \* the frames the patterns draw
    Levels,     \* the brightnesses the web commands ask for
    TestWords   \* what LED_simple_all_colors leaves in the drivers

Reg == 0 .. (REGS - 1)
Bit == 0 .. (BITS - 1)

\* What bit n of a brightness is worth, and how many times longer than plane 0
\* its plane is lit (BITTIME): 2^n, as a function so that it can be proved about.
Pow2[n \in 0 .. BITS] == IF n = 0 THEN 1 ELSE 2 * Pow2[n - 1]

Level == 0 .. (Pow2[BITS] - 1)
Frame == [Reg -> Level]
Dark == [r \in Reg |-> 0]
DarkPlanes == [r \in Reg |-> [b \in Bit |-> FALSE]]
no_SEQ_BITS == 2 * BITS

ASSUME SizesAssumption == REGS \in Nat \ {0} /\ BITS \in Nat \ {0}
ASSUME FramesAssumption ==
    Frames \subseteq Frame /\ Levels \subseteq Level /\ TestWords \subseteq [Reg -> BOOLEAN]

\* Patterns that draw every tick ("time" stands for the time, which any unknown
\* number draws too, and for the two rainbows), and the five others.
Drawn == {"time", "one_by_one", "smooth"}
Pattern == Drawn \cup {"off", "simple", "pause", "play", "raw"}

VARIABLES
    LED_PATTERN, PREV_LED_PATTERN, LED_INT_OCCURED,
    raw, precalc,           \* LED_RAW and LED_PRECALC
    tim0, tim1, tim2,       \* the timers that run
    main, calcPos, retTo,   \* main loop: where it is, plane words done, where it returns to
    SENDSEQ, SEND_BIT,
    dmaPos,                 \* words the DMA has moved; REGS when it is idle
    shift, shown, lit,      \* words shifted into the drivers, words latched, OE
    pending,                \* history: the drawing pattern asked for and not drawn yet, if any
    colour                  \* history: the level /setallcolour asked for, if still in force

patVars  == <<LED_PATTERN, PREV_LED_PATTERN>>
planeVars == <<raw, precalc>>
timVars  == <<tim0, tim1, tim2>>
mainVars == <<main, calcPos, retTo>>
scanVars == <<SENDSEQ, SEND_BIT, dmaPos, shift, shown, lit>>
histVars == <<pending, colour>>
vars == <<patVars, LED_INT_OCCURED, planeVars, timVars, mainVars, scanVars, histVars>>

----------------------------------------------------------------------------
(* Bit planes.                                                             *)

\* Planes shifted by one: the least significant bit is lost.
PlaneBitShifted(level, b) == (level \div Pow2[b + 1]) % 2 = 1

\* The bit of one brightness that plane b shows.
PlaneBit(level, b) == (level \div Pow2[b]) % 2 = 1

\* calulateLEDMIBAMBits: plane after plane, register after register.
CalcWord ==
    /\ main = "calc" /\ calcPos < REGS * BITS
    /\ LET r == calcPos % REGS
           b == calcPos \div REGS
       IN  precalc' = [precalc EXCEPT ![r][b] = PlaneBit(raw[r], b)]
    /\ calcPos' = calcPos + 1
    /\ UNCHANGED <<patVars, LED_INT_OCCURED, raw, timVars, main, retTo, scanVars, histVars>>

CalcEnd ==
    /\ main = "calc" /\ calcPos = REGS * BITS
    /\ main' = retTo
    /\ calcPos' = 0
    /\ retTo' = "led_end"
    /\ UNCHANGED <<patVars, LED_INT_OCCURED, planeVars, timVars, scanVars, histVars>>

\* Draw a frame and start turning it into planes.
DrawAndCalc(f, back) ==
    /\ raw' = f
    /\ main' = "calc"
    /\ calcPos' = 0
    /\ retTo' = back
    /\ UNCHANGED precalc

----------------------------------------------------------------------------
(* Commands.  The main loop serves the web, calls LED_loop and serves the   *)
(* serial line, in this order; a command is the whole visit.               *)

AfterCommand == [wifi |-> "led", serial |-> "wifi"]

Visit(phase) == main = phase /\ main' = AfterCommand[phase] /\ UNCHANGED <<calcPos, retTo>>

NoCommand(phase) ==
    /\ Visit(phase)
    /\ UNCHANGED <<patVars, LED_INT_OCCURED, planeVars, timVars, scanVars, histVars>>

\* Timer 2 left as it was.
PacedAsBefore == tim2

\* Set_LED_Pattern starts the pacing timer again.
Paced == TRUE

\* Set_LED_Pattern, as a part of the commands below.
SetPattern(p) ==
    /\ LED_PATTERN' = p
    /\ PREV_LED_PATTERN' = IF p \in {"pause", "play"} THEN LED_PATTERN ELSE PREV_LED_PATTERN
    /\ tim0' = TRUE
    /\ tim2' = Paced
    /\ pending' = {p} \cap Drawn
    /\ UNCHANGED <<LED_INT_OCCURED, tim1, scanVars>>

\* /LED?, /setclockcolour, /off? and the serial commands lp and ls; numbers
\* without a pattern of their own are "time".
SetCommand(phase, p) ==
    /\ Visit(phase)
    /\ SetPattern(p)
    /\ raw' = Dark
    /\ colour' = {}
    /\ UNCHANGED precalc

\* /raw?: pattern 255, which has no case of its own, then one LED.
RawCommand(r, level) ==
    /\ Visit("wifi")
    /\ SetPattern("time")
    /\ raw' = [Dark EXCEPT ![r] = level]
    /\ colour' = {}
    /\ UNCHANGED precalc

\* /setallcolour: the raw pattern, one colour everywhere, its planes.
AllColourCommand(level) ==
    /\ main = "wifi"
    /\ SetPattern("raw")
    /\ DrawAndCalc([r \in Reg |-> level], "led")
    /\ colour' = {level}

\* /calc? recomputes the planes; the serial command ps sets an LED before.
CalcCommand ==
    /\ main = "wifi"
    /\ DrawAndCalc(raw, "led")
    /\ UNCHANGED <<patVars, LED_INT_OCCURED, timVars, scanVars, histVars>>

PsCommand ==
    /\ main = "serial"
    /\ DrawAndCalc([raw EXCEPT ![0] = Pow2[BITS - 1] - 1], "wifi")
    /\ colour' = {}
    /\ UNCHANGED <<patVars, LED_INT_OCCURED, timVars, scanVars, pending>>

----------------------------------------------------------------------------
(* LED_loop.                                                               *)

\* The flag after the first and after the last statement of a round, if it
\* were cleared first.
TickClearedFirst(stage) == IF stage = "first" THEN FALSE ELSE LED_INT_OCCURED

\* LED_INT_OCCURED = 0 is the last statement of a round.
TickFlag(stage) == IF stage = "last" THEN FALSE ELSE LED_INT_OCCURED

\* The common part of a round of LED_loop on pattern p.
Round(p) ==
    /\ main = "led" /\ LED_INT_OCCURED /\ LED_PATTERN = p
    /\ LED_INT_OCCURED' = TickFlag("first")
    /\ pending' = pending \ {p}
    /\ UNCHANGED <<colour, tim1, scanVars>>

\* LED_loop without a tick.
NoRound ==
    /\ main = "led" /\ ~LED_INT_OCCURED
    /\ main' = "serial"
    /\ UNCHANGED <<patVars, LED_INT_OCCURED, planeVars, timVars, calcPos, retTo, scanVars,
                   histVars>>

\* Where a pattern goes on after its planes: one_by_one blanks its LED again,
\* smooth may turn from brighter to duller and draw a second time.
AfterDraw(p) ==
    CASE p = "one_by_one" -> {"blank"}
      [] p = "smooth" -> {"again", "led_end"}
      [] OTHER -> {"led_end"}

DrawPattern(p, f) ==
    /\ Round(p)
    /\ \E back \in AfterDraw(p) : DrawAndCalc(f, back)
    /\ UNCHANGED <<patVars, tim0, tim2>>

Blank(f) ==
    /\ main = "blank"
    /\ raw' = f
    /\ main' = "led_end"
    /\ UNCHANGED <<patVars, LED_INT_OCCURED, precalc, timVars, calcPos, retTo, scanVars, histVars>>

DrawAgain(f) ==
    /\ main = "again"
    /\ DrawAndCalc(f, "led_end")
    /\ UNCHANGED <<patVars, LED_INT_OCCURED, timVars, scanVars, histVars>>

\* LED_off stops the scan and clears the frame.
LED_off ==
    /\ Round("off")
    /\ tim0' = FALSE
    /\ DrawAndCalc(Dark, "led_end")
    /\ UNCHANGED <<patVars, tim2>>

\* The cases of Pause and Play, and then their two statements.
PauseOrPlayRound(p) ==
    /\ Round(p)
    /\ main' = "pause_play"
    /\ UNCHANGED <<patVars, planeVars, tim0, tim2, calcPos, retTo>>

PauseOrPlay ==
    /\ main = "pause_play"
    /\ LED_PATTERN' = PREV_LED_PATTERN
    /\ tim2' = (LED_PATTERN = "play")
    /\ main' = "led_end"
    /\ UNCHANGED <<PREV_LED_PATTERN, LED_INT_OCCURED, planeVars, tim0, tim1, calcPos, retTo,
                   scanVars, histVars>>

Raw ==
    /\ Round("raw")
    /\ main' = "led_end"
    /\ UNCHANGED <<patVars, planeVars, tim0, tim2, calcPos, retTo>>

\* LED_simple_all_colors stops the scan, shifts and latches test words by
\* itself (the last one stands for them all), starts the scan again and selects
\* the off pattern.  LED_loop and the serial command lt call it.
SimpleRound ==
    /\ Round("simple")
    /\ tim0' = FALSE
    /\ main' = "simple"
    /\ retTo' = "led_end"
    /\ UNCHANGED <<patVars, planeVars, tim2, calcPos>>

SimpleCommand ==
    /\ main = "serial"
    /\ tim0' = FALSE
    /\ main' = "simple"
    /\ retTo' = "wifi"
    /\ pending' = {} /\ colour' = {}
    /\ UNCHANGED <<patVars, LED_INT_OCCURED, planeVars, tim1, tim2, calcPos, scanVars>>

SimpleShow(w) ==
    /\ main = "simple"
    /\ shift' = w /\ shown' = w /\ lit' = TRUE
    /\ main' = "simple_end"
    /\ UNCHANGED <<patVars, LED_INT_OCCURED, planeVars, timVars, calcPos, retTo,
                   SENDSEQ, SEND_BIT, dmaPos, histVars>>

SimpleEnd ==
    /\ main = "simple_end"
    /\ tim0' = TRUE
    /\ LED_PATTERN' = "off"
    /\ main' = retTo
    /\ retTo' = "led_end"
    /\ UNCHANGED <<PREV_LED_PATTERN, LED_INT_OCCURED, planeVars, tim1, tim2, calcPos,
                   scanVars, histVars>>

LoopEnd ==
    /\ main = "led_end"
    /\ LED_INT_OCCURED' = TickFlag("last")
    /\ main' = "serial"
    /\ UNCHANGED <<patVars, planeVars, timVars, calcPos, retTo, scanVars, histVars>>

LED_loop ==
    \/ NoRound \/ LED_off \/ Raw \/ SimpleRound \/ LoopEnd
    \/ \E p \in Drawn, f \in Frames : DrawPattern(p, f)
    \/ \E p \in {"pause", "play"} : PauseOrPlayRound(p)
    \/ PauseOrPlay
    \/ \E f \in Frames : Blank(f) \/ DrawAgain(f)

Command ==
    \/ \E phase \in {"wifi", "serial"} : NoCommand(phase)
    \/ \E p \in Pattern : SetCommand("wifi", p)
    \/ \E p \in Pattern \ {"pause", "play", "raw"} : SetCommand("serial", p)
    \/ \E level \in Levels : AllColourCommand(level) \/ \E r \in Reg : RawCommand(r, level)
    \/ CalcCommand \/ PsCommand \/ SimpleCommand

MainStep ==
    \/ LED_loop \/ Command \/ CalcWord \/ CalcEnd \/ SimpleEnd
    \/ \E w \in TestWords : SimpleShow(w)

----------------------------------------------------------------------------
(* The interrupts and the DMA.                                             *)

\* A sequence counter that is never restarted.
NextSeqRunsOn(n) == n + 1

NextSeq(n) == IF n + 1 >= no_SEQ_BITS THEN 0 ELSE n + 1

\* TIMER0_IRQHandler: the next plane of BITORDER, LEDs dark while it shifts.
TIMER0_IRQHandler ==
    /\ tim0 /\ dmaPos = REGS
    /\ SEND_BIT' = SENDSEQ % BITS
    /\ SENDSEQ' = NextSeq(SENDSEQ)
    /\ dmaPos' = 0
    /\ lit' = FALSE
    /\ UNCHANGED <<patVars, LED_INT_OCCURED, planeVars, timVars, mainVars, shift, shown, histVars>>

\* One word of the linked list LED_init builds; after the last one
\* DMA_IRQHandler starts timer 1.
DmaWord ==
    /\ dmaPos < REGS
    /\ shift' = [shift EXCEPT ![dmaPos] = precalc[dmaPos][SEND_BIT]]
    /\ dmaPos' = dmaPos + 1
    /\ tim1' = (tim1 \/ dmaPos + 1 = REGS)
    /\ UNCHANGED <<patVars, LED_INT_OCCURED, planeVars, tim0, tim2, mainVars,
                   SENDSEQ, SEND_BIT, shown, lit, histVars>>

\* TIMER1_IRQHandler: LatchIn; the timer stops on its match.
TIMER1_IRQHandler ==
    /\ tim1
    /\ tim1' = FALSE
    /\ shown' = shift
    /\ lit' = TRUE
    /\ UNCHANGED <<patVars, LED_INT_OCCURED, planeVars, tim0, tim2, mainVars,
                   SENDSEQ, SEND_BIT, dmaPos, shift, histVars>>

TIMER2_IRQHandler ==
    /\ tim2
    /\ LED_INT_OCCURED' = TRUE
    /\ UNCHANGED <<patVars, planeVars, timVars, mainVars, scanVars, histVars>>

Interrupts == TIMER0_IRQHandler \/ DmaWord \/ TIMER1_IRQHandler \/ TIMER2_IRQHandler

\* LED_init: everything dark, all timers but timer 1 started, pattern 1.
Init ==
    /\ LED_PATTERN = "time" /\ PREV_LED_PATTERN = "off" /\ LED_INT_OCCURED = TRUE
    /\ raw = Dark
    /\ precalc = DarkPlanes
    /\ tim0 = TRUE /\ tim1 = FALSE /\ tim2 = TRUE
    /\ main = "wifi" /\ calcPos = 0 /\ retTo = "led_end"
    /\ SENDSEQ = 0 /\ SEND_BIT = 0 /\ dmaPos = REGS
    /\ shift = [r \in Reg |-> FALSE] /\ shown = [r \in Reg |-> FALSE] /\ lit = TRUE
    /\ pending = {"time"} /\ colour = {}

Next == MainStep \/ Interrupts

Spec == Init /\ [][Next]_vars

\* The main loop keeps going round (whoever starts lp, ls or ps answers the
\* prompt these wait at), and timer 2 matches as long as it runs (commands
\* that set a delay restart its count: they come slower than that delay).
\* The scan needs no fairness.
Fairness ==
    /\ WF_vars(MainStep)
    /\ WF_vars(TIMER2_IRQHandler)

FairSpec == Spec /\ Fairness

----------------------------------------------------------------------------
(* Properties.                                                             *)

\* Types: in particular SENDSEQ stays inside SEQ_BIT and the calculation and
\* the DMA inside LED_PRECALC.
TypeOK ==
    /\ LED_PATTERN \in Pattern /\ PREV_LED_PATTERN \in Pattern /\ LED_INT_OCCURED \in BOOLEAN
    /\ raw \in Frame /\ precalc \in [Reg -> [Bit -> BOOLEAN]]
    /\ tim0 \in BOOLEAN /\ tim1 \in BOOLEAN /\ tim2 \in BOOLEAN
    /\ main \in {"wifi", "led", "serial", "calc", "blank", "again", "simple", "simple_end",
                "pause_play", "led_end"}
    /\ calcPos \in 0 .. (REGS * BITS)
    /\ retTo \in {"wifi", "led", "blank", "again", "led_end"}
    /\ SENDSEQ \in 0 .. (no_SEQ_BITS - 1) /\ SEND_BIT \in Bit /\ dmaPos \in 0 .. REGS
    /\ shift \in [Reg -> BOOLEAN] /\ shown \in [Reg -> BOOLEAN] /\ lit \in BOOLEAN
    /\ pending \in SUBSET Drawn /\ colour \in SUBSET Level

\* A paused clock stays frozen: once Pause has stopped timer 2 and the main
\* loop is back, LED_loop draws nothing until a command starts the timer
\* again.  LED_loop clears LED_INT_OCCURED after the pattern for this: a tick
\* that arrived before the timer stopped must not draw one more frame.
FrozenWhilePaused == [][main = "led" /\ ~tim2 => main' \in {"led", "serial"}]_vars

\* The brightness the planes of one register show, each for its time.
Weight(words) ==
    LET upTo[n \in 0 .. BITS] ==
            IF n = 0 THEN 0 ELSE upTo[n - 1] + (IF words[n - 1] THEN Pow2[n - 1] ELSE 0)
    IN  upTo[BITS]

\* The colour asked for by /setallcolour is what the planes show, for as long
\* as no other pattern or frame is asked for: ticks do not draw over it.
AllColourKept ==
    main \in {"wifi", "led", "serial"} =>
        \A level \in colour, r \in Reg : Weight(precalc[r]) = level

\* A pattern asked for is drawn or, before that, replaced by a command that
\* draws nothing, also when the clock was paused or off: Set_LED_Pattern starts
\* timer 2 again.
RequestServed == (pending # {}) ~> (pending = {})

\* "All LED's Off": when the off pattern has been carried out, its planes are
\* dark and the scan has come to rest, no LED is lit.
OffIsDark ==
    /\ main = "wifi" /\ LED_PATTERN = "off"
    /\ precalc = DarkPlanes
    /\ ~tim0 /\ ~tim1 /\ dmaPos = REGS
    => ~lit \/ \A r \in Reg : ~shown[r]
=============================================================================
