--------------------------- MODULE LedDriverProofs ---------------------------
(***************************************************************************)
(* Proofs about LedDriver, for every chain length, number of planes and    *)
(* set of frames: a paused clock is frozen, every index stays in its array *)
(* and a colour set for the whole ring stays in the bit planes.            *)
(***************************************************************************)
EXTENDS LedDriver, ProofLemmas

\* While timer 2 is stopped no tick is waiting, except for the moment between
\* Pause and the last statement of the round that ran it.  FrozenWhilePaused
\* speaks of one step only; this is the state it depends on.
PausedQuiet == ~tim2 /\ main \notin {"led_end", "pause_play"} => ~LED_INT_OCCURED

\* A round of LED_loop begins with a tick, so with the timer running; nothing
\* returns into the middle of Pause.
RoundPaced ==
    /\ main = "pause_play" => tim2
    /\ retTo # "pause_play"

PauseInv == PausedQuiet /\ RoundPaced

\* PauseInv is inductive: one step per action.
LEMMA PauseStep == PauseInv /\ [Next]_vars => PauseInv'
<1> SUFFICES ASSUME PauseInv, [Next]_vars PROVE PauseInv'
  OBVIOUS
<1> USE DEF PauseInv, PausedQuiet, RoundPaced,
            patVars, planeVars, timVars, mainVars, scanVars, histVars
<1>1. CASE UNCHANGED vars
  BY <1>1 DEF vars
<1>2. CASE CalcWord
  BY <1>2 DEF CalcWord
<1>3. CASE CalcEnd
  BY <1>3 DEF CalcEnd
<1>4. CASE SimpleEnd
  BY <1>4 DEF SimpleEnd
<1>5. ASSUME NEW w \in TestWords, SimpleShow(w) PROVE PauseInv'
  BY <1>5 DEF SimpleShow
<1>6. CASE NoRound
  BY <1>6 DEF NoRound
<1>7. CASE LED_off
  BY <1>7 DEF LED_off, Round, TickFlag, DrawAndCalc
<1>8. CASE Raw
  BY <1>8 DEF Raw, Round, TickFlag
<1>9. CASE SimpleRound
  BY <1>9 DEF SimpleRound, Round, TickFlag
<1>10. CASE LoopEnd
  BY <1>10 DEF LoopEnd, TickFlag
<1>11. ASSUME NEW p \in Drawn, NEW f \in Frames, DrawPattern(p, f) PROVE PauseInv'
  <2>1. PICK back \in AfterDraw(p) : DrawAndCalc(f, back)
    BY <1>11 DEF DrawPattern
  <2>2. back # "pause_play"
    BY <1>11, <2>1 DEF AfterDraw, Drawn
  <2> QED BY <1>11, <2>1, <2>2 DEF DrawPattern, Round, TickFlag, DrawAndCalc
<1>12. ASSUME NEW p \in {"pause", "play"}, PauseOrPlayRound(p) PROVE PauseInv'
  BY <1>12 DEF PauseOrPlayRound, Round, TickFlag
<1>13. CASE PauseOrPlay
  BY <1>13 DEF PauseOrPlay
<1>14. ASSUME NEW f \in Frames, Blank(f) \/ DrawAgain(f) PROVE PauseInv'
  BY <1>14 DEF Blank, DrawAgain, DrawAndCalc
<1>15. ASSUME NEW phase \in {"wifi", "serial"}, NoCommand(phase) PROVE PauseInv'
  BY <1>15 DEF NoCommand, Visit, AfterCommand
<1>16. ASSUME NEW phase \in {"wifi", "serial"}, NEW p, SetCommand(phase, p) PROVE PauseInv'
  BY <1>16 DEF SetCommand, Visit, AfterCommand, SetPattern, Paced
<1>17. ASSUME NEW level, AllColourCommand(level) PROVE PauseInv'
  BY <1>17 DEF AllColourCommand, SetPattern, Paced, DrawAndCalc
<1>18. ASSUME NEW r, NEW level, RawCommand(r, level) PROVE PauseInv'
  BY <1>18 DEF RawCommand, Visit, AfterCommand, SetPattern, Paced
<1>19. CASE CalcCommand \/ PsCommand
  BY <1>19 DEF CalcCommand, PsCommand, DrawAndCalc
<1>20. CASE SimpleCommand
  BY <1>20 DEF SimpleCommand
<1>21. CASE TIMER0_IRQHandler \/ DmaWord \/ TIMER1_IRQHandler
  BY <1>21 DEF TIMER0_IRQHandler, DmaWord, TIMER1_IRQHandler
<1>22. CASE TIMER2_IRQHandler
  BY <1>22 DEF TIMER2_IRQHandler
<1> HIDE DEF PauseInv
<1>23. CASE LED_loop
  BY <1>23, <1>6, <1>7, <1>8, <1>9, <1>10, <1>11, <1>12, <1>13, <1>14 DEF LED_loop
<1>24. CASE Command
  BY <1>24, <1>15, <1>16, <1>17, <1>18, <1>19, <1>20 DEF Command
<1>25. CASE Interrupts
  BY <1>25, <1>21, <1>22 DEF Interrupts
<1> QED BY <1>1, <1>2, <1>3, <1>4, <1>5, <1>23, <1>24, <1>25 DEF Next, MainStep

\* A step taken from LED_loop while timer 2 stands leaves it without a round.
LEMMA FrozenStep ==
    PauseInv /\ [Next]_vars => [main = "led" /\ ~tim2 => main' \in {"led", "serial"}]_vars
<1> SUFFICES ASSUME PauseInv, Next, main = "led", ~tim2 PROVE main' \in {"led", "serial"}
  BY DEF vars
<1>1. ~LED_INT_OCCURED
  BY DEF PauseInv, PausedQuiet
<1>2. CASE LED_loop
  BY <1>1, <1>2
  DEF LED_loop, NoRound, LED_off, Raw, SimpleRound, LoopEnd, DrawPattern, PauseOrPlayRound,
      PauseOrPlay, Blank, DrawAgain, Round
<1>3. CASE Interrupts
  BY <1>3 DEF Interrupts, TIMER0_IRQHandler, DmaWord, TIMER1_IRQHandler, TIMER2_IRQHandler, mainVars
<1>4. ~Command
  BY DEF Command, NoCommand, SetCommand, RawCommand, AllColourCommand, CalcCommand, PsCommand,
         SimpleCommand, Visit
<1>5. ~CalcWord /\ ~CalcEnd /\ ~SimpleEnd /\ \A w \in TestWords : ~SimpleShow(w)
  BY DEF CalcWord, CalcEnd, SimpleEnd, SimpleShow
<1> QED BY <1>2, <1>3, <1>4, <1>5 DEF Next, MainStep

\* A paused clock is frozen, however the ticks of timer 2 fall between the
\* statements of LED_loop and Pause, until a command starts the timer again.
THEOREM PauseFreezes == Spec => FrozenWhilePaused
<1>1. Init => PauseInv
  BY DEF Init, PauseInv, PausedQuiet, RoundPaced
<1> QED BY <1>1, PauseStep, FrozenStep, PTL DEF Spec, FrozenWhilePaused

----------------------------------------------------------------------------
(* Binary numbers.                                                         *)

\* The powers of two that Pow2 is to be.
LEMMA PowersOfTwo ==
    /\ Pow2 \in [0 .. BITS -> Nat \ {0}]
    /\ Pow2[0] = 1
    /\ \A n \in 1 .. BITS : Pow2[n] = 2 * Pow2[n - 1]
<1> DEFINE S == Nat \ {0}
           P(h) == h = [n \in 0 .. BITS |-> IF n = 0 THEN 1 ELSE 2 * h[n - 1]]
           g == [n \in 1 .. BITS |-> [y \in S |-> 2 * y]]
           h == Loop(BITS, S, 1, g)
<1>1. BITS \in Nat /\ 1 \in S /\ g \in [1 .. BITS -> [S -> S]]
  BY SizesAssumption
<1>2. h \in [0 .. BITS -> S] /\ h[0] = 1 /\ \A n \in 1 .. BITS : h[n] = g[n][h[n - 1]]
  <2> HIDE DEF g, S
  <2> QED BY <1>1, LoopValues
<1> HIDE DEF h
<1>3. ASSUME NEW n \in 1 .. BITS PROVE h[n] = 2 * h[n - 1]
  <2>1. h[n - 1] \in S
    BY <1>1, <1>2
  <2> QED BY <1>2, <2>1
<1>4. P(h)
  BY <1>1, <1>2, <1>3
<1>5. P(Pow2)
  <2>1. P(CHOOSE z : P(z))
    BY <1>4
  <2> QED BY <2>1 DEF Pow2
<1>6. Pow2[0] = 1 /\ DOMAIN Pow2 = 0 .. BITS /\ \A n \in 1 .. BITS : Pow2[n] = 2 * Pow2[n - 1]
  BY <1>1, <1>5
<1> DEFINE Q == {n \in 0 .. BITS : Pow2[n] \in S}
<1>7. 0 \in Q
  BY <1>1, <1>6
<1>8. ASSUME NEW n \in 1 .. BITS, n - 1 \in Q PROVE n \in Q
  BY <1>1, <1>6, <1>8
<1>9. 0 .. BITS \subseteq Q
  <2> HIDE DEF Q
  <2> QED BY <1>1, <1>7, <1>8, SetInduction
<1> QED BY <1>5, <1>6, <1>9

\* The levels that the code itself writes: dark, and that of the command ps.
LEMMA OwnLevels == 0 \in Level /\ Pow2[BITS - 1] - 1 \in Level
<1>1. BITS \in 1 .. BITS /\ BITS - 1 \in 0 .. BITS
  BY SizesAssumption
<1>2. Pow2[BITS - 1] \in Nat \ {0} /\ Pow2[BITS] = 2 * Pow2[BITS - 1]
  BY <1>1, PowersOfTwo
<1> QED BY <1>2 DEF Level

\* Quotient and remainder are the only ones.
LEMMA DivMod ==
    ASSUME NEW n \in Nat \ {0}, NEW q \in Nat, NEW r \in 0 .. n - 1, NEW a, a = n * q + r
    PROVE  a % n = r
<1> DEFINE p == a \div n
           s == a % n
<1>1. a \in Nat /\ p \in Int /\ s \in 0 .. n - 1 /\ a = n * p + s
  OBVIOUS
<1> HIDE DEF p, s
<1>0. n * p \in Int /\ n * q \in Int
  BY <1>1
<1>2. ASSUME p < q PROVE FALSE
  <2>1. n * (p + 1) <= n * q /\ n * (p + 1) = n * p + n
    BY <1>1, <1>2
  <2> QED BY <1>0, <1>1, <2>1
<1>3. ASSUME q < p PROVE FALSE
  <2>1. n * (q + 1) <= n * p /\ n * (q + 1) = n * q + n
    BY <1>1, <1>3
  <2> QED BY <1>0, <1>1, <2>1
<1>4. p = q
  BY <1>1, <1>2, <1>3
<1>5. s = r
  BY <1>0, <1>1, <1>4
<1> QED BY <1>5 DEF s

\* One bit more of a number.
LEMMA NextBit ==
    ASSUME NEW p \in Nat \ {0}, NEW a \in Nat
    PROVE  a % (2 * p) = (a % p) + (IF (a \div p) % 2 = 1 THEN p ELSE 0)
<1> DEFINE q == a \div p
           r == a % p
<1>1. q \in Int /\ r \in 0 .. p - 1 /\ a = p * q + r
  OBVIOUS
<1> HIDE DEF q, r
<1>2. q >= 0
  <2> SUFFICES ASSUME q <= -1 PROVE FALSE
    BY <1>1
  <2>1. p * q <= p * (-1)
    BY <1>1
  <2> QED BY <1>1, <2>1
<1> DEFINE h == q \div 2
           e == q % 2
<1>3. h \in Nat /\ e \in {0, 1} /\ q = 2 * h + e
  BY <1>1, <1>2
<1> HIDE DEF h, e
<1> DEFINE x == IF e = 1 THEN p ELSE 0
<1>4. p * q = (2 * p) * h + x
  <2>1. CASE e = 1
    <3>1. p * (2 * h + 1) = (2 * p) * h + p
      BY <1>3
    <3> QED BY <1>3, <2>1, <3>1
  <2>2. CASE e = 0
    <3>1. p * (2 * h) = (2 * p) * h
      BY <1>3
    <3>2. (2 * p) * h \in Int
      BY <1>3
    <3> QED BY <1>3, <2>2, <3>1, <3>2
  <2> QED BY <1>3, <2>1, <2>2
<1>5. 2 * p \in Nat \ {0} /\ r + x \in 0 .. 2 * p - 1 /\ (2 * p) * h \in Int
  BY <1>1, <1>3
<1>6. a = (2 * p) * h + (r + x)
  BY <1>1, <1>3, <1>4, <1>5
<1>7. a % (2 * p) = r + x
  <2> DEFINE n == 2 * p
             y == r + x
  <2>1. n \in Nat \ {0} /\ y \in 0 .. n - 1 /\ a = n * h + y
    BY <1>5, <1>6
  <2>2. a % n = y
    <3> HIDE DEF n, y
    <3> QED BY <1>3, <2>1, DivMod
  <2> QED BY <2>2
<1> QED BY <1>7 DEF q, r, e

\* The brightness that the planes of a level show is that level.
LEMMA PlanesWeigh ==
    ASSUME NEW level \in Level
    PROVE  Weight([b \in Bit |-> PlaneBit(level, b)]) = level
<1> DEFINE words == [b \in Bit |-> PlaneBit(level, b)]
           add(n) == IF words[n - 1] THEN Pow2[n - 1] ELSE 0
           P(h) == h = [n \in 0 .. BITS |-> IF n = 0 THEN 0 ELSE h[n - 1] + add(n)]
           f == [n \in 0 .. BITS |-> level % Pow2[n]]
<1>1. BITS \in Nat \ {0} /\ level \in Nat /\ level < Pow2[BITS] /\ Pow2[BITS] \in Nat
  BY SizesAssumption, PowersOfTwo DEF Level
<1>2. level % 1 = 0
  BY <1>1
<1>3. ASSUME NEW n \in 1 .. BITS PROVE level % Pow2[n] = (level % Pow2[n - 1]) + add(n)
  <2>1. n - 1 \in 0 .. BITS /\ n - 1 \in Bit
    BY <1>1 DEF Bit
  <2>2. Pow2[n - 1] \in Nat \ {0} /\ Pow2[n] = 2 * Pow2[n - 1]
    BY <2>1, PowersOfTwo
  <2>3. words[n - 1] <=> (level \div Pow2[n - 1]) % 2 = 1
    BY <2>1 DEF PlaneBit
  <2> HIDE DEF words
  <2> QED BY <1>1, <2>2, <2>3, NextBit
<1>4. P(f)
  <2>1. f[0] = 0
    BY <1>1, <1>2, PowersOfTwo
  <2>2. ASSUME NEW n \in 1 .. BITS PROVE f[n] = f[n - 1] + add(n)
    <3>1. n \in 0 .. BITS /\ n - 1 \in 0 .. BITS
      BY <1>1
    <3>2. f[n] = level % Pow2[n] /\ f[n - 1] = level % Pow2[n - 1]
      BY <3>1
    <3> HIDE DEF f, add
    <3> QED BY <1>3, <3>2
  <2>3. f = [n \in 0 .. BITS |-> f[n]]
    OBVIOUS
  <2>4. \A n \in 0 .. BITS : n # 0 => n \in 1 .. BITS
    BY <1>1
  <2> HIDE DEF f, add
  <2> QED BY <2>1, <2>2, <2>3, <2>4
<1> DEFINE k == CHOOSE z : P(z)
<1>5. P(k)
  BY <1>4
<1>6. Weight(words) = k[BITS]
  BY DEF Weight
<1> HIDE DEF k
<1>7. k[0] = 0 /\ \A n \in 1 .. BITS : k[n] = k[n - 1] + add(n)
  BY <1>1, <1>5
<1> DEFINE Q == {n \in 0 .. BITS : k[n] = level % Pow2[n]}
<1>8. 0 \in Q
  BY <1>1, <1>2, <1>7, PowersOfTwo
<1>9. ASSUME NEW n \in 1 .. BITS, n - 1 \in Q PROVE n \in Q
  <2>1. n \in 0 .. BITS /\ k[n - 1] = level % Pow2[n - 1]
    BY <1>1, <1>9
  <2> HIDE DEF add
  <2>2. k[n] = level % Pow2[n]
    BY <1>3, <1>7, <2>1
  <2> QED BY <2>1, <2>2
<1>10. 0 .. BITS \subseteq Q
  <2> HIDE DEF Q
  <2> QED BY <1>1, <1>8, <1>9, SetInduction
<1>11. k[BITS] = level % Pow2[BITS]
  BY <1>1, <1>10
<1>12. level % Pow2[BITS] = level
  BY <1>1
<1> QED BY <1>6, <1>11, <1>12

----------------------------------------------------------------------------
(* Types.                                                                  *)

Phases == {"wifi", "led", "serial", "calc", "blank", "again", "simple", "simple_end",
           "pause_play", "led_end"}
Returns == {"wifi", "led", "blank", "again", "led_end"}

\* The plane word that the calculation writes at each of its positions.
LEMMA CalcIndex ==
    ASSUME NEW n \in Nat \ {0}, NEW m \in Nat, NEW p \in Nat, p < n * m
    PROVE  /\ p % n \in 0 .. n - 1 /\ p \div n \in 0 .. m - 1
           /\ p = n * (p \div n) + (p % n)
<1> DEFINE q == p \div n
           r == p % n
<1>1. r \in 0 .. n - 1 /\ q \in Int /\ p = n * q + r
  OBVIOUS
<1> HIDE DEF q, r
<1>2. q >= 0
  <2> SUFFICES ASSUME q <= -1 PROVE FALSE
    BY <1>1
  <2>1. n * q <= n * (-1)
    BY <1>1
  <2> QED BY <1>1, <2>1
<1>3. q < m
  <2> SUFFICES ASSUME m <= q PROVE FALSE
    BY <1>1
  <2>1. n * m <= n * q
    BY <1>1
  <2> QED BY <1>1, <2>1
<1> QED BY <1>1, <1>2, <1>3 DEF q, r

\* Drawing starts the calculation from its first word.
LEMMA DrawType ==
    ASSUME TypeOK, NEW f \in Frame, NEW back \in Returns, DrawAndCalc(f, back)
    PROVE  /\ raw' \in Frame /\ precalc' \in [Reg -> [Bit -> BOOLEAN]] /\ main' \in Phases
           /\ calcPos' \in 0 .. (REGS * BITS) /\ retTo' \in Returns
<1>1. REGS * BITS \in Nat
  BY SizesAssumption
<1> QED BY <1>1 DEF DrawAndCalc, TypeOK, Phases, Returns

\* The scan stays inside SEQ_BIT and LED_PRECALC.
LEMMA ScanType ==
    ASSUME TypeOK, TIMER0_IRQHandler \/ DmaWord
    PROVE  SENDSEQ' \in 0 .. (no_SEQ_BITS - 1) /\ SEND_BIT' \in Bit /\ dmaPos' \in 0 .. REGS
           /\ shift' \in [Reg -> BOOLEAN]
<1>1. CASE TIMER0_IRQHandler
  <2>1. SENDSEQ \in Nat /\ BITS \in Nat \ {0} /\ REGS \in Nat
    BY SizesAssumption DEF TypeOK, no_SEQ_BITS
  <2>2. SENDSEQ % BITS \in 0 .. BITS - 1
    BY <2>1
  <2>3. NextSeq(SENDSEQ) \in 0 .. (2 * BITS - 1)
    BY <2>1 DEF NextSeq, no_SEQ_BITS
  <2> QED BY <1>1, <2>1, <2>2, <2>3 DEF TIMER0_IRQHandler, TypeOK, Bit, no_SEQ_BITS
<1>2. CASE DmaWord
  <2>1. dmaPos \in Reg /\ SEND_BIT \in Bit /\ dmaPos + 1 \in 0 .. REGS
    BY <1>2, SizesAssumption DEF DmaWord, TypeOK, Reg
  <2>2. precalc[dmaPos][SEND_BIT] \in BOOLEAN
    BY <2>1 DEF TypeOK
  <2> QED BY <1>2, <2>1, <2>2 DEF DmaWord, TypeOK
<1> QED BY <1>1, <1>2

\* Set_LED_Pattern keeps the types.
LEMMA SetType ==
    ASSUME TypeOK, NEW p \in Pattern, SetPattern(p)
    PROVE  /\ LED_PATTERN' \in Pattern /\ PREV_LED_PATTERN' \in Pattern /\ LED_INT_OCCURED' \in BOOLEAN
           /\ tim0' \in BOOLEAN /\ tim1' \in BOOLEAN /\ tim2' \in BOOLEAN
           /\ pending' \in SUBSET Drawn /\ UNCHANGED scanVars
<1>1. tim0' \in BOOLEAN /\ tim2' \in BOOLEAN /\ tim1' \in BOOLEAN /\ LED_INT_OCCURED' \in BOOLEAN
  BY Zenon DEF SetPattern, Paced, TypeOK
<1> QED BY <1>1 DEF SetPattern, TypeOK

\* TypeOK is inductive: one step per action.
LEMMA TypeStep == TypeOK /\ [Next]_vars => TypeOK'
<1> SUFFICES ASSUME TypeOK, [Next]_vars PROVE TypeOK'
  OBVIOUS
<1>0. REGS * BITS \in Nat /\ 0 \in 0 .. (REGS * BITS)
  BY SizesAssumption
<1>d. Dark \in Frame
  BY OwnLevels DEF Dark, Frame
<1> USE DEF TypeOK, Phases, Returns, patVars, planeVars, timVars, mainVars, scanVars, histVars
<1>1. CASE UNCHANGED vars
  BY <1>1 DEF vars
<1>2. CASE CalcWord
  <2> DEFINE r == calcPos % REGS
             b == calcPos \div REGS
  <2>0. REGS \in Nat \ {0} /\ BITS \in Nat /\ calcPos \in Nat /\ calcPos < REGS * BITS
    BY <1>2, SizesAssumption DEF CalcWord
  <2>1. r \in Reg /\ b \in Bit
    BY <2>0, CalcIndex DEF Reg, Bit
  <2>2. PlaneBit(raw[r], b) \in BOOLEAN
    BY DEF PlaneBit
  <2>3. precalc' = [precalc EXCEPT ![r][b] = PlaneBit(raw[r], b)]
    BY <1>2 DEF CalcWord
  <2> HIDE DEF r, b
  <2>4. precalc' \in [Reg -> [Bit -> BOOLEAN]]
    BY <2>1, <2>2, <2>3
  <2>5. calcPos' \in 0 .. (REGS * BITS)
    BY <1>0, <1>2 DEF CalcWord
  <2> QED BY <1>2, <2>4, <2>5 DEF CalcWord
<1>3. CASE CalcEnd
  BY <1>0, <1>3 DEF CalcEnd
<1>4. CASE SimpleEnd
  <2>1. tim0' \in BOOLEAN
    BY <1>4, Zenon DEF SimpleEnd
  <2> QED BY <1>4, <2>1 DEF SimpleEnd, Pattern
<1>5. ASSUME NEW w \in TestWords, SimpleShow(w) PROVE TypeOK'
  <2>1. w \in [Reg -> BOOLEAN]
    BY FramesAssumption
  <2>2. lit' \in BOOLEAN
    BY <1>5, Zenon DEF SimpleShow
  <2> QED BY <1>5, <2>1, <2>2 DEF SimpleShow
<1>6. CASE NoRound
  BY <1>6 DEF NoRound
<1>r. ASSUME NEW p, Round(p)
      PROVE  LED_INT_OCCURED' \in BOOLEAN /\ pending' \in SUBSET Drawn /\ UNCHANGED <<colour, tim1, scanVars>>
  BY <1>r DEF Round, TickFlag
<1>7. CASE LED_off
  <2>1. tim0' \in BOOLEAN
    BY <1>7, Zenon DEF LED_off
  <2> QED BY <1>7, <1>d, <1>r, <2>1, DrawType DEF LED_off
<1>8. CASE Raw
  BY <1>8, <1>r DEF Raw
<1>9. CASE SimpleRound
  <2>1. tim0' \in BOOLEAN
    BY <1>9, Zenon DEF SimpleRound
  <2> QED BY <1>9, <1>r, <2>1 DEF SimpleRound
<1>10. CASE LoopEnd
  BY <1>10 DEF LoopEnd, TickFlag
<1>11. ASSUME NEW p \in Drawn, NEW f \in Frames, DrawPattern(p, f) PROVE TypeOK'
  <2>1. PICK back \in AfterDraw(p) : DrawAndCalc(f, back)
    BY <1>11 DEF DrawPattern
  <2>2. back \in Returns /\ f \in Frame
    BY <1>11, <2>1, FramesAssumption DEF AfterDraw, Drawn
  <2> QED BY <1>11, <1>r, <2>1, <2>2, DrawType DEF DrawPattern
<1>12. ASSUME NEW p \in {"pause", "play"}, PauseOrPlayRound(p) PROVE TypeOK'
  BY <1>12, <1>r DEF PauseOrPlayRound
<1>13. CASE PauseOrPlay
  BY <1>13 DEF PauseOrPlay
<1>14. ASSUME NEW f \in Frames, Blank(f) \/ DrawAgain(f) PROVE TypeOK'
  <2>1. f \in Frame
    BY FramesAssumption
  <2>2. CASE Blank(f)
    BY <2>1, <2>2 DEF Blank
  <2>3. CASE DrawAgain(f)
    BY <2>1, <2>3, DrawType DEF DrawAgain
  <2> QED BY <1>14, <2>2, <2>3
<1>v. ASSUME NEW phase \in {"wifi", "serial"}, Visit(phase)
      PROVE  main' \in Phases /\ UNCHANGED <<calcPos, retTo>>
  BY <1>v DEF Visit, AfterCommand
<1>15. ASSUME NEW phase \in {"wifi", "serial"}, NoCommand(phase) PROVE TypeOK'
  BY <1>15, <1>v DEF NoCommand
<1>16. ASSUME NEW phase \in {"wifi", "serial"}, NEW p \in Pattern, SetCommand(phase, p) PROVE TypeOK'
  BY <1>16, <1>d, <1>v, SetType DEF SetCommand
<1>17. ASSUME NEW level \in Levels, AllColourCommand(level) PROVE TypeOK'
  <2>1. level \in Level /\ "raw" \in Pattern
    BY FramesAssumption DEF Pattern
  <2>2. [r \in Reg |-> level] \in Frame
    BY <2>1 DEF Frame
  <2>3. SetPattern("raw") /\ DrawAndCalc([r \in Reg |-> level], "led") /\ colour' = {level}
    BY <1>17 DEF AllColourCommand
  <2> QED BY <2>1, <2>2, <2>3, SetType, DrawType
<1>18. ASSUME NEW r \in Reg, NEW level \in Levels, RawCommand(r, level) PROVE TypeOK'
  <2>1. level \in Level /\ "time" \in Pattern
    BY FramesAssumption DEF Pattern, Drawn
  <2>2. [Dark EXCEPT ![r] = level] \in Frame
    BY <1>d, <2>1 DEF Frame
  <2> QED BY <1>18, <1>v, <2>1, <2>2, SetType DEF RawCommand
<1>19. CASE CalcCommand \/ PsCommand
  <2>1. [raw EXCEPT ![0] = Pow2[BITS - 1] - 1] \in Frame
    BY OwnLevels DEF Frame
  <2>2. CASE CalcCommand
    BY <2>2, DrawType DEF CalcCommand
  <2>3. CASE PsCommand
    BY <2>1, <2>3, DrawType DEF PsCommand
  <2> QED BY <1>19, <2>2, <2>3
<1>20. CASE SimpleCommand
  <2>1. tim0' \in BOOLEAN
    BY <1>20, Zenon DEF SimpleCommand
  <2> QED BY <1>20, <2>1 DEF SimpleCommand
<1>21. CASE TIMER0_IRQHandler
  <2>1. lit' \in BOOLEAN
    BY <1>21, Zenon DEF TIMER0_IRQHandler
  <2> QED BY <1>21, <2>1, ScanType DEF TIMER0_IRQHandler
<1>22. CASE DmaWord
  <2>1. tim1' \in BOOLEAN
    BY <1>22 DEF DmaWord
  <2> QED BY <1>22, <2>1, ScanType DEF DmaWord
<1>23. CASE TIMER1_IRQHandler
  <2>1. tim1' \in BOOLEAN /\ lit' \in BOOLEAN
    BY <1>23, Zenon DEF TIMER1_IRQHandler
  <2> QED BY <1>23, <2>1 DEF TIMER1_IRQHandler
<1>24. CASE TIMER2_IRQHandler
  <2>1. LED_INT_OCCURED' \in BOOLEAN
    BY <1>24, Zenon DEF TIMER2_IRQHandler
  <2> QED BY <1>24, <2>1 DEF TIMER2_IRQHandler
<1> HIDE DEF TypeOK
<1>25. CASE LED_loop
  BY <1>25, <1>6, <1>7, <1>8, <1>9, <1>10, <1>11, <1>12, <1>13, <1>14 DEF LED_loop
<1>26. CASE Command
  BY <1>26, <1>15, <1>16, <1>17, <1>18, <1>19, <1>20 DEF Command
<1>27. CASE Interrupts
  BY <1>27, <1>21, <1>22, <1>23, <1>24 DEF Interrupts
<1> QED BY <1>1, <1>2, <1>3, <1>4, <1>5, <1>25, <1>26, <1>27 DEF Next, MainStep

\* The state LED_init leaves.
LEMMA TypeInit == Init => TypeOK
<1> SUFFICES ASSUME Init PROVE TypeOK
  OBVIOUS
<1>1. REGS * BITS \in Nat /\ 2 * BITS - 1 \in Nat /\ BITS - 1 \in Nat /\ REGS \in Nat
  BY SizesAssumption
<1>2. raw \in Frame
  BY OwnLevels DEF Init, Dark, Frame
<1>3. calcPos \in 0 .. (REGS * BITS) /\ SENDSEQ \in 0 .. (no_SEQ_BITS - 1) /\ SEND_BIT \in Bit
      /\ dmaPos \in 0 .. REGS
  BY <1>1 DEF Init, no_SEQ_BITS, Bit
<1>4. precalc \in [Reg -> [Bit -> BOOLEAN]]
  BY DEF Init, DarkPlanes
<1>5. shift \in [Reg -> BOOLEAN] /\ shown \in [Reg -> BOOLEAN]
  BY DEF Init
<1>6. lit \in BOOLEAN /\ tim0 \in BOOLEAN /\ tim1 \in BOOLEAN /\ tim2 \in BOOLEAN
      /\ LED_INT_OCCURED \in BOOLEAN
  BY Zenon DEF Init
<1>7. pending \in SUBSET Drawn /\ colour \in SUBSET Level
  BY DEF Init, Drawn
<1>8. LED_PATTERN \in Pattern /\ PREV_LED_PATTERN \in Pattern
  BY DEF Init, Pattern, Drawn
<1> QED BY <1>2, <1>3, <1>4, <1>5, <1>6, <1>7, <1>8 DEF Init, TypeOK

\* SENDSEQ stays inside SEQ_BIT, the calculation and the DMA inside
\* LED_PRECALC, for every chain and every number of planes.
THEOREM DriverTypeCorrect == Spec => []TypeOK
BY TypeInit, TypeStep, PTL DEF Spec

----------------------------------------------------------------------------
(* The colour of the whole ring.                                           *)

\* Plane words are numbered plane after plane: a word has one number, below
\* the length of the calculation.
LEMMA WordNumber ==
    ASSUME NEW n \in Nat, NEW m \in Nat, NEW b \in 0 .. m - 1, NEW r \in 0 .. n - 1
    PROVE  /\ b * n + r < n * m
           /\ \A c \in 0 .. m - 1, q \in 0 .. n - 1 :
                  c * n + q = b * n + r => c = b /\ q = r
<1>1. b * n + r < n * m
  <2>1. (b + 1) * n <= m * n
    BY SMT
  <2>2. (b + 1) * n = b * n + n /\ m * n = n * m
    BY SMT
  <2>3. b * n \in Nat /\ n * m \in Nat
    BY SMT
  <2> QED BY <2>1, <2>2, <2>3
<1>2. ASSUME NEW c \in 0 .. m - 1, NEW q \in 0 .. n - 1, c * n + q = b * n + r
      PROVE  c = b /\ q = r
  <2>0. c * n \in Nat /\ b * n \in Nat
    BY SMT
  <2>1. ASSUME c < b PROVE FALSE
    <3>1. (c + 1) * n <= b * n /\ (c + 1) * n = c * n + n
      BY <2>1, SMT
    <3> QED BY <1>2, <2>0, <3>1
  <2>2. ASSUME b < c PROVE FALSE
    <3>1. (b + 1) * n <= c * n /\ (b + 1) * n = b * n + n
      BY <2>2, SMT
    <3> QED BY <1>2, <2>0, <3>1
  <2>3. c = b
    BY <2>1, <2>2
  <2> QED BY <1>2, <2>0, <2>3
<1> QED BY <1>1, <1>2

\* The words of the planes that the calculation has done show the frame.
PlanesDone ==
    \A r \in Reg, b \in Bit :
        main # "calc" \/ b * REGS + r < calcPos => precalc[r][b] = PlaneBit(raw[r], b)

\* A colour in force has filled the frame; its pattern is the one that draws
\* nothing, so that no round but its own begins, and its planes are done as
\* far as the calculation has come.
ColourHeld ==
    \A level \in colour :
        /\ level \in Levels /\ raw = [r \in Reg |-> level]
        /\ LED_PATTERN = "raw"
        /\ main \in {"wifi", "led", "serial", "calc", "led_end"}
        /\ main = "calc" => retTo = "led"
        /\ PlanesDone

\* The calculation extends the planes that are done by the word it writes.
LEMMA CalcWordDone == TypeOK /\ PlanesDone /\ CalcWord => PlanesDone'
<1> SUFFICES ASSUME TypeOK, PlanesDone, CalcWord, NEW r \in Reg, NEW b \in Bit,
                    b * REGS + r < calcPos + 1
             PROVE  precalc'[r][b] = PlaneBit(raw[r], b)
  BY DEF PlanesDone, CalcWord, PlaneBit
<1> DEFINE r0 == calcPos % REGS
           b0 == calcPos \div REGS
<1>1. REGS \in Nat \ {0} /\ BITS \in Nat /\ calcPos \in Nat /\ calcPos < REGS * BITS
  BY SizesAssumption DEF TypeOK, CalcWord
<1>2. r0 \in Reg /\ b0 \in Bit /\ calcPos = REGS * b0 + r0
  BY <1>1, CalcIndex DEF Reg, Bit
<1>3. precalc' = [precalc EXCEPT ![r0][b0] = PlaneBit(raw[r0], b0)] /\ main = "calc"
  BY DEF CalcWord
<1> HIDE DEF r0, b0
<1>4. CASE r = r0 /\ b = b0
  BY <1>2, <1>3, <1>4 DEF TypeOK
<1>5. CASE r # r0 \/ b # b0
  <2>1. precalc'[r][b] = precalc[r][b]
    BY <1>2, <1>3, <1>5 DEF TypeOK
  <2>2. b0 \in 0 .. BITS - 1 /\ r0 \in 0 .. REGS - 1 /\ b \in 0 .. BITS - 1 /\ r \in 0 .. REGS - 1
    BY <1>2 DEF Reg, Bit
  <2>3. b0 * REGS + r0 # b * REGS + r
    BY <1>1, <1>5, <2>2, WordNumber
  <2>4. b0 * REGS = REGS * b0 /\ b0 * REGS \in Nat /\ b * REGS \in Nat
    BY <1>1, <2>2
  <2>5. b * REGS + r < calcPos
    BY <1>1, <1>2, <2>2, <2>3, <2>4
  <2> QED BY <2>1, <2>5 DEF PlanesDone
<1> QED BY <1>4, <1>5

\* At its end the calculation has done every word.
LEMMA CalcEndDone == PlanesDone /\ CalcEnd => PlanesDone'
<1> SUFFICES ASSUME PlanesDone, CalcEnd, NEW r \in Reg, NEW b \in Bit
             PROVE  precalc[r][b] = PlaneBit(raw[r], b)
  BY DEF PlanesDone, CalcEnd, planeVars, PlaneBit
<1>1. b * REGS + r < calcPos
  BY WordNumber, SizesAssumption DEF CalcEnd, Reg, Bit
<1> QED BY <1>1 DEF PlanesDone

\* A calculation that begins has no word to show.
LEMMA FirstWord == ASSUME main' = "calc", calcPos' = 0 PROVE PlanesDone'
<1> SUFFICES ASSUME NEW r \in Reg, NEW b \in Bit PROVE ~(b * REGS + r < 0)
  BY DEF PlanesDone
<1>1. b \in Nat /\ r \in Nat /\ b * REGS \in Nat
  BY SizesAssumption DEF Reg, Bit
<1> QED BY <1>1

\* Steps that leave the frame, its planes and the pattern alone.
LEMMA Quiet ==
    ASSUME ColourHeld, UNCHANGED <<colour, raw, precalc, LED_PATTERN>>,
           \/ main # "calc" /\ main' \in {"wifi", "led", "serial", "led_end"}
           \/ UNCHANGED mainVars
    PROVE  ColourHeld'
BY DEF ColourHeld, PlanesDone, PlaneBit, mainVars

\* Steps after which no colour is in force.
LEMMA NoColour == ASSUME colour' = {} PROVE ColourHeld'
BY DEF ColourHeld

\* ColourHeld is inductive: one step per action.  The actions of other patterns
\* and of the places the main loop does not reach need no colour in force.
LEMMA ColourStep == TypeOK /\ ColourHeld /\ [Next]_vars => ColourHeld'
<1> SUFFICES ASSUME TypeOK, ColourHeld, [Next]_vars PROVE ColourHeld'
  OBVIOUS
<1> USE DEF patVars, planeVars, timVars, mainVars, scanVars, histVars
<1>0. colour # {} =>
          /\ LED_PATTERN = "raw"
          /\ main \in {"wifi", "led", "serial", "calc", "led_end"}
          /\ main = "calc" => retTo = "led"
  BY DEF ColourHeld
<1>1. CASE UNCHANGED vars
  BY <1>1, Quiet DEF vars
<1>2. CASE CalcWord
  <2>1. ASSUME NEW level \in colour PROVE PlanesDone'
    BY <1>2, <2>1, CalcWordDone DEF ColourHeld
  <2> QED BY <1>2, <2>1 DEF ColourHeld, CalcWord
<1>3. CASE CalcEnd
  <2>1. ASSUME NEW level \in colour PROVE PlanesDone'
    BY <1>3, <2>1, CalcEndDone DEF ColourHeld
  <2> QED BY <1>3, <2>1 DEF ColourHeld, CalcEnd
<1>4. CASE SimpleEnd
  BY <1>0, <1>4, NoColour DEF SimpleEnd
<1>5. ASSUME NEW w \in TestWords, SimpleShow(w) PROVE ColourHeld'
  BY <1>0, <1>5, NoColour DEF SimpleShow
<1>6. CASE NoRound \/ Raw \/ LoopEnd
  BY <1>6, Quiet DEF NoRound, Raw, Round, LoopEnd
<1>7. CASE LED_off \/ SimpleRound
  BY <1>0, <1>7, NoColour DEF LED_off, SimpleRound, Round
<1>8. ASSUME NEW p \in Drawn, NEW f \in Frames, DrawPattern(p, f) PROVE ColourHeld'
  BY <1>0, <1>8, NoColour DEF DrawPattern, Round, Drawn
<1>9. ASSUME NEW p \in {"pause", "play"}, PauseOrPlayRound(p) PROVE ColourHeld'
  BY <1>0, <1>9, NoColour DEF PauseOrPlayRound, Round
<1>10. CASE PauseOrPlay
  BY <1>0, <1>10, NoColour DEF PauseOrPlay
<1>11. ASSUME NEW f \in Frames, Blank(f) \/ DrawAgain(f) PROVE ColourHeld'
  BY <1>0, <1>11, NoColour DEF Blank, DrawAgain
<1>12. ASSUME NEW phase \in {"wifi", "serial"}, NoCommand(phase) PROVE ColourHeld'
  BY <1>12, Quiet DEF NoCommand, Visit, AfterCommand
<1>13. ASSUME NEW phase, NEW p, SetCommand(phase, p) PROVE ColourHeld'
  BY <1>13, NoColour DEF SetCommand
<1>14. ASSUME NEW level \in Levels, AllColourCommand(level) PROVE ColourHeld'
  <2>1. /\ colour' = {level} /\ raw' = [r \in Reg |-> level] /\ LED_PATTERN' = "raw"
        /\ main' = "calc" /\ calcPos' = 0 /\ retTo' = "led"
    BY <1>14 DEF AllColourCommand, SetPattern, DrawAndCalc
  <2>2. PlanesDone'
    BY <2>1, FirstWord
  <2> QED BY <2>1, <2>2 DEF ColourHeld
<1>15. ASSUME NEW r, NEW level, RawCommand(r, level) PROVE ColourHeld'
  BY <1>15, NoColour DEF RawCommand
<1>16. CASE CalcCommand
  <2>1. /\ UNCHANGED <<colour, raw, LED_PATTERN>>
        /\ main' = "calc" /\ calcPos' = 0 /\ retTo' = "led"
    BY <1>16 DEF CalcCommand, DrawAndCalc
  <2>2. PlanesDone'
    BY <2>1, FirstWord
  <2> QED BY <2>1, <2>2 DEF ColourHeld
<1>17. CASE PsCommand \/ SimpleCommand
  BY <1>17, NoColour DEF PsCommand, SimpleCommand
<1>18. CASE Interrupts
  BY <1>18, Quiet
  DEF Interrupts, TIMER0_IRQHandler, DmaWord, TIMER1_IRQHandler, TIMER2_IRQHandler
<1>19. CASE LED_loop
  BY <1>19, <1>6, <1>7, <1>8, <1>9, <1>10, <1>11 DEF LED_loop
<1>20. CASE Command
  BY <1>20, <1>12, <1>13, <1>14, <1>15, <1>16, <1>17 DEF Command
<1> QED BY <1>1, <1>2, <1>3, <1>4, <1>5, <1>18, <1>19, <1>20 DEF Next, MainStep

\* Planes that hold the bits of the colour show the colour.
LEMMA HeldIsShown == TypeOK /\ ColourHeld => AllColourKept
<1> SUFFICES ASSUME TypeOK, ColourHeld, main \in {"wifi", "led", "serial"},
                    NEW level \in colour, NEW r \in Reg
             PROVE  Weight(precalc[r]) = level
  BY DEF AllColourKept
<1>1. \A b \in Bit : precalc[r][b] = PlaneBit(level, b)
  BY DEF ColourHeld, PlanesDone
<1>2. precalc[r] = [b \in Bit |-> PlaneBit(level, b)]
  BY <1>1 DEF TypeOK
<1>3. level \in Level
  BY FramesAssumption DEF ColourHeld
<1> QED BY <1>2, <1>3, PlanesWeigh

\* The colour of /setallcolour stays in the planes through every tick, every
\* visit of the main loop and every /calc?, until a command replaces it.
THEOREM ColourShown == Spec => []AllColourKept
<1>1. Init => TypeOK /\ ColourHeld
  BY TypeInit DEF Init, ColourHeld
<1>2. (TypeOK /\ ColourHeld) /\ [Next]_vars => (TypeOK /\ ColourHeld)'
  BY TypeStep, ColourStep
<1>3. TypeOK /\ ColourHeld => AllColourKept
  BY HeldIsShown
<1> QED BY <1>1, <1>2, <1>3, PTL DEF Spec

=============================================================================
