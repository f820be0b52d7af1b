------------------------------- MODULE UartRing -------------------------------
(***************************************************************************)
(* The UART console of comm.c: two ring buffers between the main loop and  *)
(* the UART0 interrupt, and the protocol on the THRE interrupt enable and  *)
(* TxIntStat that decides who moves bytes into the transmitter.            *)
(*                                                                         *)
(* UART_IntTransmit runs in two contexts, in the interrupt and, called by  *)
(* UARTSend, in the main loop; xmit is where it is and xmitBy who runs it. *)
(* The UART hardware moves bytes on its own.  The CPU takes a due          *)
(* interrupt before the next statement of the main loop.                   *)
(***************************************************************************)
EXTENDS Integers, Sequences, LineBuffer

CONSTANTS
    Byte,                \* bytes other than the terminator
    UART_RING_BUFSIZE,   \* 1024 in comm.c, a power of two
    RxDepth,             \* depth of the hardware receive FIFO (16)
    MaxBufLen,           \* longest buffer given to UARTSend (1 from comm_put)
    LineErrors,          \* TRUE: the receiver may report a line error
    MaxTx,               \* bound: bytes in transmission or sent
    MaxRx                \* bound: bytes received

ASSUME UartAssumption ==
    /\ UART_RING_BUFSIZE \in Nat /\ UART_RING_BUFSIZE > 1
    /\ RxDepth \in Nat \ {0}
    /\ MaxBufLen \in Nat \ {0}
    /\ LineErrors \in BOOLEAN
    /\ MaxTx \in Nat /\ MaxRx \in Nat
    /\ CR \notin Byte

AnyByte == Byte \cup {CR}

\* The buffers UARTSend may be given.
Buffers == UNION {[1 .. n -> AnyByte] : n \in 1 .. MaxBufLen}

RingIndex == 0 .. (UART_RING_BUFSIZE - 1)

VARIABLES
    tx, rx,            \* rings: records of head, tail and buf
    TxIntStat,         \* TRUE for SET
    threOn, rbrOn,     \* the THRE and RBR bits of the IER register
    ierRead,           \* THRE bit as UARTReceive's read of IER saw it
    thr, tsr,          \* transmit holding and shift register, 0 or 1 byte
    rbr,               \* hardware receive FIFO
    lineError,         \* a line status error is pending
    isr,               \* UART0_IRQHandler: off, rx, tx, err
    xmit, xmitBy,      \* UART_IntTransmit
    main, ctx, txbuf,
    UART_LINE_LEN, LINE_READY,
    sent, popped,      \* history: bytes on the wire, bytes the program read
    rxCount            \* bytes received so far

ringVars == <<tx, rx>>
ierVars  == <<threOn, rbrOn, ierRead>>
hwVars   == <<thr, tsr, rbr, lineError, rxCount>>
xmitVars == <<xmit, xmitBy, TxIntStat>>
mainVars == <<main, ctx, txbuf>>
lineVars == <<UART_LINE_LEN, LINE_READY>>
histVars == <<sent, popped>>
vars == <<ringVars, ierVars, hwVars, isr, xmitVars, mainVars, lineVars, histVars>>

-----------------------------------------------------------------------------
(* The ring macros of comm.c.  & __BUF_MASK is % UART_RING_BUFSIZE.        *)

\* Mutant of BUF_INCR: the mask is forgotten.
BUF_INCR_NoMask(i) == i + 1

BUF_INCR(i) == (i + 1) % UART_RING_BUFSIZE

\* Mutant of BUF_IS_FULL: the test lets head run into tail.
BUF_IS_FULL_Never(r) == FALSE

BUF_IS_FULL(r) == r.tail = BUF_INCR(r.head)

BUF_IS_EMPTY(r) == r.head = r.tail

RingPut(r, c) == [r EXCEPT !.buf = [@ EXCEPT ![r.head] = c], !.head = BUF_INCR(@)]

RingDrop(r) == [r EXCEPT !.tail = BUF_INCR(@)]

EmptyRing == [head |-> 0, tail |-> 0, buf |-> [i \in RingIndex |-> CR]]

\* The bytes in a ring, oldest first.
RingContents(r) ==
    [i \in 1 .. ((UART_RING_BUFSIZE + r.head - r.tail) % UART_RING_BUFSIZE) |->
        r.buf[(r.tail + i - 1) % UART_RING_BUFSIZE]]

-----------------------------------------------------------------------------
(* State after comm_init.                                                  *)

Init ==
    /\ tx = EmptyRing /\ rx = EmptyRing
    /\ TxIntStat = FALSE
    /\ threOn = FALSE /\ rbrOn = TRUE /\ ierRead = FALSE
    /\ thr = <<>> /\ tsr = <<>> /\ rbr = <<>> /\ lineError = FALSE
    /\ isr = "off" /\ xmit = "off" /\ xmitBy = "main"
    /\ main = "loop" /\ ctx = "loop" /\ txbuf = <<>>
    /\ UART_LINE_LEN = 0 /\ LINE_READY = FALSE
    /\ sent = <<>> /\ popped = <<>> /\ rxCount = 0

TxInFlight == tsr \o thr \o RingContents(tx)

-----------------------------------------------------------------------------
(* UART_IntTransmit, one action per access to shared state.                *)

Running(who) ==
    \/ who = "isr" /\ isr = "tx"
    \/ who = "main" /\ isr = "off" /\ main = "send_xmit"

Xmit(who, from) == xmit = from /\ xmitBy = who /\ Running(who)

\* Disable the THRE interrupt.
XmitDisable(who) ==
    /\ Xmit(who, "disable")
    /\ xmit' = "wait"
    /\ threOn' = FALSE
    /\ UNCHANGED <<ringVars, rbrOn, ierRead, hwVars, isr, xmitBy, TxIntStat,
                   mainVars, lineVars, histVars>>

\* UART_CheckBusy() # SET: the transmitter is empty (TEMT).
TransmitterFree == thr = <<>> /\ tsr = <<>>

\* while (UART_CheckBusy() == SET).
XmitWait(who) ==
    /\ Xmit(who, "wait")
    /\ TransmitterFree
    /\ xmit' = "fill"
    /\ UNCHANGED <<ringVars, ierVars, hwVars, isr, xmitBy, TxIntStat, mainVars,
                   lineVars, histVars>>

\* One round of the loop: UART_Send takes the byte only when THR is empty.
XmitFill(who) ==
    /\ Xmit(who, "fill")
    /\ IF BUF_IS_EMPTY(tx) \/ thr # <<>>
       THEN xmit' = "done" /\ UNCHANGED <<tx, thr>>
       ELSE /\ thr' = <<tx.buf[tx.tail]>>
            /\ tx' = RingDrop(tx)
            /\ xmit' = xmit
    /\ UNCHANGED <<rx, ierVars, tsr, rbr, lineError, rxCount, isr, xmitBy, TxIntStat,
                   mainVars, lineVars, histVars>>

\* Mutant of TxIdle: the state is reset although bytes are left in the ring.
TxIdleAlways == TRUE

\* The final test: nothing is left to send.
TxIdle == BUF_IS_EMPTY(tx)

\* Record in TxIntStat whether the interrupt has to come back, and enable it.
XmitDone(who) ==
    /\ Xmit(who, "done")
    /\ xmit' = "off"
    /\ TxIntStat' = ~TxIdle
    /\ threOn' = ~TxIdle
    /\ isr' = "off"
    /\ main' = IF who = "main" THEN ctx ELSE main
    /\ UNCHANGED <<ringVars, rbrOn, ierRead, hwVars, xmitBy, ctx, txbuf, lineVars, histVars>>

IntTransmit(who) == XmitDisable(who) \/ XmitWait(who) \/ XmitFill(who) \/ XmitDone(who)

-----------------------------------------------------------------------------
(* UART0_IRQHandler.  UART_GetIntId reports one source, in the order line  *)
(* status, received data, transmitter empty.                               *)

RlsDue  == lineError
RdaDue  == rbrOn /\ rbr # <<>>
ThreDue == threOn /\ thr = <<>>

UartDue == RlsDue \/ RdaDue \/ ThreDue

IsrEnter ==
    /\ isr = "off" /\ UartDue
    /\ isr' = IF RlsDue THEN "err" ELSE IF RdaDue THEN "rx" ELSE "tx"
    /\ IF isr' = "tx"
       THEN xmit' = "disable" /\ xmitBy' = "isr"
       ELSE UNCHANGED <<xmit, xmitBy>>
    /\ UNCHANGED <<ringVars, ierVars, hwVars, TxIntStat, mainVars, lineVars, histVars>>

\* UART_IntReceive, one round: assemble the line, keep the byte in the ring
\* if there is room ("remaining character will be trimmed out").
IntReceive ==
    /\ isr = "rx" /\ rbr # <<>>
    /\ LET line == LineChar(<<UART_LINE_LEN, LINE_READY>>, Head(rbr))
       IN  UART_LINE_LEN' = line[1] /\ LINE_READY' = line[2]
    /\ rx' = IF BUF_IS_FULL(rx) THEN rx ELSE RingPut(rx, Head(rbr))
    /\ rbr' = Tail(rbr)
    /\ UNCHANGED <<tx, ierVars, thr, tsr, lineError, rxCount, isr, xmitVars, mainVars, histVars>>

\* UART_IntReceive ends when no more data is there.
IntReceiveEnd ==
    /\ isr = "rx" /\ rbr = <<>>
    /\ isr' = "off"
    /\ UNCHANGED <<ringVars, ierVars, hwVars, xmitVars, mainVars, lineVars, histVars>>

\* "Loop forever": the handler never leaves isr = "err".
IntErr == isr = "err" /\ UNCHANGED vars

Isr == IsrEnter \/ IntReceive \/ IntReceiveEnd \/ IntTransmit("isr") \/ IntErr

-----------------------------------------------------------------------------
(* The main loop.                                                          *)

MainRuns == isr = "off" /\ ~UartDue

Goto(from, to) == MainRuns /\ main = from /\ main' = to

\* Mutant of SendLock: the lock is left out.
SendNoLock == threOn

\* UARTSend: "Temporarily lock out UART transmit interrupts".
SendLock == FALSE

\* UARTSend(txbuf, buflen), whose first statement locks THRE interrupts out.
\* comm_put passes a buffer of one byte.
UARTSend(p) ==
    /\ MainRuns /\ main \in {"loop", "exec"}
    /\ Len(sent) + Len(TxInFlight) + Len(p) <= MaxTx
    /\ main' = "send_put" /\ ctx' = main /\ txbuf' = p
    /\ threOn' = SendLock
    /\ UNCHANGED <<ringVars, rbrOn, ierRead, hwVars, isr, xmitVars, lineVars, histVars>>

SendEnds == txbuf = <<>> \/ BUF_IS_FULL(tx)

\* One round of the loop: the next byte into the ring.
SendPut ==
    /\ ~SendEnds
    /\ Goto("send_put", "send_put")
    /\ tx' = RingPut(tx, Head(txbuf))
    /\ txbuf' = Tail(txbuf)
    /\ UNCHANGED <<rx, ierVars, hwVars, isr, xmitVars, ctx, lineVars, histVars>>

\* Done, or the ring is full: the rest of txbuf is not sent.
SendPutEnd ==
    /\ SendEnds
    /\ Goto("send_put", "send_start")
    /\ txbuf' = <<>>
    /\ UNCHANGED <<ringVars, ierVars, hwVars, isr, xmitVars, ctx, lineVars, histVars>>

\* TxIntStat == RESET: start the transmission; else re-enable the interrupt.
SendStart ==
    /\ MainRuns /\ main = "send_start"
    /\ IF TxIntStat
       THEN main' = ctx /\ threOn' = TRUE /\ UNCHANGED <<xmit, xmitBy>>
       ELSE main' = "send_xmit" /\ xmit' = "disable" /\ xmitBy' = "main" /\ UNCHANGED threOn
    /\ UNCHANGED <<ringVars, rbrOn, ierRead, hwVars, isr, TxIntStat, ctx, txbuf,
                   lineVars, histVars>>

\* The interrupt cannot be due for THRE here, but for RBR it can.
SendXmit == MainRuns /\ IntTransmit("main")

\* A round of the main loop that finds no line to execute.
Idle == ~LINE_READY /\ Goto("loop", "loop") /\ UNCHANGED vars

\* main(): LINE_READY, so exec_cmd, which begins with comm_flush.
ExecBegin ==
    /\ LINE_READY
    /\ Goto("loop", "recv_disable")
    /\ UNCHANGED <<ringVars, ierVars, hwVars, isr, xmitVars, ctx, txbuf, lineVars, histVars>>

\* Mutant of RbrReEnabled: the end of UARTReceive leaves the interrupt off.
RbrStaysOff == FALSE

\* UARTReceive: "Re-enable UART interrupts".
RbrReEnabled == TRUE

\* UARTReceive changes the RBR bit with IER &= and IER |=: a read, then a
\* write of both bits; the THRE interrupt can be taken in between.
IerRead(from, to) ==
    /\ Goto(from, to)
    /\ ierRead' = threOn
    /\ UNCHANGED <<ringVars, threOn, rbrOn, hwVars, isr, xmitVars, ctx, txbuf,
                   lineVars, histVars>>

IerWrite(from, to, on) ==
    /\ Goto(from, to)
    /\ rbrOn' = on /\ threOn' = ierRead /\ ierRead' = FALSE
    /\ UNCHANGED <<ringVars, hwVars, isr, xmitVars, ctx, txbuf, lineVars, histVars>>

\* One byte out of the ring; comm_flush goes on while UARTReceive returns 1.
RecvTake ==
    /\ MainRuns /\ main = "recv_take"
    /\ IF BUF_IS_EMPTY(rx)
       THEN main' = "recv_enable_last" /\ UNCHANGED <<rx, popped>>
       ELSE /\ main' = "recv_enable"
            /\ rx' = RingDrop(rx)
            /\ popped' = Append(popped, rx.buf[rx.tail])
    /\ UNCHANGED <<tx, ierVars, hwVars, isr, xmitVars, ctx, txbuf, lineVars, sent>>

\* exec_cmd returns and main() clears LINE_READY.
ExecEnd ==
    /\ Goto("exec", "loop")
    /\ LINE_READY' = FALSE
    /\ UNCHANGED <<ringVars, ierVars, hwVars, isr, xmitVars, ctx, txbuf, UART_LINE_LEN, histVars>>

Main ==
    \/ \E p \in Buffers : UARTSend(p)
    \/ SendPut \/ SendPutEnd \/ SendStart \/ SendXmit
    \/ Idle \/ ExecBegin
    \/ IerRead("recv_disable", "recv_disable_write")
    \/ IerWrite("recv_disable_write", "recv_take", FALSE)
    \/ RecvTake
    \/ IerRead("recv_enable", "recv_enable_write")
    \/ IerWrite("recv_enable_write", "recv_disable", RbrReEnabled)
    \/ IerRead("recv_enable_last", "recv_enable_last_write")
    \/ IerWrite("recv_enable_last_write", "exec", RbrReEnabled)
    \/ ExecEnd

-----------------------------------------------------------------------------
(* The UART hardware.                                                      *)

\* The holding register moves into an idle shift register.
ShiftLoad ==
    /\ thr # <<>> /\ tsr = <<>>
    /\ tsr' = thr /\ thr' = <<>>
    /\ UNCHANGED <<ringVars, ierVars, rbr, lineError, rxCount, isr, xmitVars, mainVars,
                   lineVars, histVars>>

\* The shift register has sent its byte.
ShiftOut ==
    /\ tsr # <<>>
    /\ sent' = sent \o tsr /\ tsr' = <<>>
    /\ UNCHANGED <<ringVars, ierVars, thr, rbr, lineError, rxCount, isr, xmitVars, mainVars,
                   lineVars, popped>>

\* A byte arrives, or is damaged or too many for the FIFO: a line error.
Arrive(c) ==
    /\ rxCount < MaxRx
    /\ rxCount' = rxCount + 1
    /\ \/ Len(rbr) < RxDepth /\ rbr' = Append(rbr, c) /\ UNCHANGED lineError
       \/ LineErrors /\ lineError' = TRUE /\ UNCHANGED rbr
    /\ UNCHANGED <<ringVars, ierVars, thr, tsr, isr, xmitVars, mainVars, lineVars, histVars>>

Hardware == ShiftLoad \/ ShiftOut \/ \E c \in AnyByte : Arrive(c)

Next == Main \/ Isr \/ Hardware

Spec == Init /\ [][Next]_vars

\* The transmitter shifts, a due interrupt is taken and its handler runs,
\* and the main loop keeps running.  Nothing makes it print or the other
\* side send.
Fairness ==
    /\ WF_vars(ShiftLoad \/ ShiftOut)
    /\ WF_vars(Isr)
    /\ WF_vars(Main /\ ~\E p \in Buffers : UARTSend(p))

FairSpec == Spec /\ Fairness

-----------------------------------------------------------------------------
(* Properties.                                                             *)

SendSteps == {"send_put", "send_start", "send_xmit"}
IerWrites == {"recv_disable_write", "recv_enable_write", "recv_enable_last_write"}
MainSteps == {"loop", "exec", "recv_disable", "recv_take", "recv_enable", "recv_enable_last"}
                 \cup SendSteps \cup IerWrites
RingType == [head : RingIndex, tail : RingIndex, buf : [RingIndex -> AnyByte]]

\* Types: in particular the indices of both rings stay below
\* UART_RING_BUFSIZE (the masks of the __BUF macros).
TypeOK ==
    /\ tx \in RingType /\ rx \in RingType
    /\ TxIntStat \in BOOLEAN
    /\ threOn \in BOOLEAN /\ rbrOn \in BOOLEAN /\ ierRead \in BOOLEAN
    /\ thr \in Seq(AnyByte) /\ tsr \in Seq(AnyByte) /\ rbr \in Seq(AnyByte)
    /\ lineError \in BOOLEAN
    /\ isr \in {"off", "rx", "tx", "err"}
    /\ xmit \in {"off", "disable", "wait", "fill", "done"} /\ xmitBy \in {"isr", "main"}
    /\ main \in MainSteps /\ ctx \in {"loop", "exec"} /\ txbuf \in Seq(AnyByte)
    /\ UART_LINE_LEN \in Nat /\ LINE_READY \in BOOLEAN
    /\ sent \in Seq(AnyByte) /\ popped \in Seq(AnyByte)
    /\ rxCount \in Nat

\* Nobody is moving bytes: no handler runs and no UARTSend is under way.
TxQuiet == isr = "off" /\ xmit = "off" /\ main \notin SendSteps

\* No lost wakeup: whenever bytes are left in the transmit ring and nobody is
\* moving them, the THRE interrupt is enabled and TxIntStat says so.  Were
\* TxIntStat RESET here, the next UARTSend would busy-wait in the main loop;
\* were the interrupt off, the bytes would stay for ever.  UARTReceive's
\* read-modify-write of IER around the interrupt must not break this.
NoLostWakeup == TxQuiet /\ ~BUF_IS_EMPTY(tx) => threOn /\ TxIntStat

\* What comm_put's one-byte calls make of this: UARTSend never returns before
\* its byte is in the transmitter, so the transmit interrupt stays unused
\* although comm_put says "with interrupt".  Proved in UartRingProofs for
\* MaxBufLen = 1; it fails for longer buffers.
SendIsSynchronous == ~threOn /\ (TxQuiet => BUF_IS_EMPTY(tx) /\ ~TxIntStat)

\* UARTSend's lock works: while it changes the ring no UART_IntTransmit runs,
\* and UART_IntTransmit never runs in both contexts at once.
TxExclusive ==
    /\ main \in {"send_put", "send_start"} => isr # "tx" /\ ~threOn
    /\ main = "send_xmit" => isr # "tx"

\* Transmit direction: the bytes UARTSend accepts appear on the wire in
\* order, each once, whichever context moved them.
TxQueue == INSTANCE ByteQueue WITH queue <- TxInFlight, out <- sent
TxStream == TxQueue!Spec

\* Receive direction: comm_flush takes out of the ring what UART_IntReceive
\* put into it, in order; trimmed bytes never corrupt the others.
RxQueue == INSTANCE ByteQueue WITH queue <- RingContents(rx), out <- popped
RxStream == RxQueue!Spec

\* Every byte UARTSend accepted is eventually transmitted, unless a line error
\* stops the whole clock first: UART_IntErr never returns.
TxDrains == (TxInFlight # <<>>) ~> (TxInFlight = <<>> \/ isr = "err")

\* The receive interrupt, which UARTReceive keeps switching off and on, is
\* served again and again: received bytes do not stay in the hardware (again
\* unless a line error stops the clock).
RxServed == (rbr # <<>>) ~> (rbr = <<>> \/ isr = "err")

=============================================================================
