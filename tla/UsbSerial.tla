------------------------------- MODULE UsbSerial ------------------------------
(***************************************************************************)
(* The USB virtual COM port: usb.c (BulkOut, BulkIn, USBFrameHandler),     *)
(* serial.c, the masked FIFO operations of serial_fifo.c, the interrupt    *)
(* dispatcher USBHwISR of LPCUSB, and the main loop as their user.         *)
(*                                                                         *)
(* Two processors of one CPU interleave: the main loop, whose steps are    *)
(* the statements between which an interrupt can be taken, and the USB     *)
(* interrupt handler, which runs only while the NVIC has it enabled and    *)
(* then runs to its end before the main loop continues.  The host and the  *)
(* endpoint hardware run on their own at any moment.  In the CAN build     *)
(* (macro DEV) CAN_IRQHandler prints too, and preempts both.               *)
(***************************************************************************)
EXTENDS SerialFifo, LineBuffer

CONSTANTS
    Byte,              \* bytes of the stream other than the terminator
    MAX_PACKET_SIZE,   \* 64 in usb.c
    EpBuffers,         \* hardware buffers of a bulk endpoint (2)
    CanPrints,         \* TRUE in the CAN build: an interrupt handler prints
    MaxTx,             \* bound: bytes the program prints in one behaviour
    MaxRx,             \* bound: bytes the host sends in one behaviour
    MaxLine            \* bound: bytes the host sends without a terminator

ASSUME UsbAssumption ==
    /\ MAX_PACKET_SIZE \in Nat \ {0}
    /\ MAX_PACKET_SIZE < SERIAL_FIFO_SIZE
    /\ EpBuffers \in Nat \ {0}
    /\ CanPrints \in BOOLEAN
    /\ MaxTx \in Nat /\ MaxRx \in Nat /\ MaxLine \in Nat
    /\ CR \notin Byte /\ Byte # {}

AnyByte == Byte \cup {CR}

VARIABLES
    txfifo, rxfifo,    \* the two fifo_t of usb.c
    irqOn,             \* the NVIC enable bit of USB_IRQn
    nakBI,             \* NAK interrupts of the bulk-in endpoint are on
    epIn, epOut,       \* packets in the buffers of the two bulk endpoints
    epInt,             \* USBEpIntSt: endpoints whose interrupt is pending
    epSlow, frame,     \* USBDevIntSt: EP_SLOW and FRAME
    isr,               \* where the USB interrupt handler is
    abBulkBuf,         \* bytes BulkIn took out of txfifo and has not written
    asserted,          \* BulkOut reached its ASSERT(FALSE)
    main, ctx,         \* where the main loop is, and where a print returns
    byteArg, oldIndex, \* argument and index register of a FIFO operation
    UART_LINE_LEN, LINE_READY,
    received, popped   \* history: bytes the host got, bytes the program read

fifoVars == <<txfifo, rxfifo>>
hwVars   == <<nakBI, epIn, epOut, epInt, epSlow, frame>>
isrVars  == <<isr, abBulkBuf, asserted>>
mainVars == <<main, ctx, byteArg, oldIndex>>
lineVars == <<UART_LINE_LEN, LINE_READY>>
histVars == <<received, popped>>
vars == <<fifoVars, irqOn, hwVars, isrVars, mainVars, lineVars, histVars>>

-----------------------------------------------------------------------------
(* State after USBSerial_Init: rings empty, NAK interrupts of bulk-in on,  *)
(* interrupt enabled, device connected.                                    *)

Init ==
    /\ txfifo = fifo_init([i \in Index |-> CR])
    /\ rxfifo = fifo_init([i \in Index |-> CR])
    /\ irqOn = TRUE
    /\ nakBI = TRUE
    /\ epIn = <<>> /\ epOut = <<>>
    /\ epInt = {} /\ epSlow = FALSE /\ frame = FALSE
    /\ isr = "off" /\ abBulkBuf = <<>> /\ asserted = FALSE
    /\ main = "loop" /\ ctx = "loop" /\ byteArg = CR /\ oldIndex = 0
    /\ UART_LINE_LEN = 0 /\ LINE_READY = FALSE
    /\ received = <<>> /\ popped = <<>>

\* The bytes of a sequence of packets.
Flatten(packets) ==
    LET bytes[n \in 0 .. Len(packets)] ==
            IF n = 0 THEN <<>> ELSE bytes[n - 1] \o packets[n]
    IN  bytes[Len(packets)]

\* Bytes the program has handed to the port and the host has not got yet.
TxInFlight == Flatten(epIn) \o abBulkBuf \o Contents(txfifo)

\* Bytes the host has sent and the program has not read yet.
RxInFlight == Contents(rxfifo) \o Flatten(epOut)

-----------------------------------------------------------------------------
(* The main loop.  It runs only while no interrupt handler does and none   *)
(* is due: the CPU takes a pending, enabled interrupt before it executes   *)
(* the next statement of the main loop.                                    *)

UsbInterruptDue == irqOn /\ (frame \/ epSlow)

MainRuns == isr = "off" /\ ~UsbInterruptDue

Goto(from, to) == MainRuns /\ main = from /\ main' = to

\* The local variables of a FIFO operation end with it.
EndOfScope == byteArg' = CR /\ oldIndex' = 0

\* comm_put -> serial_writechar -> fifo_put, from the loop or a command.
serial_writechar(c) ==
    /\ main \in {"loop", "exec"}
    /\ Len(received) + Len(TxInFlight) < MaxTx
    /\ MainRuns /\ main' = "put_mask" /\ ctx' = main
    /\ byteArg' = c
    /\ UNCHANGED <<fifoVars, irqOn, hwVars, isrVars, oldIndex, lineVars, histVars>>

\* NVIC_DisableIRQ(USB_IRQn) at the start of a masked FIFO operation.
Mask(from, to) ==
    /\ Goto(from, to)
    /\ irqOn' = FALSE
    /\ UNCHANGED <<fifoVars, hwVars, isrVars, ctx, byteArg, oldIndex, lineVars, histVars>>

\* NVIC_EnableIRQ(USB_IRQn) at its end.
Unmask(from, to) ==
    /\ Goto(from, to)
    /\ irqOn' = TRUE
    /\ UNCHANGED <<fifoVars, hwVars, isrVars, ctx, byteArg, oldIndex, lineVars, histVars>>

\* _fifo_put, first half: test for room; serial_writechar ignores a refusal.
PutTest ==
    /\ MainRuns /\ main = "put_test"
    /\ IF FifoFull(txfifo)
       THEN main' = "put_unmask" /\ EndOfScope
       ELSE main' = "put_store" /\ oldIndex' = txfifo.head /\ byteArg' = byteArg
    /\ UNCHANGED <<fifoVars, irqOn, hwVars, isrVars, ctx, lineVars, histVars>>

\* _fifo_put, second half: store the byte, then publish it through head.
PutStore ==
    /\ Goto("put_store", "put_unmask")
    /\ txfifo' = [txfifo EXCEPT !.buf = [@ EXCEPT ![oldIndex] = byteArg],
                                !.head = Advance(oldIndex)]
    /\ EndOfScope
    /\ UNCHANGED <<rxfifo, irqOn, hwVars, isrVars, ctx, lineVars, histVars>>

\* main(): if (LINE_READY) exec_cmd(UART_LINE), which starts with usb_flush.
ExecBegin ==
    /\ LINE_READY
    /\ Goto("loop", "avail_mask")
    /\ UNCHANGED <<fifoVars, irqOn, hwVars, isrVars, ctx, byteArg, oldIndex,
                   lineVars, histVars>>

\* usb_flush: while (serial_rxchars()), whose value oldIndex remembers.
AvailRead ==
    /\ Goto("avail_read", "avail_unmask")
    /\ oldIndex' = fifo_avail(rxfifo)
    /\ UNCHANGED <<fifoVars, irqOn, hwVars, isrVars, ctx, byteArg, lineVars, histVars>>

FlushLoop ==
    /\ MainRuns /\ main = "flush_test"
    /\ main' = IF oldIndex = 0 THEN "exec" ELSE "get_mask"
    /\ EndOfScope
    /\ UNCHANGED <<fifoVars, irqOn, hwVars, isrVars, ctx, lineVars, histVars>>

\* _fifo_get, first half: test for data, compute next, read the byte.
GetRead ==
    /\ MainRuns /\ main = "get_read"
    /\ main' = IF FifoEmpty(rxfifo) THEN "get_unmask" ELSE "get_store"
    /\ byteArg' = FifoFront(rxfifo)
    /\ oldIndex' = rxfifo.tail
    /\ UNCHANGED <<fifoVars, irqOn, hwVars, isrVars, ctx, lineVars, histVars>>

\* _fifo_get, second half: release the slot.
GetStore ==
    /\ Goto("get_store", "get_unmask")
    /\ rxfifo' = [rxfifo EXCEPT !.tail = Advance(oldIndex)]
    /\ popped' = Append(popped, byteArg)
    /\ EndOfScope
    /\ UNCHANGED <<txfifo, irqOn, hwVars, isrVars, ctx, lineVars, received>>

\* exec_cmd returns; main() then clears LINE_READY.
ExecEnd ==
    /\ Goto("exec", "loop")
    /\ LINE_READY' = FALSE
    /\ UNCHANGED <<fifoVars, irqOn, hwVars, isrVars, ctx, byteArg, oldIndex,
                   UART_LINE_LEN, histVars>>

Main ==
    \/ \E c \in AnyByte : serial_writechar(c)
    \/ Mask("put_mask", "put_test") \/ PutTest \/ PutStore \/ Unmask("put_unmask", ctx)
    \/ ExecBegin
    \/ Mask("avail_mask", "avail_read") \/ AvailRead \/ Unmask("avail_unmask", "flush_test")
    \/ FlushLoop
    \/ Mask("get_mask", "get_read") \/ GetRead \/ GetStore \/ Unmask("get_unmask", "avail_mask")
    \/ ExecEnd

-----------------------------------------------------------------------------
(* The USB interrupt.  USBHwISR samples USBDevIntSt, runs the frame        *)
(* handler, clears EP_SLOW and only then scans the endpoints, so that an   *)
(* endpoint event during the scan raises the interrupt again.              *)

\* Mutant of FrameArmsNak: an off-by-one in the frame handler's test.
FrameArmsNakLate == fifo_avail(txfifo) > 1

\* USBFrameHandler re-enables NAK interrupts when there is data to send.
FrameArmsNak == fifo_avail(txfifo) > 0

\* Mutant of Handled: the bit of an IN endpoint is not cleared before the call.
HandledStays(e) == epInt \ ({e} \cap {"OUT"})

\* USBHwISR clears the endpoint's interrupt bit, then calls its handler.
Handled(e) == epInt \ {e}

\* Taking the interrupt, sampling the status, and USBFrameHandler.
IsrEnter ==
    /\ isr = "off" /\ UsbInterruptDue
    /\ isr' = IF epSlow THEN "clear_slow" ELSE "off"
    /\ frame' = FALSE
    /\ nakBI' = (nakBI \/ (frame /\ FrameArmsNak))
    /\ UNCHANGED <<fifoVars, irqOn, epIn, epOut, epInt, epSlow, abBulkBuf, asserted,
                   mainVars, lineVars, histVars>>

IsrClearSlow ==
    /\ isr = "clear_slow"
    /\ isr' = "scan_in"
    /\ epSlow' = FALSE
    /\ UNCHANGED <<fifoVars, irqOn, nakBI, epIn, epOut, epInt, frame, abBulkBuf,
                   asserted, mainVars, lineVars, histVars>>

Smaller(a, b) == IF a < b THEN a ELSE b

\* BulkIn up to the point where the packet is in abBulkBuf.
BulkIn ==
    LET n == Smaller(MAX_PACKET_SIZE, fifo_avail(txfifo))
    IN  /\ isr = "scan_in" /\ "IN" \in epInt
        /\ epInt' = Handled("IN")
        /\ isr' = IF n = 0 THEN "scan_out" ELSE "write_in"
        /\ nakBI' = (nakBI /\ n > 0)
        /\ abBulkBuf' = SubSeq(Contents(txfifo), 1, n)
        /\ txfifo' = [txfifo EXCEPT !.tail = (@ + n) % SERIAL_FIFO_SIZE]
        /\ UNCHANGED <<rxfifo, irqOn, epIn, epOut, epSlow, frame, asserted,
                       mainVars, lineVars, histVars>>

NoBulkIn ==
    /\ isr = "scan_in" /\ "IN" \notin epInt
    /\ isr' = "scan_out"
    /\ UNCHANGED <<fifoVars, irqOn, hwVars, abBulkBuf, asserted, mainVars, lineVars, histVars>>

\* USBHwEPWrite: the packet goes into a free buffer of the endpoint.
EPWrite ==
    /\ isr = "write_in"
    /\ isr' = "scan_out"
    /\ epIn' = Append(epIn, abBulkBuf)
    /\ abBulkBuf' = <<>>
    /\ UNCHANGED <<fifoVars, irqOn, nakBI, epOut, epInt, epSlow, frame, asserted,
                   mainVars, lineVars, histVars>>

\* Mutant of RoomForPacket: any room is taken to be enough.
RoomForSomething == fifo_free(rxfifo) > 0

\* The room test at the head of BulkOut.
RoomForPacket == fifo_free(rxfifo) >= MAX_PACKET_SIZE

\* BulkOut: refuse when a full packet may not fit, else move the packet
\* into rxfifo and the line buffer.  fifo_avail, which _fifo_free calls,
\* leaves the interrupt enabled.
BulkOut ==
    /\ isr = "scan_out" /\ "OUT" \in epInt
    /\ isr' = "off"
    /\ irqOn' = TRUE
    /\ IF ~RoomForPacket
       THEN /\ epInt' = Handled("OUT")
            /\ UNCHANGED <<rxfifo, epOut, epSlow, asserted, lineVars>>
       ELSE LET p == Head(epOut)
                k == Smaller(Len(p), fifo_free(rxfifo))
                line == LineChars(<<UART_LINE_LEN, LINE_READY>>, SubSeq(p, 1, k))
            IN  /\ rxfifo' = FifoPutAll(rxfifo, p)
                /\ asserted' = (asserted \/ k < Len(p))
                /\ UART_LINE_LEN' = line[1] /\ LINE_READY' = line[2]
                /\ epOut' = Tail(epOut)
                /\ epInt' = IF epOut' = <<>> THEN Handled("OUT") ELSE epInt
                /\ epSlow' = (epSlow \/ epOut' # <<>>)
    /\ UNCHANGED <<txfifo, nakBI, epIn, frame, abBulkBuf, mainVars, histVars>>

NoBulkOut ==
    /\ isr = "scan_out" /\ "OUT" \notin epInt
    /\ isr' = "off"
    /\ UNCHANGED <<fifoVars, irqOn, hwVars, abBulkBuf, asserted, mainVars, lineVars, histVars>>

Isr == IsrEnter \/ IsrClearSlow \/ BulkIn \/ NoBulkIn \/ EPWrite \/ BulkOut \/ NoBulkOut

\* The CAN build: CAN_IRQHandler -> Screen_Interrupt -> xprintf ->
\* comm_put -> fifo_put, at a priority above both other contexts.
CanPrint(c) ==
    /\ CanPrints
    /\ Len(received) + Len(TxInFlight) < MaxTx
    /\ txfifo' = fifo_put(txfifo, c)
    /\ irqOn' = TRUE
    /\ UNCHANGED <<rxfifo, hwVars, isrVars, mainVars, lineVars, histVars>>

-----------------------------------------------------------------------------
(* Hardware and host, as usb.c uses them.                                  *)

\* Start of frame, every millisecond.
StartOfFrame ==
    /\ ~frame
    /\ frame' = TRUE
    /\ UNCHANGED <<fifoVars, irqOn, nakBI, epIn, epOut, epInt, epSlow, isrVars,
                   mainVars, lineVars, histVars>>

\* The host polls bulk-in and gets a packet: an ACK always interrupts.
HostReads ==
    /\ epIn # <<>>
    /\ received' = received \o Head(epIn)
    /\ epIn' = Tail(epIn)
    /\ epInt' = epInt \cup {"IN"} /\ epSlow' = TRUE
    /\ UNCHANGED <<fifoVars, irqOn, nakBI, epOut, frame, isrVars, mainVars, lineVars, popped>>

\* The host polls an empty bulk-in endpoint: a NAK interrupts when enabled.
HostGetsNak ==
    /\ epIn = <<>> /\ nakBI /\ "IN" \notin epInt
    /\ epInt' = epInt \cup {"IN"} /\ epSlow' = TRUE
    /\ UNCHANGED <<fifoVars, irqOn, nakBI, epIn, epOut, frame, isrVars, mainVars,
                   lineVars, histVars>>

\* The host writes a packet into a free buffer of bulk-out.
HostWrites(p) ==
    /\ Len(epOut) < EpBuffers
    /\ Len(popped) + Len(RxInFlight) + Len(p) <= MaxRx
    /\ epOut' = Append(epOut, p)
    /\ epInt' = epInt \cup {"OUT"} /\ epSlow' = TRUE
    /\ LineChars(<<UART_LINE_LEN, LINE_READY>>, Flatten(epOut'))[1] <= MaxLine
    /\ UNCHANGED <<fifoVars, irqOn, nakBI, epIn, frame, isrVars, mainVars, lineVars, histVars>>

Packets == UNION {[1 .. n -> AnyByte] : n \in 1 .. MAX_PACKET_SIZE}

Host == StartOfFrame \/ HostReads \/ HostGetsNak \/ \E p \in Packets : HostWrites(p)

Next == Main \/ Isr \/ (\E c \in Byte : CanPrint(c)) \/ Host

\* Frames and polls of a connected host recur; a pending enabled interrupt
\* is taken and its handler runs; the main loop does not stop.
Fairness ==
    /\ WF_vars(Main /\ ~\E c \in AnyByte : serial_writechar(c))
    /\ WF_vars(Isr)
    /\ WF_vars(StartOfFrame)
    /\ WF_vars(HostReads) /\ WF_vars(HostGetsNak)

Spec == Init /\ [][Next]_vars

FairSpec == Spec /\ Fairness

-----------------------------------------------------------------------------
(* Properties.                                                             *)

MainSteps == {"loop", "exec", "put_mask", "put_test", "put_store", "put_unmask",
              "avail_mask", "avail_read", "avail_unmask", "flush_test",
              "get_mask", "get_read", "get_store", "get_unmask"}
IsrSteps == {"off", "clear_slow", "scan_in", "write_in", "scan_out"}

\* Types: in particular both indices of both rings stay inside the storage.
TypeOK ==
    /\ txfifo \in FifoType(AnyByte) /\ rxfifo \in FifoType(AnyByte)
    /\ irqOn \in BOOLEAN /\ nakBI \in BOOLEAN
    /\ epIn \in Seq(Seq(AnyByte)) /\ epOut \in Seq(Seq(AnyByte))
    /\ epInt \subseteq {"IN", "OUT"} /\ epSlow \in BOOLEAN /\ frame \in BOOLEAN
    /\ isr \in IsrSteps /\ abBulkBuf \in Seq(AnyByte) /\ asserted \in BOOLEAN
    /\ main \in MainSteps /\ ctx \in {"loop", "exec"}
    /\ byteArg \in AnyByte /\ oldIndex \in Index
    /\ UART_LINE_LEN \in Nat /\ LINE_READY \in BOOLEAN
    /\ received \in Seq(AnyByte) /\ popped \in Seq(AnyByte)

\* The room test of BulkOut is enough: its ASSERT(FALSE) on overflow is
\* never reached, whatever the main loop is doing with rxfifo (usb.c:216).
NoOverflowAssert == ~asserted

\* BulkIn is never called with all buffers of the endpoint occupied, so
\* USBHwEPWrite never overwrites a packet the host has not read: neither
\* NAK interrupts that race with a write nor late ACKs cause one too many.
BulkInHasRoom == isr = "write_in" => Len(epIn) < EpBuffers

\* Transmit direction: what the host receives is what serial_writechar
\* accepted, in order, nothing lost, doubled or corrupted on the way
\* through the ring, the bulk buffer and the endpoint.
TxQueue == INSTANCE ByteQueue WITH queue <- TxInFlight, out <- received
TxStream == TxQueue!Spec

\* Receive direction: what the program pops is what the host sent, in
\* order; a packet refused by BulkOut for lack of room is not lost.
RxQueue == INSTANCE ByteQueue WITH queue <- RxInFlight, out <- popped
RxStream == RxQueue!Spec

\* Every byte accepted for transmission reaches the host although BulkIn
\* switches its own interrupt source off whenever the ring runs empty.
TxDrains == (TxInFlight # <<>>) ~> (TxInFlight = <<>>)

=============================================================================
