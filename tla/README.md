# Equinox Clock: a verification project

The Equinox Clock is an LED clock on an NXP LPC1768 (Cortex-M3): a ring of RGB
LEDs driven by shift registers, a battery-backed real-time clock with daylight
saving, a web page served over a ZG2100 Wi-Fi module, and two consoles, one on
UART0 and one on a USB virtual COM port. There is no operating system: a main
loop and a handful of interrupt handlers share memory and peripherals. This
directory holds TLA+ modules that model that sharing, TLC configurations that
check them on small instances, and TLAPS proofs for every value of the
constants. Paths below are relative to `src/Equinox/`; `PROJECT.json` maps every
definition to its source lines.

## 1. Inventory

### Contexts and priorities

`NVIC_SetPriorityGrouping(4)` makes the upper part of a priority decide about
preemption.

| context | priority | touches |
|---|---|---|
| LED timers 0, 1, 2 and DMA (`ShiftPWM.c`) | 0 | `SENDSEQ`, the scan, `LED_INT_OCCURED` |
| USB (`usb.c`, `usbhw_lpc.c`) | 4 | both USB rings, `UART_LINE`, `LINE_READY` |
| RTC (`rtc.cpp`) | 8 | time registers, DST mark and dates |
| UART0 (`comm.c`), Wi-Fi edge | 9 | both UART rings, IER, `UART_LINE`, `LINE_READY` |
| main loop (`Main.cpp`) | none | everything |
| CAN (`canlib.c`, only with `DEV`) | above the main loop and USB | prints into the USB ring |

RTC, UART0 and the Wi-Fi edge are in one preemption group: none of them
interrupts another. All of them interrupt the main loop between any two
statements.

### Components

| component | source | state | operations | what is hard |
|---|---|---|---|---|
| byte ring | `libraries/R2C2/serial_fifo.c` | head, tail, storage | put, get, avail, free, masked and unmasked | wrap, full/empty, masking only one interrupt |
| USB COM port | `libraries/R2C2/usb.c`, `serial.c` | two rings, NAK interrupts, `abBulkBuf` | `BulkIn`, `BulkOut`, `USBFrameHandler`, `serial_*` | a handler that switches its own interrupt off; room tests |
| USB hardware layer | `libraries/LPCUSB/src/usbhw_lpc.c` | device and endpoint interrupt status | `USBHwISR`, `USBHwEPRead/Write` | order of clearing and scanning |
| UART console | `comm.c` | two rings, `TxIntStat`, IER | `UARTSend`, `UARTReceive`, `comm_flush`, `UART0_IRQHandler` | one function in two contexts; read-modify-write of IER |
| line assembly | `comm.c`, `usb.c` | `UART_LINE`, `UART_LINE_LEN`, `LINE_READY` | append, terminate, execute | unbounded index, two writers, a flag cleared late |
| real-time clock | `libraries/RTClib/rtc.cpp` | registers, GPREG3 (DST mark), GPREG4 (valid), DST dates in RAM | secondly interrupt, `RTC_time_SetTime`, `RTC_time_Init` | half-written times, power loss, corrections that undo themselves |
| calendar | `libraries/RTClib/rtc.cpp` | none | day counts, weekday, DST days | leap years, closed formulas |
| LED ring | `libraries/LED/ShiftPWM.c` | pattern, frame, planes, scan, timers | `LED_loop`, `Set_LED_Pattern`, patterns, four handlers | ticks racing the main loop, a stopped timer that must start again |
| main loop, commands | `Main.cpp`, `exec_cmd` in `comm.c` | none of its own | web, LED, serial line, in this order | commands issued in any order |
| web page | `Webpage.cpp` | none of its own | URL to command | effects repeated by retransmission |
| HTTP server | `libraries/WiShield/WiServer.cpp` | per connection: bytes acknowledged and sent, cursor, request | `server_task_impl` on uIP's events | pages generated anew for every segment; one static URL buffer for all connections |
| uIP stack | `libraries/WiShield/uip.c`, `stack.c` | `uip_conns`, one packet buffer | `uip_input`, `uip_periodic`, `uip_init` | lost, repeated and late segments, vanishing clients, few slots |
| Wi-Fi driver | `libraries/WiShield/g2100.c`, `server_task` | driver and connection state, `intr_occured`, `tx_ready`, `rx_ready`, `cnf_pending` | edge interrupt, `zg_process_isr`, `zg_drv_process`, `zg_init`, scan | one buffer for everything; a level line seen through an edge; refused requests, resets |
| CAN display (`DEV`) | `libraries/CANlib` | `CAN_flags`, screen state | interrupt, Lawicel commands | unprotected bit changes |
| the rest | `sys_timer.c`, `I2C`, `sunrise`, `hsv2rgb`, `term_io`, vendor drivers | counters, tables | | see "Not modelled" |

### How they interact

* **Calls.** The main loop calls the web server, `LED_loop` and, when
  `LINE_READY` is set, `exec_cmd`, which first flushes both receive rings. The
  web page and `exec_cmd` call `Set_LED_Pattern`, the drawing functions and
  `RTC_time_SetTime`. Printing goes through `comm_put`, which feeds both ports.
* **Shared state.** Each ring is shared by an interrupt handler and the main
  loop; the IER register by `UARTSend`, `UARTReceive` and the UART handler; the
  RTC registers by the secondly handler and the web page; `LED_PRECALC` by the
  main loop and the DMA; `LED_INT_OCCURED` by timer 2 and `LED_loop`.
* **Network.** `server_task` runs the driver, then what the connection state asks
  for: the stack, a reset of the radio, the set-up of a connection or a scan.
  `stack_process` hands a received frame or a timer tick to `uip_process`, which
  calls `server_task_impl`; what is to be sent stays in `uip_buf`, the buffer the
  driver also reads the radio's messages into.
* **Hardware.** The UART transmitter, the USB endpoint buffers, the RTC
  oscillator and the DMA proceed by themselves.

### What makes each component correct

* Both ports: bytes come out in the order they went in, each once; what was
  accepted is sent eventually; no ring, packet buffer or endpoint overflows.
* UART: whenever bytes wait and nobody is moving them, the interrupt that will
  move them is armed; the two contexts that move bytes exclude each other.
* RTC: the time is never off by an hour through corrections, settings or power
  failures; the DST dates are those of the current year.
* Calendar: agrees with the Gregorian calendar from 2000 to 2099.
* LED ring: what was asked for is what is shown, a pause is a pause, off is
  dark, a request is obeyed eventually.
* HTTP and uIP: a client gets its own page, in order and whole, whatever the network
  does; connections come to an end and their slots are freed.
* Wi-Fi driver: frames and confirmations stay paired, a connection is set up in
  order, nothing waits for ever, what is transmitted is what the stack wrote.

The 40 hazards in `PROJECT.json` list, line by line, where these can go wrong and
which property watches each.

## 2. Modules

| module | models | composed from |
|---|---|---|
| `SerialFifo` | `serial_fifo.c`: the ring as a record and its operations as operators | |
| `LineBuffer` | one byte of line assembly: length and ready flag | |
| `ByteQueue` | **abstract specification**: a channel that accepts bytes and delivers them in order | |
| `UsbSerial` | `usb.c`, `serial.c`, `USBHwISR`, main loop as user, host, CAN interrupt | `SerialFifo`, `LineBuffer`, `ByteQueue` |
| `UartRing` | the console of `comm.c` with its interrupt and the UART hardware | `LineBuffer`, `ByteQueue` |
| `UartRingProofs` | theorems about `UartRing` | `UartRing`, `ProofLemmas` |
| `Calendar` | date arithmetic of `rtc.cpp` against a day-by-day walk | |
| `RtcClock` | registers, DST correction, setting, boot, power loss | |
| `LedDriver` | `ShiftPWM.c`: patterns, pacing, planes, scan; the commands that drive it | |
| `LedDriverProofs` | theorems about `LedDriver` | `LedDriver`, `ProofLemmas` |
| `WiServer` | the server part of `WiServer.cpp`: what one application call does, as operators | |
| `UipTcp` | TCP server of `uip.c` and its restart, with clients and an unreliable network | `WiServer` |
| `WifiDriver` | `g2100.c`, the connection states of `server_task`, `stack_process` and the radio | |
| `UsbSerialProofs`, `CalendarProofs`, `RtcClockProofs`, `UipTcpProofs`, `WifiDriverProofs` | theorems about the module each is named after | that module |
| `ProofLemmas` | what the proofs share: induction with a set for a predicate, loops, ring indices, parts of sequences | |
| `MC*` | instances for TLC | |

### UsbSerial

`main` is the statement the main loop is at, `isr` the one the USB handler is at.
The main loop moves only while no enabled interrupt is due (`MainRuns`): that is
how one CPU behaves. The masked FIFO operations (`fifo_put`, `fifo_get`,
`fifo_avail`) are split where an unmasked interrupt could see a difference: mask,
test, store, unmask. `BulkIn` and `BulkOut` are the handlers; `IsrEnter` includes
`USBFrameHandler`. `IsrClearSlow` precedes the endpoint scan as in `USBHwISR`.
The host polls, reads, writes packets and starts frames at any time. A packet in
an endpoint buffer is a sequence of bytes, and `epIn` may hold `EpBuffers` of them.
`TxStream` and `RxStream` say that each direction implements `ByteQueue`, with
`queue` mapped to everything between the two ends (endpoint buffers, bulk buffer
and ring, in that order).
`CanPrints` adds the `DEV` build's CAN handler, a whole `fifo_put` in one step
because it has the highest priority; like the code's, it leaves the USB interrupt
enabled.

### UartRing

Rings are records; `& __BUF_MASK` is `% UART_RING_BUFSIZE`, which agrees with the
mask for every power of two and so lets a three-slot ring stand for 1024.
`UART_IntTransmit` runs in the handler and in the main loop, so its steps take the
context as a parameter. IER is two bits; `UARTReceive`'s `IER &= ...` is a read
(`ierRead`) and a write with the handler possibly in between. The THRE source is
a level (holding register empty): the code never depends on the edge. `UARTSend`
is modelled for buffers of any length up to `MaxBufLen`; the build itself passes
one byte at a time (`comm_put`). A line error enters `UART_IntErr`, which loops for
ever, as in the code.

### Calendar and RtcClock

`Calendar` translates `days_from_2000`, `days_from_20xx`, `dayOfWeekManual` and the
two DST formulas with their 16-bit widths, and walks through the century one day
at a time with the textbook calendar as the reference.

`RtcClock` abstracts a date to year and day, and an hour to a few seconds, and
keeps the control: `RTC_time_SetTime` decides the DST mark first, writes the
registers one by one (an interrupt or a power failure may come between any two),
then recalculates the dates. `RTC_IRQHandler` recalculates on a 1 January with
day-of-week 1 and then corrects. The registers, the mark and the validity
register survive `PowerOff`, the dates in RAM do not. The history variables
`std`, `torn`, `spoilt` and `setBacks` record what a person would expect of the
clock.

### LedDriver

A frame is one brightness per shift register, a plane is one bit of it. `main`
goes round web, LED, serial; a command is one visit. Drawing patterns draw any
frame in `Frames`. `calulateLEDMIBAMBits` writes `LED_PRECALC` word by word while
the DMA reads it word by word. The four handlers have one priority, hence one
step each. `pending` and `colour` remember what was asked for.

### WiServer and UipTcp

`server_task_impl` is an operator: application state, URL buffer, segment size, flags
and request lines in, a record with the new state and the data to send out. Its
steps are those of the C function, in its order, since several flags may be set. A
page is its length; byte i of the page of u is `<<u, i>>`, so that a client can
tell which page and which place a byte comes from.

`UipTcp` has one action per case of `uip_process`, which runs to its end for every
segment and every tick: `Listen`, `NoConnection`, `ResetInput`, `AckOnly`,
`SynRcvdInput`, `EstablishedInput`, `EstablishedFin`, `ClosingInput` for a segment;
`WaitExpires`, `GiveUp`, `Retransmit`, `Poll`, `NothingDue` for a tick of one
connection; `StackInit` for the restart after a new association. The labels `appsend`
and `apprexmit` are operators that yield an outcome: the connection afterwards and
the segments to send. A slot keeps `mss`, `initialmss` and the application state of its
last user, as in the code. A retransmission sends as many bytes as are outstanding,
whatever the application wrote this time; bytes it did not write are `Junk`.

The clients are ordinary TCP: they send a request of two lines in one segment or
two, retransmit, acknowledge, close after the server, or leave early with a reset,
a FIN or without a word. The network loses, repeats and reorders. The history
variable `changed` notes that window or page length changed under
unacknowledged data.

### WifiDriver

`pc` is the place in `server_task`; `zg_drv_process` is two steps, before and after the end
of `zg_process_isr`, because `intr_occured` is cleared there and the radio may raise its
interrupt in between. The radio has two FIFOs and one line, low while a message
is announced; the edge sets `intr_occured`. `buf` names what is in `uip_buf`. The
radio answers any request with success or refusal, at any time or never, loses and
regains the link, receives frames and confirms what it was given. WPA and WPA2,
and the two precalculated kinds, are one kind each: the driver treats them alike.

## 3. Runs

| run | expects | checks | shows |
|---|---|---|---|
| `usb_tx` | pass | `TypeOK BulkInHasRoom TxStream TxDrains` | printed bytes reach the host once, in order, eventually; no endpoint buffer is overwritten |
| `usb_rx` | pass | `NoOverflowAssert RxStream` | received bytes are popped in order; `BulkOut`'s `ASSERT(FALSE)` is unreachable, even when the CAN handler re-enables the interrupt early |
| `uart` | pass | `TypeOK NoLostWakeup TxExclusive TxStream RxStream TxDrains RxServed` | the THRE protocol keeps the rings intact and strands no byte; everything is sent and the receive interrupt always served again, unless a line error stops the handler |
| `calendar` | pass | `DayCountRight WeekdayRight DstOnLastSundays` | the arithmetic is right on each of 36525 days |
| `rtc` | pass | `TypeOK StandardTimeKept MarkMatchesClock` | no hour is gained or lost, outside three named situations |
| `rtc_autumn` | violation | `SetBackOnce` | finding 1 |
| `led` | pass | `TypeOK AllColourKept FrozenWhilePaused RequestServed` | commands, pacing and scan agree |
| `led_off` | violation | `OffIsDark` | finding 2 |
| `http` | pass | `TypeOK PageInOrder ClosedAfterWholePage OneSlotPerClient PageEnds SlotFreed` | pages arrive in order and whole, connections end and are freed, under loss, duplication, reordering, leaving clients and restarts of the stack |
| `http_url` | violation | `OwnPage` | finding 3 |
| `wifi` | pass | `TypeOK OneUnconfirmed ConnectReady TxServed ConnectingEnds` | frames and confirmations stay paired, connections are set up in order, nothing waits for ever unless an edge was missed |
| `wifi_tx` | violation | `TxIsFrame` | finding 4 |

The walk of `calendar` ends with the century, so that run does not ask for a next
step. All others check for deadlock.

### Bounds and why they are enough

* **USB**: rings of 3 slots (two bytes), packets of 2, 2 endpoint buffers.
  The ring fills, wraps and runs empty, a packet exactly fits, and both endpoint
  buffers can be occupied with the ring full behind them. `usb_tx` prints 4 bytes and
  receives 2 terminators, because scans for the other endpoint are what would call
  `BulkIn` once too often; `usb_rx` receives 4, at most one of them without terminator (`MaxLine`), and
  prints one so that a print can be interrupted. In `usb_rx` the CAN handler's early
  unmasking is on.
* **UART**: ring of 3, receive FIFO of 2, buffers up to 3, 3 bytes sent, 3
  received. The ring wraps in both directions, is full when `UARTSend` still has a
  byte, and an IER write can meet any transmit step. With buffers longer than one
  byte the interrupt path is really used.
* **Calendar**: no bound beyond the code's own range.
* **RTC**: 2 seconds an hour, 3 hours a day, 4 days a year, 2 years, DST from day 1
  to day 2 at hour 1. Every change, both edges of the interval, midnight, New Year
  and any setting of the clock happen, at every write of `RTC_time_SetTime`.
  `RtcClock` starts with a program compiled in the first winter.
* **LED**: one register with two planes; `led_off` uses two registers so that a
  transfer can be half done. Patterns, timers and the flag, on which the passing
  properties depend, do not depend on the number of registers; the safety
  properties are proved for any number.
* **HTTP**: one client, two slots, two connections, one segment under way in each
  direction (a duplicate can still come after everything else), a page of 3 bytes
  with segments of 1 or 2, one retransmission. So a page takes several segments,
  windows shrink and grow between them, a repeated SYN finds every state of
  the first connection, and a second connection inherits a used slot. `http_url` has two
  clients with a URL each.
* **Wi-Fi**: an open network and a WPA one; the latter has the longest set-up. WEP and
  precalculated keys take a part of the same path.

### Fairness

Each is fairness, weak unless said otherwise, on something the hardware or the structure of the program
guarantees.

* **USB**: the main loop does not stop (but nothing makes it print); a due enabled
  interrupt is taken and its handler runs on; frames come every millisecond; a
  connected host with the port open polls bulk-in.
* **UART**: the transmitter shifts at its baud rate; interrupts as above; the main
  loop does not stop. After a line error the code loops for ever by intention:
  the liveness properties allow that state and no other way to stop.
* **LED**: the main loop goes round, that is, whoever starts a command with a prompt
  answers it; timer 2 matches while it runs, that is, commands that restart its
  count come slower than the delay they set. The scan needs no fairness.
* **HTTP**: `stack_process` calls `uip_periodic` for every slot again and again, and a
  countdown that is not stopped ends. Nothing is assumed of network or clients.
* **Wi-Fi**: the main loop goes on; the periodic timer and the 60 seconds of an attempt to
  connect expire (strong fairness, since their tests are enabled only at one place
  of the loop); the radio confirms what it was given when a FIFO is
  free again and again. It need not answer requests.

## 4. Findings

1. **`rtc_autumn`**, `libraries/RTClib/rtc.cpp:446`. When DST ends the mark is cleared, the
   clock set one hour back, which is inside the DST interval again, so
   `RTC_time_SetTime` sets the mark again: the clock is set back every hour, though the
   comment says "Only update time once".
2. **`led_off`**, `libraries/LED/ShiftPWM.c:687`. `LED_off` stops the scan before the
   dark planes are shifted out; the plane latched last stays lit.
3. **`http_url`**, `libraries/WiShield/WiServer.cpp:310`. The URL is not saved "in the
   current connection's server request" but in one static array. Since the page is
   generated anew for every segment, a second request turns the rest of the
   first client's page into the second client's.
4. **`wifi_tx`**, `libraries/WiShield/g2100.c:530`. A frame that has to wait for the confirmation
   of the one before waits in the buffer that confirmation is read into: what is
   transmitted is the confirmation. TCP repairs it by retransmission.

`StandardTimeKept` and `MarkMatchesClock` hold beside finding 1 because they
exempt exactly the behaviours in which `RTC_time_SetTime` was cut into (`torn`), or
in which it put the mark back or the correction crossed midnight (`spoilt`). Because of
finding 1 every end of daylight saving sets `spoilt`: from there until the clock is set
again `StandardTimeKept` says nothing.

### Observations without a run

Met while modelling; each shows in the model when an exemption or a bound is
lifted.

* In the `DEV` build the CAN handler puts into the USB ring from an interrupt that
  `fifo_put` does not mask (`serial_fifo.c:45`, "Atomic version"): with `CanPrints`,
  `TxStream` fails.
* `days_from_20xx` is commented "number of days since 20xx/01/01, valid for 2001..2099"
  (`rtc.cpp:357`), but the leap days of all earlier years are in its sum (`rtc.cpp:366`).
  Counted from 0, as `days_from_2000` counts, it is wrong on every day of that range;
  counted from 1, as the day-of-year register counts, it is right until 2004 and wrong
  from 2005 on. The theorem `DayOfYearOff` proves both.
* The yearly recalculation of the DST dates needs the 1st of January to have
  day-of-week 1 (`rtc.cpp:83`); otherwise the old dates stay in use.
* `BulkOut` refuses a packet after its interrupt bit was cleared (`usb.c:208`): with both
  endpoint buffers full nothing calls it again.
* The driver is deaf when a message is announced while another is: the line does not
  rise and EINT1 sees no edge (`g2100.c:334`, `Deaf`). `TxServed` exempts it. Only
  a reset, which a connected clock does not make, ends it.
* `rx_ready` can outlive the frame it announces, and scan results are read from
  the buffer after a command may have been written into it.
* When window or page length changes between a segment and its retransmission,
  "Send the same data again" (`WiServer.cpp:474`) is not what happens; `changed` exempts it.
  A page that becomes shorter than what was acknowledged is never closed.
* A slot keeps the MSS of its last user for a client without MSS option, and an idle
  established connection keeps its slot for ever: uIP has no keep-alive.
* A request whose GET line and empty line come in two segments is served; a line
  that is itself cut in two is not recognised (lines are not cut in the model).

## 5. Proofs

Checked by TLAPS for all constants that satisfy the named assumptions. No fact is
taken on trust. Each inductive invariant was first checked by TLC on the instance
of its run. The theorems are `Spec => []P` unless said otherwise.

| module | theorems | assumptions |
|---|---|---|
| `UartRingProofs` | `TypeCorrect`, `WakeupNeverLost` (`NoLostWakeup`), `SendExcludesTransmit` (`TxExclusive`), `OneByteSendIsSynchronous`, `TxImplementsQueue` (`TxStream`), `RxImplementsQueue` (`RxStream`) | `UartAssumption` |
| `UsbSerialProofs` | `UsbTypeCorrect`, `NeverOverflows` (`NoOverflowAssert`), `WritesFindRoom` (`BulkInHasRoom`), `RxImplementsQueue`, `TxImplementsQueue` | `UsbAssumption`, `FifoSizeAssumption` |
| `CalendarProofs` | `DaysCounted` (`DayCountRight`), `WeekdaysNamed` (`WeekdayRight`), `DstSundays` (`DstOnLastSundays`), `DayOfYearOff` | `CalendarAssumption` |
| `RtcClockProofs` | `ClockTyped`, `MarkRight` (`MarkMatchesClock`), `NoHourLost` (`StandardTimeKept`) | `RtcAssumption`, `CompiledAssumption` |
| `LedDriverProofs` | `PauseFreezes` (`FrozenWhilePaused`), `DriverTypeCorrect`, `ColourShown` (`AllColourKept`) | `SizesAssumption`, `FramesAssumption` |
| `UipTcpProofs` | `ConnectionsTyped`, `ClientHoldsOneSlot` (`OneSlotPerClient`), `PageArrivesInOrder` (`PageInOrder`), `ClosesAfterWholePage` (`ClosedAfterWholePage`) | `UipAssumption` |
| `WifiDriverProofs` | `DriverTypeCorrect`, `FramesConfirmed` (`OneUnconfirmed`), `ConnectsWhenReady` (`ConnectReady`) | `SecurityAssumption` |

### UartRingProofs

`UartAssumption`: ring size at least 2, FIFO depth and buffer length positive, the
terminator is not an ordinary byte.

* `TypeOK` is inductive; lemmas on `BUF_INCR`, `RingPut`, `RingDrop` and buffers
  carry the ring part.
* `NoLostWakeup` and `TxExclusive` are not inductive. `NoLostWakeup` speaks only of quiet
  states, so the invariant has to say who is responsible in the others; and a stale
  IER value read before the handler ran may be written back after it. `TxInv` is the
  conjunction of
  - `XmitOwner`: `UART_IntTransmit` runs exactly in the context `xmitBy` names;
  - `SendLocked`: during `UARTSend` the interrupt is off and its handler not running;
  - `Armed`: bytes nobody moves have interrupt and `TxIntStat` set, also while the
    receive handler runs;
  - `WriteBackArmed`: if the ring is not empty at the write of IER, the value read
    had the THRE bit set. The handler can only empty the ring and clear the bit, so a
    stale value re-enables at most an interrupt that finds nothing to do.
* `OneByteSendIsSynchronous`: for `MaxBufLen = 1`, as `comm_put` calls it, `UARTSend`
  returns only when its byte is in the transmitter; the THRE interrupt is never
  enabled. `SyncInv` (the interrupt is unused; a byte in the ring is on its way in the
  main loop) is the strengthening. For longer buffers this is false.
* The refinements, `Spec => TxStream` and `Spec => RxStream`, need no more than `TypeOK`:
  each action appends to the contents of the ring, takes from its front, moves a
  byte from the ring to the transmitter or leaves them alone. What a ring contains after a
  put and after a drop is a lemma, proved from the wrap of its indices.

### UsbSerialProofs

`UsbAssumption`: a packet is smaller than the ring, the endpoint has a buffer.
`UsbInv` is the conjunction of

* `OutPackets`: what the bulk-out endpoint holds are packets of at least one and
  at most `MAX_PACKET_SIZE` bytes, and its interrupt is pending only while there is one;
* `NoOverflowAssert`, which with `RoomForPacket` and the count of free slots after each put
  of `FifoPutAll` (an induction over the packet) is inductive;
* `BulkBufUsed`: `abBulkBuf` is empty except between `BulkIn` and `USBHwEPWrite`;
* `GetHolds`: what `_fifo_get` has read before it advances the tail is still the oldest
  byte, since only the main loop takes out.

`NeverOverflows` and `RxImplementsQueue` hold in both builds. `WritesFindRoom` adds `InBudget`:
packets in the endpoint, a pending interrupt and a packet about to be written
together never exceed `EpBuffers`; it needs `EpBuffers > 1`, as the LPC1768's
double-buffered endpoint has. `TxImplementsQueue` is proved for the build without the
CAN handler (`~CanPrints`), where `PutHolds` (what `_fifo_put` tested still holds at the store)
is invariant; in the other build it is false (section 4). Both refinements use `FlatAppend`
and `FlatHead`, facts about `Flatten`, the bytes of a sequence of packets, by
induction over that sequence.

### CalendarProofs

`CalendarAssumption`: `LastYear` lies between 2000 and 2099, the range the comments of
`rtc.cpp` claim (`rtc.cpp:369` says 2001; 2000 is covered too). TLC visits every day of the
century; the proof adds why the formulas are right. None of the three properties is
inductive: a step to a new month or year needs the length of the one it leaves. `WalkInv`
says that the date exists (`DateOK`) and that `doy` and `count` are the days before the month
and before the year plus the day (`CountersOK`). The rest is arithmetic apart from the walk:

* `LoopOverMonths`: the loop over `daysInMonth` computes the twelve beginnings of months;
* `EveryFourthYear`: without a century year but 2000 the rule is `y % 4 = 0`. With 2100
  this lemma, and so the code, is wrong;
* `MonthsFollow`, `YearsFollow`: months and years follow without a gap;
* `CountFormula`: no sum reaches 2^16, so `uint16_t` loses nothing, and two digits give the
  same as four;
* `SundayFormula`: with `s = y + y / 4` of the year of the century, `5 * year / 4` is
  `2500 + s`, and the days before the 1st of March and of October are `s + 60` and `s + 274`
  modulo 7, which makes 4 and 1 the right constants.

`DayOfYearOff` is negative: the value of `days_from_20xx` exceeds the day of the year by
`LeapCount`, the leap days of earlier years, and so disagrees with its comment.

### RtcClockProofs

`RtcAssumption`: daylight saving begins before it ends, away from the ends of day and year;
`CompiledAssumption`: the time of compilation is a time of the model. Both properties
speak of a clock that nobody is setting. `ClockInv` says of a setting under way

* `WhoSets`, `MainAlone`: who may be setting the clock when, and that a setting of the main loop
  that nothing has cut into runs alone;
* `SoFarWritten`: the registers written so far hold what was given;
* `ArgKeepsTime`: what was given is standard time plus the hour of the mark;
* `RegistersKeepTime`: the same of the registers while nobody writes them, power on
  or off, which carries the time over a power failure;
* `DatesKnown`: the dates in RAM are calculated before interrupts are enabled.

The arithmetic (`FindUnixtime` after a second, an hour's correction, a midnight) is in
lemmas about times, for every `Secs`, `Hours` and `Days`.

### LedDriverProofs

`FramesAssumption` types frames, levels and test words.

* `PauseFreezes`: the action property depends on
  `PausedQuiet`: while timer 2 is stopped no tick is waiting, except between Pause and
  the end of its round, where `LED_INT_OCCURED` is cleared last; `RoundPaced` says
  that a round begins with the timer running. It needs no assumption.
* `ColourShown`: `AllColourKept` speaks of the main loop between its visits. `ColourHeld`
  adds what holds in between: a colour in force has filled the frame, its pattern is
  `raw`, so that no other pattern's round begins, and the planes are done as far
  as the calculation has come (`PlanesDone`). That a word of the planes has one
  number, `b * REGS + r`, is `WordNumber`. That planes which hold the bits of a level
  show that level (`PlanesWeigh`) is proved by induction over the planes.

### UipTcpProofs

`UipAssumption` types requests, pages, windows and segment sizes. `SlotInv` consists of
the types of slots, segments and clients (what `server_task_impl` returns is typed in lemmas about
the operators of `WiServer`) and `OneSlotPerClient` itself. It is inductive because of the order
in which `uip_process` looks: `Listen` runs only for a segment no live slot matches, and
every other action leaves the peer of each live slot alone (`SlotsKept`).

The second part is about what clients receive. Of `UipAssumption` it also uses that
the empty line is no URL. `PageInOrder` says nothing of segments under way or of the
server's counters, so it is far from inductive. `PageInv`, on top of `SlotInv`, is the
conjunction of

* `Generations`: initial sequence numbers tell live connections apart, and nothing under
  way has a number not given out yet, so that a new connection meets no old segment;
* `Requests`: the empty line of a request has number 2. A request is therefore complete
  once, when `rcv` reaches 3, and never while page data is outstanding: no segment brings
  request data and an acknowledgement of page data to the application at once;
* `Acks`: a client acknowledges at most what it got, of its own connection;
* `Connections`: in an established connection `snd = ackedCount + 1`, and what is
  outstanding (`len`) is what the application counted (`sentCount`) and would generate again
  (`Counted`); the client is not ahead of `snd + len`; after the server's close it has as
  many bytes as the page;
* `Numbers`: data under way was cut out of the page where its sequence number says;
* `Edges`, `Fins`, `Ends`: no data lies beyond what the connection has sent, beyond a FIN
  under way or beyond a FIN received, so a late segment is never mistaken for the next;
* `ClientsOK`: a client's next number is one more than its bytes, or more after the FIN.

Every case of `uip_process` for a live connection is shown to satisfy `SlotFits`, a statement
about one slot before and after and the segments it sends, and `SlotKeeps` shows once that
such a step keeps `PageInv`; `ClientFits` and `ClientKeeps` do the same for the clients. What
`server_task_impl` writes in each kind of call (`CallRequest`, `CallAcked`, `CallRexmit`) is in
lemmas about the operators of `WiServer`.

### WifiDriverProofs

`SecurityAssumption`: the security types are those of the driver. None of the three
properties is inductive. `ValidInIsr`: `intr_valid`, on which the count of confirmations
depends, is set only between the two halves of `zg_drv_process`. `SetupInv` follows the key and
the connection manager: a message in a FIFO, or in the buffer and not yet looked at, implies
what the radio must have accepted before it sent it.

### Only model-checked

* Liveness (`TxDrains`, `RxServed`, `RequestServed`, `PageEnds`, `SlotFreed`, `TxServed`, `ConnectingEnds`):
  fairness is out of the prover's reach.

## 6. Abstractions

* Bytes are one ordinary value and the terminator; line contents, formatting and
  URL parsing are left out, the values they yield are chosen freely.
* `comm_put` writes to both ports; each port has a module of its own and sees
  every print. Line assembly from both ports at once is therefore not covered yet.
* LED positions, colours and the brightness potentiometer are abstracted to frames.
* Timer periods are left out: a running timer may match at any moment, except that
  the plane timer does not match during a transfer (at least nine microseconds
  against about two).
* The RTC handler takes less than a second; a setting from the main loop meets at
  most one second.
* TCP sequence numbers count from the initial number of their connection, and
  connections have different initial numbers; the code advances `iss` once per
  tick and slot, so this needs a tick between two connections of one client port, and
  segments of the earlier one to be gone, or its numbers far away, when the later one
  reuses them: the code compares absolute numbers (`uip.c:1460`), the model also the
  connection (`Acknowledges`). With overlapping numbers a late acknowledgement could
  count for the wrong connection; that is outside the model.
  Timers of uIP are left out: a running one may expire at any tick, which includes
  every value of the estimated round trip.
* Messages of the radio, commands and frames are names; the radio answers no sooner
  than the driver has finished handing over. It reports a disassociation only if it
  has been associated since its reset; `zg_drv_process` answers one with a request
  to connect, whatever the state of the set-up.
* History variables (`sent`, `popped`, `received`, `std`, `torn`, `spoilt`,
  `setBacks`, `pending`, `colour`, `changed`) exist for properties only: no guard of the modelled
  code reads them (bounds on inputs do).

## 7. Not modelled

* **CAN display and Lawicel commands**: only in the `DEV` build; its effect on the
  USB ring is in `UsbSerial`.
* **Client mode of WiServer, active open, UDP, DHCP, DNS, ARP, IP checks**: the clock
  serves pages only; ARP and IP filter frames without state the server depends on.
* **Both consoles in one model**: each has its own module, so the mixing of two
  half-typed lines in `UART_LINE` (`usb.c:223`) is described as a hazard only.
* **LED drawing**: which LED a pattern lights is abstracted to frames, so its index
  arithmetic is not checked.
* **System tick, I2C potentiometer and thermometer, formatted output**: counters,
  polled input and layout without protocol.
* **Sunrise, colour conversion**: floating point and tables.
* **USB enumeration and the control endpoint, NXP and CMSIS drivers**: vendored;
  only their effect on registers the project's code relies on is modelled.
* `eq_clock.c`, `mTCP_IP`, the Contiki uIP, `cppRTClib`, `ShiftPWM_example`, and outside
  `src/Equinox` Contiki and the Microchip TCP/IP sources: not in the build
  (`Makefile`, `SRC`). They make up nearly all of the repository's 830 000 lines, which
  is why the map covers a small share of them: the clock's own code, with uIP and
  the radio driver, is about 16 000 lines.

## 8. Plan

Done: 1. the two ports (`SerialFifo`, `UsbSerial`, `UartRing`, `ByteQueue`); 2. the clock
(`Calendar`, `RtcClock`); 3. the LED ring (`LedDriver`); 4. the network, from application to
radio (`WiServer`, `UipTcp`, `WifiDriver`); 5. the theorems of section 5: every safety
property of the passing runs.

Left for the model: one module with both consoles and the contents of
`UART_LINE`; indices of the drawing functions; the display protocol of the `DEV` build.
