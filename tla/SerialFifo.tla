------------------------------ MODULE SerialFifo ------------------------------
(***************************************************************************)
(* The byte ring of libraries/R2C2/serial_fifo.c.  A fifo_t is a record    *)
(* with the indices head (next slot to write) and tail (next slot to read) *)
(* and the storage buf; one slot always stays unused, so head = tail means *)
(* empty.  The operators give the effect of the unmasked functions         *)
(* (_fifo_put, _fifo_get, ...); the "Atomic version" wrappers, which mask  *)
(* the USB interrupt around them, are steps of module UsbSerial.           *)
(***************************************************************************)
EXTENDS Integers, Sequences

CONSTANT SERIAL_FIFO_SIZE    \* 1024 in serial_fifo.h

ASSUME FifoSizeAssumption == SERIAL_FIFO_SIZE \in Nat /\ SERIAL_FIFO_SIZE > 1

Index == 0 .. (SERIAL_FIFO_SIZE - 1)

\* fifo_t over a set of bytes.
FifoType(Byte) == [head : Index, tail : Index, buf : [Index -> Byte]]

\* Mutant of Advance: the wrap is forgotten.
AdvanceNoWrap(i) == i + 1

\* The index after i, as all four functions compute it.
Advance(i) == (i + 1) % SERIAL_FIFO_SIZE

\* fifo_init: both indices at the start of the storage it is given.
fifo_init(buf) == [head |-> 0, tail |-> 0, buf |-> buf]

\* Mutant of FifoFull: the slot kept free is not taken into account.
FifoFullLate(f) == FALSE

\* _fifo_put returns FALSE exactly in this case.
FifoFull(f) == Advance(f.head) = f.tail

\* _fifo_get returns FALSE exactly in this case.
FifoEmpty(f) == f.head = f.tail

\* The state _fifo_put(fifo, c) leaves.
fifo_put(f, c) ==
    IF FifoFull(f)
    THEN f
    ELSE [f EXCEPT !.buf = [@ EXCEPT ![f.head] = c], !.head = Advance(f.head)]

\* One _fifo_put after the other, for the bytes of s.
FifoPutAll(f, s) ==
    LET put[n \in 0 .. Len(s)] == IF n = 0 THEN f ELSE fifo_put(put[n - 1], s[n])
    IN  put[Len(s)]

\* Mutant of FifoFront: the byte is read after the index has moved on.
FifoFrontLate(f) == f.buf[Advance(f.tail)]

\* The byte _fifo_get stores through pc when the fifo is not empty.
FifoFront(f) == f.buf[f.tail]

\* The state _fifo_get leaves.
fifo_get(f) ==
    IF FifoEmpty(f) THEN f ELSE [f EXCEPT !.tail = Advance(f.tail)]

fifo_avail(f) == (SERIAL_FIFO_SIZE + f.head - f.tail) % SERIAL_FIFO_SIZE

fifo_free(f) == SERIAL_FIFO_SIZE - 1 - fifo_avail(f)

\* The bytes the ring holds, oldest first: what the functions mean together.
Contents(f) ==
    [i \in 1 .. fifo_avail(f) |-> f.buf[(f.tail + i - 1) % SERIAL_FIFO_SIZE]]

=============================================================================
