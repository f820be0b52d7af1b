---------------------------- MODULE UsbSerialProofs ---------------------------
(***************************************************************************)
(* What is proved of the USB port, for every ring size, packet size, byte  *)
(* set and bound: types, the assertion of fifo_put, room for every packet  *)
(* BulkIn sends, and the refinement of both byte queues.                   *)
(*                                                                         *)
(* The inductive invariant is UsbInv: besides the types, the OUT packets   *)
(* are never empty nor longer than MAX_PACKET_SIZE, abBulkBuf holds bytes  *)
(* only between BulkIn and USBHwEPWrite, and the byte VCOM_getchar has     *)
(* copied is still the one at the tail of the ring (GetHolds). PutHolds    *)
(* says the like of the byte VCOM_putchar is storing: it is true as long   *)
(* as no interrupt prints. InBudget counts the packets BulkIn may still    *)
(* write; it needs the endpoint to be double buffered.                     *)
(*                                                                         *)
(* The loops of the model are recursive functions. A predicate on the      *)
(* functions that satisfy the recursion is shown to hold of one of them    *)
(* (Loop of ProofLemmas), which then is the one CHOSEn; what the loop      *)
(* computes follows by induction over a set of numbers (SetInduction).     *)
(***************************************************************************)
EXTENDS UsbSerial, ProofLemmas

-----------------------------------------------------------------------------
(* The ring.                                                               *)

Fifo == FifoType(AnyByte)

\* Remainders in this ring.
LEMMA FifoWrap ==
    \A a \in 0 .. 2 * SERIAL_FIFO_SIZE - 1 :
        a % SERIAL_FIFO_SIZE = IF a < SERIAL_FIFO_SIZE THEN a ELSE a - SERIAL_FIFO_SIZE
<1>1. SERIAL_FIFO_SIZE \in Nat /\ SERIAL_FIFO_SIZE > 0
  BY FifoSizeAssumption
<1> QED BY <1>1, Wrap

\* The number of bytes in a ring, without the remainder.
LEMMA AvailIs ==
    ASSUME NEW f \in Fifo
    PROVE  /\ fifo_avail(f) = IF f.tail <= f.head THEN f.head - f.tail
                              ELSE SERIAL_FIFO_SIZE + f.head - f.tail
           /\ fifo_avail(f) \in Index
           /\ fifo_avail(f) = 0 <=> FifoEmpty(f)
<1>1. f.head \in Index /\ f.tail \in Index
  BY DEF Fifo, FifoType
<1>2. fifo_avail(f) = IF f.tail <= f.head THEN f.head - f.tail
                      ELSE SERIAL_FIFO_SIZE + f.head - f.tail
  <2> DEFINE a == SERIAL_FIFO_SIZE + f.head - f.tail
  <2>1. a \in 0 .. 2 * SERIAL_FIFO_SIZE - 1
    BY <1>1, FifoSizeAssumption DEF Index
  <2>2. fifo_avail(f) = a % SERIAL_FIFO_SIZE
    BY DEF fifo_avail
  <2> HIDE DEF a
  <2>3. fifo_avail(f) = IF a < SERIAL_FIFO_SIZE THEN a ELSE a - SERIAL_FIFO_SIZE
    BY <2>1, <2>2, FifoWrap
  <2> QED BY <1>1, <2>3, FifoSizeAssumption DEF a, Index
<1> QED BY <1>1, <1>2, FifoSizeAssumption DEF Index, FifoEmpty

\* The next index, without the remainder.
LEMMA AdvanceIs ==
    ASSUME NEW i \in Index
    PROVE  /\ Advance(i) = IF i = SERIAL_FIFO_SIZE - 1 THEN 0 ELSE i + 1
           /\ Advance(i) \in Index
<1>1. Advance(i) = IF i + 1 < SERIAL_FIFO_SIZE THEN i + 1 ELSE i + 1 - SERIAL_FIFO_SIZE
  BY FifoSizeAssumption, FifoWrap DEF Advance, Index
<1> QED BY <1>1, FifoSizeAssumption DEF Index

\* A ring holds one byte less than it has slots, and is full exactly then.
LEMMA FullIs ==
    ASSUME NEW f \in Fifo
    PROVE  FifoFull(f) <=> fifo_avail(f) = SERIAL_FIFO_SIZE - 1
<1>1. f.head \in Index /\ f.tail \in Index
  BY DEF Fifo, FifoType
<1> QED BY <1>1, AvailIs, AdvanceIs, FifoSizeAssumption DEF FifoFull, Index

\* The bytes of a ring are a sequence as long as fifo_avail says.
LEMMA ContentsIs ==
    ASSUME NEW f \in Fifo
    PROVE  /\ Contents(f) \in Seq(AnyByte)
           /\ Len(Contents(f)) = fifo_avail(f)
           /\ \A i \in 1 .. fifo_avail(f) :
                  Contents(f)[i] = f.buf[IF f.tail + i - 1 < SERIAL_FIFO_SIZE THEN f.tail + i - 1
                                         ELSE f.tail + i - 1 - SERIAL_FIFO_SIZE]
<1> DEFINE n == fifo_avail(f)
           at(i) == (f.tail + i - 1) % SERIAL_FIFO_SIZE
<1>1. f.head \in Index /\ f.tail \in Index /\ f.buf \in [Index -> AnyByte]
  BY DEF Fifo, FifoType
<1>2. n \in Nat /\ n < SERIAL_FIFO_SIZE
  BY AvailIs, FifoSizeAssumption DEF Index
<1>3. ASSUME NEW i \in 1 .. n
      PROVE  /\ at(i) = IF f.tail + i - 1 < SERIAL_FIFO_SIZE THEN f.tail + i - 1
                        ELSE f.tail + i - 1 - SERIAL_FIFO_SIZE
             /\ at(i) \in Index
  <2> DEFINE a == f.tail + i - 1
  <2>1. a \in 0 .. 2 * SERIAL_FIFO_SIZE - 1
    BY <1>1, <1>2, <1>3, FifoSizeAssumption DEF Index
  <2>2. at(i) = a % SERIAL_FIFO_SIZE
    OBVIOUS
  <2> HIDE DEF a, at
  <2>3. at(i) = IF a < SERIAL_FIFO_SIZE THEN a ELSE a - SERIAL_FIFO_SIZE
    BY <2>1, <2>2, FifoWrap
  <2>4. at(i) \in Index
    BY <2>1, <2>3, FifoSizeAssumption DEF Index
  <2> QED BY <1>1, <2>3, <2>4, FifoSizeAssumption DEF a, Index
<1>4. Contents(f) = [i \in 1 .. n |-> f.buf[at(i)]]
  BY DEF Contents
<1> HIDE DEF n, at
<1>5. Contents(f) \in [1 .. n -> AnyByte]
  BY <1>1, <1>3, <1>4
<1>6. Contents(f) \in Seq(AnyByte) /\ Len(Contents(f)) = n
  BY <1>2, <1>5
<1>7. \A i \in 1 .. n : Contents(f)[i] = f.buf[at(i)]
  BY <1>4
<1> QED BY <1>3, <1>6, <1>7 DEF n

\* Sequences of bytes that agree in length and in every place are equal.
LEMMA SameBytes ==
    ASSUME NEW s \in Seq(AnyByte), NEW t \in Seq(AnyByte), Len(s) = Len(t),
           \A i \in 1 .. Len(s) : s[i] = t[i]
    PROVE  s = t
BY SameSeq

\* Concatenation of sequences of bytes.
LEMMA ConcatBytes ==
    ASSUME NEW a \in Seq(AnyByte), NEW b \in Seq(AnyByte), NEW u \in Seq(AnyByte)
    PROVE  (a \o b) \o u = a \o (b \o u)
OBVIOUS

\* It gives a sequence of bytes.
LEMMA ConcatType2 ==
    ASSUME NEW a \in Seq(AnyByte), NEW b \in Seq(AnyByte) PROVE a \o b \in Seq(AnyByte)
OBVIOUS

\* One more byte of s after the first n - 1.
LEMMA AppendNext ==
    ASSUME NEW a \in Seq(AnyByte), NEW s \in Seq(AnyByte), NEW n \in 1 .. Len(s)
    PROVE  Append(a \o SubSeq(s, 1, n - 1), s[n]) = a \o SubSeq(s, 1, n)
<1> DEFINE b == SubSeq(s, 1, n - 1)
<1>1. /\ b \in Seq(AnyByte) /\ s[n] \in AnyByte /\ <<s[n]>> \in Seq(AnyByte)
      /\ 1 \in 1 .. Len(s) /\ n \in 1 .. Len(s)
  OBVIOUS
<1>2. SubSeq(s, 1, n) = b \o <<s[n]>>
  BY <1>1, SubSeqRecursiveSecond
<1> HIDE DEF b
<1>3. a \o b \in Seq(AnyByte)
  BY <1>1
<1>4. Append(a \o b, s[n]) = (a \o b) \o <<s[n]>>
  BY <1>1, <1>3, AppendIsConcat
<1>5. (a \o b) \o <<s[n]>> = a \o (b \o <<s[n]>>)
  BY <1>1, ConcatBytes
<1> QED BY <1>2, <1>4, <1>5 DEF b

\* _fifo_put with room: the ring stays a ring and its bytes get one more.
LEMMA PutOK ==
    ASSUME NEW f \in Fifo, NEW c \in AnyByte, ~FifoFull(f)
    PROVE  /\ fifo_put(f, c) \in Fifo
           /\ fifo_put(f, c).tail = f.tail
           /\ fifo_avail(fifo_put(f, c)) = fifo_avail(f) + 1
           /\ Contents(fifo_put(f, c)) = Append(Contents(f), c)
<1> DEFINE g == [f EXCEPT !.buf = [@ EXCEPT ![f.head] = c], !.head = Advance(f.head)]
<1>0. fifo_put(f, c) = g
  BY DEF fifo_put
<1>1. f.head \in Index /\ f.tail \in Index /\ f.buf \in [Index -> AnyByte]
  BY DEF Fifo, FifoType
<1>2. /\ g.head = Advance(f.head) /\ g.tail = f.tail
      /\ g.buf = [f.buf EXCEPT ![f.head] = c] /\ g \in Fifo
  BY <1>1, AdvanceIs DEF Fifo, FifoType
<1> HIDE DEF g
<1>3. fifo_avail(f) < SERIAL_FIFO_SIZE - 1
  BY AvailIs, FullIs, FifoSizeAssumption DEF Index
<1>4. fifo_avail(g) = fifo_avail(f) + 1
  <2>1. /\ fifo_avail(f) = IF f.tail <= f.head THEN f.head - f.tail
                           ELSE SERIAL_FIFO_SIZE + f.head - f.tail
        /\ fifo_avail(g) = IF g.tail <= g.head THEN g.head - g.tail
                           ELSE SERIAL_FIFO_SIZE + g.head - g.tail
        /\ Advance(f.head) = IF f.head = SERIAL_FIFO_SIZE - 1 THEN 0 ELSE f.head + 1
    BY <1>1, <1>2, AvailIs, AdvanceIs
  <2> QED BY <1>1, <1>2, <1>3, <2>1, FifoSizeAssumption DEF Index
<1> DEFINE s == Contents(g)
           t == Append(Contents(f), c)
<1>5. /\ Contents(f) \in Seq(AnyByte) /\ Len(Contents(f)) = fifo_avail(f)
      /\ s \in Seq(AnyByte) /\ Len(s) = fifo_avail(f) + 1
  BY <1>2, <1>4, ContentsIs
<1>6. /\ t \in Seq(AnyByte) /\ Len(t) = fifo_avail(f) + 1
      /\ \A i \in 1 .. fifo_avail(f) : t[i] = Contents(f)[i]
      /\ t[fifo_avail(f) + 1] = c
  BY <1>5
<1>7. ASSUME NEW i \in 1 .. fifo_avail(f) + 1 PROVE s[i] = t[i]
  <2> DEFINE at == IF f.tail + i - 1 < SERIAL_FIFO_SIZE THEN f.tail + i - 1
                   ELSE f.tail + i - 1 - SERIAL_FIFO_SIZE
  <2>0. i \in 1 .. fifo_avail(g) /\ g.tail = f.tail
    BY <1>2, <1>4
  <2>1. s[i] = g.buf[at]
    <3>1. g \in Fifo
      BY <1>2
    <3>2. \A j \in 1 .. fifo_avail(g) :
              s[j] = g.buf[IF g.tail + j - 1 < SERIAL_FIFO_SIZE THEN g.tail + j - 1
                           ELSE g.tail + j - 1 - SERIAL_FIFO_SIZE]
      BY <3>1, ContentsIs
    <3> QED BY <2>0, <3>2, Zenon
  <2> DEFINE n == SERIAL_FIFO_SIZE
             k == fifo_avail(f)
             h == f.head
             u == f.tail
  <2>a. /\ n \in Nat /\ n > 1 /\ h \in 0 .. n - 1 /\ u \in 0 .. n - 1
        /\ k = (IF u <= h THEN h - u ELSE n + h - u) /\ i \in 1 .. k + 1
        /\ at = (IF u + i - 1 < n THEN u + i - 1 ELSE u + i - 1 - n)
    BY <1>1, <1>7, AvailIs, FifoSizeAssumption DEF Index
  <2>b. k \in Nat
    BY <2>a
  <2> HIDE DEF at, n, k, h, u
  <2>c. at \in 0 .. n - 1 /\ (at = h <=> i = k + 1)
    BY <2>a, RingSlot
  <2>2. fifo_avail(f) \in Nat /\ at \in Index
    BY <2>b, <2>c DEF k, n, Index
  <2>3. at = f.head <=> i = fifo_avail(f) + 1
    BY <2>c DEF k, h
  <2>4. CASE i = fifo_avail(f) + 1
    BY <1>1, <1>2, <1>6, <2>1, <2>2, <2>3, <2>4
  <2>5. CASE i # fifo_avail(f) + 1
    <3>1. i \in 1 .. fifo_avail(f)
      BY <1>7, <2>2, <2>5
    <3>2. t[i] = f.buf[at]
      BY <1>6, <3>1, ContentsIs DEF at
    <3> QED BY <1>1, <1>2, <2>1, <2>2, <2>3, <2>5, <3>2
  <2> QED BY <2>4, <2>5
<1>8. s = t
  <2> HIDE DEF s, t
  <2> QED BY <1>5, <1>6, <1>7, SameBytes
<1> QED BY <1>0, <1>2, <1>4, <1>8

\* Taking the n oldest bytes out leaves the others.
LEMMA TakeOK ==
    ASSUME NEW f \in Fifo, NEW n \in 0 .. fifo_avail(f), NEW g \in Fifo,
           g.head = f.head, g.buf = f.buf,
           g.tail = IF f.tail + n < SERIAL_FIFO_SIZE THEN f.tail + n
                    ELSE f.tail + n - SERIAL_FIFO_SIZE
    PROVE  /\ fifo_avail(g) = fifo_avail(f) - n
           /\ Contents(g) = SubSeq(Contents(f), n + 1, fifo_avail(f))
<1>1. f.head \in Index /\ f.tail \in Index /\ f.buf \in [Index -> AnyByte]
  BY DEF Fifo, FifoType
<1>2. fifo_avail(f) \in Nat /\ fifo_avail(f) < SERIAL_FIFO_SIZE
  BY AvailIs, FifoSizeAssumption DEF Index
<1>3. fifo_avail(g) = fifo_avail(f) - n
  <2>1. /\ fifo_avail(f) = IF f.tail <= f.head THEN f.head - f.tail
                           ELSE SERIAL_FIFO_SIZE + f.head - f.tail
        /\ fifo_avail(g) = IF g.tail <= f.head THEN f.head - g.tail
                           ELSE SERIAL_FIFO_SIZE + f.head - g.tail
    BY AvailIs
  <2> DEFINE size == SERIAL_FIFO_SIZE
             h == f.head
             t == f.tail
             u == g.tail
  <2>2. size \in Nat /\ size > 1 /\ h \in 0 .. size - 1 /\ t \in 0 .. size - 1
    BY <1>1, FifoSizeAssumption DEF Index
  <2>3. /\ fifo_avail(f) = IF t <= h THEN h - t ELSE size + h - t
        /\ fifo_avail(g) = IF u <= h THEN h - u ELSE size + h - u
        /\ u = IF t + n < size THEN t + n ELSE t + n - size
    BY <2>1
  <2> HIDE DEF size, h, t, u
  <2> QED BY <2>2, <2>3, RingTake
<1> DEFINE m == fifo_avail(f)
           c == Contents(f)
           s == Contents(g)
           t == SubSeq(c, n + 1, m)
<1>4. /\ c \in Seq(AnyByte) /\ Len(c) = m /\ s \in Seq(AnyByte) /\ Len(s) = m - n
  BY <1>3, ContentsIs
<1>5. /\ t \in Seq(AnyByte) /\ Len(t) = m - n
      /\ \A i \in 1 .. m - n : t[i] = c[n + i]
  <2> HIDE DEF m, c
  <2>1. m \in Nat /\ n \in 0 .. m
    BY <1>2 DEF m
  <2> QED BY <1>4, <2>1
<1>6. ASSUME NEW i \in 1 .. m - n PROVE s[i] = t[i]
  <2>1. n + i \in 1 .. m /\ i \in 1 .. fifo_avail(g)
    BY <1>2, <1>3, <1>6
  <2>2. t[i] = f.buf[IF f.tail + (n + i) - 1 < SERIAL_FIFO_SIZE THEN f.tail + (n + i) - 1
                     ELSE f.tail + (n + i) - 1 - SERIAL_FIFO_SIZE]
    BY <1>5, <2>1, ContentsIs
  <2>3. s[i] = f.buf[IF g.tail + i - 1 < SERIAL_FIFO_SIZE THEN g.tail + i - 1
                     ELSE g.tail + i - 1 - SERIAL_FIFO_SIZE]
    BY <2>1, ContentsIs
  <2>4. (IF f.tail + (n + i) - 1 < SERIAL_FIFO_SIZE THEN f.tail + (n + i) - 1
                     ELSE f.tail + (n + i) - 1 - SERIAL_FIFO_SIZE)
        = (IF g.tail + i - 1 < SERIAL_FIFO_SIZE THEN g.tail + i - 1
                     ELSE g.tail + i - 1 - SERIAL_FIFO_SIZE)
    <3>1. i \in Nat /\ n \in Nat /\ n + i < SERIAL_FIFO_SIZE /\ i > 0
      BY <1>2, <2>1, FifoSizeAssumption
    <3>2. f.tail \in 0 .. SERIAL_FIFO_SIZE - 1
      BY <1>1 DEF Index
    <3>3. CASE f.tail + n < SERIAL_FIFO_SIZE
      BY <3>1, <3>2, <3>3, FifoSizeAssumption
    <3>4. CASE ~(f.tail + n < SERIAL_FIFO_SIZE)
      BY <3>1, <3>2, <3>4, FifoSizeAssumption
    <3> QED BY <3>3, <3>4
  <2> QED BY <2>2, <2>3, <2>4
<1>7. s = t
  <2> HIDE DEF m, c, s, t
  <2> QED BY <1>4, <1>5, <1>6, SameBytes
<1> QED BY <1>3, <1>7

-----------------------------------------------------------------------------
(* The loops over packets.                                                 *)

\* _fifo_put keeps a ring a ring.
LEMMA FifoPutType == ASSUME NEW f \in Fifo, NEW c \in AnyByte PROVE fifo_put(f, c) \in Fifo
<1>1. CASE FifoFull(f)
  BY <1>1 DEF fifo_put
<1>2. CASE ~FifoFull(f)
  BY <1>2, PutOK
<1> QED BY <1>1, <1>2

\* The values of the loop of FifoPutAll.
LEMMA PutAllLoop ==
    ASSUME NEW f \in Fifo, NEW s \in Seq(AnyByte)
    PROVE  \E h \in [0 .. Len(s) -> Fifo] :
               /\ h[0] = f
               /\ \A n \in 1 .. Len(s) : h[n] = fifo_put(h[n - 1], s[n])
               /\ FifoPutAll(f, s) = h[Len(s)]
<1> DEFINE m == Len(s)
           P(h) == h = [n \in 0 .. m |-> IF n = 0 THEN f ELSE fifo_put(h[n - 1], s[n])]
           g == [n \in 1 .. m |-> [y \in Fifo |-> fifo_put(y, s[n])]]
<1>1. m \in Nat /\ \A n \in 1 .. m : s[n] \in AnyByte
  OBVIOUS
<1>2. g \in [1 .. m -> [Fifo -> Fifo]]
  BY <1>1, FifoPutType
<1> DEFINE h == Loop(m, Fifo, f, g)
<1>3. h \in [0 .. m -> Fifo] /\ h[0] = f /\ \A n \in 1 .. m : h[n] = g[n][h[n - 1]]
  <2> HIDE DEF m, g
  <2> QED BY <1>1, <1>2, LoopValues
<1> HIDE DEF h
<1>4. ASSUME NEW n \in 1 .. m PROVE h[n] = fifo_put(h[n - 1], s[n])
  <2>1. n - 1 \in 0 .. m
    BY <1>1
  <2>2. h[n - 1] \in Fifo
    BY <1>3, <2>1
  <2>3. h[n] = g[n][h[n - 1]]
    BY <1>3
  <2> QED BY <2>2, <2>3
<1>5. P(h)
  BY <1>1, <1>3, <1>4
<1> DEFINE k == CHOOSE x : P(x)
<1>6. P(k)
  BY <1>5
<1>7. FifoPutAll(f, s) = k[m]
  BY DEF FifoPutAll
<1> HIDE DEF k
<1>8. \A n \in 1 .. m : k[n] = fifo_put(k[n - 1], s[n])
  BY <1>1, <1>6
<1>9. k[0] = f /\ DOMAIN k = 0 .. m
  BY <1>1, <1>6
<1>10. \A n \in 0 .. m : k[n] \in Fifo
  <2> DEFINE T == {n \in 0 .. m : k[n] \in Fifo}
  <2>1. 0 \in T
    BY <1>1, <1>9
  <2>2. ASSUME NEW n \in 1 .. m, n - 1 \in T PROVE n \in T
    BY <1>1, <1>8, <2>2, FifoPutType
  <2>3. 0 .. m \subseteq T
    <3> HIDE DEF T, m
    <3> QED BY <1>1, <2>1, <2>2, SetInduction
  <2> QED BY <2>3
<1>11. k \in [0 .. m -> Fifo]
  BY <1>6, <1>10
<1> QED BY <1>7, <1>8, <1>9, <1>11

\* With room for all of s, the bytes of the ring are followed by those of s.
LEMMA PutAllOK ==
    ASSUME NEW f \in Fifo, NEW s \in Seq(AnyByte), Len(s) <= fifo_free(f)
    PROVE  /\ FifoPutAll(f, s) \in Fifo
           /\ FifoPutAll(f, s).tail = f.tail
           /\ fifo_avail(FifoPutAll(f, s)) = fifo_avail(f) + Len(s)
           /\ Contents(FifoPutAll(f, s)) = Contents(f) \o s
<1> DEFINE m == Len(s)
<1>1. PICK h \in [0 .. m -> Fifo] :
               /\ h[0] = f
               /\ \A n \in 1 .. m : h[n] = fifo_put(h[n - 1], s[n])
               /\ FifoPutAll(f, s) = h[m]
  BY PutAllLoop
<1>2. m \in Nat /\ fifo_avail(f) \in Nat /\ fifo_avail(f) + m <= SERIAL_FIFO_SIZE - 1
  BY AvailIs, FifoSizeAssumption DEF fifo_free, Index
<1> DEFINE T == {n \in 0 .. m : /\ h[n].tail = f.tail
                                /\ fifo_avail(h[n]) = fifo_avail(f) + n
                                /\ Contents(h[n]) = Contents(f) \o SubSeq(s, 1, n)}
<1>3. Contents(f) \in Seq(AnyByte)
  BY ContentsIs
<1>4. 0 \in T
  BY <1>1, <1>2, <1>3
<1>5. ASSUME NEW n \in 1 .. m, n - 1 \in T PROVE n \in T
  <2> DEFINE x == h[n - 1]
             c == s[n]
  <2>1. x \in Fifo /\ c \in AnyByte /\ h[n] = fifo_put(x, c)
    BY <1>1, <1>2
  <2>2. x.tail = f.tail /\ fifo_avail(x) = fifo_avail(f) + (n - 1)
        /\ Contents(x) = Contents(f) \o SubSeq(s, 1, n - 1)
    BY <1>5
  <2> HIDE DEF x
  <2>3. ~FifoFull(x)
    BY <1>2, <2>1, <2>2, FullIs, FifoSizeAssumption
  <2>4. /\ h[n].tail = f.tail
        /\ fifo_avail(h[n]) = fifo_avail(f) + n
        /\ Contents(h[n]) = Append(Contents(f) \o SubSeq(s, 1, n - 1), c)
    <3>1. /\ fifo_put(x, c).tail = x.tail
          /\ fifo_avail(fifo_put(x, c)) = fifo_avail(x) + 1
          /\ Contents(fifo_put(x, c)) = Append(Contents(x), c)
      BY <2>1, <2>3, PutOK
    <3>2. fifo_avail(f) + (n - 1) + 1 = fifo_avail(f) + n
      BY <1>2
    <3> HIDE DEF c
    <3> QED BY <2>1, <2>2, <3>1, <3>2
  <2>5. Append(Contents(f) \o SubSeq(s, 1, n - 1), c) = Contents(f) \o SubSeq(s, 1, n)
    BY <1>2, <1>3, AppendNext
  <2>6. n \in 0 .. m
    OBVIOUS
  <2> QED BY <2>4, <2>5, <2>6
<1>6. 0 .. m \subseteq T
  <2> HIDE DEF T, m
  <2> QED BY <1>2, <1>4, <1>5, SetInduction
<1>7. m \in T /\ SubSeq(s, 1, m) = s
  BY <1>2, <1>6
<1> QED BY <1>1, <1>7

\* <<UART_LINE_LEN, LINE_READY>>
LineType == Nat \X BOOLEAN

\* One byte keeps the line's length a number and its flag a flag.
LEMMA LineCharType == ASSUME NEW ln \in LineType, NEW c PROVE LineChar(ln, c) \in LineType
<1>1. ln[1] \in Nat /\ ln[2] \in BOOLEAN
  BY DEF LineType
<1>2. <<0, TRUE>> \in LineType /\ <<ln[1] + 1, ln[2]>> \in LineType
  <2>1. \A a \in Nat, b \in BOOLEAN : <<a, b>> \in LineType
    BY DEF LineType
  <2>2. 0 \in Nat /\ TRUE \in BOOLEAN /\ ln[1] + 1 \in Nat
    BY <1>1
  <2> QED BY <1>1, <2>1, <2>2
<1>3. CASE c = CR
  BY <1>2, <1>3 DEF LineChar
<1>4. CASE c # CR
  BY <1>2, <1>4 DEF LineChar
<1> QED BY <1>3, <1>4

\* The values of the loop of LineChars.
LEMMA LineLoop ==
    ASSUME NEW ln \in LineType, NEW s \in Seq(AnyByte)
    PROVE  \E h \in [0 .. Len(s) -> LineType] :
               /\ h[0] = ln
               /\ \A n \in 1 .. Len(s) : h[n] = LineChar(h[n - 1], s[n])
               /\ LineChars(ln, s) = h[Len(s)]
<1> DEFINE m == Len(s)
           P(h) == h = [n \in 0 .. m |-> IF n = 0 THEN ln ELSE LineChar(h[n - 1], s[n])]
           g == [n \in 1 .. m |-> [y \in LineType |-> LineChar(y, s[n])]]
<1>1. m \in Nat /\ \A n \in 1 .. m : s[n] \in AnyByte
  OBVIOUS
<1>2. ln \in LineType /\ g \in [1 .. m -> [LineType -> LineType]]
  BY <1>1, LineCharType
<1> DEFINE h == Loop(m, LineType, ln, g)
<1>3. h \in [0 .. m -> LineType] /\ h[0] = ln /\ \A n \in 1 .. m : h[n] = g[n][h[n - 1]]
  <2> HIDE DEF m, g
  <2> QED BY <1>1, <1>2, LoopValues
<1> HIDE DEF h
<1>4. ASSUME NEW n \in 1 .. m PROVE h[n] = LineChar(h[n - 1], s[n])
  <2>1. n - 1 \in 0 .. m
    BY <1>1
  <2>2. h[n - 1] \in LineType
    BY <1>3, <2>1
  <2>3. h[n] = g[n][h[n - 1]]
    BY <1>3
  <2> QED BY <2>2, <2>3
<1>5. P(h)
  BY <1>1, <1>3, <1>4
<1> DEFINE k == CHOOSE z : P(z)
<1>6. P(k)
  BY <1>5
<1>7. LineChars(ln, s) = k[m]
  BY DEF LineChars
<1> HIDE DEF k
<1>8. \A n \in 1 .. m : k[n] = LineChar(k[n - 1], s[n])
  BY <1>1, <1>6
<1>9. k[0] = ln /\ DOMAIN k = 0 .. m
  BY <1>1, <1>6
<1>10. \A n \in 0 .. m : k[n] \in LineType
  <2> DEFINE Q == {n \in 0 .. m : k[n] \in LineType}
  <2>1. 0 \in Q
    BY <1>1, <1>2, <1>9
  <2>2. ASSUME NEW n \in 1 .. m, n - 1 \in Q PROVE n \in Q
    BY <1>1, <1>8, <2>2, LineCharType
  <2>3. 0 .. m \subseteq Q
    <3> HIDE DEF Q, m
    <3> QED BY <1>1, <2>1, <2>2, SetInduction
  <2> QED BY <2>3
<1>11. k \in [0 .. m -> LineType]
  BY <1>6, <1>10
<1> QED BY <1>7, <1>8, <1>9, <1>11

\* So do the bytes of a packet.
LEMMA LineCharsType ==
    ASSUME NEW ln \in LineType, NEW s \in Seq(AnyByte)
    PROVE  LineChars(ln, s)[1] \in Nat /\ LineChars(ln, s)[2] \in BOOLEAN
<1>1. Len(s) \in 0 .. Len(s)
  OBVIOUS
<1>2. LineChars(ln, s) \in LineType
  BY <1>1, LineLoop
<1> QED BY <1>2 DEF LineType

\* Sequences of bytes and the empty one, for steps in which nothing more needs
\* to be known of them than CatFacts says.
Bytes == Seq(AnyByte)
NoBytes == <<>>

\* Concatenation is associative and the empty sequence is neutral.
LEMMA CatFacts ==
    /\ NoBytes \in Bytes
    /\ \A a, b \in Bytes : Cat(a, b) \in Bytes
    /\ \A a \in Bytes : Cat(NoBytes, a) = a /\ Cat(a, NoBytes) = a
    /\ \A a, b, c \in Bytes : Cat(Cat(a, b), c) = Cat(a, Cat(b, c))
<1>1. \A a, b, c \in Bytes : Cat(Cat(a, b), c) = Cat(a, Cat(b, c))
  BY ConcatBytes DEF Bytes, Cat
<1> QED BY <1>1 DEF Bytes, NoBytes, Cat

\* The values of the loop of Flatten.
LEMMA FlatLoop ==
    ASSUME NEW ps \in Seq(Bytes)
    PROVE  \E h \in [0 .. Len(ps) -> Bytes] :
               /\ h[0] = NoBytes
               /\ \A n \in 1 .. Len(ps) : h[n] = Cat(h[n - 1], ps[n])
               /\ Flatten(ps) = h[Len(ps)]
<1> DEFINE m == Len(ps)
           P(h) == h = [n \in 0 .. m |-> IF n = 0 THEN NoBytes ELSE Cat(h[n - 1], ps[n])]
           g == [n \in 1 .. m |-> [y \in Bytes |-> Cat(y, ps[n])]]
<1>1. m \in Nat /\ \A n \in 1 .. m : ps[n] \in Bytes
  OBVIOUS
<1>2. NoBytes \in Bytes /\ g \in [1 .. m -> [Bytes -> Bytes]]
  BY <1>1, CatFacts
<1> DEFINE h == Loop(m, Bytes, NoBytes, g)
<1>3. h \in [0 .. m -> Bytes] /\ h[0] = NoBytes /\ \A n \in 1 .. m : h[n] = g[n][h[n - 1]]
  <2> HIDE DEF m, g
  <2> QED BY <1>1, <1>2, LoopValues
<1> HIDE DEF h
<1>4. ASSUME NEW n \in 1 .. m PROVE h[n] = Cat(h[n - 1], ps[n])
  <2>1. n - 1 \in 0 .. m
    BY <1>1
  <2>2. h[n - 1] \in Bytes
    BY <1>3, <2>1
  <2>3. h[n] = g[n][h[n - 1]]
    BY <1>3
  <2> QED BY <2>2, <2>3
<1>5. P(h)
  BY <1>1, <1>3, <1>4
<1> DEFINE k == CHOOSE z : P(z)
<1>6. P(k)
  BY <1>5
<1>7. Flatten(ps) = k[m]
  BY DEF Flatten, Cat, NoBytes
<1> HIDE DEF k
<1>8. \A n \in 1 .. m : k[n] = Cat(k[n - 1], ps[n])
  BY <1>1, <1>6
<1>9. k[0] = NoBytes /\ DOMAIN k = 0 .. m
  BY <1>1, <1>6
<1>10. \A n \in 0 .. m : k[n] \in Bytes
  <2> DEFINE Q == {n \in 0 .. m : k[n] \in Bytes}
  <2>1. 0 \in Q
    BY <1>1, <1>2, <1>9
  <2>2. ASSUME NEW n \in 1 .. m, n - 1 \in Q PROVE n \in Q
    <3>1. n \in 0 .. m /\ k[n - 1] \in Bytes /\ ps[n] \in Bytes
      BY <1>1, <2>2
    <3>2. k[n] \in Bytes
      <4>1. Cat(k[n - 1], ps[n]) \in Bytes
        BY <3>1, CatFacts, Zenon
      <4> QED BY <1>8, <4>1, Zenon
    <3> QED BY <3>1, <3>2
  <2>3. 0 .. m \subseteq Q
    <3> HIDE DEF Q, m
    <3> QED BY <1>1, <2>1, <2>2, SetInduction
  <2> QED BY <2>3
<1>11. k \in [0 .. m -> Bytes]
  BY <1>6, <1>10
<1> QED BY <1>7, <1>8, <1>9, <1>11

\* No packets, no bytes.
LEMMA FlatEmpty == Flatten(<<>>) = NoBytes
<1> DEFINE e == <<>>
<1>1. e \in Seq(Bytes) /\ Len(e) = 0
  OBVIOUS
<1> HIDE DEF e
<1>2. Flatten(e) = NoBytes
  BY <1>1, FlatLoop
<1> QED BY <1>2 DEF e

\* The bytes of a sequence of packets are a sequence of bytes.
LEMMA FlatType == ASSUME NEW ps \in Seq(Bytes) PROVE Flatten(ps) \in Bytes
<1>1. Len(ps) \in 0 .. Len(ps)
  OBVIOUS
<1> QED BY <1>1, FlatLoop

\* A packet more, at the end.
LEMMA FlatAppend ==
    ASSUME NEW ps \in Seq(Bytes), NEW p \in Bytes
    PROVE  Flatten(Append(ps, p)) = Cat(Flatten(ps), p)
<1> DEFINE m == Len(ps)
           qs == Append(ps, p)
<1>1. /\ m \in Nat /\ qs \in Seq(Bytes) /\ Len(qs) = m + 1 /\ qs[m + 1] = p
      /\ \A n \in 1 .. m : qs[n] = ps[n]
  OBVIOUS
<1> HIDE DEF qs
<1>2. PICK h \in [0 .. m -> Bytes] :
               /\ h[0] = NoBytes
               /\ \A n \in 1 .. m : h[n] = Cat(h[n - 1], ps[n])
               /\ Flatten(ps) = h[m]
  BY FlatLoop
<1>3. PICK k \in [0 .. m + 1 -> Bytes] :
               /\ k[0] = NoBytes
               /\ \A n \in 1 .. m + 1 : k[n] = Cat(k[n - 1], qs[n])
               /\ Flatten(qs) = k[m + 1]
  BY <1>1, FlatLoop
<1> DEFINE Q == {n \in 0 .. m : k[n] = h[n]}
<1>4. 0 \in Q
  BY <1>1, <1>2, <1>3
<1>5. ASSUME NEW n \in 1 .. m, n - 1 \in Q PROVE n \in Q
  <2>1. k[n - 1] = h[n - 1] /\ n \in 1 .. m + 1 /\ n \in 0 .. m
    BY <1>1, <1>5
  <2>2. k[n] = h[n]
    BY <1>1, <1>2, <1>3, <2>1
  <2> QED BY <2>1, <2>2
<1>6. 0 .. m \subseteq Q
  <2> HIDE DEF Q, m
  <2> QED BY <1>1, <1>4, <1>5, SetInduction
<1>7. k[m] = h[m] /\ k[m + 1] = Cat(k[m], p)
  BY <1>1, <1>3, <1>6
<1> QED BY <1>2, <1>3, <1>7 DEF qs

\* The first packet and the others.
LEMMA FlatHead ==
    ASSUME NEW ps \in Seq(Bytes), ps # <<>>
    PROVE  Flatten(ps) = Cat(Head(ps), Flatten(Tail(ps)))
<1> DEFINE m == Len(Tail(ps))
           p == Head(ps)
           qs == Tail(ps)
<1>1. /\ m \in Nat /\ qs \in Seq(Bytes) /\ Len(ps) = m + 1
      /\ p \in Bytes /\ ps[1] = p
      /\ \A n \in 1 .. m : qs[n] = ps[n + 1]
  OBVIOUS
<1>2. PICK h \in [0 .. m + 1 -> Bytes] :
               /\ h[0] = NoBytes
               /\ \A n \in 1 .. m + 1 : h[n] = Cat(h[n - 1], ps[n])
               /\ Flatten(ps) = h[m + 1]
  BY <1>1, FlatLoop
<1>3. PICK k \in [0 .. m -> Bytes] :
               /\ k[0] = NoBytes
               /\ \A n \in 1 .. m : k[n] = Cat(k[n - 1], qs[n])
               /\ Flatten(qs) = k[m]
  BY <1>1, FlatLoop
<1> HIDE DEF m, p, qs
<1> DEFINE Q == {n \in 0 .. m : h[n + 1] = Cat(p, k[n])}
<1>4. 0 \in Q
  <2>1. h[1] = Cat(h[0], ps[1])
    BY <1>1, <1>2
  <2>2. Cat(NoBytes, p) = p /\ Cat(p, NoBytes) = p
    BY <1>1, CatFacts
  <2> QED BY <1>1, <1>2, <1>3, <2>1, <2>2
<1>5. ASSUME NEW n \in 1 .. m, n - 1 \in Q PROVE n \in Q
  <2>1. n \in 0 .. m /\ n + 1 \in 1 .. m + 1 /\ n - 1 \in 0 .. m
    BY <1>1, <1>5
  <2>2. h[n] = Cat(p, k[n - 1])
    BY <1>1, <1>5
  <2>3. h[n + 1] = Cat(h[n], ps[n + 1])
    BY <1>1, <1>2, <2>1
  <2>4. k[n] = Cat(k[n - 1], ps[n + 1])
    BY <1>1, <1>3
  <2>5. k[n - 1] \in Bytes /\ ps[n + 1] \in Bytes
    BY <1>1, <1>3, <2>1
  <2>6. Cat(Cat(p, k[n - 1]), ps[n + 1]) = Cat(p, Cat(k[n - 1], ps[n + 1]))
    BY <1>1, <2>5, CatFacts
  <2> QED BY <2>1, <2>2, <2>3, <2>4, <2>6
<1>6. 0 .. m \subseteq Q
  <2> HIDE DEF Q
  <2> QED BY <1>1, <1>4, <1>5, SetInduction
<1>7. h[m + 1] = Cat(p, k[m])
  BY <1>1, <1>6
<1> QED BY <1>2, <1>3, <1>7 DEF p, qs

-----------------------------------------------------------------------------
(* The inductive invariant.                                                *)

\* Every packet in the bulk-out endpoint has between 1 and MAX_PACKET_SIZE
\* bytes, and its interrupt is pending only while there is one.
OutPackets == epOut \in Seq(Packets) /\ ("OUT" \in epInt => epOut # <<>>)

\* abBulkBuf is in use only between BulkIn and USBHwEPWrite.
BulkBufUsed == isr # "write_in" => abBulkBuf = <<>>

\* What _fifo_get has read is still the oldest byte when it releases the slot.
GetHolds ==
    main = "get_store" =>
        oldIndex = rxfifo.tail /\ byteArg = FifoFront(rxfifo) /\ ~FifoEmpty(rxfifo)

\* What _fifo_put has tested still holds when it stores the byte.
PutHolds == main = "put_store" => oldIndex = txfifo.head /\ ~FifoFull(txfifo)

\* The inductive invariant.
UsbInv == TypeOK /\ OutPackets /\ NoOverflowAssert /\ BulkBufUsed /\ GetHolds

\* It does as long as no interrupt prints.
TxHolds == ~CanPrints => PutHolds

\* The buffers of the bulk-in endpoint that are occupied or spoken for: by a
\* pending interrupt and by the packet BulkIn is about to write.
InBudget ==
    Len(epIn) + (IF "IN" \in epInt THEN 1 ELSE 0) + (IF isr = "write_in" THEN 1 ELSE 0)
        <= EpBuffers

\* A packet is a sequence of at least one byte and at most MAX_PACKET_SIZE.
LEMMA PacketIs ==
    ASSUME NEW p \in Packets
    PROVE  p \in Seq(AnyByte) /\ Len(p) \in 1 .. MAX_PACKET_SIZE
<1>1. PICK n \in 1 .. MAX_PACKET_SIZE : p \in [1 .. n -> AnyByte]
  BY DEF Packets
<1>2. n \in Nat
  BY UsbAssumption
<1>3. p \in Seq(AnyByte) /\ Len(p) = n
  BY <1>1, <1>2
<1> QED BY <1>3

\* Sequences of packets are sequences of sequences of bytes.
LEMMA PacketSeq == ASSUME NEW ps \in Seq(Packets) PROVE ps \in Seq(Seq(AnyByte))
<1>1. Packets \subseteq Seq(AnyByte)
  BY PacketIs
<1> QED BY <1>1, SeqMonotonic

\* The contexts of the main loop.
LEMMA MainStepsAre ==
    /\ {"loop", "exec", "put_mask", "put_test", "put_store", "put_unmask"} \subseteq MainSteps
    /\ {"avail_mask", "avail_read", "avail_unmask", "flush_test"} \subseteq MainSteps
    /\ {"get_mask", "get_read", "get_store", "get_unmask"} \subseteq MainSteps
BY DEF MainSteps

\* The invariant holds at the start.
LEMMA UsbInit == Init => UsbInv /\ TxHolds /\ (EpBuffers > 1 => InBudget)
<1> SUFFICES ASSUME Init PROVE UsbInv /\ TxHolds /\ (EpBuffers > 1 => InBudget)
  OBVIOUS
<1>1. 0 \in Index /\ CR \in AnyByte
  BY FifoSizeAssumption DEF Index, AnyByte
<1>2. fifo_init([i \in Index |-> CR]) \in FifoType(AnyByte)
  BY <1>1 DEF fifo_init, FifoType
<1>3. txfifo \in FifoType(AnyByte) /\ rxfifo \in FifoType(AnyByte)
  BY <1>2 DEF Init
<1>4. <<>> \in Seq(Packets) /\ <<>> \in Seq(Seq(AnyByte)) /\ <<>> \in Seq(AnyByte)
  OBVIOUS
<1>5. /\ epIn \in Seq(Seq(AnyByte)) /\ epOut \in Seq(Seq(AnyByte)) /\ epOut \in Seq(Packets)
      /\ abBulkBuf \in Seq(AnyByte) /\ received \in Seq(AnyByte) /\ popped \in Seq(AnyByte)
  BY <1>4 DEF Init
<1>6. /\ irqOn \in BOOLEAN /\ nakBI \in BOOLEAN /\ epSlow \in BOOLEAN /\ frame \in BOOLEAN
      /\ asserted \in BOOLEAN /\ ~asserted /\ LINE_READY \in BOOLEAN
  BY DEF Init
<1>7. /\ epInt = {} /\ isr = "off" /\ isr \in IsrSteps /\ main = "loop" /\ main \in MainSteps
      /\ ctx = "loop" /\ byteArg \in AnyByte /\ oldIndex \in Index /\ UART_LINE_LEN \in Nat
      /\ abBulkBuf = <<>> /\ epIn = <<>>
  BY <1>1, MainStepsAre DEF Init, IsrSteps
<1>8. TypeOK
  BY <1>3, <1>5, <1>6, <1>7 DEF TypeOK
<1>9. OutPackets /\ NoOverflowAssert /\ BulkBufUsed /\ GetHolds /\ TxHolds
  BY <1>5, <1>6, <1>7 DEF OutPackets, NoOverflowAssert, BulkBufUsed, GetHolds, TxHolds, PutHolds
<1>10. EpBuffers > 1 => InBudget
  BY <1>7, UsbAssumption DEF InBudget
<1> QED BY <1>8, <1>9, <1>10 DEF UsbInv

\* Steps of the main loop that leave the rings alone.
LEMMA MainMoves ==
    ASSUME UsbInv,
           \/ \E c \in AnyByte : serial_writechar(c)
           \/ \E from, to \in MainSteps \ {"get_store", "put_store"} : Mask(from, to)
           \/ \E from, to \in MainSteps \ {"get_store", "put_store"} : Unmask(from, to)
           \/ PutTest \/ ExecBegin \/ AvailRead \/ FlushLoop \/ GetRead \/ ExecEnd
    PROVE  UsbInv'
<1> USE DEF UsbInv, TypeOK, fifoVars, hwVars, isrVars, mainVars, lineVars, histVars
<1>0. 0 \in Index /\ CR \in AnyByte /\ fifo_avail(rxfifo) \in Index
  <2>1. rxfifo \in Fifo
    BY DEF Fifo
  <2>2. fifo_avail(rxfifo) \in Index
    BY <2>1, AvailIs
  <2> QED BY <2>2, FifoSizeAssumption DEF Index, AnyByte
<1>1. rxfifo.tail \in Index /\ FifoFront(rxfifo) \in AnyByte /\ txfifo.head \in Index
  BY DEF FifoType, FifoFront
<1>2. /\ txfifo' = txfifo /\ rxfifo' = rxfifo /\ epOut' = epOut /\ epInt' = epInt
      /\ isr' = isr /\ abBulkBuf' = abBulkBuf /\ asserted' = asserted
      /\ epIn' = epIn /\ nakBI' = nakBI /\ epSlow' = epSlow /\ frame' = frame
      /\ UART_LINE_LEN' = UART_LINE_LEN /\ received' = received /\ popped' = popped
  BY DEF serial_writechar, Mask, Unmask, PutTest, ExecBegin, AvailRead, FlushLoop, GetRead, ExecEnd
<1>3. irqOn' \in BOOLEAN /\ LINE_READY' \in BOOLEAN
  BY DEF serial_writechar, Mask, Unmask, PutTest, ExecBegin, AvailRead, FlushLoop, GetRead, ExecEnd
<1>4. main' \in MainSteps /\ ctx' \in {"loop", "exec"}
  BY MainStepsAre
  DEF serial_writechar, Mask, Unmask, PutTest, ExecBegin, AvailRead, FlushLoop, GetRead, ExecEnd, Goto
<1>5. byteArg' \in AnyByte /\ oldIndex' \in Index
  BY <1>0, <1>1
  DEF serial_writechar, Mask, Unmask, PutTest, ExecBegin, AvailRead, FlushLoop, GetRead, ExecEnd,
      EndOfScope
<1>6. main' = "get_store" =>
          oldIndex' = rxfifo.tail /\ byteArg' = FifoFront(rxfifo) /\ ~FifoEmpty(rxfifo)
  BY DEF serial_writechar, Mask, Unmask, PutTest, ExecBegin, AvailRead, FlushLoop, GetRead, ExecEnd, Goto
<1>7. TypeOK'
  BY <1>2, <1>3, <1>4, <1>5
<1>8. GetHolds'
  BY <1>2, <1>6 DEF GetHolds, FifoFront, FifoEmpty
<1>9. OutPackets' /\ NoOverflowAssert' /\ BulkBufUsed'
  BY <1>2 DEF OutPackets, NoOverflowAssert, BulkBufUsed
<1> HIDE DEF TypeOK
<1> QED BY <1>7, <1>8, <1>9

\* _fifo_put stores the byte.
LEMMA PutStoreOK == ASSUME UsbInv, PutStore PROVE UsbInv'
<1> USE DEF UsbInv, TypeOK, fifoVars, hwVars, isrVars, mainVars, lineVars, histVars, PutStore, Goto
<1>1. 0 \in Index /\ CR \in AnyByte /\ Advance(oldIndex) \in Index
  BY FifoSizeAssumption, AdvanceIs DEF Index, AnyByte
<1>2. [txfifo.buf EXCEPT ![oldIndex] = byteArg] \in [Index -> AnyByte]
  BY DEF FifoType
<1>3. txfifo' \in FifoType(AnyByte)
  BY <1>1, <1>2 DEF FifoType
<1>4. TypeOK'
  BY <1>1, <1>3, MainStepsAre DEF EndOfScope
<1>5. GetHolds' /\ OutPackets' /\ NoOverflowAssert' /\ BulkBufUsed'
  BY DEF GetHolds, OutPackets, NoOverflowAssert, BulkBufUsed
<1> HIDE DEF TypeOK
<1> QED BY <1>4, <1>5

\* _fifo_get releases the slot.
LEMMA GetStoreOK == ASSUME UsbInv, GetStore PROVE UsbInv'
<1> USE DEF UsbInv, TypeOK, fifoVars, hwVars, isrVars, mainVars, lineVars, histVars, GetStore, Goto
<1>1. 0 \in Index /\ CR \in AnyByte /\ Advance(oldIndex) \in Index
  BY FifoSizeAssumption, AdvanceIs DEF Index, AnyByte
<1>2. rxfifo' \in FifoType(AnyByte)
  BY <1>1 DEF FifoType
<1>3. popped' \in Seq(AnyByte)
  BY AppendProperties
<1>4. TypeOK'
  BY <1>1, <1>2, <1>3, MainStepsAre DEF EndOfScope
<1>5. GetHolds' /\ OutPackets' /\ NoOverflowAssert' /\ BulkBufUsed'
  BY DEF GetHolds, OutPackets, NoOverflowAssert, BulkBufUsed
<1> HIDE DEF TypeOK
<1> QED BY <1>4, <1>5

\* The bytes BulkIn takes.
LEMMA BulkInTakes ==
    ASSUME TypeOK, NEW n, n = Smaller(MAX_PACKET_SIZE, fifo_avail(txfifo))
    PROVE  /\ n \in Nat /\ n \in 0 .. fifo_avail(txfifo)
           /\ (txfifo.tail + n) % SERIAL_FIFO_SIZE =
                  IF txfifo.tail + n < SERIAL_FIFO_SIZE THEN txfifo.tail + n
                  ELSE txfifo.tail + n - SERIAL_FIFO_SIZE
           /\ (txfifo.tail + n) % SERIAL_FIFO_SIZE \in Index
           /\ SubSeq(Contents(txfifo), 1, n) \in Seq(AnyByte)
           /\ n = 0 => SubSeq(Contents(txfifo), 1, n) = <<>>
<1>1. txfifo \in Fifo
  BY DEF TypeOK, Fifo
<1>2. txfifo.tail \in Index /\ fifo_avail(txfifo) \in Index
  BY <1>1, AvailIs DEF Fifo, FifoType
<1>3. n \in Nat /\ n \in 0 .. fifo_avail(txfifo)
  BY <1>2, UsbAssumption, FifoSizeAssumption DEF Smaller, Index
<1> DEFINE a == txfifo.tail + n
<1>4. a \in 0 .. 2 * SERIAL_FIFO_SIZE - 1
  BY <1>2, <1>3, FifoSizeAssumption DEF Index
<1> HIDE DEF a
<1>5. a % SERIAL_FIFO_SIZE = IF a < SERIAL_FIFO_SIZE THEN a ELSE a - SERIAL_FIFO_SIZE
  BY <1>4, FifoWrap
<1>6. a % SERIAL_FIFO_SIZE \in Index
  BY <1>4, <1>5, FifoSizeAssumption DEF Index
<1> DEFINE c == Contents(txfifo)
<1>7. c \in Seq(AnyByte) /\ Len(c) = fifo_avail(txfifo)
  BY <1>1, ContentsIs
<1> HIDE DEF c
<1>8. SubSeq(c, 1, n) \in Seq(AnyByte)
  BY <1>3, <1>7
<1>9. n = 0 => SubSeq(c, 1, n) = <<>>
  BY <1>3, <1>7
<1>10. (txfifo.tail + n) % SERIAL_FIFO_SIZE =
           IF txfifo.tail + n < SERIAL_FIFO_SIZE THEN txfifo.tail + n
           ELSE txfifo.tail + n - SERIAL_FIFO_SIZE
  BY <1>2, <1>3, <1>5, FifoSizeAssumption DEF a, Index
<1>11. (txfifo.tail + n) % SERIAL_FIFO_SIZE \in Index
  BY <1>6 DEF a
<1> QED BY <1>3, <1>8, <1>9, <1>10, <1>11 DEF c

\* BulkIn fills abBulkBuf.
LEMMA BulkInOK == ASSUME UsbInv, BulkIn PROVE UsbInv'
<1> DEFINE n == Smaller(MAX_PACKET_SIZE, fifo_avail(txfifo))
<1> USE DEF UsbInv, fifoVars, hwVars, isrVars, mainVars, lineVars, histVars
<1>1. /\ (txfifo.tail + n) % SERIAL_FIFO_SIZE \in Index
      /\ SubSeq(Contents(txfifo), 1, n) \in Seq(AnyByte)
      /\ n = 0 => SubSeq(Contents(txfifo), 1, n) = <<>>
      /\ n \in Nat
  BY BulkInTakes
<1>2. /\ isr = "scan_in" /\ "IN" \in epInt
      /\ epInt' = epInt \ {"IN"}
      /\ isr' = IF n = 0 THEN "scan_out" ELSE "write_in"
      /\ nakBI' = (nakBI /\ n > 0)
      /\ abBulkBuf' = SubSeq(Contents(txfifo), 1, n)
      /\ txfifo' = [txfifo EXCEPT !.tail = (txfifo.tail + n) % SERIAL_FIFO_SIZE]
  BY DEF BulkIn, Handled
<1>3. UNCHANGED <<rxfifo, irqOn, epIn, epOut, epSlow, frame, asserted, mainVars, lineVars, histVars>>
  BY DEF BulkIn
<1> HIDE DEF n
<1>4. txfifo' \in FifoType(AnyByte)
  BY <1>1, <1>2 DEF TypeOK, FifoType
<1>5. nakBI' \in BOOLEAN
  BY <1>2
<1>6. abBulkBuf' \in Seq(AnyByte) /\ epInt' \subseteq {"IN", "OUT"} /\ isr' \in IsrSteps
  BY <1>1, <1>2 DEF TypeOK, IsrSteps
<1>7. TypeOK'
  BY <1>3, <1>4, <1>5, <1>6 DEF TypeOK
<1>8. GetHolds' /\ OutPackets' /\ NoOverflowAssert'
  BY <1>2, <1>3 DEF GetHolds, OutPackets, NoOverflowAssert, FifoFront, FifoEmpty
<1>9. BulkBufUsed'
  BY <1>1, <1>2 DEF BulkBufUsed
<1> QED BY <1>7, <1>8, <1>9

\* USBHwEPWrite empties it.
LEMMA EPWriteOK == ASSUME UsbInv, EPWrite PROVE UsbInv'
<1> USE DEF UsbInv, fifoVars, hwVars, isrVars, mainVars, lineVars, histVars, EPWrite
<1>1. epIn' \in Seq(Seq(AnyByte))
  BY AppendProperties DEF TypeOK
<1>2. <<>> \in Seq(AnyByte)
  OBVIOUS
<1>3. TypeOK'
  BY <1>1, <1>2 DEF TypeOK, IsrSteps
<1>4. GetHolds' /\ OutPackets' /\ NoOverflowAssert' /\ BulkBufUsed'
  BY DEF GetHolds, OutPackets, NoOverflowAssert, BulkBufUsed, FifoFront, FifoEmpty
<1> QED BY <1>3, <1>4

\* The byte _fifo_get returns is the oldest one.
LEMMA FrontIs ==
    ASSUME NEW f \in Fifo, ~FifoEmpty(f)
    PROVE  Len(Contents(f)) > 0 /\ FifoFront(f) = Contents(f)[1]
<1>1. f.tail \in Index /\ fifo_avail(f) \in Index /\ fifo_avail(f) # 0
  BY AvailIs DEF Fifo, FifoType
<1>2. 1 \in 1 .. fifo_avail(f) /\ f.tail + 1 - 1 = f.tail /\ f.tail < SERIAL_FIFO_SIZE
  BY <1>1, FifoSizeAssumption DEF Index
<1>3. Contents(f)[1] = f.buf[f.tail]
  BY <1>2, ContentsIs
<1>4. Len(Contents(f)) = fifo_avail(f)
  BY ContentsIs
<1> QED BY <1>2, <1>3, <1>4 DEF FifoFront

\* The packet BulkOut reads fits, and what it does to the ring and the line.
LEMMA BulkOutTakes ==
    ASSUME UsbInv, "OUT" \in epInt, RoomForPacket
    PROVE  LET p == Head(epOut)
               k == Smaller(Len(p), fifo_free(rxfifo))
               line == LineChars(<<UART_LINE_LEN, LINE_READY>>, SubSeq(p, 1, k))
           IN  /\ epOut # <<>> /\ p \in Packets /\ p \in Seq(AnyByte)
               /\ Tail(epOut) \in Seq(Packets)
               /\ Len(p) <= fifo_free(rxfifo) /\ k = Len(p)
               /\ line[1] \in Nat /\ line[2] \in BOOLEAN
<1> DEFINE p == Head(epOut)
           k == Smaller(Len(p), fifo_free(rxfifo))
           ln == <<UART_LINE_LEN, LINE_READY>>
           line == LineChars(ln, SubSeq(p, 1, k))
<1>1. epOut \in Seq(Packets) /\ epOut # <<>>
  BY DEF UsbInv, OutPackets
<1>2. p \in Packets /\ Tail(epOut) \in Seq(Packets)
  BY <1>1, HeadTailProperties
<1> HIDE DEF p
<1>3. p \in Seq(AnyByte) /\ Len(p) \in 1 .. MAX_PACKET_SIZE
  BY <1>2, PacketIs
<1>4. fifo_free(rxfifo) \in Int
  <2>1. rxfifo \in Fifo
    BY DEF UsbInv, TypeOK, Fifo
  <2>2. fifo_avail(rxfifo) \in Index
    BY <2>1, AvailIs
  <2> QED BY <2>2, FifoSizeAssumption DEF fifo_free, Index
<1>5. Len(p) <= fifo_free(rxfifo)
  BY <1>3, <1>4, UsbAssumption DEF RoomForPacket
<1>6. k = Len(p)
  BY <1>3, <1>4, <1>5 DEF Smaller
<1>7. SubSeq(p, 1, k) = p
  BY <1>3, <1>6
<1>8. ln \in LineType
  BY DEF UsbInv, TypeOK, LineType
<1> HIDE DEF ln
<1>9. line[1] \in Nat /\ line[2] \in BOOLEAN
  BY <1>3, <1>7, <1>8, LineCharsType
<1> QED BY <1>1, <1>2, <1>3, <1>5, <1>6, <1>9 DEF p, ln

\* BulkOut moves a packet into the ring and the line, or refuses.
LEMMA BulkOutOK == ASSUME UsbInv, BulkOut PROVE UsbInv'
<1> USE DEF fifoVars, hwVars, isrVars, mainVars, lineVars, histVars
<1>1. /\ isr = "scan_out" /\ "OUT" \in epInt /\ isr' = "off" /\ irqOn' = TRUE
      /\ UNCHANGED <<txfifo, nakBI, epIn, frame, abBulkBuf, mainVars, histVars>>
  BY DEF BulkOut
<1>2. abBulkBuf = <<>> /\ isr' \in IsrSteps
  BY <1>1 DEF UsbInv, BulkBufUsed, IsrSteps
<1>3. CASE ~RoomForPacket
  <2>1. epInt' = epInt \ {"OUT"} /\ UNCHANGED <<rxfifo, epOut, epSlow, asserted, lineVars>>
    BY <1>3 DEF BulkOut, Handled
  <2>2. TypeOK'
    BY <1>1, <1>2, <2>1 DEF UsbInv, TypeOK
  <2>3. OutPackets' /\ NoOverflowAssert' /\ BulkBufUsed' /\ GetHolds'
    BY <1>1, <1>2, <2>1
    DEF UsbInv, OutPackets, NoOverflowAssert, BulkBufUsed, GetHolds, FifoFront, FifoEmpty
  <2> QED BY <2>2, <2>3 DEF UsbInv
<1>4. CASE RoomForPacket
  <2> DEFINE p == Head(epOut)
             k == Smaller(Len(p), fifo_free(rxfifo))
             line == LineChars(<<UART_LINE_LEN, LINE_READY>>, SubSeq(p, 1, k))
  <2>1. /\ rxfifo' = FifoPutAll(rxfifo, p)
        /\ asserted' = (asserted \/ k < Len(p))
        /\ UART_LINE_LEN' = line[1] /\ LINE_READY' = line[2]
        /\ epOut' = Tail(epOut)
        /\ epInt' = IF epOut' = <<>> THEN epInt \ {"OUT"} ELSE epInt
        /\ epSlow' = (epSlow \/ epOut' # <<>>)
    BY <1>4 DEF BulkOut, Handled
  <2>2. /\ epOut # <<>> /\ p \in Packets /\ p \in Seq(AnyByte)
        /\ Tail(epOut) \in Seq(Packets)
        /\ Len(p) <= fifo_free(rxfifo) /\ k = Len(p)
        /\ line[1] \in Nat /\ line[2] \in BOOLEAN
    BY <1>1, <1>4, BulkOutTakes
  <2> HIDE DEF p, k, line
  <2>3. rxfifo \in Fifo
    BY DEF UsbInv, TypeOK, Fifo
  <2>4. /\ rxfifo' \in Fifo /\ rxfifo'.tail = rxfifo.tail
        /\ fifo_avail(rxfifo') = fifo_avail(rxfifo) + Len(p)
        /\ Contents(rxfifo') = Contents(rxfifo) \o p
    BY <2>1, <2>2, <2>3, PutAllOK
  <2>5. Len(p) \in Nat /\ Len(p) > 0
    BY <2>2, PacketIs
  <2>6. asserted' = asserted
    <3>1. ~(k < Len(p))
      BY <2>2, <2>5
    <3>2. asserted \in BOOLEAN
      BY DEF UsbInv, TypeOK
    <3> QED BY <2>1, <3>1, <3>2, Zenon
  <2>7. epOut' \in Seq(Packets) /\ epOut' \in Seq(Seq(AnyByte))
    BY <2>1, <2>2, PacketSeq
  <2>8. epInt' \subseteq {"IN", "OUT"} /\ epSlow' \in BOOLEAN
    BY <2>1 DEF UsbInv, TypeOK
  <2>9. TypeOK'
    BY <1>1, <1>2, <2>1, <2>2, <2>4, <2>6, <2>7, <2>8 DEF UsbInv, TypeOK, Fifo
  <2>10. OutPackets' /\ NoOverflowAssert' /\ BulkBufUsed'
    BY <1>1, <1>2, <2>1, <2>6, <2>7 DEF UsbInv, OutPackets, NoOverflowAssert, BulkBufUsed
  <2>11. GetHolds'
    <3> SUFFICES ASSUME main = "get_store"
                 PROVE  /\ oldIndex = rxfifo'.tail /\ byteArg = FifoFront(rxfifo')
                        /\ ~FifoEmpty(rxfifo')
      BY <1>1 DEF GetHolds, FifoFront, FifoEmpty
    <3>1. oldIndex = rxfifo.tail /\ byteArg = FifoFront(rxfifo) /\ ~FifoEmpty(rxfifo)
      BY DEF UsbInv, GetHolds
    <3>2. ~FifoEmpty(rxfifo')
      <4>1. fifo_avail(rxfifo) \in Nat
        BY <2>3, AvailIs, FifoSizeAssumption DEF Index
      <4>2. fifo_avail(rxfifo') # 0
        BY <2>4, <2>5, <4>1
      <4> QED BY <2>4, <4>2, AvailIs
    <3>3. FifoFront(rxfifo) = Contents(rxfifo)[1] /\ Len(Contents(rxfifo)) > 0
      BY <2>3, <3>1, FrontIs
    <3>4. FifoFront(rxfifo') = Contents(rxfifo')[1]
      BY <2>4, <3>2, FrontIs
    <3>5. \A a, b \in Seq(AnyByte) : Len(a) > 0 => (a \o b)[1] = a[1]
      OBVIOUS
    <3>6. Contents(rxfifo) \in Seq(AnyByte)
      BY <2>3, ContentsIs
    <3>7. Contents(rxfifo')[1] = Contents(rxfifo)[1]
      BY <2>2, <2>4, <3>3, <3>5, <3>6
    <3> QED BY <2>4, <3>1, <3>2, <3>3, <3>4, <3>7
  <2> QED BY <2>9, <2>10, <2>11 DEF UsbInv
<1> QED BY <1>3, <1>4

\* The other steps of the interrupt handler.
LEMMA IsrMoves ==
    ASSUME UsbInv, IsrEnter \/ IsrClearSlow \/ NoBulkIn \/ NoBulkOut PROVE UsbInv'
<1> USE DEF fifoVars, hwVars, isrVars, mainVars, lineVars, histVars
<1>1. UNCHANGED <<fifoVars, irqOn, epIn, epOut, epInt, abBulkBuf, asserted, mainVars, lineVars,
                  histVars>>
  BY DEF IsrEnter, IsrClearSlow, NoBulkIn, NoBulkOut
<1>2. /\ isr' \in IsrSteps /\ isr' # "write_in" /\ isr # "write_in"
      /\ nakBI' \in BOOLEAN /\ epSlow' \in BOOLEAN /\ frame' \in BOOLEAN
  BY DEF IsrEnter, IsrClearSlow, NoBulkIn, NoBulkOut, IsrSteps, UsbInv, TypeOK
<1>3. TypeOK'
  BY <1>1, <1>2 DEF UsbInv, TypeOK
<1>4. OutPackets' /\ NoOverflowAssert' /\ BulkBufUsed' /\ GetHolds'
  BY <1>1, <1>2 DEF UsbInv, OutPackets, NoOverflowAssert, BulkBufUsed, GetHolds, FifoFront, FifoEmpty
<1> QED BY <1>3, <1>4 DEF UsbInv

\* CAN_IRQHandler prints.
LEMMA CanPrintOK == ASSUME UsbInv, NEW c \in Byte, CanPrint(c) PROVE UsbInv'
<1> USE DEF fifoVars, hwVars, isrVars, mainVars, lineVars, histVars, CanPrint
<1>1. txfifo' \in FifoType(AnyByte)
  BY FifoPutType DEF UsbInv, TypeOK, Fifo, AnyByte
<1>2. TypeOK'
  BY <1>1 DEF UsbInv, TypeOK
<1>3. OutPackets' /\ NoOverflowAssert' /\ BulkBufUsed' /\ GetHolds'
  BY DEF UsbInv, OutPackets, NoOverflowAssert, BulkBufUsed, GetHolds, FifoFront, FifoEmpty
<1> QED BY <1>2, <1>3 DEF UsbInv

\* The host and the endpoint hardware.
LEMMA HostOK == ASSUME UsbInv, Host PROVE UsbInv'
<1> USE DEF fifoVars, hwVars, isrVars, mainVars, lineVars, histVars
<1>1. UNCHANGED <<fifoVars, irqOn, nakBI, isrVars, mainVars, lineVars, popped>>
  BY DEF Host, StartOfFrame, HostReads, HostGetsNak, HostWrites
<1>2. epInt' \subseteq {"IN", "OUT"} /\ epSlow' \in BOOLEAN /\ frame' \in BOOLEAN
  BY DEF Host, StartOfFrame, HostReads, HostGetsNak, HostWrites, UsbInv, TypeOK
<1>3. received' \in Seq(AnyByte) /\ epIn' \in Seq(Seq(AnyByte))
  <2>1. CASE HostReads
    <3>1. Head(epIn) \in Seq(AnyByte) /\ Tail(epIn) \in Seq(Seq(AnyByte))
      BY <2>1, HeadTailProperties DEF HostReads, UsbInv, TypeOK
    <3>2. received \o Head(epIn) \in Seq(AnyByte)
      BY <3>1, ConcatProperties DEF UsbInv, TypeOK
    <3> QED BY <2>1, <3>1, <3>2 DEF HostReads
  <2>2. CASE ~HostReads
    BY <2>2 DEF Host, StartOfFrame, HostReads, HostGetsNak, HostWrites, UsbInv, TypeOK
  <2> QED BY <2>1, <2>2
<1>4. epOut' \in Seq(Packets) /\ ("OUT" \in epInt' => epOut' # <<>>)
  <2>1. ASSUME NEW p \in Packets, HostWrites(p)
        PROVE  epOut' \in Seq(Packets) /\ ("OUT" \in epInt' => epOut' # <<>>)
    BY <2>1, AppendProperties DEF HostWrites, UsbInv, OutPackets
  <2>2. CASE StartOfFrame \/ HostReads \/ HostGetsNak
    BY <2>2 DEF StartOfFrame, HostReads, HostGetsNak, UsbInv, OutPackets
  <2> QED BY <2>1, <2>2 DEF Host
<1>5. epOut' \in Seq(Seq(AnyByte))
  BY <1>4, PacketSeq
<1>6. TypeOK'
  BY <1>1, <1>2, <1>3, <1>5 DEF UsbInv, TypeOK
<1>7. OutPackets' /\ NoOverflowAssert' /\ BulkBufUsed' /\ GetHolds'
  BY <1>1, <1>4 DEF UsbInv, OutPackets, NoOverflowAssert, BulkBufUsed, GetHolds, FifoFront, FifoEmpty
<1> QED BY <1>6, <1>7 DEF UsbInv

\* The actions of the main loop, with the steps they lead from and to.
LEMMA MainCases ==
    ASSUME TypeOK, Main
    PROVE  \/ \E c \in AnyByte : serial_writechar(c)
           \/ \E from, to \in MainSteps \ {"get_store", "put_store"} : Mask(from, to)
           \/ \E from, to \in MainSteps \ {"get_store", "put_store"} : Unmask(from, to)
           \/ PutTest \/ ExecBegin \/ AvailRead \/ FlushLoop \/ GetRead \/ ExecEnd
           \/ PutStore \/ GetStore
<1> DEFINE S == MainSteps \ {"get_store", "put_store"}
<1>1. /\ "put_mask" \in S /\ "put_test" \in S /\ "put_unmask" \in S /\ ctx \in S
      /\ "avail_mask" \in S /\ "avail_read" \in S /\ "avail_unmask" \in S /\ "flush_test" \in S
      /\ "get_mask" \in S /\ "get_read" \in S /\ "get_unmask" \in S
  BY DEF TypeOK, MainSteps
<1> HIDE DEF S
<1>2. CASE Mask("put_mask", "put_test") \/ Mask("avail_mask", "avail_read") \/ Mask("get_mask", "get_read")
  <2>1. \E from, to \in S : Mask(from, to)
    BY <1>1, <1>2
  <2> QED BY <2>1 DEF S
<1>3. CASE Unmask("put_unmask", ctx) \/ Unmask("avail_unmask", "flush_test")
             \/ Unmask("get_unmask", "avail_mask")
  <2>1. \E from, to \in S : Unmask(from, to)
    BY <1>1, <1>3
  <2> QED BY <2>1 DEF S
<1>4. CASE \/ \E c \in AnyByte : serial_writechar(c)
           \/ PutTest \/ ExecBegin \/ AvailRead \/ FlushLoop \/ GetRead \/ ExecEnd
           \/ PutStore \/ GetStore
  BY <1>4
<1> QED BY <1>2, <1>3, <1>4 DEF Main

\* UsbInv is inductive.
LEMMA UsbStep == UsbInv /\ [Next]_vars => UsbInv'
<1> SUFFICES ASSUME UsbInv, [Next]_vars PROVE UsbInv'
  OBVIOUS
<1>1. CASE UNCHANGED vars
  <2>1. UNCHANGED <<fifoVars, irqOn, hwVars, isrVars, mainVars, lineVars, histVars>>
    BY <1>1 DEF vars
  <2>2. TypeOK'
    BY <2>1 DEF UsbInv, TypeOK, fifoVars, hwVars, isrVars, mainVars, lineVars, histVars
  <2>3. OutPackets' /\ NoOverflowAssert' /\ BulkBufUsed' /\ GetHolds'
    BY <2>1 DEF UsbInv, OutPackets, NoOverflowAssert, BulkBufUsed, GetHolds, FifoFront, FifoEmpty,
                fifoVars, hwVars, isrVars, mainVars
  <2> QED BY <2>2, <2>3 DEF UsbInv
<1>2. CASE Main
  <2>1. TypeOK
    BY DEF UsbInv
  <2> QED BY <1>2, <2>1, MainCases, MainMoves, PutStoreOK, GetStoreOK
<1>3. CASE Isr
  BY <1>3, IsrMoves, BulkInOK, EPWriteOK, BulkOutOK DEF Isr
<1> QED BY <1>1, <1>2, <1>3, CanPrintOK, HostOK DEF Next

\* The inductive invariant, in every reachable state.
LEMMA UsbInvariance == Spec => []UsbInv
<1>1. Init => UsbInv
  BY UsbInit
<1> QED BY <1>1, UsbStep, PTL DEF Spec

\* Type correctness of the USB port: the indices of both rings stay inside
\* the storage in every interleaving of the main loop, the USB interrupt, the
\* host and, in the CAN build, a third printing context.
THEOREM UsbTypeCorrect == Spec => []TypeOK
<1>1. UsbInv => TypeOK
  BY DEF UsbInv
<1> QED BY <1>1, UsbInvariance, PTL

\* BulkOut's ASSERT(FALSE) is never reached: the room it tested for before it
\* read the packet is enough for the whole packet.
THEOREM NeverOverflows == Spec => []NoOverflowAssert
<1>1. UsbInv => NoOverflowAssert
  BY DEF UsbInv
<1> QED BY <1>1, UsbInvariance, PTL

\* The budget of bulk-in buffers is kept when there are at least two of them:
\* a NAK interrupt with an empty endpoint may come while BulkIn is about to
\* write a packet, and then two of them are spoken for.
LEMMA BudgetStep ==
    ASSUME EpBuffers > 1 PROVE UsbInv /\ InBudget /\ [Next]_vars => InBudget'
<1> SUFFICES ASSUME UsbInv, InBudget, [Next]_vars PROVE InBudget'
  OBVIOUS
<1> USE DEF fifoVars, hwVars, isrVars, mainVars, lineVars, histVars
<1>0. epIn \in Seq(Seq(AnyByte)) /\ Len(epIn) \in Nat /\ EpBuffers \in Nat /\ abBulkBuf \in Seq(AnyByte)
  BY UsbAssumption DEF UsbInv, TypeOK
<1>1. CASE UNCHANGED <<epIn, epInt, isr>>
  BY <1>1 DEF InBudget
<1>2. CASE Main
  BY <1>1, <1>2
  DEF Main, serial_writechar, Mask, Unmask, PutTest, PutStore, ExecBegin, AvailRead, FlushLoop, GetRead,
      GetStore, ExecEnd
<1>3. CASE IsrEnter \/ IsrClearSlow \/ NoBulkIn \/ NoBulkOut
  <2>1. epIn' = epIn /\ epInt' = epInt /\ isr # "write_in" /\ isr' # "write_in"
    BY <1>3 DEF IsrEnter, IsrClearSlow, NoBulkIn, NoBulkOut
  <2> QED BY <2>1 DEF InBudget
<1>4. CASE BulkIn
  <2>1. epIn' = epIn /\ isr # "write_in" /\ "IN" \in epInt /\ "IN" \notin epInt'
    BY <1>4 DEF BulkIn, Handled
  <2> QED BY <1>0, <2>1 DEF InBudget
<1>5. CASE EPWrite
  <2>1. epIn' = Append(epIn, abBulkBuf) /\ isr = "write_in" /\ isr' # "write_in" /\ epInt' = epInt
    BY <1>5 DEF EPWrite
  <2>2. Len(epIn') = Len(epIn) + 1
    BY <1>0, <2>1
  <2> QED BY <1>0, <2>1, <2>2 DEF InBudget
<1>6. CASE BulkOut
  <2>1. epIn' = epIn /\ isr # "write_in" /\ isr' # "write_in"
        /\ ("IN" \in epInt' <=> "IN" \in epInt)
    BY <1>6 DEF BulkOut, Handled
  <2> QED BY <2>1 DEF InBudget
<1>7. CASE \E c \in Byte : CanPrint(c)
  BY <1>1, <1>7 DEF CanPrint
<1>8. CASE StartOfFrame
  BY <1>1, <1>8 DEF StartOfFrame
<1>9. CASE HostReads
  <2>1. epIn # <<>> /\ epIn' = Tail(epIn) /\ isr' = isr
    BY <1>9 DEF HostReads
  <2>2. Len(epIn') = Len(epIn) - 1
    BY <1>0, <2>1
  <2>3. Len(epIn) \in Nat /\ EpBuffers \in Nat /\ isr' = isr
    BY <1>0, <2>1
  <2>4. CASE isr = "write_in"
    BY <2>2, <2>3, <2>4 DEF InBudget
  <2>5. CASE isr # "write_in"
    BY <2>2, <2>3, <2>5 DEF InBudget
  <2> QED BY <2>4, <2>5
<1>10. CASE HostGetsNak
  <2>1. epIn' = <<>> /\ isr' = isr
    BY <1>10 DEF HostGetsNak
  <2>2. Len(epIn') = 0
    BY <2>1
  <2> QED BY <1>0, <2>1, <2>2 DEF InBudget
<1>11. ASSUME NEW p \in Packets, HostWrites(p) PROVE InBudget'
  <2>1. epIn' = epIn /\ isr' = isr /\ ("IN" \in epInt' <=> "IN" \in epInt)
    BY <1>11 DEF HostWrites
  <2> QED BY <2>1 DEF InBudget
<1>12. CASE UNCHANGED vars
  BY <1>1, <1>12 DEF vars
<1> QED BY <1>2, <1>3, <1>4, <1>5, <1>6, <1>7, <1>8, <1>9, <1>10, <1>11, <1>12 DEF Next, Isr, Host

\* With the double-buffered endpoints of the LPC17xx, USBHwEPWrite always finds
\* a free buffer: no packet the host has not read is overwritten.
THEOREM WritesFindRoom == ASSUME EpBuffers > 1 PROVE Spec => []BulkInHasRoom
<1>1. Init => UsbInv /\ InBudget
  BY UsbInit
<1>2. UsbInv /\ InBudget => BulkInHasRoom
  <2> SUFFICES ASSUME UsbInv, InBudget, isr = "write_in" PROVE Len(epIn) < EpBuffers
    BY DEF BulkInHasRoom
  <2>1. Len(epIn) \in Nat /\ EpBuffers \in Nat
    BY UsbAssumption DEF UsbInv, TypeOK
  <2> QED BY <2>1 DEF InBudget
<1> QED BY <1>1, <1>2, UsbStep, BudgetStep, PTL DEF Spec

-----------------------------------------------------------------------------
(* The receive direction implements ByteQueue.                             *)

\* A queue that bytes are appended to.
LEMMA AcceptBytes ==
    ASSUME NEW q \in Seq(AnyByte), NEW p \in Seq(AnyByte), Len(p) > 0
    PROVE  Len(q \o p) > Len(q) /\ SubSeq(q \o p, 1, Len(q)) = q
<1>1. Len(q \o p) = Len(q) + Len(p) /\ SubSeq(q \o p, 1, Len(q)) = q
  BY ConcatParts
<1>2. Len(q) \in Nat /\ Len(p) \in Nat
  OBVIOUS
<1>3. Len(q) + Len(p) > Len(q)
  BY <1>2
<1> QED BY <1>1, <1>3, Zenon

\* A queue that its first bytes leave.
LEMMA DeliverBytes ==
    ASSUME NEW a \in Seq(AnyByte), NEW b \in Seq(AnyByte)
    PROVE  /\ SubSeq(a \o b, 1, Len(a)) = a
           /\ SubSeq(a \o b, Len(a) + 1, Len(a \o b)) = b
BY ConcatParts

\* What is in flight, before and after a step.
LEMMA RxPrimed == RxInFlight' = Contents(rxfifo') \o Flatten(epOut')
BY DEF RxInFlight, Contents, fifo_avail, Flatten

\* RxInFlight is a sequence of bytes.
LEMMA RxBytes ==
    ASSUME UsbInv
    PROVE  /\ rxfifo \in Fifo /\ epOut \in Seq(Seq(AnyByte))
           /\ Contents(rxfifo) \in Seq(AnyByte) /\ Flatten(epOut) \in Seq(AnyByte)
           /\ RxInFlight \in Seq(AnyByte)
<1>1. rxfifo \in Fifo /\ epOut \in Seq(Seq(AnyByte))
  BY DEF UsbInv, TypeOK, Fifo
<1>2. Contents(rxfifo) \in Seq(AnyByte) /\ Flatten(epOut) \in Seq(AnyByte)
  BY <1>1, ContentsIs, FlatType DEF Bytes
<1> QED BY <1>1, <1>2, ConcatProperties DEF RxInFlight

\* _fifo_get hands the oldest byte over.
LEMMA GetDelivers == ASSUME UsbInv, GetStore PROVE RxQueue!Deliver
<1> DEFINE c == Contents(rxfifo)
           d == Contents(rxfifo')
           e == Flatten(epOut)
           q == RxInFlight
<1>1. /\ rxfifo' = [rxfifo EXCEPT !.tail = Advance(oldIndex)]
      /\ popped' = Append(popped, byteArg) /\ epOut' = epOut
      /\ oldIndex = rxfifo.tail /\ byteArg = FifoFront(rxfifo) /\ ~FifoEmpty(rxfifo)
      /\ popped \in Seq(AnyByte) /\ byteArg \in AnyByte
  BY DEF GetStore, Goto, UsbInv, TypeOK, GetHolds, hwVars
<1>2. rxfifo \in Fifo /\ c \in Seq(AnyByte) /\ e \in Seq(AnyByte) /\ q \in Seq(AnyByte)
  BY RxBytes
<1>3. rxfifo' \in Fifo
  BY GetStoreOK DEF UsbInv, TypeOK, Fifo
<1>4. Len(c) > 0 /\ byteArg = c[1] /\ Len(c) = fifo_avail(rxfifo) /\ Len(c) \in Nat
  BY <1>1, <1>2, FrontIs, ContentsIs
<1>5. d = SubSeq(c, 2, Len(c))
  <2>1. /\ rxfifo'.head = rxfifo.head /\ rxfifo'.buf = rxfifo.buf
        /\ rxfifo'.tail = Advance(rxfifo.tail) /\ rxfifo.tail \in Index
    BY <1>1, <1>2 DEF Fifo, FifoType
  <2>2. rxfifo'.tail = IF rxfifo.tail + 1 < SERIAL_FIFO_SIZE THEN rxfifo.tail + 1
                       ELSE rxfifo.tail + 1 - SERIAL_FIFO_SIZE
    BY <2>1, AdvanceIs, FifoSizeAssumption DEF Index
  <2>3. 1 \in 0 .. fifo_avail(rxfifo)
    BY <1>4
  <2>4. d = SubSeq(c, 1 + 1, fifo_avail(rxfifo))
    BY <1>2, <1>3, <2>1, <2>2, <2>3, TakeOK
  <2> QED BY <1>4, <2>4
<1>6. q = c \o e /\ q' = d \o e
  BY <1>1, RxPrimed DEF RxInFlight
<1> HIDE DEF c, d, e, q
<1>7. d \in Seq(AnyByte) /\ <<byteArg>> \in Seq(AnyByte) /\ Len(<<byteArg>>) = 1
  BY <1>1, <1>2, <1>4, <1>5
<1>8. c = <<byteArg>> \o d
  BY <1>2, <1>4, <1>5
<1>9. q = <<byteArg>> \o (d \o e)
  BY <1>2, <1>6, <1>7, <1>8, ConcatBytes
<1>10. SubSeq(q, 1, 1) = <<byteArg>> /\ SubSeq(q, 1 + 1, Len(q)) = d \o e
  <2>1. d \o e \in Seq(AnyByte)
    BY <1>2, <1>7, ConcatProperties
  <2> DEFINE f == d \o e
             b == <<byteArg>>
  <2>2. f \in Seq(AnyByte) /\ b \in Seq(AnyByte) /\ Len(b) = 1 /\ q = b \o f
    BY <1>7, <1>9, <2>1
  <2> HIDE DEF f, b
  <2>3. SubSeq(q, 1, 1) = b /\ SubSeq(q, 1 + 1, Len(q)) = f
    <3>1. SubSeq(b \o f, 1, Len(b)) = b /\ SubSeq(b \o f, Len(b) + 1, Len(b \o f)) = f
      BY <2>2, DeliverBytes
    <3> QED BY <2>2, <3>1, Zenon
  <2> QED BY <2>3 DEF f, b
<1>11. popped' = popped \o SubSeq(q, 1, 1) /\ q' = SubSeq(q, 1 + 1, Len(q))
  <2>1. popped' = popped \o <<byteArg>>
    BY <1>1, AppendIsConcat
  <2> QED BY <1>6, <1>10, <2>1
<1>12. 1 \in 1 .. Len(q)
  BY <1>2, <1>7, <1>9
<1> QED BY <1>11, <1>12 DEF RxQueue!Deliver, q

\* BulkOut moves a packet from the endpoint to the ring, behind the bytes
\* that are there: nothing changes for the queue.
LEMMA BulkOutMoves == ASSUME UsbInv, BulkOut PROVE RxInFlight' = RxInFlight
<1>1. CASE ~RoomForPacket
  <2>1. rxfifo' = rxfifo /\ epOut' = epOut
    BY <1>1 DEF BulkOut
  <2> QED BY <2>1, RxPrimed DEF RxInFlight
<1>2. CASE RoomForPacket
  <2> DEFINE p == Head(epOut)
             c == Contents(rxfifo)
             f == Flatten(Tail(epOut))
  <2>1. rxfifo' = FifoPutAll(rxfifo, p) /\ epOut' = Tail(epOut) /\ "OUT" \in epInt
    BY <1>2 DEF BulkOut
  <2>2. epOut # <<>> /\ p \in Seq(AnyByte) /\ Len(p) <= fifo_free(rxfifo)
        /\ Tail(epOut) \in Seq(Packets)
    BY <1>2, <2>1, BulkOutTakes
  <2>3. rxfifo \in Fifo /\ epOut \in Seq(Seq(AnyByte)) /\ c \in Seq(AnyByte) /\ f \in Seq(AnyByte)
    BY <2>2, RxBytes, PacketSeq, FlatType DEF Bytes
  <2>4. Contents(rxfifo') = c \o p
    BY <2>1, <2>2, <2>3, PutAllOK
  <2>5. Flatten(epOut) = p \o f
    BY <2>2, <2>3, FlatHead DEF Cat, Bytes
  <2>6. Flatten(epOut') = f
    BY <2>1
  <2> HIDE DEF p, c, f
  <2>a. c \in Seq(AnyByte) /\ p \in Seq(AnyByte) /\ f \in Seq(AnyByte)
    BY <2>2, <2>3
  <2>b. Cat(Cat(c, p), f) = Cat(c, Cat(p, f))
    BY <2>a, CatAssoc
  <2>7. (c \o p) \o f = c \o (p \o f)
    BY <2>b, Zenon DEF Cat
  <2> QED BY <2>4, <2>5, <2>6, <2>7, RxPrimed DEF RxInFlight, c
<1> QED BY <1>1, <1>2

\* A packet from the host joins the queue.
LEMMA HostAccepts ==
    ASSUME UsbInv, NEW p \in Packets, HostWrites(p) PROVE RxQueue!Accept
<1> DEFINE c == Contents(rxfifo)
           e == Flatten(epOut)
           q == RxInFlight
<1>1. epOut' = Append(epOut, p) /\ rxfifo' = rxfifo /\ popped' = popped
  BY DEF HostWrites, fifoVars, histVars
<1>2. c \in Seq(AnyByte) /\ e \in Seq(AnyByte) /\ q \in Seq(AnyByte) /\ epOut \in Seq(Seq(AnyByte))
  BY RxBytes
<1>3. p \in Seq(AnyByte) /\ Len(p) > 0
  BY PacketIs
<1>4. Flatten(epOut') = e \o p
  BY <1>1, <1>2, <1>3, FlatAppend DEF Cat, Bytes
<1>5. q' = c \o (e \o p) /\ q = c \o e
  BY <1>1, <1>4, RxPrimed DEF RxInFlight
<1> HIDE DEF c, e, q
<1>6. q' = q \o p
  <2>1. Cat(Cat(c, e), p) = Cat(c, Cat(e, p))
    BY <1>2, <1>3, CatAssoc
  <2> QED BY <1>5, <2>1, Zenon DEF Cat
<1>7. Len(q') > Len(q) /\ SubSeq(q', 1, Len(q)) = q
  BY <1>2, <1>3, <1>6, AcceptBytes
<1> QED BY <1>1, <1>7 DEF RxQueue!Accept, q

\* Every step of the port is a step of the receive queue or leaves it alone.
LEMMA RxStep == UsbInv /\ [Next]_vars => [RxQueue!Next]_(RxQueue!qvars)
<1> SUFFICES ASSUME UsbInv, [Next]_vars
             PROVE  RxQueue!Next \/ (RxInFlight' = RxInFlight /\ popped' = popped)
  BY DEF RxQueue!qvars
<1> USE DEF fifoVars, hwVars, isrVars, mainVars, lineVars, histVars
<1>1. CASE UNCHANGED <<rxfifo, epOut, popped>>
  BY <1>1, RxPrimed DEF RxInFlight
<1>2. CASE Main
  <2>1. CASE GetStore
    BY <2>1, GetDelivers DEF RxQueue!Next
  <2>2. CASE ~GetStore
    BY <1>1, <1>2, <2>2
    DEF Main, serial_writechar, Mask, Unmask, PutTest, PutStore, ExecBegin, AvailRead, FlushLoop,
        GetRead, ExecEnd
  <2> QED BY <2>1, <2>2
<1>3. CASE Isr
  <2>1. CASE BulkOut
    <3>1. popped' = popped
      BY <2>1 DEF BulkOut
    <3> QED BY <2>1, <3>1, BulkOutMoves
  <2>2. CASE ~BulkOut
    BY <1>1, <1>3, <2>2 DEF Isr, IsrEnter, IsrClearSlow, BulkIn, NoBulkIn, EPWrite, NoBulkOut
  <2> QED BY <2>1, <2>2
<1>4. CASE \E c \in Byte : CanPrint(c)
  BY <1>1, <1>4 DEF CanPrint
<1>5. ASSUME NEW p \in Packets, HostWrites(p) PROVE RxQueue!Next
  BY <1>5, HostAccepts DEF RxQueue!Next
<1>6. CASE StartOfFrame \/ HostReads \/ HostGetsNak
  BY <1>1, <1>6 DEF StartOfFrame, HostReads, HostGetsNak
<1>7. CASE UNCHANGED vars
  BY <1>1, <1>7 DEF vars
<1> QED BY <1>2, <1>3, <1>4, <1>5, <1>6, <1>7 DEF Next, Host

\* Receive direction: for every ring and packet size, what the program pops is
\* what the host sent, in order, in both builds; a packet that BulkOut refuses
\* for lack of room stays in the endpoint.
THEOREM RxImplementsQueue == Spec => RxStream
<1>1. Init => RxQueue!Init
  <2> SUFFICES ASSUME Init PROVE RxInFlight = <<>> /\ popped = <<>>
    BY DEF RxQueue!Init
  <2>1. rxfifo \in Fifo /\ FifoEmpty(rxfifo) /\ epOut = <<>> /\ popped = <<>>
    BY UsbInit DEF Init, UsbInv, TypeOK, Fifo, FifoEmpty, fifo_init
  <2>2. Contents(rxfifo) \in Seq(AnyByte) /\ Len(Contents(rxfifo)) = 0
    BY <2>1, AvailIs, ContentsIs
  <2>3. Contents(rxfifo) = <<>>
    BY <2>2, EmptySeq
  <2>4. Flatten(epOut) = <<>>
    BY <2>1, FlatEmpty DEF NoBytes
  <2> QED BY <2>1, <2>3, <2>4 DEF RxInFlight
<1> QED BY <1>1, UsbInvariance, RxStep, PTL DEF Spec, RxStream, RxQueue!Spec

-----------------------------------------------------------------------------
(* The transmit direction implements ByteQueue, without the CAN build.     *)

\* BulkIn does not make a ring full that was not.
LEMMA BulkInKeepsRoom ==
    ASSUME TypeOK, BulkIn
    PROVE  LET n == Smaller(MAX_PACKET_SIZE, fifo_avail(txfifo))
           IN  /\ txfifo' \in Fifo /\ txfifo'.head = txfifo.head
               /\ fifo_avail(txfifo') = fifo_avail(txfifo) - n
               /\ Contents(txfifo') = SubSeq(Contents(txfifo), n + 1, fifo_avail(txfifo))
               /\ ~FifoFull(txfifo) => ~FifoFull(txfifo')
<1> DEFINE n == Smaller(MAX_PACKET_SIZE, fifo_avail(txfifo))
<1>1. /\ n \in Nat /\ n \in 0 .. fifo_avail(txfifo)
      /\ (txfifo.tail + n) % SERIAL_FIFO_SIZE =
             IF txfifo.tail + n < SERIAL_FIFO_SIZE THEN txfifo.tail + n
             ELSE txfifo.tail + n - SERIAL_FIFO_SIZE
      /\ (txfifo.tail + n) % SERIAL_FIFO_SIZE \in Index
  BY BulkInTakes
<1>2. txfifo' = [txfifo EXCEPT !.tail = (txfifo.tail + n) % SERIAL_FIFO_SIZE]
  BY DEF BulkIn
<1> HIDE DEF n
<1>3. txfifo \in Fifo
  BY DEF TypeOK, Fifo
<1>4. /\ txfifo' \in Fifo /\ txfifo'.head = txfifo.head /\ txfifo'.buf = txfifo.buf
      /\ txfifo'.tail = (txfifo.tail + n) % SERIAL_FIFO_SIZE
  BY <1>1, <1>2, <1>3 DEF Fifo, FifoType
<1>5. /\ fifo_avail(txfifo') = fifo_avail(txfifo) - n
      /\ Contents(txfifo') = SubSeq(Contents(txfifo), n + 1, fifo_avail(txfifo))
  <2>1. txfifo'.tail = IF txfifo.tail + n < SERIAL_FIFO_SIZE THEN txfifo.tail + n
                       ELSE txfifo.tail + n - SERIAL_FIFO_SIZE
    BY <1>1, <1>4, Zenon
  <2> QED BY <1>1, <1>3, <1>4, <2>1, TakeOK
<1>6. ~FifoFull(txfifo) => ~FifoFull(txfifo')
  <2>1. fifo_avail(txfifo) \in Index
    BY <1>3, AvailIs
  <2>2. /\ FifoFull(txfifo) <=> fifo_avail(txfifo) = SERIAL_FIFO_SIZE - 1
        /\ FifoFull(txfifo') <=> fifo_avail(txfifo') = SERIAL_FIFO_SIZE - 1
    BY <1>3, <1>4, FullIs
  <2>3. fifo_avail(txfifo') = SERIAL_FIFO_SIZE - 1 => fifo_avail(txfifo) = SERIAL_FIFO_SIZE - 1
    BY <1>1, <1>5, <2>1, FifoSizeAssumption DEF Index
  <2> QED BY <2>2, <2>3
<1> QED BY <1>4, <1>5, <1>6 DEF n

\* Without a second printing context nothing comes between the test and the
\* store of _fifo_put that matters to it.
LEMMA PutHoldsStep ==
    ASSUME ~CanPrints PROVE UsbInv /\ PutHolds /\ [Next]_vars => PutHolds'
<1> SUFFICES ASSUME UsbInv, PutHolds, [Next]_vars PROVE PutHolds'
  OBVIOUS
<1> USE DEF fifoVars, hwVars, isrVars, mainVars, lineVars, histVars
<1>0. TypeOK
  BY DEF UsbInv
<1>1. CASE UNCHANGED <<txfifo, main, oldIndex>>
  BY <1>1 DEF PutHolds, FifoFull
<1>2. CASE Main
  <2>1. CASE PutTest
    BY <2>1 DEF PutTest, PutHolds, FifoFull
  <2>2. CASE ~PutTest
    <3>1. main' # "put_store"
      BY <1>0, <1>2, <2>2
      DEF Main, serial_writechar, Mask, Unmask, PutStore, ExecBegin, AvailRead, FlushLoop, GetRead,
          GetStore, ExecEnd, Goto, TypeOK
    <3> QED BY <3>1 DEF PutHolds
  <2> QED BY <2>1, <2>2
<1>3. CASE Isr
  <2>1. CASE BulkIn
    <3>1. main' = main /\ oldIndex' = oldIndex
      BY <2>1 DEF BulkIn
    <3>2. txfifo'.head = txfifo.head /\ (~FifoFull(txfifo) => ~FifoFull(txfifo'))
      BY <1>0, <2>1, BulkInKeepsRoom
    <3> QED BY <3>1, <3>2 DEF PutHolds, FifoFull
  <2>2. CASE ~BulkIn
    BY <1>1, <1>3, <2>2 DEF Isr, IsrEnter, IsrClearSlow, NoBulkIn, EPWrite, BulkOut, NoBulkOut
  <2> QED BY <2>1, <2>2
<1>4. CASE Host
  BY <1>1, <1>4 DEF Host, StartOfFrame, HostReads, HostGetsNak, HostWrites
<1>5. CASE UNCHANGED vars
  BY <1>1, <1>5 DEF vars
<1> QED BY <1>2, <1>3, <1>4, <1>5 DEF Next, CanPrint

\* What is in flight, before and after a step.
LEMMA TxPrimed == TxInFlight' = (Flatten(epIn') \o abBulkBuf') \o Contents(txfifo')
BY DEF TxInFlight, Contents, fifo_avail, Flatten

\* TxInFlight is a sequence of bytes.
LEMMA TxBytes ==
    ASSUME UsbInv
    PROVE  /\ txfifo \in Fifo /\ epIn \in Seq(Seq(AnyByte)) /\ abBulkBuf \in Seq(AnyByte)
           /\ received \in Seq(AnyByte)
           /\ Contents(txfifo) \in Seq(AnyByte) /\ Flatten(epIn) \in Seq(AnyByte)
           /\ Flatten(epIn) \o abBulkBuf \in Seq(AnyByte)
           /\ TxInFlight \in Seq(AnyByte)
<1>1. txfifo \in Fifo /\ epIn \in Seq(Seq(AnyByte)) /\ abBulkBuf \in Seq(AnyByte)
      /\ received \in Seq(AnyByte)
  BY DEF UsbInv, TypeOK, Fifo
<1>2. Contents(txfifo) \in Seq(AnyByte) /\ Flatten(epIn) \in Seq(AnyByte)
  BY <1>1, ContentsIs, FlatType DEF Bytes
<1>3. Flatten(epIn) \o abBulkBuf \in Seq(AnyByte)
  BY <1>1, <1>2, ConcatProperties
<1> QED BY <1>1, <1>2, <1>3, ConcatProperties DEF TxInFlight

\* serial_writechar's byte joins the queue when _fifo_put stores it.
LEMMA PutAccepts == ASSUME UsbInv, PutHolds, PutStore PROVE TxQueue!Accept
<1> DEFINE a == Flatten(epIn) \o abBulkBuf
           c == Contents(txfifo)
           q == TxInFlight
           b == <<byteArg>>
<1>1. /\ oldIndex = txfifo.head /\ ~FifoFull(txfifo)
      /\ txfifo' = [txfifo EXCEPT !.buf = [@ EXCEPT ![oldIndex] = byteArg], !.head = Advance(oldIndex)]
      /\ epIn' = epIn /\ abBulkBuf' = abBulkBuf /\ received' = received /\ byteArg \in AnyByte
  BY DEF PutHolds, PutStore, Goto, hwVars, isrVars, histVars, UsbInv, TypeOK
<1>2. txfifo' = fifo_put(txfifo, byteArg)
  BY <1>1 DEF fifo_put
<1>3. txfifo \in Fifo /\ a \in Seq(AnyByte) /\ c \in Seq(AnyByte) /\ q \in Seq(AnyByte)
  BY TxBytes
<1>4. Contents(txfifo') = Append(c, byteArg)
  BY <1>1, <1>2, <1>3, PutOK
<1>5. q = a \o c /\ q' = a \o Append(c, byteArg)
  BY <1>1, <1>4, TxPrimed DEF TxInFlight
<1>6. b \in Seq(AnyByte) /\ Len(b) > 0
  BY <1>1
<1>7. Append(c, byteArg) = c \o b
  BY <1>1, <1>3, AppendIsConcat
<1> HIDE DEF a, b, c, q
<1>8. q' = q \o b
  <2>1. Cat(Cat(a, c), b) = Cat(a, Cat(c, b))
    BY <1>3, <1>6, CatAssoc
  <2> QED BY <1>5, <1>7, <2>1, Zenon DEF Cat
<1>9. Len(q') > Len(q) /\ SubSeq(q', 1, Len(q)) = q
  BY <1>3, <1>6, <1>8, AcceptBytes
<1> QED BY <1>1, <1>9 DEF TxQueue!Accept, q

\* BulkIn moves bytes from the ring to abBulkBuf.
LEMMA BulkInMoves == ASSUME UsbInv, BulkIn PROVE TxInFlight' = TxInFlight
<1> DEFINE n == Smaller(MAX_PACKET_SIZE, fifo_avail(txfifo))
           e == Flatten(epIn)
           c == Contents(txfifo)
           d == SubSeq(c, 1, n)
           f == SubSeq(c, n + 1, fifo_avail(txfifo))
<1>0. TypeOK /\ abBulkBuf = <<>>
  BY DEF UsbInv, BulkBufUsed, BulkIn
<1>1. epIn' = epIn /\ abBulkBuf' = d
  BY DEF BulkIn
<1>2. Contents(txfifo') = f
  BY <1>0, BulkInKeepsRoom
<1>3. n \in 0 .. fifo_avail(txfifo)
  BY <1>0, BulkInTakes
<1>4. txfifo \in Fifo /\ e \in Seq(AnyByte) /\ c \in Seq(AnyByte)
  BY TxBytes
<1>5. Len(c) = fifo_avail(txfifo)
  BY <1>4, ContentsIs
<1>6. TxInFlight = (e \o <<>>) \o c /\ TxInFlight' = (e \o d) \o f
  BY <1>0, <1>1, <1>2, TxPrimed DEF TxInFlight
<1> HIDE DEF n, e, c
<1>7. d \in Seq(AnyByte) /\ f \in Seq(AnyByte) /\ d \o f = c
  <2>1. Len(d) = n /\ Len(f) = Len(c) - n /\ d \in Seq(AnyByte) /\ f \in Seq(AnyByte)
        /\ (\A i \in 1 .. n : d[i] = c[i]) /\ (\A i \in 1 .. Len(c) - n : f[i] = c[n + i])
    BY <1>3, <1>4, <1>5
  <2> HIDE DEF d, f
  <2>2. Len(c) = Len(d) + Len(f) /\ Len(d) = n
    BY <1>3, <1>4, <1>5, <2>1
  <2>3. /\ \A i \in 1 .. Len(d) : d[i] = c[i]
        /\ \A i \in 1 .. Len(f) : f[i] = c[Len(d) + i]
    BY <2>1
  <2>4. c = d \o f
    BY <1>4, <2>1, <2>2, <2>3, TwoPieces
  <2> QED BY <2>1, <2>4
<1> HIDE DEF d, f
<1>8. (e \o d) \o f = e \o (d \o f) /\ (e \o <<>>) = e
  <2>1. Cat(Cat(e, d), f) = Cat(e, Cat(d, f))
    BY <1>4, <1>7, CatAssoc
  <2>2. e \o <<>> = e
    BY <1>4, ConcatEmptySeq
  <2> QED BY <2>1, <2>2, Zenon DEF Cat
<1> QED BY <1>6, <1>7, <1>8, Zenon

\* USBHwEPWrite moves them on to the endpoint.
LEMMA EPWriteMoves == ASSUME UsbInv, EPWrite PROVE TxInFlight' = TxInFlight
<1> DEFINE e == Flatten(epIn)
           b == abBulkBuf
           c == Contents(txfifo)
<1>1. epIn' = Append(epIn, abBulkBuf) /\ abBulkBuf' = <<>> /\ txfifo' = txfifo
  BY DEF EPWrite, fifoVars
<1>2. /\ epIn \in Seq(Seq(AnyByte)) /\ e \in Seq(AnyByte) /\ b \in Seq(AnyByte)
      /\ c \in Seq(AnyByte) /\ e \o b \in Seq(AnyByte)
  BY TxBytes
<1>3. Flatten(epIn') = e \o b
  BY <1>1, <1>2, FlatAppend DEF Cat, Bytes
<1>4. TxInFlight' = ((e \o b) \o <<>>) \o c /\ TxInFlight = (e \o b) \o c
  BY <1>1, <1>3, TxPrimed DEF TxInFlight
<1>5. (e \o b) \o <<>> = e \o b
  BY <1>2, ConcatEmptySeq
<1> QED BY <1>4, <1>5

\* A packet the host reads leaves the queue.
LEMMA HostTakes ==
    ASSUME UsbInv, HostReads
    PROVE  TxQueue!Deliver \/ (TxInFlight' = TxInFlight /\ received' = received)
<1> DEFINE p == Head(epIn)
           f == Flatten(Tail(epIn))
           b == abBulkBuf
           c == Contents(txfifo)
           q == TxInFlight
<1>1. epIn # <<>> /\ epIn' = Tail(epIn) /\ abBulkBuf' = abBulkBuf /\ txfifo' = txfifo
      /\ received' = received \o p
  BY DEF HostReads, isrVars, fifoVars
<1>2. /\ epIn \in Seq(Seq(AnyByte)) /\ b \in Seq(AnyByte) /\ received \in Seq(AnyByte)
      /\ c \in Seq(AnyByte) /\ q \in Seq(AnyByte)
  BY TxBytes
<1>3. p \in Seq(AnyByte) /\ Tail(epIn) \in Seq(Seq(AnyByte))
  BY <1>1, <1>2, HeadTailProperties
<1>4. f \in Seq(AnyByte)
  BY <1>3, FlatType DEF Bytes
<1>5. Flatten(epIn) = p \o f
  BY <1>1, <1>2, FlatHead DEF Cat, Bytes
<1>6. q = ((p \o f) \o b) \o c /\ q' = (f \o b) \o c
  BY <1>1, <1>5, TxPrimed DEF TxInFlight
<1> HIDE DEF p, f, b, c, q
<1>7. q = p \o q' /\ q' \in Seq(AnyByte)
  <2>1. f \o b \in Seq(AnyByte)
    BY <1>2, <1>4, ConcatType2
  <2>b. p \in Seq(AnyByte) /\ f \in Seq(AnyByte) /\ b \in Seq(AnyByte) /\ c \in Seq(AnyByte)
    BY <1>2, <1>3, <1>4
  <2>2. Cat(Cat(p, f), b) = Cat(p, Cat(f, b))
    BY <2>b, CatAssoc
  <2>3. Cat(Cat(p, Cat(f, b)), c) = Cat(p, Cat(Cat(f, b), c))
    <3>1. Cat(f, b) \in Seq(AnyByte)
      BY <2>1 DEF Cat
    <3> QED BY <2>b, <3>1, CatAssoc
  <2>4. (f \o b) \o c \in Seq(AnyByte)
    BY <1>2, <2>1, ConcatType2
  <2>5. q = p \o q'
    BY <1>6, <2>2, <2>3, Zenon DEF Cat
  <2> QED BY <1>6, <2>4, <2>5, Zenon
<1>8. CASE Len(p) = 0
  <2>1. p = <<>>
    BY <1>3, <1>8, EmptySeq
  <2>2. received \o <<>> = received /\ <<>> \o q' = q'
    BY <1>2, <1>7, ConcatEmptySeq
  <2> QED BY <1>1, <1>7, <2>1, <2>2 DEF q
<1>9. CASE Len(p) # 0
  <2>1. SubSeq(p \o q', 1, Len(p)) = p /\ SubSeq(p \o q', Len(p) + 1, Len(p \o q')) = q'
    BY <1>3, <1>7, DeliverBytes
  <2>2. SubSeq(q, 1, Len(p)) = p /\ SubSeq(q, Len(p) + 1, Len(q)) = q'
    BY <1>7, <2>1, Zenon
  <2>3. Len(p) \in 1 .. Len(q)
    BY <1>3, <1>7, <1>9, ConcatProperties
  <2>4. \E n \in 1 .. Len(q) :
            received' = received \o SubSeq(q, 1, n) /\ q' = SubSeq(q, n + 1, Len(q))
    BY <1>1, <2>2, <2>3
  <2> QED BY <2>4 DEF TxQueue!Deliver, q
<1> QED BY <1>8, <1>9

\* Every step of the port is a step of the transmit queue or leaves it alone.
LEMMA TxStep ==
    ASSUME ~CanPrints PROVE UsbInv /\ PutHolds /\ [Next]_vars => [TxQueue!Next]_(TxQueue!qvars)
<1> SUFFICES ASSUME UsbInv, PutHolds, [Next]_vars
             PROVE  TxQueue!Next \/ (TxInFlight' = TxInFlight /\ received' = received)
  BY DEF TxQueue!qvars
<1> USE DEF fifoVars, hwVars, isrVars, mainVars, lineVars, histVars
<1>1. CASE UNCHANGED <<txfifo, epIn, abBulkBuf, received>>
  BY <1>1, TxPrimed DEF TxInFlight
<1>2. CASE Main
  <2>1. CASE PutStore
    BY <2>1, PutAccepts DEF TxQueue!Next
  <2>2. CASE ~PutStore
    BY <1>1, <1>2, <2>2
    DEF Main, serial_writechar, Mask, Unmask, PutTest, ExecBegin, AvailRead, FlushLoop, GetRead,
        GetStore, ExecEnd
  <2> QED BY <2>1, <2>2
<1>3. CASE Isr
  <2>1. CASE BulkIn \/ EPWrite
    <3>1. received' = received
      BY <2>1 DEF BulkIn, EPWrite
    <3> QED BY <2>1, <3>1, BulkInMoves, EPWriteMoves
  <2>2. CASE ~(BulkIn \/ EPWrite)
    BY <1>1, <1>3, <2>2 DEF Isr, IsrEnter, IsrClearSlow, NoBulkIn, BulkOut, NoBulkOut
  <2> QED BY <2>1, <2>2
<1>4. CASE HostReads
  BY <1>4, HostTakes DEF TxQueue!Next
<1>5. CASE StartOfFrame \/ HostGetsNak \/ \E p \in Packets : HostWrites(p)
  BY <1>1, <1>5 DEF StartOfFrame, HostGetsNak, HostWrites
<1>6. CASE UNCHANGED vars
  BY <1>1, <1>6 DEF vars
<1> QED BY <1>2, <1>3, <1>4, <1>5, <1>6 DEF Next, Host, CanPrint

\* Transmit direction: for every ring and packet size, what the host receives
\* is what serial_writechar accepted, in order, each byte once.  The CAN build,
\* in which an interrupt handler prints too, is excluded: there a byte can be
\* stored over another between the test and the store of _fifo_put.
THEOREM TxImplementsQueue == ASSUME ~CanPrints PROVE Spec => TxStream
<1>1. Init => TxQueue!Init
  <2> SUFFICES ASSUME Init PROVE TxInFlight = <<>> /\ received = <<>>
    BY DEF TxQueue!Init
  <2>1. txfifo \in Fifo /\ FifoEmpty(txfifo) /\ epIn = <<>> /\ abBulkBuf = <<>> /\ received = <<>>
    BY UsbInit DEF Init, UsbInv, TypeOK, Fifo, FifoEmpty, fifo_init
  <2>2. Contents(txfifo) \in Seq(AnyByte) /\ Len(Contents(txfifo)) = 0
    BY <2>1, AvailIs, ContentsIs
  <2>3. Contents(txfifo) = <<>>
    BY <2>2, EmptySeq
  <2>4. Flatten(epIn) = <<>>
    BY <2>1, FlatEmpty DEF NoBytes
  <2> QED BY <2>1, <2>3, <2>4 DEF TxInFlight
<1>2. Init => PutHolds
  BY DEF Init, PutHolds
<1> QED BY <1>1, <1>2, UsbInvariance, PutHoldsStep, TxStep, PTL DEF Spec, TxStream, TxQueue!Spec

=============================================================================
