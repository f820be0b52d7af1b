---------------------------- MODULE UartRingProofs ----------------------------
(***************************************************************************)
(* Proofs about UartRing, for every ring size, buffer length and bound:    *)
(* type correctness, exclusive use of the transmit ring (TxExclusive), the *)
(* absence of lost wakeups (NoLostWakeup) and the refinement of ByteQueue in*)
(* both directions; and, for buffers of one byte, that sending is          *)
(* synchronous (SendIsSynchronous).                                        *)
(*                                                                         *)
(* NoLostWakeup is not inductive: whether the interrupt is enabled after   *)
(* UARTReceive's write of IER depends on what its read saw, and who may    *)
(* touch the ring depends on who runs UART_IntTransmit.  TxInv adds both.  *)
(*                                                                         *)
(* The refinements need only the types: the guards of each action say what *)
(* it may assume of the ring, and none remembers an index over a step.     *)
(***************************************************************************)
EXTENDS UartRing, ProofLemmas

\* UART_IntTransmit runs exactly in the context that xmitBy names.
XmitOwner ==
    /\ xmit # "off" /\ xmitBy = "isr" <=> isr = "tx"
    /\ xmit # "off" /\ xmitBy = "main" <=> main = "send_xmit"

\* While UARTSend is under way the interrupt is disabled and not running.
SendLocked == main \in SendSteps => ~threOn /\ isr # "tx"

\* Bytes nobody is moving have the interrupt enabled, whatever else runs.
Armed == xmit = "off" /\ main \notin SendSteps /\ ~BUF_IS_EMPTY(tx) => threOn /\ TxIntStat

\* What UARTReceive is about to write back to IER does not disarm them.
WriteBackArmed == main \in IerWrites /\ ~BUF_IS_EMPTY(tx) => ierRead

TxInv == XmitOwner /\ SendLocked /\ Armed /\ WriteBackArmed

-----------------------------------------------------------------------------
(* Type correctness.                                                       *)

\* The incremented index is an index again, as the mask of __BUF_INCR ensures.
LEMMA IncrType == ASSUME NEW i \in RingIndex PROVE BUF_INCR(i) \in RingIndex
BY UartAssumption DEF BUF_INCR, RingIndex

\* Storing a byte keeps a ring a ring.
LEMMA PutType ==
    ASSUME NEW r \in RingType, NEW c \in AnyByte PROVE RingPut(r, c) \in RingType
BY IncrType DEF RingPut, RingType

\* Dropping the oldest byte keeps a ring a ring.
LEMMA DropType == ASSUME NEW r \in RingType PROVE RingDrop(r) \in RingType
BY IncrType DEF RingDrop, RingType

\* The buffers given to UARTSend are sequences of bytes.
LEMMA BufferType == ASSUME NEW p \in Buffers PROVE p \in Seq(AnyByte)
<1>1. PICK n \in 1 .. MaxBufLen : p \in [1 .. n -> AnyByte]
  BY DEF Buffers
<1>2. n \in Nat
  BY UartAssumption
<1> QED BY <1>1, <1>2

\* Sequences of bytes: the register with one byte, and a byte more.
LEMMA ByteSeq ==
    ASSUME NEW c \in AnyByte, NEW s \in Seq(AnyByte)
    PROVE  <<c>> \in Seq(AnyByte) /\ Append(s, c) \in Seq(AnyByte)
OBVIOUS

\* TypeOK is inductive: one step per action.
LEMMA TypeStep == TypeOK /\ [Next]_vars => TypeOK'
<1> SUFFICES ASSUME TypeOK, [Next]_vars PROVE TypeOK'
  OBVIOUS
<1> USE DEF TypeOK, ringVars, ierVars, hwVars, xmitVars, mainVars, lineVars, histVars
<1>1. CASE UNCHANGED vars
  BY <1>1 DEF vars
<1>m. {"loop", "exec", "send_put", "send_start", "send_xmit"} \subseteq MainSteps
  BY DEF MainSteps, SendSteps
<1>2. ASSUME NEW p \in Buffers, UARTSend(p) PROVE TypeOK'
  <2>1. txbuf' \in Seq(AnyByte) /\ ctx' \in {"loop", "exec"} /\ main' \in MainSteps
    BY <1>2, <1>m, BufferType DEF UARTSend
  <2>2. threOn' \in BOOLEAN
    BY <1>2, Zenon DEF UARTSend, SendLock
  <2> QED BY <1>2, <2>1, <2>2 DEF UARTSend
<1>3. CASE SendPut
  BY <1>3, PutType DEF SendPut, Goto, SendEnds, SendSteps, MainSteps
<1>4. CASE SendPutEnd
  BY <1>4 DEF SendPutEnd, Goto, SendSteps, MainSteps
<1>5. CASE SendStart
  <2>1. CASE TxIntStat
    <3>1. threOn' \in BOOLEAN
      BY <1>5, <2>1, Zenon DEF SendStart
    <3> QED BY <1>5, <1>m, <2>1, <3>1 DEF SendStart
  <2>2. CASE ~TxIntStat
    BY <1>5, <1>m, <2>2 DEF SendStart
  <2> QED BY <2>1, <2>2
<1>6. ASSUME NEW who \in {"isr", "main"}, IntTransmit(who) PROVE TypeOK'
  <2>1. CASE XmitDisable(who)
    BY <2>1 DEF XmitDisable
  <2>2. CASE XmitWait(who)
    BY <2>2 DEF XmitWait
  <2>3. CASE XmitFill(who)
    <3>1. tx.buf[tx.tail] \in AnyByte
      BY DEF RingType
    <3>2. tx' \in RingType
      BY <2>3, DropType DEF XmitFill
    <3>3. thr' \in Seq(AnyByte)
      <4>1. <<tx.buf[tx.tail]>> \in Seq(AnyByte)
        BY <3>1, ByteSeq
      <4> QED BY <2>3, <4>1 DEF XmitFill
    <3> QED BY <2>3, <3>2, <3>3 DEF XmitFill
  <2>4. CASE XmitDone(who)
    BY <2>4 DEF XmitDone, MainSteps
  <2> QED BY <1>6, <2>1, <2>2, <2>3, <2>4 DEF IntTransmit
<1>7. CASE ExecBegin \/ Idle
  BY <1>7 DEF ExecBegin, Idle, Goto, MainSteps, vars
<1>8. ASSUME NEW from, NEW to \in IerWrites, IerRead(from, to) PROVE TypeOK'
  BY <1>8 DEF IerRead, Goto, MainSteps
<1>9. ASSUME NEW from, NEW to \in MainSteps, NEW on \in BOOLEAN, IerWrite(from, to, on)
      PROVE TypeOK'
  <2>1. rbrOn' \in BOOLEAN /\ threOn' \in BOOLEAN /\ ierRead' \in BOOLEAN
    BY <1>9, Zenon DEF IerWrite
  <2> QED BY <1>9, <2>1 DEF IerWrite, Goto
<1>10. CASE RecvTake
  <2>1. rx.buf[rx.tail] \in AnyByte
    BY DEF RingType
  <2>2. rx' \in RingType
    BY <1>10, DropType DEF RecvTake
  <2>3. popped' \in Seq(AnyByte)
    <3>1. Append(popped, rx.buf[rx.tail]) \in Seq(AnyByte)
      BY <2>1, ByteSeq
    <3> QED BY <1>10, <3>1 DEF RecvTake
  <2>4. main' \in MainSteps
    BY <1>10 DEF RecvTake, MainSteps
  <2> QED BY <1>10, <2>2, <2>3, <2>4 DEF RecvTake
<1>11. CASE ExecEnd
  <2>1. LINE_READY' \in BOOLEAN
    BY <1>11, Zenon DEF ExecEnd
  <2> QED BY <1>11, <1>m, <2>1 DEF ExecEnd, Goto
<1>12. CASE IsrEnter
  BY <1>12 DEF IsrEnter
<1>13. CASE IntReceive
  <2>1. Head(rbr) \in AnyByte /\ Tail(rbr) \in Seq(AnyByte)
    BY <1>13 DEF IntReceive
  <2>2. rx' \in RingType
    BY <1>13, <2>1, PutType DEF IntReceive
  <2>3. UART_LINE_LEN' \in Nat /\ LINE_READY' \in BOOLEAN
    <3>1. CASE Head(rbr) = CR
      BY <1>13, <3>1 DEF IntReceive, LineChar
    <3>2. CASE Head(rbr) # CR
      BY <1>13, <3>2 DEF IntReceive, LineChar
    <3> QED BY <3>1, <3>2
  <2> QED BY <1>13, <2>1, <2>2, <2>3 DEF IntReceive
<1>14. CASE IntReceiveEnd
  BY <1>14 DEF IntReceiveEnd
<1>15. CASE IntErr
  BY <1>15 DEF IntErr, vars
<1>16. CASE Hardware
  <2>1. CASE ShiftLoad
    BY <2>1 DEF ShiftLoad
  <2>2. CASE ShiftOut
    BY <2>2 DEF ShiftOut
  <2>3. ASSUME NEW c \in AnyByte, Arrive(c) PROVE TypeOK'
    <3>1. Append(rbr, c) \in Seq(AnyByte)
      BY <2>3, ByteSeq
    <3>2. rbr' \in Seq(AnyByte) /\ lineError' \in BOOLEAN
      BY <2>3, <3>1 DEF Arrive
    <3>3. rxCount' \in Nat
      BY <2>3 DEF Arrive
    <3> QED BY <2>3, <3>2, <3>3 DEF Arrive
  <2> QED BY <1>16, <2>1, <2>2, <2>3 DEF Hardware
<1>17. CASE Main
  <2> HIDE DEF TypeOK
  <2>1. "recv_disable_write" \in IerWrites /\ "recv_enable_write" \in IerWrites
        /\ "recv_enable_last_write" \in IerWrites
        /\ "recv_take" \in MainSteps /\ "recv_disable" \in MainSteps /\ "exec" \in MainSteps
        /\ RbrReEnabled \in BOOLEAN
    BY DEF IerWrites, MainSteps, RbrReEnabled
  <2> QED
    BY <1>17, <2>1, <1>2, <1>3, <1>4, <1>5, <1>6, <1>7, <1>8, <1>9, <1>10, <1>11
    DEF Main, SendXmit
<1>18. CASE Isr
  BY <1>18, <1>6, <1>12, <1>13, <1>14, <1>15 DEF Isr
<1> QED BY <1>1, <1>16, <1>17, <1>18 DEF Next

\* The types hold at the start.
LEMMA TypeInit == Init => TypeOK
<1>1. EmptyRing \in RingType
  BY UartAssumption DEF EmptyRing, RingType, RingIndex, AnyByte
<1>2. <<>> \in Seq(AnyByte)
  OBVIOUS
<1> SUFFICES ASSUME Init PROVE TypeOK
  OBVIOUS
<1>3. tx \in RingType /\ rx \in RingType
  BY <1>1 DEF Init
<1>4. thr \in Seq(AnyByte) /\ tsr \in Seq(AnyByte) /\ rbr \in Seq(AnyByte)
      /\ txbuf \in Seq(AnyByte) /\ sent \in Seq(AnyByte) /\ popped \in Seq(AnyByte)
  BY <1>2 DEF Init
<1>5. TxIntStat \in BOOLEAN /\ threOn \in BOOLEAN /\ rbrOn \in BOOLEAN /\ ierRead \in BOOLEAN
      /\ lineError \in BOOLEAN /\ LINE_READY \in BOOLEAN
  BY DEF Init
<1>6. isr = "off" /\ xmit = "off" /\ xmitBy = "main" /\ ctx = "loop" /\ main = "loop"
      /\ main \in MainSteps
  BY DEF Init, MainSteps
<1>7. UART_LINE_LEN \in Nat /\ rxCount \in Nat
  BY DEF Init
<1> QED BY <1>3, <1>4, <1>5, <1>6, <1>7 DEF TypeOK

\* Type correctness: the indices of both rings stay inside their storage and
\* every control variable keeps to its steps, in every reachable state.
THEOREM TypeCorrect == Spec => []TypeOK
BY TypeInit, TypeStep, PTL DEF Spec

-----------------------------------------------------------------------------
(* Who moves bytes, and that somebody always will.                         *)

\* TxInv holds at the start: nothing runs and the ring is empty.
LEMMA TxInvInit == Init => TxInv
BY DEF Init, TxInv, XmitOwner, SendLocked, Armed, WriteBackArmed, SendSteps, IerWrites,
       BUF_IS_EMPTY, EmptyRing

\* TxInv is inductive relative to TypeOK: one step per action.
LEMMA TxInvStep == TypeOK /\ TxInv /\ [Next]_vars => TxInv'
<1> SUFFICES ASSUME TypeOK, TxInv, [Next]_vars PROVE TxInv'
  OBVIOUS
<1> USE DEF TxInv, XmitOwner, SendLocked, Armed, WriteBackArmed, SendSteps, IerWrites,
            ringVars, ierVars, hwVars, xmitVars, mainVars, lineVars, histVars
<1>0. /\ threOn \in BOOLEAN /\ TxIntStat \in BOOLEAN /\ ierRead \in BOOLEAN
      /\ main \in MainSteps /\ ctx \in {"loop", "exec"}
      /\ isr \in {"off", "rx", "tx", "err"}
      /\ xmitBy \in {"isr", "main"}
  BY DEF TypeOK
<1>1. CASE UNCHANGED vars
  BY <1>1 DEF vars, BUF_IS_EMPTY
<1>2. ASSUME NEW p \in Buffers, UARTSend(p) PROVE TxInv'
  BY <1>0, <1>2 DEF UARTSend, MainRuns, SendLock
<1>3. CASE SendPut
  BY <1>0, <1>3 DEF SendPut, Goto, MainRuns
<1>4. CASE SendPutEnd
  BY <1>0, <1>4 DEF SendPutEnd, Goto, MainRuns
<1>5. CASE SendStart
  BY <1>0, <1>5 DEF SendStart, MainRuns
<1>6. ASSUME NEW who \in {"isr", "main"}, IntTransmit(who) PROVE TxInv'
  <2>1. CASE XmitDisable(who)
    BY <1>0, <2>1 DEF XmitDisable, Xmit, Running
  <2>2. CASE XmitWait(who)
    BY <1>0, <2>2 DEF XmitWait, Xmit, Running
  <2>3. CASE XmitFill(who)
    BY <1>0, <2>3 DEF XmitFill, Xmit, Running
  <2>4. CASE XmitDone(who)
    BY <1>0, <2>4 DEF XmitDone, Xmit, Running, TxIdle
  <2> QED BY <1>6, <2>1, <2>2, <2>3, <2>4 DEF IntTransmit
<1>7. CASE ExecBegin
  BY <1>0, <1>7 DEF ExecBegin, Goto, MainRuns
<1>8. ASSUME NEW from \in {"recv_disable", "recv_enable", "recv_enable_last"},
             NEW to \in IerWrites, IerRead(from, to)
      PROVE  TxInv'
  BY <1>0, <1>8 DEF IerRead, Goto, MainRuns
<1>9. ASSUME NEW from \in IerWrites, NEW to \in {"recv_take", "recv_disable", "exec"},
             NEW on, IerWrite(from, to, on)
      PROVE  TxInv'
  BY <1>0, <1>9 DEF IerWrite, Goto, MainRuns
<1>10. CASE RecvTake \/ ExecEnd \/ Idle
  BY <1>0, <1>10 DEF RecvTake, ExecEnd, Idle, Goto, MainRuns, vars
<1>11. CASE IsrEnter
  BY <1>0, <1>11 DEF IsrEnter, UartDue, ThreDue
<1>12. CASE IntReceive \/ IntReceiveEnd \/ IntErr
  BY <1>0, <1>12 DEF IntReceive, IntReceiveEnd, IntErr, vars
<1>13. CASE Hardware
  BY <1>13 DEF Hardware, ShiftLoad, ShiftOut, Arrive
<1>14. CASE Main
  <2> HIDE DEF TxInv
  <2> QED BY <1>14, <1>2, <1>3, <1>4, <1>5, <1>6, <1>7, <1>8, <1>9, <1>10 DEF Main, SendXmit
<1>15. CASE Isr
  BY <1>15, <1>6, <1>11, <1>12 DEF Isr
<1> QED BY <1>1, <1>13, <1>14, <1>15 DEF Next

\* The inductive invariant, for every behaviour of UartRing.
LEMMA Invariance == Spec => [](TypeOK /\ TxInv)
<1>1. Init => TypeOK /\ TxInv
  BY TypeInit, TxInvInit
<1> QED BY <1>1, TypeStep, TxInvStep, PTL DEF Spec

\* No lost wakeup: whatever the interleaving of UARTSend, UARTReceive's
\* read-modify-write of IER, the interrupt and the transmitter, bytes left
\* in the ring always have the THRE interrupt armed.
THEOREM WakeupNeverLost == Spec => []NoLostWakeup
<1>1. TxInv => NoLostWakeup
  BY DEF TxInv, Armed, NoLostWakeup, TxQuiet
<1> QED BY <1>1, Invariance, PTL

\* UARTSend's lock excludes UART_IntTransmit from the ring it is changing,
\* and UART_IntTransmit never runs in both contexts at once.
THEOREM SendExcludesTransmit == Spec => []TxExclusive
<1>1. TxInv => TxExclusive
  BY DEF TxInv, SendLocked, SendSteps, TxExclusive
<1> QED BY <1>1, Invariance, PTL

-----------------------------------------------------------------------------
(* One byte at a time, as comm_put sends.                                  *)

\* The transmit ring holds exactly one byte.
OneByte == tx.head = BUF_INCR(tx.tail)

AtMostOneByte == BUF_IS_EMPTY(tx) \/ OneByte

\* The THRE interrupt is never used: not enabled, not about to be written
\* back, not recorded, not running.
ThreUnused == ~threOn /\ ~ierRead /\ ~TxIntStat /\ isr # "tx"

\* Where the one byte of the UARTSend under way is.
ByteOnItsWay ==
    /\ main \notin SendSteps => BUF_IS_EMPTY(tx)
    /\ main = "send_put" => \/ BUF_IS_EMPTY(tx) /\ Len(txbuf) <= 1
                            \/ OneByte /\ txbuf = <<>>
    /\ main = "send_start" => AtMostOneByte
    /\ main = "send_xmit" => /\ xmit \in {"disable", "wait"} => AtMostOneByte
                             /\ xmit = "fill" => BUF_IS_EMPTY(tx) \/ (OneByte /\ thr = <<>>)
                             /\ xmit = "done" => BUF_IS_EMPTY(tx)

SyncInv == ThreUnused /\ ByteOnItsWay

\* A byte put into an empty ring is its only byte; taken out, none is left.
LEMMA PutOne ==
    ASSUME NEW r \in RingType, NEW c, BUF_IS_EMPTY(r)
    PROVE  RingPut(r, c).head = BUF_INCR(RingPut(r, c).tail)
BY DEF RingPut, RingType, BUF_IS_EMPTY

\* Dropping the only byte empties the ring.
LEMMA DropOne ==
    ASSUME NEW r \in RingType, r.head = BUF_INCR(r.tail)
    PROVE  BUF_IS_EMPTY(RingDrop(r))
BY DEF RingDrop, RingType, BUF_IS_EMPTY

\* Buffers of one byte, and what is left of them.
LEMMA OneByteBuffer ==
    ASSUME MaxBufLen = 1, NEW p \in Buffers
    PROVE  p \in Seq(AnyByte) /\ Len(p) <= 1
<1>1. PICK n \in 1 .. MaxBufLen : p \in [1 .. n -> AnyByte]
  BY DEF Buffers
<1>2. p \in Seq(AnyByte) /\ DOMAIN p = 1 .. 1
  BY <1>1, BufferType, UartAssumption
<1>3. Len(p) \in Nat /\ DOMAIN p = 1 .. Len(p)
  BY <1>2, LenProperties
<1> QED BY <1>2, <1>3

\* Nothing is left of one byte once it is sent.
LEMMA TailOfOne ==
    ASSUME NEW s \in Seq(AnyByte), s # <<>>, Len(s) <= 1
    PROVE  Tail(s) = <<>>
OBVIOUS

\* SyncInv is inductive relative to TypeOK and TxInv: one step per action.
LEMMA SyncStep ==
    ASSUME MaxBufLen = 1 PROVE TypeOK /\ TxInv /\ SyncInv /\ [Next]_vars => SyncInv'
<1> SUFFICES ASSUME TypeOK, TxInv, SyncInv, [Next]_vars PROVE SyncInv'
  OBVIOUS
<1> USE DEF SyncInv, ThreUnused, ByteOnItsWay, AtMostOneByte, OneByte, SendSteps,
            ringVars, ierVars, hwVars, xmitVars, mainVars, lineVars, histVars
<1>0. /\ threOn \in BOOLEAN /\ TxIntStat \in BOOLEAN /\ ierRead \in BOOLEAN
      /\ main \in MainSteps /\ ctx \in {"loop", "exec"}
      /\ isr \in {"off", "rx", "tx", "err"}
      /\ xmit \in {"off", "disable", "wait", "fill", "done"} /\ xmitBy \in {"isr", "main"}
      /\ tx \in RingType /\ txbuf \in Seq(AnyByte)
  BY DEF TypeOK
<1>1. CASE UNCHANGED vars
  BY <1>1 DEF vars, BUF_IS_EMPTY
<1>2. ASSUME NEW p \in Buffers, UARTSend(p) PROVE SyncInv'
  BY <1>0, <1>2, OneByteBuffer DEF UARTSend, SendLock, BUF_IS_EMPTY
<1>3. CASE SendPut
  <2>1. BUF_IS_EMPTY(tx) /\ Len(txbuf) <= 1 /\ txbuf # <<>>
    BY <1>0, <1>3 DEF SendPut, SendEnds, Goto
  <2>2. txbuf' = <<>>
    BY <1>0, <1>3, <2>1, TailOfOne DEF SendPut
  <2>3. OneByte'
    BY <1>0, <1>3, <2>1, PutOne DEF SendPut
  <2> QED BY <1>0, <1>3, <2>2, <2>3 DEF SendPut, Goto
<1>4. CASE SendPutEnd
  BY <1>0, <1>4 DEF SendPutEnd, Goto, BUF_IS_EMPTY
<1>5. CASE SendStart
  BY <1>0, <1>5 DEF SendStart, BUF_IS_EMPTY
<1>6. ASSUME NEW who \in {"isr", "main"}, IntTransmit(who) PROVE SyncInv'
  <2>0. who = "main" /\ main = "send_xmit"
    BY <1>6 DEF IntTransmit, XmitDisable, XmitWait, XmitFill, XmitDone, Xmit, Running
  <2>1. CASE XmitDisable(who)
    BY <1>0, <2>0, <2>1 DEF XmitDisable, Xmit, BUF_IS_EMPTY
  <2>2. CASE XmitWait(who)
    BY <1>0, <2>0, <2>2 DEF XmitWait, Xmit, TransmitterFree, BUF_IS_EMPTY
  <2>3. CASE XmitFill(who)
    <3>1. CASE BUF_IS_EMPTY(tx)
      BY <1>0, <2>0, <2>3, <3>1 DEF XmitFill, Xmit, BUF_IS_EMPTY
    <3>2. CASE ~BUF_IS_EMPTY(tx)
      <4>1. OneByte /\ thr = <<>>
        BY <2>0, <2>3, <3>2 DEF XmitFill, Xmit
      <4>2. tx' = RingDrop(tx)
        BY <2>3, <3>2, <4>1 DEF XmitFill
      <4>3. BUF_IS_EMPTY(tx')
        BY <1>0, <4>1, <4>2, DropOne
      <4>4. ThreUnused'
        BY <2>3 DEF XmitFill
      <4>5. main' = "send_xmit" /\ xmit' = "fill"
        BY <2>0, <2>3, <3>2, <4>1 DEF XmitFill, Xmit
      <4> QED BY <4>3, <4>4, <4>5 DEF BUF_IS_EMPTY
    <3> QED BY <3>1, <3>2
  <2>4. CASE XmitDone(who)
    BY <1>0, <2>0, <2>4 DEF XmitDone, Xmit, TxIdle, BUF_IS_EMPTY
  <2> QED BY <1>6, <2>1, <2>2, <2>3, <2>4 DEF IntTransmit
<1>7. CASE ExecBegin \/ RecvTake \/ ExecEnd \/ Idle
  BY <1>0, <1>7 DEF ExecBegin, RecvTake, ExecEnd, Idle, Goto, vars, BUF_IS_EMPTY
<1>8. ASSUME NEW from \in MainSteps \ SendSteps, NEW to \in MainSteps \ SendSteps,
             IerRead(from, to)
      PROVE  SyncInv'
  BY <1>0, <1>8 DEF IerRead, Goto, BUF_IS_EMPTY
<1>9. ASSUME NEW from \in MainSteps \ SendSteps, NEW to \in MainSteps \ SendSteps,
             NEW on, IerWrite(from, to, on)
      PROVE  SyncInv'
  BY <1>0, <1>9 DEF IerWrite, Goto, BUF_IS_EMPTY
<1>10. CASE IsrEnter
  BY <1>0, <1>10 DEF IsrEnter, UartDue, ThreDue, RlsDue, RdaDue, BUF_IS_EMPTY
<1>11. CASE IntReceive \/ IntReceiveEnd \/ IntErr
  BY <1>0, <1>11 DEF IntReceive, IntReceiveEnd, IntErr, vars, BUF_IS_EMPTY
<1>12. CASE Hardware
  BY <1>0, <1>12 DEF Hardware, ShiftLoad, ShiftOut, Arrive, BUF_IS_EMPTY
<1>13. CASE Main
  <2>1. /\ {"recv_disable", "recv_enable", "recv_enable_last", "recv_take", "exec"}
             \subseteq MainSteps \ SendSteps
        /\ IerWrites \subseteq MainSteps \ SendSteps
    BY DEF MainSteps, IerWrites
  <2>2. /\ "recv_disable_write" \in IerWrites /\ "recv_enable_write" \in IerWrites
        /\ "recv_enable_last_write" \in IerWrites
    BY DEF IerWrites
  <2> HIDE DEF SyncInv, SendSteps
  <2> QED
    BY <1>13, <2>1, <2>2, <1>2, <1>3, <1>4, <1>5, <1>6, <1>7, <1>8, <1>9 DEF Main, SendXmit
<1>14. CASE Isr
  <2> HIDE DEF SyncInv
  <2> QED BY <1>14, <1>6, <1>10, <1>11 DEF Isr
<1> QED BY <1>1, <1>12, <1>13, <1>14 DEF Next

\* With buffers of one byte, as comm_put passes them, UARTSend returns only
\* when its byte is in the transmitter, and the THRE interrupt that
\* UART_IntTransmit and TxIntStat exist for is never enabled.
THEOREM OneByteSendIsSynchronous ==
    ASSUME MaxBufLen = 1 PROVE Spec => []SendIsSynchronous
<1>1. Init => SyncInv
  BY DEF Init, SyncInv, ThreUnused, ByteOnItsWay, AtMostOneByte, SendSteps, BUF_IS_EMPTY, EmptyRing
<1>2. SyncInv => SendIsSynchronous
  BY DEF SyncInv, ThreUnused, ByteOnItsWay, SendIsSynchronous, TxQuiet
<1> QED BY <1>1, <1>2, SyncStep, Invariance, PTL DEF Spec

-----------------------------------------------------------------------------
(* Both directions implement ByteQueue.                                    *)

\* The number of bytes in a ring.
Fill(r) == (UART_RING_BUFSIZE + r.head - r.tail) % UART_RING_BUFSIZE

\* It, without the remainder.
LEMMA FillIs ==
    ASSUME NEW r \in RingType
    PROVE  /\ Fill(r) = IF r.tail <= r.head THEN r.head - r.tail
                        ELSE UART_RING_BUFSIZE + r.head - r.tail
           /\ Fill(r) \in RingIndex
           /\ Fill(r) = 0 <=> BUF_IS_EMPTY(r)
<1> DEFINE n == UART_RING_BUFSIZE
           h == r.head
           t == r.tail
<1>1. n \in Nat /\ n > 0 /\ h \in 0 .. n - 1 /\ t \in 0 .. n - 1
  BY UartAssumption DEF RingType, RingIndex
<1>2. Fill(r) = (n + h - t) % n
  BY DEF Fill
<1> HIDE DEF n, h, t
<1>3. Fill(r) = IF t <= h THEN h - t ELSE n + h - t
  BY <1>1, <1>2, RingDistance
<1>4. Fill(r) \in 0 .. n - 1 /\ (Fill(r) = 0 <=> h = t)
  BY <1>1, <1>3
<1> QED BY <1>3, <1>4 DEF n, h, t, RingIndex, BUF_IS_EMPTY

\* The next index, without the remainder.
LEMMA IncrIs ==
    ASSUME NEW i \in RingIndex
    PROVE  BUF_INCR(i) = IF i = UART_RING_BUFSIZE - 1 THEN 0 ELSE i + 1
<1> DEFINE n == UART_RING_BUFSIZE
           a == i + 1
<1>1. n \in Nat /\ n > 0 /\ a \in 0 .. 2 * n - 1 /\ i \in 0 .. n - 1
  BY UartAssumption DEF RingIndex
<1>2. BUF_INCR(i) = a % n
  BY DEF BUF_INCR
<1> HIDE DEF n, a
<1>3. BUF_INCR(i) = IF a < n THEN a ELSE a - n
  BY <1>1, <1>2, Wrap
<1> QED BY <1>1, <1>3 DEF a, n

\* The bytes of a ring are a sequence.
LEMMA ContentsIs ==
    ASSUME NEW r \in RingType
    PROVE  /\ RingContents(r) \in Seq(AnyByte)
           /\ Len(RingContents(r)) = Fill(r)
           /\ \A i \in 1 .. Fill(r) :
                  RingContents(r)[i] = r.buf[IF r.tail + i - 1 < UART_RING_BUFSIZE
                                             THEN r.tail + i - 1
                                             ELSE r.tail + i - 1 - UART_RING_BUFSIZE]
<1> DEFINE n == Fill(r)
           size == UART_RING_BUFSIZE
           t == r.tail
           at(i) == (t + i - 1) % size
<1>1. /\ size \in Nat /\ size > 0 /\ t \in 0 .. size - 1 /\ n \in Nat /\ n < size
      /\ r.buf \in [0 .. size - 1 -> AnyByte]
  BY FillIs, UartAssumption DEF RingType, RingIndex
<1>4. RingContents(r) = [i \in 1 .. n |-> r.buf[at(i)]]
  BY DEF RingContents, Fill
<1> HIDE DEF n, size, t
<1>3. ASSUME NEW i \in 1 .. n
      PROVE  /\ at(i) = IF t + i - 1 < size THEN t + i - 1 ELSE t + i - 1 - size
             /\ at(i) \in 0 .. size - 1
  <2> DEFINE a == t + i - 1
  <2>1. a \in 0 .. 2 * size - 1
    BY <1>1
  <2>2. at(i) = a % size
    OBVIOUS
  <2> HIDE DEF a, at
  <2>3. at(i) = IF a < size THEN a ELSE a - size
    BY <1>1, <2>1, <2>2, Wrap
  <2>4. at(i) \in 0 .. size - 1
    BY <1>1, <2>1, <2>3
  <2> QED BY <1>1, <2>3, <2>4 DEF a
<1> HIDE DEF at
<1>5. RingContents(r) \in [1 .. n -> AnyByte]
  BY <1>1, <1>3, <1>4
<1>6. RingContents(r) \in Seq(AnyByte) /\ Len(RingContents(r)) = n
  BY <1>1, <1>5
<1>7. \A i \in 1 .. n : RingContents(r)[i] = r.buf[at(i)]
  BY <1>4
<1> QED BY <1>3, <1>6, <1>7 DEF n, size, t

\* A byte put into a ring with room becomes its last.
LEMMA PutLast ==
    ASSUME NEW r \in RingType, NEW c \in AnyByte, ~BUF_IS_FULL(r)
    PROVE  RingContents(RingPut(r, c)) = RingContents(r) \o <<c>>
<1> DEFINE g == RingPut(r, c)
           n == UART_RING_BUFSIZE
<1>1. /\ r.head \in 0 .. n - 1 /\ r.tail \in 0 .. n - 1 /\ r.buf \in [0 .. n - 1 -> AnyByte]
      /\ n \in Nat /\ n > 1
  BY UartAssumption DEF RingType, RingIndex
<1>2. /\ g \in RingType /\ g.head = BUF_INCR(r.head) /\ g.tail = r.tail
      /\ g.buf = [r.buf EXCEPT ![r.head] = c]
  BY PutType DEF RingPut, RingType
<1> HIDE DEF g
<1>3. BUF_INCR(r.head) = IF r.head = n - 1 THEN 0 ELSE r.head + 1
  BY IncrIs DEF RingType
<1>4. /\ Fill(r) = IF r.tail <= r.head THEN r.head - r.tail ELSE n + r.head - r.tail
      /\ Fill(g) = IF g.tail <= g.head THEN g.head - g.tail ELSE n + g.head - g.tail
  BY <1>2, FillIs
<1>5. r.tail # BUF_INCR(r.head)
  BY DEF BUF_IS_FULL
<1> HIDE DEF n
<1>6. Fill(g) = Fill(r) + 1 /\ Fill(r) \in Nat /\ Fill(r) < n - 1
  BY <1>1, <1>2, <1>3, <1>4, <1>5
<1> DEFINE s == RingContents(g)
           a == RingContents(r)
           b == <<c>>
<1>7. a \in Seq(AnyByte) /\ Len(a) = Fill(r) /\ s \in Seq(AnyByte) /\ Len(s) = Fill(r) + 1
      /\ b \in Seq(AnyByte) /\ Len(b) = 1 /\ b[1] = c
  BY <1>2, <1>6, ContentsIs
<1> DEFINE at(i) == IF r.tail + i - 1 < n THEN r.tail + i - 1 ELSE r.tail + i - 1 - n
<1>8. /\ \A i \in 1 .. Fill(r) : a[i] = r.buf[at(i)]
      /\ \A i \in 1 .. Fill(r) + 1 : s[i] = g.buf[at(i)]
  BY <1>2, <1>6, ContentsIs DEF n
<1> HIDE DEF s, a, b
<1>9. ASSUME NEW i \in 1 .. Fill(r) PROVE a[i] = s[i]
  <2>0. i \in 1 .. Fill(r) + 1 /\ i # Fill(r) + 1
    BY <1>6
  <2>1. at(i) \in 0 .. n - 1 /\ at(i) # r.head
    BY <1>1, <1>4, <2>0, RingSlot
  <2> HIDE DEF at
  <2>2. g.buf[at(i)] = r.buf[at(i)]
    BY <1>1, <1>2, <2>1
  <2>3. i \in 1 .. Fill(r) + 1
    BY <1>6
  <2> QED BY <1>8, <2>2, <2>3
<1>10. s[Fill(r) + 1] = c
  <2> DEFINE i == Fill(r) + 1
  <2>0. i \in 1 .. Fill(r) + 1
    BY <1>6
  <2>1. i \in 1 .. Fill(r) + 1 /\ at(i) = r.head
    BY <1>1, <1>4, <2>0, RingSlot
  <2>2. s[i] = g.buf[at(i)]
    BY <1>8, <2>1
  <2> HIDE DEF at, i
  <2> QED BY <1>1, <1>2, <2>1, <2>2 DEF i
<1>11. s = a \o b
  <2>1. ASSUME NEW i \in 1 .. Len(b) PROVE b[i] = s[Len(a) + i]
    <3>1. i = 1
      BY <1>7
    <3> QED BY <1>7, <1>10, <3>1
  <2>2. Len(s) = Len(a) + Len(b) /\ \A i \in 1 .. Len(a) : a[i] = s[i]
    BY <1>6, <1>7, <1>9
  <2> QED BY <1>7, <2>1, <2>2, TwoPieces
<1> QED BY <1>11 DEF s, a, b, g

\* The first byte of a ring is the one at its tail, and dropping it leaves the
\* others.
LEMMA DropFirst ==
    ASSUME NEW r \in RingType, ~BUF_IS_EMPTY(r)
    PROVE  RingContents(r) = <<r.buf[r.tail]>> \o RingContents(RingDrop(r))
<1> DEFINE g == RingDrop(r)
           n == UART_RING_BUFSIZE
<1>1. /\ r.head \in 0 .. n - 1 /\ r.tail \in 0 .. n - 1 /\ r.buf \in [0 .. n - 1 -> AnyByte]
      /\ n \in Nat /\ n > 1
  BY UartAssumption DEF RingType, RingIndex
<1>2. g \in RingType /\ g.head = r.head /\ g.tail = BUF_INCR(r.tail) /\ g.buf = r.buf
  BY DropType DEF RingDrop, RingType
<1> HIDE DEF g
<1>3. BUF_INCR(r.tail) = IF r.tail = n - 1 THEN 0 ELSE r.tail + 1
  BY IncrIs DEF RingType
<1>4. /\ Fill(r) = IF r.tail <= r.head THEN r.head - r.tail ELSE n + r.head - r.tail
      /\ Fill(g) = IF g.tail <= g.head THEN g.head - g.tail ELSE n + g.head - g.tail
  BY <1>2, FillIs
<1>5. r.tail # r.head
  BY DEF BUF_IS_EMPTY
<1> HIDE DEF n
<1>6. Fill(r) = 1 + Fill(g) /\ Fill(g) \in Nat /\ Fill(r) < n
  BY <1>1, <1>2, <1>3, <1>4, <1>5
<1> DEFINE s == RingContents(r)
           a == <<r.buf[r.tail]>>
           b == RingContents(g)
<1>7. s \in Seq(AnyByte) /\ Len(s) = Fill(r) /\ b \in Seq(AnyByte) /\ Len(b) = Fill(g)
      /\ a \in Seq(AnyByte) /\ Len(a) = 1 /\ a[1] = r.buf[r.tail]
  BY <1>1, <1>2, ContentsIs
<1> DEFINE at(i) == IF r.tail + i - 1 < n THEN r.tail + i - 1 ELSE r.tail + i - 1 - n
           bt(i) == IF g.tail + i - 1 < n THEN g.tail + i - 1 ELSE g.tail + i - 1 - n
<1>8. /\ \A i \in 1 .. Fill(r) : s[i] = r.buf[at(i)]
      /\ \A i \in 1 .. Fill(g) : b[i] = r.buf[bt(i)]
  BY <1>2, ContentsIs DEF n
<1> HIDE DEF s, a, b
<1>9. ASSUME NEW i \in 1 .. Len(b) PROVE b[i] = s[Len(a) + i]
  <2>1. 1 + i \in 1 .. Fill(r) /\ i \in 1 .. Fill(g)
    BY <1>6, <1>7
  <2>2. at(1 + i) = bt(i)
    <3>1. i \in 1 .. n - 1
      BY <1>1, <1>6, <2>1
    <3>2. g.tail = IF r.tail = n - 1 THEN 0 ELSE r.tail + 1
      BY <1>2, <1>3
    <3> QED BY <1>1, <3>1, <3>2, RingNext
  <2> HIDE DEF at, bt
  <2> QED BY <1>7, <1>8, <2>1, <2>2
<1>10. ASSUME NEW i \in 1 .. Len(a) PROVE a[i] = s[i]
  <2>1. i = 1 /\ 1 \in 1 .. Fill(r) /\ at(1) = r.tail
    BY <1>1, <1>6, <1>7
  <2> HIDE DEF at
  <2> QED BY <1>7, <1>8, <2>1
<1>11. s = a \o b
  <2>1. Len(s) = Len(a) + Len(b)
    BY <1>6, <1>7
  <2> QED BY <1>7, <1>9, <1>10, <2>1, TwoPieces
<1> QED BY <1>11 DEF s, a, b, g

\* A queue that takes over some bytes at its end.
LEMMA QueueGrows ==
    ASSUME NEW q \in Seq(AnyByte), NEW p \in Seq(AnyByte), Len(p) > 0
    PROVE  Len(q \o p) > Len(q) /\ SubSeq(q \o p, 1, Len(q)) = q
<1>1. Len(q \o p) = Len(q) + Len(p) /\ SubSeq(q \o p, 1, Len(q)) = q
  BY ConcatParts
<1>2. Len(q) \in Nat /\ Len(p) \in Nat
  OBVIOUS
<1>3. Len(q) + Len(p) > Len(q)
  BY <1>2
<1> QED BY <1>1, <1>3, Zenon

\* A queue whose first bytes leave.
LEMMA QueueShrinks ==
    ASSUME NEW a \in Seq(AnyByte), NEW b \in Seq(AnyByte), a # <<>>
    PROVE  /\ Len(a) \in 1 .. Len(a \o b) /\ SubSeq(a \o b, 1, Len(a)) = a
           /\ SubSeq(a \o b, Len(a) + 1, Len(a \o b)) = b
<1>1. /\ Len(a \o b) = Len(a) + Len(b) /\ SubSeq(a \o b, 1, Len(a)) = a
      /\ SubSeq(a \o b, Len(a) + 1, Len(a \o b)) = b
  BY ConcatParts
<1>2. Len(a) \in Nat /\ Len(b) \in Nat /\ Len(a) # 0
  OBVIOUS
<1>3. Len(a) \in 1 .. Len(a) + Len(b)
  BY <1>2
<1> QED BY <1>1, <1>3, Zenon

\* An empty part changes nothing.
LEMMA EmptyParts ==
    ASSUME NEW a \in Seq(AnyByte) PROVE a \o <<>> = a /\ <<>> \o a = a
BY ConcatEmptySeq

\* What is in flight, before and after a step.
LEMMA InFlightPrimed ==
    /\ TxInFlight' = (tsr' \o thr') \o RingContents(tx')
    /\ RingContents(rx)' = RingContents(rx')
BY DEF TxInFlight, RingContents

\* The parts of what is in flight are sequences of bytes.
LEMMA InFlightBytes ==
    ASSUME TypeOK
    PROVE  /\ tsr \in Seq(AnyByte) /\ thr \in Seq(AnyByte) /\ RingContents(tx) \in Seq(AnyByte)
           /\ tsr \o thr \in Seq(AnyByte) /\ TxInFlight \in Seq(AnyByte)
           /\ RingContents(rx) \in Seq(AnyByte) /\ sent \in Seq(AnyByte) /\ popped \in Seq(AnyByte)
<1>1. /\ tx \in RingType /\ rx \in RingType /\ tsr \in Seq(AnyByte) /\ thr \in Seq(AnyByte)
      /\ sent \in Seq(AnyByte) /\ popped \in Seq(AnyByte)
  BY DEF TypeOK
<1>2. RingContents(tx) \in Seq(AnyByte) /\ RingContents(rx) \in Seq(AnyByte)
  BY <1>1, ContentsIs
<1>3. tsr \o thr \in Seq(AnyByte)
  BY <1>1, ConcatParts
<1>4. (tsr \o thr) \o RingContents(tx) \in Seq(AnyByte)
  BY <1>2, <1>3, ConcatParts
<1> QED BY <1>1, <1>2, <1>3, <1>4 DEF TxInFlight

\* UARTSend puts a byte at the end of the queue.
LEMMA SendAccepts == ASSUME TypeOK, SendPut PROVE TxQueue!Accept
<1> DEFINE q == TxInFlight
           a == tsr \o thr
           c == RingContents(tx)
           b == <<Head(txbuf)>>
<1>1. /\ ~BUF_IS_FULL(tx) /\ tx' = RingPut(tx, Head(txbuf)) /\ txbuf # <<>>
      /\ tsr' = tsr /\ thr' = thr /\ sent' = sent /\ tx \in RingType /\ txbuf \in Seq(AnyByte)
  BY DEF SendPut, SendEnds, Goto, TypeOK, hwVars, histVars
<1>2. Head(txbuf) \in AnyByte /\ b \in Seq(AnyByte) /\ Len(b) = 1
  BY <1>1
<1>3. RingContents(tx') = c \o b
  BY <1>1, <1>2, PutLast
<1>4. a \in Seq(AnyByte) /\ c \in Seq(AnyByte) /\ q \in Seq(AnyByte)
  BY InFlightBytes
<1>5. q = a \o c /\ q' = a \o (c \o b)
  BY <1>1, <1>3, InFlightPrimed DEF TxInFlight
<1> HIDE DEF q, a, c, b
<1>6. q' = q \o b
  <2>1. Cat(Cat(a, c), b) = Cat(a, Cat(c, b))
    BY <1>2, <1>4, CatAssoc
  <2> QED BY <1>5, <2>1, Zenon DEF Cat
<1>7. Len(q \o b) > Len(q) /\ SubSeq(q \o b, 1, Len(q)) = q
  <2>1. b \in Seq(AnyByte) /\ Len(b) > 0 /\ q \in Seq(AnyByte)
    BY <1>2, <1>4
  <2> QED BY <2>1, QueueGrows
<1>8. Len(q') > Len(q) /\ SubSeq(q', 1, Len(q)) = q
  BY <1>6, <1>7, Zenon
<1> QED BY <1>1, <1>8 DEF TxQueue!Accept, q

\* UART_IntTransmit moves a byte from the ring to the holding register.
LEMMA FillMoves ==
    ASSUME TypeOK, NEW who, XmitFill(who) PROVE TxInFlight' = TxInFlight /\ sent' = sent
<1>1. CASE BUF_IS_EMPTY(tx) \/ thr # <<>>
  BY <1>1, InFlightPrimed DEF XmitFill, TxInFlight, histVars
<1>2. CASE ~(BUF_IS_EMPTY(tx) \/ thr # <<>>)
  <2> DEFINE b == <<tx.buf[tx.tail]>>
             d == RingContents(RingDrop(tx))
             e == <<>>
             c == RingContents(tx)
             a == tsr
  <2>1. /\ thr = e /\ thr' = b /\ tx' = RingDrop(tx) /\ tsr' = tsr /\ sent' = sent
        /\ tx \in RingType /\ ~BUF_IS_EMPTY(tx)
    BY <1>2 DEF XmitFill, TypeOK, histVars
  <2>2. c = b \o d
    BY <2>1, DropFirst
  <2>3. tx.buf[tx.tail] \in AnyByte /\ RingDrop(tx) \in RingType
    BY <2>1, DropType DEF RingType
  <2>4. b \in Seq(AnyByte) /\ d \in Seq(AnyByte) /\ a \in Seq(AnyByte)
    BY <2>3, ByteSeq, ContentsIs, InFlightBytes
  <2>5. TxInFlight = (a \o e) \o c /\ TxInFlight' = (a \o b) \o d
    BY <2>1, InFlightPrimed DEF TxInFlight
  <2>6. a \o e = a
    BY <2>4, EmptyParts
  <2> HIDE DEF a, b, c, d, e
  <2>7. (a \o b) \o d = a \o (b \o d)
    BY <2>4, ConcatAssoc
  <2> QED BY <2>1, <2>2, <2>5, <2>6, <2>7, Zenon
<1> QED BY <1>1, <1>2

\* The hardware moves it on to the shift register.
LEMMA LoadMoves ==
    ASSUME TypeOK, ShiftLoad PROVE TxInFlight' = TxInFlight /\ sent' = sent
<1> DEFINE e == <<>>
           c == RingContents(tx)
           a == thr
<1>1. tsr = e /\ tsr' = a /\ thr' = e /\ tx' = tx /\ sent' = sent
  BY DEF ShiftLoad, ringVars, histVars
<1>2. a \in Seq(AnyByte)
  BY InFlightBytes
<1>3. a \o e = a /\ e \o a = a
  BY <1>2, EmptyParts
<1>4. TxInFlight = (e \o a) \o c /\ TxInFlight' = (a \o e) \o c
  BY <1>1, InFlightPrimed DEF TxInFlight
<1> HIDE DEF a, c, e
<1> QED BY <1>1, <1>3, <1>4, Zenon

\* A byte on the wire has left the queue, the oldest first.
LEMMA ShiftDelivers == ASSUME TypeOK, ShiftOut PROVE TxQueue!Deliver
<1> DEFINE q == TxInFlight
           e == <<>>
           a == tsr
           b == thr
           c == RingContents(tx)
<1>1. a # <<>> /\ sent' = sent \o a /\ tsr' = e /\ thr' = thr /\ tx' = tx
  BY DEF ShiftOut, ringVars
<1>2. a \in Seq(AnyByte) /\ b \in Seq(AnyByte) /\ c \in Seq(AnyByte)
  BY InFlightBytes
<1>3. q = (a \o b) \o c /\ q' = (e \o b) \o c
  BY <1>1, InFlightPrimed DEF TxInFlight
<1>4. e \o b = b
  BY <1>2, EmptyParts
<1> HIDE DEF q, a, b, c, e
<1>5. b \o c \in Seq(AnyByte) /\ (a \o b) \o c = a \o (b \o c)
  BY <1>2, ConcatParts, ConcatAssoc
<1>6. q' = b \o c /\ q = a \o q' /\ q' \in Seq(AnyByte)
  BY <1>3, <1>4, <1>5, Zenon
<1>7. /\ Len(a) \in 1 .. Len(a \o q') /\ SubSeq(a \o q', 1, Len(a)) = a
      /\ SubSeq(a \o q', Len(a) + 1, Len(a \o q')) = q'
  BY <1>1, <1>2, <1>6, QueueShrinks
<1>8. Len(a) \in 1 .. Len(q) /\ SubSeq(q, 1, Len(a)) = a /\ SubSeq(q, Len(a) + 1, Len(q)) = q'
  BY <1>6, <1>7, Zenon
<1>9. \E n \in 1 .. Len(q) : sent' = sent \o SubSeq(q, 1, n) /\ q' = SubSeq(q, n + 1, Len(q))
  BY <1>1, <1>8
<1> QED BY <1>9 DEF TxQueue!Deliver, q

\* Every step is a step of the transmit queue or leaves it alone.
LEMMA TxStep == TypeOK /\ [Next]_vars => [TxQueue!Next]_(TxQueue!qvars)
<1> SUFFICES ASSUME TypeOK, [Next]_vars
             PROVE  TxQueue!Next \/ (TxInFlight' = TxInFlight /\ sent' = sent)
  BY DEF TxQueue!qvars
<1> USE DEF ringVars, ierVars, hwVars, xmitVars, mainVars, lineVars, histVars
<1>1. UNCHANGED <<tx, tsr, thr, sent>> => TxInFlight' = TxInFlight /\ sent' = sent
  BY InFlightPrimed DEF TxInFlight
<1>2. CASE SendPut
  BY <1>2, SendAccepts DEF TxQueue!Next
<1>3. ASSUME NEW who, IntTransmit(who) PROVE TxInFlight' = TxInFlight /\ sent' = sent
  <2>1. CASE XmitFill(who)
    BY <2>1, FillMoves
  <2>2. CASE ~XmitFill(who)
    BY <1>1, <1>3, <2>2 DEF IntTransmit, XmitDisable, XmitWait, XmitDone
  <2> QED BY <2>1, <2>2
<1>4. CASE Main
  BY <1>1, <1>2, <1>3, <1>4
  DEF Main, UARTSend, SendPutEnd, SendStart, SendXmit, Idle, ExecBegin, IerRead, IerWrite, RecvTake,
      ExecEnd, vars
<1>5. CASE Isr
  BY <1>1, <1>3, <1>5 DEF Isr, IsrEnter, IntReceive, IntReceiveEnd, IntErr, vars
<1>6. CASE Hardware
  BY <1>1, <1>6, LoadMoves, ShiftDelivers DEF Hardware, Arrive, TxQueue!Next
<1> QED BY <1>1, <1>4, <1>5, <1>6 DEF Next, vars

\* UART_IntReceive puts a byte at the end of the receive queue, or trims it.
LEMMA ReceiveAccepts ==
    ASSUME TypeOK, IntReceive
    PROVE  RxQueue!Accept \/ (RingContents(rx') = RingContents(rx) /\ popped' = popped)
<1> DEFINE c == Head(rbr)
           q == RingContents(rx)
           b == <<c>>
<1>1. /\ rx' = IF BUF_IS_FULL(rx) THEN rx ELSE RingPut(rx, c)
      /\ rbr # <<>> /\ rbr \in Seq(AnyByte) /\ rx \in RingType /\ popped' = popped
  BY DEF IntReceive, TypeOK, histVars
<1>2. c \in AnyByte /\ b \in Seq(AnyByte) /\ Len(b) = 1
  BY <1>1
<1>3. q \in Seq(AnyByte)
  BY InFlightBytes
<1>4. CASE BUF_IS_FULL(rx)
  BY <1>1, <1>4
<1>5. CASE ~BUF_IS_FULL(rx)
  <2>1. RingContents(rx') = q \o b
    BY <1>1, <1>2, <1>5, PutLast
  <2>2. Len(q \o b) > Len(q) /\ SubSeq(q \o b, 1, Len(q)) = q
    <3>1. b \in Seq(AnyByte) /\ Len(b) > 0 /\ q \in Seq(AnyByte)
      BY <1>2, <1>3
    <3> HIDE DEF q, b
    <3> QED BY <3>1, QueueGrows
  <2>3. q' = q \o b
    BY <2>1, InFlightPrimed
  <2> HIDE DEF q, b
  <2>4. Len(q') > Len(q) /\ SubSeq(q', 1, Len(q)) = q
    BY <2>2, <2>3, Zenon
  <2>5. q = RingContents(rx) /\ q' = RingContents(rx)' /\ popped' = popped
    BY <1>1 DEF q
  <2> QED BY <2>4, <2>5, Zenon DEF RxQueue!Accept
<1> QED BY <1>4, <1>5

\* UARTReceive takes the oldest byte of it.
LEMMA ReceiveDelivers ==
    ASSUME TypeOK, RecvTake
    PROVE  RxQueue!Deliver \/ (RingContents(rx') = RingContents(rx) /\ popped' = popped)
<1>1. CASE BUF_IS_EMPTY(rx)
  BY <1>1 DEF RecvTake
<1>2. CASE ~BUF_IS_EMPTY(rx)
  <2> DEFINE q == RingContents(rx)
             a == <<rx.buf[rx.tail]>>
  <2>1. rx' = RingDrop(rx) /\ popped' = Append(popped, rx.buf[rx.tail]) /\ rx \in RingType
    BY <1>2 DEF RecvTake, TypeOK
  <2>2. q = a \o RingContents(rx')
    BY <1>2, <2>1, DropFirst
  <2>3. rx.buf[rx.tail] \in AnyByte /\ rx' \in RingType
    BY <2>1, DropType DEF RingType
  <2>4. a \in Seq(AnyByte) /\ a # <<>> /\ Len(a) = 1 /\ RingContents(rx') \in Seq(AnyByte)
    BY <2>3, ByteSeq, ContentsIs
  <2>5. popped' = popped \o a
    BY <2>1, <2>3, AppendIsConcat, InFlightBytes
  <2>6. q' = RingContents(rx')
    BY InFlightPrimed
  <2> HIDE DEF q, a
  <2>7. q = a \o q' /\ q' \in Seq(AnyByte)
    BY <2>2, <2>4, <2>6
  <2>8. /\ Len(a) \in 1 .. Len(a \o q') /\ SubSeq(a \o q', 1, Len(a)) = a
        /\ SubSeq(a \o q', Len(a) + 1, Len(a \o q')) = q'
    BY <2>4, <2>7, QueueShrinks
  <2>9. Len(a) \in 1 .. Len(q) /\ SubSeq(q, 1, Len(a)) = a /\ SubSeq(q, Len(a) + 1, Len(q)) = q'
    BY <2>7, <2>8, Zenon
  <2>10. \E n \in 1 .. Len(q) :
             popped' = popped \o SubSeq(q, 1, n) /\ q' = SubSeq(q, n + 1, Len(q))
    BY <2>5, <2>9
  <2> QED BY <2>10 DEF RxQueue!Deliver, q
<1> QED BY <1>1, <1>2

\* Every step is a step of the receive queue or leaves it alone.
LEMMA RxStep == TypeOK /\ [Next]_vars => [RxQueue!Next]_(RxQueue!qvars)
<1> SUFFICES ASSUME TypeOK, [Next]_vars
             PROVE  RxQueue!Next \/ (RingContents(rx') = RingContents(rx) /\ popped' = popped)
  BY InFlightPrimed DEF RxQueue!qvars
<1> USE DEF ringVars, ierVars, hwVars, xmitVars, mainVars, lineVars, histVars
<1>1. CASE UNCHANGED <<rx, popped>>
  BY <1>1
<1>2. ASSUME NEW who, IntTransmit(who) PROVE UNCHANGED <<rx, popped>>
  BY <1>2 DEF IntTransmit, XmitDisable, XmitWait, XmitFill, XmitDone
<1>3. CASE Main
  <2>1. CASE RecvTake
    BY <2>1, ReceiveDelivers DEF RxQueue!Next
  <2>2. CASE ~RecvTake
    BY <1>1, <1>2, <1>3, <2>2
    DEF Main, UARTSend, SendPut, SendPutEnd, SendStart, SendXmit, Idle, ExecBegin, IerRead, IerWrite,
        ExecEnd, Goto, vars
  <2> QED BY <2>1, <2>2
<1>4. CASE Isr
  <2>1. CASE IntReceive
    BY <2>1, ReceiveAccepts DEF RxQueue!Next
  <2>2. CASE ~IntReceive
    BY <1>1, <1>2, <1>4, <2>2 DEF Isr, IsrEnter, IntReceiveEnd, IntErr, vars
  <2> QED BY <2>1, <2>2
<1>5. CASE Hardware
  BY <1>1, <1>5 DEF Hardware, Arrive, ShiftLoad, ShiftOut
<1> QED BY <1>1, <1>3, <1>4, <1>5 DEF Next, vars

\* Both queues are empty after comm_init.
LEMMA QueuesEmpty == ASSUME Init PROVE TxQueue!Init /\ RxQueue!Init
<1>1. tx = EmptyRing /\ rx = EmptyRing /\ tsr = <<>> /\ thr = <<>> /\ sent = <<>> /\ popped = <<>>
  BY DEF Init
<1>2. EmptyRing \in RingType
  BY <1>1, TypeInit DEF TypeOK
<1>3. BUF_IS_EMPTY(EmptyRing)
  BY DEF EmptyRing, BUF_IS_EMPTY
<1>4. RingContents(EmptyRing) \in Seq(AnyByte) /\ Len(RingContents(EmptyRing)) = 0
  BY <1>2, <1>3, FillIs, ContentsIs
<1>5. RingContents(EmptyRing) = <<>>
  BY <1>4, EmptySeq
<1>6. TxInFlight = <<>>
  BY <1>1, <1>5 DEF TxInFlight
<1> QED BY <1>1, <1>5, <1>6 DEF TxQueue!Init, RxQueue!Init

\* The bytes UARTSend accepts appear on the wire in order, each once: the
\* transmit direction implements ByteQueue, for every ring and every buffer.
THEOREM TxImplementsQueue == Spec => TxStream
<1>1. Init => TxQueue!Init
  BY QueuesEmpty
<1> QED BY <1>1, TypeCorrect, TxStep, PTL DEF Spec, TxStream, TxQueue!Spec

\* What UART_IntReceive keeps, UARTReceive returns in order, each byte once:
\* the receive direction implements ByteQueue.
THEOREM RxImplementsQueue == Spec => RxStream
<1>1. Init => RxQueue!Init
  BY QueuesEmpty
<1> QED BY <1>1, TypeCorrect, RxStep, PTL DEF Spec, RxStream, RxQueue!Spec

=============================================================================
