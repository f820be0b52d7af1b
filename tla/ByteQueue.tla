------------------------------ MODULE ByteQueue -------------------------------
(***************************************************************************)
(* What a serial channel promises: bytes enter at one end and leave at the *)
(* other in the same order, each exactly once.  queue is what has been     *)
(* accepted and not yet handed over, out is everything handed over so far. *)
(* The transmit and the receive direction of the USB port (UsbSerial) and  *)
(* of the UART (UartRing) are shown to implement this specification.       *)
(***************************************************************************)
EXTENDS Integers, Sequences

VARIABLES queue, out

qvars == <<queue, out>>

Init == queue = <<>> /\ out = <<>>

\* One accepted byte, or one accepted packet of several.  The channel may
\* refuse bytes when it has no room: that is no step of this specification.
Accept ==
    /\ Len(queue') > Len(queue)
    /\ SubSeq(queue', 1, Len(queue)) = queue
    /\ out' = out

\* The oldest bytes leave, in order.
Deliver ==
    \E n \in 1 .. Len(queue) :
        /\ out' = out \o SubSeq(queue, 1, n)
        /\ queue' = SubSeq(queue, n + 1, Len(queue))

Next == Accept \/ Deliver

Spec == Init /\ [][Next]_qvars

=============================================================================
