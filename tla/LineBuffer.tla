------------------------------ MODULE LineBuffer ------------------------------
(***************************************************************************)
(* The line assembly that UART_IntReceive (comm.c) and BulkOut (usb.c)     *)
(* both perform for every byte: append it to UART_LINE and, at a           *)
(* terminator, mark the line ready and start the next one.  Here only the  *)
(* length of the line under assembly and the ready flag are kept.          *)
(***************************************************************************)
EXTENDS Integers, Sequences

CONSTANT CR    \* '\r' or '\n'

\* One byte, on the pair <<UART_LINE_LEN, LINE_READY>>.
LineChar(ln, c) == IF c = CR THEN <<0, TRUE>> ELSE <<ln[1] + 1, ln[2]>>

\* The bytes of s, one after the other.
LineChars(ln, s) ==
    LET line[n \in 0 .. Len(s)] == IF n = 0 THEN ln ELSE LineChar(line[n - 1], s[n])
    IN  line[Len(s)]

=============================================================================
