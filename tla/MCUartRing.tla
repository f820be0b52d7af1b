------------------------------ MODULE MCUartRing ------------------------------
(* Instances of UartRing for TLC.  A ring of three slots holds two bytes;  *)
(* three bytes in each direction wrap its indices, and a buffer of two     *)
(* fills it.                                                               *)
EXTENDS UartRing

CONSTANTS x, cr    \* model values for bytes

=============================================================================
