----------------------------- MODULE MCUsbSerial ------------------------------
(* Instances of UsbSerial for TLC: a ring of three slots holds two bytes,  *)
(* one packet, so that BulkOut's room test and BulkIn's short packets both *)
(* decide differently from one interrupt to the next.                      *)
EXTENDS UsbSerial

CONSTANTS x, y, cr    \* model values for bytes

=============================================================================
