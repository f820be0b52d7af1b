------------------------------ MODULE MCCalendar ------------------------------
(* The whole century the comments of rtc.cpp claim, from 2000/01/01 to     *)
(* 2099/12/31, for TLC.                                                    *)
EXTENDS Calendar

=============================================================================
