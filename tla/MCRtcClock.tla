------------------------------ MODULE MCRtcClock ------------------------------
(* Instances of RtcClock for TLC: days of three hours with two seconds     *)
(* each, a year of four days (winter, two days with a change, winter), two *)
(* years.                                                                  *)
EXTENDS RtcClock

\* Compiled in the winter before the first change.
FirstWinter == [y |-> 0, d |-> 0, h |-> 2, s |-> 0]

=============================================================================
