---------------------------- MODULE MCLedDriver ----------------------------
(* The full frame lights every plane; the test word lights every register. *)
EXTENDS LedDriver

FullFrame == {[r \in Reg |-> Pow2[BITS] - 1]}

DarkWord == {[r \in Reg |-> FALSE]}

FullWord == {[r \in Reg |-> TRUE]}
=============================================================================
