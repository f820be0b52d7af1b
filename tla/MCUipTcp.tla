------------------------------ MODULE MCUipTcp ------------------------------
(* Instances of UipTcp for TLC. *)
EXTENDS UipTcp

CONSTANTS port1, port2, url1, url2    \* model values

OneUrl  == [c \in Client |-> url1]
OwnUrls == [c \in Client |-> IF c = port1 THEN url1 ELSE url2]

\* Every page is three bytes long: two segments, or three.
Fixed == {[w \in URL |-> 3]}

=============================================================================
