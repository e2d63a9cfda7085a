------------------------------- MODULE MCTui --------------------------------
(* Instances of Tui for TLC.                                               *)
EXTENDS Tui

(* Two slaves of one type, so that mixed frames can be completed.          *)
MCRowsTwins == [s \in Slaves |-> 2]

(* A battery module and a drive, which has more variables.                 *)
MCRowsMixed == [s \in Slaves |-> IF s = 0 THEN 1 ELSE 2]
=============================================================================
