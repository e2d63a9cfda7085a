------------------------------- MODULE MCGui --------------------------------
(* Instances of Gui for TLC.                                               *)
EXTENDS Gui

(* Nothing supported on the ring; a battery module and a drive; one drive. *)
MCSlaveLists == {<< >>, <<1, 2>>, <<2>>}
=============================================================================
