----------------------------- MODULE MCDisplay ------------------------------
(* Instances of Display for TLC.                                           *)
EXTENDS Display

(* One slave, and two with tooltips on one, both or none of their boxes.   *)
MCSlaveLists == {<<KELO_DRIVE_SLAVE>>, <<ROBILE_BATTERY_SLAVE, KELO_BMS_SLAVE>>}

(* 0xAAAA, 0xF0F0 and 0x3CC5: every pair differs in both bytes.            *)
MCWord == (0 :> <<170, 170>>) @@ (1 :> <<240, 240>>) @@ (2 :> <<60, 197>>)

(* The tooltips of all 65536 words: the hypothesis of TooltipsTell.        *)
ASSUME WordsTold == EveryWordTold
=============================================================================
