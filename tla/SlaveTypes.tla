----------------------------- MODULE SlaveTypes -----------------------------
(***************************************************************************)
(* The kinds of EtherCAT slaves kddv can decode, identified by the name a  *)
(* slave reports on the bus or that a config file gives it.                *)
(***************************************************************************)
EXTENDS Integers

KELO_DRIVE_SLAVE     == 1
ROBILE_BATTERY_SLAVE == 2
KELO_BMS_SLAVE       == 3

(* getSlaveType returns a uint8_t: the "return -1" of an unknown name is   *)
(* 255.                                                                    *)
UNKNOWN_SLAVE == (-1) % 256

getSlaveType(name) ==
  CASE name = "KELO_ROBILE"            -> ROBILE_BATTERY_SLAVE
    [] name \in {"SWMC", "KELOD105"}   -> KELO_DRIVE_SLAVE
    [] name = "KeloEcPd"               -> KELO_BMS_SLAVE
    [] OTHER                           -> UNKNOWN_SLAVE
=============================================================================
