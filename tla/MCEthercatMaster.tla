-------------------------- MODULE MCEthercatMaster --------------------------
(* Instances of EthercatMaster for TLC.                                    *)
EXTENDS EthercatMaster

(* A Robile: battery module, a coupler that kddv does not know, a drive.   *)
MCBus == <<"KELO_ROBILE", "EK1100", "KELOD105">>
=============================================================================
