-------------------------- MODULE MCGenerateConfig --------------------------
(* Instances of SnifferConfig, and with it GenerateConfig, for TLC.        *)
EXTENDS SnifferConfig

SM(type, list) == [type |-> type, pdos |-> list]
Mailboxes      == <<SM(1, << >>), SM(2, << >>)>>
OldMailboxes   == <<SM(0, << >>), SM(1, << >>)>>

(* One PDO with an entry for each member of a struct.                      *)
PdoOf(struct) == [k \in DOMAIN struct |-> 8 * width[struct[k].type]]

Device(name, sms, outputs, inputs) ==
  [name |-> name, sms |-> sms, outputs |-> outputs, inputs |-> inputs]

(* A coupler without mailbox, a battery module, a drive that counts its SM *)
(* types from 0 and has two PDOs each way, a power board, and a device     *)
(* with two output SMs. SOEM maps first all outputs, then all inputs.      *)
MCBus == <<
  Device("EK1100", << >>, 0, 0),
  Device("KELO_ROBILE",
         Mailboxes \o <<SM(3, <<PdoOf(RobileMasterBatteryProcessDataOutput)>>),
                        SM(4, <<PdoOf(RobileMasterBatteryProcessDataInput)>>)>>, 0, 71),
  Device("SWMC",
         OldMailboxes \o <<SM(2, <<PdoOf(SubSeq(rxpdo1_t, 1, 2)), PdoOf(SubSeq(rxpdo1_t, 3, 9))>>),
                           SM(3, <<PdoOf(SubSeq(txpdo1_t, 1, 31)), PdoOf(SubSeq(txpdo1_t, 32, 41))>>)>>,
         12, 139),
  Device("KeloEcPd",
         Mailboxes \o <<SM(3, <<PdoOf(EcPd_rx)>>), SM(4, <<PdoOf(EcPd_tx)>>)>>, 48, 311),
  Device("KELOD105", Mailboxes \o <<SM(3, <<<<16>>>>), SM(0, << >>), SM(3, <<<<8>>>>),
                                    SM(4, <<<<8>>>>)>>, 68, 423) >>

(* The hypothesis of SnifferReadsPdos holds of this ring.                  *)
ASSUME MCBusAsDeclared == DeclaredLengths

(***************************************************************************)
(* The config files of the repository: name and offsets of each slave.     *)
(***************************************************************************)
SWMC(rx, tx)     == slave_info("SWMC", rx, tx)
KELOD105(rx, tx) == slave_info("KELOD105", rx, tx)
ROBILE(rx, tx)   == slave_info("KELO_ROBILE", rx, tx)
KeloEcPd(rx, tx) == slave_info("KeloEcPd", rx, tx)

ropod     == <<SWMC(0, 180), SWMC(36, 352), SWMC(72, 524), SWMC(108, 696), SWMC(144, 868)>>
robile_2w == <<ROBILE(0, 84), KELOD105(12, 152), KELOD105(48, 324)>>
robile_4w == <<ROBILE(0, 156), KELOD105(12, 224), KELOD105(48, 396), KELOD105(84, 568),
               KELOD105(120, 740)>>
freddy    == <<KELOD105(0, 164), KeloEcPd(36, 336), KELOD105(56, 448), KELOD105(92, 620),
               KELOD105(128, 792)>>

(* The slices of all slaves fill the datagram without a gap or an overlap. *)
Tiles(infos) ==
  LET slices == {rx_data(infos[k]) : k \in DOMAIN infos} \cup {tx_data(infos[k]) : k \in DOMAIN infos}
  IN  UNION slices = 0 .. (MapThenSumSet(Cardinality, slices) - 1)

(* The offsets in the files agree with the sizes that the headers give.    *)
ASSUME RepositoryConfigsTile == \A config \in {ropod, robile_2w, robile_4w, freddy} : Tiles(config)
=============================================================================
