--------------------------- MODULE GenerateConfig ---------------------------
(***************************************************************************)
(* generate_config_file: for each supported slave on the ring, read its    *)
(* sync managers (SM) and the PDOs assigned to them with one SDO upload    *)
(* after the other, and write where its PDOs start to a config file.       *)
(*                                                                         *)
(* Every ec_SDOread is a step that succeeds or fails; when it fails the    *)
(* buffer keeps the zero it was given. SOEM and the object dictionaries of *)
(* the slaves are external: they are the constant Bus.                     *)
(***************************************************************************)
EXTENDS SlaveTypes, Sequences

CONSTANTS
  Bus,      \* the slaves on the ring
  EC_MAXSM, \* SOEM's limit on the number of sync managers (8)
  MaxLost   \* bound: SDO reads that fail

(* A slave has a name, for each SM its type and the PDOs assigned to it    *)
(* (each a sequence of bit lengths), and the places of its outputs and     *)
(* inputs in IOmap. The types are 3 for outputs and 4 for inputs, or 2 and *)
(* 3 in slaves that count from 0.                                          *)
SyncManager == [type : 0 .. 4, pdos : Seq(Seq(Nat))]
Slave       == [name : STRING, sms : Seq(SyncManager), outputs : Nat, inputs : Nat]

ASSUME BusAssumption  == Bus \in Seq(Slave)
ASSUME LostAssumption == EC_MAXSM \in Nat /\ MaxLost \in Nat

VARIABLES
  pc,              \* the SDO read or statement that comes next
  lost,            \* SDO reads that failed so far
  cnt,             \* the slave in turn
  iSM, nSM, SMt_bug_add, outputs_bo, inputs_bo,      \* of si_map_sdo
  tSM, idxloop, nidx, subidxloop, subidx, bitoffset, \* of si_PDOassign
  rx_offset, tx_offset,                              \* of get_info
  root,            \* the list "Slaves" so far
  file             \* the config file: << >> before it is written

mapVars  == <<iSM, nSM, SMt_bug_add, outputs_bo, inputs_bo>>
pdoVars  == <<tSM, idxloop, nidx, subidxloop, subidx, bitoffset>>
outVars  == <<rx_offset, tx_offset, root, file>>
vars     == <<pc, lost, cnt, mapVars, pdoVars, outVars>>

(* An int that nothing was assigned to.                                    *)
Indeterminate == -1

slave == Bus[cnt]

(* An SDO read: the value, or zero when the mailbox gives no answer.       *)
Answered == lost' = lost
Lost     == lost < MaxLost /\ lost' = lost + 1
SDOread(var, value) == \/ Answered /\ var = value
                       \/ Lost /\ var = 0

(***************************************************************************)
(* get_info.                                                               *)
(***************************************************************************)

(* ec_init or ec_config fails: the list stays empty and is written.        *)
NoSlaves ==
  /\ pc = "init"
  /\ pc' = "write"
  /\ UNCHANGED <<lost, cnt, mapVars, pdoVars, outVars>>

(* Slaves were found; a ring that is not in SAFE_OP is only reported.      *)
SlavesFound ==
  /\ pc = "init"
  /\ Bus # << >>
  /\ pc' = "slave"
  /\ cnt' = 1
  /\ UNCHANGED <<lost, mapVars, pdoVars, outVars>>

Written(name) == name \in {"SWMC", "KELO_ROBILE", "KELOD105", "KeloEcPd"}

(* Mutant: a while loop whose continue forgets the counter.                *)
MutSkipSlave ==
  /\ pc = "slave"
  /\ cnt <= Len(Bus)
  /\ ~Written(slave.name)
  /\ UNCHANGED vars

SkipSlave ==
  /\ pc = "slave"
  /\ cnt <= Len(Bus)
  /\ ~Written(slave.name)
  /\ cnt' = cnt + 1
  /\ UNCHANGED <<pc, lost, mapVars, pdoVars, outVars>>

(* rx_offset and tx_offset are declared without a value.                   *)
MapSlave ==
  /\ pc = "slave"
  /\ cnt <= Len(Bus)
  /\ Written(slave.name)
  /\ rx_offset' = Indeterminate /\ tx_offset' = Indeterminate
  /\ outputs_bo' = 0 /\ inputs_bo' = 0
  /\ SMt_bug_add' = 0
  /\ pc' = "sm_count"
  /\ UNCHANGED <<lost, cnt, iSM, nSM, pdoVars, root, file>>

(* What si_map_sdo returns is not looked at.                               *)
AppendSlave ==
  /\ pc = "append"
  /\ root' = Append(root, [id |-> cnt, rx |-> rx_offset, tx |-> tx_offset])
  /\ cnt' = cnt + 1
  /\ pc' = "slave"
  /\ UNCHANGED <<lost, mapVars, pdoVars, rx_offset, tx_offset, file>>

AllSlaves ==
  /\ pc = "slave"
  /\ cnt > Len(Bus)
  /\ pc' = "write"
  /\ UNCHANGED <<lost, cnt, mapVars, pdoVars, outVars>>

(* main writes the file, whatever was found.                               *)
WriteFile ==
  /\ pc = "write"
  /\ file' = <<root>>
  /\ pc' = "done"
  /\ UNCHANGED <<lost, cnt, mapVars, pdoVars, rx_offset, tx_offset, root>>

(***************************************************************************)
(* si_map_sdo.                                                             *)
(***************************************************************************)

(* Mutant: no limit.                                                       *)
MutLastSM(count) == count - 1

LastSM(count) == IF count - 1 > EC_MAXSM THEN EC_MAXSM ELSE count - 1

(* The number of sync managers, and with it the last one to look at.       *)
ReadSMCount ==
  /\ pc = "sm_count"
  /\ \/ /\ Answered /\ Len(slave.sms) > 2
        /\ nSM' = LastSM(Len(slave.sms))
        /\ iSM' = 2
        /\ pc' = "sm_type"
     \/ /\ Lost \/ (Answered /\ Len(slave.sms) <= 2)
        /\ pc' = "append"
        /\ UNCHANGED <<nSM, iSM>>
  /\ UNCHANGED <<cnt, SMt_bug_add, outputs_bo, inputs_bo, pdoVars, outVars>>

(* Mutant: the correction is forgotten after the SM that showed the bug.   *)
MutBugAdd(type) == IF iSM = 2 /\ type = 2 THEN 1 ELSE 0

(* A slave whose SM2 is of type 2 counts its types from 0.                 *)
BugAdd(type) == IF iSM = 2 /\ type = 2 THEN 1 ELSE SMt_bug_add

Corrected(type) == IF type = 0 THEN 0 ELSE type + BugAdd(type)

(* The type of the sync manager: its PDOs are read if it is an output or   *)
(* an input, else the next one is looked at.                               *)
ReadSMType ==
  /\ pc = "sm_type"
  /\ iSM <= nSM
  /\ \/ LET type == slave.sms[iSM + 1].type IN
        /\ Answered
        /\ SMt_bug_add' = BugAdd(type)
        /\ tSM' = Corrected(type)
        /\ pc' = IF tSM' \in {3, 4} THEN "pdo_count" ELSE "sm_type"
        /\ bitoffset' = IF tSM' = 3 THEN outputs_bo ELSE inputs_bo
        /\ iSM' = IF tSM' \in {3, 4} THEN iSM ELSE iSM + 1
     \/ /\ Lost
        /\ iSM' = iSM + 1
        /\ UNCHANGED <<pc, SMt_bug_add, tSM, bitoffset>>
  /\ UNCHANGED <<cnt, nSM, outputs_bo, inputs_bo, idxloop, nidx, subidxloop,
                 subidx, outVars>>

SMsEnd ==
  /\ pc = "sm_type"
  /\ iSM > nSM
  /\ pc' = "append"
  /\ UNCHANGED <<lost, cnt, mapVars, pdoVars, outVars>>

(***************************************************************************)
(* si_PDOassign, for the PDOs of sync manager iSM. bitoffset starts at the *)
(* bits that earlier sync managers of this direction have taken.           *)
(***************************************************************************)

pdos == slave.sms[iSM + 1].pdos

ReadPDOCount ==
  /\ pc = "pdo_count"
  /\ SDOread(nidx', Len(pdos))
  /\ idxloop' = 1
  /\ pc' = "pdo"
  /\ UNCHANGED <<cnt, mapVars, tSM, subidxloop, subidx, bitoffset, outVars>>

(* The index of the next PDO and its number of entries: two reads; without *)
(* the first the PDO is skipped, without the second it has no entries.     *)
ReadPDO ==
  /\ pc = "pdo"
  /\ idxloop <= nidx
  /\ SDOread(subidx', Len(pdos[idxloop]))
  /\ subidxloop' = 1
  /\ pc' = "entry"
  /\ UNCHANGED <<cnt, mapVars, tSM, idxloop, nidx, bitoffset, outVars>>

(* Mutant: one start for both directions.                                  *)
MutStartOf == slave.outputs

StartOf == IF tSM = 3 THEN slave.outputs ELSE slave.inputs

(* Mutant: the offset of every entry is taken, so that the last one stays. *)
MutIsFirstEntry == TRUE

IsFirstEntry == idxloop = 1 /\ subidxloop = 1

(* One entry: its bit length, which is zero if the read fails.             *)
ReadEntry ==
  /\ pc = "entry"
  /\ subidxloop <= subidx
  /\ \E bitlen \in {0, pdos[idxloop][subidxloop]} :
       /\ SDOread(bitlen, pdos[idxloop][subidxloop])
       /\ bitoffset' = bitoffset + bitlen
  /\ LET abs_offset == StartOf + bitoffset \div 8 IN
     /\ rx_offset' = IF IsFirstEntry /\ tSM = 3 THEN abs_offset ELSE rx_offset
     /\ tx_offset' = IF IsFirstEntry /\ tSM = 4 THEN abs_offset ELSE tx_offset
  /\ subidxloop' = subidxloop + 1
  /\ UNCHANGED <<pc, cnt, mapVars, tSM, idxloop, nidx, subidx, root, file>>

EntriesEnd ==
  /\ pc = "entry"
  /\ subidxloop > subidx
  /\ idxloop' = idxloop + 1
  /\ pc' = "pdo"
  /\ UNCHANGED <<lost, cnt, mapVars, tSM, nidx, subidxloop, subidx, bitoffset, outVars>>

(* Back in si_map_sdo: the bits found are added to those of the direction. *)
PDOsEnd ==
  /\ pc = "pdo"
  /\ idxloop > nidx
  /\ outputs_bo' = IF tSM = 3 THEN bitoffset ELSE outputs_bo
  /\ inputs_bo' = IF tSM = 4 THEN bitoffset ELSE inputs_bo
  /\ iSM' = iSM + 1
  /\ pc' = "sm_type"
  /\ UNCHANGED <<lost, cnt, nSM, SMt_bug_add, pdoVars, outVars>>

get_info     == NoSlaves \/ SlavesFound \/ SkipSlave \/ MapSlave \/ AppendSlave \/ AllSlaves
si_map_sdo   == ReadSMCount \/ ReadSMType \/ SMsEnd
si_PDOassign == ReadPDOCount \/ ReadPDO \/ ReadEntry \/ EntriesEnd \/ PDOsEnd

-----------------------------------------------------------------------------
Init ==
  /\ pc = "init"
  /\ lost = 0
  /\ cnt = 0
  /\ iSM = 0 /\ nSM = 0 /\ SMt_bug_add = 0 /\ outputs_bo = 0 /\ inputs_bo = 0
  /\ tSM = 0 /\ idxloop = 0 /\ nidx = 0 /\ subidxloop = 0 /\ subidx = 0 /\ bitoffset = 0
  /\ rx_offset = Indeterminate /\ tx_offset = Indeterminate
  /\ root = << >>
  /\ file = << >>

Next == get_info \/ si_map_sdo \/ si_PDOassign \/ WriteFile

Spec == Init /\ [][Next]_vars

(* The program is sequential and every SDO read times out.                 *)
FairSpec == Spec /\ WF_vars(Next)

(***************************************************************************)
(* Properties.                                                             *)
(***************************************************************************)

(* Every variable has its type.                                            *)
TypeOK ==
  /\ pc \in {"init", "slave", "sm_count", "sm_type", "pdo_count", "pdo", "entry",
             "append", "write", "done"}
  /\ lost \in 0 .. MaxLost
  /\ cnt \in 0 .. (Len(Bus) + 1)
  /\ iSM \in Nat /\ nSM \in 0 .. EC_MAXSM /\ SMt_bug_add \in {0, 1}
  /\ outputs_bo \in Nat /\ inputs_bo \in Nat
  /\ tSM \in 0 .. 5 /\ idxloop \in Nat /\ nidx \in Nat
  /\ subidxloop \in Nat /\ subidx \in Nat /\ bitoffset \in Nat
  /\ rx_offset \in Nat \cup {Indeterminate} /\ tx_offset \in Nat \cup {Indeterminate}
  /\ root \in Seq([id : DOMAIN Bus, rx : Nat \cup {Indeterminate},
                   tx : Nat \cup {Indeterminate}])
  /\ file \in {<< >>, <<root>>}

(* The direction of sync manager k of slave s, by its position: a slave    *)
(* that counts from 0 is known by the type 2 of its SM2.                   *)
IsOutput(s, k) == s.sms[k].type = IF s.sms[3].type = 2 THEN 2 ELSE 3
IsInput(s, k)  == s.sms[k].type = IF s.sms[3].type = 2 THEN 3 ELSE 4

(* One sync manager with PDOs for each direction, as the KELO slaves have; *)
(* types that count from 0 end at 3, as the correction supposes.           *)
Plain(s) ==
  /\ Len(s.sms) \in 3 .. (EC_MAXSM + 1)
  /\ s.sms[3].type = 2 => \A k \in 3 .. Len(s.sms) : s.sms[k].type # 4
  /\ \E o, n \in 3 .. Len(s.sms) :
       /\ \A k \in 3 .. Len(s.sms) : /\ IsOutput(s, k) <=> k = o
                                     /\ IsInput(s, k) <=> k = n
       /\ \A k \in {o, n} : s.sms[k].pdos # << >> /\ s.sms[k].pdos[1] # << >>

(* The slaves are in the list once each, in the order of the ring.         *)
InOrder == \A j, k \in DOMAIN root : j < k => root[j].id < root[k].id

(* When every SDO read is answered, the file has each supported slave      *)
(* once, in the order of the ring, with the places where its outputs and   *)
(* inputs start.                                                           *)
CompleteWhenAnswered ==
  pc = "done" /\ lost = 0 /\ cnt > 0 =>
    /\ InOrder
    /\ {root[k].id : k \in DOMAIN root} =
         {n \in DOMAIN Bus : getSlaveType(Bus[n].name) # UNKNOWN_SLAVE}
    /\ \A k \in DOMAIN root : LET s == Bus[root[k].id] IN
         Plain(s) => root[k].rx = s.outputs /\ root[k].tx = s.inputs

(* A lost SDO read never shifts an offset: whichever reads fail, an offset *)
(* that was assigned is where the outputs or inputs start.                 *)
NeverShifted ==
  \A k \in DOMAIN root : LET s == Bus[root[k].id] IN
    Plain(s) => /\ root[k].rx \in {Indeterminate, s.outputs}
                /\ root[k].tx \in {Indeterminate, s.inputs}

(* The scan ends, whatever is lost.                                        *)
Finishes == <>(pc = "done")

(* README: the offsets specify where the PDOs of each slave start. A lost  *)
(* read leaves them without a value, and the file is written all the same. *)
OffsetsAreStarts ==
  \A k \in DOMAIN root : LET s == Bus[root[k].id] IN
    Plain(s) => root[k].rx = s.outputs /\ root[k].tx = s.inputs

(***************************************************************************)
(* The invariant that the proofs rest on.                                  *)
(***************************************************************************)

Assigning == pc \in {"pdo_count", "pdo", "entry"}  \* in si_PDOassign
Mapping   == Assigning \/ pc = "sm_type"           \* in the loop over the SMs
InTurn    == Mapping \/ pc \in {"sm_count", "append"}

(* Sync manager k has the given type, as corrected so far.                 *)
Taken(k, type) == slave.sms[k].type # 0 /\ slave.sms[k].type + SMt_bug_add = type

(* Every step looks at a slave, a sync manager, a PDO and an entry that    *)
(* exist; the file is written last.                                        *)
InBounds ==
  /\ pc = "init" => cnt = 0
  /\ pc = "slave" => cnt >= 1
  /\ pc \in {"write", "done"} => cnt \in {0, Len(Bus) + 1}
  /\ InTurn => cnt \in DOMAIN Bus /\ Written(slave.name)
  /\ pc = "sm_count" => SMt_bug_add = 0 /\ outputs_bo = 0 /\ inputs_bo = 0
  /\ Mapping => iSM >= 2 /\ Len(slave.sms) > 2 /\ nSM = LastSM(Len(slave.sms))
  /\ Mapping => (SMt_bug_add = 1 => slave.sms[3].type = 2)
  /\ Assigning => iSM <= nSM /\ tSM \in {3, 4} /\ Taken(iSM + 1, tSM)
  /\ pc \in {"pdo", "entry"} => idxloop >= 1 /\ nidx \in {0, Len(pdos)}
  /\ pc = "entry" => /\ idxloop <= nidx /\ subidxloop >= 1
                     /\ subidx \in {0, Len(pdos[idxloop])}
  /\ pc # "done" => file = << >>

(* The list has the supported slaves before the one in turn.               *)
ListedSoFar ==
  /\ InOrder
  /\ {root[k].id : k \in DOMAIN root} = {n \in DOMAIN Bus : n < cnt /\ Written(Bus[n].name)}

(* Bits are counted for a direction only if an SM of it was passed.        *)
BitsCounted ==
  Mapping => /\ outputs_bo # 0 => \E k \in 3 .. iSM : Taken(k, 3)
             /\ inputs_bo # 0  => \E k \in 3 .. iSM : Taken(k, 4)

(* So there are none before the first entry of a plain slave's PDOs.       *)
FirstEntryAtZero ==
  /\ Assigning /\ Plain(slave)
  /\ \/ pc = "pdo_count"
     \/ pc = "pdo" /\ idxloop = 1
     \/ pc = "entry" /\ IsFirstEntry
  => bitoffset = 0

(* The slave in turn has the offsets that NeverShifted allows.             *)
OffsetsSoFar ==
  InTurn /\ Plain(slave) => /\ rx_offset \in {Indeterminate, slave.outputs}
                            /\ tx_offset \in {Indeterminate, slave.inputs}

ScanInv == /\ TypeOK /\ InBounds /\ ListedSoFar
           /\ BitsCounted /\ FirstEntryAtZero /\ OffsetsSoFar /\ NeverShifted

(* The offset of the direction that is being read has been assigned.       *)
Assigned == /\ tSM = 3 => rx_offset = slave.outputs
            /\ tSM = 4 => tx_offset = slave.inputs

(* While every read is answered nothing is skipped: the correction is      *)
(* right once SM2 was read, and every SM that was passed left its offset.  *)
AllAnswered ==
  /\ Assigning \/ (pc = "sm_type" /\ iSM > 2) =>
       SMt_bug_add = IF slave.sms[3].type = 2 THEN 1 ELSE 0
  /\ pc \in {"pdo", "entry"} => nidx = Len(pdos)
  /\ pc = "entry" => subidx = Len(pdos[idxloop])
  /\ Mapping /\ Plain(slave) =>
       \A k \in 3 .. iSM : /\ IsOutput(slave, k) => rx_offset = slave.outputs
                           /\ IsInput(slave, k)  => tx_offset = slave.inputs
  /\ /\ (pc = "pdo" /\ idxloop > 1) \/ (pc = "entry" /\ ~IsFirstEntry)
     /\ Plain(slave)
     => Assigned
  /\ pc = "append" /\ Plain(slave) => rx_offset = slave.outputs /\ tx_offset = slave.inputs
  /\ OffsetsAreStarts

AnsweredInv == lost = 0 => AllAnswered

IInv == ScanInv /\ AnsweredInv
=============================================================================
