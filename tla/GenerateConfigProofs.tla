------------------------ MODULE GenerateConfigProofs ------------------------
(***************************************************************************)
(* Proofs about GenerateConfig, for every ring of slaves with any object   *)
(* dictionaries, and any number of lost SDO reads at any places.           *)
(***************************************************************************)
EXTENDS GenerateConfig, TLAPS, WellFoundedInduction

(***************************************************************************)
(* Facts about the ring.                                                   *)
(***************************************************************************)

(* What BusAssumption says of the slave in turn.                           *)
LEMMA SlaveInTurn ==
  ASSUME cnt \in DOMAIN Bus
  PROVE  /\ cnt \in 1 .. Len(Bus) /\ Len(Bus) \in Nat
         /\ slave.outputs \in Nat /\ slave.inputs \in Nat
         /\ slave.sms \in Seq(SyncManager) /\ Len(slave.sms) \in Nat
         /\ \A k \in 1 .. Len(slave.sms) :
              /\ slave.sms[k].type \in 0 .. 4
              /\ slave.sms[k].pdos \in Seq(Seq(Nat))
<1>1. slave \in Slave /\ cnt \in 1 .. Len(Bus) /\ Len(Bus) \in Nat
  BY BusAssumption DEF slave
<1>2. slave.outputs \in Nat /\ slave.inputs \in Nat /\ slave.sms \in Seq(SyncManager)
  BY <1>1 DEF Slave
<1>3. Len(slave.sms) \in Nat /\ \A k \in 1 .. Len(slave.sms) : slave.sms[k] \in SyncManager
  BY <1>2
<1> QED
  BY <1>1, <1>2, <1>3 DEF SyncManager

(* The last sync manager that is looked at exists.                         *)
LEMMA LastSMExists ==
  ASSUME NEW n \in Nat, n > 2
  PROVE  LastSM(n) \in 0 .. EC_MAXSM /\ LastSM(n) + 1 <= n
  BY LostAssumption DEF LastSM

(* What is read in si_PDOassign is there.                                  *)
LEMMA PdosInTurn ==
  ASSUME TypeOK, InBounds, Assigning
  PROVE  /\ iSM + 1 \in 3 .. Len(slave.sms)
         /\ pdos \in Seq(Seq(Nat)) /\ Len(pdos) \in Nat
         /\ \A k \in 1 .. Len(pdos) : pdos[k] \in Seq(Nat) /\ Len(pdos[k]) \in Nat
<1>1. cnt \in DOMAIN Bus /\ iSM >= 2 /\ iSM <= nSM /\ Len(slave.sms) > 2
      /\ nSM = LastSM(Len(slave.sms)) /\ iSM \in Nat
  BY DEF InBounds, InTurn, Mapping, TypeOK
<1>2. iSM + 1 \in 3 .. Len(slave.sms)
  <2>1. Len(slave.sms) \in Nat
    BY <1>1, SlaveInTurn
  <2>2. LastSM(Len(slave.sms)) \in 0 .. EC_MAXSM /\ LastSM(Len(slave.sms)) + 1 <= Len(slave.sms)
    BY <1>1, <2>1, LastSMExists
  <2> QED
    BY <1>1, <2>1, <2>2, LostAssumption
<1>3. pdos \in Seq(Seq(Nat))
  <2>1. iSM + 1 \in 1 .. Len(slave.sms)
    BY <1>2
  <2> QED
    BY <1>1, <2>1, SlaveInTurn DEF pdos
<1>4. Len(pdos) \in Nat /\ \A k \in 1 .. Len(pdos) : pdos[k] \in Seq(Nat)
  BY <1>3
<1> QED
  BY <1>2, <1>3, <1>4

(* An entry that is read has a length.                                     *)
LEMMA EntryInTurn ==
  ASSUME TypeOK, InBounds, pc = "entry", subidxloop <= subidx
  PROVE  pdos[idxloop][subidxloop] \in Nat
<1>1. /\ idxloop \in Nat /\ idxloop >= 1 /\ nidx \in {0, Len(pdos)} /\ idxloop <= nidx
      /\ subidxloop \in Nat /\ subidxloop >= 1 /\ subidx \in {0, Len(pdos[idxloop])}
  BY DEF InBounds, TypeOK
<1>2. /\ Len(pdos) \in Nat
      /\ \A k \in 1 .. Len(pdos) : pdos[k] \in Seq(Nat) /\ Len(pdos[k]) \in Nat
  BY PdosInTurn DEF Assigning
<1>3. idxloop \in 1 .. Len(pdos)
  BY <1>1, <1>2
<1>4. subidxloop \in 1 .. Len(pdos[idxloop])
  BY <1>1, <1>2, <1>3
<1> QED
  BY <1>2, <1>3, <1>4

(***************************************************************************)
(* Type correctness and bounds.                                            *)
(***************************************************************************)

LEMMA TypeStep == ASSUME TypeOK, InBounds, [Next]_vars PROVE TypeOK'
<1> USE DEF mapVars, pdoVars, outVars, Answered, Lost, SDOread
<1>0. MaxLost \in Nat /\ Len(Bus) \in Nat /\ DOMAIN Bus = 1 .. Len(Bus)
  BY LostAssumption, BusAssumption
<1>1. CASE NoSlaves
  BY <1>1 DEF NoSlaves, TypeOK
<1>2. CASE SlavesFound
  BY <1>0, <1>2 DEF SlavesFound, TypeOK
<1>3. CASE SkipSlave
  BY <1>0, <1>3 DEF SkipSlave, TypeOK
<1>4. CASE MapSlave
  BY <1>4 DEF MapSlave, TypeOK
<1>5. CASE AppendSlave
  <2>1. cnt \in DOMAIN Bus /\ file = << >> /\ pc = "append" /\ file' = file
    BY <1>5 DEF AppendSlave, InBounds, InTurn
  <2>2. [id |-> cnt, rx |-> rx_offset, tx |-> tx_offset]
          \in [id : DOMAIN Bus, rx : Nat \cup {Indeterminate}, tx : Nat \cup {Indeterminate}]
    BY <2>1 DEF TypeOK
  <2>3. root' \in Seq([id : DOMAIN Bus, rx : Nat \cup {Indeterminate},
                       tx : Nat \cup {Indeterminate}])
    BY <1>5, <2>2 DEF AppendSlave, TypeOK
  <2>4. cnt' \in 0 .. (Len(Bus) + 1)
    BY <1>0, <1>5, <2>1 DEF AppendSlave
  <2> QED
    BY <1>5, <2>1, <2>3, <2>4 DEF AppendSlave, TypeOK
<1>6. CASE AllSlaves
  BY <1>6 DEF AllSlaves, TypeOK
<1>7. CASE WriteFile
  BY <1>7 DEF WriteFile, TypeOK
<1>8. CASE ReadSMCount
  <2>1. nSM' \in 0 .. EC_MAXSM /\ iSM' \in Nat
    <3>1. Len(slave.sms) \in Nat
      BY <1>8, SlaveInTurn DEF ReadSMCount, InBounds, InTurn
    <3> QED
      BY <1>8, <3>1, LastSMExists DEF ReadSMCount, TypeOK
  <2> QED
    BY <1>0, <1>8, <2>1 DEF ReadSMCount, TypeOK
<1>9. CASE ReadSMType
  <2>1. slave.sms[iSM + 1].type \in 0 .. 4
    <3>1. /\ cnt \in DOMAIN Bus /\ iSM >= 2 /\ iSM <= nSM /\ Len(slave.sms) > 2
          /\ nSM = LastSM(Len(slave.sms)) /\ iSM \in Nat
      BY <1>9 DEF ReadSMType, InBounds, InTurn, Mapping, TypeOK
    <3>2. Len(slave.sms) \in Nat
      BY <3>1, SlaveInTurn
    <3>3. LastSM(Len(slave.sms)) \in 0 .. EC_MAXSM /\ LastSM(Len(slave.sms)) + 1 <= Len(slave.sms)
      BY <3>1, <3>2, LastSMExists
    <3>4. iSM + 1 \in 1 .. Len(slave.sms)
      BY <3>1, <3>2, <3>3, LostAssumption
    <3> QED
      BY <3>1, <3>4, SlaveInTurn
  <2>2. BugAdd(slave.sms[iSM + 1].type) \in {0, 1} /\ Corrected(slave.sms[iSM + 1].type) \in 0 .. 5
    BY <2>1 DEF BugAdd, Corrected, TypeOK
  <2>3. iSM' \in Nat /\ SMt_bug_add' \in {0, 1} /\ tSM' \in 0 .. 5 /\ bitoffset' \in Nat
    BY <1>9, <2>2 DEF ReadSMType, TypeOK
  <2>4. pc' \in {"sm_type", "pdo_count"}
    BY <1>9 DEF ReadSMType
  <2> QED
    BY <1>0, <1>9, <2>3, <2>4 DEF ReadSMType, TypeOK
<1>10. CASE SMsEnd
  BY <1>10 DEF SMsEnd, TypeOK
<1>11. CASE ReadPDOCount
  <2>1. Len(pdos) \in Nat
    BY <1>11, PdosInTurn DEF ReadPDOCount, Assigning
  <2> QED
    BY <1>0, <1>11, <2>1 DEF ReadPDOCount, TypeOK
<1>12. CASE ReadPDO
  <2>1. Len(pdos[idxloop]) \in Nat
    <3>1. /\ Len(pdos) \in Nat
          /\ \A k \in 1 .. Len(pdos) : Len(pdos[k]) \in Nat
      BY <1>12, PdosInTurn DEF ReadPDO, Assigning
    <3>2. idxloop \in 1 .. Len(pdos)
      BY <1>12, <3>1 DEF ReadPDO, InBounds, TypeOK
    <3> QED
      BY <3>1, <3>2
  <2> QED
    BY <1>0, <1>12, <2>1 DEF ReadPDO, TypeOK
<1>13. CASE ReadEntry
  <2>1. pdos[idxloop][subidxloop] \in Nat
    BY <1>13, EntryInTurn DEF ReadEntry
  <2>2. cnt \in DOMAIN Bus
    BY <1>13 DEF ReadEntry, InBounds, InTurn, Mapping, Assigning
  <2>3. StartOf + bitoffset \div 8 \in Nat
    BY <2>2, SlaveInTurn DEF StartOf, TypeOK
  <2>4. bitoffset' \in Nat /\ lost' \in 0 .. MaxLost
    BY <1>0, <1>13, <2>1 DEF ReadEntry, TypeOK
  <2>5. rx_offset' \in Nat \cup {Indeterminate} /\ tx_offset' \in Nat \cup {Indeterminate}
    BY <1>13, <2>3 DEF ReadEntry, TypeOK
  <2> QED
    BY <1>13, <2>4, <2>5 DEF ReadEntry, TypeOK
<1>14. CASE EntriesEnd
  BY <1>14 DEF EntriesEnd, TypeOK
<1>15. CASE PDOsEnd
  BY <1>15 DEF PDOsEnd, TypeOK
<1>16. CASE UNCHANGED vars
  BY <1>16 DEF vars, TypeOK
<1> QED
  BY <1>1, <1>2, <1>3, <1>4, <1>5, <1>6, <1>7, <1>8, <1>9, <1>10, <1>11, <1>12,
     <1>13, <1>14, <1>15, <1>16 DEF Next, get_info, si_map_sdo, si_PDOassign

LEMMA BoundsStep == ASSUME TypeOK, InBounds, [Next]_vars PROVE InBounds'
<1> USE DEF mapVars, pdoVars, outVars, InTurn, Mapping, Assigning
<1>0. Len(Bus) \in Nat /\ DOMAIN Bus = 1 .. Len(Bus)
  BY BusAssumption
<1>1. cnt' = cnt => slave' = slave
  BY DEF slave
<1>2. cnt' = cnt /\ iSM' = iSM => pdos' = pdos
  BY <1>1 DEF pdos
<1>3. CASE NoSlaves
  BY <1>3 DEF NoSlaves, InBounds, TypeOK
<1>4. CASE SlavesFound
  BY <1>4 DEF SlavesFound, InBounds
<1>5. CASE SkipSlave
  BY <1>5 DEF SkipSlave, InBounds, TypeOK
<1>6. CASE MapSlave
  BY <1>0, <1>1, <1>6 DEF MapSlave, InBounds, TypeOK
<1>7. CASE AppendSlave
  BY <1>7 DEF AppendSlave, InBounds, TypeOK
<1>8. CASE AllSlaves
  BY <1>0, <1>8 DEF AllSlaves, InBounds, TypeOK
<1>9. CASE WriteFile
  BY <1>9 DEF WriteFile, InBounds
<1>10. CASE ReadSMCount
  BY <1>1, <1>10 DEF ReadSMCount, InBounds, LastSM
<1>11. CASE ReadSMType
  <2> DEFINE type == slave.sms[iSM + 1].type
  <2>1. /\ pc = "sm_type" /\ iSM <= nSM /\ iSM \in Nat /\ iSM >= 2 /\ nSM' = nSM /\ cnt' = cnt
        /\ file' = file /\ slave' = slave /\ pc' \in {"sm_type", "pdo_count"}
        /\ iSM' \in {iSM, iSM + 1}
    BY <1>1, <1>11 DEF ReadSMType, InBounds, TypeOK
  <2>2. SMt_bug_add' = 1 => slave.sms[3].type = 2
    <3>1. BugAdd(type) = 1 => SMt_bug_add = 1 \/ slave.sms[3].type = 2
      BY <2>1 DEF BugAdd
    <3> QED
      BY <1>11, <2>1, <3>1 DEF ReadSMType, InBounds
  <2>3. pc' = "pdo_count" => /\ iSM' = iSM /\ tSM' \in {3, 4}
                             /\ Taken(iSM + 1, tSM)'
    BY <1>11, <2>1 DEF ReadSMType, Taken, Corrected
  <2> QED
    BY <2>1, <2>2, <2>3 DEF InBounds
<1>12. CASE SMsEnd
  BY <1>1, <1>12 DEF SMsEnd, InBounds
<1>13. CASE ReadPDOCount
  BY <1>1, <1>2, <1>13 DEF ReadPDOCount, InBounds, LastSM, Taken, SDOread
<1>14. CASE ReadPDO
  BY <1>1, <1>2, <1>14 DEF ReadPDO, InBounds, LastSM, Taken, SDOread
<1>15. CASE ReadEntry
  BY <1>1, <1>2, <1>15 DEF ReadEntry, InBounds, LastSM, Taken, TypeOK
<1>16. CASE EntriesEnd
  BY <1>1, <1>2, <1>16 DEF EntriesEnd, InBounds, LastSM, Taken, TypeOK
<1>17. CASE PDOsEnd
  BY <1>1, <1>17 DEF PDOsEnd, InBounds, LastSM, TypeOK
<1>18. CASE UNCHANGED vars
  BY <1>1, <1>2, <1>18 DEF vars, InBounds, LastSM, Taken
<1> QED
  BY <1>3, <1>4, <1>5, <1>6, <1>7, <1>8, <1>9, <1>10, <1>11, <1>12, <1>13,
     <1>14, <1>15, <1>16, <1>17, <1>18 DEF Next, get_info, si_map_sdo, si_PDOassign

(***************************************************************************)
(* The list.                                                               *)
(***************************************************************************)

LEMMA ListedStep == ASSUME TypeOK, InBounds, ListedSoFar, [Next]_vars PROVE ListedSoFar'
<1> USE DEF mapVars, pdoVars, outVars
<1>0. Len(Bus) \in Nat /\ DOMAIN Bus = 1 .. Len(Bus)
  BY BusAssumption
<1>1. CASE UNCHANGED <<cnt, root>>
  BY <1>1 DEF ListedSoFar, InOrder
<1>2. CASE SlavesFound
  <2>1. cnt = 0 /\ cnt' = 1 /\ root' = root
    BY <1>2 DEF SlavesFound, InBounds
  <2>2. \A n \in DOMAIN Bus : n < cnt <=> n < cnt'
    BY <1>0, <2>1
  <2> QED
    BY <2>1, <2>2 DEF ListedSoFar, InOrder
<1>3. CASE SkipSlave
  <2>1. \A n \in DOMAIN Bus : n < cnt + 1 /\ Written(Bus[n].name) <=> n < cnt /\ Written(Bus[n].name)
    BY <1>0, <1>3 DEF SkipSlave, slave, TypeOK
  <2> QED
    BY <1>3, <2>1 DEF SkipSlave, ListedSoFar, InOrder
<1>4. CASE AppendSlave
  <2>1. /\ cnt \in DOMAIN Bus /\ Written(Bus[cnt].name) /\ cnt' = cnt + 1
        /\ root' = Append(root, [id |-> cnt, rx |-> rx_offset, tx |-> tx_offset])
    BY <1>4 DEF AppendSlave, InBounds, InTurn, slave
  <2>2. /\ root \in Seq([id : DOMAIN Bus, rx : Nat \cup {Indeterminate},
                          tx : Nat \cup {Indeterminate}])
        /\ Len(root) \in Nat
    BY DEF TypeOK
  <2>3. /\ DOMAIN root = 1 .. Len(root) /\ DOMAIN root' = 1 .. Len(root) + 1
        /\ \A k \in DOMAIN root : root'[k] = root[k]
        /\ root'[Len(root) + 1].id = cnt
    BY <2>1, <2>2
  <2>4. {root'[k].id : k \in DOMAIN root'} = {root[k].id : k \in DOMAIN root} \cup {cnt}
    BY <2>2, <2>3
  <2>5. \A n \in DOMAIN Bus : n < cnt + 1 <=> n < cnt \/ n = cnt
    BY <1>0, <2>1
  <2>6. \A k \in DOMAIN root : root[k].id \in DOMAIN Bus /\ root[k].id < cnt
    BY DEF ListedSoFar
  <2>7. InOrder'
    BY <2>2, <2>3, <2>6 DEF ListedSoFar, InOrder
  <2> QED
    BY <2>1, <2>4, <2>5, <2>7 DEF ListedSoFar
<1> QED
  BY <1>1, <1>2, <1>3, <1>4 DEF Next, get_info, si_map_sdo, si_PDOassign, vars,
     NoSlaves, MapSlave, AllSlaves, WriteFile, ReadSMCount, ReadSMType, SMsEnd,
     ReadPDOCount, ReadPDO, ReadEntry, EntriesEnd, PDOsEnd

(***************************************************************************)
(* No offset is shifted, whichever reads are lost.                         *)
(***************************************************************************)

(* Whether the correction was made or missed, one sync manager of a plain  *)
(* slave at most is taken for an output, and one for an input.             *)
LEMMA TakenOnce ==
  ASSUME NEW s, Plain(s), NEW bug \in {0, 1}, bug = 1 => s.sms[3].type = 2,
         NEW j \in 3 .. Len(s.sms), NEW k \in 3 .. Len(s.sms), NEW type \in {3, 4},
         s.sms[j].type \in 0 .. 4, s.sms[k].type \in 0 .. 4,
         s.sms[j].type + bug = type, s.sms[k].type + bug = type
  PROVE  j = k
<1>1. s.sms[j].type = s.sms[k].type
  OBVIOUS
<1>2. PICK o, n \in 3 .. Len(s.sms) :
        \A m \in 3 .. Len(s.sms) : /\ IsOutput(s, m) <=> m = o
                                   /\ IsInput(s, m) <=> m = n
  BY DEF Plain
<1>3. \/ IsOutput(s, j) /\ IsOutput(s, k)
      \/ IsInput(s, j) /\ IsInput(s, k)
  BY <1>1 DEF Plain, IsOutput, IsInput
<1> QED
  BY <1>2, <1>3

(* While a sync manager is looked at, the ones up to it exist.             *)
LEMMA SMsInTurn ==
  ASSUME TypeOK, InBounds, Mapping, iSM <= nSM
  PROVE  /\ cnt \in DOMAIN Bus /\ iSM \in Nat /\ Len(slave.sms) \in Nat
         /\ iSM + 1 \in 3 .. Len(slave.sms)
         /\ \A k \in 3 .. Len(slave.sms) : slave.sms[k].type \in 0 .. 4
<1>1. /\ cnt \in DOMAIN Bus /\ iSM >= 2 /\ Len(slave.sms) > 2
      /\ nSM = LastSM(Len(slave.sms)) /\ iSM \in Nat
  BY DEF InBounds, InTurn, TypeOK
<1>2. /\ Len(slave.sms) \in Nat
      /\ \A k \in 1 .. Len(slave.sms) : slave.sms[k].type \in 0 .. 4
  BY <1>1, SlaveInTurn
<1>3. LastSM(Len(slave.sms)) \in 0 .. EC_MAXSM /\ LastSM(Len(slave.sms)) + 1 <= Len(slave.sms)
  BY <1>1, <1>2, LastSMExists
<1> QED
  BY <1>1, <1>2, <1>3, LostAssumption

(* The correction is made at the first sync manager or not at all.         *)
LEMMA BugAddStays ==
  ASSUME TypeOK, ReadSMType, iSM # 2
  PROVE  SMt_bug_add' = SMt_bug_add
  BY DEF ReadSMType, BugAdd

LEMMA BitsStep == ASSUME TypeOK, InBounds, BitsCounted, [Next]_vars PROVE BitsCounted'
<1> USE DEF mapVars, pdoVars, outVars
<1>1. cnt' = cnt => slave' = slave
  BY DEF slave
<1>2. CASE ReadSMCount
  BY <1>2 DEF ReadSMCount, InBounds, BitsCounted
<1>3. CASE ReadSMType
  <2>1. /\ Mapping /\ cnt' = cnt /\ outputs_bo' = outputs_bo /\ inputs_bo' = inputs_bo
        /\ iSM \in Nat /\ iSM >= 2 /\ iSM' \in {iSM, iSM + 1}
    BY <1>3 DEF ReadSMType, Mapping, InBounds, TypeOK
  <2>2. CASE iSM = 2
    <3>1. outputs_bo = 0 /\ inputs_bo = 0
      BY <2>1, <2>2 DEF BitsCounted
    <3> QED
      BY <2>1, <3>1 DEF BitsCounted
  <2>3. CASE iSM # 2
    <3>1. SMt_bug_add' = SMt_bug_add
      BY <1>3, <2>3, BugAddStays
    <3>2. \A k, type : Taken(k, type)' <=> Taken(k, type)
      BY <1>1, <2>1, <3>1 DEF Taken
    <3>3. \A k \in 3 .. iSM : k \in 3 .. iSM'
      BY <2>1
    <3> QED
      BY <2>1, <3>2, <3>3 DEF BitsCounted
  <2> QED
    BY <2>2, <2>3
<1>4. CASE PDOsEnd
  <2>1. /\ Mapping /\ Assigning /\ cnt' = cnt /\ SMt_bug_add' = SMt_bug_add /\ iSM' = iSM + 1
        /\ iSM \in Nat /\ iSM >= 2
    BY <1>4 DEF PDOsEnd, Mapping, Assigning, InBounds, TypeOK
  <2>2. \A k, type : Taken(k, type)' <=> Taken(k, type)
    BY <1>1, <2>1 DEF Taken
  <2>3. iSM + 1 \in 3 .. iSM' /\ \A k \in 3 .. iSM : k \in 3 .. iSM'
    BY <2>1
  <2>4. Taken(iSM + 1, tSM)
    BY <2>1 DEF InBounds
  <2> QED
    BY <1>4, <2>1, <2>2, <2>3, <2>4 DEF PDOsEnd, BitsCounted
<1>5. CASE ReadPDOCount \/ ReadPDO \/ ReadEntry \/ EntriesEnd \/ UNCHANGED vars
  <2>1. Mapping' => Mapping
    BY <1>5 DEF Mapping, Assigning, ReadPDOCount, ReadPDO, ReadEntry, EntriesEnd, vars
  <2>2. UNCHANGED <<cnt, mapVars>>
    BY <1>5 DEF ReadPDOCount, ReadPDO, ReadEntry, EntriesEnd, vars
  <2>3. \A k, type : Taken(k, type)' <=> Taken(k, type)
    BY <1>1, <2>2 DEF Taken
  <2> QED
    BY <2>1, <2>2, <2>3 DEF BitsCounted
<1>6. CASE get_info \/ WriteFile \/ SMsEnd
  <2>1. ~Mapping'
    BY <1>6 DEF Mapping, Assigning, get_info, NoSlaves, SlavesFound, SkipSlave, MapSlave,
                AppendSlave, AllSlaves, WriteFile, SMsEnd
  <2> QED
    BY <2>1 DEF BitsCounted
<1> QED
  BY <1>2, <1>3, <1>4, <1>5, <1>6 DEF Next, si_map_sdo, si_PDOassign

LEMMA FirstEntryStep ==
  ASSUME TypeOK, InBounds, FirstEntryAtZero, TypeOK', InBounds', BitsCounted', [Next]_vars
  PROVE  FirstEntryAtZero'
<1> USE DEF mapVars, pdoVars, outVars
<1>1. cnt' = cnt => slave' = slave
  BY DEF slave
<1>2. CASE ReadSMType
  <2> SUFFICES ASSUME pc' = "pdo_count", Plain(slave')
               PROVE  bitoffset' = 0
    BY <1>2 DEF ReadSMType, FirstEntryAtZero
  <2>1. /\ cnt' = cnt /\ slave' = slave /\ iSM' = iSM /\ Mapping /\ iSM <= nSM
        /\ tSM' \in {3, 4} /\ bitoffset' = IF tSM' = 3 THEN outputs_bo' ELSE inputs_bo'
    BY <1>1, <1>2 DEF ReadSMType, Mapping
  <2>2. /\ iSM \in Nat /\ Len(slave.sms) \in Nat /\ iSM + 1 \in 3 .. Len(slave.sms)
        /\ \A k \in 3 .. Len(slave.sms) : slave.sms[k].type \in 0 .. 4
    BY <2>1, SMsInTurn
  <2>3. /\ SMt_bug_add' \in {0, 1}
        /\ SMt_bug_add' = 1 => slave.sms[3].type = 2
        /\ slave.sms[iSM + 1].type + SMt_bug_add' = tSM'
    BY <2>1 DEF TypeOK, InBounds, Mapping, Assigning, Taken
  <2>4. ASSUME NEW k \in 3 .. iSM, Taken(k, tSM)'
        PROVE  FALSE
    <3>1. k \in 3 .. Len(slave.sms) /\ k # iSM + 1
      BY <2>2
    <3>2. slave.sms[k].type + SMt_bug_add' = tSM'
      BY <2>1, <2>4 DEF Taken
    <3> QED
      BY <2>1, <2>2, <2>3, <3>1, <3>2, TakenOnce
  <2>5. /\ outputs_bo' # 0 => \E k \in 3 .. iSM : Taken(k, 3)'
        /\ inputs_bo' # 0 => \E k \in 3 .. iSM : Taken(k, 4)'
    BY <2>1 DEF BitsCounted, Mapping, Assigning
  <2>6. tSM' = 3 \/ tSM' = 4
    BY <2>1
  <2>7. CASE tSM' = 3
    BY <2>1, <2>4, <2>5, <2>7 DEF Taken
  <2>8. CASE tSM' = 4
    BY <2>1, <2>4, <2>5, <2>8 DEF Taken
  <2> QED
    BY <2>6, <2>7, <2>8
<1>3. CASE ReadPDOCount \/ ReadPDO
  BY <1>1, <1>3 DEF ReadPDOCount, ReadPDO, FirstEntryAtZero, IsFirstEntry, Assigning
<1>4. CASE ReadEntry \/ EntriesEnd
  <2>1. \/ pc' = "entry" /\ subidxloop' = subidxloop + 1
        \/ pc' = "pdo" /\ idxloop' = idxloop + 1
    BY <1>4 DEF ReadEntry, EntriesEnd
  <2>2. idxloop \in Nat /\ idxloop >= 1 /\ subidxloop \in Nat /\ subidxloop >= 1
    BY <1>4 DEF ReadEntry, EntriesEnd, InBounds, TypeOK
  <2> QED
    BY <2>1, <2>2 DEF FirstEntryAtZero, IsFirstEntry
<1>5. CASE UNCHANGED vars
  BY <1>1, <1>5 DEF vars, FirstEntryAtZero, IsFirstEntry, Assigning
<1>6. CASE get_info \/ WriteFile \/ ReadSMCount \/ SMsEnd \/ PDOsEnd
  <2>1. ~Assigning'
    BY <1>6 DEF Assigning, get_info, NoSlaves, SlavesFound, SkipSlave, MapSlave, AppendSlave,
                AllSlaves, WriteFile, ReadSMCount, SMsEnd, PDOsEnd
  <2> QED
    BY <2>1 DEF FirstEntryAtZero
<1> QED
  BY <1>2, <1>3, <1>4, <1>5, <1>6 DEF Next, si_map_sdo, si_PDOassign

(* The offset of a plain slave that an entry assigns.                      *)
LEMMA EntryOffset ==
  ASSUME TypeOK, InBounds, FirstEntryAtZero, ReadEntry, Plain(slave)
  PROVE  /\ rx_offset' = IF IsFirstEntry /\ tSM = 3 THEN slave.outputs ELSE rx_offset
         /\ tx_offset' = IF IsFirstEntry /\ tSM = 4 THEN slave.inputs ELSE tx_offset
<1>1. slave.outputs \in Nat /\ slave.inputs \in Nat
  BY SlaveInTurn DEF ReadEntry, InBounds, InTurn, Mapping, Assigning
<1>2. IsFirstEntry => bitoffset = 0
  BY DEF FirstEntryAtZero, Assigning, ReadEntry
<1>3. 0 \div 8 = 0
  OBVIOUS
<1>4. IsFirstEntry => StartOf + bitoffset \div 8 = IF tSM = 3 THEN slave.outputs ELSE slave.inputs
  BY <1>1, <1>2, <1>3 DEF StartOf
<1>5. ~(tSM = 3 /\ tSM = 4)
  OBVIOUS
<1> QED
  BY <1>4, <1>5 DEF ReadEntry

LEMMA OffsetsStep ==
  ASSUME TypeOK, InBounds, FirstEntryAtZero, OffsetsSoFar, [Next]_vars
  PROVE  OffsetsSoFar'
<1> USE DEF mapVars, pdoVars, outVars
<1>1. cnt' = cnt => slave' = slave
  BY DEF slave
<1>2. CASE MapSlave
  BY <1>2 DEF MapSlave, OffsetsSoFar
<1>3. CASE ReadEntry
  <2>1. InTurn /\ cnt' = cnt
    BY <1>3 DEF ReadEntry, InTurn, Mapping, Assigning
  <2> QED
    BY <1>1, <1>3, <2>1, EntryOffset DEF OffsetsSoFar
<1>4. CASE si_map_sdo \/ ReadPDOCount \/ ReadPDO \/ EntriesEnd \/ PDOsEnd \/ UNCHANGED vars
  <2>1. (InTurn' => InTurn) /\ UNCHANGED <<cnt, rx_offset, tx_offset>>
    BY <1>4 DEF si_map_sdo, ReadSMCount, ReadSMType, SMsEnd, ReadPDOCount, ReadPDO, EntriesEnd,
                PDOsEnd, vars, InTurn, Mapping, Assigning
  <2> QED
    BY <1>1, <2>1 DEF OffsetsSoFar
<1>5. CASE NoSlaves \/ SlavesFound \/ SkipSlave \/ AppendSlave \/ AllSlaves \/ WriteFile
  <2>1. ~InTurn'
    BY <1>5 DEF NoSlaves, SlavesFound, SkipSlave, AppendSlave, AllSlaves, WriteFile,
                InTurn, Mapping, Assigning
  <2> QED
    BY <2>1 DEF OffsetsSoFar
<1> QED
  BY <1>2, <1>3, <1>4, <1>5 DEF Next, get_info, si_PDOassign

(* An entry of the list is never changed after it was appended.            *)
LEMMA RootGrows ==
  ASSUME TypeOK, [Next]_vars
  PROVE  /\ AppendSlave \/ root' = root
         /\ AppendSlave =>
              /\ DOMAIN root' = DOMAIN root \cup {Len(root) + 1}
              /\ \A k \in DOMAIN root : root'[k] = root[k]
              /\ root'[Len(root) + 1] = [id |-> cnt, rx |-> rx_offset, tx |-> tx_offset]
<1>1. AppendSlave \/ root' = root
  BY DEF Next, get_info, si_map_sdo, si_PDOassign, NoSlaves, SlavesFound, SkipSlave, MapSlave,
         AllSlaves, WriteFile, ReadSMCount, ReadSMType, SMsEnd, ReadPDOCount, ReadPDO, ReadEntry,
         EntriesEnd, PDOsEnd, vars, outVars
<1>2. ASSUME AppendSlave
      PROVE  /\ DOMAIN root' = DOMAIN root \cup {Len(root) + 1}
             /\ \A k \in DOMAIN root : root'[k] = root[k]
             /\ root'[Len(root) + 1] = [id |-> cnt, rx |-> rx_offset, tx |-> tx_offset]
  <2> DEFINE new == [id |-> cnt, rx |-> rx_offset, tx |-> tx_offset]
  <2>1. Len(root) \in Nat /\ DOMAIN root = 1 .. Len(root)
    BY DEF TypeOK
  <2> HIDE DEF new
  <2>2. root' = Append(root, new)
    BY <1>2 DEF AppendSlave, new
  <2>3. /\ DOMAIN root' = 1 .. Len(root) + 1 /\ root'[Len(root) + 1] = new
        /\ \A k \in 1 .. Len(root) : root'[k] = root[k]
    BY <2>1, <2>2 DEF TypeOK
  <2> QED
    BY <2>1, <2>3 DEF new
<1> QED
  BY <1>1, <1>2

LEMMA NeverShiftedStep ==
  ASSUME TypeOK, OffsetsSoFar, NeverShifted, [Next]_vars
  PROVE  NeverShifted'
<1>1. CASE root' = root
  BY <1>1 DEF NeverShifted
<1>2. CASE AppendSlave
  <2>1. Plain(Bus[cnt]) => /\ rx_offset \in {Indeterminate, Bus[cnt].outputs}
                           /\ tx_offset \in {Indeterminate, Bus[cnt].inputs}
    BY <1>2 DEF AppendSlave, OffsetsSoFar, InTurn, slave
  <2> SUFFICES ASSUME NEW k \in DOMAIN root'
               PROVE  LET s == Bus[root'[k].id] IN
                        Plain(s) => /\ root'[k].rx \in {Indeterminate, s.outputs}
                                    /\ root'[k].tx \in {Indeterminate, s.inputs}
    BY DEF NeverShifted
  <2>2. CASE k \in DOMAIN root
    BY <1>2, <2>2, RootGrows DEF NeverShifted
  <2>3. CASE k = Len(root) + 1
    BY <1>2, <2>1, <2>3, RootGrows
  <2> QED
    BY <1>2, <2>2, <2>3, RootGrows
<1> QED
  BY <1>1, <1>2, RootGrows

LEMMA InitScanInv == Init => ScanInv
<1> SUFFICES ASSUME Init PROVE ScanInv
  OBVIOUS
<1>1. TypeOK
  BY BusAssumption, LostAssumption DEF Init, TypeOK
<1>2. ~InTurn /\ ~Mapping /\ ~Assigning
  BY DEF Init, InTurn, Mapping, Assigning
<1>3. InBounds /\ BitsCounted /\ FirstEntryAtZero /\ OffsetsSoFar
  BY <1>2 DEF Init, InBounds, BitsCounted, FirstEntryAtZero, OffsetsSoFar
<1>4. DOMAIN root = {}
  BY DEF Init
<1>5. \A n \in DOMAIN Bus : ~(n < cnt)
  BY BusAssumption DEF Init
<1>6. ListedSoFar /\ NeverShifted
  BY <1>4, <1>5 DEF ListedSoFar, InOrder, NeverShifted
<1> QED
  BY <1>1, <1>3, <1>6 DEF ScanInv

LEMMA NextScanInv == ASSUME ScanInv, [Next]_vars PROVE ScanInv'
<1>1. /\ TypeOK /\ InBounds /\ ListedSoFar /\ BitsCounted /\ FirstEntryAtZero
      /\ OffsetsSoFar /\ NeverShifted
  BY DEF ScanInv
<1>2. TypeOK' /\ InBounds'
  BY <1>1, TypeStep, BoundsStep
<1>3. ListedSoFar' /\ BitsCounted'
  BY <1>1, ListedStep, BitsStep
<1>4. FirstEntryAtZero'
  BY <1>1, <1>2, <1>3, FirstEntryStep
<1>5. OffsetsSoFar' /\ NeverShifted'
  BY <1>1, OffsetsStep, NeverShiftedStep
<1> QED
  BY <1>2, <1>3, <1>4, <1>5 DEF ScanInv

(***************************************************************************)
(* Nothing is missed when every read is answered.                          *)
(***************************************************************************)

(* With the right correction the types tell the directions.                *)
LEMMA TypeIsDirection ==
  ASSUME NEW s, NEW bug, bug = (IF s.sms[3].type = 2 THEN 1 ELSE 0),
         NEW k, s.sms[k].type \in 0 .. 4
  PROVE  /\ IsOutput(s, k) <=> s.sms[k].type # 0 /\ s.sms[k].type + bug = 3
         /\ IsInput(s, k) <=> s.sms[k].type # 0 /\ s.sms[k].type + bug = 4
  BY DEF IsOutput, IsInput

(* A plain slave has something to read for each direction.                 *)
LEMMA PlainHasPdos ==
  ASSUME NEW s, Plain(s), NEW k \in 3 .. Len(s.sms), IsOutput(s, k) \/ IsInput(s, k)
  PROVE  s.sms[k].pdos # << >> /\ s.sms[k].pdos[1] # << >>
  BY DEF Plain

LEMMA PlainHasBoth ==
  ASSUME NEW s, Plain(s)
  PROVE  /\ \E k \in 3 .. Len(s.sms) : IsOutput(s, k)
         /\ \E k \in 3 .. Len(s.sms) : IsInput(s, k)
  BY DEF Plain

(* In si_PDOassign the SM has PDOs, the first of them has entries, and its *)
(* direction is tSM.                                                       *)
LEMMA DirectionInTurn ==
  ASSUME TypeOK, InBounds, AllAnswered, Assigning
  PROVE  /\ IsOutput(slave, iSM + 1) <=> tSM = 3
         /\ IsInput(slave, iSM + 1) <=> tSM = 4
         /\ Plain(slave) => Len(pdos) >= 1 /\ Len(pdos[1]) >= 1
<1>1. /\ iSM + 1 \in 3 .. Len(slave.sms)
      /\ \A k \in 3 .. Len(slave.sms) : slave.sms[k].type \in 0 .. 4
  BY SMsInTurn DEF InBounds, Mapping
<1>2. SMt_bug_add = (IF slave.sms[3].type = 2 THEN 1 ELSE 0)
  BY DEF AllAnswered
<1>3. slave.sms[iSM + 1].type # 0 /\ slave.sms[iSM + 1].type + SMt_bug_add = tSM /\ tSM \in {3, 4}
  BY DEF InBounds, Taken
<1>4. /\ IsOutput(slave, iSM + 1) <=> tSM = 3
      /\ IsInput(slave, iSM + 1) <=> tSM = 4
  BY <1>1, <1>2, <1>3, TypeIsDirection
<1>5. ASSUME Plain(slave)
      PROVE  Len(pdos) >= 1 /\ Len(pdos[1]) >= 1
  <2>1. pdos # << >> /\ pdos[1] # << >>
    BY <1>1, <1>3, <1>4, <1>5, PlainHasPdos DEF pdos
  <2>2. /\ pdos \in Seq(Seq(Nat)) /\ Len(pdos) \in Nat
        /\ \A k \in 1 .. Len(pdos) : pdos[k] \in Seq(Nat) /\ Len(pdos[k]) \in Nat
    BY PdosInTurn
  <2>3. Len(pdos) >= 1
    BY <2>1, <2>2
  <2>4. pdos[1] \in Seq(Nat) /\ Len(pdos[1]) \in Nat
    BY <2>2, <2>3
  <2> QED
    BY <2>1, <2>3, <2>4
<1> QED
  BY <1>4, <1>5

(* The type of a sync manager that was answered.                           *)
LEMMA AnsweredType ==
  ASSUME TypeOK, InBounds, AllAnswered, ReadSMType, Answered, slave' = slave
  PROVE  AllAnswered'
<1> DEFINE type == slave.sms[iSM + 1].type
<1>1. /\ Mapping /\ pc = "sm_type" /\ iSM <= nSM /\ iSM >= 2
      /\ UNCHANGED <<cnt, nSM, rx_offset, tx_offset, root>>
  BY DEF ReadSMType, outVars, InBounds, Mapping
<1>2. /\ iSM \in Nat /\ Len(slave.sms) \in Nat /\ iSM + 1 \in 3 .. Len(slave.sms)
      /\ \A k \in 3 .. Len(slave.sms) : slave.sms[k].type \in 0 .. 4
  BY <1>1, SMsInTurn
<1>3. /\ SMt_bug_add' = BugAdd(type) /\ tSM' = Corrected(type)
      /\ pc' = (IF tSM' \in {3, 4} THEN "pdo_count" ELSE "sm_type")
      /\ iSM' = IF tSM' \in {3, 4} THEN iSM ELSE iSM + 1
  BY DEF ReadSMType, Answered, Lost, TypeOK
<1>4. SMt_bug_add' = (IF slave.sms[3].type = 2 THEN 1 ELSE 0)
  <2>1. CASE iSM = 2
    BY <1>1, <1>3, <2>1 DEF BugAdd, InBounds, TypeOK
  <2>2. CASE iSM # 2
    BY <1>1, <1>2, <1>3, <2>2 DEF BugAdd, AllAnswered
  <2> QED
    BY <2>1, <2>2
<1>5. /\ IsOutput(slave, iSM + 1) => tSM' = 3
      /\ IsInput(slave, iSM + 1) => tSM' = 4
  BY <1>2, <1>3, <1>4, TypeIsDirection DEF Corrected
<1>6. ASSUME Plain(slave), NEW k \in 3 .. iSM'
      PROVE  /\ IsOutput(slave, k) => rx_offset = slave.outputs
             /\ IsInput(slave, k) => tx_offset = slave.inputs
  <2>1. CASE k \in 3 .. iSM
    BY <1>1, <1>6, <2>1 DEF AllAnswered
  <2>2. CASE k = iSM + 1
    <3>1. tSM' \notin {3, 4}
      BY <1>2, <1>3, <1>6, <2>2
    <3> QED
      BY <1>5, <2>2, <3>1
  <2> QED
    BY <1>2, <1>3, <1>6, <2>1, <2>2
<1>7. OffsetsAreStarts'
  BY <1>1 DEF AllAnswered, OffsetsAreStarts
<1>8. pc' \in {"pdo_count", "sm_type"}
  BY <1>3
<1> QED
  BY <1>1, <1>4, <1>6, <1>7, <1>8 DEF AllAnswered

(* The steps of si_PDOassign whose reads were answered.                    *)
LEMMA AnsweredPdos ==
  ASSUME TypeOK, InBounds, FirstEntryAtZero, AllAnswered, Answered, slave' = slave,
         si_PDOassign
  PROVE  AllAnswered'
<1> USE DEF mapVars, pdoVars, outVars
<1>1. /\ Assigning /\ Mapping /\ UNCHANGED <<cnt, SMt_bug_add, root>>
      /\ iSM \in Nat /\ iSM >= 2
  BY DEF si_PDOassign, ReadPDOCount, ReadPDO, ReadEntry, EntriesEnd, PDOsEnd, Assigning, Mapping,
         InBounds, TypeOK
<1>2. /\ IsOutput(slave, iSM + 1) <=> tSM = 3
      /\ IsInput(slave, iSM + 1) <=> tSM = 4
      /\ Plain(slave) => Len(pdos) >= 1 /\ Len(pdos[1]) >= 1
  BY <1>1, DirectionInTurn
<1>3. SMt_bug_add' = (IF slave'.sms[3].type = 2 THEN 1 ELSE 0)
  BY <1>1 DEF AllAnswered
<1>4. OffsetsAreStarts'
  BY <1>1 DEF AllAnswered, OffsetsAreStarts
<1>5. iSM' = iSM => pdos' = pdos
  BY DEF pdos
<1>6. ~(lost < MaxLost /\ lost' = lost + 1)
  BY DEF Answered, TypeOK
<1>7. CASE ReadPDOCount
  <2>1. nidx' = Len(pdos) /\ pc' = "pdo" /\ idxloop' = 1 /\ UNCHANGED <<iSM, rx_offset, tx_offset>>
    BY <1>6, <1>7 DEF ReadPDOCount, SDOread, Lost
  <2> QED
    BY <1>1, <1>3, <1>4, <1>5, <2>1 DEF AllAnswered, Mapping, Assigning
<1>8. CASE ReadPDO
  <2>1. /\ subidx' = Len(pdos[idxloop]) /\ pc = "pdo" /\ pc' = "entry" /\ subidxloop' = 1
        /\ UNCHANGED <<iSM, idxloop, nidx, tSM, rx_offset, tx_offset>>
    BY <1>6, <1>8 DEF ReadPDO, SDOread, Lost
  <2>2. (~IsFirstEntry)' => idxloop > 1
    BY <2>1 DEF IsFirstEntry, InBounds, TypeOK
  <2>3. Plain(slave) /\ idxloop > 1 => Assigned'
    BY <2>1 DEF AllAnswered, Assigned
  <2> QED
    BY <1>1, <1>3, <1>4, <1>5, <2>1, <2>2, <2>3 DEF AllAnswered, Mapping, Assigning
<1>9. CASE ReadEntry
  <2>1. pc = "entry" /\ pc' = "entry" /\ UNCHANGED <<iSM, idxloop, nidx, subidx, tSM>>
    BY <1>9 DEF ReadEntry
  <2>2. ASSUME Plain(slave)
        PROVE  /\ Assigned'
               /\ rx_offset = slave.outputs => rx_offset' = slave.outputs
               /\ tx_offset = slave.inputs => tx_offset' = slave.inputs
    <3>1. /\ rx_offset' = IF IsFirstEntry /\ tSM = 3 THEN slave.outputs ELSE rx_offset
          /\ tx_offset' = IF IsFirstEntry /\ tSM = 4 THEN slave.inputs ELSE tx_offset
      BY <1>9, <2>2, EntryOffset
    <3>2. ~IsFirstEntry => Assigned
      BY <2>1, <2>2 DEF AllAnswered
    <3> QED
      BY <2>1, <3>1, <3>2 DEF Assigned
  <2> QED
    BY <1>1, <1>3, <1>4, <1>5, <2>1, <2>2 DEF AllAnswered, Mapping, Assigning
<1>10. CASE EntriesEnd
  <2>1. /\ pc = "entry" /\ pc' = "pdo" /\ subidxloop > subidx
        /\ UNCHANGED <<iSM, nidx, tSM, rx_offset, tx_offset>>
    BY <1>10 DEF EntriesEnd
  <2>2. ASSUME Plain(slave)
        PROVE  ~IsFirstEntry
    BY <1>2, <2>1, <2>2 DEF IsFirstEntry, AllAnswered, TypeOK
  <2>3. Plain(slave) => Assigned'
    BY <2>1, <2>2 DEF AllAnswered, Assigned
  <2> QED
    BY <1>1, <1>3, <1>4, <1>5, <2>1, <2>3 DEF AllAnswered, Mapping, Assigning
<1>11. CASE PDOsEnd
  <2>1. /\ pc = "pdo" /\ pc' = "sm_type" /\ iSM' = iSM + 1 /\ idxloop > nidx
        /\ UNCHANGED <<rx_offset, tx_offset>>
    BY <1>11 DEF PDOsEnd
  <2>2. ASSUME Plain(slave)
        PROVE  Assigned
    <3>1. idxloop > 1
      BY <1>2, <2>1, <2>2 DEF AllAnswered, TypeOK
    <3> QED
      BY <2>1, <2>2, <3>1 DEF AllAnswered
  <2>3. ASSUME Plain(slave), NEW k \in 3 .. iSM'
        PROVE  /\ IsOutput(slave, k) => rx_offset = slave.outputs
               /\ IsInput(slave, k) => tx_offset = slave.inputs
    <3>1. CASE k \in 3 .. iSM
      BY <1>1, <2>3, <3>1 DEF AllAnswered
    <3>2. CASE k = iSM + 1
      BY <1>2, <2>2, <2>3, <3>2 DEF Assigned
    <3> QED
      BY <1>1, <2>1, <2>3, <3>1, <3>2
  <2> QED
    BY <1>3, <1>4, <2>1, <2>3 DEF AllAnswered, Mapping, Assigning
<1> QED
  BY <1>7, <1>8, <1>9, <1>10, <1>11 DEF si_PDOassign

(* The last sync manager of a plain slave was looked at.                   *)
LEMMA AnsweredEnd ==
  ASSUME TypeOK, InBounds, AllAnswered, SMsEnd, Plain(slave)
  PROVE  rx_offset = slave.outputs /\ tx_offset = slave.inputs
<1>1. /\ Mapping /\ iSM > nSM /\ iSM \in Nat
      /\ nSM = LastSM(Len(slave.sms)) /\ cnt \in DOMAIN Bus
  BY DEF SMsEnd, InBounds, InTurn, Mapping, TypeOK
<1>2. Len(slave.sms) \in 3 .. (EC_MAXSM + 1) /\ Len(slave.sms) \in Nat
  BY <1>1, SlaveInTurn DEF Plain
<1>3. nSM = Len(slave.sms) - 1
  BY <1>1, <1>2, LostAssumption DEF LastSM
<1>4. \A k \in 3 .. Len(slave.sms) : k \in 3 .. iSM
  BY <1>1, <1>2, <1>3
<1>5. \A k \in 3 .. iSM : /\ IsOutput(slave, k) => rx_offset = slave.outputs
                          /\ IsInput(slave, k) => tx_offset = slave.inputs
  BY <1>1 DEF AllAnswered
<1> QED
  BY <1>4, <1>5, PlainHasBoth

LEMMA AnsweredStep == ASSUME ScanInv, AnsweredInv, [Next]_vars PROVE AnsweredInv'
<1> USE DEF mapVars, pdoVars, outVars
<1> SUFFICES ASSUME lost' = 0 PROVE AllAnswered'
  BY DEF AnsweredInv
<1>1. TypeOK /\ InBounds /\ FirstEntryAtZero
  BY DEF ScanInv
<1>2. lost' = lost \/ lost' = lost + 1
  BY DEF Next, get_info, si_map_sdo, si_PDOassign, NoSlaves, SlavesFound, SkipSlave, MapSlave,
         AppendSlave, AllSlaves, WriteFile, ReadSMCount, ReadSMType, SMsEnd, ReadPDOCount, ReadPDO,
         ReadEntry, EntriesEnd, PDOsEnd, vars, SDOread, Answered, Lost
<1>3. lost = 0 /\ Answered /\ AllAnswered /\ ~Lost
  <2>1. lost \in Nat
    BY <1>1 DEF TypeOK
  <2> QED
    BY <1>2, <2>1 DEF Answered, AnsweredInv, Lost
<1>4. cnt' = cnt => slave' = slave
  BY DEF slave
<1>5. CASE ReadSMCount
  <2>1. cnt \in DOMAIN Bus /\ cnt' = cnt /\ root' = root /\ pc = "sm_count"
    BY <1>1, <1>5 DEF ReadSMCount, InBounds, InTurn
  <2>2. Len(slave.sms) \in Nat
    BY <2>1, SlaveInTurn
  <2>3. Plain(slave) => Len(slave.sms) > 2
    BY <2>2 DEF Plain
  <2>4. \/ pc' = "sm_type" /\ iSM' = 2
        \/ pc' = "append" /\ ~Plain(slave)
    BY <1>3, <1>5, <2>2, <2>3 DEF ReadSMCount
  <2>5. OffsetsAreStarts'
    BY <1>3, <2>1 DEF AllAnswered, OffsetsAreStarts
  <2> QED
    BY <1>4, <2>1, <2>4, <2>5 DEF AllAnswered, Mapping, Assigning
<1>6. CASE ReadSMType
  BY <1>1, <1>3, <1>4, <1>6, AnsweredType DEF ReadSMType
<1>7. CASE si_PDOassign
  <2>1. cnt' = cnt
    BY <1>7 DEF si_PDOassign, ReadPDOCount, ReadPDO, ReadEntry, EntriesEnd, PDOsEnd
  <2> QED
    BY <1>1, <1>3, <1>4, <1>7, <2>1, AnsweredPdos
<1>8. CASE SMsEnd
  <2>1. pc' = "append" /\ UNCHANGED <<cnt, rx_offset, tx_offset, root>>
    BY <1>8 DEF SMsEnd
  <2>2. Plain(slave) => rx_offset = slave.outputs /\ tx_offset = slave.inputs
    BY <1>1, <1>3, <1>8, AnsweredEnd
  <2>3. OffsetsAreStarts'
    BY <1>3, <2>1 DEF AllAnswered, OffsetsAreStarts
  <2> QED
    BY <1>4, <2>1, <2>2, <2>3 DEF AllAnswered, Mapping, Assigning
<1>9. CASE AppendSlave
  <2>1. pc' = "slave"
    BY <1>9 DEF AppendSlave
  <2>2. Plain(Bus[cnt]) => rx_offset = Bus[cnt].outputs /\ tx_offset = Bus[cnt].inputs
    BY <1>3, <1>9 DEF AppendSlave, AllAnswered, slave
  <2>3. OffsetsAreStarts'
    <3> SUFFICES ASSUME NEW k \in DOMAIN root'
                 PROVE  LET s == Bus[root'[k].id] IN
                          Plain(s) => root'[k].rx = s.outputs /\ root'[k].tx = s.inputs
      BY DEF OffsetsAreStarts
    <3>1. CASE k \in DOMAIN root
      BY <1>1, <1>3, <1>9, <3>1, RootGrows DEF AllAnswered, OffsetsAreStarts
    <3>2. CASE k = Len(root) + 1
      BY <1>1, <1>9, <2>2, <3>2, RootGrows
    <3> QED
      BY <1>1, <1>9, <3>1, <3>2, RootGrows
  <2> QED
    BY <2>1, <2>3 DEF AllAnswered, Mapping, Assigning
<1>10. CASE NoSlaves \/ SlavesFound \/ SkipSlave \/ MapSlave \/ AllSlaves \/ WriteFile
  <2>1. pc' \in {"slave", "sm_count", "write", "done"} /\ root' = root
    BY <1>10 DEF NoSlaves, SlavesFound, SkipSlave, MapSlave, AllSlaves, WriteFile
  <2>2. OffsetsAreStarts'
    BY <1>3, <2>1 DEF AllAnswered, OffsetsAreStarts
  <2> QED
    BY <2>1, <2>2 DEF AllAnswered, Mapping, Assigning
<1>11. CASE UNCHANGED vars
  <2>1. pdos' = pdos
    BY <1>4, <1>11 DEF pdos, vars
  <2> QED
    BY <1>3, <1>4, <1>11, <2>1 DEF vars, AllAnswered, Mapping, Assigning, Assigned, IsFirstEntry,
       OffsetsAreStarts
<1> QED
  BY <1>5, <1>6, <1>7, <1>8, <1>9, <1>10, <1>11 DEF Next, get_info, si_map_sdo

(***************************************************************************)
(* The theorems.                                                           *)
(***************************************************************************)

(* The invariant of the scan of generate_config_file.                      *)
THEOREM Invariant == Spec => []IInv
<1>1. Init => IInv
  <2> SUFFICES ASSUME Init PROVE AllAnswered
    BY InitScanInv DEF IInv, AnsweredInv
  <2>1. pc = "init" /\ DOMAIN root = {}
    BY DEF Init
  <2> QED
    BY <2>1 DEF AllAnswered, Mapping, Assigning, OffsetsAreStarts
<1>2. IInv /\ [Next]_vars => IInv'
  BY NextScanInv, AnsweredStep DEF IInv
<1> QED
  BY <1>1, <1>2, PTL DEF Spec

(* Every variable has its type, for any ring and any lost reads: no sync   *)
(* manager beyond EC_MAXSM is looked at.                                   *)
THEOREM TypeCorrect == Spec => []TypeOK
<1>1. IInv => TypeOK
  BY DEF IInv, ScanInv
<1> QED
  BY <1>1, Invariant, PTL

(* Whichever SDO reads fail, and however many, an offset of a plain slave  *)
(* that si_PDOassign assigned is where the outputs or inputs start.        *)
THEOREM NothingShifted == Spec => []NeverShifted
<1>1. IInv => NeverShifted
  BY DEF IInv, ScanInv
<1> QED
  BY <1>1, Invariant, PTL

(* The uint8_t that "return -1" gives.                                     *)
LEMMA MinusOneAsByte == (-1) % 256 = 255
<1>1. ASSUME NEW x \in Int, x = -1
      PROVE  x % 256 = 255
  <2>1. x % 256 \in 0 .. 255
    OBVIOUS
  <2>2. x \div 256 \in Int
    OBVIOUS
  <2>3. x = 256 * (x \div 256) + (x % 256)
    OBVIOUS
  <2>4. \A q \in Int, r \in 0 .. 255 : -1 = 256 * q + r => r = 255
    OBVIOUS
  <2> QED
    BY <1>1, <2>1, <2>2, <2>3, <2>4, Zenon
<1>2. -1 \in Int
  OBVIOUS
<1> QED
  BY <1>1, <1>2, Zenon

(* The names that get_info looks for are those that getSlaveType knows.    *)
LEMMA WrittenAreKnown == \A name : Written(name) <=> getSlaveType(name) # UNKNOWN_SLAVE
<1>1. UNKNOWN_SLAVE = 255
  BY MinusOneAsByte DEF UNKNOWN_SLAVE
<1> QED
  BY <1>1 DEF Written, getSlaveType, KELO_DRIVE_SLAVE, ROBILE_BATTERY_SLAVE, KELO_BMS_SLAVE

(* When every SDO read is answered, get_info lists every slave that        *)
(* getSlaveType knows, once and in order, with the right offsets.          *)
THEOREM CompleteIfAnswered == Spec => []CompleteWhenAnswered
<1>1. ASSUME IInv PROVE CompleteWhenAnswered
  <2> SUFFICES ASSUME pc = "done", lost = 0, cnt > 0
               PROVE  /\ InOrder
                      /\ {root[k].id : k \in DOMAIN root} =
                           {n \in DOMAIN Bus : getSlaveType(Bus[n].name) # UNKNOWN_SLAVE}
                      /\ OffsetsAreStarts
    BY DEF CompleteWhenAnswered, OffsetsAreStarts
  <2>1. InBounds /\ ListedSoFar /\ AllAnswered
    BY <1>1 DEF IInv, ScanInv, AnsweredInv
  <2>2. cnt = Len(Bus) + 1
    BY <2>1 DEF InBounds
  <2>3. \A n \in DOMAIN Bus : n < cnt
    BY <2>2, BusAssumption
  <2>4. {n \in DOMAIN Bus : n < cnt /\ Written(Bus[n].name)} =
          {n \in DOMAIN Bus : getSlaveType(Bus[n].name) # UNKNOWN_SLAVE}
    BY <2>3, WrittenAreKnown
  <2> QED
    BY <2>1, <2>4 DEF ListedSoFar, AllAnswered
<1> QED
  BY <1>1, Invariant, PTL

(***************************************************************************)
(* How the scan comes to its end.                                          *)
(***************************************************************************)

(* The rounds that are left of a loop from k to n.                         *)
Rounds(k, n) == IF k > n THEN 0 ELSE n + 1 - k

(* What is left of the four nested loops: with every number of rounds, how *)
(* far the round in turn is. A loop that does not run has nothing left.    *)
SlavesLeft ==
  CASE pc = "init"     -> 4 * Len(Bus) + 8
    [] pc = "slave"    -> 4 * Rounds(cnt, Len(Bus)) + 5
    [] pc = "sm_count" -> 4 * Rounds(cnt, Len(Bus)) + 4
    [] Mapping         -> 4 * Rounds(cnt, Len(Bus)) + 3
    [] pc = "append"   -> 4 * Rounds(cnt, Len(Bus)) + 2
    [] pc = "write"    -> 1
    [] pc = "done"     -> 0

SMsLeft ==
  CASE pc = "sm_type"           -> 3 * Rounds(iSM, nSM) + 2
    [] pc = "pdo_count"         -> 3 * Rounds(iSM, nSM) + 1
    [] pc \in {"pdo", "entry"}  -> 3 * Rounds(iSM, nSM)
    [] ~Mapping                 -> 0

PDOsLeft ==
  CASE pc = "pdo"                   -> 2 * Rounds(idxloop, nidx) + 1
    [] pc = "entry"                 -> 2 * Rounds(idxloop, nidx)
    [] pc \notin {"pdo", "entry"}   -> 0

EntriesLeft == IF pc = "entry" THEN Rounds(subidxloop, subidx) ELSE 0

ScanLeft == <<SlavesLeft, SMsLeft, PDOsLeft, EntriesLeft>>

(* An inner loop may have more left when one around it has less.           *)
ScanOrder == LexProductOrdering(OpToRel(<, Nat), Nat, 4)

LessLeft == <<ScanLeft', ScanLeft>> \in ScanOrder

(* Every step of the scan leaves less of it, whether a read is answered or *)
(* lost.                                                                   *)
ScanComesCloser ==
  /\ [](ScanLeft \in [1 .. 4 -> Nat])
  /\ [][LessLeft]_vars

(* What is left is a tuple of numbers, and its parts are these.            *)
LEMMA LeftIsTuple ==
  ASSUME TypeOK
  PROVE  /\ ScanLeft \in [1 .. 4 -> Nat]
         /\ ScanLeft[1] = SlavesLeft /\ ScanLeft[2] = SMsLeft
         /\ ScanLeft[3] = PDOsLeft /\ ScanLeft[4] = EntriesLeft
<1> DEFINE a == Rounds(cnt, Len(Bus))
           b == Rounds(iSM, nSM)
           c == Rounds(idxloop, nidx)
<1>1. Len(Bus) \in Nat
  BY BusAssumption
<1>2. a \in Nat /\ b \in Nat /\ c \in Nat /\ Rounds(subidxloop, subidx) \in Nat
  <2>1. /\ cnt \in Int /\ Len(Bus) \in Int /\ iSM \in Int /\ nSM \in Int
        /\ idxloop \in Int /\ nidx \in Int /\ subidxloop \in Int /\ subidx \in Int
    BY <1>1, LostAssumption DEF TypeOK
  <2> QED
    BY <2>1 DEF Rounds
<1>0. pc \in {"init", "slave", "sm_count", "sm_type", "pdo_count", "pdo", "entry",
             "append", "write", "done"}
  BY DEF TypeOK
<1> HIDE DEF a, b, c
<1>3. SlavesLeft \in Nat
  BY <1>0, <1>1, <1>2 DEF SlavesLeft, Mapping, Assigning, a
<1>4. SMsLeft \in Nat
  BY <1>0, <1>2 DEF SMsLeft, Mapping, Assigning, b
<1>5. PDOsLeft \in Nat
  BY <1>2 DEF PDOsLeft, c
<1>6. EntriesLeft \in Nat
  BY <1>2 DEF EntriesLeft
<1> QED
  BY <1>3, <1>4, <1>5, <1>6 DEF ScanLeft

(* How the order is met: one number is less and those before it stay.      *)
LEMMA LessIn ==
  ASSUME NEW x \in [1 .. 4 -> Nat], NEW y \in [1 .. 4 -> Nat],
         \/ x[1] < y[1]
         \/ x[1] = y[1] /\ x[2] < y[2]
         \/ x[1] = y[1] /\ x[2] = y[2] /\ x[3] < y[3]
         \/ x[1] = y[1] /\ x[2] = y[2] /\ x[3] = y[3] /\ x[4] < y[4]
  PROVE  <<x, y>> \in ScanOrder
<1>1. \E j \in 1 .. 4 : x[j] < y[j] /\ \A i \in 1 .. (j - 1) : x[i] = y[i]
  OBVIOUS
<1>2. PICK j \in 1 .. 4 : x[j] < y[j] /\ \A i \in 1 .. (j - 1) : x[i] = y[i]
  BY <1>1
<1>3. <<x[j], y[j]>> \in OpToRel(<, Nat)
  BY <1>2 DEF OpToRel
<1> QED
  BY <1>2, <1>3 DEF ScanOrder, LexProductOrdering

(* The order has no endless descent.                                       *)
LEMMA OrderIsWellFounded == IsWellFoundedOn(ScanOrder, [1 .. 4 -> Nat])
<1>1. IsWellFoundedOn(OpToRel(<, Nat), Nat)
  BY NatLessThanWellFounded, Zenon
<1>2. 4 \in Nat
  OBVIOUS
<1> QED
  BY <1>1, <1>2, WFLexProductOrdering, Zenon DEF ScanOrder

(* Less rounds are left, however far the next one has to go.               *)
LEMMA LessRounds ==
  \A x, y \in Nat : x < y => /\ 4 * x + 5 < 4 * y + 5 /\ 4 * x + 5 < 4 * y + 2
                             /\ 3 * x + 2 < 3 * y /\ 3 * x + 2 < 3 * y + 2
                             /\ 2 * x + 1 < 2 * y
OBVIOUS

(* A step ends a round of a loop, or goes on in the round in turn.         *)
LEMMA StepLeavesLess ==
  ASSUME TypeOK, InBounds, Next
  PROVE  \/ SlavesLeft' < SlavesLeft
         \/ SlavesLeft' = SlavesLeft /\ SMsLeft' < SMsLeft
         \/ SlavesLeft' = SlavesLeft /\ SMsLeft' = SMsLeft /\ PDOsLeft' < PDOsLeft
         \/ /\ SlavesLeft' = SlavesLeft /\ SMsLeft' = SMsLeft /\ PDOsLeft' = PDOsLeft
            /\ EntriesLeft' < EntriesLeft
<1> USE DEF mapVars, pdoVars, Mapping, Assigning
<1> DEFINE a == Rounds(cnt, Len(Bus))
           b == Rounds(iSM, nSM)
           c == Rounds(idxloop, nidx)
           d == Rounds(subidxloop, subidx)
<1>0. /\ cnt \in Int /\ Len(Bus) \in Nat /\ iSM \in Int /\ nSM \in Int
      /\ idxloop \in Int /\ nidx \in Int /\ subidxloop \in Int /\ subidx \in Int
  BY BusAssumption, LostAssumption DEF TypeOK
<1>1. a \in Nat /\ b \in Nat /\ c \in Nat /\ d \in Nat
  BY <1>0 DEF Rounds
<1>2. CASE NoSlaves
  BY <1>0, <1>2 DEF NoSlaves, SlavesLeft
<1>3. CASE SlavesFound
  BY <1>0, <1>3 DEF SlavesFound, SlavesLeft, Rounds
<1>4. CASE SkipSlave \/ AppendSlave
  <2>1. /\ cnt <= Len(Bus) /\ cnt' = cnt + 1 /\ pc' = "slave"
        /\ pc \in {"slave", "append"}
    BY <1>0, <1>4 DEF SkipSlave, AppendSlave, InBounds, InTurn
  <2>2. a' < a /\ a' \in Nat
    BY <1>0, <2>1 DEF Rounds
  <2>3. SlavesLeft' = 4 * a' + 5 /\ SlavesLeft \in {4 * a + 5, 4 * a + 2}
    BY <2>1 DEF SlavesLeft
  <2> HIDE DEF a
  <2>4. SlavesLeft' < SlavesLeft
    BY <1>1, <2>2, <2>3, LessRounds
  <2> QED
    BY <2>4
<1>5. CASE MapSlave
  BY <1>1, <1>5 DEF MapSlave, SlavesLeft
<1>6. CASE AllSlaves
  BY <1>1, <1>6 DEF AllSlaves, SlavesLeft
<1>7. CASE WriteFile
  BY <1>7 DEF WriteFile, SlavesLeft
<1>8. CASE ReadSMCount
  BY <1>1, <1>8 DEF ReadSMCount, SlavesLeft
<1>9. CASE ReadSMType
  <2>1. /\ pc = "sm_type" /\ iSM <= nSM /\ cnt' = cnt /\ nSM' = nSM
        /\ \/ pc' = "pdo_count" /\ iSM' = iSM
           \/ pc' = "sm_type" /\ iSM' = iSM + 1
    BY <1>9 DEF ReadSMType
  <2>2. SlavesLeft' = SlavesLeft
    BY <2>1 DEF SlavesLeft
  <2>3. b' \in Nat /\ (iSM' = iSM => b' = b) /\ (iSM' = iSM + 1 => b' < b)
    BY <1>0, <1>1, <2>1 DEF Rounds
  <2>4. /\ SMsLeft = 3 * b + 2
        /\ pc' = "pdo_count" => SMsLeft' = 3 * b' + 1
        /\ pc' = "sm_type" => SMsLeft' = 3 * b' + 2
    BY <2>1 DEF SMsLeft
  <2> HIDE DEF b
  <2>5. SMsLeft' < SMsLeft
    BY <1>1, <2>1, <2>3, <2>4, LessRounds
  <2> QED
    BY <2>2, <2>5
<1>10. CASE SMsEnd
  BY <1>1, <1>10 DEF SMsEnd, SlavesLeft
<1>11. CASE ReadPDOCount
  <2>1. pc = "pdo_count" /\ pc' = "pdo" /\ UNCHANGED <<cnt, iSM, nSM>>
    BY <1>11 DEF ReadPDOCount
  <2>2. SlavesLeft' = SlavesLeft
    BY <2>1 DEF SlavesLeft
  <2>3. SMsLeft = 3 * b + 1 /\ SMsLeft' = 3 * b
    BY <2>1 DEF SMsLeft
  <2> HIDE DEF b
  <2> QED
    BY <1>1, <2>2, <2>3
<1>12. CASE ReadPDO \/ ReadEntry \/ EntriesEnd
  <2>1. UNCHANGED <<cnt, iSM, nSM, nidx>> /\ pc \in {"pdo", "entry"} /\ pc' \in {"pdo", "entry"}
    BY <1>12 DEF ReadPDO, ReadEntry, EntriesEnd
  <2>2. SlavesLeft' = SlavesLeft
    BY <2>1 DEF SlavesLeft
  <2>3. SMsLeft' = SMsLeft
    BY <2>1 DEF SMsLeft
  <2>4. CASE ReadPDO
    <3>1. PDOsLeft = 2 * c + 1 /\ PDOsLeft' = 2 * c
      BY <2>4 DEF ReadPDO, PDOsLeft
    <3> HIDE DEF c
    <3> QED
      BY <1>1, <2>2, <2>3, <3>1
  <2>5. CASE ReadEntry
    <3>1. /\ pc = "entry" /\ pc' = "entry" /\ subidxloop <= subidx
          /\ subidxloop' = subidxloop + 1 /\ UNCHANGED <<idxloop, subidx>>
      BY <2>5 DEF ReadEntry
    <3>2. PDOsLeft' = PDOsLeft
      BY <2>1, <3>1 DEF PDOsLeft
    <3>3. d' < d
      BY <1>0, <3>1 DEF Rounds
    <3>4. EntriesLeft' < EntriesLeft
      BY <3>1, <3>3 DEF EntriesLeft
    <3> QED
      BY <2>2, <2>3, <3>2, <3>4
  <2>6. CASE EntriesEnd
    <3>1. /\ pc = "entry" /\ pc' = "pdo" /\ idxloop <= nidx /\ idxloop' = idxloop + 1
      BY <2>6 DEF EntriesEnd, InBounds
    <3>2. c' < c /\ c' \in Nat
      BY <1>0, <2>1, <3>1 DEF Rounds
    <3>3. PDOsLeft = 2 * c /\ PDOsLeft' = 2 * c' + 1
      BY <3>1 DEF PDOsLeft
    <3> HIDE DEF c
    <3>4. PDOsLeft' < PDOsLeft
      BY <1>1, <3>2, <3>3, LessRounds
    <3> QED
      BY <2>2, <2>3, <3>4
  <2> QED
    BY <1>12, <2>4, <2>5, <2>6
<1>13. CASE PDOsEnd
  <2>1. /\ pc = "pdo" /\ pc' = "sm_type" /\ iSM <= nSM /\ iSM' = iSM + 1
        /\ UNCHANGED <<cnt, nSM>>
    BY <1>13 DEF PDOsEnd, InBounds
  <2>2. SlavesLeft' = SlavesLeft
    BY <2>1 DEF SlavesLeft
  <2>3. b' < b /\ b' \in Nat
    BY <1>0, <2>1 DEF Rounds
  <2>4. SMsLeft = 3 * b /\ SMsLeft' = 3 * b' + 2
    BY <2>1 DEF SMsLeft
  <2> HIDE DEF b
  <2>5. SMsLeft' < SMsLeft
    BY <1>1, <2>3, <2>4, LessRounds
  <2> QED
    BY <2>2, <2>5
<1> QED
  BY <1>2, <1>3, <1>4, <1>5, <1>6, <1>7, <1>8, <1>9, <1>10, <1>11, <1>12, <1>13
     DEF Next, get_info, si_map_sdo, si_PDOassign

(* get_info, si_map_sdo and si_PDOassign end, for every ring and whichever *)
(* reads are lost: each step leaves less, in an order without an endless   *)
(* descent.                                                                *)
THEOREM ScanIsBounded ==
  /\ IsWellFoundedOn(ScanOrder, [1 .. 4 -> Nat])
  /\ Spec => ScanComesCloser
<1>1. IInv => TypeOK
  BY DEF IInv, ScanInv
<1>2. TypeOK => ScanLeft \in [1 .. 4 -> Nat]
  BY LeftIsTuple
<1>3. ASSUME IInv, TypeOK, [Next]_vars,
             ScanLeft \in [1 .. 4 -> Nat], (ScanLeft \in [1 .. 4 -> Nat])'
      PROVE  [LessLeft]_vars
  <2> SUFFICES ASSUME Next PROVE LessLeft
    BY <1>3
  <2>1. /\ ScanLeft[1] = SlavesLeft /\ ScanLeft[2] = SMsLeft
        /\ ScanLeft[3] = PDOsLeft /\ ScanLeft[4] = EntriesLeft
        /\ ScanLeft'[1] = SlavesLeft' /\ ScanLeft'[2] = SMsLeft'
        /\ ScanLeft'[3] = PDOsLeft' /\ ScanLeft'[4] = EntriesLeft'
    BY DEF ScanLeft
  <2>2. InBounds
    BY <1>3 DEF IInv, ScanInv
  <2>3. \/ ScanLeft'[1] < ScanLeft[1]
        \/ ScanLeft'[1] = ScanLeft[1] /\ ScanLeft'[2] < ScanLeft[2]
        \/ /\ ScanLeft'[1] = ScanLeft[1] /\ ScanLeft'[2] = ScanLeft[2]
           /\ ScanLeft'[3] < ScanLeft[3]
        \/ /\ ScanLeft'[1] = ScanLeft[1] /\ ScanLeft'[2] = ScanLeft[2]
           /\ ScanLeft'[3] = ScanLeft[3] /\ ScanLeft'[4] < ScanLeft[4]
    BY <1>3, <2>1, <2>2, StepLeavesLess
  <2>4. <<ScanLeft', ScanLeft>> \in ScanOrder
    BY <1>3, <2>3, LessIn
  <2> QED
    BY <2>4 DEF LessLeft
<1>4. Spec => ScanComesCloser
  BY <1>1, <1>2, <1>3, Invariant, PTL DEF Spec, ScanComesCloser
<1> QED
  BY <1>4, OrderIsWellFounded
=============================================================================
