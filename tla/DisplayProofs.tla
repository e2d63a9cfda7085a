--------------------------- MODULE DisplayProofs ----------------------------
(***************************************************************************)
(* Proofs about Display, for every list of slaves, every content of the    *)
(* packets and every number of packets and events.                         *)
(***************************************************************************)
EXTENDS Display, TLAPS, SequenceTheorems

(* A source has slaves, numbered from 1: cur and at begin at the first.    *)
LEMMA SlavesNumbered ==
  ASSUME slaves \in SlaveLists
  PROVE  /\ Len(slaves) \in Nat \ {0}
         /\ DOMAIN slaves = 1 .. Len(slaves)
         /\ 1 \in DOMAIN slaves
<1>1. slaves \in Seq(Types) /\ slaves # << >>
  BY ListsAssumption
<1>2. Len(slaves) \in Nat /\ DOMAIN slaves = 1 .. Len(slaves)
  BY <1>1
<1>3. Len(slaves) # 0
  BY <1>1, <1>2
<1> QED
  BY <1>2, <1>3

(* The state after a discovery satisfies the invariant.                    *)
LEMMA InitIInv == Init => IInv
<1> SUFFICES ASSUME Init
             PROVE  IInv
  OBVIOUS
<1>1. slaves \in SlaveLists
  BY DEF Init
<1>2. /\ Len(slaves) \in Nat \ {0}
      /\ DOMAIN slaves = 1 .. Len(slaves)
      /\ 1 \in DOMAIN slaves
  BY <1>1, SlavesNumbered
<1>3. MaxPackets \in Nat /\ MaxQueue \in Nat
  BY BoundsAssumption
<1>4. TypeOK
  <2>1. 0 \in Packets /\ 0 \in 0 .. MaxQueue
    BY <1>3 DEF Packets
  <2>2. held \in [DOMAIN slaves -> [rx : Packets, tx : Packets]]
    BY <2>1 DEF Init
  <2>3. Dated(Blank)
    BY <2>1 DEF Dated, Blank
  <2>4. DOMAIN labels = DOMAIN slaves
    BY DEF Init
  <2>5. \A i \in DOMAIN slaves : Dated(labels[i].rx) /\ Dated(labels[i].tx)
    BY <2>3 DEF Init
  <2> QED
    BY <1>1, <1>2, <2>1, <2>2, <2>3, <2>4, <2>5 DEF Init, TypeOK
<1>5. Control
  BY DEF Init, Control
<1>6. Ordered
  BY <1>2 DEF Init, Ordered, StructsOrdered, LabelsOrdered, ReadsOrdered, NewestRx, NewestTx, Blank
<1>7. Copied
  BY <1>2 DEF Init, Copied
<1>8. Settling
  BY <1>2 DEF Init, Settling, Exact, Blank
<1> QED
  BY <1>4, <1>5, <1>6, <1>7, <1>8 DEF IInv

(* What the type invariant says of numbers.                                *)
LEMMA Numbers ==
  ASSUME TypeOK
  PROVE  /\ Len(slaves) \in Nat \ {0}
         /\ DOMAIN slaves = 1 .. Len(slaves)
         /\ MaxPackets \in Nat /\ MaxQueue \in Nat /\ Packets \subseteq Nat
         /\ packet \in Nat /\ cur \in Nat /\ at \in Nat /\ from \in Nat /\ queue \in Nat
         /\ rx_vals.lo \in Nat /\ rx_vals.hi \in Nat
         /\ \A i \in DOMAIN slaves :
              /\ held[i].rx \in Nat /\ held[i].tx \in Nat
              /\ held[i].rx \in Packets /\ held[i].tx \in Packets
              /\ NewestRx(i) \in Packets /\ NewestTx(i) \in Packets
              /\ NewestRx(i) \in Nat /\ NewestTx(i) \in Nat
              /\ labels[i].rx.lo \in Nat /\ labels[i].rx.hi \in Nat
              /\ labels[i].tx.lo \in Nat /\ labels[i].tx.hi \in Nat
<1>1. MaxPackets \in Nat /\ MaxQueue \in Nat /\ Packets \subseteq Nat
  BY BoundsAssumption DEF Packets
<1>2. Len(slaves) \in Nat \ {0} /\ DOMAIN slaves = 1 .. Len(slaves)
  BY SlavesNumbered DEF TypeOK
<1>3. /\ packet \in Nat /\ cur \in Nat /\ at \in Nat /\ from \in Nat /\ queue \in Nat
      /\ rx_vals.lo \in Nat /\ rx_vals.hi \in Nat
  <2>1. packet \in Packets /\ from \in Packets /\ rx_vals.lo \in Packets /\ rx_vals.hi \in Packets
    BY DEF TypeOK, Dated
  <2>2. cur \in DOMAIN slaves /\ at \in DOMAIN slaves /\ queue \in 0 .. MaxQueue
    BY DEF TypeOK
  <2>3. packet \in Nat /\ from \in Nat /\ rx_vals.lo \in Nat /\ rx_vals.hi \in Nat
    BY <1>1, <2>1
  <2>4. cur \in Nat /\ at \in Nat /\ queue \in Nat
    BY <1>1, <1>2, <2>2
  <2> QED
    BY <2>3, <2>4
<1>4. ASSUME NEW i \in DOMAIN slaves
      PROVE  held[i].rx \in Packets /\ held[i].tx \in Packets
  BY <1>4 DEF TypeOK
<1>5. ASSUME NEW i \in DOMAIN slaves
      PROVE  NewestRx(i) \in Packets /\ NewestTx(i) \in Packets
  BY <1>4, <1>5 DEF TypeOK, NewestRx, NewestTx
<1>6. ASSUME NEW i \in DOMAIN slaves
      PROVE  /\ labels[i].rx.lo \in Nat /\ labels[i].rx.hi \in Nat
             /\ labels[i].tx.lo \in Nat /\ labels[i].tx.hi \in Nat
  BY <1>1, <1>6 DEF TypeOK, Dated
<1> QED
  BY <1>1, <1>2, <1>3, <1>4, <1>5, <1>6

(* The thread that copies keeps the types.                                 *)
LEMMA TypeThread ==
  ASSUME TypeOK, Control,
         CheckRunning \/ Receive \/ NoFrame \/ EndOfFile \/ CopyRx \/ CopyTx \/ SnifferCallback
  PROVE  TypeOK'
<1> USE Numbers DEF sourceVars, guiVars, Dated
<1>1. CASE CheckRunning
  BY <1>1 DEF CheckRunning, TypeOK
<1>2. CASE Receive
  <2>1. packet' \in Packets
    BY <1>2 DEF Receive, Packets
  <2>2. 1 \in DOMAIN slaves
    OBVIOUS
  <2> QED
    BY <1>2, <2>1, <2>2 DEF Receive, BeginCopy, TypeOK
<1>3. CASE NoFrame
  <2>1. 1 \in DOMAIN slaves
    OBVIOUS
  <2> QED
    BY <1>3, <2>1 DEF NoFrame, BeginCopy, TypeOK
<1>4. CASE EndOfFile
  BY <1>4 DEF EndOfFile, TypeOK
<1>5. CASE CopyRx
  <2>1. held' \in [DOMAIN slaves -> [rx : Packets, tx : Packets]]
    BY <1>5 DEF CopyRx, TypeOK
  <2> QED
    BY <1>5, <2>1 DEF CopyRx, TypeOK
<1>6. CASE CopyTx
  <2>1. held' \in [DOMAIN slaves -> [rx : Packets, tx : Packets]]
    BY <1>6 DEF CopyTx, TypeOK
  <2>2. cur' \in DOMAIN slaves
    <3>1. cur \in 1 .. Len(slaves)
      BY DEF TypeOK
    <3> QED
      BY <1>6, <3>1 DEF CopyTx
  <2>3. thread' \in {"rx", "loop", "callback"}
    BY <1>6 DEF CopyTx, TypeOK
  <2> QED
    BY <1>6, <2>1, <2>2, <2>3 DEF CopyTx, TypeOK
<1>7. CASE SnifferCallback
  <2>1. queue' \in 0 .. MaxQueue
    BY <1>7 DEF SnifferCallback, Control, TypeOK
  <2> QED
    BY <1>7, <2>1 DEF SnifferCallback, TypeOK
<1> QED
  BY <1>1, <1>2, <1>3, <1>4, <1>5, <1>6, <1>7

(* What ReadTx leaves in the labels, and where it goes on.                 *)
LEMMA ReadTxEffect ==
  ASSUME TypeOK, ReadTx
  PROVE  /\ DOMAIN labels' = DOMAIN slaves
         /\ \A i \in DOMAIN slaves : i # at => labels'[i] = labels[i]
         /\ labels'[at].rx.lo = rx_vals.lo /\ labels'[at].rx.hi = rx_vals.hi
         /\ labels'[at].tx.lo = from /\ labels'[at].tx.hi = NewestTx(at)
         /\ \/ gui' = "rx" /\ at' = at + 1 /\ at' \in DOMAIN slaves /\ from' = held[at'].rx
            \/ gui' = "loop" /\ at' = 1 /\ at' \in DOMAIN slaves /\ from' = 0 /\ at = Len(slaves)
<1>1. at \in DOMAIN slaves /\ DOMAIN labels = DOMAIN slaves
  BY DEF TypeOK
<1>2. PICK words :
        labels' = [labels EXCEPT ![at] =
                     [rx |-> Label(rx_vals),
                      tx |-> Label([lo |-> from, hi |-> NewestTx(at), words |-> words,
                                    tips |-> << >>])]]
  BY DEF ReadTx
<1>3. /\ labels'[at].rx = Label(rx_vals)
      /\ labels'[at].tx = Label([lo |-> from, hi |-> NewestTx(at), words |-> words, tips |-> << >>])
  BY <1>1, <1>2
<1>4. ASSUME NEW v
      PROVE  Label(v).lo = v.lo /\ Label(v).hi = v.hi
  BY DEF Label
<1>5. /\ labels'[at].rx.lo = rx_vals.lo /\ labels'[at].rx.hi = rx_vals.hi
      /\ labels'[at].tx.lo = from /\ labels'[at].tx.hi = NewestTx(at)
  BY <1>3, <1>4
<1>6. DOMAIN labels' = DOMAIN slaves /\ \A i \in DOMAIN slaves : i # at => labels'[i] = labels[i]
  BY <1>1, <1>2
<1>7. \/ gui' = "rx" /\ at' = at + 1 /\ at' \in DOMAIN slaves /\ from' = held[at'].rx
      \/ gui' = "loop" /\ at' = 1 /\ at' \in DOMAIN slaves /\ from' = 0 /\ at = Len(slaves)
  BY <1>1, Numbers DEF ReadTx, LastSlave
<1> QED
  BY <1>5, <1>6, <1>7

(* So do the other thread of the master and the GUI thread: a read that    *)
(* meets a memcpy still has the packets of the run.                        *)
LEMMA TypeOthers ==
  ASSUME TypeOK, Control,
         dataCopyLoop \/ handleStart \/ TakeEvent \/ handleDataChanged
  PROVE  TypeOK'
<1> USE Numbers DEF sourceVars, threadVars, guiVars
<1>1. CASE TestRunning \/ LockData
  BY <1>1 DEF TestRunning, LockData, TypeOK, Dated
<1>2. CASE MasterCallback
  <2>1. queue' \in 0 .. MaxQueue
    BY <1>2 DEF MasterCallback, Control, TypeOK
  <2> QED
    BY <1>2, <2>1 DEF MasterCallback, TypeOK, Dated
<1>3. CASE Start
  BY <1>3 DEF Start, TypeOK, Dated
<1>4. CASE Stop
  BY <1>4 DEF Stop, TypeOK, Dated
<1>5. CASE StopReturns
  BY <1>5 DEF StopReturns, TypeOK, Dated
<1>6. CASE TakeEvent
  <2>1. queue \in 0 .. MaxQueue
    BY DEF TypeOK
  <2>2. queue' \in 0 .. MaxQueue
    BY <1>6, <2>1 DEF TakeEvent
  <2>3. 1 \in DOMAIN slaves
    OBVIOUS
  <2>4. held[1].rx \in Packets
    BY <2>3
  <2> QED
    BY <1>6, <2>2, <2>3, <2>4 DEF TakeEvent, TypeOK, Dated
<1>7. CASE ReadRx
  <2>1. at \in DOMAIN slaves /\ from \in Packets
    BY DEF TypeOK
  <2>2. NewestRx(at) \in Packets /\ held[at].tx \in Packets
    BY <2>1
  <2>3. rx_vals'.lo = from /\ rx_vals'.hi = NewestRx(at)
    BY <1>7 DEF ReadRx
  <2>4. Dated(rx_vals)'
    BY <2>1, <2>2, <2>3 DEF Dated, Packets
  <2> QED
    BY <1>7, <2>2, <2>4 DEF ReadRx, TypeOK, Dated
<1>8. CASE ReadTx
  <2>1. at \in DOMAIN slaves /\ from \in Packets /\ Dated(rx_vals) /\ 0 \in Packets
    BY DEF TypeOK, Packets
  <2>2. NewestTx(at) \in Packets
    BY <2>1
  <2>3. at' \in DOMAIN slaves /\ from' \in Packets /\ gui' \in {"rx", "loop"}
    BY <1>8, <2>1, ReadTxEffect
  <2>4. \A i \in DOMAIN slaves : Dated(labels'[i].rx) /\ Dated(labels'[i].tx)
    BY <1>8, <2>1, <2>2, ReadTxEffect DEF TypeOK, Dated
  <2>5. Dated(rx_vals)'
    BY <1>8, <2>1 DEF ReadTx, Blank, Dated, Packets
  <2>6. DOMAIN labels' = DOMAIN slaves
    BY <1>8, ReadTxEffect
  <2> QED
    BY <1>8, <2>3, <2>4, <2>5, <2>6 DEF ReadTx, TypeOK, Dated, Packets
<1> QED
  BY <1>1, <1>2, <1>3, <1>4, <1>5, <1>6, <1>7, <1>8
  DEF dataCopyLoop, handleStart, handleDataChanged

(* Threads run only between Start and the return of stop, and the thread   *)
(* that posts has room for its event.                                      *)
LEMMA ControlStep == ASSUME TypeOK, Control, [Next]_vars PROVE Control'
<1> USE Numbers DEF sourceVars, threadVars, guiVars, Control, TypeOK
<1>1. CASE CheckRunning
  BY <1>1 DEF CheckRunning
<1>2. CASE Receive
  BY <1>2 DEF Receive, BeginCopy
<1>3. CASE NoFrame
  BY <1>3 DEF NoFrame, BeginCopy
<1>4. CASE EndOfFile
  BY <1>4 DEF EndOfFile
<1>5. CASE CopyRx
  BY <1>5 DEF CopyRx
<1>6. CASE CopyTx
  BY <1>6 DEF CopyTx
<1>7. CASE SnifferCallback
  BY <1>7 DEF SnifferCallback
<1>8. CASE TestRunning \/ LockData
  BY <1>8 DEF TestRunning, LockData
<1>9. CASE MasterCallback
  BY <1>9 DEF MasterCallback
<1>10. CASE Start
  BY <1>10 DEF Start
<1>11. CASE Stop
  BY <1>11 DEF Stop
<1>12. CASE StopReturns
  BY <1>12 DEF StopReturns
<1>13. CASE TakeEvent
  <2>1. queue' < queue /\ queue' \in Int
    BY <1>13 DEF TakeEvent
  <2>2. gui = "loop" /\ gui' = "rx" /\ UNCHANGED <<running, thread, data_copy, kind>>
    BY <1>13 DEF TakeEvent
  <2>3. queue < MaxQueue => queue' < MaxQueue
    <3>1. queue \in Int /\ MaxQueue \in Int
      OBVIOUS
    <3> QED
      BY ONLY <2>1, <3>1
  <2> QED
    BY <2>2, <2>3
<1>14. CASE ReadRx
  BY <1>14 DEF ReadRx
<1>15. CASE ReadTx
  BY <1>15, ReadTxEffect DEF ReadTx
<1>16. CASE UNCHANGED vars
  BY <1>16 DEF vars
<1> QED
  BY <1>1, <1>2, <1>3, <1>4, <1>5, <1>6, <1>7, <1>8, <1>9, <1>10, <1>11, <1>12,
     <1>13, <1>14, <1>15, <1>16
  DEF Next, copyingThread, dataCopyLoop, handleStart, handleDataChanged

(* The thread that copies only brings newer packets: into the structs, and *)
(* on the way into them. Neither it nor a callback touches a label.        *)
LEMMA OnlyNewer ==
  ASSUME TypeOK, StructsOrdered,
         CheckRunning \/ Receive \/ NoFrame \/ EndOfFile \/ CopyRx \/ CopyTx \/ SnifferCallback
  PROVE  /\ UNCHANGED <<slaves, guiVars>>
         /\ packet' \in Nat
         /\ \A i \in DOMAIN slaves :
              /\ held'[i].rx \in Nat /\ held'[i].tx \in Nat
              /\ held[i].rx <= held'[i].rx /\ held'[i].rx <= packet'
              /\ held[i].tx <= held'[i].tx /\ held'[i].tx <= packet'
              /\ NewestRx(i) <= NewestRx(i)' /\ NewestRx(i)' \in Nat
              /\ NewestTx(i) <= NewestTx(i)' /\ NewestTx(i)' \in Nat
<1> USE Numbers DEF sourceVars, StructsOrdered, NewestRx, NewestTx
<1>1. CASE CheckRunning
  BY <1>1 DEF CheckRunning
<1>2. CASE Receive
  <2>1. /\ UNCHANGED <<slaves, held, guiVars>> /\ packet' = packet + 1
        /\ thread = "recv" /\ thread' \in {"loop", "rx"}
    BY <1>2 DEF Receive, BeginCopy
  <2>2. ASSUME NEW i \in DOMAIN slaves
        PROVE  /\ held'[i].rx = held[i].rx /\ held'[i].tx = held[i].tx
               /\ NewestRx(i) = held[i].rx /\ NewestTx(i) = held[i].tx
               /\ NewestTx(i)' = held[i].tx
               /\ NewestRx(i)' \in {packet', held[i].rx}
    BY ONLY <2>1 DEF NewestRx, NewestTx
  <2>3. packet \in Nat /\ packet' \in Nat /\ packet <= packet'
    BY <2>1
  <2>4. ASSUME NEW i \in DOMAIN slaves
        PROVE  /\ held[i].rx \in Nat /\ held[i].rx <= packet'
               /\ held[i].tx \in Nat /\ held[i].tx <= packet'
    <3>1. /\ held[i].rx \in Nat /\ held[i].rx <= packet
          /\ held[i].tx \in Nat /\ held[i].tx <= packet
      BY <2>4
    <3> QED
      BY ONLY <2>3, <3>1
  <2>5. ASSUME NEW i \in DOMAIN slaves
        PROVE  /\ held[i].rx <= held'[i].rx /\ held[i].tx <= held'[i].tx
               /\ NewestRx(i) <= NewestRx(i)' /\ NewestRx(i)' \in Nat
               /\ NewestTx(i) <= NewestTx(i)' /\ NewestTx(i)' \in Nat
    <3> HIDE DEF NewestRx, NewestTx
    <3> QED
      BY ONLY <2>2, <2>3, <2>4, <2>5
  <2> HIDE DEF NewestRx, NewestTx, StructsOrdered
  <2> QED
    BY ONLY <2>1, <2>2, <2>3, <2>4, <2>5
<1>3. CASE NoFrame
  BY <1>3 DEF NoFrame, BeginCopy
<1>4. CASE EndOfFile
  BY <1>4 DEF EndOfFile
<1>5. CASE CopyRx
  <2>1. ASSUME NEW i \in DOMAIN slaves
        PROVE  held'[i].tx = held[i].tx /\ held'[i].rx = IF i = cur THEN packet ELSE held[i].rx
    BY <1>5, <2>1 DEF CopyRx, TypeOK
  <2> QED
    BY <1>5, <2>1 DEF CopyRx
<1>6. CASE CopyTx
  <2>1. ASSUME NEW i \in DOMAIN slaves
        PROVE  held'[i].rx = held[i].rx /\ held'[i].tx = IF i = cur THEN packet ELSE held[i].tx
    BY <1>6, <2>1 DEF CopyTx, TypeOK
  <2>2. /\ UNCHANGED <<slaves, packet, guiVars>>
        /\ thread = "tx" /\ thread' \in {"rx", "loop", "callback"}
    BY <1>6 DEF CopyTx
  <2>3. ASSUME NEW i \in DOMAIN slaves
        PROVE  /\ NewestRx(i) <= NewestRx(i)' /\ NewestRx(i)' \in Nat
               /\ NewestTx(i) <= NewestTx(i)' /\ NewestTx(i)' \in Nat
    <3>1. held'[i].rx = held[i].rx /\ held'[i].tx = IF i = cur THEN packet ELSE held[i].tx
      BY <2>1
    <3>2. /\ held[i].rx \in Nat /\ held[i].tx \in Nat /\ packet \in Nat
          /\ held[i].rx <= packet /\ held[i].tx <= packet
      OBVIOUS
    <3> QED
      BY <2>2, <3>1, <3>2
  <2> QED
    BY <2>1, <2>2, <2>3
<1>7. CASE SnifferCallback
  BY <1>7 DEF SnifferCallback
<1> QED
  BY <1>1, <1>2, <1>3, <1>4, <1>5, <1>6, <1>7

(* Numbers in order.                                                       *)
LEMMA Transitive ==
  ASSUME NEW x \in Nat, NEW y \in Nat, NEW z \in Nat, x <= y, y <= z
  PROVE  x <= z
OBVIOUS

(* Label, read, struct and memcpy stay in order, whatever the threads do.  *)
LEMMA OrderedStep == ASSUME TypeOK, Control, Ordered, [Next]_vars PROVE Ordered'
<1> USE Numbers DEF Ordered
<1>1. CASE CheckRunning \/ Receive \/ NoFrame \/ EndOfFile \/ CopyRx \/ CopyTx \/ SnifferCallback
  <2>1. StructsOrdered'
    BY <1>1, OnlyNewer DEF StructsOrdered
  <2>2. LabelsOrdered'
    <3>1. ASSUME NEW i \in DOMAIN slaves
          PROVE  /\ labels[i].rx.lo <= held'[i].rx /\ labels[i].rx.hi <= NewestRx(i)'
                 /\ labels[i].tx.lo <= held'[i].tx /\ labels[i].tx.hi <= NewestTx(i)'
      <4>1. /\ held'[i].rx \in Nat /\ held'[i].tx \in Nat
            /\ held[i].rx <= held'[i].rx /\ held[i].tx <= held'[i].tx
            /\ NewestRx(i) <= NewestRx(i)' /\ NewestRx(i)' \in Nat
            /\ NewestTx(i) <= NewestTx(i)' /\ NewestTx(i)' \in Nat
        BY <1>1, <3>1, OnlyNewer
      <4>2. /\ labels[i].rx.lo <= held[i].rx /\ labels[i].rx.hi <= NewestRx(i)
            /\ labels[i].tx.lo <= held[i].tx /\ labels[i].tx.hi <= NewestTx(i)
        BY <3>1 DEF LabelsOrdered
      <4>3. /\ held[i].rx \in Nat /\ held[i].tx \in Nat
            /\ NewestRx(i) \in Nat /\ NewestTx(i) \in Nat
            /\ labels[i].rx.lo \in Nat /\ labels[i].rx.hi \in Nat
            /\ labels[i].tx.lo \in Nat /\ labels[i].tx.hi \in Nat
        BY <3>1
      <4>4. labels[i].rx.hi <= NewestRx(i)'
        BY <4>1, <4>2, <4>3, Transitive, Zenon
      <4>5. labels[i].tx.hi <= NewestTx(i)'
        BY <4>1, <4>2, <4>3, Transitive, Zenon
      <4>6. labels[i].rx.lo <= held'[i].rx
        BY <4>1, <4>2, <4>3, Transitive, Zenon
      <4>7. labels[i].tx.lo <= held'[i].tx
        BY <4>1, <4>2, <4>3, Transitive, Zenon
      <4> QED
        BY <4>4, <4>5, <4>6, <4>7
    <3>2. slaves' = slaves /\ labels' = labels
      BY <1>1, OnlyNewer DEF guiVars
    <3> QED
      BY <3>1, <3>2 DEF LabelsOrdered
  <2>3. ReadsOrdered'
    <3>1. at \in DOMAIN slaves
      BY DEF TypeOK
    <3>2. UNCHANGED <<gui, at, from, rx_vals, labels>>
      BY <1>1, OnlyNewer DEF guiVars
    <3>3. /\ held[at].rx <= held'[at].rx /\ held'[at].rx \in Nat
          /\ held[at].tx <= held'[at].tx /\ held'[at].tx \in Nat
          /\ NewestRx(at) <= NewestRx(at)' /\ NewestRx(at)' \in Nat
      BY <1>1, <3>1, <3>2, OnlyNewer
    <3>4. /\ held[at].rx \in Nat /\ held[at].tx \in Nat /\ NewestRx(at) \in Nat
          /\ from \in Nat /\ rx_vals.lo \in Nat /\ rx_vals.hi \in Nat
      BY <3>1
    <3>5. ASSUME gui = "rx" PROVE from <= held'[at].rx
      <4>1. from <= held[at].rx
        BY <3>5 DEF ReadsOrdered
      <4> QED
        BY <3>3, <3>4, <4>1, Transitive, Zenon
    <3>6. ASSUME gui = "tx"
          PROVE  /\ from <= held'[at].tx
                 /\ rx_vals.lo <= held'[at].rx /\ rx_vals.hi <= NewestRx(at)'
      <4>1. from <= held[at].tx /\ rx_vals.lo <= held[at].rx /\ rx_vals.hi <= NewestRx(at)
        BY <3>6 DEF ReadsOrdered
      <4>2. rx_vals.hi <= NewestRx(at)'
        BY <3>3, <3>4, <4>1, Transitive, Zenon
      <4>3. rx_vals.lo <= held'[at].rx
        BY <3>3, <3>4, <4>1, Transitive, Zenon
      <4>4. from <= held'[at].tx
        BY <3>3, <3>4, <4>1, Transitive, Zenon
      <4> QED
        BY <4>2, <4>3, <4>4
    <3> QED
      BY <3>2, <3>5, <3>6 DEF ReadsOrdered, Newer, NewestRx
  <2> QED
    BY <2>1, <2>2, <2>3
<1> USE DEF StructsOrdered, LabelsOrdered, ReadsOrdered, NewestRx, NewestTx, Newer,
            sourceVars, threadVars, guiVars
<1>2. CASE TestRunning \/ LockData \/ MasterCallback
  BY <1>2 DEF TestRunning, LockData, MasterCallback
<1>3. CASE Start
  <2>1. thread = "ended"
    BY <1>3 DEF Start, Control
  <2> QED
    BY <1>3, <2>1 DEF Start
<1>4. CASE Stop
  BY <1>4 DEF Stop
<1>5. CASE StopReturns
  BY <1>5 DEF StopReturns
<1>6. CASE TakeEvent
  <2>1. 1 \in DOMAIN slaves
    OBVIOUS
  <2>2. UNCHANGED <<slaves, packet, held, thread, cur, labels>>
    BY <1>6 DEF TakeEvent
  <2>3. gui' = "rx" /\ at' = 1 /\ from' = held[1].rx
    BY <1>6 DEF TakeEvent
  <2> QED
    BY <2>1, <2>2, <2>3
<1>7. CASE ReadRx
  <2>1. at \in DOMAIN slaves /\ gui = "rx"
    BY <1>7 DEF ReadRx, TypeOK
  <2>2. UNCHANGED <<slaves, packet, held, thread, cur, at, labels>>
    BY <1>7 DEF ReadRx
  <2>3. gui' = "tx" /\ from' = held[at].tx /\ rx_vals'.lo = from /\ rx_vals'.hi = NewestRx(at)
    BY <1>7 DEF ReadRx
  <2>4. StructsOrdered' /\ LabelsOrdered'
    BY <2>2
  <2>5. ReadsOrdered'
    <3>1. /\ from <= held[at].rx /\ labels[at].rx.lo <= from
          /\ labels[at].rx.hi <= NewestRx(at) /\ labels[at].tx.lo <= held[at].tx
      BY <2>1
    <3>2. held[at].tx <= held[at].tx /\ NewestRx(at) <= NewestRx(at)
      BY <2>1
    <3>3. NewestRx(at)' = NewestRx(at)
      BY <2>2
    <3> QED
      BY <2>2, <2>3, <3>1, <3>2, <3>3
  <2> QED
    BY <2>4, <2>5
<1>8. CASE ReadTx
  <2>1. at \in DOMAIN slaves /\ gui = "tx"
    BY <1>8 DEF ReadTx, TypeOK
  <2>2. UNCHANGED <<slaves, packet, held, thread, cur>>
    BY <1>8 DEF ReadTx
  <2>3. StructsOrdered'
    BY <2>2
  <2>4. LabelsOrdered'
    <3>1. ASSUME NEW i \in DOMAIN slaves
          PROVE  /\ labels'[i].rx.lo <= held[i].rx /\ labels'[i].rx.hi <= NewestRx(i)
                 /\ labels'[i].tx.lo <= held[i].tx /\ labels'[i].tx.hi <= NewestTx(i)
      <4>1. CASE i = at
        <5>1. /\ labels'[at].rx.lo = rx_vals.lo /\ labels'[at].rx.hi = rx_vals.hi
              /\ labels'[at].tx.lo = from /\ labels'[at].tx.hi = NewestTx(at)
          BY <1>8, ReadTxEffect
        <5>2. NewestTx(at) <= NewestTx(at)
          BY <2>1
        <5> QED
          BY <2>1, <4>1, <5>1, <5>2
      <4>2. CASE i # at
        <5>1. labels'[i] = labels[i]
          BY <1>8, <3>1, <4>2, ReadTxEffect
        <5> QED
          BY <3>1, <5>1
      <4> QED
        BY <4>1, <4>2
    <3> QED
      BY <2>2, <3>1
  <2>5. ReadsOrdered'
    <3>1. CASE gui' = "loop"
      BY <3>1
    <3>2. CASE gui' = "rx" /\ at' = at + 1 /\ at' \in DOMAIN slaves /\ from' = held[at'].rx
      <4>1. labels'[at'] = labels[at']
        BY <1>8, <2>1, <3>2, ReadTxEffect
      <4> QED
        BY <2>2, <3>2, <4>1
    <3> QED
      BY <1>8, <3>1, <3>2, ReadTxEffect
  <2> QED
    BY <2>3, <2>4, <2>5
<1>9. CASE UNCHANGED vars
  BY <1>9 DEF vars
<1> QED
  BY <1>1, <1>2, <1>3, <1>4, <1>5, <1>6, <1>7, <1>8, <1>9
  DEF Next, copyingThread, dataCopyLoop, handleStart, handleDataChanged

(* A sniffer copies a packet to its slaves one after the other.            *)
LEMMA CopiedStep == ASSUME TypeOK, Control, Copied, [Next]_vars PROVE Copied'
<1> USE Numbers DEF sourceVars, threadVars, guiVars, Copied
<1>1. CASE CheckRunning
  BY <1>1 DEF CheckRunning
<1>2. CASE Receive
  <2>1. kind # "ecat" => thread' = "rx" /\ cur' = 1
    BY <1>2 DEF Receive, BeginCopy, Control
  <2> QED
    BY <1>2, <2>1 DEF Receive
<1>3. CASE NoFrame
  BY <1>3 DEF NoFrame
<1>4. CASE EndOfFile
  BY <1>4 DEF EndOfFile
<1>5. CASE CopyRx
  <2>1. ASSUME NEW i \in DOMAIN slaves
        PROVE  held'[i].tx = held[i].tx /\ held'[i].rx = IF i = cur THEN packet ELSE held[i].rx
    BY <1>5, <2>1 DEF CopyRx, TypeOK
  <2> QED
    BY <1>5, <2>1 DEF CopyRx
<1>6. CASE CopyTx
  <2>1. ASSUME NEW i \in DOMAIN slaves
        PROVE  held'[i].rx = held[i].rx /\ held'[i].tx = IF i = cur THEN packet ELSE held[i].tx
    BY <1>6, <2>1 DEF CopyTx, TypeOK
  <2>2. UNCHANGED <<slaves, kind, packet>> /\ thread = "tx"
    BY <1>6 DEF CopyTx
  <2>3. \/ thread' = "rx" /\ cur' = cur + 1
        \/ thread' \notin {"rx", "tx"} /\ cur = Len(slaves)
    <3>1. cur \in 1 .. Len(slaves)
      BY DEF TypeOK
    <3> QED
      BY <1>6, <3>1 DEF CopyTx
  <2>4. ASSUME NEW i \in DOMAIN slaves, kind # "ecat", i < cur \/ i = cur
        PROVE  held'[i].rx = packet /\ held'[i].tx = packet
    BY <2>1, <2>2, <2>4
  <2>5. CASE thread' = "rx" /\ cur' = cur + 1
    <3>1. \A i \in DOMAIN slaves : i < cur' => i < cur \/ i = cur
      BY <2>5
    <3> QED
      BY <2>2, <2>4, <2>5, <3>1
  <2>6. CASE thread' \notin {"rx", "tx"} /\ cur = Len(slaves)
    <3>1. \A i \in DOMAIN slaves : i < cur \/ i = cur
      BY <2>6
    <3> QED
      BY <2>2, <2>4, <2>6, <3>1
  <2> QED
    BY <2>3, <2>5, <2>6
<1>7. CASE SnifferCallback
  BY <1>7 DEF SnifferCallback
<1>8. CASE dataCopyLoop
  BY <1>8 DEF dataCopyLoop, TestRunning, LockData, MasterCallback
<1>9. CASE handleStart
  BY <1>9 DEF handleStart, Start, Stop, StopReturns, Control
<1>10. CASE TakeEvent \/ handleDataChanged
  BY <1>10 DEF TakeEvent, handleDataChanged, ReadRx, ReadTx
<1>11. CASE UNCHANGED vars
  BY <1>11 DEF vars
<1> QED
  BY <1>1, <1>2, <1>3, <1>4, <1>5, <1>6, <1>7, <1>8, <1>9, <1>10, <1>11
  DEF Next, copyingThread

(* The last event of a sniffer finds the last packet in the structs, and   *)
(* nothing copies while it is handled.                                     *)
LEMMA SettlingStep == ASSUME TypeOK, Control, Copied, Settling, [Next]_vars PROVE Settling'
<1> USE Numbers DEF sourceVars, threadVars, guiVars, Settling
<1>1. CASE CheckRunning
  BY <1>1 DEF CheckRunning, Exact
<1>2. CASE Receive
  BY <1>2 DEF Receive, BeginCopy, Control
<1>3. CASE NoFrame
  BY <1>3 DEF NoFrame, BeginCopy, Control, Exact
<1>4. CASE EndOfFile
  BY <1>4 DEF EndOfFile, Exact
<1>5. CASE CopyRx
  BY <1>5 DEF CopyRx
<1>6. CASE CopyTx
  BY <1>6 DEF CopyTx
<1>7. CASE SnifferCallback
  BY <1>7 DEF SnifferCallback
<1>8. CASE dataCopyLoop
  BY <1>8 DEF dataCopyLoop, TestRunning, LockData, MasterCallback, Control
<1>9. CASE Start
  BY <1>9 DEF Start, Control, Exact
<1>10. CASE Stop
  BY <1>10 DEF Stop, Exact
<1>11. CASE StopReturns
  BY <1>11 DEF StopReturns, Exact
<1>12. CASE TakeEvent
  BY <1>12 DEF TakeEvent, Copied
<1>13. CASE ReadRx
  BY <1>13 DEF ReadRx, Copied, Exact, TypeOK, NewestRx
<1>14. CASE ReadTx
  <2> SUFFICES ASSUME kind # "ecat", thread \in {"loop", "recv", "ended"}, queue = 0
               PROVE  /\ \A i \in DOMAIN slaves : gui' = "loop" \/ i < at' =>
                           Exact(labels[i].rx)' /\ Exact(labels[i].tx)'
                      /\ gui' = "rx" => from' = packet
    BY <1>14, ReadTxEffect DEF ReadTx
  <2>1. at \in DOMAIN slaves /\ gui = "tx" /\ packet' = packet
    BY <1>14 DEF ReadTx, TypeOK
  <2>2. rx_vals.lo = packet /\ rx_vals.hi = packet /\ from = packet /\ NewestTx(at) = packet
    BY <2>1 DEF Copied, Exact, NewestTx
  <2>3. ASSUME NEW i \in DOMAIN slaves, i < at \/ i = at
        PROVE  Exact(labels[i].rx)' /\ Exact(labels[i].tx)'
    BY <1>14, <2>1, <2>2, <2>3, ReadTxEffect DEF Exact
  <2>4. CASE gui' = "rx" /\ at' = at + 1 /\ at' \in DOMAIN slaves /\ from' = held[at'].rx
    <3>1. \A i \in DOMAIN slaves : i < at' => i < at \/ i = at
      BY <2>4
    <3>2. from' = packet
      BY <2>4 DEF Copied
    <3> QED
      BY <2>3, <2>4, <3>1, <3>2
  <2>5. CASE gui' = "loop" /\ at = Len(slaves)
    <3>1. \A i \in DOMAIN slaves : i < at \/ i = at
      BY <2>5
    <3> QED
      BY <2>3, <2>5, <3>1
  <2> QED
    BY <1>14, <2>4, <2>5, ReadTxEffect
<1>15. CASE UNCHANGED vars
  BY <1>15 DEF vars, Exact
<1> QED
  BY <1>1, <1>2, <1>3, <1>4, <1>5, <1>6, <1>7, <1>8, <1>9, <1>10, <1>11, <1>12,
     <1>13, <1>14, <1>15
  DEF Next, copyingThread, handleStart, handleDataChanged

(* Every step keeps the invariant.                                         *)
LEMMA NextIInv == ASSUME IInv, [Next]_vars PROVE IInv'
<1>1. TypeOK'
  <2>1. CASE UNCHANGED vars
    BY <2>1 DEF IInv, TypeOK, Dated, vars, sourceVars, threadVars, guiVars
  <2> QED
    BY <2>1, TypeThread, TypeOthers DEF IInv, Next, copyingThread
<1>2. Control'
  BY ControlStep DEF IInv
<1>3. Ordered'
  BY OrderedStep DEF IInv
<1>4. Copied'
  BY CopiedStep DEF IInv
<1>5. Settling'
  BY SettlingStep DEF IInv
<1> QED
  BY <1>1, <1>2, <1>3, <1>4, <1>5 DEF IInv

(* The order of labels, reads, structs and copies is an invariant.         *)
THEOREM Invariant == Spec => []IInv
BY InitIInv, NextIInv, PTL DEF Spec

(* All variables of the composition keep their types; what a label shows   *)
(* was received, and a callback never overruns the bound of the queue.     *)
THEOREM TypeCorrect == Spec => []TypeOK
<1>1. IInv => TypeOK
  BY DEF IInv
<1> QED
  BY <1>1, Invariant, PTL

(* A sniffer that has ended leaves its last packet, untorn, in the labels  *)
(* of every slave: copyData ends before dataCallback posts the event.      *)
THEOREM SnifferSettles == Spec => []SettledIsLastPacket
<1>1. IInv => SettledIsLastPacket
  BY DEF IInv, Settling, SettledIsLastPacket
<1> QED
  BY <1>1, Invariant, PTL

(* handleDataChanged never replaces what a label shows by something older, *)
(* although it reads the structs without a lock while copyData writes them.*)
THEOREM LabelsNeverGoBack == Spec => NeverBackwards
<1>1. ASSUME IInv, Next
      PROVE  Forward
  <2>1. TypeOK /\ Ordered
    BY <1>1 DEF IInv
  <2>2. ASSUME NEW i \in DOMAIN slaves
        PROVE  Newer(labels[i].rx, labels[i].rx) /\ Newer(labels[i].tx, labels[i].tx)
    <3>1. /\ labels[i].rx.lo \in Nat /\ labels[i].rx.hi \in Nat
          /\ labels[i].tx.lo \in Nat /\ labels[i].tx.hi \in Nat
      BY <2>1, <2>2, Numbers
    <3> QED
      BY <3>1 DEF Newer
  <2>3. CASE ReadTx
    <3>1. ASSUME NEW i \in DOMAIN slaves
          PROVE  Newer(labels'[i].rx, labels[i].rx) /\ Newer(labels'[i].tx, labels[i].tx)
      <4>1. CASE i = at
        BY <2>1, <2>3, <4>1, ReadTxEffect
        DEF Ordered, ReadsOrdered, LabelsOrdered, ReadTx, Newer, TypeOK
      <4>2. CASE i # at
        <5>1. labels'[i] = labels[i]
          BY <2>1, <2>3, <3>1, <4>2, ReadTxEffect
        <5> QED
          BY <2>2, <3>1, <5>1
      <4> QED
        BY <4>1, <4>2
    <3> QED
      BY <3>1 DEF Forward
  <2>4. CASE ~ReadTx
    <3>1. labels' = labels
      BY <1>1, <2>4
      DEF Next, copyingThread, dataCopyLoop, handleStart, handleDataChanged, guiVars, CheckRunning,
          Receive, NoFrame, EndOfFile, CopyRx, CopyTx, SnifferCallback, TestRunning, LockData,
          MasterCallback, Start, Stop, StopReturns, TakeEvent, ReadRx
    <3> QED
      BY <2>2, <3>1 DEF Forward
  <2> QED
    BY <2>3, <2>4
<1>2. IInv /\ [Next]_vars => [Forward]_vars
  BY <1>1
<1> QED
  BY <1>2, Invariant, PTL DEF Spec, NeverBackwards

(***************************************************************************)
(* Tooltips.                                                               *)
(***************************************************************************)

(* However torn, a read gets words of 16 bits, for the variables that have *)
(* flags.                                                                  *)
LEMMA ReadsAreWords ==
  ASSUME TypeOK, NEW variables, NEW lo \in Packets, NEW hi \in Packets,
         NEW words \in Reads(Parsable(at, variables), lo, hi)
  PROVE  Readable(slaves[at], words)
<1>1. ASSUME NEW high \in lo .. hi, NEW low \in lo .. hi
      PROVE  \E h, l \in Byte : Torn(high, low) = 256 * h + l
  <2>1. high \in 0 .. MaxPackets /\ low \in 0 .. MaxPackets
    BY Numbers DEF Packets
  <2>2. Word[high] \in Byte \X Byte /\ Word[low] \in Byte \X Byte
    BY <2>1, WordAssumption
  <2>3. Word[high][1] \in Byte /\ Word[low][2] \in Byte
    BY <2>2
  <2> QED
    BY <2>3, Zenon DEF Torn
<1>2. words \in [Parsable(at, variables) ->
                   {Torn(high, low) : high \in lo .. hi, low \in lo .. hi}]
  BY DEF Reads
<1>3. ASSUME NEW n \in DOMAIN words
      PROVE  /\ n \in areBitsParsable[slaves[at]]
             /\ \E h, l \in Byte : words[n] = 256 * h + l
  <2>1. n \in Parsable(at, variables)
    BY <1>2
  <2>2. PICK high \in lo .. hi, low \in lo .. hi : words[n] = Torn(high, low)
    BY <1>2, <2>1
  <2>3. n \in areBitsParsable[slaves[at]]
    BY <2>1 DEF Parsable
  <2>4. \E h, l \in Byte : Torn(high, low) = 256 * h + l
    BY <1>1
  <2> QED
    BY <2>2, <2>3, <2>4, Zenon
<1> QED
  BY <1>3, Zenon DEF Readable

(* The label of a snapshot has the tooltips of its words.                  *)
LEMMA LabelIsParsed ==
  ASSUME NEW vals, Readable(slaves[at], vals.words)
  PROVE  Parsed(slaves[at], Label(vals))
<1> DEFINE tips == [n \in DOMAIN vals.words |-> parseBits(slaves[at], vals.words[n], n)]
<1>1. Label(vals) = [lo |-> vals.lo, hi |-> vals.hi, words |-> vals.words, tips |-> tips]
  BY DEF Label, TipWord
<1>2. Label(vals).words = vals.words /\ Label(vals).tips = tips
  BY <1>1
<1> QED
  BY <1>2, Zenon DEF Parsed

(* What a read that ends now can have met was received.                    *)
LEMMA NewestReceived ==
  ASSUME TypeOK
  PROVE  NewestRx(at) \in Packets /\ NewestTx(at) \in Packets
  BY DEF TypeOK, NewestRx, NewestTx

LEMMA TipsStep == ASSUME TypeOK, TipsParsed, [Next]_vars PROVE TipsParsed'
<1> USE DEF sourceVars, threadVars, guiVars
<1>1. CASE ReadRx
  <2>1. /\ UNCHANGED <<slaves, at, labels>> /\ gui' = "tx"
        /\ from \in Packets /\ NewestRx(at) \in Packets
    BY <1>1, NewestReceived DEF ReadRx, TypeOK
  <2>2. PICK words \in Reads(Parsable(at, getRxVariables[slaves[at]]), from, NewestRx(at)) :
          rx_vals' = [lo |-> from, hi |-> NewestRx(at), words |-> words, tips |-> << >>]
    BY <1>1 DEF ReadRx
  <2>3. Readable(slaves[at], words)
    BY <2>1, ReadsAreWords
  <2>4. rx_vals'.words = words
    BY <2>2
  <2> QED
    BY <2>1, <2>3, <2>4 DEF TipsParsed
<1>2. CASE ReadTx
  <2>1. /\ UNCHANGED slaves /\ gui' # "tx" /\ at \in DOMAIN slaves
        /\ from \in Packets /\ NewestTx(at) \in Packets /\ DOMAIN labels = DOMAIN slaves
    BY <1>2, NewestReceived DEF ReadTx, TypeOK
  <2>2. PICK words \in Reads(Parsable(at, getTxVariables[slaves[at]]), from, NewestTx(at)) :
          labels' = [labels EXCEPT ![at] =
                       [rx |-> Label(rx_vals),
                        tx |-> Label([lo |-> from, hi |-> NewestTx(at), words |-> words,
                                      tips |-> << >>])]]
    BY <1>2 DEF ReadTx
  <2> DEFINE tx_vals == [lo |-> from, hi |-> NewestTx(at), words |-> words, tips |-> << >>]
  <2>3. Readable(slaves[at], tx_vals.words)
    BY <2>1, ReadsAreWords
  <2>4. Readable(slaves[at], rx_vals.words)
    BY <1>2 DEF ReadTx, TipsParsed
  <2> HIDE DEF tx_vals
  <2>5. Parsed(slaves[at], Label(rx_vals)) /\ Parsed(slaves[at], Label(tx_vals))
    BY <2>3, <2>4, LabelIsParsed
  <2>6. labels' = [labels EXCEPT ![at] = [rx |-> Label(rx_vals), tx |-> Label(tx_vals)]]
    BY <2>2 DEF tx_vals
  <2>7. ASSUME NEW i \in DOMAIN slaves
        PROVE  Parsed(slaves[i], labels'[i].rx) /\ Parsed(slaves[i], labels'[i].tx)
    <3>1. CASE i = at
      <4>1. labels'[i].rx = Label(rx_vals) /\ labels'[i].tx = Label(tx_vals)
        BY <2>1, <2>6, <3>1
      <4> QED
        BY <2>5, <3>1, <4>1
    <3>2. CASE i # at
      <4>1. labels'[i] = labels[i]
        BY <2>1, <2>6, <2>7, <3>2
      <4> QED
        BY <2>7, <4>1 DEF TipsParsed
    <3> QED
      BY <3>1, <3>2
  <2> QED
    BY <2>1, <2>7 DEF TipsParsed
<1>3. CASE ~ReadRx /\ ~ReadTx
  <2>1. UNCHANGED <<slaves, labels, rx_vals>> /\ (gui' = "tx" => gui = "tx" /\ at' = at)
    BY <1>3
    DEF Next, copyingThread, dataCopyLoop, handleStart, handleDataChanged, CheckRunning,
        Receive, NoFrame, EndOfFile, CopyRx, CopyTx, SnifferCallback, TestRunning, LockData,
        MasterCallback, Start, Stop, StopReturns, TakeEvent, vars
  <2> QED
    BY <2>1 DEF TipsParsed
<1> QED
  BY <1>1, <1>2, <1>3

(* A tooltip belongs to the number in its label, in every list of slaves,  *)
(* for every content of the packets and every way in which copyData and    *)
(* handleDataChanged meet. What parseBits makes of each word of 16 bits is *)
(* the hypothesis, which the model checker has evaluated for all of them.  *)
THEOREM TooltipsTell ==
  ASSUME EveryWordTold
  PROVE  Spec => []TooltipTellsValue
<1>1. Init => TipsParsed
  <2> SUFFICES ASSUME Init PROVE TipsParsed
    OBVIOUS
  <2>1. \A t : Parsed(t, Blank)
    BY DEF Parsed, Readable, Blank
  <2> QED
    BY <2>1 DEF Init, TipsParsed
<1>2. TypeOK /\ TipsParsed /\ [Next]_vars => TipsParsed'
  BY TipsStep
<1>3. TypeOK /\ TipsParsed => TooltipTellsValue
  <2> SUFFICES ASSUME TypeOK, TipsParsed,
                      NEW i \in DOMAIN labels, NEW v \in {labels[i].rx, labels[i].tx},
                      NEW n \in DOMAIN v.words
               PROVE  Tells(v.tips[n], n, v.words[n])
    BY DEF TooltipTellsValue
  <2>1. i \in DOMAIN slaves /\ slaves \in Seq(Types)
    BY ListsAssumption DEF TypeOK
  <2>2. slaves[i] \in Types
    BY <2>1
  <2>3. Parsed(slaves[i], v)
    BY <2>1 DEF TipsParsed
  <2>4. n \in areBitsParsable[slaves[i]]
    BY <2>3, Zenon DEF Parsed, Readable
  <2>5. PICK high \in Byte, low \in Byte : v.words[n] = 256 * high + low
    BY <2>3, Zenon DEF Parsed, Readable
  <2>6. v.tips[n] = parseBits(slaves[i], v.words[n], n)
    BY <2>3, Zenon DEF Parsed
  <2>7. \A m \in areBitsParsable[slaves[i]] : \A h, l \in Byte :
          Tells(parseBits(slaves[i], 256 * h + l, m), m, 256 * h + l)
    BY <2>2, Zenon DEF EveryWordTold
  <2>8. Tells(parseBits(slaves[i], 256 * high + low, n), n, 256 * high + low)
    BY <2>4, <2>7, Zenon
  <2> QED
    BY <2>5, <2>6, <2>8, Zenon
<1> QED
  BY <1>1, <1>2, <1>3, TypeCorrect, PTL DEF Spec

(***************************************************************************)
(* The labels and the members.                                             *)
(***************************************************************************)

(* The variables and values of a box, the keys of JSON and the members of  *)
(* the struct agree at each of n places.                                   *)
Agree(n, variables, values, json, struct) ==
  /\ n \in Nat
  /\ DOMAIN variables = 1 .. n /\ DOMAIN json = 1 .. n
  /\ DOMAIN struct = 1 .. n /\ Len(struct) = n
  /\ \A k \in 1 .. n : struct[k].name = values[k]
  /\ \A k \in 1 .. n : json[k] = <<variables[k], values[k]>>

(* The lists of the decoders and the structs of the headers, place by      *)
(* place.                                                                  *)
LEMMA DriveAgrees ==
  /\ Agree(9, DriveRxVariables, DriveRxValues, DriveCommands, rxpdo1_t)
  /\ Agree(41, DriveTxVariables, DriveTxValues, DriveSensors, txpdo1_t)
<1>1. /\ DOMAIN DriveRxVariables = 1 .. 9 /\ DOMAIN DriveRxValues = 1 .. 9
      /\ DOMAIN DriveTxVariables = 1 .. 41 /\ DOMAIN DriveTxValues = 1 .. 41
  BY DEF DriveRxVariables, DriveRxValues, DriveTxVariables, DriveTxValues
<1>2. DOMAIN rxpdo1_t = 1 .. 9 /\ Len(rxpdo1_t) = 9
  BY DEF rxpdo1_t, Members
<1>3. DOMAIN txpdo1_t = 1 .. 41 /\ Len(txpdo1_t) = 41
  BY DEF txpdo1_t, Members
<1>4. \A k \in 1 .. 9 : rxpdo1_t[k].name = DriveRxValues[k]
  BY DEF rxpdo1_t, DriveRxValues, Members
<1>5. \A k \in 1 .. 41 : txpdo1_t[k].name = DriveTxValues[k]
  BY DEF txpdo1_t, DriveTxValues, Members
<1>6. /\ DriveCommands = Same(DriveRxVariables) /\ DriveRxValues = DriveRxVariables
      /\ DriveSensors = Same(DriveTxVariables) /\ DriveTxValues = DriveTxVariables
  BY DEF DriveCommands, DriveRxVariables, DriveRxValues, DriveSensors, DriveTxVariables,
     DriveTxValues
<1> QED
  BY <1>1, <1>2, <1>3, <1>4, <1>5, <1>6 DEF Agree, Same

LEMMA BatteryAgrees ==
  /\ Agree(4, BatteryRxVariables, BatteryRxValues, BatteryCommands,
           RobileMasterBatteryProcessDataOutput)
  /\ Agree(19, BatteryTxVariables, BatteryTxValues, BatterySensors,
           RobileMasterBatteryProcessDataInput)
<1>1. /\ DOMAIN BatteryRxVariables = 1 .. 4 /\ DOMAIN BatteryCommands = 1 .. 4
      /\ DOMAIN BatteryTxVariables = 1 .. 19 /\ DOMAIN BatterySensors = 1 .. 19
  BY DEF BatteryRxVariables, BatteryCommands, BatteryTxVariables, BatterySensors
<1>2. /\ DOMAIN RobileMasterBatteryProcessDataOutput = 1 .. 4
      /\ Len(RobileMasterBatteryProcessDataOutput) = 4
  BY DEF RobileMasterBatteryProcessDataOutput, Members
<1>3. /\ DOMAIN RobileMasterBatteryProcessDataInput = 1 .. 19
      /\ Len(RobileMasterBatteryProcessDataInput) = 19
  BY DEF RobileMasterBatteryProcessDataInput, Members
<1>4. \A k \in 1 .. 4 : RobileMasterBatteryProcessDataOutput[k].name = BatteryRxValues[k]
  BY DEF RobileMasterBatteryProcessDataOutput, BatteryRxValues, Members
<1>5. \A k \in 1 .. 19 : RobileMasterBatteryProcessDataInput[k].name = BatteryTxValues[k]
  BY DEF RobileMasterBatteryProcessDataInput, BatteryTxValues, Members
<1>6. \A k \in 1 .. 4 : BatteryCommands[k] = <<BatteryRxVariables[k], BatteryRxValues[k]>>
  BY DEF BatteryCommands, BatteryRxVariables, BatteryRxValues
<1>7. \A k \in 1 .. 19 : BatterySensors[k] = <<BatteryTxVariables[k], BatteryTxValues[k]>>
  BY DEF BatterySensors, BatteryTxVariables, BatteryTxValues
<1> QED
  BY <1>1, <1>2, <1>3, <1>4, <1>5, <1>6, <1>7 DEF Agree

LEMMA BmsAgrees ==
  /\ Agree(7, BmsRxVariables, BmsRxValues, BmsCommands, EcPd_rx)
  /\ Agree(28, BmsTxVariables, BmsTxValues, BmsSensors, EcPd_tx)
<1>1. /\ DOMAIN BmsRxVariables = 1 .. 7 /\ DOMAIN BmsRxValues = 1 .. 7
      /\ DOMAIN BmsTxVariables = 1 .. 28 /\ DOMAIN BmsTxValues = 1 .. 28
  BY DEF BmsRxVariables, BmsRxValues, BmsTxVariables, BmsTxValues
<1>2. DOMAIN EcPd_rx = 1 .. 7 /\ Len(EcPd_rx) = 7
  BY DEF EcPd_rx, Members
<1>3. DOMAIN EcPd_tx = 1 .. 28 /\ Len(EcPd_tx) = 28
  BY DEF EcPd_tx, Members
<1>4. \A k \in 1 .. 7 : EcPd_rx[k].name = BmsRxValues[k]
  BY DEF EcPd_rx, BmsRxValues, Members
<1>5. \A k \in 1 .. 28 : EcPd_tx[k].name = BmsTxValues[k]
  BY DEF EcPd_tx, BmsTxValues, Members
<1>6. /\ BmsCommands = Same(BmsRxVariables) /\ BmsRxValues = BmsRxVariables
      /\ BmsSensors = Same(BmsTxVariables) /\ BmsTxValues = BmsTxVariables
  BY DEF BmsCommands, BmsRxVariables, BmsRxValues, BmsSensors, BmsTxVariables, BmsTxValues
<1> QED
  BY <1>1, <1>2, <1>3, <1>4, <1>5, <1>6 DEF Agree, Same

(* A unit that the header states is the one that is shown.                 *)
RightUnit(value, unit) == value \in DOMAIN DriveUnit => unit = DriveUnit[value]

(* The units of the drive, one place after the other.                      *)
LEMMA RxUnitsRight == \A k \in 1 .. 9 : RightUnit(DriveRxValues[k], DriveRxUnits[k])
<1> DEFINE R(k) == RightUnit(DriveRxValues[k], DriveRxUnits[k])
<1>1. R(1) /\ R(2) /\ R(3) /\ R(4) /\ R(5) /\ R(6) /\ R(7) /\ R(8) /\ R(9)
  BY DEF RightUnit, DriveRxValues, DriveRxUnits, DriveUnit
<1> HIDE DEF R
<1>2. \A k \in 1 .. 9 : R(k)
  BY <1>1
<1> QED
  BY <1>2 DEF R

LEMMA TxUnitsRight == \A k \in 1 .. 41 : RightUnit(DriveTxValues[k], DriveTxUnits[k])
<1> DEFINE R(k) == RightUnit(DriveTxValues[k], DriveTxUnits[k])
<1>1. R(1) /\ R(2) /\ R(3) /\ R(4) /\ R(5) /\ R(6) /\ R(7) /\ R(8) /\ R(9) /\ R(10)
  BY DEF RightUnit, DriveTxValues, DriveTxUnits, DriveUnit
<1>2. R(11) /\ R(12) /\ R(13) /\ R(14) /\ R(15) /\ R(16) /\ R(17) /\ R(18) /\ R(19) /\ R(20)
  BY DEF RightUnit, DriveTxValues, DriveTxUnits, DriveUnit
<1>3. R(21) /\ R(22) /\ R(23) /\ R(24) /\ R(25) /\ R(26) /\ R(27) /\ R(28) /\ R(29) /\ R(30)
  BY DEF RightUnit, DriveTxValues, DriveTxUnits, DriveUnit
<1>4. /\ R(31) /\ R(32) /\ R(33) /\ R(34) /\ R(35) /\ R(36) /\ R(37) /\ R(38) /\ R(39)
      /\ R(40) /\ R(41)
  BY DEF RightUnit, DriveTxValues, DriveTxUnits, DriveUnit
<1> HIDE DEF R
<1>5. \A k \in 1 .. 41 : R(k)
  BY <1>1, <1>2, <1>3, <1>4
<1> QED
  BY <1>5 DEF R

(* Lists that agree place by place give each member one label, whatever    *)
(* the lists are.                                                          *)
LEMMA OneEach ==
  ASSUME NEW n, NEW variables, NEW values, NEW units, NEW json, NEW struct,
         Agree(n, variables, values, json, struct),
         struct \in {rxpdo1_t, txpdo1_t} => \A k \in 1 .. n : RightUnit(values[k], units[k])
  PROVE  OneMemberEach(Labels(variables, values, units), json, struct)
<1> DEFINE list == Labels(variables, values, units)
<1>1. n \in Nat /\ DOMAIN list = 1 .. n /\ DOMAIN struct = 1 .. n /\ DOMAIN json = 1 .. n
  BY DEF Agree, Labels
<1>2. \A k \in 1 .. n : /\ list[k].name = variables[k] /\ list[k].member = values[k]
                        /\ list[k].unit = units[k]
  BY <1>1 DEF Labels
<1>3. list \in Seq({list[k] : k \in 1 .. n}) /\ Len(list) = n
  <2>1. list \in [1 .. n -> {list[k] : k \in 1 .. n}]
    BY <1>1 DEF Labels
  <2> QED
    BY <1>1, <2>1, SeqDef, LenProperties
<1> HIDE DEF list
<1>4. Len(list) = Len(struct)
  BY <1>3 DEF Agree
<1>5. {list[k].member : k \in DOMAIN list} = {struct[k].name : k \in DOMAIN struct}
  BY <1>1, <1>2 DEF Agree
<1>6. {<<list[k].name, list[k].member>> : k \in DOMAIN list} = {json[k] : k \in DOMAIN json}
  <2>1. \A k \in 1 .. n : <<list[k].name, list[k].member>> = json[k]
    BY <1>2, Zenon DEF Agree
  <2> QED
    BY <1>1, <2>1, Zenon
<1>7. ASSUME NEW k \in DOMAIN list, list[k].member \in DOMAIN DriveUnit,
             struct \in {rxpdo1_t, txpdo1_t}
      PROVE  list[k].unit = DriveUnit[list[k].member]
  BY <1>1, <1>2, <1>7 DEF RightUnit
<1> QED
  BY <1>4, <1>5, <1>6, <1>7 DEF OneMemberEach, list

(* Only the structs of the drive have units in the header; the others are  *)
(* told apart by their first member.                                       *)
LEMMA FirstNames ==
  /\ RobileMasterBatteryProcessDataOutput \notin {rxpdo1_t, txpdo1_t}
  /\ RobileMasterBatteryProcessDataInput \notin {rxpdo1_t, txpdo1_t}
  /\ EcPd_rx \notin {rxpdo1_t, txpdo1_t}
  /\ EcPd_tx \notin {rxpdo1_t, txpdo1_t}
<1>1. /\ rxpdo1_t[1].name = DriveRxValues[1] /\ txpdo1_t[1].name = DriveTxValues[1]
      /\ RobileMasterBatteryProcessDataOutput[1].name = BatteryRxValues[1]
      /\ RobileMasterBatteryProcessDataInput[1].name = BatteryTxValues[1]
      /\ EcPd_rx[1].name = BmsRxValues[1] /\ EcPd_tx[1].name = BmsTxValues[1]
  BY DriveAgrees, BatteryAgrees, BmsAgrees DEF Agree
<1>2. /\ DriveRxValues[1] = "command1" /\ DriveTxValues[1] = "status1"
      /\ BatteryRxValues[1] = "Command1" /\ BatteryTxValues[1] = "TimeStamp"
      /\ BmsRxValues[1] = "command" /\ BmsTxValues[1] = "status"
  BY DEF DriveRxValues, DriveTxValues, BatteryRxValues, BatteryTxValues, BmsRxValues,
     BmsTxValues
<1> QED
  BY <1>1, <1>2

(* Both boxes of each type of slave.                                       *)
LEMMA LabelsOfType ==
  \A t \in Types : /\ OneMemberEach(RxLabels[t], commands[t], rx_struct[t])
                   /\ OneMemberEach(TxLabels[t], sensors[t], tx_struct[t])
<1> DEFINE Both(t) == /\ OneMemberEach(RxLabels[t], commands[t], rx_struct[t])
                      /\ OneMemberEach(TxLabels[t], sensors[t], tx_struct[t])
<1>1. KELO_DRIVE_SLAVE = 1 /\ ROBILE_BATTERY_SLAVE = 2 /\ KELO_BMS_SLAVE = 3
  BY DEF KELO_DRIVE_SLAVE, ROBILE_BATTERY_SLAVE, KELO_BMS_SLAVE
<1>2. Both(KELO_DRIVE_SLAVE)
  <2>1. OneMemberEach(Labels(DriveRxVariables, DriveRxValues, DriveRxUnits), DriveCommands, rxpdo1_t)
    BY DriveAgrees, RxUnitsRight, OneEach
  <2>2. OneMemberEach(Labels(DriveTxVariables, DriveTxValues, DriveTxUnits), DriveSensors, txpdo1_t)
    BY DriveAgrees, TxUnitsRight, OneEach
  <2> QED
    BY <1>1, <2>1, <2>2 DEF RxLabels, TxLabels, commands, sensors, rx_struct, tx_struct, ByType,
       Types, getRxVariables, getRxValues, getRxUnits, getTxVariables, getTxValues, getTxUnits
<1>3. Both(ROBILE_BATTERY_SLAVE)
  <2>1. OneMemberEach(Labels(BatteryRxVariables, BatteryRxValues, BatteryRxUnits),
                      BatteryCommands, RobileMasterBatteryProcessDataOutput)
    BY BatteryAgrees, FirstNames, OneEach
  <2>2. OneMemberEach(Labels(BatteryTxVariables, BatteryTxValues, BatteryTxUnits),
                      BatterySensors, RobileMasterBatteryProcessDataInput)
    BY BatteryAgrees, FirstNames, OneEach
  <2> QED
    BY <1>1, <2>1, <2>2 DEF RxLabels, TxLabels, commands, sensors, rx_struct, tx_struct, ByType,
       Types, getRxVariables, getRxValues, getRxUnits, getTxVariables, getTxValues, getTxUnits
<1>4. Both(KELO_BMS_SLAVE)
  <2>1. OneMemberEach(Labels(BmsRxVariables, BmsRxValues, BmsRxUnits), BmsCommands, EcPd_rx)
    BY BmsAgrees, FirstNames, OneEach
  <2>2. OneMemberEach(Labels(BmsTxVariables, BmsTxValues, BmsTxUnits), BmsSensors, EcPd_tx)
    BY BmsAgrees, FirstNames, OneEach
  <2> QED
    BY <1>1, <2>1, <2>2 DEF RxLabels, TxLabels, commands, sensors, rx_struct, tx_struct, ByType,
       Types, getRxVariables, getRxValues, getRxUnits, getTxVariables, getTxValues, getTxUnits
<1> HIDE DEF Both
<1>5. \A t \in Types : Both(t)
  BY <1>2, <1>3, <1>4 DEF Types
<1> QED
  BY <1>5 DEF Both

(* In every box of every list of slaves each member has one label, beside  *)
(* the value that JSON publishes under that name and its unit.             *)
THEOREM LabelsShowMembers == Spec => []OneNameOneMember
<1>1. TypeOK => OneNameOneMember
  <2> SUFFICES ASSUME TypeOK, NEW i \in DOMAIN slaves
               PROVE  /\ OneMemberEach(RxLabels[slaves[i]], commands[slaves[i]], rx_struct[slaves[i]])
                      /\ OneMemberEach(TxLabels[slaves[i]], sensors[slaves[i]], tx_struct[slaves[i]])
    BY DEF OneNameOneMember
  <2>1. slaves \in Seq(Types)
    BY ListsAssumption DEF TypeOK
  <2>2. slaves[i] \in Types
    BY <2>1
  <2> QED
    BY <2>2, LabelsOfType
<1> QED
  BY <1>1, TypeCorrect, PTL
=============================================================================
