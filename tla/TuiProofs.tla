----------------------------- MODULE TuiProofs ------------------------------
(***************************************************************************)
(* Proofs about Tui, for every number of slaves and of keys.               *)
(***************************************************************************)
EXTENDS Tui, TLAPS

(* The initial state is well typed and satisfies the invariant.            *)
LEMMA InvInit == Init => IInv
<1>. SUFFICES ASSUME Init PROVE IInv
  OBVIOUS
<1>1. Blank \in FrameType
  BY DEF Blank, FrameType
<1>2. NoScreen \in [parts : FrameType, highlighted : SUBSET Slaves, disturbed : BOOLEAN]
  BY <1>1 DEF NoScreen
<1>3. TypeOK
  <2>1. 0 \in 0 .. MaxKeys /\ 0 \in 0 .. NumSlaves /\ {} \in SUBSET Slaves
    BY SlavesAssumption, KeysAssumption
  <2>2. /\ screen \in [parts : FrameType, highlighted : SUBSET Slaves, disturbed : BOOLEAN]
        /\ frame \in FrameType
    BY <1>1, <1>2 DEF Init
  <2>3. 0 \in Int /\ "none" \in Parts \cup {"none"}
    OBVIOUS
  <2>. QED
    BY <2>1, <2>2, <2>3 DEF Init, TypeOK
<1>. QED
  BY <1>3 DEF Init, IInv, FeederMatchesMain, WindowsMatchMain, SelectionInRange,
     LoopInRange, NameHighlighted, ReadFromSelected, UndisturbedFrame, Drawing, Parts

(* The main thread keeps the invariant: a store marks the callback as      *)
(* disturbed, and the windows go only after stop has returned.             *)
LEMMA InvMain == ASSUME IInv, mainThread PROVE IInv'
<1>. USE DEF drawVars, IInv, FeederMatchesMain, WindowsMatchMain, SelectionInRange,
             LoopInRange, NameHighlighted, ReadFromSelected, UndisturbedFrame,
             Drawing, Parts
<1>1. CASE StartError
  BY <1>1 DEF StartError, TypeOK
<1>2. CASE StartSource
  BY <1>2 DEF StartSource, TypeOK
<1>3. CASE LoadKey("left") \/ LoadKey("right")
  <2>1. keys' \in 0 .. MaxKeys
    BY <1>3, KeysAssumption DEF LoadKey, TypeOK
  <2>. QED
    BY <1>3, <2>1 DEF LoadKey, TypeOK
<1>4. CASE StoreKey("left", -1) \/ StoreKey("right", 1)
  <2>1. selected_slave' \in Int
    BY <1>4 DEF StoreKey, TypeOK
  <2>. QED
    BY <1>4, <2>1 DEF StoreKey, TypeOK
<1>5. CASE Quit
  BY <1>5 DEF Quit, TypeOK
<1>6. CASE StopReturns
  BY <1>6 DEF StopReturns, TypeOK
<1>7. CASE Destroy
  BY <1>7 DEF Destroy, TypeOK
<1>. QED
  BY <1>1, <1>2, <1>3, <1>4, <1>5, <1>6, <1>7 DEF mainThread, KeyLeft, KeyRight

(* The tests at the start of a callback bring selected_slave into range.   *)
LEMMA InvClamp ==
  ASSUME IInv, NumSlaves # 0, FeederLoop \/ TestLow \/ SetLow \/ TestHigh \/ SetHigh
  PROVE  IInv'
<1>. USE DEF mainVars, drawVars, FeederGoto, IInv, FeederMatchesMain, WindowsMatchMain,
             SelectionInRange, LoopInRange, NameHighlighted, ReadFromSelected,
             UndisturbedFrame, Drawing, Parts
<1>1. CASE FeederLoop
  BY <1>1 DEF FeederLoop, TypeOK
<1>2. CASE TestLow
  <2>1. TypeOK'
    BY <1>2 DEF TestLow, TypeOK
  <2>2. feeder' = "test_high" => selected_slave >= 0
    BY <1>2 DEF TestLow, TypeOK
  <2>3. main # "crashed"
    BY <1>2 DEF TestLow, Alive
  <2>. QED
    BY <1>2, <2>1, <2>2, <2>3 DEF TestLow
<1>3. CASE SetLow
  BY <1>3 DEF SetLow, TypeOK
<1>4. CASE TestHigh
  <2>1. Blank \in FrameType
    BY DEF Blank, FrameType
  <2>2. TypeOK'
    BY <1>4, <2>1, SlavesAssumption DEF TestHigh, TypeOK
  <2>3. feeder' = "names" => selected_slave \in Slaves
    BY <1>4, SlavesAssumption DEF TestHigh, TypeOK, Slaves
  <2>4. feeder' = "names" => ~(i' > selected_slave)
    BY <1>4, <2>3, SlavesAssumption DEF TestHigh, Slaves
  <2>. QED
    BY <1>4, <2>2, <2>3, <2>4 DEF TestHigh
<1>5. CASE SetHigh
  <2>1. selected_slave' \in Slaves /\ selected_slave' \in Int
    BY <1>5, SlavesAssumption DEF SetHigh, Slaves
  <2>2. ~(i > selected_slave')
    BY <1>5, <2>1, SlavesAssumption DEF SetHigh, Slaves
  <2>3. TypeOK'
    BY <1>5, <2>1 DEF SetHigh, TypeOK
  <2>. QED
    BY <1>5, <2>1, <2>2, <2>3 DEF SetHigh
<1>. QED
  BY <1>1, <1>2, <1>3, <1>4, <1>5

(* The loop over the names highlights the selected slave.                  *)
LEMMA InvNames ==
  ASSUME IInv, NumSlaves # 0, DrawName \/ NameDrawn \/ NamesEnd
  PROVE  IInv'
<1>. USE DEF mainVars, drawVars, FeederGoto, IInv, FeederMatchesMain, WindowsMatchMain,
             SelectionInRange, LoopInRange, NameHighlighted, ReadFromSelected,
             UndisturbedFrame, Drawing, Parts
<1>1. CASE DrawName
  <2>1. i \in Slaves /\ i \in Int
    BY <1>1, SlavesAssumption DEF DrawName, TypeOK, Slaves
  <2>2. standout' \in BOOLEAN
    BY <1>1 DEF DrawName
  <2>3. highlighted' \in SUBSET Slaves /\ highlighted \subseteq highlighted'
    BY <1>1, <2>1 DEF DrawName, TypeOK
  <2>4. TypeOK'
    BY <1>1, <2>2, <2>3 DEF DrawName, TypeOK
  <2>5. i = selected_slave => selected_slave \in highlighted'
    BY <1>1 DEF DrawName
  <2>. QED
    BY <1>1, <2>3, <2>4, <2>5 DEF DrawName
<1>2. CASE NameDrawn
  <2>1. i' \in 0 .. NumSlaves /\ standout' \in BOOLEAN
    BY <1>2, SlavesAssumption DEF NameDrawn, TypeOK
  <2>2. TypeOK'
    BY <1>2, <2>1 DEF NameDrawn, TypeOK
  <2>3. selected_slave \in Int /\ i \in Int /\ i' = i + 1
    BY <1>2, SlavesAssumption DEF NameDrawn, TypeOK
  <2>4. i' > selected_slave => i > selected_slave \/ i = selected_slave
    BY <2>3
  <2>. QED
    BY <1>2, <2>2, <2>4 DEF NameDrawn
<1>3. CASE NamesEnd
  <2>1. TypeOK'
    BY <1>3 DEF NamesEnd, TypeOK
  <2>2. selected_slave \in Slaves => i > selected_slave
    BY <1>3, SlavesAssumption DEF NamesEnd, Slaves
  <2>. QED
    BY <1>3, <2>1, <2>2 DEF NamesEnd
<1>. QED
  BY <1>1, <1>2, <1>3

(* The four accesses read one slave, unless a key comes in between.        *)
LEMMA InvRead ==
  ASSUME IInv, ReadSlave
  PROVE  IInv'
<1>. USE DEF mainVars, drawVars, FeederGoto, IInv, FeederMatchesMain, WindowsMatchMain,
             SelectionInRange, LoopInRange, NameHighlighted, ReadFromSelected,
             UndisturbedFrame, Drawing, Parts
<1>1. ASSUME NEW part \in Parts, NEW next \in Parts \cup {"draw"}, Read(part, next)
      PROVE  /\ TypeOK'
             /\ selected_slave \in Slaves =>
                  /\ feeder' = next /\ UNCHANGED mainVars
                  /\ frame'[part] = selected_slave
                  /\ \A p \in Parts \ {part} : frame'[p] = frame[p]
             /\ selected_slave \notin Slaves =>
                  main' = "crashed" /\ UNCHANGED <<source, windows, feeder, frame>>
             /\ UNCHANGED <<i, highlighted, screen, selected_slave, disturbed>>
             /\ feeder = part
  <2>1. CASE selected_slave \in Slaves
    <3>1. frame' = [frame EXCEPT ![part] = selected_slave] /\ feeder' = next
      BY <1>1, <2>1 DEF Read
    <3>2. /\ frame' \in FrameType
          /\ frame'[part] = selected_slave
          /\ \A p \in Parts \ {part} : frame'[p] = frame[p]
      BY <2>1, <3>1 DEF TypeOK, FrameType
    <3>3. TypeOK'
      BY <1>1, <2>1, <3>1, <3>2 DEF Read, TypeOK
    <3>. QED
      BY <1>1, <2>1, <3>1, <3>2, <3>3 DEF Read
  <2>2. CASE selected_slave \notin Slaves
    BY <1>1, <2>2 DEF Read, TypeOK
  <2>. QED
    BY <2>1, <2>2
<1>2. CASE Read("rx_vars", "tx_vars")
  BY <1>2, <1>1
<1>3. CASE Read("tx_vars", "rx_vals")
  BY <1>3, <1>1
<1>4. CASE Read("rx_vals", "tx_vals")
  BY <1>4, <1>1
<1>5. CASE Read("tx_vals", "draw")
  BY <1>5, <1>1
<1>. QED
  BY <1>2, <1>3, <1>4, <1>5 DEF ReadSlave

(* A frame of one slave has a value for every variable, and is shown.      *)
LEMMA InvDraw ==
  ASSUME IInv, Draw
  PROVE  IInv'
<1>. USE DEF mainVars, FeederGoto, FeederMatchesMain, WindowsMatchMain,
             SelectionInRange, LoopInRange, NameHighlighted, ReadFromSelected,
             Drawing, Parts
<1>1. ~disturbed => /\ selected_slave \in Slaves
                    /\ selected_slave \in highlighted
                    /\ \A p \in Parts : frame[p] = selected_slave
  BY DEF Draw, IInv
<1>2. CASE /\ Rows[frame["rx_vars"]] <= Rows[frame["rx_vals"]]
           /\ Rows[frame["tx_vars"]] <= Rows[frame["tx_vals"]]
  <2>1. /\ screen' = [parts |-> frame, highlighted |-> highlighted, disturbed |-> disturbed]
        /\ feeder' = "loop" /\ main # "crashed"
        /\ UNCHANGED <<mainVars, i, standout, highlighted, frame, selected_slave, disturbed>>
    BY <1>2 DEF Draw, Alive
  <2>2. TypeOK'
    <3>1. screen' \in [parts : FrameType, highlighted : SUBSET Slaves, disturbed : BOOLEAN]
      BY <2>1 DEF IInv, TypeOK
    <3>. QED
      BY <2>1, <3>1 DEF IInv, TypeOK
  <2>3. UndisturbedFrame'
    BY <1>1, <2>1 DEF UndisturbedFrame
  <2>. QED
    BY <2>1, <2>2, <2>3 DEF IInv, Draw
<1>3. CASE ~(/\ Rows[frame["rx_vars"]] <= Rows[frame["rx_vals"]]
             /\ Rows[frame["tx_vars"]] <= Rows[frame["tx_vals"]])
  <2>1. disturbed
    <3>. SUFFICES ASSUME ~disturbed PROVE FALSE
      BY DEF IInv, TypeOK
    <3>1. \A p \in Parts : frame[p] = selected_slave
      BY <1>1
    <3>2. Rows[selected_slave] \in Nat
      BY <1>1, SlavesAssumption
    <3>. QED
      BY <1>3, <3>1, <3>2
  <2>2. main' = "crashed" /\ UNCHANGED <<source, windows, keys, key_register, feeder,
            screen, i, standout, highlighted, frame, selected_slave, disturbed>>
    BY <1>3 DEF Draw
  <2>. QED
    BY <2>1, <2>2 DEF IInv, TypeOK, UndisturbedFrame, Draw
<1>. QED
  BY <1>2, <1>3

(* The invariant holds throughout, for every list of slaves but the empty  *)
(* one.                                                                    *)
THEOREM Invariant == ASSUME NumSlaves # 0 PROVE Spec => []IInv
<1>1. IInv /\ [Next]_vars => IInv'
  <2>. SUFFICES ASSUME IInv, [Next]_vars PROVE IInv'
    OBVIOUS
  <2>1. CASE UNCHANGED vars
    BY <2>1 DEF vars, mainVars, drawVars, IInv, TypeOK, FeederMatchesMain,
       WindowsMatchMain, SelectionInRange, LoopInRange, NameHighlighted,
       ReadFromSelected, UndisturbedFrame, Drawing
  <2>. QED
    BY <2>1, InvMain, InvClamp, InvNames, InvRead, InvDraw
    DEF Next, feederThread, dataCallback
<1>. QED
  BY <1>1, InvInit, PTL DEF Spec

(* Type correctness.                                                       *)
THEOREM TypeCorrect == ASSUME NumSlaves # 0 PROVE Spec => []TypeOK
<1>1. IInv => TypeOK
  BY DEF IInv
<1>. QED
  BY <1>1, Invariant, PTL

(* A callback without a key in between shows one slave of the list, for    *)
(* any number of slaves, keys and lost updates before.                     *)
THEOREM FramesWithoutKeys == ASSUME NumSlaves # 0 PROVE Spec => []UndisturbedFrame
<1>1. IInv => UndisturbedFrame
  BY DEF IInv
<1>. QED
  BY <1>1, Invariant, PTL

(* Nobody draws in a deleted window.                                       *)
THEOREM WindowsLast == ASSUME NumSlaves # 0 PROVE Spec => []WindowsOutliveCallbacks
<1>1. IInv => WindowsOutliveCallbacks
  BY DEF IInv, WindowsMatchMain, FeederMatchesMain, WindowsOutliveCallbacks
<1>. QED
  BY <1>1, Invariant, PTL

(***************************************************************************)
(* How 'q' comes to the end of the program.                                *)
(***************************************************************************)

(* The steps that are left to the source's thread once stop was called:    *)
(* the rest of a callback, which draws the name of every slave, and its    *)
(* loop.                                                                   *)
FeederLeft ==
  CASE feeder = "call"       -> 11 + 2 * NumSlaves
    [] feeder = "set_low"    -> 10 + 2 * NumSlaves
    [] feeder = "test_high"  -> 9 + 2 * NumSlaves
    [] feeder = "set_high"   -> 8 + 2 * NumSlaves
    [] feeder = "names"      -> 7 + 2 * (NumSlaves - i)
    [] feeder = "name_drawn" -> 6 + 2 * (NumSlaves - i)
    [] feeder = "rx_vars"    -> 6
    [] feeder = "tx_vars"    -> 5
    [] feeder = "rx_vals"    -> 4
    [] feeder = "tx_vals"    -> 3
    [] feeder = "draw"       -> 2
    [] feeder = "loop"       -> 1
    [] feeder \in {"done", "none"} -> 0

Quitting == main \in {"stopping", "returned", "destroying"}

(* With those of the main thread: stop and the two halves of ~TUI.         *)
MainLeft == CASE main = "stopping"   -> 3
              [] main = "returned"   -> 2
              [] main = "destroying" -> 1
              [] ~Quitting           -> 0

StepsLeft == MainLeft + FeederLeft

(* After 'q' the program has at most two steps for each slave and 14 more  *)
(* to take, and every step is one of them: neither a further callback nor  *)
(* a key comes in between.                                                 *)
QuitComesCloser ==
  /\ [](StepsLeft \in 0 .. (14 + 2 * NumSlaves))
  /\ [][Quitting => StepsLeft' < StepsLeft]_vars

(* What is left is a number, and has its bound.                            *)
LEMMA LeftIsBounded ==
  ASSUME TypeOK
  PROVE  MainLeft \in 0 .. 3 /\ FeederLeft \in 0 .. (11 + 2 * NumSlaves)
<1>1. NumSlaves \in Nat /\ i \in 0 .. NumSlaves
  BY SlavesAssumption DEF TypeOK
<1>2. feeder \in {"none", "loop", "call", "set_low", "test_high", "set_high", "names",
                 "name_drawn", "rx_vars", "tx_vars", "rx_vals", "tx_vals", "draw", "done"}
  BY DEF TypeOK, Parts
<1>3. MainLeft \in 0 .. 3
  BY DEF MainLeft, Quitting
<1>4. FeederLeft \in 0 .. (11 + 2 * NumSlaves)
  <2>1. CASE feeder \in {"call", "set_low", "test_high", "set_high"}
    <3>1. \E k \in {8, 9, 10, 11} : FeederLeft = k + 2 * NumSlaves
      BY <2>1, Zenon DEF FeederLeft
    <3>. QED
      BY <1>1, <3>1
  <2>2. CASE feeder = "names"
    BY <1>1, <2>2 DEF FeederLeft
  <2>3. CASE feeder = "name_drawn"
    BY <1>1, <2>3 DEF FeederLeft
  <2>4. CASE feeder \in {"rx_vars", "tx_vars", "rx_vals", "tx_vals", "draw", "loop",
                        "done", "none"}
    <3>1. FeederLeft \in {0, 1, 2, 3, 4, 5, 6}
      BY <2>4, Zenon DEF FeederLeft
    <3>. QED
      BY <1>1, <3>1
  <2>. QED
    BY <1>2, <2>1, <2>2, <2>3, <2>4
<1>. QED
  BY <1>3, <1>4

(* A sum is less when one of its terms is, and the other is the same.      *)
LEMMA SumIsLess ==
  \A a, b, c, d \in Int : (c < a /\ d = b) \/ (c = a /\ d < b) => c + d < a + b
OBVIOUS

(* A step of the source's thread, in a callback or after it.               *)
LEMMA FeederCloser ==
  ASSUME TypeOK, LoopInRange, main = "stopping", feederThread
  PROVE  \/ main' = "crashed" /\ feeder' = feeder /\ i' = i
         \/ main' = main /\ FeederLeft' < FeederLeft
<1>. USE DEF mainVars, drawVars, FeederGoto
<1>1. NumSlaves \in Nat /\ i \in 0 .. NumSlaves
  BY SlavesAssumption DEF TypeOK
<1>2. CASE FeederLoop
  BY <1>2 DEF FeederLoop, FeederLeft
<1>3. CASE TestLow \/ SetLow
  BY <1>1, <1>3 DEF TestLow, SetLow, FeederLeft
<1>4. CASE TestHigh
  BY <1>1, <1>4 DEF TestHigh, FeederLeft
<1>5. CASE SetHigh
  BY <1>1, <1>5 DEF SetHigh, LoopInRange, FeederLeft
<1>6. CASE DrawName \/ NameDrawn \/ NamesEnd
  BY <1>1, <1>6 DEF DrawName, NameDrawn, NamesEnd, FeederLeft
<1>7. CASE ReadSlave
  BY <1>7 DEF ReadSlave, Read, FeederLeft
<1>8. CASE Draw
  BY <1>8 DEF Draw, FeederLeft
<1>. QED
  BY <1>2, <1>3, <1>4, <1>5, <1>6, <1>7, <1>8 DEF feederThread, dataCallback

(* 'q' ends the program after a number of steps that depends on the number *)
(* of slaves only, wherever the callback stands.                           *)
THEOREM QuitIsBounded == ASSUME NumSlaves # 0 PROVE Spec => QuitComesCloser
<1>1. IInv => /\ MainLeft \in 0 .. 3 /\ FeederLeft \in 0 .. (11 + 2 * NumSlaves)
  BY LeftIsBounded DEF IInv
<1>2. MainLeft \in 0 .. 3 /\ FeederLeft \in 0 .. (11 + 2 * NumSlaves)
        => StepsLeft \in 0 .. (14 + 2 * NumSlaves)
  BY SlavesAssumption DEF StepsLeft
<1>3. ASSUME IInv, [Next]_vars,
             MainLeft \in Int /\ FeederLeft \in Int, (MainLeft \in Int /\ FeederLeft \in Int)'
      PROVE  [Quitting => StepsLeft' < StepsLeft]_vars
  <2>. SUFFICES ASSUME Next, Quitting PROVE StepsLeft' < StepsLeft
    BY <1>3
  <2>1. CASE mainThread
    <3>1. \/ main = "stopping" /\ main' = "returned"
          \/ main = "returned" /\ main' = "destroying"
          \/ main = "destroying" /\ main' = "destroyed"
      BY <2>1 DEF mainThread, StartError, StartSource, KeyLeft, KeyRight, LoadKey, StoreKey,
         Quit, StopReturns, Destroy, Quitting
    <3>2. MainLeft' < MainLeft
      BY <3>1 DEF MainLeft, Quitting
    <3>3. FeederLeft' = FeederLeft
      BY <2>1 DEF mainThread, StartError, StartSource, KeyLeft, KeyRight, LoadKey, StoreKey,
         Quit, StopReturns, Destroy, Quitting, drawVars, FeederLeft
    <3>. QED
      BY <1>3, <3>2, <3>3, SumIsLess DEF StepsLeft
  <2>2. CASE feederThread
    <3>1. main = "stopping"
      BY <1>3, <2>2 DEF IInv, FeederMatchesMain, Quitting, feederThread, FeederLoop,
         dataCallback, TestLow, SetLow, TestHigh, SetHigh, DrawName, NameDrawn, NamesEnd,
         ReadSlave, Read, Draw, FeederGoto
    <3>2. CASE main' = "crashed" /\ feeder' = feeder /\ i' = i
      <4>1. MainLeft' < MainLeft
        BY <3>1, <3>2 DEF MainLeft, Quitting
      <4>2. FeederLeft' = FeederLeft
        BY <3>2 DEF FeederLeft
      <4>. QED
        BY <1>3, <4>1, <4>2, SumIsLess DEF StepsLeft
    <3>3. CASE main' = main /\ FeederLeft' < FeederLeft
      <4>1. MainLeft' = MainLeft
        BY <3>3 DEF MainLeft, Quitting
      <4>. QED
        BY <1>3, <3>3, <4>1, SumIsLess DEF StepsLeft
    <3>. QED
      BY <1>3, <2>2, <3>1, <3>2, <3>3, FeederCloser DEF IInv
  <2>. QED
    BY <2>1, <2>2 DEF Next
<1>4. MainLeft \in 0 .. 3 /\ FeederLeft \in 0 .. (11 + 2 * NumSlaves)
        => MainLeft \in Int /\ FeederLeft \in Int
  OBVIOUS
<1>. QED
  BY <1>1, <1>2, <1>3, <1>4, Invariant, PTL DEF Spec, QuitComesCloser
=============================================================================
