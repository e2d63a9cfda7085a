-------------------------------- MODULE Tui ---------------------------------
(***************************************************************************)
(* The terminal interface: the main thread in TUI::start, which handles    *)
(* the keys, and the thread of the data source that calls dataCallback.    *)
(* Both use selected_slave, an int without a lock. Every access to it is   *)
(* a step here: the compiler reloads it after each call in between, and    *)
(* "-= 1" and "+= 1" load and then store.                                  *)
(*                                                                         *)
(* Of the data source this module keeps what DataSource promises: between  *)
(* start and stop its thread calls dataCallback again and again, and stop  *)
(* returns when that thread has ended.                                     *)
(***************************************************************************)
EXTENDS Integers

CONSTANTS
  NumSlaves, \* slaves.size()
  Rows,      \* number of variables of each slave, for rx and for tx
  MaxKeys    \* bound: arrow keys that are pressed

Slaves == 0 .. (NumSlaves - 1)

ASSUME SlavesAssumption == NumSlaves \in Nat /\ Rows \in [Slaves -> Nat]
ASSUME KeysAssumption   == MaxKeys \in Nat

VARIABLES
  main,            \* control point of the main thread
  source,          \* ecat_data_source: "null", "idle" or "running"
  windows,         \* the ncurses windows
  keys,            \* arrow keys pressed so far
  selected_slave,
  key_register,    \* selected_slave as loaded for -= or +=
  feeder,          \* control point of the source's thread
  i,               \* loop variable of dataCallback
  standout,        \* A_STANDOUT of main_window
  highlighted,     \* the names drawn in A_STANDOUT in this callback
  frame,           \* part -> slave that this callback has read it from
  screen,          \* the last frame that was refreshed
  disturbed        \* a key was stored since this callback began

mainVars  == <<main, source, windows, keys, key_register>>
drawVars  == <<i, standout, highlighted, frame, screen>>
vars      == <<mainVars, drawVars, selected_slave, feeder, disturbed>>

(* What a frame shows of a slave; None where nothing was read yet.         *)
Parts == {"rx_vars", "tx_vars", "rx_vals", "tx_vals"}
None  == -1
Blank == [p \in Parts |-> None]
NoScreen == [parts |-> Blank, highlighted |-> {}, disturbed |-> FALSE]

(***************************************************************************)
(* The main thread.                                                        *)
(***************************************************************************)

(* The constructor of the source, setConfigFile, getSlaves or start fails: *)
(* the message stays until 'q'. The error of the sniffer's constructor     *)
(* does not reset the pointer.                                             *)
StartError ==
  /\ main = "begin"
  /\ main' = "error"
  /\ source' \in {"null", "idle"}
  /\ UNCHANGED <<windows, keys, key_register, drawVars, selected_slave, feeder, disturbed>>

(* The source starts; an EtherCAT master whose ring does not become        *)
(* OPERATIONAL reports no error and has no thread.                         *)
StartSource ==
  /\ main = "begin"
  /\ main' = "keys"
  /\ source' = "running"
  /\ feeder' \in {"none", "loop"}
  /\ UNCHANGED <<windows, keys, key_register, drawVars, selected_slave, disturbed>>

(* KEY_LEFT or KEY_RIGHT: the load ...                                     *)
LoadKey(key) ==
  /\ main = "keys" /\ keys < MaxKeys
  /\ main' = key
  /\ keys' = keys + 1
  /\ key_register' = selected_slave
  /\ UNCHANGED <<source, windows, drawVars, selected_slave, feeder, disturbed>>

(* ... and the store.                                                      *)
StoreKey(key, step) ==
  /\ main = key
  /\ main' = "keys"
  /\ selected_slave' = key_register + step
  /\ disturbed' = TRUE
  /\ UNCHANGED <<source, windows, keys, key_register, drawVars, feeder>>

KeyLeft  == LoadKey("left") \/ StoreKey("left", -1)
KeyRight == LoadKey("right") \/ StoreKey("right", 1)

(* Mutant: 'q' returns without a stop.                                     *)
MutQuit ==
  /\ main \in {"keys", "error"}
  /\ main' = "returned"
  /\ UNCHANGED <<source, windows, keys, key_register, drawVars, selected_slave,
                 feeder, disturbed>>

(* 'q': stop the source, or leave the loop that shows the error.           *)
Quit ==
  /\ \/ main = "keys" /\ main' = "stopping"
     \/ main = "error" /\ main' = "returned"
  /\ UNCHANGED <<source, windows, keys, key_register, drawVars, selected_slave,
                 feeder, disturbed>>

(* stop has joined the thread, if there is one.                            *)
StopReturns ==
  /\ main = "stopping"
  /\ feeder \in {"none", "done"}
  /\ feeder' = "none"
  /\ source' = "idle"
  /\ main' = "returned"
  /\ UNCHANGED <<windows, keys, key_register, drawVars, selected_slave, disturbed>>

(* ~TUI deletes the windows, and only then ~UI drops the source.           *)
Destroy ==
  /\ \/ main = "returned" /\ main' = "destroying"
        /\ windows' = "deleted" /\ UNCHANGED source
     \/ main = "destroying" /\ main' = "destroyed"
        /\ source' = "null" /\ UNCHANGED windows
  /\ UNCHANGED <<keys, key_register, drawVars, selected_slave, feeder, disturbed>>

mainThread == StartError \/ StartSource \/ KeyLeft \/ KeyRight \/ Quit \/ StopReturns \/ Destroy

(***************************************************************************)
(* The source's thread, with dataCallback.                                 *)
(***************************************************************************)

Alive == main # "crashed"

FeederGoto(from, to) ==
  /\ Alive
  /\ feeder = from
  /\ feeder' = to
  /\ UNCHANGED mainVars

(* Mutant: a loop that does not look whether stop was called.              *)
MutFeederLoop ==
  /\ FeederGoto("loop", "call")
  /\ UNCHANGED <<drawVars, selected_slave, disturbed>>

(* The loop of the source ends when stop was called; a PCAP file may also  *)
(* end before.                                                             *)
FeederLoop ==
  /\ \/ main # "stopping" /\ FeederGoto("loop", "call")
     \/ FeederGoto("loop", "done")
  /\ UNCHANGED <<drawVars, selected_slave, disturbed>>

(* The four accesses that bring selected_slave into its range. The second  *)
(* comparison is one of unsigned numbers: a negative selected_slave is     *)
(* larger than every size.                                                 *)
TestLow ==
  /\ FeederGoto("call", IF selected_slave < 0 THEN "set_low" ELSE "test_high")
  /\ disturbed' = FALSE
  /\ UNCHANGED <<drawVars, selected_slave>>

SetLow ==
  /\ FeederGoto("set_low", "test_high")
  /\ selected_slave' = 0
  /\ UNCHANGED <<drawVars, disturbed>>

(* Mutant: > instead of >=.                                                *)
MutTestHigh ==
  /\ FeederGoto("test_high", IF selected_slave < 0 \/ selected_slave > NumSlaves
                             THEN "set_high" ELSE "names")
  /\ i' = 0
  /\ highlighted' = {}
  /\ frame' = Blank
  /\ UNCHANGED <<standout, screen, selected_slave, disturbed>>

TestHigh ==
  /\ FeederGoto("test_high", IF selected_slave < 0 \/ selected_slave >= NumSlaves
                             THEN "set_high" ELSE "names")
  /\ i' = 0
  /\ highlighted' = {}
  /\ frame' = Blank
  /\ UNCHANGED <<standout, screen, selected_slave, disturbed>>

SetHigh ==
  /\ FeederGoto("set_high", "names")
  /\ selected_slave' = NumSlaves - 1
  /\ UNCHANGED <<drawVars, disturbed>>

(* Mutant: a loop up to and including slaves.size().                       *)
MutDrawName ==
  /\ FeederGoto("names", "name_drawn")
  /\ i <= NumSlaves
  /\ standout' = (standout \/ i = selected_slave)
  /\ highlighted' = IF standout' THEN highlighted \cup {i} ELSE highlighted
  /\ UNCHANGED <<i, frame, screen, selected_slave, disturbed>>

(* The name of slave i, highlighted while A_STANDOUT is on ...             *)
DrawName ==
  /\ FeederGoto("names", "name_drawn")
  /\ i < NumSlaves
  /\ standout' = (standout \/ i = selected_slave)
  /\ highlighted' = IF standout' THEN highlighted \cup {i} ELSE highlighted
  /\ UNCHANGED <<i, frame, screen, selected_slave, disturbed>>

(* ... which the second comparison turns off again.                        *)
NameDrawn ==
  /\ FeederGoto("name_drawn", "names")
  /\ standout' = (standout /\ i # selected_slave)
  /\ i' = i + 1
  /\ UNCHANGED <<highlighted, frame, screen, selected_slave, disturbed>>

NamesEnd ==
  /\ FeederGoto("names", "rx_vars")
  /\ i = NumSlaves
  /\ UNCHANGED <<drawVars, selected_slave, disturbed>>

(* One access to slaves[selected_slave] each; outside the vector anything  *)
(* may happen, which ends the model.                                       *)
Read(part, next) ==
  /\ Alive
  /\ feeder = part
  /\ IF selected_slave \in Slaves
     THEN /\ FeederGoto(part, next)
          /\ frame' = [frame EXCEPT ![part] = selected_slave]
     ELSE /\ main' = "crashed"
          /\ UNCHANGED <<source, windows, keys, key_register, feeder, frame>>
  /\ UNCHANGED <<i, standout, highlighted, screen, selected_slave, disturbed>>

ReadSlave == \/ Read("rx_vars", "tx_vars") \/ Read("tx_vars", "rx_vals")
             \/ Read("rx_vals", "tx_vals") \/ Read("tx_vals", "draw")

(* The rows: one for each variable, with the value at the same index.      *)
Draw ==
  /\ Alive
  /\ feeder = "draw"
  /\ IF /\ Rows[frame["rx_vars"]] <= Rows[frame["rx_vals"]]
        /\ Rows[frame["tx_vars"]] <= Rows[frame["tx_vals"]]
     THEN /\ FeederGoto("draw", "loop")
          /\ screen' = [parts |-> frame, highlighted |-> highlighted, disturbed |-> disturbed]
     ELSE /\ main' = "crashed"
          /\ UNCHANGED <<source, windows, keys, key_register, feeder, screen>>
  /\ UNCHANGED <<i, standout, highlighted, frame, selected_slave, disturbed>>

dataCallback == \/ TestLow \/ SetLow \/ TestHigh \/ SetHigh \/ DrawName
                \/ NameDrawn \/ NamesEnd \/ ReadSlave \/ Draw
feederThread == FeederLoop \/ dataCallback

-----------------------------------------------------------------------------
Init ==
  /\ main = "begin"
  /\ source = "null"
  /\ windows = "open"
  /\ keys = 0
  /\ selected_slave = 0
  /\ key_register = 0
  /\ feeder = "none"
  /\ i = 0
  /\ standout = FALSE
  /\ highlighted = {}
  /\ frame = Blank
  /\ screen = NoScreen
  /\ disturbed = FALSE

Next == mainThread \/ feederThread

Spec == Init /\ [][Next]_vars

(* Both threads are scheduled; nothing is assumed about keys being pressed.*)
Fairness == WF_vars(feederThread) /\ WF_vars(StopReturns \/ Destroy)

FairSpec == Spec /\ Fairness

(***************************************************************************)
(* Properties.                                                             *)
(***************************************************************************)

FrameType == [Parts -> Slaves \cup {None}]

(* Every variable has its type.                                            *)
TypeOK ==
  /\ main \in {"begin", "error", "keys", "left", "right", "stopping",
               "returned", "destroying", "destroyed", "crashed"}
  /\ source \in {"null", "idle", "running"}
  /\ windows \in {"open", "deleted"}
  /\ keys \in 0 .. MaxKeys
  /\ selected_slave \in Int
  /\ key_register \in Int
  /\ feeder \in Parts \cup {"none", "loop", "call", "set_low", "test_high", "set_high",
                            "names", "name_drawn", "draw", "done"}
  /\ i \in 0 .. NumSlaves
  /\ standout \in BOOLEAN
  /\ highlighted \in SUBSET Slaves
  /\ frame \in FrameType
  /\ screen \in [parts : FrameType, highlighted : SUBSET Slaves, disturbed : BOOLEAN]
  /\ disturbed \in BOOLEAN

(* A callback during which no key is stored never leaves the vector and    *)
(* shows one slave, whose name is highlighted, whatever the keys and the   *)
(* lost updates of earlier callbacks did to selected_slave.                *)
UndisturbedFrame ==
  /\ main = "crashed" => disturbed
  /\ screen # NoScreen /\ ~screen.disturbed =>
       \E s \in screen.highlighted : \A p \in Parts : screen.parts[p] = s

(* The windows are deleted only when no thread draws in them any more, and *)
(* nothing calls a TUI that is gone.                                       *)
WindowsOutliveCallbacks ==
  windows = "deleted" => feeder = "none" /\ source # "running"

(* 'q' ends the program, however busy the source is.                       *)
QuitEnds == main = "stopping" ~> main \in {"destroyed", "crashed"}

(* The invariant that the proofs rest on: how far an undisturbed callback  *)
(* has come.                                                               *)

(* The thread of the source exists only while start waits for keys or is   *)
(* in stop.                                                                *)
FeederMatchesMain ==
  main \in {"begin", "error", "returned", "destroying", "destroyed"} =>
    feeder = "none" /\ source # "running"

WindowsMatchMain == windows = "deleted" => main \in {"destroying", "destroyed"}

Drawing == feeder \in Parts \cup {"names", "name_drawn", "draw"}

(* After both comparisons selected_slave stays in the vector.              *)
SelectionInRange ==
  ~disturbed => /\ feeder = "test_high" => selected_slave >= 0
                /\ Drawing => selected_slave \in Slaves

LoopInRange == /\ feeder = "set_high" => i = 0
               /\ feeder = "name_drawn" => i < NumSlaves

(* The name of the selected slave is highlighted once the loop is past it. *)
NameHighlighted ==
  /\ ~disturbed /\ Drawing
  /\ \/ feeder \in Parts \cup {"draw"}
     \/ i > selected_slave
     \/ feeder = "name_drawn" /\ i = selected_slave
  => selected_slave \in highlighted

(* The parts that were read are those of the selected slave.               *)
ReadFromSelected ==
  ~disturbed =>
    /\ feeder \in {"tx_vars", "rx_vals", "tx_vals", "draw"} => frame["rx_vars"] = selected_slave
    /\ feeder \in {"rx_vals", "tx_vals", "draw"} => frame["tx_vars"] = selected_slave
    /\ feeder \in {"tx_vals", "draw"} => frame["rx_vals"] = selected_slave
    /\ feeder = "draw" => frame["tx_vals"] = selected_slave

IInv == /\ TypeOK
        /\ FeederMatchesMain
        /\ WindowsMatchMain
        /\ SelectionInRange
        /\ LoopInRange
        /\ NameHighlighted
        /\ ReadFromSelected
        /\ UndisturbedFrame

(* README: the terminal shows the data of a single slave at a time.        *)
SingleSlaveShown ==
  \A p, q \in Parts : screen.parts[p] = screen.parts[q]

=============================================================================
