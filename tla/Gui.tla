-------------------------------- MODULE Gui ---------------------------------
(***************************************************************************)
(* The Qt interface: the handlers of its buttons in the GUI thread, and    *)
(* dataCallback, which the thread of the data source calls and which posts *)
(* a dataChanged event to the GUI thread (a queued connection). The event  *)
(* carries a copy of the vector of pointers, not of the data: what it      *)
(* shows is what the slaves hold when it is handled.                       *)
(*                                                                         *)
(* A source is abstracted to what DataSource promises: between start and   *)
(* stop its slaves are refreshed and the callback is called. The slaves of *)
(* a source are the sequence of their numbers of variables, and a group    *)
(* box is its number of labels.                                            *)
(***************************************************************************)
EXTENDS Integers, Sequences

CONSTANTS
  SlaveLists,   \* what getSlaves may return
  MaxData,      \* bound: refreshes of one source
  MaxQueue,     \* bound: events in the queue
  MaxDiscover   \* bound: discoveries

ASSUME SlavesAssumption == SlaveLists \subseteq Seq(Nat)
ASSUME BoundAssumption == {MaxData, MaxQueue, MaxDiscover} \subseteq Nat

VARIABLES
  window,             \* "open", "stopping" (the GUI thread waits in stop),
                      \* "destroying", "closed" or "aborted"
  input,              \* the radio button that is checked
  if_selected,        \* a network interface is selected
  config_file_name,   \* a name was chosen
  pcap_file_name,     \* a name was chosen
  publish_zmq,        \* publish_zmq_checkbox
  start_enabled, start_text, discover_enabled,
  wheel_group_boxes,  \* one per slave: its number of labels
  hidden,             \* the boxes whose list item is unchecked
  source,             \* ecat_data_source: "null", "idle" or "running"
  feed,               \* what the source reads; a file that was read is "eof"
  slaves,             \* the slaves of the source
  zmq_publish_enabled,\* of the source
  generation,         \* which source it is
  data,               \* refreshes of its slaves so far
  thread,             \* the source's thread: "none", "loop" or "callback"
  queue,              \* the posted dataChanged events
  called,             \* refresh that the last callback was about
  shown               \* the refreshes of this source that were displayed

optionVars == <<input, if_selected, config_file_name, pcap_file_name>>
buttonVars == <<start_enabled, start_text, discover_enabled>>
boxVars    == <<wheel_group_boxes, hidden>>
sourceVars == <<source, feed, slaves, generation>>
showVars   == <<queue, called, shown>>
vars == <<window, optionVars, publish_zmq, buttonVars, boxVars,
          sourceVars, zmq_publish_enabled, data, thread, showVars>>

(* A click is handled when the GUI thread is in its event loop, before or  *)
(* after the posted events: Qt promises no order between the two.          *)
Click == window = "open"

(***************************************************************************)
(* The options.                                                            *)
(***************************************************************************)

(* handleInputButtonChanged enables what belongs to the input: the file    *)
(* and interface options can be changed only then.                         *)
SelectInput ==
  /\ Click
  /\ input' \in {"ecat", "sniffer", "pcap"}
  /\ UNCHANGED <<window, if_selected, config_file_name, pcap_file_name, publish_zmq,
                 buttonVars, boxVars, sourceVars, zmq_publish_enabled,
                 data, thread, showVars>>

SelectInterface ==
  /\ Click
  /\ input \in {"ecat", "sniffer"}
  /\ if_selected' = ~if_selected
  /\ UNCHANGED <<window, input, config_file_name, pcap_file_name, publish_zmq,
                 buttonVars, boxVars, sourceVars, zmq_publish_enabled,
                 data, thread, showVars>>

(* The file dialogs; one that is cancelled clears the name.                *)
SelectFile ==
  /\ Click
  /\ \/ /\ input \in {"sniffer", "pcap"}
        /\ config_file_name' \in BOOLEAN /\ UNCHANGED pcap_file_name
     \/ /\ input = "pcap"
        /\ pcap_file_name' \in BOOLEAN /\ UNCHANGED config_file_name
  /\ UNCHANGED <<window, input, if_selected, publish_zmq, buttonVars, boxVars,
                 sourceVars, zmq_publish_enabled, data, thread, showVars>>

(* Mutant: the source is told only when it runs.                           *)
MutHandleZMQCheckBox ==
  /\ Click
  /\ publish_zmq' = ~publish_zmq
  /\ zmq_publish_enabled' = IF source = "running" THEN publish_zmq' ELSE zmq_publish_enabled
  /\ UNCHANGED <<window, optionVars, buttonVars, boxVars, sourceVars,
                 data, thread, showVars>>

handleZMQCheckBox ==
  /\ Click
  /\ publish_zmq' = ~publish_zmq
  /\ zmq_publish_enabled' = IF source # "null" THEN publish_zmq' ELSE zmq_publish_enabled
  /\ UNCHANGED <<window, optionVars, buttonVars, boxVars, sourceVars,
                 data, thread, showVars>>

(* The list item of a box is checked or unchecked.                         *)
handleWheelListChanged ==
  /\ Click
  /\ \E k \in DOMAIN wheel_group_boxes :
        hidden' = IF k \in hidden THEN hidden \ {k} ELSE hidden \cup {k}
  /\ UNCHANGED <<window, optionVars, publish_zmq, buttonVars, wheel_group_boxes,
                 sourceVars, zmq_publish_enabled, data, thread, showVars>>

(***************************************************************************)
(* handleDiscoverButton.                                                   *)
(***************************************************************************)

(* The old boxes and the old source go first.                              *)
Discover ==
  /\ Click
  /\ discover_enabled
  /\ generation < MaxDiscover
  /\ generation' = generation + 1
  /\ data' = 0 /\ called' = 0 /\ shown' = {}
  /\ UNCHANGED <<window, optionVars, publish_zmq, start_text, discover_enabled,
                 thread, queue>>

(* Mutant: an early return before the buttons are set.                     *)
MutDiscoverError ==
  /\ Discover
  /\ source' = "null" /\ feed' = "none" /\ slaves' = << >>
  /\ wheel_group_boxes' = << >> /\ hidden' = {}
  /\ UNCHANGED <<start_enabled, zmq_publish_enabled>>

(* An option is missing, libtins throws, the config cannot be opened, or   *)
(* getSlaves reports an error: after the message there is no source and no *)
(* button to start it.                                                     *)
DiscoverError ==
  /\ Discover
  /\ start_enabled' = FALSE
  /\ source' = "null" /\ feed' = "none" /\ slaves' = << >>
  /\ wheel_group_boxes' = << >> /\ hidden' = {}
  /\ UNCHANGED zmq_publish_enabled

OptionsComplete ==
  \/ input = "ecat" /\ if_selected
  \/ input = "sniffer" /\ if_selected /\ config_file_name
  \/ input = "pcap" /\ config_file_name /\ pcap_file_name

(* Mutant: the vector of boxes is not cleared.                             *)
MutAddBoxes(list) ==
  wheel_group_boxes' = wheel_group_boxes \o list /\ hidden' = {}

(* Mutant: a new box takes the visibility of the one it replaces.          *)
MutKeepHidden(list) ==
  wheel_group_boxes' = list /\ UNCHANGED hidden

(* Every slave gets a box and a checked list item.                         *)
AddBoxes(list) ==
  wheel_group_boxes' = list /\ hidden' = {}

DiscoverFound ==
  /\ Discover
  /\ OptionsComplete
  /\ \E list \in SlaveLists : slaves' = list /\ AddBoxes(list)
  /\ source' = "idle"
  /\ feed' = input
  /\ zmq_publish_enabled' = publish_zmq
  /\ start_enabled' = TRUE

handleDiscoverButton == DiscoverError \/ DiscoverFound

(***************************************************************************)
(* handleStart.                                                            *)
(***************************************************************************)

(* The master reports an error: a message, and nothing else changes.       *)
StartError ==
  /\ Click /\ feed = "ecat"
  /\ start_enabled /\ start_text = "Start"
  /\ UNCHANGED vars

(* Mutant: the discover button stays enabled.                              *)
MutStartSource ==
  /\ Click
  /\ start_enabled /\ start_text = "Start"
  /\ source' = "running"
  /\ thread' \in {"loop"} \cup (IF feed = "ecat" THEN {"none"} ELSE {})
  /\ start_text' = "Stop"
  /\ UNCHANGED <<window, optionVars, publish_zmq, start_enabled, discover_enabled,
                 boxVars, feed, slaves, generation, zmq_publish_enabled, data, showVars>>

(* The master reports success, but starts no threads, when the ring does   *)
(* not become operational.                                                 *)
StartSource ==
  /\ Click
  /\ start_enabled /\ start_text = "Start"
  /\ source' = "running"
  /\ thread' \in {"loop"} \cup (IF feed = "ecat" THEN {"none"} ELSE {})
  /\ start_text' = "Stop"
  /\ discover_enabled' = FALSE
  /\ UNCHANGED <<window, optionVars, publish_zmq, start_enabled, boxVars,
                 feed, slaves, generation, zmq_publish_enabled, data, showVars>>

(* stop waits for the thread, which may go on for a round and post events. *)
Stop ==
  /\ Click
  /\ start_enabled /\ start_text = "Stop"
  /\ window' = "stopping"
  /\ UNCHANGED <<optionVars, publish_zmq, buttonVars, boxVars, sourceVars,
                 zmq_publish_enabled, data, thread, showVars>>

Stopped ==
  /\ window = "stopping"
  /\ thread \in {"none", "loop"}
  /\ window' = "open"
  /\ thread' = "none"
  /\ source' = "idle"
  /\ start_text' = "Start"
  /\ discover_enabled' = TRUE
  /\ UNCHANGED <<optionVars, publish_zmq, start_enabled, boxVars, feed, slaves,
                 generation, zmq_publish_enabled, data, showVars>>

handleStart == StartError \/ StartSource \/ Stop \/ Stopped

(***************************************************************************)
(* The data path.                                                          *)
(***************************************************************************)

Running == source = "running" /\ thread # "none"

(* The source refreshes its slaves. The sniffer does so before each        *)
(* callback, the EtherCAT master at its own pace.                          *)
Refresh ==
  /\ Running /\ thread = "loop" /\ feed # "eof"
  /\ data < MaxData
  /\ data' = data + 1
  /\ thread' = "callback"
  /\ UNCHANGED <<window, optionVars, publish_zmq, buttonVars, boxVars,
                 sourceVars, zmq_publish_enabled, showVars>>

(* The packets of a file come to their end, and with them the thread. It   *)
(* ends at once when it is started again.                                  *)
FileEnds ==
  /\ Running /\ thread = "loop" /\ feed \in {"pcap", "eof"}
  /\ thread' = "none"
  /\ feed' = "eof"
  /\ UNCHANGED <<window, optionVars, publish_zmq, buttonVars, boxVars, source, slaves,
                 generation, zmq_publish_enabled, data, showVars>>

(* Mutant: a callback is dropped once stop was called.                     *)
MutDataCallback ==
  /\ Running /\ thread = "callback"
  /\ window \in {"open", "stopping"} /\ Len(queue) < MaxQueue
  /\ queue' = IF window = "stopping" THEN queue
              ELSE Append(queue, [slaves |-> slaves, generation |-> generation])
  /\ called' = data
  /\ thread' = "loop"
  /\ UNCHANGED <<window, optionVars, publish_zmq, buttonVars, boxVars,
                 sourceVars, zmq_publish_enabled, data, shown>>

(* dataCallback posts an event; the queue of Qt has no limit but memory.   *)
dataCallback ==
  /\ Running /\ thread = "callback"
  /\ window \in {"open", "stopping"} /\ Len(queue) < MaxQueue
  /\ queue' = Append(queue, [slaves |-> slaves, generation |-> generation])
  /\ called' = data
  /\ thread' = "loop"
  /\ UNCHANGED <<window, optionVars, publish_zmq, buttonVars, boxVars,
                 sourceVars, zmq_publish_enabled, data, shown>>

(* A box for each slave of the event, and a value for each of its labels.  *)
Fits(list, boxes) ==
  Len(list) <= Len(boxes) /\ \A k \in DOMAIN list : boxes[k] <= list[k]

(* handleDataChanged: the values are read now, from the objects that the   *)
(* thread goes on writing. Without the box or the value that an index asks *)
(* for anything may happen.                                                *)
handleDataChanged ==
  /\ window = "open"
  /\ queue # << >>
  /\ queue' = Tail(queue)
  /\ window' = IF Fits(Head(queue).slaves, wheel_group_boxes) THEN "open" ELSE "aborted"
  /\ shown' = IF Head(queue).generation = generation THEN shown \cup {data} ELSE shown
  /\ UNCHANGED <<optionVars, publish_zmq, buttonVars, boxVars, sourceVars,
                 zmq_publish_enabled, data, thread, called>>

(***************************************************************************)
(* The window is closed: main returns and the GUI is destroyed, the source *)
(* last. A callback that comes in between finds no GUI to call.            *)
(***************************************************************************)

Close ==
  /\ Click
  /\ window' = IF thread = "none" THEN "closed" ELSE "destroying"
  /\ queue' = << >>
  /\ UNCHANGED <<optionVars, publish_zmq, buttonVars, boxVars, sourceVars,
                 zmq_publish_enabled, data, thread, called, shown>>

CallbackWhileDestroying ==
  /\ window = "destroying"
  /\ thread = "callback"
  /\ window' = "aborted"
  /\ UNCHANGED <<optionVars, publish_zmq, buttonVars, boxVars, sourceVars,
                 zmq_publish_enabled, data, thread, showVars>>

SourceDestroyed ==
  /\ window = "destroying"
  /\ thread = "loop"
  /\ thread' = "none"
  /\ source' = "null"
  /\ window' = "closed"
  /\ UNCHANGED <<optionVars, publish_zmq, buttonVars, boxVars, feed, slaves,
                 generation, zmq_publish_enabled, data, showVars>>

closeEvent == Close \/ CallbackWhileDestroying \/ SourceDestroyed

-----------------------------------------------------------------------------
Init ==
  /\ window = "open"
  /\ input = "none"
  /\ if_selected = FALSE /\ config_file_name = FALSE /\ pcap_file_name = FALSE
  /\ publish_zmq = FALSE
  /\ start_enabled = FALSE /\ start_text = "Start" /\ discover_enabled = TRUE
  /\ wheel_group_boxes = << >> /\ hidden = {}
  /\ source = "null" /\ feed = "none" /\ slaves = << >> /\ generation = 0
  /\ zmq_publish_enabled = FALSE
  /\ data = 0
  /\ thread = "none"
  /\ queue = << >>
  /\ called = 0
  /\ shown = {}

Next == \/ SelectInput \/ SelectInterface \/ SelectFile \/ handleZMQCheckBox
        \/ handleWheelListChanged
        \/ handleDiscoverButton \/ handleStart
        \/ Refresh \/ FileEnds \/ dataCallback \/ handleDataChanged \/ closeEvent

Spec == Init /\ [][Next]_vars

(***************************************************************************)
(* Properties.                                                             *)
(***************************************************************************)

Events == [slaves : SlaveLists, generation : 1 .. MaxDiscover]

(* Every variable has its type.                                            *)
TypeOK ==
  /\ window \in {"open", "stopping", "destroying", "closed", "aborted"}
  /\ input \in {"none", "ecat", "sniffer", "pcap"}
  /\ {if_selected, config_file_name, pcap_file_name, publish_zmq, start_enabled,
      discover_enabled, zmq_publish_enabled} \subseteq BOOLEAN
  /\ start_text \in {"Start", "Stop"}
  /\ wheel_group_boxes \in Seq(Nat)
  /\ hidden \subseteq DOMAIN wheel_group_boxes
  /\ source \in {"null", "idle", "running"}
  /\ feed \in {"none", "ecat", "sniffer", "pcap", "eof"}
  /\ slaves \in SlaveLists \cup {<< >>}
  /\ generation \in 0 .. MaxDiscover
  /\ data \in 0 .. MaxData
  /\ thread \in {"none", "loop", "callback"}
  /\ queue \in Seq(Events)
  /\ Len(queue) <= MaxQueue
  /\ called \in 0 .. MaxData
  /\ shown \subseteq 0 .. MaxData

(* The buttons never let the user start or stop a source that is not       *)
(* there, whichever discovery failed before: handleStart does not test the *)
(* pointer.                                                                *)
StartHasSource == window \in {"open", "stopping"} /\ start_enabled => source # "null"

(* A source that runs is not deleted by a discovery: the destructor would  *)
(* join a sniffing thread that nobody asked to end, and hang the window.   *)
RunsOnlyUnderStop ==
  /\ source = "running" /\ window \in {"open", "stopping"} => start_text = "Stop" /\ ~discover_enabled
  /\ thread # "none" => source = "running"

(* The source publishes when the checkbox says so, whether the box was     *)
(* checked before the discovery, after it or while the source runs.        *)
ZmqMatchesCheckbox == source # "null" => zmq_publish_enabled = publish_zmq

(* A posted event is handled after the clicks that overtook it, and a      *)
(* Discover click among them replaces the boxes it was meant for. The      *)
(* harm has a bound: an event for which handleDataChanged lacks a box or a *)
(* value was posted by a source that is gone, and it is handled before     *)
(* anything of the new source is shown. A source whose data were displayed *)
(* once meets its own boxes only, over every later Stop and Start.         *)
MisfitsAreLate ==
  window \in {"open", "stopping"} =>
    \A k \in DOMAIN queue :
      Fits(queue[k].slaves, wheel_group_boxes) \/ (queue[k].generation < generation /\ shown = {})

(* Once the queue is empty the window shows the data of the last callback  *)
(* or newer ones: no callback is without effect.                           *)
LastCallbackShown ==
  window = "open" /\ queue = << >> /\ called > 0 => \E v \in shown : v >= called

(* README: a PCAP file is the way to view all of the data. Events that are *)
(* handled late show the newer data twice and the older data never.        *)
AllDataShown ==
  window = "open" /\ feed \in {"pcap", "eof"} /\ queue = << >> => 1 .. called \subseteq shown

(***************************************************************************)
(* The invariant that the proofs rest on.                                  *)
(***************************************************************************)

(* While stop waits, its button is the Stop button of a source.            *)
StopIsPressed == window = "stopping" => start_enabled /\ start_text = "Stop"

(* A source comes from a discovery, and each of its slaves has a box with  *)
(* as many labels as the slave has variables.                              *)
BoxesMatchSource ==
  source # "null" => /\ generation > 0 /\ slaves \in SlaveLists
                     /\ wheel_group_boxes = slaves

(* The last callback was shown, or the last event of the queue is its.     *)
CallbackPending ==
  /\ called <= data
  /\ called > 0 /\ window \in {"open", "stopping"} =>
       \/ \E v \in shown : v >= called
       \/ queue # << >> /\ queue[Len(queue)].generation = generation

(* The events are in the order of the sources that posted them. Those of   *)
(* the current source carry its slaves, and no older one is left behind an *)
(* event of it that was shown.                                             *)
EventsInOrder ==
  window \in {"open", "stopping"} =>
    /\ \A k \in DOMAIN queue :
         /\ queue[k].generation <= generation
         /\ queue[k].generation = generation => queue[k].slaves = slaves /\ source # "null"
         /\ shown # {} => queue[k].generation = generation
    /\ \A j, k \in DOMAIN queue : j < k => queue[j].generation <= queue[k].generation

IInv == /\ TypeOK /\ StopIsPressed /\ StartHasSource /\ RunsOnlyUnderStop
        /\ BoxesMatchSource /\ ZmqMatchesCheckbox /\ CallbackPending /\ EventsInOrder
=============================================================================
