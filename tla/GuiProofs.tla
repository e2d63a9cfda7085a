----------------------------- MODULE GuiProofs ------------------------------
(***************************************************************************)
(* Proofs about Gui, for every list of slaves and every number of          *)
(* discoveries, refreshes and events.                                      *)
(***************************************************************************)
EXTENDS Gui, TLAPS

(* The bounds are numbers.                                                 *)
LEMMA Bounds == MaxData \in Nat /\ MaxQueue \in Nat /\ MaxDiscover \in Nat
BY BoundAssumption

(* The empty window satisfies the invariant.                               *)
LEMMA InitIInv == Init => IInv
<1> SUFFICES ASSUME Init PROVE IInv
  OBVIOUS
<1>1. TypeOK
  <2>1. << >> \in Seq(Nat) /\ << >> \in Seq(Events)
    OBVIOUS
  <2>2. Len(queue) <= MaxQueue
    BY Bounds DEF Init
  <2>3. 0 \in 0 .. MaxDiscover /\ 0 \in 0 .. MaxData
    BY Bounds
  <2> QED
    BY <2>1, <2>2, <2>3 DEF Init, TypeOK
<1> QED
  BY <1>1 DEF Init, IInv, StopIsPressed, StartHasSource, RunsOnlyUnderStop,
     BoxesMatchSource, ZmqMatchesCheckbox, CallbackPending, EventsInOrder

(* The handlers of the options keep the types.                             *)
LEMMA TypeOptions ==
  ASSUME TypeOK,
         \/ SelectInput \/ SelectInterface \/ SelectFile \/ handleZMQCheckBox
         \/ handleWheelListChanged
  PROVE  TypeOK'
<1> USE DEF TypeOK, buttonVars, boxVars, sourceVars, showVars, optionVars
<1>1. CASE SelectInput
  BY <1>1 DEF SelectInput
<1>2. CASE SelectInterface
  BY <1>2 DEF SelectInterface
<1>3. CASE SelectFile
  BY <1>3 DEF SelectFile
<1>4. CASE handleZMQCheckBox
  <2>1. publish_zmq' \in BOOLEAN /\ zmq_publish_enabled' \in BOOLEAN
    BY <1>4 DEF handleZMQCheckBox
  <2> QED
    BY <1>4, <2>1 DEF handleZMQCheckBox
<1>5. CASE handleWheelListChanged
  BY <1>5 DEF handleWheelListChanged
<1> QED
  BY <1>1, <1>2, <1>3, <1>4, <1>5

(* So do the two buttons.                                                  *)
LEMMA TypeButtons ==
  ASSUME TypeOK, handleDiscoverButton \/ handleStart
  PROVE  TypeOK'
<1> USE Bounds DEF TypeOK, buttonVars, boxVars, sourceVars, showVars, optionVars
<1>1. CASE DiscoverError
  <2>1. generation' \in 0 .. MaxDiscover
    BY <1>1 DEF DiscoverError, Discover
  <2>2. wheel_group_boxes' \in Seq(Nat) /\ hidden' = {} /\ slaves' = << >>
    BY <1>1 DEF DiscoverError
  <2>3. source' = "null" /\ feed' = "none" /\ start_enabled' = FALSE
    BY <1>1 DEF DiscoverError
  <2>4. /\ UNCHANGED <<window, optionVars, publish_zmq, start_text, discover_enabled,
                       thread, queue, zmq_publish_enabled>>
        /\ data' = 0 /\ called' = 0 /\ shown' = {}
    BY <1>1 DEF DiscoverError, Discover
  <2>5. slaves' \in SlaveLists \cup {<< >>} /\ hidden' \subseteq DOMAIN wheel_group_boxes'
    BY <2>2
  <2>6. data' \in 0 .. MaxData /\ called' \in 0 .. MaxData /\ shown' \subseteq 0 .. MaxData
    BY <2>4
  <2> QED
    BY <2>1, <2>2, <2>3, <2>4, <2>5, <2>6
<1>2. CASE DiscoverFound
  <2>1. generation' \in 0 .. MaxDiscover
    BY <1>2 DEF DiscoverFound, Discover
  <2>2. slaves' \in SlaveLists /\ wheel_group_boxes' \in Seq(Nat) /\ hidden' = {}
    BY <1>2, SlavesAssumption DEF DiscoverFound, AddBoxes
  <2>3. feed' \in {"ecat", "sniffer", "pcap"}
    BY <1>2 DEF DiscoverFound, OptionsComplete
  <2> QED
    BY <1>2, <2>1, <2>2, <2>3 DEF DiscoverFound, Discover
<1>3. CASE StartError
  BY <1>3 DEF StartError, vars
<1>4. CASE StartSource
  BY <1>4 DEF StartSource
<1>5. CASE Stop
  BY <1>5 DEF Stop
<1>6. CASE Stopped
  BY <1>6 DEF Stopped
<1> QED
  BY <1>1, <1>2, <1>3, <1>4, <1>5, <1>6 DEF handleDiscoverButton, handleStart

(* dataCallback puts its event behind the others.                          *)
LEMMA Posted ==
  ASSUME TypeOK, BoxesMatchSource, dataCallback
  PROVE  /\ queue' \in Seq(Events) /\ Len(queue') = Len(queue) + 1
         /\ queue' # << >>
         /\ queue'[Len(queue')] = [slaves |-> slaves, generation |-> generation]
         /\ \A k \in DOMAIN queue' :
              k = Len(queue') \/ (k \in DOMAIN queue /\ queue'[k] = queue[k])
<1>1. queue \in Seq(Events)
  BY DEF TypeOK
<1>2. [slaves |-> slaves, generation |-> generation] \in Events
  BY Bounds DEF dataCallback, Running, BoxesMatchSource, TypeOK, Events
<1>3. queue' = Append(queue, [slaves |-> slaves, generation |-> generation])
  BY DEF dataCallback
<1> QED
  BY <1>1, <1>2, <1>3

(* handleDataChanged takes the first event.                                *)
LEMMA Taken ==
  ASSUME TypeOK, handleDataChanged
  PROVE  /\ queue' \in Seq(Events) /\ Len(queue') = Len(queue) - 1
         /\ Len(queue) \in Nat \ {0} /\ Head(queue) = queue[1]
         /\ \A k \in DOMAIN queue' : k + 1 \in DOMAIN queue /\ queue'[k] = queue[k + 1]
<1>1. queue \in Seq(Events)
  BY DEF TypeOK
<1>2. queue # << >> /\ queue' = Tail(queue)
  BY DEF handleDataChanged
<1> QED
  BY <1>1, <1>2

(* The source, the event loop and the end keep the types: what is posted   *)
(* are the slaves of a discovery.                                          *)
LEMMA TypeData ==
  ASSUME TypeOK, BoxesMatchSource,
         Refresh \/ FileEnds \/ dataCallback \/ handleDataChanged \/ closeEvent
  PROVE  TypeOK'
<1> USE Bounds DEF TypeOK, buttonVars, boxVars, sourceVars, showVars, optionVars
<1>1. CASE Refresh
  <2>1. data' \in 0 .. MaxData
    BY <1>1 DEF Refresh
  <2> QED
    BY <1>1, <2>1 DEF Refresh
<1>2. CASE FileEnds
  BY <1>2 DEF FileEnds
<1>3. CASE dataCallback
  <2>1. queue' \in Seq(Events) /\ Len(queue') <= MaxQueue
    BY <1>3, Posted DEF dataCallback
  <2> QED
    BY <1>3, <2>1 DEF dataCallback
<1>4. CASE handleDataChanged
  <2>1. queue' \in Seq(Events) /\ Len(queue') <= MaxQueue
    BY <1>4, Taken
  <2>2. shown' \subseteq 0 .. MaxData
    BY <1>4 DEF handleDataChanged
  <2> QED
    BY <1>4, <2>1, <2>2 DEF handleDataChanged
<1>5. CASE closeEvent
  <2>1. << >> \in Seq(Events) /\ Len(<< >>) <= MaxQueue
    OBVIOUS
  <2> QED
    BY <1>5, <2>1 DEF closeEvent, Close, CallbackWhileDestroying, SourceDestroyed
<1> QED
  BY <1>1, <1>2, <1>3, <1>4, <1>5

(* No button can be pressed that would use a source that is not there or   *)
(* delete one that runs.                                                   *)
LEMMA ControlStep ==
  ASSUME IInv, [Next]_vars
  PROVE  (StopIsPressed /\ StartHasSource /\ RunsOnlyUnderStop)'
<1> USE DEF IInv, TypeOK, StopIsPressed, StartHasSource, RunsOnlyUnderStop,
            buttonVars, boxVars, sourceVars, showVars, optionVars, Click
<1>1. CASE \/ SelectInput \/ SelectInterface \/ SelectFile \/ handleZMQCheckBox
           \/ handleWheelListChanged \/ StartError \/ UNCHANGED vars
  BY <1>1 DEF SelectInput, SelectInterface, SelectFile, handleZMQCheckBox,
     handleWheelListChanged, StartError, vars
<1>2. CASE DiscoverError
  BY <1>2 DEF DiscoverError, Discover
<1>3. CASE DiscoverFound
  BY <1>3 DEF DiscoverFound, Discover
<1>4. CASE StartSource
  BY <1>4 DEF StartSource
<1>5. CASE Stop
  BY <1>5 DEF Stop
<1>6. CASE Stopped
  BY <1>6 DEF Stopped
<1>7. CASE Refresh
  BY <1>7 DEF Refresh, Running
<1>8. CASE FileEnds
  BY <1>8 DEF FileEnds, Running
<1>9. CASE dataCallback
  BY <1>9 DEF dataCallback, Running
<1>10. CASE handleDataChanged
  BY <1>10 DEF handleDataChanged
<1>11. CASE closeEvent
  BY <1>11 DEF closeEvent, Close, CallbackWhileDestroying, SourceDestroyed
<1> QED
  BY <1>1, <1>2, <1>3, <1>4, <1>5, <1>6, <1>7, <1>8, <1>9, <1>10, <1>11
  DEF Next, handleDiscoverButton, handleStart

(* The boxes are those of the source: a discovery makes both.              *)
LEMMA BoxesStep == ASSUME IInv, [Next]_vars PROVE BoxesMatchSource'
<1> USE DEF IInv, BoxesMatchSource, TypeOK, boxVars, sourceVars
<1>1. CASE \/ SelectInput \/ SelectInterface \/ SelectFile \/ handleZMQCheckBox
           \/ handleWheelListChanged \/ StartError \/ UNCHANGED vars
  BY <1>1 DEF SelectInput, SelectInterface, SelectFile, handleZMQCheckBox,
     handleWheelListChanged, StartError, vars
<1>2. CASE DiscoverError
  BY <1>2 DEF DiscoverError
<1>3. CASE DiscoverFound
  BY <1>3, Bounds DEF DiscoverFound, Discover, AddBoxes
<1>4. CASE StartSource
  BY <1>4 DEF StartSource, StartHasSource, Click
<1>5. CASE Stop \/ Stopped
  BY <1>5 DEF Stop, Stopped, StopIsPressed, StartHasSource
<1>6. CASE Refresh \/ FileEnds \/ dataCallback \/ handleDataChanged
  BY <1>6 DEF Refresh, FileEnds, dataCallback, handleDataChanged
<1>7. CASE closeEvent
  BY <1>7 DEF closeEvent, Close, CallbackWhileDestroying, SourceDestroyed
<1> QED
  BY <1>1, <1>2, <1>3, <1>4, <1>5, <1>6, <1>7 DEF Next, handleDiscoverButton, handleStart

(* The checkbox and the source change together, and a new source is told.  *)
LEMMA ZmqStep == ASSUME IInv, [Next]_vars PROVE ZmqMatchesCheckbox'
<1> USE DEF IInv, ZmqMatchesCheckbox, sourceVars
<1>1. CASE SelectInput \/ SelectInterface \/ SelectFile \/ handleWheelListChanged \/ StartError \/ UNCHANGED vars
  BY <1>1 DEF SelectInput, SelectInterface, SelectFile,
     handleWheelListChanged, StartError, vars
<1>2. CASE handleZMQCheckBox
  BY <1>2 DEF handleZMQCheckBox
<1>3. CASE DiscoverError
  BY <1>3 DEF DiscoverError
<1>4. CASE DiscoverFound
  BY <1>4 DEF DiscoverFound, Discover
<1>5. CASE StartSource
  BY <1>5 DEF StartSource, StartHasSource, Click
<1>6. CASE Stop \/ Stopped
  BY <1>6 DEF Stop, Stopped, StopIsPressed, StartHasSource
<1>7. CASE Refresh \/ FileEnds \/ dataCallback \/ handleDataChanged
  BY <1>7 DEF Refresh, FileEnds, dataCallback, handleDataChanged
<1>8. CASE closeEvent
  BY <1>8 DEF closeEvent, Close, CallbackWhileDestroying, SourceDestroyed
<1> QED
  BY <1>1, <1>2, <1>3, <1>4, <1>5, <1>6, <1>7, <1>8 DEF Next, handleDiscoverButton, handleStart

(* An event waits behind those of earlier callbacks, so that the last      *)
(* callback is shown when none is left.                                    *)
LEMMA PendingStep == ASSUME IInv, [Next]_vars PROVE CallbackPending'
<1> USE Bounds DEF IInv, CallbackPending, sourceVars, showVars
<1>1. CASE \/ SelectInput \/ SelectInterface \/ SelectFile \/ handleZMQCheckBox
           \/ handleWheelListChanged \/ StartError \/ UNCHANGED vars
  BY <1>1 DEF SelectInput, SelectInterface, SelectFile, handleZMQCheckBox,
     handleWheelListChanged, StartError, vars
<1>2. CASE handleDiscoverButton
  BY <1>2 DEF handleDiscoverButton, DiscoverError, DiscoverFound, Discover
<1>3. CASE StartSource
  BY <1>3 DEF StartSource
<1>4. CASE Stop \/ Stopped
  BY <1>4 DEF Stop, Stopped, Click
<1>5. CASE Refresh
  BY <1>5 DEF Refresh, TypeOK
<1>6. CASE FileEnds
  BY <1>6 DEF FileEnds
<1>7. CASE dataCallback
  <2>1. queue' # << >> /\ queue'[Len(queue')].generation = generation
    BY <1>7, Posted
  <2>2. called' = data /\ data' = data /\ generation' = generation /\ data <= data
    BY <1>7 DEF dataCallback, TypeOK
  <2> QED
    BY <2>1, <2>2
<1>8. CASE handleDataChanged
  <2>1. UNCHANGED <<called, data, generation>> /\ window = "open"
    BY <1>8 DEF handleDataChanged
  <2>2. SUFFICES ASSUME called > 0
                 PROVE  \/ \E v \in shown' : v >= called
                        \/ queue' # << >> /\ queue'[Len(queue')].generation = generation
    BY <2>1
  <2>3. CASE \E v \in shown : v >= called
    BY <1>8, <2>3 DEF handleDataChanged
  <2>4. CASE queue[Len(queue)].generation = generation
    <3>1. CASE Len(queue) = 1
      <4>1. shown' = shown \cup {data}
        BY <1>8, <2>4, <3>1, Taken DEF handleDataChanged
      <4>2. data >= called
        BY DEF TypeOK
      <4> QED
        BY <4>1, <4>2
    <3>2. CASE Len(queue) # 1
      <4>1. Len(queue') \in Nat \ {0} /\ Len(queue') \in DOMAIN queue' /\ queue' # << >>
        BY <1>8, <3>2, Taken
      <4>2. queue'[Len(queue')] = queue[Len(queue)]
        BY <1>8, <4>1, Taken
      <4> QED
        BY <2>4, <4>1, <4>2
    <3> QED
      BY <3>1, <3>2
  <2> QED
    BY <2>1, <2>2, <2>3, <2>4
<1>9. CASE closeEvent
  BY <1>9 DEF closeEvent, Close, CallbackWhileDestroying, SourceDestroyed
<1> QED
  BY <1>1, <1>2, <1>3, <1>4, <1>5, <1>6, <1>7, <1>8, <1>9 DEF Next, handleStart

(* Sources have numbers, and so have the events.                           *)
LEMMA EventNumbers ==
  ASSUME TypeOK
  PROVE  generation \in Nat /\ \A k \in DOMAIN queue : queue[k].generation \in Nat
<1>1. generation \in Nat
  BY Bounds DEF TypeOK
<1>2. queue \in Seq(Events)
  BY DEF TypeOK
<1>3. \A k \in DOMAIN queue : queue[k] \in Events
  BY <1>2
<1>4. ASSUME NEW e \in Events PROVE e.generation \in Nat
  BY Bounds DEF Events
<1> QED
  BY <1>1, <1>3, <1>4

(* The sources post one after the other, at the end of the queue, and a    *)
(* discovery makes all events that wait older than what comes after it.    *)
LEMMA OrderStep == ASSUME IInv, [Next]_vars PROVE EventsInOrder'
<1> DEFINE Live == window \in {"open", "stopping"}
<1>0. generation \in Nat /\ \A k \in DOMAIN queue : queue[k].generation \in Nat
  BY EventNumbers DEF IInv
<1>1. CASE \/ SelectInput \/ SelectInterface \/ SelectFile \/ handleZMQCheckBox
           \/ handleWheelListChanged \/ StartError \/ Refresh \/ FileEnds \/ UNCHANGED vars
  <2>1. UNCHANGED <<window, queue, generation, slaves, source, shown>>
    BY <1>1 DEF SelectInput, SelectInterface, SelectFile, handleZMQCheckBox,
       handleWheelListChanged, StartError, Refresh, FileEnds, vars, sourceVars, showVars
  <2> QED
    BY <2>1 DEF IInv, EventsInOrder
<1>2. CASE StartSource \/ Stop \/ Stopped
  <2>1. UNCHANGED <<queue, generation, slaves, shown>>
    BY <1>2 DEF StartSource, Stop, Stopped, sourceVars, showVars
  <2>2. Live /\ (source # "null" => source' # "null")
    BY <1>2 DEF StartSource, Stop, Stopped, sourceVars, Click
  <2> QED
    BY <2>1, <2>2 DEF IInv, EventsInOrder
<1>3. CASE handleDiscoverButton
  <2>1. /\ UNCHANGED <<window, queue>> /\ window = "open"
        /\ generation' = generation + 1 /\ shown' = {}
    BY <1>3 DEF handleDiscoverButton, DiscoverError, DiscoverFound, Discover, Click
  <2>2. ASSUME NEW k \in DOMAIN queue
        PROVE  queue[k].generation <= generation' /\ queue[k].generation # generation'
    <3>1. queue[k].generation <= generation
      BY <2>1 DEF IInv, EventsInOrder
    <3> QED
      BY <1>0, <2>1, <3>1
  <2>3. \A j, k \in DOMAIN queue : j < k => queue[j].generation <= queue[k].generation
    BY <2>1 DEF IInv, EventsInOrder
  <2> QED
    BY <2>1, <2>2, <2>3 DEF EventsInOrder
<1>4. CASE dataCallback
  <2>1. /\ UNCHANGED <<window, generation, slaves, source, shown>>
        /\ Live /\ source # "null"
    BY <1>4 DEF dataCallback, Running, sourceVars
  <2>2. /\ queue'[Len(queue')].generation = generation
        /\ queue'[Len(queue')].slaves = slaves
        /\ \A k \in DOMAIN queue' :
             k = Len(queue') \/ (k \in DOMAIN queue /\ queue'[k] = queue[k])
    BY <1>4, Posted DEF IInv
  <2>3. ASSUME NEW k \in DOMAIN queue'
        PROVE  /\ queue'[k].generation <= generation
               /\ queue'[k].generation = generation => queue'[k].slaves = slaves
               /\ shown # {} => queue'[k].generation = generation
    <3>1. generation <= generation
      BY <1>0
    <3> QED
      BY <2>1, <2>2, <2>3, <3>1 DEF IInv, EventsInOrder
  <2>4. ASSUME NEW j \in DOMAIN queue', NEW k \in DOMAIN queue', j < k
        PROVE  queue'[j].generation <= queue'[k].generation
    <3>1. CASE k = Len(queue')
      BY <2>2, <2>3, <3>1
    <3>2. CASE k # Len(queue')
      <4>1. DOMAIN queue' = 1 .. Len(queue') /\ Len(queue') \in Nat
        BY <1>4, Posted DEF IInv
      <4>2. j # Len(queue')
        BY <2>4, <3>2, <4>1
      <4> QED
        BY <2>1, <2>2, <2>4, <3>2, <4>2 DEF IInv, EventsInOrder
    <3> QED
      BY <3>1, <3>2
  <2> QED
    BY <2>1, <2>3, <2>4 DEF EventsInOrder
<1>5. CASE handleDataChanged
  <2>1. /\ UNCHANGED <<generation, slaves, source>> /\ window = "open"
        /\ shown' = IF Head(queue).generation = generation THEN shown \cup {data} ELSE shown
    BY <1>5 DEF handleDataChanged, sourceVars
  <2>2. /\ Head(queue) = queue[1] /\ 1 \in DOMAIN queue
        /\ DOMAIN queue' \subseteq Nat \ {0}
        /\ \A k \in DOMAIN queue' : k + 1 \in DOMAIN queue /\ queue'[k] = queue[k + 1]
    BY <1>5, Taken DEF IInv, TypeOK
  <2>3. ASSUME NEW k \in DOMAIN queue'
        PROVE  /\ queue'[k].generation <= generation
               /\ queue'[k].generation = generation => queue'[k].slaves = slaves /\ source # "null"
               /\ shown' # {} => queue'[k].generation = generation
    <3>1. k + 1 \in DOMAIN queue /\ queue'[k] = queue[k + 1] /\ 1 < k + 1
      BY <2>2, <2>3
    <3>2. /\ queue[k + 1].generation <= generation
          /\ queue[k + 1].generation = generation => queue[k + 1].slaves = slaves /\ source # "null"
          /\ shown # {} => queue[k + 1].generation = generation
          /\ queue[1].generation <= queue[k + 1].generation
      BY <2>1, <2>2, <3>1 DEF IInv, EventsInOrder
    <3>3. queue[1].generation = generation => queue[k + 1].generation = generation
      BY <1>0, <2>2, <3>1, <3>2
    <3> QED
      BY <2>1, <2>2, <3>1, <3>2, <3>3
  <2>4. ASSUME NEW j \in DOMAIN queue', NEW k \in DOMAIN queue', j < k
        PROVE  queue'[j].generation <= queue'[k].generation
    <3>1. j + 1 < k + 1
      BY <2>2, <2>4
    <3> QED
      BY <2>1, <2>2, <3>1 DEF IInv, EventsInOrder
  <2> QED
    BY <2>1, <2>3, <2>4 DEF EventsInOrder
<1>6. CASE closeEvent
  BY <1>6 DEF closeEvent, Close, CallbackWhileDestroying, SourceDestroyed, EventsInOrder
<1> QED
  BY <1>1, <1>2, <1>3, <1>4, <1>5, <1>6 DEF Next, handleStart

(* Every step keeps the invariant.                                         *)
LEMMA NextIInv == ASSUME IInv, [Next]_vars PROVE IInv'
<1>1. TypeOK'
  <2>1. CASE UNCHANGED vars
    BY <2>1 DEF IInv, TypeOK, vars, optionVars, buttonVars, boxVars, sourceVars, showVars
  <2> QED
    BY <2>1, TypeOptions, TypeButtons, TypeData DEF IInv, Next
<1> QED
  BY <1>1, ControlStep, BoxesStep, ZmqStep, PendingStep, OrderStep DEF IInv

(* Buttons, boxes, source and queue fit together.                          *)
THEOREM Invariant == Spec => []IInv
<1>1. IInv /\ [Next]_vars => IInv'
  BY NextIInv
<1> QED
  BY <1>1, InitIInv, PTL DEF Spec

(* All variables of the window keep their types.                           *)
THEOREM TypeCorrect == Spec => []TypeOK
<1>1. IInv => TypeOK
  BY DEF IInv
<1> QED
  BY <1>1, Invariant, PTL

(* The Start button of GUI is enabled only when there is a source: neither *)
(* handleStart nor stop uses a null pointer.                               *)
THEOREM ButtonsHaveSource == Spec => []StartHasSource
<1>1. IInv => StartHasSource
  BY DEF IInv
<1> QED
  BY <1>1, Invariant, PTL

(* handleDiscoverButton never deletes a source that runs.                  *)
THEOREM NoDiscoveryWhileRunning == Spec => []RunsOnlyUnderStop
<1>1. IInv => RunsOnlyUnderStop
  BY DEF IInv
<1> QED
  BY <1>1, Invariant, PTL

(* The source publishes as the checkbox of the window says.                *)
THEOREM PublishesAsChecked == Spec => []ZmqMatchesCheckbox
<1>1. IInv => ZmqMatchesCheckbox
  BY DEF IInv
<1> QED
  BY <1>1, Invariant, PTL

(* handleDataChanged has shown the data of the last callback, or newer     *)
(* data, when it has taken the last event.                                 *)
THEOREM NoCallbackForgotten == Spec => []LastCallbackShown
<1>1. IInv => LastCallbackShown
  BY DEF IInv, CallbackPending, LastCallbackShown
<1> QED
  BY <1>1, Invariant, PTL

(* An event that handleDataChanged has no box or no value for is late: its *)
(* source was replaced, and nothing of the new one was shown so far.       *)
THEOREM MisfitsComeFirst == Spec => []MisfitsAreLate
<1>1. IInv => MisfitsAreLate
  <2> SUFFICES ASSUME IInv, window \in {"open", "stopping"}, NEW k \in DOMAIN queue
               PROVE  \/ Fits(queue[k].slaves, wheel_group_boxes)
                      \/ queue[k].generation < generation /\ shown = {}
    BY DEF MisfitsAreLate
  <2>1. CASE queue[k].generation = generation
    <3>1. queue[k].slaves = slaves /\ source # "null"
      BY <2>1 DEF IInv, EventsInOrder
    <3>2. wheel_group_boxes = slaves /\ slaves \in Seq(Nat)
      BY <3>1, SlavesAssumption DEF IInv, BoxesMatchSource
    <3> QED
      BY <3>1, <3>2 DEF Fits
  <2>2. CASE queue[k].generation # generation
    <3>1. queue[k].generation \in Nat /\ generation \in Nat
      BY EventNumbers DEF IInv
    <3>2. queue[k].generation <= generation /\ shown = {}
      BY <2>2 DEF IInv, EventsInOrder
    <3> QED
      BY <2>2, <3>1, <3>2
  <2> QED
    BY <2>1, <2>2
<1> QED
  BY <1>1, Invariant, PTL
=============================================================================
