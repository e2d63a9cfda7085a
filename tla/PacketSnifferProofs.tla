------------------------ MODULE PacketSnifferProofs -------------------------
(***************************************************************************)
(* Proofs about PacketSniffer, for every capture, every set of config files*)
(* and every number of slaves.                                             *)
(***************************************************************************)
EXTENDS PacketSniffer, TLAPS

(* A source without slaves holds nothing, and a new one delivered nothing. *)
LEMMA NoDataFacts == /\ DOMAIN NoData = {} /\ NoData \in [{} -> FrameNumbers]
                     /\ << >> \in Seq(FrameNumbers)
<1>1. DOMAIN NoData = {} /\ NoData \in [{} -> FrameNumbers]
  BY DEF NoData
<1>2. << >> \in Seq(FrameNumbers)
  OBVIOUS
<1>. QED
  BY <1>1, <1>2

(* The length of a capture is a number, and its frames are numbered.       *)
LEMMA CaptureFacts == /\ Len(Capture) \in Nat
                      /\ DOMAIN Capture = 1 .. Len(Capture)
BY CaptureAssumption

(* A config file lists at most MaxSlaves slaves.                           *)
LEMMA ConfigFacts ==
  ASSUME NEW config \in ConfigFiles
  PROVE  DOMAIN config.names \in SUBSET (1 .. MaxSlaves)
<1>1. /\ config.names \in Seq(STRING)
      /\ Len(config.names) <= MaxSlaves
      /\ MaxSlaves \in Nat
  BY ConfigAssumption DEF Config
<1>. QED
  BY <1>1

(* The next frame is a later one, and one of the capture.                  *)
LEMMA NextFrameFacts ==
  ASSUME pos \in FrameNumbers, NEW n \in DOMAIN Capture, NextFrame(n)
  PROVE  /\ n \in FrameNumbers /\ n > pos
         /\ pos' = n /\ break_loop' = break_loop
BY CaptureFacts DEF NextFrame, FrameNumbers

(* The initial state satisfies the invariant.                              *)
LEMMA InvInit == Init => IInv
<1>. SUFFICES ASSUME Init PROVE IInv
  OBVIOUS
<1>1. 0 \in FrameNumbers
  BY CaptureFacts DEF FrameNumbers
<1>2. TypeOK
  BY <1>1, NoDataFacts DEF Init, TypeOK
<1>. QED
  BY <1>2 DEF Init, IInv, ThreadMatchesUI, DataWhole, CallbackHasFrame

(* The UI thread keeps the invariant: it makes and drops the slaves only   *)
(* when the sniffing thread does not exist.                                *)
LEMMA InvUI ==
  ASSUME IInv,
         \/ DiscoverError \/ DiscoverAborts \/ getSlaves \/ setZMQPublish
         \/ start \/ stop \/ delete \/ JoinSnifferThread
  PROVE  IInv'
<1>. USE DEF uiVars, dataVars, IInv, ThreadMatchesUI, DataWhole, CallbackHasFrame
<1>1. CASE DiscoverError \/ DiscoverAborts
  BY <1>1 DEF DiscoverError, DiscoverAborts, vars, TypeOK
<1>2. CASE getSlaves
  <2>1. PICK config \in ConfigFiles :
          /\ slaves' = DOMAIN config.names
          /\ data' = [s \in DOMAIN config.names |-> 0]
    BY <1>2 DEF getSlaves
  <2>2. slaves' \in SUBSET (1 .. MaxSlaves)
    BY <2>1, ConfigFacts
  <2>3. 0 \in FrameNumbers
    BY CaptureFacts DEF FrameNumbers
  <2>4. data' \in [slaves' -> FrameNumbers]
    BY <2>1, <2>3
  <2>5. TypeOK'
    BY <1>2, <2>2, <2>3, <2>4, NoDataFacts DEF getSlaves, TypeOK
  <2>6. \A s \in slaves' : data'[s] = 0
    BY <2>1
  <2>. QED
    BY <1>2, <2>5, <2>6 DEF getSlaves
<1>3. CASE setZMQPublish \/ start \/ stop
  BY <1>3 DEF setZMQPublish, start, stop, TypeOK
<1>4. CASE delete
  BY <1>4, NoDataFacts DEF delete, DeleteIdle, DeleteThread, Dropped, TypeOK
<1>5. CASE JoinSnifferThread
  BY <1>5, NoDataFacts DEF JoinSnifferThread, Dropped, TypeOK
<1>. QED
  BY <1>1, <1>2, <1>3, <1>4, <1>5

(* The sniffing thread keeps the invariant: it copies one frame to all     *)
(* slaves before it calls the UI or publishes.                             *)
LEMMA InvSniffer == ASSUME IInv, startSnifferLoop PROVE IInv'
<1>. USE DEF uiVars, dataVars, IInv, ThreadMatchesUI, DataWhole,
             CallbackHasFrame, SnifferGoto
<1>1. CASE BreakLoop \/ EndOfFile
  BY <1>1 DEF BreakLoop, EndOfFile, TypeOK
<1>2. CASE IgnorePacket
  <2>1. PICK n \in DOMAIN Capture : NextFrame(n)
    BY <1>2 DEF IgnorePacket
  <2>2. pos' \in FrameNumbers /\ pos' > pos /\ break_loop' = break_loop
    BY <2>1, NextFrameFacts DEF TypeOK
  <2>3. TypeOK'
    BY <1>2, <2>2 DEF IgnorePacket, TypeOK
  <2>4. \A s \in slaves : data[s] <= pos'
    BY <2>2, CaptureFacts DEF TypeOK, FrameNumbers
  <2>. QED
    BY <1>2, <2>3, <2>4 DEF IgnorePacket
<1>3. CASE CopyPacket
  <2>1. PICK n \in DOMAIN Capture : NextFrame(n) /\ data' = [s \in slaves |-> n]
    BY <1>3 DEF CopyPacket
  <2>2. pos' = n /\ n \in FrameNumbers /\ break_loop' = break_loop
    BY <2>1, NextFrameFacts DEF TypeOK
  <2>3. TypeOK'
    BY <1>3, <2>1, <2>2 DEF CopyPacket, TypeOK
  <2>4. n <= n
    BY <2>2, CaptureFacts DEF FrameNumbers
  <2>. QED
    BY <1>3, <2>1, <2>2, <2>3, <2>4 DEF CopyPacket
<1>4. CASE Callback
  BY <1>4 DEF Callback, TypeOK
<1>5. CASE publishMsg
  BY <1>5 DEF publishMsg, TypeOK
<1>. QED
  BY <1>1, <1>2, <1>3, <1>4, <1>5 DEF startSnifferLoop, packetCallback

(* The inductive invariant holds throughout.                               *)
THEOREM Invariant == Spec => []IInv
<1>1. IInv /\ [Next]_vars => IInv'
  <2>. SUFFICES ASSUME IInv, [Next]_vars PROVE IInv'
    OBVIOUS
  <2>1. CASE UNCHANGED vars
    BY <2>1 DEF vars, uiVars, dataVars, IInv, TypeOK, ThreadMatchesUI, DataWhole,
       CallbackHasFrame
  <2>. QED
    BY <2>1, InvUI, InvSniffer DEF Next
<1>. QED
  BY <1>1, InvInit, PTL DEF Spec

(* Type correctness of the sniffer.                                        *)
THEOREM TypeCorrect == Spec => []TypeOK
<1>1. IInv => TypeOK
  BY DEF IInv
<1>. QED
  BY <1>1, Invariant, PTL

(* stop and the destructor leave no sniffing thread behind, so that start  *)
(* never replaces a joinable thread.                                       *)
THEOREM ThreadIsJoined == Spec => []NoThreadLeftBehind
<1>1. IInv => NoThreadLeftBehind
  BY DEF IInv, ThreadMatchesUI, NoThreadLeftBehind
<1>. QED
  BY <1>1, Invariant, PTL

(***************************************************************************)
(* What is delivered of a file.                                            *)
(***************************************************************************)

(* packetCallback has a frame that passed its filters when it calls the UI.*)
LEMMA RelevantStep ==
  ASSUME IInv, CallbackIsRelevant, [Next]_vars
  PROVE  CallbackIsRelevant'
<1>. USE DEF CallbackIsRelevant, IInv, ThreadMatchesUI
<1>1. CASE \/ DiscoverError \/ DiscoverAborts \/ getSlaves \/ setZMQPublish
           \/ start \/ stop \/ delete \/ JoinSnifferThread \/ UNCHANGED vars
  BY <1>1 DEF DiscoverError, DiscoverAborts, getSlaves, setZMQPublish, start, stop,
     delete, DeleteIdle, DeleteThread, JoinSnifferThread, vars
<1>2. CASE CopyPacket
  BY <1>2 DEF CopyPacket, NextFrame
<1>3. CASE BreakLoop \/ EndOfFile \/ IgnorePacket \/ Callback \/ publishMsg
  BY <1>3 DEF BreakLoop, EndOfFile, IgnorePacket, Callback, publishMsg, SnifferGoto
<1>. QED
  BY <1>1, <1>2, <1>3 DEF Next, startSnifferLoop, packetCallback

(* A frame is passed over, or read and then appended to what was delivered,*)
(* in steps of one.                                                        *)
LEMMA FileStep ==
  ASSUME IInv, CallbackIsRelevant, AllOfTheFile, [Next]_vars
  PROVE  AllOfTheFile'
<1>. DEFINE Played == ui \notin {"none", "aborted"} /\ is_pcap_file
<1>. SUFFICES ASSUME Played'
              PROVE  /\ \A j, k \in DOMAIN delivered' : j < k => delivered'[j] < delivered'[k]
                     /\ {delivered'[k] : k \in DOMAIN delivered'} =
                          {n \in 1 .. pos' : Relevant(Capture[n]) /\ (n = pos' => sniffer_thread' # "callback")}
  BY DEF AllOfTheFile
<1>1. CASE getSlaves
  <2>1. delivered' = << >> /\ pos' = 0
    BY <1>1 DEF getSlaves
  <2>. QED
    BY <2>1
<1>2. CASE delivered' = delivered /\ pos' = pos /\ Played
           /\ (sniffer_thread' = "callback" <=> sniffer_thread = "callback")
  BY <1>2 DEF AllOfTheFile
<1>3. CASE \/ DiscoverError \/ DiscoverAborts \/ setZMQPublish
           \/ start \/ stop \/ delete \/ JoinSnifferThread \/ UNCHANGED vars
           \/ BreakLoop \/ EndOfFile \/ publishMsg
  <2>1. delivered' = delivered /\ pos' = pos /\ Played
    BY <1>3 DEF DiscoverError, DiscoverAborts, setZMQPublish, start, stop, delete,
       DeleteIdle, DeleteThread, Dropped, JoinSnifferThread, vars, uiVars, dataVars,
       BreakLoop, EndOfFile, publishMsg, SnifferGoto
  <2>2. sniffer_thread' = "callback" <=> sniffer_thread = "callback"
    BY <1>3 DEF DiscoverError, DiscoverAborts, setZMQPublish, start, stop, delete,
       DeleteIdle, DeleteThread, JoinSnifferThread, vars,
       BreakLoop, EndOfFile, publishMsg, SnifferGoto, IInv, ThreadMatchesUI
  <2>. QED
    BY <1>2, <2>1, <2>2
<1>4. CASE IgnorePacket \/ CopyPacket
  <2>1. /\ delivered' = delivered /\ Played
        /\ sniffer_thread = "next" /\ sniffer_thread' \in {"next", "callback"}
    BY <1>4 DEF IgnorePacket, CopyPacket, SnifferGoto, dataVars, uiVars
  <2>2. pos' = pos + 1 /\ (Relevant(Capture[pos']) <=> sniffer_thread' = "callback")
    BY <1>4, <2>1 DEF IgnorePacket, CopyPacket, NextFrame, SnifferGoto, uiVars
  <2>3. pos \in Nat
    BY CaptureFacts DEF IInv, TypeOK, FrameNumbers
  <2>4. {n \in 1 .. pos' : Relevant(Capture[n]) /\ (n = pos' => sniffer_thread' # "callback")}
          = {n \in 1 .. pos : Relevant(Capture[n]) /\ (n = pos => sniffer_thread # "callback")}
    BY <2>1, <2>2, <2>3
  <2>. QED
    BY <2>1, <2>4 DEF AllOfTheFile
<1>5. CASE Callback
  <2>1. /\ delivered' = Append(delivered, pos) /\ pos' = pos /\ Played
        /\ sniffer_thread = "callback" /\ sniffer_thread' # "callback"
    BY <1>5 DEF Callback, SnifferGoto, uiVars
  <2>2. pos \in DOMAIN Capture /\ Relevant(Capture[pos]) /\ pos \in Nat /\ pos \in 1 .. pos
    BY <2>1, CaptureFacts DEF CallbackIsRelevant
  <2>3. delivered \in Seq(Nat)
    BY CaptureFacts DEF IInv, TypeOK, FrameNumbers
  <2>4. /\ Len(delivered) \in Nat /\ DOMAIN delivered = 1 .. Len(delivered)
        /\ DOMAIN delivered' = 1 .. Len(delivered) + 1
        /\ delivered'[Len(delivered) + 1] = pos
        /\ \A k \in 1 .. Len(delivered) : delivered'[k] = delivered[k]
    BY <2>1, <2>2, <2>3
  <2>5. {delivered[k] : k \in DOMAIN delivered} =
          {n \in 1 .. pos : Relevant(Capture[n]) /\ n # pos}
    BY <2>1 DEF AllOfTheFile
  <2>6. \A k \in DOMAIN delivered : delivered[k] < pos
    BY <2>2, <2>5
  <2>7. \A j, k \in DOMAIN delivered' : j < k => delivered'[j] < delivered'[k]
    BY <2>1, <2>4, <2>6 DEF AllOfTheFile
  <2>8. {delivered'[k] : k \in DOMAIN delivered'} = {delivered[k] : k \in DOMAIN delivered} \cup {pos}
    BY <2>4
  <2>. QED
    BY <2>1, <2>2, <2>5, <2>7, <2>8
<1>. QED
  BY <1>1, <1>3, <1>4, <1>5 DEF Next, startSnifferLoop, packetCallback

(* Every capture that is a file is handed to the UI as it is: each frame   *)
(* with process data once and in order, over any stops and restarts.       *)
THEOREM FileIsDelivered == Spec => []AllOfTheFile
<1>1. Init => CallbackIsRelevant /\ AllOfTheFile
  BY DEF Init, CallbackIsRelevant, AllOfTheFile
<1>2. IInv /\ CallbackIsRelevant /\ AllOfTheFile /\ [Next]_vars
        => CallbackIsRelevant' /\ AllOfTheFile'
  BY RelevantStep, FileStep
<1>. QED
  BY <1>1, <1>2, Invariant, PTL DEF Spec

(***************************************************************************)
(* How the thread comes to its end. Liveness itself is left to the model   *)
(* checker; what is proved is that the steps are bounded, that one of them *)
(* is always possible, and that a file does not end too early.             *)
(***************************************************************************)

(* The steps that are left to a thread that reads no further frame, the    *)
(* join included.                                                          *)
StepsLeft == CASE sniffer_thread = "callback" -> 4
               [] sniffer_thread = "publish"  -> 3
               [] sniffer_thread = "next"     -> 2
               [] sniffer_thread = "done"     -> 1
               [] sniffer_thread = "none"     -> 0

(* While stop waits, its thread has a step to take: the flag is still set  *)
(* for it when it comes to the next frame.                                 *)
StopHasAStep ==
  ui = "stopping" => \/ sniffer_thread \in {"callback", "publish", "done"}
                     \/ sniffer_thread = "next" /\ break_loop

(* Every step that is taken while stop waits brings it closer to its end,  *)
(* and none of them reads a frame.                                         *)
StopComesCloser == [][ui = "stopping" => StepsLeft' < StepsLeft /\ UNCHANGED pos]_vars

(* A thread that ends by itself has read all of its file: the flag that an *)
(* earlier stop may have left behind can end only a file that was read.    *)
EndsAtTheEnd ==
  is_pcap_file /\ ui \in {"started", "deleting"} /\ sniffer_thread = "done" =>
    pos = Len(Capture)

(* The flag of a stop stays set until the thread has ended, and a flag     *)
(* that is left behind was set when the file was at its end.               *)
FlagInTime ==
  /\ ui = "stopping" => break_loop \/ sniffer_thread = "done"
  /\ is_pcap_file /\ break_loop => \/ ui \in {"none", "aborted"} \/ pos = Len(Capture)
                                   \/ ui = "stopping" /\ sniffer_thread # "done"

(* Every step of the thread brings a file closer to its end.               *)
FileLeft == 4 * (Len(Capture) - pos) + StepsLeft
FileComesCloser ==
  [][is_pcap_file /\ ui \in {"started", "stopping", "deleting"}
     /\ ~UNCHANGED <<sniffer_thread, pos>> => FileLeft' < FileLeft]_vars

(* The thread finds the flag when it is meant for it.                      *)
LEMMA FlagStep ==
  ASSUME IInv, FlagInTime, EndsAtTheEnd, [Next]_vars
  PROVE  FlagInTime' /\ EndsAtTheEnd'
<1>. USE DEF FlagInTime, EndsAtTheEnd, IInv, ThreadMatchesUI, uiVars
<1>1. CASE DiscoverError \/ DiscoverAborts \/ getSlaves \/ setZMQPublish \/ UNCHANGED vars
  BY <1>1 DEF DiscoverError, DiscoverAborts, getSlaves, setZMQPublish, vars
<1>2. CASE start \/ delete
  BY <1>2 DEF start, delete, DeleteIdle, DeleteThread, Dropped
<1>3. CASE stop
  BY <1>3 DEF stop, TypeOK
<1>4. CASE JoinSnifferThread
  BY <1>4 DEF JoinSnifferThread, Dropped
<1>5. CASE BreakLoop \/ EndOfFile
  BY <1>5 DEF BreakLoop, EndOfFile, SnifferGoto
<1>6. CASE IgnorePacket \/ CopyPacket
  BY <1>6 DEF IgnorePacket, CopyPacket, NextFrame, SnifferGoto
<1>7. CASE Callback \/ publishMsg
  BY <1>7 DEF Callback, publishMsg, SnifferGoto
<1>. QED
  BY <1>1, <1>2, <1>3, <1>4, <1>5, <1>6, <1>7 DEF Next, startSnifferLoop, packetCallback

(* What the flag means holds throughout.                                   *)
LEMMA FlagHolds == Spec => [](FlagInTime /\ EndsAtTheEnd)
<1>1. Init => FlagInTime /\ EndsAtTheEnd
  BY DEF Init, FlagInTime, EndsAtTheEnd
<1>2. IInv /\ (FlagInTime /\ EndsAtTheEnd) /\ [Next]_vars => (FlagInTime /\ EndsAtTheEnd)'
  BY FlagStep
<1>. QED
  BY <1>1, <1>2, Invariant, PTL DEF Spec

(* stop never waits for a frame, and returns after at most four steps, the *)
(* join included.                                                          *)
THEOREM StopIsBounded == Spec => []StopHasAStep /\ StopComesCloser
<1>1. IInv /\ FlagInTime => StopHasAStep
  BY DEF IInv, TypeOK, ThreadMatchesUI, FlagInTime, StopHasAStep
<1>2. ASSUME IInv, StopHasAStep, [Next]_vars
      PROVE  [ui = "stopping" => StepsLeft' < StepsLeft /\ UNCHANGED pos]_vars
  <2>. SUFFICES ASSUME Next, ui = "stopping"
                PROVE  StepsLeft' < StepsLeft /\ UNCHANGED pos
    BY <1>2
  <2>1. JoinSnifferThread \/ startSnifferLoop
    BY DEF Next, DiscoverError, DiscoverAborts, getSlaves, setZMQPublish, start, stop,
       delete, DeleteIdle, DeleteThread
  <2>2. CASE JoinSnifferThread
    BY <2>2 DEF JoinSnifferThread, StepsLeft
  <2>3. CASE BreakLoop \/ EndOfFile \/ Callback \/ publishMsg
    BY <2>3 DEF BreakLoop, EndOfFile, Callback, publishMsg, SnifferGoto, StepsLeft
  <2>4. CASE IgnorePacket \/ CopyPacket
    BY <1>2, <2>4 DEF IgnorePacket, CopyPacket, NextFrame, SnifferGoto, StopHasAStep
  <2>. QED
    BY <2>1, <2>2, <2>3, <2>4 DEF startSnifferLoop, packetCallback
<1>. QED
  BY <1>1, <1>2, FlagHolds, Invariant, PTL DEF Spec, StopComesCloser

(* A file that is played without a stop is played to its end, in a bounded *)
(* number of steps, whatever flag an earlier stop has left.                *)
THEOREM FileIsPlayed == Spec => []EndsAtTheEnd /\ FileComesCloser
<1>1. ASSUME IInv, [Next]_vars
      PROVE  [is_pcap_file /\ ui \in {"started", "stopping", "deleting"}
              /\ ~UNCHANGED <<sniffer_thread, pos>> => FileLeft' < FileLeft]_vars
  <2>. SUFFICES ASSUME Next, is_pcap_file, ui \in {"started", "stopping", "deleting"},
                       ~UNCHANGED <<sniffer_thread, pos>>
                PROVE  FileLeft' < FileLeft
    BY <1>1
  <2>0. Len(Capture) \in Nat /\ pos \in 0 .. Len(Capture)
    BY <1>1, CaptureFacts DEF IInv, TypeOK, FrameNumbers
  <2>1. JoinSnifferThread \/ startSnifferLoop
    BY DEF Next, DiscoverError, DiscoverAborts, getSlaves, setZMQPublish, start, stop,
       delete, DeleteIdle, DeleteThread
  <2>2. CASE JoinSnifferThread
    BY <2>0, <2>2 DEF JoinSnifferThread, StepsLeft, FileLeft
  <2>3. CASE BreakLoop \/ EndOfFile \/ Callback \/ publishMsg
    BY <2>0, <2>3 DEF BreakLoop, EndOfFile, Callback, publishMsg, SnifferGoto, StepsLeft, FileLeft
  <2>4. CASE IgnorePacket \/ CopyPacket
    BY <2>0, <2>4 DEF IgnorePacket, CopyPacket, NextFrame, SnifferGoto, StepsLeft, FileLeft
  <2>. QED
    BY <2>1, <2>2, <2>3, <2>4 DEF startSnifferLoop, packetCallback
<1>. QED
  BY <1>1, FlagHolds, Invariant, PTL DEF Spec, FileComesCloser

(***************************************************************************)
(* The refinement of DataSource.                                           *)
(***************************************************************************)

(* The cell is what any of the slaves holds.                               *)
LEMMA CellIsShared == IInv => \A s \in slaves : Cell = data[s]
<1>. SUFFICES ASSUME IInv, NEW s \in slaves PROVE Cell = data[s]
  OBVIOUS
<1>1. (CHOOSE t \in slaves : TRUE) \in slaves
  OBVIOUS
<1>. QED
  BY <1>1 DEF Cell, IInv, DataWhole

(* The initial state is the initial state of the abstract source.          *)
LEMMA SourceInit == Init => Source!Init
BY DEF Init, Source!Init, Source!Nothing, Phase, Cell, NoData

(* The calls of the UI thread are steps of the abstract source.            *)
LEMMA SourceUI ==
  ASSUME IInv,
         \/ DiscoverError \/ DiscoverAborts \/ getSlaves \/ setZMQPublish
         \/ start \/ stop \/ delete \/ JoinSnifferThread
  PROVE  [Source!Next]_(Source!vars)
<1>. USE DEF uiVars, dataVars, Phase, Source!vars
<1>1. CASE DiscoverError \/ DiscoverAborts \/ setZMQPublish \/ stop \/ DeleteThread
  <2>1. UNCHANGED <<slaves, data, published, Phase>>
    BY <1>1 DEF DiscoverError, DiscoverAborts, setZMQPublish, stop, DeleteThread, vars
  <2>. QED
    BY <2>1 DEF Cell
<1>2. CASE getSlaves
  <2>1. PICK config \in ConfigFiles :
          /\ slaves' = DOMAIN config.names
          /\ data' = [s \in DOMAIN config.names |-> 0]
    BY <1>2 DEF getSlaves
  <2>2. Cell' = 0
    <3>1. slaves' # {} => (CHOOSE t \in slaves' : TRUE) \in slaves'
      OBVIOUS
    <3>2. \A t \in slaves' : data'[t] = 0
      BY <2>1
    <3>. QED
      BY <3>1, <3>2 DEF Cell
  <2>3. slaves' \in SUBSET (1 .. MaxSlaves)
    BY <2>1, ConfigFacts
  <2>4. Source!Discover
    BY <1>2, <2>2, <2>3 DEF getSlaves, Source!Discover, Source!Nothing, NoData
  <2>. QED
    BY <2>4 DEF Source!Next
<1>3. CASE start
  <2>1. Source!Start
    BY <1>3 DEF start, Source!Start, Cell, IInv, ThreadMatchesUI
  <2>. QED
    BY <2>1 DEF Source!Next
<1>4. ASSUME ui \in {"ready", "deleting"}, Dropped
      PROVE  Source!Next
  <2>1. Source!Delete
    BY <1>4 DEF Dropped, Source!Delete, Source!Nothing, NoData, Cell
  <2>. QED
    BY <2>1 DEF Source!Next
<1>5. CASE DeleteIdle
  BY <1>5, <1>4 DEF DeleteIdle
<1>6. CASE JoinSnifferThread
  <2>1. CASE ui = "stopping" /\ ui' = "ready" /\ UNCHANGED <<slaves, dataVars>>
    <3>1. Source!Stop
      BY <2>1 DEF Source!Stop, Cell
    <3>. QED
      BY <3>1 DEF Source!Next
  <2>. QED
    BY <1>6, <1>4, <2>1 DEF JoinSnifferThread
<1>. QED
  BY <1>1, <1>2, <1>3, <1>5, <1>6 DEF delete

(* The frames that the thread processes refresh the cell.                  *)
LEMMA SourceSniffer ==
  ASSUME IInv, startSnifferLoop
  PROVE  [Source!Next]_(Source!vars)
<1>. USE DEF uiVars, dataVars, Phase, Source!vars, SnifferGoto
<1>1. CASE BreakLoop \/ EndOfFile \/ IgnorePacket \/ Callback
  <2>1. UNCHANGED <<ui, slaves, data, published>>
    BY <1>1 DEF BreakLoop, EndOfFile, IgnorePacket, Callback
  <2>. QED
    BY <2>1 DEF Cell
<1>2. CASE CopyPacket
  <2>1. PICK n \in DOMAIN Capture : NextFrame(n) /\ data' = [s \in slaves |-> n]
    BY <1>2 DEF CopyPacket
  <2>2. n \in Nat /\ n > pos /\ pos \in Nat
    BY <2>1, NextFrameFacts, CaptureFacts DEF IInv, TypeOK, FrameNumbers
  <2>3. UNCHANGED <<ui, slaves, published>> /\ Phase = "active"
    BY <1>2 DEF CopyPacket, IInv, ThreadMatchesUI, TypeOK
  <2>4. CASE slaves = {}
    BY <2>3, <2>4 DEF Cell
  <2>5. CASE slaves # {}
    <3>1. PICK s \in slaves : TRUE
      BY <2>5
    <3>2. Cell = data[s] /\ data[s] <= pos /\ data[s] \in Nat
      BY <3>1, CellIsShared, CaptureFacts DEF IInv, DataWhole, TypeOK, FrameNumbers
    <3>3. Cell' = n
      <4>1. (CHOOSE t \in slaves' : TRUE) \in slaves'
        BY <2>3, <2>5
      <4>. QED
        BY <2>1, <2>3, <2>5, <4>1 DEF Cell
    <3>4. Source!Refresh
      BY <2>2, <2>3, <3>2, <3>3 DEF Source!Refresh
    <3>. QED
      BY <3>4 DEF Source!Next
  <2>. QED
    BY <2>4, <2>5
<1>3. CASE publishMsg
  <2>1. data = [s \in slaves |-> Cell]
    BY CellIsShared DEF IInv, TypeOK
  <2>2. UNCHANGED <<ui, slaves, data>> /\ Phase = "active" /\ published' = data
    BY <1>3 DEF publishMsg, IInv, ThreadMatchesUI, TypeOK
  <2>3. Source!Publish
    BY <2>1, <2>2 DEF Source!Publish, Cell
  <2>. QED
    BY <2>3 DEF Source!Next
<1>. QED
  BY <1>1, <1>2, <1>3 DEF startSnifferLoop, packetCallback

(* The packet sniffer implements the abstract data source.                 *)
THEOREM SnifferIsDataSource == Spec => ImplementsDataSource
<1>1. IInv /\ [Next]_vars => [Source!Next]_(Source!vars)
  <2>. SUFFICES ASSUME IInv, [Next]_vars
                PROVE  [Source!Next]_(Source!vars)
    OBVIOUS
  <2>1. CASE UNCHANGED vars
    BY <2>1 DEF vars, uiVars, dataVars, Source!vars, Phase, Cell
  <2>. QED
    BY <2>1, SourceUI, SourceSniffer DEF Next
<1>. QED
  BY <1>1, SourceInit, Invariant, PTL DEF Spec, ImplementsDataSource, Source!Spec
=============================================================================
