--------------------------- MODULE PacketSniffer ----------------------------
(***************************************************************************)
(* The packet sniffer data source, for a network interface and for a PCAP  *)
(* file: the UI thread that creates, configures, starts, stops and deletes *)
(* it, and the thread in libtins' sniff_loop that calls packetCallback.    *)
(*                                                                         *)
(* Frames are abstracted to their number in Capture; a slave object whose  *)
(* rx and tx were copied from frame n has data[i] = n, and 0 means that    *)
(* nothing was copied to it. Only the sniffing thread touches the slaves   *)
(* in this module, so that one loop over them is one step.                 *)
(*                                                                         *)
(* libtins and libpcap are external: they appear as the position in the    *)
(* capture and the break flag that stop_sniff sets.                        *)
(***************************************************************************)
EXTENDS SlaveTypes, Sequences, FiniteSets

CONSTANTS
  Capture,     \* the EtherCAT frames of the file, or on the wire
  ConfigFiles, \* the config files that the user may select
  MaxSlaves    \* bound: slaves in a config file

(* A frame: "src" is the source address (only a slave changes it), "cmd"   *)
(* the command of the datagram, "wkcnt" its working counter. A config file *)
(* cannot be opened, is not JSON, is an empty JSON value, or lists slaves. *)
Frames == [src : {"master", "slaves"}, cmd : {"LRW", "other"}, wkcnt : Nat]
Config == [kind : {"unreadable", "malformed", "empty", "json"}, names : Seq(STRING)]

ASSUME CaptureAssumption == Capture \in Seq(Frames)
ASSUME ConfigAssumption  == /\ MaxSlaves \in Nat
                            /\ ConfigFiles \subseteq Config
                            /\ \A c \in ConfigFiles : Len(c.names) <= MaxSlaves

VARIABLES
  ui,                  \* what the UI thread does with the source
  is_pcap_file,        \* FileSniffer or Sniffer
  slaves,              \* positions of the slaves in the vector "slaves"
  data,                \* slave -> frame its rx and tx were copied from
  zmq_publish_enabled,
  sniffer_thread,      \* control point of sniff_loop, "none" = not joinable
  break_loop,          \* the flag set by stop_sniff
  pos,                 \* frames of Capture that were read or missed
  delivered,           \* the frames that were handed to the UI, in order
  published            \* the last message of this source

uiVars   == <<ui, is_pcap_file, slaves, zmq_publish_enabled>>
dataVars == <<data, delivered, published>>
vars     == <<uiVars, dataVars, sniffer_thread, break_loop, pos>>

NoData == [s \in {} |-> 0]

(***************************************************************************)
(* The UI thread: constructor, setConfigFile and getSlaves in the order in *)
(* which both UIs call them, then start and stop, and the destructor.      *)
(***************************************************************************)

Known(config) == \A i \in DOMAIN config.names : getSlaveType(config.names[i]) # UNKNOWN_SLAVE

(* libtins throws in the constructor, the file cannot be opened, or the    *)
(* config is empty: the UI reports the error and drops the source.         *)
DiscoverError ==
  /\ ui = "none"
  /\ UNCHANGED vars

(* operator>> throws what nobody catches; a name that getSlaveType does    *)
(* not know leaves the pointer null that is then dereferenced.             *)
DiscoverAborts ==
  /\ ui = "none"
  /\ \E config \in ConfigFiles :
       config.kind = "malformed" \/ (config.kind = "json" /\ ~Known(config))
  /\ ui' = "aborted"
  /\ UNCHANGED <<is_pcap_file, slaves, zmq_publish_enabled, dataVars,
                 sniffer_thread, break_loop, pos>>

(* A new sniffer: the file is opened at its beginning, and for a live one  *)
(* Capture begins now. The sniffer keeps its position until it is deleted. *)
getSlaves ==
  /\ ui = "none"
  /\ is_pcap_file' \in BOOLEAN
  /\ zmq_publish_enabled' \in BOOLEAN
  /\ \E config \in ConfigFiles :
       /\ config.kind = "json" /\ Known(config)
       /\ slaves' = DOMAIN config.names
       /\ data' = [s \in DOMAIN config.names |-> 0]
  /\ ui' = "ready"
  /\ pos' = 0
  /\ break_loop' = FALSE
  /\ delivered' = << >>
  /\ published' = NoData
  /\ UNCHANGED sniffer_thread

setZMQPublish ==
  /\ ui \in {"ready", "started"}
  /\ zmq_publish_enabled' = ~zmq_publish_enabled
  /\ UNCHANGED <<ui, is_pcap_file, slaves, dataVars, sniffer_thread, break_loop, pos>>

(* Assigning to a std::thread that is joinable would end the program.      *)
start ==
  /\ ui = "ready"
  /\ ui' = IF sniffer_thread = "none" THEN "started" ELSE "aborted"
  /\ sniffer_thread' = "next"
  /\ UNCHANGED <<is_pcap_file, slaves, zmq_publish_enabled, dataVars, break_loop, pos>>

(* Mutant: stop joins a thread that nobody asked to end.                   *)
MutStop ==
  /\ ui = "started"
  /\ ui' = "stopping"
  /\ UNCHANGED <<is_pcap_file, slaves, zmq_publish_enabled, dataVars,
                 sniffer_thread, break_loop, pos>>

(* stop_sniff, then the join.                                              *)
stop ==
  /\ ui = "started"
  /\ ui' = "stopping"
  /\ break_loop' = TRUE
  /\ UNCHANGED <<is_pcap_file, slaves, zmq_publish_enabled, dataVars,
                 sniffer_thread, pos>>

Dropped ==
  /\ ui' = "none"
  /\ slaves' = {}
  /\ data' = NoData
  /\ delivered' = << >>
  /\ published' = NoData

(* The destructor joins, but does not call stop_sniff.                     *)
DeleteIdle ==
  /\ ui = "ready"
  /\ Dropped
  /\ UNCHANGED <<is_pcap_file, zmq_publish_enabled, sniffer_thread, break_loop, pos>>

DeleteThread ==
  /\ ui = "started"
  /\ ui' = "deleting"
  /\ UNCHANGED <<is_pcap_file, slaves, zmq_publish_enabled, dataVars,
                 sniffer_thread, break_loop, pos>>

(* Mutant: stop only asks the loop to end.                                 *)
MutJoinSnifferThread ==
  /\ sniffer_thread # "none"
  /\ \/ ui = "stopping" /\ ui' = "ready" /\ UNCHANGED <<slaves, dataVars>>
     \/ ui = "deleting" /\ Dropped
  /\ UNCHANGED <<is_pcap_file, zmq_publish_enabled, sniffer_thread, break_loop, pos>>

JoinSnifferThread ==
  /\ sniffer_thread = "done"
  /\ sniffer_thread' = "none"
  /\ \/ ui = "stopping" /\ ui' = "ready" /\ UNCHANGED <<slaves, dataVars>>
     \/ ui = "deleting" /\ Dropped
  /\ UNCHANGED <<is_pcap_file, zmq_publish_enabled, break_loop, pos>>

delete == DeleteIdle \/ DeleteThread

(***************************************************************************)
(* The sniffing thread.                                                    *)
(***************************************************************************)

SnifferGoto(from, to) ==
  /\ sniffer_thread = from
  /\ sniffer_thread' = to
  /\ UNCHANGED uiVars

(* Mutant: the flag is looked at after a frame was read, which is lost.    *)
MutBreakLoop ==
  /\ SnifferGoto("next", "done")
  /\ break_loop
  /\ break_loop' = FALSE
  /\ pos' \in {pos, pos + 1} /\ pos' <= Len(Capture)
  /\ UNCHANGED dataVars

(* Mutant: the flag stays set, and ends the next start at once.            *)
MutStaleBreakLoop ==
  /\ SnifferGoto("next", "done")
  /\ break_loop
  /\ UNCHANGED <<dataVars, break_loop, pos>>

(* libpcap looks at the flag before it reads a frame, and clears it.       *)
BreakLoop ==
  /\ SnifferGoto("next", "done")
  /\ break_loop
  /\ break_loop' = FALSE
  /\ UNCHANGED <<dataVars, pos>>

(* Mutant: the end of the file counts as one more frame.                   *)
MutEndOfFile ==
  /\ SnifferGoto("next", "done")
  /\ ~break_loop
  /\ is_pcap_file /\ pos = Len(Capture)
  /\ pos' = pos + 1
  /\ UNCHANGED <<dataVars, break_loop>>

(* Mutant: at the end of the file the loop waits for more.                 *)
MutWaitAtEndOfFile ==
  /\ SnifferGoto("next", "next")
  /\ ~break_loop
  /\ is_pcap_file /\ pos = Len(Capture)
  /\ UNCHANGED <<dataVars, break_loop, pos>>

EndOfFile ==
  /\ SnifferGoto("next", "done")
  /\ ~break_loop
  /\ is_pcap_file /\ pos = Len(Capture)
  /\ UNCHANGED <<dataVars, break_loop, pos>>

(* The filters of packetCallback: the frame comes back from the slaves and *)
(* is a logical read write.                                                *)
Relevant(frame) == frame.src = "slaves" /\ frame.cmd = "LRW"

(* The next frame of the file, or any later frame from the wire: a live    *)
(* capture may miss some.                                                  *)
NextFrame(n) ==
  /\ n \in DOMAIN Capture
  /\ IF is_pcap_file THEN n = pos + 1 ELSE n > pos
  /\ ~break_loop
  /\ pos' = n
  /\ UNCHANGED break_loop

IgnorePacket ==
  /\ SnifferGoto("next", "next")
  /\ \E n \in DOMAIN Capture : NextFrame(n) /\ ~Relevant(Capture[n])
  /\ UNCHANGED dataVars

(* Each slave that reads and writes its part of the datagram adds 3.       *)
expected_wkcnt == 3 * Cardinality(slaves)

(* Each slave copies its rx and tx from its offsets in the datagram. The   *)
(* working counter is compared, and a difference is only printed.          *)
CopyPacket ==
  /\ SnifferGoto("next", "callback")
  /\ \E n \in DOMAIN Capture :
       /\ NextFrame(n) /\ Relevant(Capture[n])
       /\ data' = [s \in slaves |-> n]
  /\ UNCHANGED <<delivered, published>>

(* (ui->*callback_fn)(slaves), then the test of zmq_publish_enabled.       *)
Callback ==
  /\ SnifferGoto("callback", IF zmq_publish_enabled THEN "publish" ELSE "next")
  /\ delivered' = Append(delivered, pos)
  /\ UNCHANGED <<data, published, break_loop, pos>>

publishMsg ==
  /\ SnifferGoto("publish", "next")
  /\ published' = data
  /\ UNCHANGED <<data, delivered, break_loop, pos>>

packetCallback == IgnorePacket \/ CopyPacket \/ Callback \/ publishMsg
startSnifferLoop == BreakLoop \/ EndOfFile \/ packetCallback

-----------------------------------------------------------------------------
Init ==
  /\ ui = "none"
  /\ is_pcap_file = FALSE
  /\ slaves = {}
  /\ data = NoData
  /\ zmq_publish_enabled = FALSE
  /\ sniffer_thread = "none"
  /\ break_loop = FALSE
  /\ pos = 0
  /\ delivered = << >>
  /\ published = NoData

Next == \/ DiscoverError \/ DiscoverAborts \/ getSlaves \/ setZMQPublish
        \/ start \/ stop \/ delete \/ JoinSnifferThread \/ startSnifferLoop

Spec == Init /\ [][Next]_vars

(* The scheduler runs the sniffing thread when it has something to do, and *)
(* the UI thread when the thread it joins has ended. That a frame arrives  *)
(* on a live interface is not assumed.                                     *)
Fairness ==
  /\ WF_vars(startSnifferLoop /\ (is_pcap_file \/ break_loop \/ sniffer_thread # "next"))
  /\ WF_vars(JoinSnifferThread)

FairSpec == Spec /\ Fairness

(***************************************************************************)
(* Properties.                                                             *)
(***************************************************************************)

FrameNumbers == 0 .. Len(Capture)

(* Every variable has its type.                                            *)
TypeOK ==
  /\ ui \in {"none", "ready", "started", "stopping", "deleting", "aborted"}
  /\ is_pcap_file \in BOOLEAN
  /\ slaves \in SUBSET (1 .. MaxSlaves)
  /\ data \in [slaves -> FrameNumbers]
  /\ zmq_publish_enabled \in BOOLEAN
  /\ sniffer_thread \in {"none", "next", "callback", "publish", "done"}
  /\ break_loop \in BOOLEAN
  /\ pos \in FrameNumbers
  /\ delivered \in Seq(FrameNumbers)
  /\ DOMAIN published \in SUBSET (1 .. MaxSlaves)
  /\ published \in [DOMAIN published -> FrameNumbers]

(* start never finds a joinable thread, and no thread of a source at rest  *)
(* is left to write to the slaves or to call the UI.                       *)
NoThreadLeftBehind == ui \in {"none", "ready"} => sniffer_thread = "none"

(* Playing a file hands every frame that carries process data to the UI,   *)
(* once and in the order of the file, however often the user stops and     *)
(* restarts in between: stop_sniff never costs a frame.                    *)
AllOfTheFile ==
  is_pcap_file /\ ui \notin {"none", "aborted"} =>
    /\ \A j, k \in DOMAIN delivered : j < k => delivered[j] < delivered[k]
    /\ {delivered[k] : k \in DOMAIN delivered} =
         {n \in 1 .. pos : Relevant(Capture[n]) /\ (n = pos => sniffer_thread # "callback")}

(* stop returns, whatever the loop was doing: it sees the flag before it   *)
(* waits for another frame, also on a silent interface.                    *)
StopReturns == ui = "stopping" ~> ui = "ready"

(* A file that is started is played to its end, unless the user stops it;  *)
(* a flag that an earlier stop left behind does not end it early.          *)
FilePlaysToItsEnd ==
  (ui = "started" /\ is_pcap_file) ~> (pos = Len(Capture) \/ ui = "stopping")

(* The destructor of a source that plays a file returns when the file has  *)
(* been played.                                                            *)
FileDeleteReturns == (ui = "deleting" /\ is_pcap_file) ~> ui = "none"

(* The invariants that the proofs rest on.                                 *)

(* The thread exists from start until the join.                            *)
ThreadMatchesUI ==
  /\ ui \in {"none", "ready"} => sniffer_thread = "none"
  /\ ui \in {"started", "stopping", "deleting"} => sniffer_thread # "none"
  /\ ui = "aborted" => sniffer_thread = "none"

(* The slaves hold one frame, the last one that was read or an older one.  *)
DataWhole == \A s, t \in slaves : data[s] = data[t] /\ data[s] <= pos

(* A message that is about to be published shows slaves of this frame.     *)
CallbackHasFrame ==
  sniffer_thread \in {"callback", "publish"} => \A s \in slaves : data[s] = pos

(* packetCallback hands over only what passed its filters.                 *)
CallbackIsRelevant ==
  sniffer_thread = "callback" => pos \in DOMAIN Capture /\ Relevant(Capture[pos])

IInv == TypeOK /\ ThreadMatchesUI /\ DataWhole /\ CallbackHasFrame

(* The sniffer implements the abstract data source.                        *)
Cell == IF slaves = {} THEN 0 ELSE data[CHOOSE s \in slaves : TRUE]

Phase == IF ui \in {"none", "aborted"} THEN "absent"
         ELSE IF ui = "ready" THEN "rest" ELSE "active"

Source == INSTANCE DataSource WITH
  Slaves  <- 1 .. MaxSlaves,
  phase   <- Phase,
  listed  <- slaves,
  cell    <- Cell,
  message <- published

ImplementsDataSource == Source!Spec

(* The comment in packetCallback: only frames with the correct working     *)
(* count are processed. The code compares the counter and goes on.         *)
OnlyCorrectWorkingCount ==
  \A i \in DOMAIN delivered : Capture[delivered[i]].wkcnt = expected_wkcnt
=============================================================================
