------------------------------ MODULE Display -------------------------------
(***************************************************************************)
(* From the wire to the labels: the thread of a data source fills the      *)
(* structs of the slaves while handleDataChanged reads them in the GUI     *)
(* thread. The event only has pointers, and the GUI takes no lock, so that *)
(* a read can meet a memcpy.                                               *)
(*                                                                         *)
(* The packets that reach copyData are numbered; packet 0 is what the      *)
(* structs hold before the first. Of the data the model keeps the words    *)
(* that tooltips take apart: every such word of packet p is Word[p]. A     *)
(* snapshot, the result of getRxValues or getTxValues, is a range lo .. hi *)
(* of packets that its values come from, and the words it got.             *)
(***************************************************************************)
EXTENDS SlaveDecoders

Byte == 0 .. 255

CONSTANTS
  SlaveLists, \* what getSlaves may return: sequences of slave types
  Word,       \* the high and the low byte of the words of each packet
  MaxPackets, \* bound: packets
  MaxQueue    \* bound: events in the queue, tested before the step that
              \* leads to a callback: Qt's queue never blocks one

ASSUME ListsAssumption  == SlaveLists \subseteq Seq(Types) \ {<< >>}
ASSUME BoundsAssumption == {MaxPackets, MaxQueue} \subseteq Nat
ASSUME WordAssumption   == Word \in [0 .. MaxPackets -> Byte \X Byte]

VARIABLES
  kind,      \* the source: "ecat" or "sniffer", or "eof": a file was read
  slaves,    \* the types of its slaves
  running,   \* start was called, and stop was not
  packet,    \* the last packet received
  held,      \* packet in the rx and the tx of each slave
  thread,    \* ethercatLoop or the sniffing thread: "ended", "loop", "recv",
             \* "rx" and "tx" (in the memcpy of slave cur), "callback"
  cur,
  data_copy, \* dataCopyLoop of the master: "ended", "loop", "lock" or "locked"
  queue,     \* number of posted dataChanged events
  gui,       \* the GUI thread: "loop", "rx" and "tx" (in getRxValues and
             \* getTxValues of slave at), "stop" (waiting for the threads)
  at,
  from,      \* packet in the struct when the read began
  rx_vals,   \* the snapshot of the rx that is being shown
  labels     \* for each box the snapshots in its labels, with the tooltips

sourceVars == <<kind, slaves, running>>
threadVars == <<packet, held, thread, cur>>
guiVars    == <<gui, at, from, rx_vals, labels>>
vars       == <<sourceVars, threadVars, data_copy, queue, guiVars>>

Packets == 0 .. MaxPackets
Blank   == [lo |-> 0, hi |-> 0, words |-> << >>, tips |-> << >>]

(***************************************************************************)
(* The thread that copies.                                                 *)
(***************************************************************************)

(* The loop looks at ethercat_running, or libpcap at the flag that         *)
(* stop_sniff has set, before it goes for the next frame.                  *)
CheckRunning ==
  /\ thread = "loop"
  /\ thread' = IF running THEN "recv" ELSE "ended"
  /\ UNCHANGED <<sourceVars, packet, held, cur, data_copy, queue, guiVars>>

(* The master copies only if try_to_lock succeeds; the sniffer always.     *)
BeginCopy ==
  IF data_copy = "locked" THEN thread' = "loop" /\ UNCHANGED cur
                          ELSE thread' = "rx" /\ cur' = 1

Receive ==
  /\ thread = "recv"
  /\ kind # "eof"
  /\ packet < MaxPackets /\ (kind # "ecat" => queue < MaxQueue)
  /\ packet' = packet + 1
  /\ BeginCopy
  /\ UNCHANGED <<sourceVars, held, data_copy, queue, guiVars>>

(* Without a frame the master copies what IOmap still holds. The sniffer   *)
(* ignores frames that are not relevant, and is woken up by stop_sniff.    *)
NoFrame ==
  /\ thread = "recv"
  /\ IF kind = "ecat" THEN BeginCopy ELSE thread' = "loop" /\ UNCHANGED cur
  /\ UNCHANGED <<sourceVars, packet, held, data_copy, queue, guiVars>>

(* A sniffer of a file ends with it, and at once when it is started again; *)
(* a live one never takes this step.                                       *)
EndOfFile ==
  /\ thread = "recv"
  /\ kind \in {"sniffer", "eof"}
  /\ kind' = "eof"
  /\ thread' = "ended"
  /\ UNCHANGED <<slaves, running, packet, held, cur, data_copy, queue, guiVars>>

(* The first memcpy of copyData ends, the second begins.                   *)
CopyRx ==
  /\ thread = "rx"
  /\ held' = [held EXCEPT ![cur].rx = packet]
  /\ thread' = "tx"
  /\ UNCHANGED <<sourceVars, packet, cur, data_copy, queue, guiVars>>

(* Mutant: i <= slaves.size() in the loop over the slaves.                 *)
MutCopyTx ==
  /\ thread = "tx"
  /\ held' = [held EXCEPT ![cur].tx = packet]
  /\ IF cur <= Len(slaves) THEN thread' = "rx" /\ cur' = cur + 1
     ELSE /\ thread' = IF kind = "ecat" THEN "loop" ELSE "callback"
          /\ UNCHANGED cur
  /\ UNCHANGED <<sourceVars, packet, data_copy, queue, guiVars>>

(* The second ends. After the last slave the master releases the lock and  *)
(* sleeps, the sniffer calls dataCallback.                                 *)
CopyTx ==
  /\ thread = "tx"
  /\ held' = [held EXCEPT ![cur].tx = packet]
  /\ IF cur < Len(slaves) THEN thread' = "rx" /\ cur' = cur + 1
     ELSE /\ thread' = IF kind = "ecat" THEN "loop" ELSE "callback"
          /\ UNCHANGED cur
  /\ UNCHANGED <<sourceVars, packet, data_copy, queue, guiVars>>

(* Mutant: no callback once stop was called.                               *)
MutSnifferCallback ==
  /\ thread = "callback"
  /\ queue' = IF running THEN queue + 1 ELSE queue
  /\ thread' = "loop"
  /\ UNCHANGED <<sourceVars, packet, held, cur, data_copy, guiVars>>

SnifferCallback ==
  /\ thread = "callback"
  /\ queue' = queue + 1
  /\ thread' = "loop"
  /\ UNCHANGED <<sourceVars, packet, held, cur, data_copy, guiVars>>

(***************************************************************************)
(* dataCopyLoop, the other thread of the master.                           *)
(***************************************************************************)

TestRunning ==
  /\ data_copy = "loop"
  /\ IF running THEN queue < MaxQueue /\ data_copy' = "lock" ELSE data_copy' = "ended"
  /\ UNCHANGED <<sourceVars, threadVars, queue, guiVars>>

(* The lock may come long after the test: stop can have cleared the flag,  *)
(* and the callback is called all the same.                                *)
LockData ==
  /\ data_copy = "lock"
  /\ thread \notin {"rx", "tx"}
  /\ data_copy' = "locked"
  /\ UNCHANGED <<sourceVars, threadVars, queue, guiVars>>

MasterCallback ==
  /\ data_copy = "locked"
  /\ queue' = queue + 1
  /\ data_copy' = "loop"
  /\ UNCHANGED <<sourceVars, threadVars, guiVars>>

(***************************************************************************)
(* The GUI thread: handleStart.                                            *)
(***************************************************************************)

(* Mutant: start sets up the slaves again.                                 *)
MutStart ==
  /\ gui = "loop"
  /\ ~running
  /\ running' = TRUE
  /\ thread' = "loop"
  /\ data_copy' = IF kind = "ecat" THEN "loop" ELSE "ended"
  /\ held' = [i \in DOMAIN slaves |-> [rx |-> 0, tx |-> 0]]
  /\ UNCHANGED <<kind, slaves, packet, cur, queue, guiVars>>

Start ==
  /\ gui = "loop"
  /\ ~running
  /\ running' = TRUE
  /\ thread' = "loop"
  /\ data_copy' = IF kind = "ecat" THEN "loop" ELSE "ended"
  /\ UNCHANGED <<kind, slaves, packet, held, cur, queue, guiVars>>

Stop ==
  /\ gui = "loop"
  /\ running
  /\ running' = FALSE
  /\ gui' = "stop"
  /\ UNCHANGED <<kind, slaves, threadVars, data_copy, queue, at, from, rx_vals, labels>>

(* The joins of stop.                                                      *)
StopReturns ==
  /\ gui = "stop"
  /\ thread = "ended" /\ data_copy = "ended"
  /\ gui' = "loop"
  /\ UNCHANGED <<sourceVars, threadVars, data_copy, queue, at, from, rx_vals, labels>>

(* The labels of a box in the order in which handleDiscoverButton makes    *)
(* them. handleDataChanged gives label k the value and the unit at k.      *)
Labels(variables, values, units) ==
  [k \in DOMAIN variables |-> [name |-> variables[k], member |-> values[k], unit |-> units[k]]]

RxLabels == [t \in Types |-> Labels(getRxVariables[t], getRxValues[t], getRxUnits[t])]
TxLabels == [t \in Types |-> Labels(getTxVariables[t], getTxValues[t], getTxUnits[t])]

(***************************************************************************)
(* The GUI thread: handleDataChanged. A read begins in one step and ends   *)
(* in a later one. If the memcpy of the struct has not ended by then, each *)
(* byte is of the new packet or not.                                       *)
(***************************************************************************)

TakeEvent ==
  /\ gui = "loop"
  /\ queue > 0
  /\ queue' = queue - 1
  /\ gui' = "rx"
  /\ at' = 1
  /\ from' = held[1].rx
  /\ UNCHANGED <<sourceVars, threadVars, data_copy, rx_vals, labels>>

(* A 16-bit word with the bytes of two packets.                            *)
Torn(high, low) == 256 * Word[high][1] + Word[low][2]

(* The words a read can get, one for each variable with flags.             *)
Reads(variables, lo, hi) ==
  [variables -> {Torn(high, low) : high \in lo .. hi, low \in lo .. hi}]

Parsable(i, variables) ==
  areBitsParsable[slaves[i]] \cap {variables[k] : k \in DOMAIN variables}

(* The newest packet whose bytes a read that ends now can have met: the    *)
(* one on its way into the struct, or the one in it.                       *)
NewestRx(i) == IF thread = "rx" /\ cur = i THEN packet ELSE held[i].rx
NewestTx(i) == IF thread = "tx" /\ cur = i THEN packet ELSE held[i].tx

(* Mutant: the value is read again for the tooltip.                        *)
MutTipWord(vals, var_name) == Torn(held[at].rx, held[at].rx)

(* The tooltip takes apart the value that the label shows.                 *)
TipWord(vals, var_name) == vals.words[var_name]

Label(vals) ==
  [lo    |-> vals.lo,
   hi    |-> vals.hi,
   words |-> vals.words,
   tips  |-> [n \in DOMAIN vals.words |-> parseBits(slaves[at], TipWord(vals, n), n)]]

(* getRxValues ends, getTxValues begins.                                   *)
ReadRx ==
  /\ gui = "rx"
  /\ \E words \in Reads(Parsable(at, getRxVariables[slaves[at]]), from, NewestRx(at)) :
       rx_vals' = [lo |-> from, hi |-> NewestRx(at), words |-> words, tips |-> << >>]
  /\ from' = held[at].tx
  /\ gui' = "tx"
  /\ UNCHANGED <<sourceVars, threadVars, data_copy, queue, at, labels>>

(* Mutant: the last slave is left out.                                     *)
MutLastSlave == Len(slaves) - 1

LastSlave == Len(slaves)

(* getTxValues ends, the labels of the box are set, and the next slave is  *)
(* in turn.                                                                *)
ReadTx ==
  /\ gui = "tx"
  /\ \E words \in Reads(Parsable(at, getTxVariables[slaves[at]]), from, NewestTx(at)) :
       labels' = [labels EXCEPT ![at] =
                    [rx |-> Label(rx_vals),
                     tx |-> Label([lo |-> from, hi |-> NewestTx(at), words |-> words,
                                   tips |-> << >>])]]
  /\ rx_vals' = Blank
  /\ IF at < LastSlave
     THEN gui' = "rx" /\ at' = at + 1 /\ from' = held[at + 1].rx
     ELSE gui' = "loop" /\ at' = 1 /\ from' = 0
  /\ UNCHANGED <<sourceVars, threadVars, data_copy, queue>>

copyingThread     == CheckRunning \/ NoFrame \/ CopyRx \/ CopyTx \/ SnifferCallback
dataCopyLoop      == TestRunning \/ LockData \/ MasterCallback
handleStart       == Start \/ Stop \/ StopReturns
handleDataChanged == ReadRx \/ ReadTx

-----------------------------------------------------------------------------
(* After a discovery: the boxes are there, and their labels are empty. The *)
(* master lists no BMS.                                                    *)
Init ==
  /\ kind \in {"ecat", "sniffer"}
  /\ slaves \in SlaveLists
  /\ kind = "ecat" => \A i \in DOMAIN slaves : slaves[i] # KELO_BMS_SLAVE
  /\ running = FALSE
  /\ packet = 0
  /\ held = [i \in DOMAIN slaves |-> [rx |-> 0, tx |-> 0]]
  /\ thread = "ended" /\ cur = 1
  /\ data_copy = "ended"
  /\ queue = 0
  /\ gui = "loop" /\ at = 1 /\ from = 0
  /\ rx_vals = Blank
  /\ labels = [i \in DOMAIN slaves |-> [rx |-> Blank, tx |-> Blank]]

Next == \/ copyingThread \/ Receive \/ EndOfFile
        \/ dataCopyLoop
        \/ handleStart \/ TakeEvent \/ handleDataChanged

Spec == Init /\ [][Next]_vars

(* The threads run, a receive times out or is woken up, and the event loop *)
(* goes on. A user who clicks Start and Stop forever does not keep Qt from *)
(* sending the posted events in between: strong fairness of TakeEvent.     *)
(* Frames, the end of the file and clicks need not come.                   *)
FairSpec ==
  /\ Spec
  /\ WF_vars(copyingThread) /\ WF_vars(dataCopyLoop)
  /\ WF_vars(StopReturns) /\ WF_vars(handleDataChanged)
  /\ SF_vars(TakeEvent)

(***************************************************************************)
(* Properties.                                                             *)
(***************************************************************************)

(* A snapshot of packets that exist.                                       *)
Dated(v) == v.lo \in Packets /\ v.hi \in Packets

(* Every variable has its type.                                            *)
TypeOK ==
  /\ kind \in {"ecat", "sniffer", "eof"}
  /\ slaves \in SlaveLists
  /\ running \in BOOLEAN
  /\ packet \in Packets
  /\ held \in [DOMAIN slaves -> [rx : Packets, tx : Packets]]
  /\ thread \in {"ended", "loop", "recv", "rx", "tx", "callback"}
  /\ cur \in DOMAIN slaves
  /\ data_copy \in {"ended", "loop", "lock", "locked"}
  /\ queue \in 0 .. MaxQueue
  /\ gui \in {"loop", "rx", "tx", "stop"}
  /\ at \in DOMAIN slaves
  /\ from \in Packets
  /\ Dated(rx_vals)
  /\ DOMAIN labels = DOMAIN slaves
  /\ \A i \in DOMAIN slaves : Dated(labels[i].rx) /\ Dated(labels[i].tx)

(* The labels of one direction, by position, against what does not depend  *)
(* on a position: the keys of JSON, the members and units of the header.   *)
OneMemberEach(list, json, struct) ==
  /\ Len(list) = Len(struct)
  /\ {list[k].member : k \in DOMAIN list} = {struct[k].name : k \in DOMAIN struct}
  /\ {<<list[k].name, list[k].member>> : k \in DOMAIN list} = {json[k] : k \in DOMAIN json}
  /\ \A k \in DOMAIN list : list[k].member \in DOMAIN DriveUnit /\ struct \in {rxpdo1_t, txpdo1_t}
       => list[k].unit = DriveUnit[list[k].member]

(* In every box each member of the slave's structs has one label; a label  *)
(* shows the member that JSON publishes under the same name, in the unit   *)
(* that the header states. The lists of names, units and values are kept   *)
(* apart from each other in the decoders and are matched by position.      *)
OneNameOneMember ==
  \A i \in DOMAIN slaves : LET t == slaves[i] IN
    /\ OneMemberEach(RxLabels[t], commands[t], rx_struct[t])
    /\ OneMemberEach(TxLabels[t], sensors[t], tx_struct[t])

(* What the header says of a word with flags: the weight of each line of   *)
(* the tooltip.                                                            *)
Weights(var_name, tip) ==
  [k \in DOMAIN tip |-> CASE var_name = "command1" -> COM1[tip[k][1]]
                          [] var_name = "status1"  -> STAT1[tip[k][1]]
                          [] OTHER                 -> 2 ^ (k - 1)]

Lines(var_name) ==
  CASE var_name = "command1" -> Cardinality(DOMAIN COM1)
    [] var_name = "status1"  -> Cardinality(DOMAIN STAT1)
    [] var_name = "error"    -> Len(ErrorBits)
    [] var_name = "warning"  -> Len(WarningBits)

(* The bits of the word that some weight has.                              *)
Defined(word, weights) ==
  LET bits == {b \in 0 .. 15 : \E k \in DOMAIN weights : (weights[k] \div (2 ^ b)) % 2 = 1}
      Bit(b) == ((word \div (2 ^ b)) % 2) * (2 ^ b)
  IN  MapThenSumSet(Bit, bits)

Modes == {"MODE_TORQUE", "MODE_DTORQUE", "MODE_VELOCITY", "MODE_DVELOCITY"}

(* A tooltip that can be read back: the weights of the flags that are set  *)
(* add up to the defined bits of the word, and one mode is set.            *)
Tells(tip, var_name, word) ==
  LET weights == Weights(var_name, tip)
      Term(k) == tip[k][2] * weights[k]
  IN  /\ Len(tip) = Lines(var_name)
      /\ \A k \in DOMAIN tip : tip[k][2] \in {0, 1}
      /\ MapThenSumSet(Term, DOMAIN tip) = Defined(word, weights)
      /\ var_name = "command1" =>
           Cardinality({k \in DOMAIN tip : tip[k][1] \in Modes /\ tip[k][2] = 1}) = 1

(* A tooltip belongs to the number in its label: its flags, weighted as    *)
(* the header defines them, give that number back, whatever the source     *)
(* wrote between the read and the display and however torn the word is.    *)
TooltipTellsValue ==
  \A i \in DOMAIN labels : \A v \in {labels[i].rx, labels[i].tx} :
    \A n \in DOMAIN v.words : Tells(v.tips[n], n, v.words[n])

(* Of two snapshots one is newer or as new.                                *)
Newer(new, old) == old.lo <= new.lo /\ old.hi <= new.hi

(* A step after which no label shows something older.                      *)
Forward ==
  \A i \in DOMAIN slaves :
    Newer(labels'[i].rx, labels[i].rx) /\ Newer(labels'[i].tx, labels[i].tx)

(* What the labels show never goes back to an older packet, over torn      *)
(* reads, lost frames and restarts of the source.                          *)
NeverBackwards == [][Forward]_vars

(* A snapshot of the last packet and no other.                             *)
Exact(v) == v.lo = packet /\ v.hi = packet

(* A sniffer that has ended leaves its last packet in all labels, and no   *)
(* torn value, once the posted events are handled.                         *)
SettledIsLastPacket ==
  kind # "ecat" /\ thread = "ended" /\ queue = 0 /\ gui = "loop" =>
    \A i \in DOMAIN slaves : Exact(labels[i].rx) /\ Exact(labels[i].tx)

(* What a slave held when an event was posted, or something newer, comes   *)
(* to be shown in its box, whatever the user clicks and the source does.   *)
CallbacksAreShown ==
  \A p \in 1 .. MaxPackets :
    (queue > 0 /\ \A i \in DOMAIN held : held[i].rx >= p /\ held[i].tx >= p)
      ~> (\A i \in DOMAIN labels : labels[i].rx.lo >= p /\ labels[i].tx.lo >= p)

(***************************************************************************)
(* The inductive invariant: why labels never go back, and why those of a   *)
(* sniffer settle.                                                         *)
(***************************************************************************)

(* Threads run between Start and the return of stop; one thread posts the  *)
(* events, and has room for the next.                                      *)
Control ==
  /\ ~running /\ gui # "stop" => thread = "ended" /\ data_copy = "ended"
  /\ data_copy # "ended" => kind = "ecat"
  /\ thread = "callback" => kind # "ecat"
  /\ data_copy \in {"lock", "locked"} => queue < MaxQueue
  /\ thread \in {"rx", "tx", "callback"} /\ kind # "ecat" => queue < MaxQueue

StructsOrdered ==
  \A i \in DOMAIN slaves : held[i].rx <= packet /\ held[i].tx <= packet

LabelsOrdered ==
  \A i \in DOMAIN slaves :
    /\ labels[i].rx.lo <= held[i].rx /\ labels[i].rx.hi <= NewestRx(i)
    /\ labels[i].tx.lo <= held[i].tx /\ labels[i].tx.hi <= NewestTx(i)

ReadsOrdered ==
  /\ gui = "rx" => from <= held[at].rx /\ labels[at].rx.lo <= from
  /\ gui = "tx" => /\ from <= held[at].tx /\ labels[at].tx.lo <= from
                   /\ rx_vals.lo <= held[at].rx /\ rx_vals.hi <= NewestRx(at)
                   /\ Newer(rx_vals, labels[at].rx)

(* Label, read under way, struct and memcpy under way are in order.        *)
Ordered == StructsOrdered /\ LabelsOrdered /\ ReadsOrdered

(* A sniffer has copied the last packet to the first slaves in turn, and   *)
(* to all of them when it is not copying.                                  *)
Copied ==
  kind # "ecat" =>
    \A i \in DOMAIN slaves :
      /\ thread \notin {"rx", "tx"} \/ i < cur => held[i].rx = packet /\ held[i].tx = packet
      /\ thread = "tx" /\ i = cur => held[i].rx = packet

(* Between two packets of a sniffer either an event is waiting, or the     *)
(* labels are of the last packet, or are going to be.                      *)
Settling ==
  kind # "ecat" /\ thread \in {"loop", "recv", "ended"} /\ queue = 0 =>
    /\ \A i \in DOMAIN slaves : gui \in {"loop", "stop"} \/ i < at =>
         Exact(labels[i].rx) /\ Exact(labels[i].tx)
    /\ gui \in {"rx", "tx"} => from = packet
    /\ gui = "tx" => Exact(rx_vals)

IInv == TypeOK /\ Control /\ Ordered /\ Copied /\ Settling

(* Words of two bytes, of variables that a slave of type t takes apart.    *)
Readable(t, words) ==
  \A n \in DOMAIN words : /\ n \in areBitsParsable[t]
                          /\ \E high, low \in Byte : words[n] = 256 * high + low

(* A snapshot with the tooltips of its own words.                          *)
Parsed(t, v) ==
  /\ Readable(t, v.words)
  /\ \A n \in DOMAIN v.words : v.tips[n] = parseBits(t, v.words[n], n)

(* Every tooltip in the boxes is of the word that its label shows.         *)
TipsParsed ==
  /\ gui = "tx" => Readable(slaves[at], rx_vals.words)
  /\ \A i \in DOMAIN slaves : Parsed(slaves[i], labels[i].rx) /\ Parsed(slaves[i], labels[i].tx)

(* parseBits tells every word of 16 bits: a finite fact, which TLC checks. *)
EveryWordTold ==
  \A t \in Types : \A n \in areBitsParsable[t] : \A high, low \in Byte :
    Tells(parseBits(t, 256 * high + low, n), n, 256 * high + low)
=============================================================================
