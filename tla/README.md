# A verification project for kddv

kddv shows the process data (PDOs) of the EtherCAT slaves of a KELO robot. Two
programs display them, `kddv-gui` (Qt) and `kddv-tui` (ncurses); a third one,
`generate_config_file`, scans a ring and writes the config file that the sniffer
needs. This directory holds TLA+ models of these programs, the TLC runs that
check them on small instances, and TLAPS proofs for every size.

`PROJECT.json` is the index: components, runs, the source lines of every
definition (`map`), for each property a defect of the code that would break it
(`mutants`, the operators named `Mut...`), hazards, findings and theorems.

## The system

| component | state | operations | threads |
|---|---|---|---|
| EtherCAT master (`ethercat_master.cpp`) | slaves, `ethercat_running`, `data_mutex`, two `std::thread`s, SOEM's global socket and process image | `getSlaves`, `start`, `stop`, destructor | the UI thread; `ethercatLoop` every 5 ms; `dataCopyLoop` every 50 ms |
| Packet sniffer (`packet_sniffer.cpp`) | slaves, config, libtins sniffer, one `std::thread` | constructor, `setConfigFile`, `getSlaves`, `start`, `stop`, destructor | the UI thread; libtins' `sniff_loop`, which calls `packetCallback` |
| Data source interface (`ethercat_data_source.cpp`) | callback, ZMQ flag | `setDataCallback`, `setZMQPublish`, `convertToJson`, `getSlaveType` | both |
| Terminal interface (`tui.cpp`) | `selected_slave`, windows | key loop, `dataCallback` | the main thread; `dataCallback` in the thread of the source |
| Graphical interface (`gui.cpp`) | widgets, current source, boxes, Qt's event queue | button handlers, `dataCallback`, `handleDataChanged` | the GUI thread; `dataCallback` in the thread of the source |
| Config generator (`generate_config_file.cpp`) | the list of slaves so far | SDO reads, file | sequential |
| Command lines (`gui_main.cpp`, `tui_main.cpp`) | options | loop over `argv`, validation | sequential |
| ZMQ publisher (`zmq_publisher.cpp`) | a PUB socket | bind, `publishMsg` | the thread of the source |
| Slave decoders (`*_slave.cpp`) | the members `rx`, `tx` | `copyData`, values, units, `convertToJson`, `parseBits` | the thread of the source writes, the GUI thread reads |
| PDO layouts (`KeloDriveAPI.h`, `RobileMasterBattery.h`, `KeloEcPd.h`) | packed structs, flag bits | none | |

An interface owns at most one source. It constructs it, passes it a callback and
the ZMQ flag, calls `getSlaves` once, then `start` and `stop` any number of times,
and drops it. From `start` on, the threads of the source copy process data into
the slave objects, call the interface and publish JSON over ZMQ.

What is hard: the two threads of the master share slaves, a mutex and a socket
that is global to SOEM; a source must be restartable and deletable at any time;
`selected_slave` and the slaves are read without a lock; the GUI's events outlive
what they point to; SDO reads and frames get lost; libpcap's break flag outlives a
session. What makes each component correct is stated as its properties, below.

## The modules

| module | models | run by | proofs |
|---|---|---|---|
| `SlaveTypes` | type numbers, `getSlaveType` with its `uint8_t` result | all that use it | |
| `DataSource` | what a source promises (abstract) | refined by the next two | |
| `EthercatMaster` | `EthercatMaster` | `MCEthercatMaster` | `EthercatMasterProofs` |
| `PacketSniffer` | `PacketSniffer` | `MCPacketSniffer` | `PacketSnifferProofs` |
| `Tui` | `TUI` | `MCTui` | `TuiProofs` |
| `Gui` | `GUI` | `MCGui` | `GuiProofs` |
| `GenerateConfig` | `generate_config_file` | `MCGenerateConfig` | `GenerateConfigProofs` |
| `PdoLayout` | the structs, flag bits and units of the headers | `MCGenerateConfig`, `MCDisplay` | |
| `SlaveDecoders` | the three slave classes | `MCGenerateConfig`, `MCDisplay` | |
| `SnifferConfig` | a generated file read by `PacketSniffer`: `GenerateConfig` and the decoders composed | `MCGenerateConfig` | `SnifferConfigProofs` |
| `Display` | from the wire to the labels: the copying threads, the decoders and `handleDataChanged` composed | `MCDisplay` | `DisplayProofs` |
| `CommandLine` | both `main`s | `MCCommandLine` | `CommandLineProofs` |

The models compose by abstraction: `EthercatMaster` and `PacketSniffer` implement
`DataSource`, and `Tui` and `Gui` assume of a source only what `DataSource` says,
namely that callbacks happen between `start` and the return of `stop`. `Display` looks
closer at what `Gui` does in one step, the reads of `handleDataChanged`, and puts them
beside the copying thread of either source. `SnifferConfig` follows the config file from
the generator to the bytes that the sniffer copies.

### DataSource

The process data of all slaves are one cell. `Refresh` replaces it as a whole and
never by older data, `Publish` sends one content of it for all slaves, and both
happen only between `Start` and `Stop`.

### EthercatMaster

`ui` is where the UI thread is; `ethercat_thread` and `data_copy_thread` are the
control points of the two loops, one step per lock, per slave copied and per slave
converted. Data are abstracted to the number of the process image: `data[s] = v`
says that slave `s` was copied from image `v`, and 0 that nothing was copied since
the constructor, which leaves the members uninitialized. A frame that returns makes
a new image or, if it is lost, leaves the old one. `sock` and `busState` are SOEM's
socket and the state of the ring. The callback of the interface is one step under
the lock.

### PacketSniffer

Frames are their position in `Capture`. A file delivers them one by one; a live
capture may skip some. `break_loop` is libpcap's flag: set by `stop_sniff`, looked
at before a frame is read, cleared when it ends the loop, and left standing when
the thread had already ended. A malformed config and an unknown name end in
`aborted`.

### Tui

Every access to `selected_slave` is a step: the two clamps at the beginning of
`dataCallback`, two comparisons for each name, four reads for the data, and load
and store of a key. `disturbed` records that a key was stored since the callback
began. An index outside the vector ends in `crashed`.

### Gui

The handlers are atomic, except `stop`, which waits in `stopping` while the thread
may still post events. `queue` is Qt's queue of `dataChanged` events; an event has
the list of its slaves, and what it shows is what the slaves hold when it is
handled. Clicks and posted events are handled in any order: the connection is queued, and
Qt's dispatchers do not promise to send posted events before window-system events. So an
event can be overtaken by clicks on Stop and Discover, and then `handleDataChanged` indexes
the boxes of another source; where a box or a value is missing the model ends in
`aborted`. A slave is abstracted to its number of labels.

### GenerateConfig

Each SDO read is a step, answered or lost. The local variables have the names of
the code; `Indeterminate` is the value of an uninitialized `int`. The properties about
offsets speak of slaves that are `Plain`: no more sync managers than the scan looks at, one
with PDOs for each direction, and types that end at 3 if they count from 0, as the comment
at the correction supposes ("works if the types are 0 1 2 3"). Without the last condition
`NeverShifted` is false: a lost read of the type of SM2 leaves the types uncorrected, and a
sync manager with a higher number than the input one would be taken for it.

### PdoLayout and SlaveDecoders

A struct is the sequence of its members, each with its type; `sizeof` adds up the widths,
as the structs are packed. The decoders are lists: variables and units (which the code
has as static vectors), the members that `getRxValues` and `getTxValues` push, and the
pairs of key and member of `convertToJson`. They are written down list by list from the
three classes, because the code keeps them apart and only their positions connect them.
`parseBits` takes a 16-bit word apart with `\div` and `%` where the code has masks and
shifts.

### SnifferConfig

`slave_info` is what `PacketSniffer::getSlaves` makes of an entry of the file, `rx_data`
and `tx_data` are the bytes that `packetCallback` passes to `copyData`: from the offset of
the file, as many as the struct has. `Bytes` is what SOEM maps for a slave.

### Display

`thread` is the copying thread of the source: `rx` and `tx` mean that it is inside the
memcpy of that struct of slave `cur`. The sniffing thread calls `dataCallback` itself; the
master has `data_copy` for that, under the mutex for which the copying thread only tries;
the test of `ethercat_running` and the lock are two steps, and stop may come between them.
`gui` is the GUI thread: `rx` and `tx` mean that it is inside `getRxValues` or
`getTxValues` of slave `at`. A read begins in one step and ends in a later one; what it
returns is a range of packets, from the one in the struct when it began to the one in it,
or on its way into it, when it ends. Of the data the words with flags are kept, since their
tooltips are computed from them: such a word can have its two bytes from any two packets of
the range, because reading it while memcpy writes it is a data race. The checkbox for
units adds the unit to the text and nothing else, and is left out; that a start of the
master may create no threads is in `Gui` and `EthercatMaster`.

### CommandLine

`argv` is chosen at the beginning; `i` is the loop variable. Both validations use
the same condition, `kddv-gui` when it meets `--start` and `kddv-tui` at the end.

## The runs

| run | shows |
|---|---|
| `master` | `PublishedWhole`: a message never mixes two process images. `LiveSocket`: no late `ec_close` closes the socket under a running exchange. `NoThreadLeftBehind`: `start` never assigns to a joinable thread. `StopReleases`: a stop that returns leaves a free mutex and a closed socket. `ImplementsDataSource`: the refinement. `StopReturns`, `StartReturns`: start, stop and the destructor return, although the threads compete for the mutex and the ring may never become OPERATIONAL |
| `sniffer` | `AllOfTheFile`: a file is delivered frame by frame, once and in order, across stops and restarts. `NoThreadLeftBehind`, `ImplementsDataSource`. `StopReturns`, also on a silent interface. `FilePlaysToItsEnd`. `FileDeleteReturns` |
| `tui` | `UndisturbedFrame`: a frame without a key in between shows one slave, the highlighted one, and never crashes, whatever earlier races left in `selected_slave`. `WindowsOutliveCallbacks`, `QuitEnds` |
| `generate` | `CompleteWhenAnswered`: a scan without losses lists every supported slave with its offsets. `NeverShifted`: a lost read never makes a wrong offset. `SnifferReadsOwnPdos`: with a generated file the sniffer copies for each slave its outputs and inputs, all of them and nothing else, and can construct every slave. `Finishes` |
| `gui` | `StartHasSource`, `RunsOnlyUnderStop`, `ZmqMatchesCheckbox`, `LastCallbackShown`. `MisfitsAreLate`: an event that lacks a box or a value is of a replaced source and comes before the first display of the new one |
| `display` | `OneNameOneMember`: each label shows the member that JSON has under its name, in the header's unit, and no member is missing or twice. `TooltipTellsValue`: the flags of a tooltip give back the number in its label, also when the word was torn and has changed since. `NeverBackwards`: no label returns to an older packet, over races, lost frames and restarts. `SettledIsLastPacket`: after a sniffer has ended the window shows its last packet, untorn. `CallbacksAreShown`: what the slaves held when an event was posted is shown in every box in the end |
| `command_line` | `LastValueCounts`: the loop agrees with a definition of which value counts. `StartedIsComplete`: started at once means started with all that the source needs; for `kddv-gui` only when `--start` is the last option, since the options behind it are not validated (there `GUI::start` relies on the discovery that fails and on `StartHasSource`). `Decides` |

Five more runs refute what the documentation or a comment says; `findings` has
the quotations:

| run | the code |
|---|---|
| `master_received` | may show and publish uninitialized data first |
| `sniffer_wkc` | processes frames with a wrong working counter |
| `tui_single` | may show a frame of two slaves |
| `generate_offsets` | writes uninitialized offsets after a lost SDO read |
| `gui_all_data` | may overwrite a packet of a file before it is shown |

Four disagreements are visible in a single step of the models and have no run of
their own: `getSlaves` of the master never lists the board `KeloEcPd` (`Listed`: the test
at line 55 of `ethercat_master.cpp` lets only drives and batteries through, and the branch
for `KELO_BMS_SLAVE` below it is dead), where the repository's README counts it among the
supported slaves; `start` takes the ring to OPERATIONAL (`StartThreads`), where the
repository's README says SAFE_OP; both programs answer the documented `--enable_zmq`
with the usage text (`Usage`), the option they know is `--publish_zmq`; and with an
empty list of slaves `dataCallback` of the terminal interface uses index -1 (`SetHigh`,
`Read`). `SettledIsLastPacket` is stated for sniffers only: the master's last copy may
come after its last callback, or without any, and then the window keeps what the last event
found, torn or not; the repository does not say what the window shows after Stop.

### Bounds

- `EthercatMaster`: three slaves of which two are listed, so that a message can be
  mixed; three images (before, between and after two copies); two retries, so that the loop ends both ways; `UIntMod` 8 instead of 2^32, which keeps
  the wrap-around. The number of sessions is not bounded.
- `PacketSniffer`: five frames, of each kind one and two good ones; config files of
  each kind. Restarts are not bounded.
- `Tui`: two slaves and three keys, enough to leave the range on both sides.
- `GenerateConfig`, `SnifferConfig`: five slaves, of each type one with the PDOs of its
  header, among them one that counts its SM types from 0 and has two PDOs each way; a
  device with two output sync managers and more of them than `EC_MAXSM`; two lost
  reads. `RepositoryConfigsTile` checks that with the sizes of the headers the four config
  files of the repository divide the datagram without gap or overlap; the ring of
  `SnifferReadsOwnPdos` is made from the same structs, so that padding or a wrong length
  shows there and not in the property.
- `Display`: one slave with flags in both structs, and two slaves, so that a copy and a
  display can be at different ones; two packets after the uninitialized one, enough for a
  read that spans two copies; two events, so that one is posted while another is handled.
  The words of the packets differ in both bytes, and `WordsTold` evaluates the tooltips of
  all 65536 words for every variable with flags. Sessions are not bounded.
- `Gui`: two discoveries, three refreshes, two events in the queue, three lists.
- `CommandLine`: four options from fourteen; a source with all it needs and `--start`
  takes four.

Runs switch off the deadlock check where the system may stop: after `aborted` or
`crashed`, after the end of a program, and, in `Gui`, when the bounds are used up.

### Fairness

Weak fairness of every thread that can run: the loops of the sources, and the UI
thread inside `start`, `stop` or a join. Nothing is assumed about the user, about
frames on an interface, about the ring becoming OPERATIONAL or about who wins the
mutex. In `Display` the event loop takes events under strong fairness: clicks on Start
and Stop take the GUI thread away from its queue again and again, and Qt sends posted
events each time it comes back. `GenerateConfig` and `CommandLine` are sequential and every SDO read has a
timeout. In `Tui`, `FeederLoop` may end after each round once `stop` was called and
must then, as both sources do by `StopReturns`.

## The proofs

All theorems hold for every value of the constants under the named assumptions of
the modules (types of the constants; `NumRetries < UIntMod`).

**EthercatMasterProofs.** `TypeCorrect` is proved first, by itself. `PublishedWhole` is
not inductive: the message is built slave by slave, from slaves that are copied one
by one. `IInv` adds which threads exist in which phase of the UI thread
(`ThreadsMatchUI`), who owns the mutex (`MutexMatchesThreads`), that copied slaves
hold the current image and the others a common older one (`DataWhole`), that a
message under construction agrees with the slaves (`JsonMatchesData`), and when the
socket is open (`SocketMatchesThreads`). The control part and the data part are
proved separately for the UI thread and for each loop. From `IInv` follow
`MessagesAreWhole`, `SocketStaysOpen`, `ThreadsAreJoined`, `StopReleasesAll`, and
`MasterIsDataSource`, the refinement: the abstract cell is the image of the slaves
that are still to be copied, so that the last copy is the abstract `Refresh` and the
earlier ones stutter.
Behind `StopReturns` and `StartReturns` stand three theorems. `StopIsBounded`: once `stop` or
the destructor waits, each step of any thread lowers `StepsLeft`, which begins at no more than
13 and two for each slave; a thread that finds the flag cleared begins no new cycle.
`StopIsNeverStuck`: as long as it waits, one of the two threads or the join can go on
(`MutexMatchesThreads` says that an owner of the mutex is on its way to release it, and
that the thread that is joined first has released it when it is done). `StartIsBounded`: a retry
leaves one less.

**PacketSnifferProofs.** `Invariant`, `TypeCorrect`, `ThreadIsJoined` and the refinement
`SnifferIsDataSource`, for every capture and every set of config files. `FileIsDelivered`
(`AllOfTheFile`) needs besides that a frame on its way to the interface has passed the
filters (`CallbackIsRelevant`): it is the one frame that has been read and is not yet
delivered, and a stop in that moment must not cost it.
`StopIsBounded` and `FileIsPlayed` need `FlagInTime`, what the flag of libtins means: it stays set
from `stop` until the thread has ended, and one that is left behind was set when the file was
at its end. So a `stop` has at most four steps to wait for, none of which reads a
frame, and a thread that ends without a `stop` has read all of its file.

**TuiProofs.** `FramesWithoutKeys` (`UndisturbedFrame`) rests on an invariant that follows an
undisturbed callback: after both clamps `selected_slave` is in the vector, its name is
highlighted once the loop has passed it, and the parts read so far are its. `WindowsLast`
is `WindowsOutliveCallbacks`. `QuitIsBounded`: after `q` at most 14 steps are left and two for
each slave, whose names a callback under way still draws; no key and no further callback
comes in between. The theorems assume `NumSlaves # 0`; without a
slave `SetHigh` makes it -1, and the next read ends in `crashed`.

**DisplayProofs.** `LabelsNeverGoBack` (`NeverBackwards`) and `SnifferSettles`
(`SettledIsLastPacket`), for every list of slaves and every number of packets. That a label
is not older after `ReadTx` depends on what the two reads met on the way. `Ordered` says it
for every moment: a label is no newer than the read under way, the read no newer than the
struct or the memcpy into it, and these no newer than the last packet. The lemma
`OnlyNewer` shows that the copying thread only moves the right side of these
inequalities up, so that its steps need no further case. `Copied` says which slaves have
the last packet while a sniffer copies, and `Settling` follows the last event to the
labels; both need `Control`, that nothing copies for a sniffer between its callback and the
next frame, and that a stopped source has no thread. The bound of the queue is part
of `Control`: a thread that is going to post has room.
`TooltipsTell` (`TooltipTellsValue`) splits a property that mixes interleaving with bits:
that `parseBits` tells every word of two bytes is a finite fact about an operator without
state, `EveryWordTold`, which TLC evaluates completely; it is the hypothesis of the theorem.
What is proved, for every list of slaves and every content of the packets, is that a tooltip
is always made from the word in its label (`TipsParsed`), and that this word has two bytes
that memcpy wrote, whichever packets they are from.
`LabelsShowMembers` (`OneNameOneMember`): the variables and values of each decoder, the keys of
its JSON and the members of its structs are shown to agree place by place (`DriveAgrees`,
`BatteryAgrees`, `BmsAgrees`), the units of the drive are compared with those of the header
one by one, and the lemma `OneEach` says for all lists that this is enough.

**GuiProofs.** `IInv` ties the button to the source (`StartHasSource`, `RunsOnlyUnderStop`,
`StopIsPressed`), the boxes to its slaves (`BoxesMatchSource`), its flag to the checkbox
(`ZmqMatchesCheckbox`), and the last callback to the labels: it was shown, or the last event of the
queue is its own (`CallbackPending`). None of them holds by itself: that a discovery cannot
meet a running source needs the buttons, and these need what a failed discovery leaves.
`NoCallbackForgotten` (`LastCallbackShown`) follows because the queue is emptied from the
front. `MisfitsComeFirst` (`MisfitsAreLate`) assumes nothing of the order of clicks and
events. That an event finds its boxes is false in general; what is true is that only an
event of a replaced source can miss them, and only before the first display of the new one.
`EventsInOrder` is the reason: the events are sorted by the source that posted them, so that
an event of the current source has no older one behind it.

**CommandLineProofs.** For command lines of every length: `LastOccurrenceWins`
(`LastValueCounts`) and `StartsComplete` (`StartedIsComplete`). Which words of `argv` are
options is a recursive function (`OptionAt`), since an option that takes a value hides the
next word. That it has a value everywhere is proved by taking the least position where it
would not (`LeastNumber`, from the library's `WFMin`), since its induction rules take an
operator that the provers cannot instantiate. `Position` says that
the loop stands at an option whenever it stands at a word, `ValuesSoFar` and `PublishSoFar`
that it has the last values up to there, `Validated` that the validation that let it
continue was of what it had read, and `Told` that the interface got that.
`ParsingIsBounded`: `main` takes at most four steps more than it has arguments.

**GenerateConfigProofs.** For every ring and every number of lost reads.
`NothingShifted` (`NeverShifted`): an offset is assigned from the bits counted so far, and it
is right only because nothing was counted for that direction before (`FirstEntryAtZero`).
`BitsCounted` gives the reason, that bits come from a sync manager of the direction that was
passed, and the lemma `TakenOnce` says that a plain slave has one, whether the
correction of its types was made or missed because the read was lost. `InBounds` shows that the scan only uses
sync managers, PDOs and entries that exist. `CompleteIfAnswered` (`CompleteWhenAnswered`)
adds `AllAnswered`, what holds as long as no read was lost: the correction is right after
SM2, and every sync manager that was passed has left its offset.
`ScanIsBounded`: what is left of the four nested loops is a tuple of four numbers (`ScanLeft`), and
every step lowers it in the lexicographic order, which the library's
`WFLexProductOrdering` shows to be well-founded. `InBounds` is needed where an inner
loop ends: the round of the loop around it was one that existed.

**SnifferConfigProofs.** `SnifferReadsPdos` (`SnifferReadsOwnPdos`) follows from
`CompleteIfAnswered` if the devices map as many bytes as the headers declare for them
(`DeclaredLengths`). A config file has no lengths, so that the sniffer depends on this; TLC
evaluates it for the slaves of the instance.

Only model-checked: the liveness properties, since liveness under fairness and `ENABLED` are
out of reach of the installed provers. For all but `CallbacksAreShown` a theorem gives what
they rest on, for every value of the constants: a measure that each step lowers
(`StopIsBounded`, `StartIsBounded`, `FileIsPlayed`, `QuitIsBounded`, `ScanIsBounded`,
`ParsingIsBounded`), and for the two `stop`s, where a thread waits for another, that a step can
always be taken. That fairness then leads to the end is what TLC shows, on the instances.
`EveryWordTold`, the hypothesis of `TooltipsTell`, is evaluated by TLC for all words: shifts
and masks of 16 bits are sums of powers of two, which needs an induction.

## Not modelled

- The text of numbers (`std::to_string`) and the values of members other than the words
  with flags.
- Layout, colours and the wording of messages; the contents of the name labels of the
  file dialogs.
- SOEM, libtins, libpcap, Qt, ncurses and ZMQ beyond what the code relies on; the
  vendored `zmq.hpp` (2714 lines of another project).
- Process images larger than one LRW datagram: SOEM splits them, and `packetCallback`
  looks at the first datagram of a frame. The largest config file of the repository has
  1040 bytes.
- ncurses used by two threads at once: neither the repository nor ncurses says what
  happens.

## Plan

Done: the sources, both interfaces, the generator, the command lines, the decoders and
layouts, the compositions `Display` and `SnifferConfig`; the refinements, every
invariant and action property of the runs, and the measures behind the liveness properties.

Proofs that could follow: that `Display` and `Gui` show the same thing of a source, as a
refinement; the measure behind `CallbacksAreShown`, the events in front of the last one and
the reads that each of them takes; that the offsets in a generated file never overlap, from an
assumption on how SOEM maps the ring.
