----------------------------- MODULE CommandLine ----------------------------
(***************************************************************************)
(* main of kddv-gui and of kddv-tui: the loop over argv, the validation of *)
(* the options and what the user interface is given. kddv-gui validates    *)
(* when it meets --start, with the options it has read so far; kddv-tui    *)
(* validates after the loop. An option that is not given and an option     *)
(* with an empty value are both the empty string.                          *)
(***************************************************************************)
EXTENDS Integers, Sequences

CONSTANTS
  Argvs,      \* the argument vectors, argv[0] left out
  Interfaces  \* the network interfaces of the machine

ASSUME ArgvsAssumption      == Argvs \subseteq Seq(STRING)
ASSUME InterfacesAssumption == Interfaces \subseteq STRING

VARIABLES
  program,      \* "gui" or "tui"
  argv,
  i,            \* the loop variable
  opts,         \* input_source, network_interface, config_file, pcap_file, zmq_port
  start, publish_zmq,
  ui,           \* what the user interface was told, in the place of each option
  main          \* "parse", "publisher", "check", "configure", "ui", "exit" or
                \* "aborted"

vars == <<program, argv, i, opts, start, publish_zmq, ui, main>>

Valued  == {"--src", "--iface", "--config", "--pcap", "--zmq_port"}
Flags   == {"--start", "--publish_zmq"}
Sources == {"ecat", "sniffer", "pcap"}

Exit == main' = "exit" /\ UNCHANGED <<program, argv, i, opts, start, publish_zmq, ui>>

Arg == argv[i]
Reading == main = "parse" /\ i <= Len(argv)

(***************************************************************************)
(* The loop.                                                               *)
(***************************************************************************)

MissingValue ==
  /\ Reading /\ Arg \in Valued
  /\ i + 1 > Len(argv)
  /\ Exit

InvalidSource ==
  /\ Reading /\ Arg = "--src"
  /\ i + 1 <= Len(argv) /\ argv[i + 1] \notin Sources
  /\ Exit

(* Mutant: the value is not skipped, and is read as the next option.       *)
MutReadValue ==
  /\ Reading /\ Arg \in Valued
  /\ i + 1 <= Len(argv)
  /\ Arg = "--src" => argv[i + 1] \in Sources
  /\ opts' = [opts EXCEPT ![Arg] = argv[i + 1]]
  /\ i' = IF Arg = "--pcap" THEN i + 1 ELSE i + 2
  /\ UNCHANGED <<program, argv, start, publish_zmq, ui, main>>

(* Whatever follows is the value, another option included.                 *)
ReadValue ==
  /\ Reading /\ Arg \in Valued
  /\ i + 1 <= Len(argv)
  /\ Arg = "--src" => argv[i + 1] \in Sources
  /\ opts' = [opts EXCEPT ![Arg] = argv[i + 1]]
  /\ i' = i + 2
  /\ UNCHANGED <<program, argv, start, publish_zmq, ui, main>>

(* Mutant: the sniffer is started without a config file.                   *)
MutComplete(o) ==
  \/ o["--src"] = "ecat" /\ o["--iface"] # ""
  \/ o["--src"] = "sniffer" /\ o["--iface"] # ""
  \/ o["--src"] = "pcap" /\ o["--config"] # "" /\ o["--pcap"] # ""

(* The conditions of both validations: a source and what it needs.         *)
Complete(o) ==
  \/ o["--src"] = "ecat" /\ o["--iface"] # ""
  \/ o["--src"] = "sniffer" /\ o["--iface"] # "" /\ o["--config"] # ""
  \/ o["--src"] = "pcap" /\ o["--config"] # "" /\ o["--pcap"] # ""

StartIncomplete ==
  /\ Reading /\ Arg = "--start"
  /\ program = "gui" /\ ~Complete(opts)
  /\ Exit

(* Mutant: the flag is stepped over as if it had a value.                  *)
MutReadStart ==
  /\ Reading /\ Arg = "--start"
  /\ program = "gui" => Complete(opts)
  /\ start' = TRUE
  /\ i' = i + 2
  /\ UNCHANGED <<program, argv, opts, publish_zmq, ui, main>>

ReadStart ==
  /\ Reading /\ Arg = "--start"
  /\ program = "gui" => Complete(opts)
  /\ start' = TRUE
  /\ i' = i + 1
  /\ UNCHANGED <<program, argv, opts, publish_zmq, ui, main>>

(* Mutant: the flag is not stepped over.                                   *)
MutReadPublish ==
  /\ Reading /\ Arg = "--publish_zmq"
  /\ publish_zmq' = TRUE
  /\ UNCHANGED <<program, argv, i, opts, start, ui, main>>

ReadPublish ==
  /\ Reading /\ Arg = "--publish_zmq"
  /\ publish_zmq' = TRUE
  /\ i' = i + 1
  /\ UNCHANGED <<program, argv, opts, start, ui, main>>

Usage ==
  /\ Reading /\ Arg \notin Valued \cup Flags
  /\ Exit

EndOfArgs ==
  /\ main = "parse" /\ i > Len(argv)
  /\ main' = "publisher"
  /\ UNCHANGED <<program, argv, i, opts, start, publish_zmq, ui>>

ParseArg == \/ MissingValue \/ InvalidSource \/ ReadValue \/ StartIncomplete
            \/ ReadStart \/ ReadPublish \/ Usage \/ EndOfArgs

(***************************************************************************)
(* After the loop.                                                         *)
(***************************************************************************)

(* The publisher binds its port, also when nothing will be published; an   *)
(* error of ZMQ is an exception that nobody catches.                       *)
MakePublisher ==
  /\ main = "publisher"
  /\ main' \in {"aborted", IF program = "tui" THEN "check" ELSE "configure"}
  /\ UNCHANGED <<program, argv, i, opts, start, publish_zmq, ui>>

(* kddv-tui.                                                               *)
Validate ==
  /\ main = "check"
  /\ main' = IF Complete(opts) THEN "configure" ELSE "exit"
  /\ UNCHANGED <<program, argv, i, opts, start, publish_zmq, ui>>

(* The setters of the TUI store what they are given.                       *)
ConfigureTui ==
  /\ program = "tui"
  /\ ui' = opts

(* Those of the GUI operate its widgets: the combo box has the interfaces  *)
(* of the machine only, and keeps its title for any other name.            *)
ConfigureGui ==
  /\ program = "gui"
  /\ ui' = [opts EXCEPT !["--iface"] = IF @ \in Interfaces THEN @ ELSE ""]

(* After them TUI::start runs, and GUI::start if it was asked for.         *)
Configure ==
  /\ main = "configure"
  /\ ConfigureTui \/ ConfigureGui
  /\ main' = "ui"
  /\ UNCHANGED <<program, argv, i, opts, start, publish_zmq>>

-----------------------------------------------------------------------------
Default == [o \in Valued |-> IF o = "--zmq_port" THEN "9872" ELSE ""]

Init ==
  /\ program \in {"gui", "tui"}
  /\ argv \in Argvs
  /\ i = 1
  /\ opts = Default
  /\ start = FALSE /\ publish_zmq = FALSE
  /\ ui = Default
  /\ main = "parse"

Next == ParseArg \/ MakePublisher \/ Validate \/ Configure

Spec == Init /\ [][Next]_vars

(* Nothing blocks main before the user interface runs.                     *)
FairSpec == Spec /\ WF_vars(Next)

(***************************************************************************)
(* Properties.                                                             *)
(***************************************************************************)

(* What an option can hold: an argument, or what the programs put there.   *)
Words == {argv[k] : k \in 1 .. Len(argv)} \cup {"", "9872"}

(* Every variable has its type: the loop ends at most one past argc, so    *)
(* argv is never read beyond its end.                                      *)
TypeOK ==
  /\ program \in {"gui", "tui"}
  /\ argv \in Seq(STRING)
  /\ i \in 1 .. Len(argv) + 1
  /\ opts \in [Valued -> Words] /\ ui \in [Valued -> Words]
  /\ start \in BOOLEAN /\ publish_zmq \in BOOLEAN
  /\ main \in {"parse", "publisher", "check", "configure", "ui", "exit", "aborted"}

(* The positions of argv that are read as options.                         *)
OptionAt ==
  LET at[k \in 1 .. Len(argv)] ==
        \/ k = 1
        \/ k > 1 /\ at[k - 1] /\ argv[k - 1] \in Flags
        \/ k > 2 /\ at[k - 2] /\ argv[k - 2] \in Valued
  IN  at

Given(o) == {k \in 1 .. Len(argv) : OptionAt[k] /\ argv[k] = o}

(* Each option has the value of its last occurrence in argv, or its        *)
(* default, and publishing was asked for: the loop that skips the values   *)
(* takes no value for an option and no option for a value.                 *)
LastValueCounts ==
  main \in {"publisher", "check", "configure", "ui"} =>
    /\ \A o \in Valued :
         opts[o] = IF Given(o) = {} THEN Default[o]
                   ELSE argv[(CHOOSE k \in Given(o) : \A j \in Given(o) : j <= k) + 1]
    /\ publish_zmq = (Given("--publish_zmq") # {})

(* What the source needs, as README lists it under its options.            *)
SourceHasItsOptions ==
  /\ ui["--src"] \in Sources
  /\ ui["--src"] \in {"ecat", "sniffer"} => ui["--iface"] # ""
  /\ ui["--src"] \in {"sniffer", "pcap"} => ui["--config"] # ""
  /\ ui["--src"] = "pcap" => ui["--pcap"] # ""

(* TUI::start runs only with a source and all that the source needs, in    *)
(* whatever order the options were given: it would use a null pointer      *)
(* otherwise. GUI::start does so when no option comes after --start and    *)
(* the interface exists.                                                   *)
StartedIsComplete ==
  /\ main = "ui"
  /\ \/ program = "tui"
     \/ /\ Len(argv) \in Given("--start")
        /\ opts["--iface"] \in Interfaces \cup {""}
  => SourceHasItsOptions

(* main comes to the user interface or to its end: the loop moves on       *)
(* whatever it reads.                                                      *)
Decides == <>(main \in {"ui", "exit", "aborted"})

(***************************************************************************)
(* The invariant that the proofs rest on.                                  *)
(***************************************************************************)

(* The loop stands at an option, and never behind one that has a value.    *)
Position ==
  /\ i <= Len(argv) => OptionAt[i]
  /\ i > 1 => ~(OptionAt[i - 1] /\ argv[i - 1] \in Valued)

(* The occurrences of an option that the loop has passed.                  *)
Passed(o) == {k \in Given(o) : k < i}

(* The options have the values of the last occurrences so far.             *)
ValuesSoFar ==
  \A o \in Valued :
    \/ Passed(o) = {} /\ opts[o] = Default[o]
    \/ \E k \in Passed(o) : /\ \A j \in Passed(o) : j <= k
                            /\ opts[o] = argv[k + 1]

PublishSoFar == publish_zmq = (Passed("--publish_zmq") # {})

(* kddv-gui has just validated what it has read; kddv-tui validates all.   *)
Validated ==
  /\ program = "gui" /\ i > 1 /\ i - 1 \in Given("--start") => Complete(opts)
  /\ program = "tui" /\ main \in {"configure", "ui"} => Complete(opts)

(* The user interface is told when all of argv was read.                   *)
Told ==
  /\ main \in {"publisher", "check", "configure", "ui"} => i > Len(argv)
  /\ main = "ui" /\ (program = "tui" \/ opts["--iface"] \in Interfaces \cup {""}) => ui = opts

IInv == TypeOK /\ Position /\ ValuesSoFar /\ PublishSoFar /\ Validated /\ Told
=============================================================================
