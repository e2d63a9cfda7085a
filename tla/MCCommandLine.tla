--------------------------- MODULE MCCommandLine ----------------------------
(* Instances of CommandLine for TLC.                                       *)
EXTENDS CommandLine

(* An option with its value, a flag, an option that is not known, an       *)
(* option with another one in the place of its value, an interface that    *)
(* does not exist.                                                         *)
Groups == {<<"--src", s>> : s \in {"ecat", "sniffer", "pcap", "file"}}
     \cup {<<o, "x">> : o \in {"--iface", "--config", "--pcap", "--zmq_port"}}
     \cup {<<"--start">>, <<"--publish_zmq">>, <<"--enable_zmq">>,
           <<"--iface", "y">>, <<"--config", "--pcap">>, <<"--pcap">>}

MCInterfaces == {"x"}

(* Up to four of them.                                                     *)
MCArgvs == {<< >>} \cup Groups
     \cup {a \o b : a \in Groups, b \in Groups}
     \cup {a \o b \o c : a \in Groups, b \in Groups, c \in Groups}
     \cup {a \o b \o c \o d : a \in Groups, b \in Groups, c \in Groups, d \in Groups}
=============================================================================
