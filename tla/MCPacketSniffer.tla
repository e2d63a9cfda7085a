-------------------------- MODULE MCPacketSniffer ---------------------------
(* Instances of PacketSniffer for TLC.                                     *)
EXTENDS PacketSniffer

Frame(src, cmd, wkcnt) == [src |-> src, cmd |-> cmd, wkcnt |-> wkcnt]

(* Each cycle is seen twice, on its way out and back; mailbox traffic and a*)
(* cycle that one slave did not answer are between them.                   *)
MCCapture == << Frame("master", "LRW", 0), Frame("slaves", "LRW", 6),
                Frame("slaves", "other", 1), Frame("slaves", "LRW", 3),
                Frame("slaves", "LRW", 6) >>

File(kind, names) == [kind |-> kind, names |-> names]

MCConfigFiles == { File("unreadable", << >>), File("empty", << >>),
                   File("malformed", << >>), File("json", <<"EK1100">>),
                   File("json", << >>),
                   File("json", <<"KELO_ROBILE", "KELOD105">>) }
=============================================================================
