--------------------------- MODULE SnifferConfig ----------------------------
(***************************************************************************)
(* A generated config file in the hands of the sniffer: getSlaves takes    *)
(* the type and the offsets of each slave from it, and packetCallback      *)
(* copies as many bytes as the structs of that type have, from these       *)
(* offsets in the datagram. The file does not say how long the PDOs are.   *)
(***************************************************************************)
EXTENDS GenerateConfig, SlaveDecoders

(* A slave as PacketSniffer::getSlaves sets it up from an entry.           *)
slave_info(name, rx, tx) ==
  [slave_type |-> getSlaveType(name), rx_start_offset |-> rx, tx_start_offset |-> tx]

Slice(start, size) == start .. (start + size - 1)

(* The bytes of the datagram that copyData takes for its rx and its tx.    *)
rx_data(info) == Slice(info.rx_start_offset, sizeof(rx_struct[info.slave_type]))
tx_data(info) == Slice(info.tx_start_offset, sizeof(tx_struct[info.slave_type]))

(* The slaves of the generated file.                                       *)
Sniffed == [k \in DOMAIN root |->
              slave_info(Bus[root[k].id].name, root[k].rx, root[k].tx)]

(* The bytes that SOEM maps for the PDOs of some sync managers of a slave. *)
Bytes(s, sms) ==
  LET BitsOf(pdo) == FoldLeft(LAMBDA sum, bitlen : sum + bitlen, 0, pdo)
      BitsOfSM(k) == FoldLeft(LAMBDA sum, pdo : sum + BitsOf(pdo), 0, s.sms[k].pdos)
  IN  MapThenSumSet(BitsOfSM, sms) \div 8

OutputBytes(s) == Bytes(s, {k \in 3 .. Len(s.sms) : IsOutput(s, k)})
InputBytes(s)  == Bytes(s, {k \in 3 .. Len(s.sms) : IsInput(s, k)})

(* What a sniffer copies from the datagrams for each slave of a generated  *)
(* file are the outputs and the inputs of that slave, all of them and not  *)
(* a byte more: the scan found where they start, the headers say how long  *)
(* they are. And it can construct every slave: getSlaves dereferences a    *)
(* null pointer for a name that getSlaveType does not know.                *)
SnifferReadsOwnPdos ==
  /\ \A k \in DOMAIN root : Sniffed[k].slave_type # UNKNOWN_SLAVE
  /\ pc = "done" /\ lost = 0 =>
       \A k \in DOMAIN root : LET s == Bus[root[k].id] IN
         Plain(s) =>
           /\ rx_data(Sniffed[k]) = Slice(s.outputs, OutputBytes(s))
           /\ tx_data(Sniffed[k]) = Slice(s.inputs, InputBytes(s))

(* The supported devices map as many bytes as the headers declare for      *)
(* them: the file cannot tell a sniffer anything else.                     *)
DeclaredLengths ==
  \A n \in DOMAIN Bus : LET s == Bus[n]
                            type == getSlaveType(s.name) IN
    Plain(s) /\ Written(s.name) => /\ OutputBytes(s) = sizeof(rx_struct[type])
                                   /\ InputBytes(s) = sizeof(tx_struct[type])
=============================================================================
