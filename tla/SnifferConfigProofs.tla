------------------------ MODULE SnifferConfigProofs -------------------------
(***************************************************************************)
(* What a sniffer reads with a generated file, for every ring of slaves.   *)
(***************************************************************************)
EXTENDS SnifferConfig, GenerateConfigProofs

(* The slaves of the file are supported ones of the ring.                  *)
LEMMA ListedAreKnown ==
  ASSUME ListedSoFar, NEW k \in DOMAIN root
  PROVE  /\ root[k].id \in DOMAIN Bus /\ Written(Bus[root[k].id].name)
         /\ Sniffed[k] = slave_info(Bus[root[k].id].name, root[k].rx, root[k].tx)
         /\ Sniffed[k].slave_type = getSlaveType(Bus[root[k].id].name)
         /\ Sniffed[k].slave_type # UNKNOWN_SLAVE
<1>1. root[k].id \in DOMAIN Bus /\ Written(Bus[root[k].id].name)
  BY DEF ListedSoFar
<1>2. Sniffed[k] = slave_info(Bus[root[k].id].name, root[k].rx, root[k].tx)
  BY DEF Sniffed
<1>3. Sniffed[k].slave_type = getSlaveType(Bus[root[k].id].name)
  BY <1>2 DEF slave_info
<1> QED
  BY <1>1, <1>2, <1>3, WrittenAreKnown

(* If the devices have PDOs as long as the structs of the headers, then a  *)
(* sniffer with the file of a scan whose reads were all answered copies    *)
(* the outputs and the inputs of each slave, and nothing of another one;   *)
(* and it can construct every slave, whatever was lost.                    *)
THEOREM SnifferReadsPdos ==
  ASSUME DeclaredLengths
  PROVE  Spec => []SnifferReadsOwnPdos
<1>1. ASSUME IInv PROVE SnifferReadsOwnPdos
  <2>1. ListedSoFar /\ (lost = 0 => OffsetsAreStarts)
    BY <1>1 DEF IInv, ScanInv, AnsweredInv, AllAnswered
  <2>2. \A k \in DOMAIN root : Sniffed[k].slave_type # UNKNOWN_SLAVE
    BY <2>1, ListedAreKnown
  <2>3. ASSUME lost = 0, NEW k \in DOMAIN root, Plain(Bus[root[k].id])
        PROVE  LET s == Bus[root[k].id] IN
                 /\ rx_data(Sniffed[k]) = Slice(s.outputs, OutputBytes(s))
                 /\ tx_data(Sniffed[k]) = Slice(s.inputs, InputBytes(s))
    <3> DEFINE s == Bus[root[k].id]
    <3>1. /\ root[k].id \in DOMAIN Bus /\ Written(s.name)
          /\ Sniffed[k] = slave_info(s.name, root[k].rx, root[k].tx)
          /\ Sniffed[k].slave_type = getSlaveType(s.name)
      BY <2>1, ListedAreKnown
    <3>2. root[k].rx = s.outputs /\ root[k].tx = s.inputs
      BY <2>1, <2>3 DEF OffsetsAreStarts
    <3>3. Sniffed[k].rx_start_offset = s.outputs /\ Sniffed[k].tx_start_offset = s.inputs
      BY <3>1, <3>2 DEF slave_info
    <3>4. /\ OutputBytes(s) = sizeof(rx_struct[getSlaveType(s.name)])
          /\ InputBytes(s) = sizeof(tx_struct[getSlaveType(s.name)])
      BY <2>3, <3>1 DEF DeclaredLengths
    <3> QED
      BY <3>1, <3>3, <3>4 DEF rx_data, tx_data
  <2> QED
    BY <2>2, <2>3 DEF SnifferReadsOwnPdos
<1> QED
  BY <1>1, Invariant, PTL
=============================================================================
