------------------------------ MODULE PhyData ------------------------------
(* Write bursts in the PHYs of litedram/phy for DDR memories: the word that   *)
(* the controller gives write_latency cycles after its command, the chunks in *)
(* which it leaves, and the drivers of DQ and DQS, which follow a delay line  *)
(* of the commands.  Serialisers delay data and drivers alike and are left    *)
(* out, as are the delays that software calibrates.                           *)
EXTENDS DeviceSpacing

(* What tells the PHYs apart: DRAM clocks in a cycle, the cycles by which the *)
(* first data is earlier than the write latency in whole cycles, and the      *)
(* cycles in which a burst leaves.                                            *)
Phy(n, early, burst_cycles) == [n |-> n, early |-> early, burst_cycles |-> burst_cycles]
S7DDRPHY(n) == Phy(n, 1, 1)
USDDRPHY == Phy(4, 1, 1)
ECP5DDRPHY == Phy(2, 0, 2)
NexusDDRPHY == Phy(2, 1, 2)
GW2DDRPHY == Phy(2, 1, 2)
GW5DDRPHY(n) == Phy(n, 1, 4 \div n)
\* The PHYs with the CWLs of the memories they drive.
CwlOf(memtype) == {ClTable(memtype)[k][3] : k \in DOMAIN ClTable(memtype)}
PhyBoards ==
    {<<phy, cwl>> : phy \in {S7DDRPHY(4), USDDRPHY, ECP5DDRPHY, NexusDDRPHY, GW2DDRPHY, GW5DDRPHY(2), GW5DDRPHY(4)},
                    cwl \in CwlOf("DDR3")}
    \cup {<<USDDRPHY, cwl>> : cwl \in CwlOf("DDR4")} \cup {<<S7DDRPHY(n), cwl>> : n \in {2, 4}, cwl \in CwlOf("DDR2")}
(* Left out: a CWL of one cycle, where the preamble's tap is numbered -1.     *)
HasPreambleTap(phy, cwl) == get_sys_latency(phy.n, cwl) > phy.early

write_latency_of(phy, cwl) == get_sys_latency(phy.n, cwl) - phy.early
\* Mutant: a PHY that begins early looks at the tap of one that does not.
write_tapLate(phy, cwl) == get_sys_latency(phy.n, cwl)
write_tap(phy, cwl) == get_sys_latency(phy.n, cwl) - phy.early

(* A write is its number, 0 is none; DQ is the chunk that leaves.             *)
DataInit ==
    \E board \in PhyBoards :
        /\ HasPreambleTap(board[1], board[2])
        /\ dev = [ phy |-> board[1], write_latency |-> write_latency_of(board[1], board[2]), tap |-> write_tap(board[1], board[2]),
                   wrdata_en |-> [k \in 0..(write_tap(board[1], board[2]) + 3) |-> 0], last |-> 0, since |-> 2,
                   dq_o_data_d |-> 0, dq |-> <<0, 0>>, dqs_oe |-> FALSE, ended |-> FALSE ]

dq_oe == \E k \in 0..(dev.phy.burst_cycles - 1) : dev.wrdata_en[dev.tap + k] # 0
dqs_preamble == dev.wrdata_en[dev.tap - 1] # 0 /\ dev.wrdata_en[dev.tap] = 0
dqs_postamble ==
    LET last == dev.tap + dev.phy.burst_cycles - 1
    IN dev.wrdata_en[last + 1] # 0 /\ dev.wrdata_en[last] = 0
\* A PHY with two chunks to a word sends the second from a register.
bl8_chunk == dev.phy.burst_cycles = 2 /\ dev.wrdata_en[dev.tap] # 0

(* A cycle with a write, bursts apart from the last one, or without.          *)
DataNext ==
    \E write \in {0} \cup (IF dev.since >= dev.phy.burst_cycles THEN {1 + (dev.last % 2)} ELSE {}) :
      LET word == IF dev.write_latency = 0 THEN write ELSE dev.wrdata_en[dev.write_latency - 1]
      IN dev' = [dev EXCEPT
           !.wrdata_en = [k \in DOMAIN @ |-> IF k = 0 THEN write ELSE @[k - 1]],
           !.last = IF write = 0 THEN @ ELSE write,
           !.since = IF write = 0 THEN (IF @ = 2 THEN 2 ELSE @ + 1) ELSE 1,
           !.dq_o_data_d = word,
           !.dq = IF bl8_chunk THEN <<dev.dq_o_data_d, 2>> ELSE <<word, 1>>,
           !.dqs_oe = dq_oe \/ dqs_preamble \/ dqs_postamble,
           !.ended = dev.wrdata_en[dev.tap + dev.phy.burst_cycles - 1] # 0]

-----------------------------------------------------------------------------
(* Every chunk of a burst leaves while DQ is driven, in its turn and of the   *)
(* word that was given for this write; and DQS is driven from a cycle before  *)
(* each burst to a cycle after it.                                            *)
DataMeetsCommand ==
    /\ \A k \in 0..(dev.phy.burst_cycles - 1) :
         LET write == dev.wrdata_en[dev.tap + k]
         IN write # 0 => dev.dq = <<write, k + 1>> /\ (k = 0 => dev.dqs_oe)
    /\ dev.ended => dq_oe \/ dqs_postamble
=============================================================================
