----------------------------- MODULE PhyTimings -----------------------------
(* What a PHY and the controller agree on before anything runs: the latencies *)
(* of the DRAM for a clock (litedram/common.py), the phases in which column   *)
(* and row commands leave, the latencies the PHYs of litedram/phy declare,    *)
(* and the waits that the bank machine and the multiplexer add to a write.    *)
(* A clock period is in picoseconds.                                          *)
EXTENDS ModuleDatabase

burst_lengths(memtype) ==
    CASE memtype = "SDR" -> 1
      [] memtype \in {"DDR", "LPDDR", "DDR2"} -> 4
      [] memtype \in {"DDR3", "DDR4"} -> 8
      [] memtype \in {"RPC", "LPDDR4", "LPDDR5"} -> 16

(* A table of <<data rate in MHz, cl, cwl>>: the first entry whose period is  *)
(* not longer than the clock's.                                               *)
FirstFit(table, tck, m) ==
    LET fits == {k \in DOMAIN table : tck * table[k][1] >= m * 1000000}
    IN table[CHOOSE k \in fits : \A j \in fits : k <= j]
ClTable(memtype) ==
    CASE memtype = "SDR" -> <<<<100, 2, 2>>, <<133, 3, 3>>>>
      [] memtype = "DDR2" -> <<<<400, 3, 2>>, <<533, 4, 3>>, <<677, 5, 4>>, <<800, 6, 5>>, <<1066, 7, 5>>>>
      [] memtype = "DDR3" -> <<<<800, 6, 5>>, <<1066, 7, 6>>, <<1333, 10, 7>>, <<1600, 11, 8>>, <<1866, 13, 9>>>>
      [] memtype = "DDR4" -> <<<<1333, 9, 9>>, <<1600, 11, 9>>, <<1866, 13, 10>>, <<2133, 15, 11>>, <<2400, 16, 12>>,
                               <<2666, 18, 14>>>>
(* A CWL that is not given is the CL (PhySettings); the table of SDR has none. *)
get_default_cl_cwl(memtype, tck) ==
    LET row == FirstFit(ClTable(memtype), tck, IF memtype = "SDR" THEN 1 ELSE 2)
    IN [cl |-> row[2], cwl |-> row[3]]
(* get_cl_cw of litedram/phy/lpddr4/basephy.py; rpc/basephy.py has one CL and *)
(* adds AL = 1 to it.                                                         *)
Lpddr4Table == <<<<532, 6, 4>>, <<1066, 10, 6>>, <<1600, 14, 8>>, <<2132, 20, 10>>, <<2666, 24, 12>>, <<3200, 28, 14>>,
                 <<3732, 32, 16>>, <<4266, 36, 18>>>>
get_cl_cw(tck) == LET row == FirstFit(Lpddr4Table, tck, 2) IN [cl |-> row[2], cwl |-> row[3]]
RpcLatency == [cl |-> 9, cwl |-> 9]

get_sys_latency(nphases, cas_latency) == CeilDiv(cas_latency, nphases)
get_sys_phase(nphases, sys_latency, cas_latency) == sys_latency * nphases - cas_latency

(* The phases of a PHY that computes them, and of those that fix them.         *)
Phases(n, cl, cwl) ==
    [rd |-> get_sys_phase(n, get_sys_latency(n, cl), cl), wr |-> get_sys_phase(n, get_sys_latency(n, cwl), cwl)]
\* updated_latency: a negative phase takes another cycle.
UpdatedPhase(n, phase) == phase % n
Lpddr4Phases(cl, cwl, ser_des) ==
    [rd |-> UpdatedPhase(8, get_sys_phase(8, get_sys_latency(8, cl), cl + 4 + ser_des)),
     wr |-> UpdatedPhase(8, get_sys_phase(8, get_sys_latency(8, cwl), cwl + 4))]
S6Phases == [rd |-> 0, wr |-> 1]
SdrPhases == [rd |-> 0, wr |-> 0]
\* The phase of row commands in the multiplexer, while it reads or writes.
cmdphase(n, phase) == (phase - 1) % n

(* S7DDRPHY without odelay: one phase later, in a cycle less if that wraps.    *)
A7Phases(n, cl, cwl) == [Phases(n, cl, cwl) EXCEPT !.rd = (@ + 1) % n]

-----------------------------------------------------------------------------
(* tWTP of the bank machine and tWTR of the multiplexer, in cycles.            *)
\* Mutant: the transfer of the data is not counted.
precharge_timeNoBurst(n, cwl, s) == CeilDiv(cwl, n) + s.tWR
precharge_time(n, cwl, s) == CeilDiv(cwl, n) + s.tWR + s.tCCD
\* Mutant: counted from the command, not from the data.
write_to_readCommand(n, cwl, s) == s.tWTR
write_to_read(n, cwl, s) == s.tWTR + CeilDiv(cwl, n) + s.tCCD
=============================================================================
