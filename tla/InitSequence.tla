---------------------------- MODULE InitSequence ----------------------------
(* litedram/init.py: the sequences that initialise the DRAM, as the C and     *)
(* Python headers write them for the software that runs them through the DFI  *)
(* injector.  A step is the pins it drives, an address and a bank address; a  *)
(* step without a chip select is a write of the control register.  Delays and *)
(* names of steps are left out.                                               *)
EXTENDS PhyTimings, Sequences, FiniteSets, FiniteSetsExt, SequencesExt

bit(n, val) == (val \div 2^n) % 2
field(val, lo, width) == (val \div 2^lo) % 2^width

cmds == [ PRECHARGE_ALL |-> {"ras", "we", "cs"}, MODE_REGISTER |-> {"ras", "cas", "we", "cs"},
          AUTO_REFRESH |-> {"ras", "cas", "cs"}, ZQC |-> {"we", "cs"}, ACT |-> {"ras", "cs"}, SELECT |-> {"cs"},
          CKE |-> {"cke", "odt", "reset_n"}, UNRESET |-> {"odt", "reset_n"}, RESET |-> {"odt"} ]
Step(cmd, a, ba) == [pins |-> cmds[cmd], a |-> a, ba |-> ba]
MRS(a, ba) == Step("MODE_REGISTER", a, ba)
A10 == 1024

\* Mutant: nothing is swapped.
swap_bitNone(num, a, b) == num
swap_bit(num, a, b) ==
    LET change == bit(b, num) - bit(a, num) IN num + change * 2^a - change * 2^b
invert(num, bits) == num + MapThenSumSet(LAMBDA k : (1 - 2 * bit(k, num)) * 2^k, bits)

\* <<offset, width, value>> fields; a value that is too wide fails.
reg(fields) ==
    CASE \A k \in DOMAIN fields : fields[k][3] < 2^fields[k][2] ->
         MapThenSumSet(LAMBDA k : fields[k][3] * 2^fields[k][1], DOMAIN fields)

-----------------------------------------------------------------------------
(* SDR, DDR, LPDDR and DDR2: the mode register twice, with the DLL reset and  *)
(* without it, with two refreshes between.                                    *)
log2_int == 1 :> 0 @@ 2 :> 1 @@ 4 :> 2 @@ 8 :> 3
reset_dll == 256
Classic(mr, extended, last) ==
    <<Step("CKE", 0, 0), Step("PRECHARGE_ALL", A10, 0)>> \o extended \o
    <<MRS(mr + reset_dll, 0), Step("PRECHARGE_ALL", A10, 0), Step("AUTO_REFRESH", 0, 0), Step("AUTO_REFRESH", 0, 0),
      MRS(mr, 0)>> \o last
get_sdr_phy_init_sequence(p) == Classic(log2_int[p.nphases] + p.cl * 16, <<>>, <<>>)
get_ddr_phy_init_sequence(p) == Classic(log2_int[4] + p.cl * 16, <<MRS(0, 1)>>, <<>>)
get_lpddr_phy_init_sequence(p) == Classic(log2_int[4] + p.cl * 16, <<MRS(0, 2)>>, <<>>)
get_ddr2_phy_init_sequence(p) ==
    Classic(log2_int[4] + p.cl * 16 + 2 * 512, <<MRS(0, 3), MRS(0, 2), MRS(0, 1)>>, <<MRS(7 * 128, 1), MRS(0, 1)>>)

-----------------------------------------------------------------------------
(* DDR3 and DDR4: tables of codes; a value that is not in its table fails.    *)
(* Electrical settings are numbers of rows of the tables.                     *)
Codes(values) == [v \in {values[k] : k \in DOMAIN values} |-> (CHOOSE k \in DOMAIN values : values[k] = v) - 1]
WrDDR3 == Codes(<<16, 5, 6, 7, 8, 10, 12, 14>>)
ClDDR3 == 5 :> 2 @@ 6 :> 4 @@ 7 :> 6 @@ 8 :> 8 @@ 9 :> 10 @@ 10 :> 12 @@ 11 :> 14 @@ 12 :> 1 @@ 13 :> 3 @@ 14 :> 5
ClDDR4 == Codes(<<9, 10, 11, 12, 13, 14, 15, 16, 18, 20, 22, 24, 23, 17, 19, 21, 25, 26, 27, 28, 29, 30, 31, 32>>)
WrDDR4 == Codes(<<10, 12, 14, 16, 18, 20, 24, 22, 26, 28>>)
CwlDDR4 == Codes(<<9, 10, 11, 12, 14, 16, 18, 20>>)
FineRefresh == "1x" :> 0 @@ "2x" :> 1 @@ "4x" :> 2
TccdDDR4 == Codes(<<4, 5, 6, 7, 8>>)

\* The write recovery: a multiple of tWTR, at least the lowest code.
WriteRecovery(p) == Max({p.tWTR * p.nphases, IF p.memtype = "DDR3" THEN 5 ELSE 10})
Recoverable(p) == /\ p.memtype = "DDR3" => WriteRecovery(p) \in DOMAIN WrDDR3
                  /\ p.memtype = "DDR4" => WriteRecovery(p) \in DOMAIN WrDDR4

get_ddr3_phy_init_sequence(p) ==
    LET code == ClDDR3[p.cl]
        rtt_nom == IF p.dll_off THEN 0 ELSE 1
        rtt_wr == IF p.dll_off THEN 0 ELSE 1
        ron == 1
        mr0 == bit(0, code) * 4 + field(code, 1, 3) * 16 + 256 + WrDDR3[WriteRecovery(p)] * 512
        mr1 == bit(0, ron) * 2 + bit(1, ron) * 32 + bit(0, rtt_nom) * 4 + bit(1, rtt_nom) * 64 + bit(2, rtt_nom) * 512
               + IF p.dll_off THEN 1 ELSE 0
        mr2 == (p.cwl - 5) * 8 + rtt_wr * 512
    IN <<Step("UNRESET", 0, 0), Step("CKE", 0, 0), MRS(mr2, 2), MRS(0, 3), MRS(mr1, 1), MRS(mr0, 0),
         Step("ZQC", A10, 0)>>

\* The control words of the register of a module, JESD82-31A.
get_coarse_speed(p) ==
    IF p.rcd_pll_bypass THEN 7
    ELSE LET speeds == <<1600, 1866, 2133, 2400, 2666, 2933, 3200>>
             fits == {k \in DOMAIN speeds : p.tck * speeds[k] >= 2000000}
         IN (CHOOSE k \in fits : \A j \in fits : k <= j) - 1
get_fine_speed(p) == LET freq == 2000000 \div p.tck IN Min({Max({(freq - 1240) \div 20, 0}), 97})
RdimmInit(p) ==
    [k \in 1..8 |-> MRS(<<96, 240 + 4, 48 + 1, 64 + 1, 80 + 1, 208 + 4, 160 + get_coarse_speed(p),
                          768 + get_fine_speed(p)>>[k], 7)]
get_ddr4_phy_init_sequence(p) ==
    LET cl == ClDDR4[p.cl]
        wr == WrDDR4[WriteRecovery(p)]
        rtt_nom == 3
        mr0 == bit(0, cl) * 4 + field(cl, 1, 3) * 16 + bit(4, cl) * 4096 + 256 + field(wr, 0, 3) * 512 + bit(3, wr) * 8192
        mr1 == 1 + bit(0, rtt_nom) * 256 + bit(1, rtt_nom) * 512 + bit(2, rtt_nom) * 1024
        mr2 == CwlDDR4[p.cwl] * 8 + 1 * 512
        mr3 == FineRefresh[p.fine_refresh_mode] * 64
        mr6 == TccdDDR4[4] * 1024
    IN <<Step("UNRESET", 0, 0), Step("CKE", 0, 0)>> \o (IF p.is_rdimm THEN RdimmInit(p) ELSE <<>>) \o
       <<MRS(mr3, 3), MRS(mr6, 6), MRS(1024, 5), MRS(0, 4), MRS(mr2, 2), MRS(mr1, 1), MRS(mr0, 0), Step("ZQC", A10, 0)>>

-----------------------------------------------------------------------------
(* RPC and the low power types address more than registers: a bank address    *)
(* picks the special command of a ZQC, and MPC is one of them.                *)
SpecialCmd == [MPC |-> 0, MRR |-> 1, NOP |-> 2]
CL_RPC == 8 :> 0 @@ 10 :> 1 @@ 11 :> 2 @@ 13 :> 3 @@ 3 :> 6
ZOUT_60 == 8
ODT_30 == 4
get_rpc_phy_init_sequence(p) ==
    LET mr_a == CL_RPC[p.cl - 1] + ZOUT_60 * 8 + ODT_30 * 128
        mr_ba == 1
    IN <<Step("UNRESET", 0, 0), Step("SELECT", 0, 0), Step("RESET", 0, 0), Step("ACT", 0, 0), Step("UNRESET", 0, 0),
         Step("PRECHARGE_ALL", A10, 0), MRS(mr_a, mr_ba), Step("RESET", 0, 0), Step("ZQC", A10, 0),
         Step("UNRESET", 0, 0)>>

NwrLPDDR4 == 6 :> 6 @@ 10 :> 10 @@ 14 :> 16 @@ 20 :> 20 @@ 24 :> 24 @@ 28 :> 30 @@ 32 :> 34 @@ 36 :> 40
\* Tenths of a percent; the two ranges begin at 10 and at 22 percent.
vref_ranges(range, vref) == (vref - IF range = 0 THEN 100 ELSE 220) \div 4
odt_map == "disable" :> 0 @@ "RZQ/1" :> 1 @@ "RZQ/2" :> 2 @@ "RZQ/3" :> 3 @@ "RZQ/4" :> 4 @@ "RZQ/5" :> 5 @@ "RZQ/6" :> 6
mrLPDDR4(p) ==
    1 :> reg(<<<<0, 2, 0>>, <<2, 1, 1>>, <<4, 3, Codes(<<6, 10, 16, 20, 24, 30, 34, 40>>)[NwrLPDDR4[p.cl]]>>>>)
    @@ 2 :> reg(<<<<0, 3, Codes(<<6, 10, 14, 20, 24, 28, 32, 36>>)[p.cl]>>,
                  <<3, 3, Codes(<<4, 6, 8, 10, 12, 14, 16, 18>>)[p.cwl]>>>>)
    @@ 3 :> reg(<<<<0, 1, 1>>, <<3, 3, odt_map["RZQ/2"]>>>>)
    @@ 11 :> reg(<<<<0, 3, odt_map["RZQ/2"]>>, <<4, 3, odt_map["RZQ/2"]>>>>)
    @@ 12 :> reg(<<<<0, 6, vref_ranges(1, 304)>>, <<6, 1, 1>>>>)
    @@ 14 :> reg(<<<<0, 6, vref_ranges(1, 304)>>, <<6, 1, 1>>>>)
    @@ 13 :> 0
\* The registers in the order of their addresses.
RegisterWrites(mr) ==
    [k \in 1..Cardinality(DOMAIN mr) |->
        LET ma == CHOOSE m \in DOMAIN mr : Cardinality({j \in DOMAIN mr : j < m}) = k - 1
        IN CASE mr[ma] < 256 -> MRS(mr[ma], ma)]
ZQC_START4 == 79
ZQC_LATCH4 == 81
get_lpddr4_phy_init_sequence(p) ==
    <<Step("RESET", 0, 0), Step("UNRESET", 0, 0), Step("CKE", 0, 0)>> \o RegisterWrites(mrLPDDR4(p)) \o
    <<Step("ZQC", ZQC_START4, SpecialCmd.MPC), Step("ZQC", ZQC_LATCH4, SpecialCmd.MPC)>>

(* FREQUENCY_RANGES of litedram/phy/lpddr5/basephy.py, WL set A and RL set 0: *)
(* MR2[3:0], the rate in Mbps, and in clocks WL, tWCKENL for a write, the     *)
(* static and the toggling preamble of a write, RL, tWCKENL and the toggling  *)
(* preamble of a read, and nWR.                                               *)
FreqRange(mr, rate, wl, enl_wr, static, toggle_wr, rl, enl_rd, toggle_rd, nwr) ==
    [mr |-> mr, rate |-> rate, wl |-> wl, t_wckenl_wr |-> enl_wr, t_wckpre_static |-> static,
     t_wckpre_toggle_wr |-> toggle_wr, rl |-> rl, t_wckenl_rd |-> enl_rd, t_wckpre_toggle_rd |-> toggle_rd,
     n_wr |-> nwr, n_wr_op |-> mr]
FREQUENCY_RANGES(wck_ck_ratio) ==
    IF wck_ck_ratio = 2
    THEN <<FreqRange(0, 533, 4, 1, 1, 3, 6, 0, 6, 5), FreqRange(1, 1067, 4, 0, 2, 3, 8, 0, 7, 10),
           FreqRange(2, 1600, 6, 1, 2, 4, 10, 1, 8, 14), FreqRange(3, 2133, 8, 2, 3, 4, 12, 2, 8, 19),
           FreqRange(4, 2750, 8, 1, 4, 4, 16, 3, 10, 24), FreqRange(5, 3200, 10, 3, 4, 4, 18, 5, 10, 28)>>
    ELSE <<FreqRange(0, 533, 2, 0, 1, 2, 3, 0, 3, 3), FreqRange(1, 1067, 2, 0, 1, 2, 4, 0, 4, 5),
           FreqRange(2, 1600, 3, 1, 1, 2, 5, 1, 4, 7), FreqRange(3, 2133, 4, 1, 2, 2, 6, 1, 4, 10),
           FreqRange(4, 2750, 4, 1, 2, 2, 8, 2, 5, 12), FreqRange(5, 3200, 5, 2, 2, 2, 9, 3, 5, 14),
           FreqRange(6, 3733, 6, 2, 3, 2, 10, 3, 5, 16), FreqRange(7, 4267, 6, 2, 3, 2, 12, 4, 6, 19),
           FreqRange(8, 4800, 7, 3, 3, 2, 13, 5, 6, 21), FreqRange(9, 5500, 8, 3, 4, 2, 15, 6, 6, 24),
           FreqRange(10, 6000, 9, 4, 4, 2, 16, 6, 7, 26), FreqRange(11, 6400, 9, 4, 4, 2, 17, 7, 7, 28)>>
\* The rows are told apart by their latencies.
get_frange(p) ==
    LET rows == FREQUENCY_RANGES(p.wck_ck_ratio)
        fits == {k \in DOMAIN rows : rows[k].wl = p.cwl /\ rows[k].rl = p.cl}
    IN rows[CHOOSE k \in fits : \A j \in fits : k <= j]
\* Halves of a percent from 10 up.
get_vref(percent) == (percent - 10) * 2
mrLPDDR5(p) ==
    LET fr == get_frange(p)
        rzq == odt_map
    IN 1 :> reg(<<<<4, 4, fr.mr>>>>)
       @@ 2 :> reg(<<<<0, 4, fr.mr>>, <<4, 4, fr.n_wr_op>>>>)
       @@ 3 :> reg(<<<<0, 3, rzq["RZQ/2"]>>, <<3, 2, 2>>>>)
       @@ 10 :> 0
       @@ 11 :> reg(<<<<0, 3, rzq["RZQ/2"]>>, <<4, 3, rzq["RZQ/2"]>>>>)
       @@ 12 :> reg(<<<<0, 7, get_vref(34)>>>>)
       @@ 13 :> 0
       @@ 14 :> reg(<<<<0, 7, get_vref(34)>>>>)
       @@ 15 :> get_vref(34)
       @@ 17 :> reg(<<<<0, 3, rzq["disable"]>>, <<3, 1, 1>>, <<4, 1, 1>>, <<5, 1, 1>>>>)
       @@ 18 :> reg(<<<<0, 3, rzq["disable"]>>, <<7, 1, IF p.wck_ck_ratio = 2 THEN 1 ELSE 0>>>>)
       @@ 20 :> 1
       @@ 22 :> 0
       @@ 28 :> reg(<<<<2, 2, 1>>>>)
ZQC_LATCH5 == 134
get_lpddr5_phy_init_sequence(p) ==
    <<Step("RESET", 0, 0), Step("UNRESET", 0, 0), Step("ZQC", 0, SpecialCmd.NOP)>> \o RegisterWrites(mrLPDDR5(p)) \o
    <<Step("ZQC", ZQC_LATCH5, SpecialCmd.MPC)>>

get_sdram_phy_init_sequence(p) ==
    CASE p.memtype = "SDR" -> get_sdr_phy_init_sequence(p)
      [] p.memtype = "DDR" -> get_ddr_phy_init_sequence(p)
      [] p.memtype = "LPDDR" -> get_lpddr_phy_init_sequence(p)
      [] p.memtype = "DDR2" -> get_ddr2_phy_init_sequence(p)
      [] p.memtype = "DDR3" -> get_ddr3_phy_init_sequence(p)
      [] p.memtype = "RPC" -> get_rpc_phy_init_sequence(p)
      [] p.memtype = "DDR4" -> get_ddr4_phy_init_sequence(p)
      [] p.memtype = "LPDDR4" -> get_lpddr4_phy_init_sequence(p)
      [] p.memtype = "LPDDR5" -> get_lpddr5_phy_init_sequence(p)

-----------------------------------------------------------------------------
(* The header: a step is sent again for the other side of a registered module *)
(* with the bits inverted that its register inverts, and a mode register      *)
(* write is sent to each half of a clam shell, to the lower one with the      *)
(* wires swapped that the board swaps.  cs says which chip selects it drives. *)
\* Mutant: the other side of a registered module gets the same bits.
SidesSame(p, step) == IF p.is_rdimm /\ step.ba # 7 THEN <<step, step>> ELSE <<step>>
Sides(p, step) ==
    IF p.is_rdimm /\ step.ba # 7
    THEN <<step, [step EXCEPT !.a = invert(@, {3, 4, 5, 6, 7, 8, 9, 11, 13}), !.ba = invert(@, 0..3)]>>
    ELSE <<step>>
Bottom(step) ==
    [step EXCEPT !.a = swap_bit(swap_bit(swap_bit(swap_bit(@, 3, 4), 5, 6), 7, 8), 11, 13),
                 !.ba = swap_bit(@, 0, 1)]
Halves(p, step) ==
    IF p.is_clam_shell /\ step.pins = cmds.MODE_REGISTER
    THEN <<[step EXCEPT !.pins = @ \cup {"cs_top"}], [Bottom(step) EXCEPT !.pins = @ \cup {"cs_bottom"}]>>
    ELSE <<step>>
Header(p) ==
    FlattenSeq([k \in DOMAIN get_sdram_phy_init_sequence(p) |->
        LET sides == Sides(p, get_sdram_phy_init_sequence(p)[k])
        IN FlattenSeq([j \in DOMAIN sides |-> Halves(p, sides[j])])])
=============================================================================
