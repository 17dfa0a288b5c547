------------------------------ MODULE DeviceInit ------------------------------
(* The initialisation from end to end: the software runs the header through   *)
(* the registers of the DFI injector (litedram/dfii.py), and the chips behind *)
(* the board's wires take what reaches them.  Boards, chips and the register  *)
(* of a module are outside the repository; the chips of LPDDR4 and LPDDR5 are *)
(* those of the simulators.                                                   *)
EXTENDS DeviceSpacing, LpddrCommands

(* PhaseInjector: the phase while a command is issued; cs holds the ranks     *)
(* whose chip select is low.                                                  *)
PhaseInjector(command, address, baddress, ranks) ==
    [ cs |-> CASE "cs_top" \in command -> {0}
               [] "cs_top" \notin command /\ "cs_bottom" \in command -> {1}
               [] OTHER -> IF "cs" \in command THEN ranks ELSE {},
      pins |-> command \cap {"ras", "cas", "we"}, a |-> address, ba |-> baddress ]
Deselected(ranks) == PhaseInjector({}, 0, 0, ranks)
(* DFIInjector: who drives the PHY.  The controller's chip select goes to     *)
(* both halves of a clam shell.                                               *)
DFIInjector(control, ext_dfi_sel, slave, ext_dfi, csr_dfi, ranks) ==
    CASE "sel" \notin control -> csr_dfi
      [] "sel" \in control /\ ext_dfi_sel -> ext_dfi
      [] OTHER -> [slave EXCEPT !.cs = IF @ = {} THEN {} ELSE ranks]

-----------------------------------------------------------------------------
(* The PHY settings that are initialised for; sheet is what the data sheet of *)
(* the module says, where there is one.                                       *)
Base == [memtype |-> "SDR", cl |-> 2, cwl |-> 2, nphases |-> 1, tWTR |-> 1, fine_refresh_mode |-> "none", tck |-> 10000,
         is_clam_shell |-> FALSE, is_rdimm |-> FALSE, rcd_pll_bypass |-> FALSE, dll_off |-> FALSE, wck_ck_ratio |-> 2, sheet |-> None]
Boards(p) ==
    {p} \cup (IF p.memtype = "DDR4"
              THEN {[p EXCEPT !.is_clam_shell = TRUE]} \cup
                   {[p EXCEPT !.is_rdimm = TRUE, !.rcd_pll_bypass = bypass] : bypass \in BOOLEAN}
              ELSE {})
FromModule(m, g, mode, tck, n) ==
    LET l == get_default_cl_cwl(m.memtype, tck)
        t == get(m, g, mode)
    IN [Base EXCEPT !.memtype = m.memtype, !.cl = l.cl, !.cwl = l.cwl, !.nphases = n, !.tck = tck,
                    !.fine_refresh_mode = mode, !.tWTR = TimingSettings(t, n, tck).tWTR,
                    !.sheet = [name \in {"tWR", "tRP", "tCCD"} |-> t[name]]]
PhySettings ==
    {[Base EXCEPT !.cl = cl, !.nphases = n] : cl \in {2, 3}, n \in {1, 2}}
    \cup {[Base EXCEPT !.memtype = t, !.cl = 3, !.nphases = 2] : t \in {"DDR", "LPDDR"}}
    \cup {[Base EXCEPT !.memtype = "DDR2", !.cl = cl, !.nphases = 2] : cl \in 3..7}
    \cup {[Base EXCEPT !.memtype = "DDR3", !.cl = 6, !.cwl = 6, !.nphases = 4, !.dll_off = TRUE]}
    \cup {[Base EXCEPT !.memtype = "RPC", !.cl = 9, !.cwl = 9, !.nphases = 4]}
    \cup {[Base EXCEPT !.memtype = "LPDDR4", !.cl = Lpddr4Table[k][2], !.cwl = Lpddr4Table[k][3], !.nphases = 8]
            : k \in DOMAIN Lpddr4Table}
    \cup UNION {{[Base EXCEPT !.memtype = "LPDDR5", !.cl = FREQUENCY_RANGES(r)[k].rl, !.cwl = FREQUENCY_RANGES(r)[k].wl,
                              !.wck_ck_ratio = r] : k \in DOMAIN FREQUENCY_RANGES(r)} : r \in {2, 4}}
    \cup {q \in UNION {Boards(FromModule(m, g, mode, tck, n)) :
             <<m, g, mode, tck, n>> \in UNION {{<<m>> \o x : x \in m.speedgrade_timings \X Modes(m) \X Periods(m.memtype)
                                                              \X Ratios(m.memtype)}
                                                : m \in {c \in SpacingModules : c.memtype \in {"DDR3", "DDR4"}}}}
          : Recoverable(q)}

Ranks(p) == IF p.is_clam_shell THEN {0, 1} ELSE {0}
ChipsOf(p) ==
    CASE p.is_clam_shell -> {"top", "bottom"}
      [] p.is_rdimm -> {"A", "B"}
      [] OTHER -> {"chip"}
NewChip == [log |-> <<>>, device |-> Device, fsm |-> "IDLE"]
InitInit ==
    \E p \in PhySettings :
        dev = [p |-> p, header |-> Header(p), next |-> 1, chips |-> [c \in ChipsOf(p) |-> NewChip],
               control |-> {"cke", "odt", "reset_n"}]

-----------------------------------------------------------------------------
(* What of a phase arrives at a chip: the lower chips of a clam shell are     *)
(* wired crosswise, the register of a module inverts bits for its B side and  *)
(* lets the highest bank bit pick the side of a mode register write; writes   *)
(* to bank address 7 are its own.                                             *)
Arrives(p, chip, phase) ==
    LET mrs == phase.pins = {"ras", "cas", "we"}
    IN CASE chip = "top" -> 0 \in phase.cs
         [] chip = "bottom" -> 1 \in phase.cs
         [] chip \in {"A", "B"} -> /\ phase.cs # {}
                                   /\ mrs => phase.ba # 7 /\ bit(3, phase.ba) = (IF chip = "A" THEN 0 ELSE 1)
         [] OTHER -> phase.cs # {}
Crossed(num, pairs) ==
    num + MapThenSumSet(LAMBDA pr : (bit(pr[2], num) - bit(pr[1], num)) * (2^pr[1] - 2^pr[2]), pairs)
AtChip(chip, phase) ==
    CASE chip = "bottom" -> [phase EXCEPT !.a = Crossed(@, {<<3, 4>>, <<5, 6>>, <<7, 8>>, <<11, 13>>}),
                                          !.ba = Crossed(@, {<<0, 1>>})]
      [] chip = "B" -> [phase EXCEPT !.a = @ + MapThenSumSet(LAMBDA k : (1 - 2 * bit(k, phase.a)) * 2^k, {3, 4, 5, 6, 7, 8, 9, 11, 13}),
                                     !.ba = 15 - @]
      [] OTHER -> phase

\* A chip of the older types logs what it takes while CKE is high.
Log(chip, phase, control) ==
    IF "cke" \notin control \/ "reset_n" \notin control THEN chip
    ELSE [chip EXCEPT !.log = Append(@, CASE phase.pins = DfiPins.MRS -> <<"MRS", phase.ba, phase.a>>
                                          [] phase.pins = DfiPins.PRE -> <<"PRE", bit(10, phase.a)>>
                                          [] phase.pins = DfiPins.REF -> <<"REF">>
                                          [] phase.pins = DfiPins.ZQC -> <<"ZQ", bit(10, phase.a)>>)]
Log4(chip, phase) ==
    LET slots == Slots4(phase, TRUE)
        took == IF slots[1].cs = 1 THEN Take4(chip.device, slots[1].ca, slots[2].ca) ELSE chip.device
        then == Take4(took, slots[3].ca, slots[4].ca)
    IN [chip EXCEPT !.device = [then EXCEPT !.fsm = Fsm4(then, TRUE, TRUE),
                                            !.error = @ \/ ~Enabled4(chip.device) \/ OutOfTurn4(then)]]
Log5(chip, phase) ==
    LET words == Words5(phase, TRUE, WCKSyncType.none)
        nop == words[2] = Command5("NOP", phase, 0)
        took == IF words[1] # <<>> THEN Take5(chip.device, words[1][1], words[1][2]) ELSE chip.device
        then == IF nop THEN took ELSE Take5(took, words[2][1], words[2][2])
    IN [chip EXCEPT !.device = [then EXCEPT !.fsm = Fsm5(then, TRUE, nop),
                                            !.error = @ \/ (~nop /\ (~Enabled5(chip.device) \/ OutOfTurn5(then)))]]
LogRpc(chip, phase, control) ==
    LET special == "reset_n" \notin control
        packet == AdapterRpc(phase, special)
    IN IF phase.pins = {} \/ ~PassedRpc(chip.fsm, phase, special) THEN chip
       ELSE [chip EXCEPT !.fsm = FsmRpc(@, phase, special), !.log = Append(@, packet)]
Takes(p, chip, phase, control) ==
    CASE p.memtype = "LPDDR4" -> Log4(chip, phase)
      [] p.memtype = "LPDDR5" -> Log5(chip, phase)
      [] p.memtype = "RPC" -> LogRpc(chip, phase, control)
      [] OTHER -> Log(chip, phase, control)
\* The pins that are driven all the time.
Controlled(p, chip, control) ==
    LET reset_n == "reset_n" \in control
    IN CASE p.memtype = "LPDDR4" -> [chip EXCEPT !.device.fsm = Fsm4(chip.device, reset_n, "cke" \in control)]
         [] p.memtype = "LPDDR5" -> [chip EXCEPT !.device.fsm = Fsm5(chip.device, reset_n, FALSE)]
         [] OTHER -> chip

(* A step of the header: the addresses, then the control register or the      *)
(* command register and its issue.                                            *)
InitNext ==
    /\ dev.next <= Len(dev.header)
    /\ LET step == dev.header[dev.next]
           command == "cs" \in step.pins
           control == IF command THEN dev.control ELSE step.pins
           csr == IF command THEN PhaseInjector(step.pins, step.a, step.ba, Ranks(dev.p)) ELSE Deselected(Ranks(dev.p))
           phase == DFIInjector(control, FALSE, Deselected(Ranks(dev.p)), Deselected(Ranks(dev.p)), csr, Ranks(dev.p))
       IN dev' = [dev EXCEPT !.next = @ + 1, !.control = control,
                             !.chips = [c \in DOMAIN @ |->
                                 IF command /\ Arrives(dev.p, c, phase) THEN Takes(dev.p, @[c], AtChip(c, phase), control)
                                 ELSE Controlled(dev.p, @[c], control)]]

InitSpec == InitInit /\ [][InitNext]_dev

-----------------------------------------------------------------------------
(* What a data sheet reads from the mode registers.                           *)
DDR3Cl(mr0) == IF bit(2, mr0) = 0 THEN 4 + field(mr0, 4, 3) ELSE 12 + field(mr0, 4, 3)
DDR3Wr(mr0) == <<16, 5, 6, 7, 8, 10, 12, 14>>[field(mr0, 9, 3) + 1]
DDR4Cl(mr0) ==
    LET code == bit(12, mr0) * 16 + field(mr0, 4, 3) * 2 + bit(2, mr0)
    IN CASE code <= 7 -> 9 + code
         [] code \in 8..11 -> 18 + 2 * (code - 8)
         [] code = 12 -> 23
         [] code \in 13..15 -> 17 + 2 * (code - 13)
         [] OTHER -> 9 + code
DDR4Cwl(mr2) == LET code == field(mr2, 3, 3) IN IF code < 4 THEN 9 + code ELSE 14 + 2 * (code - 4)
DDR4Wr(mr0) == LET code == bit(13, mr0) * 8 + field(mr0, 9, 3)
               IN CASE code = 6 -> 24 [] code = 7 -> 22 [] OTHER -> IF code < 6 THEN 10 + 2 * code ELSE 10 + 2 * code

(* A chip that precharges by itself begins wr clocks after the data of a write *)
(* and then takes tRP; the bank machine activates the bank again when its own *)
(* tWTP and tRP are over, at the earliest from the last phase to the first.   *)
OwnPrechargeOver(p, wr) ==
    p.sheet # None =>
        LET n == p.nphases
            s == TimingSettings(p.sheet, n, p.tck)
            activate == n * (precharge_time(n, p.cwl, s) + s.tRP) - (n - 1)
            precharge == p.cwl + burst_lengths(p.memtype) \div 2 + wr
        IN (activate - precharge) * p.tck >= p.sheet.tRP[2]
WrOf(p, mr0) == IF p.memtype = "DDR3" THEN DDR3Wr(mr0) ELSE DDR4Wr(mr0)

Configured(p, chip) ==
    LET mrs == SelectSeq(chip.log, LAMBDA x : x[1] = "MRS")
        order == [k \in DOMAIN mrs |-> mrs[k][2]]
        last(r) == mrs[Max({k \in DOMAIN mrs : mrs[k][2] = r})][3]
        kinds == [k \in DOMAIN chip.log |-> chip.log[k][1]]
        end == chip.log[Len(chip.log)]
        mr == chip.device.mr
        burst == 2^field(last(0), 0, 3)
    IN CASE p.memtype \in {"SDR", "DDR", "LPDDR", "DDR2"} ->
              \* The DLL is reset once, two refreshes follow a precharge, and the latency and the burst are set.
              /\ kinds[1] = "PRE" /\ SubSeq(chip.log, 1, 1)[1][2] = 1
              /\ \E k \in DOMAIN mrs : mrs[k][2] = 0 /\ bit(8, mrs[k][3]) = 1
              /\ \E k \in DOMAIN kinds : SubSeq(kinds, k, k + 3) = <<"PRE", "REF", "REF", "MRS">>
              /\ bit(8, last(0)) = 0
              /\ field(last(0), 4, 3) = p.cl
              /\ burst = (IF p.memtype = "SDR" THEN p.nphases ELSE 4)
              /\ p.memtype = "DDR2" => order = <<3, 2, 1, 0, 0, 1, 1>> /\ last(1) = 0
         [] p.memtype = "DDR3" ->
              /\ order = <<2, 3, 1, 0>> /\ end = <<"ZQ", 1>>
              /\ DDR3Cl(last(0)) = p.cl /\ 5 + field(last(2), 3, 3) = p.cwl /\ OwnPrechargeOver(p, WrOf(p, last(0)))
              /\ field(last(0), 0, 2) = 0 /\ bit(8, last(0)) = 1
              /\ bit(0, last(1)) = (IF p.dll_off THEN 1 ELSE 0)
         [] p.memtype = "DDR4" ->
              /\ order = <<3, 6, 5, 4, 2, 1, 0>> /\ end = <<"ZQ", 1>>
              /\ DDR4Cl(last(0)) = p.cl /\ DDR4Cwl(last(2)) = p.cwl /\ OwnPrechargeOver(p, WrOf(p, last(0)))
              /\ field(last(0), 0, 2) = 0 /\ bit(8, last(0)) = 1 /\ bit(0, last(1)) = 1
              /\ 2^field(last(3), 6, 3) = (CASE p.fine_refresh_mode = "1x" -> 1 [] p.fine_refresh_mode = "2x" -> 2 [] OTHER -> 4)
              /\ bit(10, last(5)) = 1
         [] p.memtype = "LPDDR4" ->
              /\ chip.device.fsm = "NORMAL" /\ ~chip.device.error
              /\ <<6, 10, 14, 20, 24, 28, 32, 36>>[field(mr[2], 0, 3) + 1] = p.cl
              /\ 4 + 2 * field(mr[2], 3, 3) = p.cwl
              /\ field(mr[1], 4, 3) = field(mr[2], 0, 3)
              /\ bit(5, mr[13]) = 0
         [] p.memtype = "LPDDR5" ->
              /\ chip.device.fsm = "NORMAL" /\ ~chip.device.error
              /\ WlLPDDR5(mr) = p.cwl /\ RlLPDDR5(mr) = p.cl
              /\ field(mr[3], 3, 2) = 2
         [] p.memtype = "RPC" ->
              /\ chip.fsm = "READY"
              /\ [k \in DOMAIN chip.log |-> <<chip.log[k].op, chip.log[k].n0>>] = <<<<0, 1>>, <<4, 0>>, <<2, 0>>, <<1, 1>>>>
              /\ chip.log[4].fields = <<0>>
              /\ CL_RPC[p.cl - 1] = chip.log[3].fields[1] /\ chip.log[3].fields[5] = 1

(* When the software has run the header, every chip, whichever way it is      *)
(* wired, works with the latencies, the burst and the refresh mode that the   *)
(* controller and the PHY assume, precharges by itself in the time that the   *)
(* bank machine leaves it, and was initialised in the order its data sheet    *)
(* asks for.                                                                  *)
DevicesConfigured ==
    dev.next > Len(dev.header) => \A c \in DOMAIN dev.chips : Configured(dev.p, dev.chips[c])

(* The write recovery of MR0, which the chip waits for before it precharges   *)
(* by itself, is not shorter than tWR of its data sheet: the comment at       *)
(* init.py:227 and :433, "ceiling(tWR/tCK)" or more.  The code does not keep  *)
(* it, since the value is computed from tWTR (WriteRecovery), and no run      *)
(* claims it; README.md says how to see the violation.                        *)
WriteRecoveryCovered ==
    dev.next > Len(dev.header) /\ dev.p.sheet # None =>
        \A c \in DOMAIN dev.chips :
            LET mrs0 == SelectSeq(dev.chips[c].log, LAMBDA x : x[1] = "MRS" /\ x[2] = 0)
            IN WrOf(dev.p, mrs0[Len(mrs0)][3]) * dev.p.tck >= dev.p.sheet.tWR[2]
=============================================================================
