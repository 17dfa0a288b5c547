------------------------------ MODULE PhyModel ------------------------------
(* litedram/phy/model.py: the simulated PHY with its DRAM, on which the tests *)
(* run the core, and its checker of timings, behind a controller that issues  *)
(* as fast as its settings allow or, hasty, as fast as commands can follow.   *)
(* One bank with a word in each of its rows, and activates of another bank.   *)
EXTENDS DeviceSpacing

CONSTANT ModelModules       \* the chips that are simulated

sdram_module_nphases == [SDR |-> 1, DDR |-> 2, LPDDR |-> 2, DDR2 |-> 2, DDR3 |-> 4, DDR4 |-> 4]
get_sdram_phy_settings(memtype, tck) ==
    LET n == sdram_module_nphases[memtype]
        l == CASE memtype = "SDR" -> [cl |-> 2, cwl |-> 2]
               [] memtype \in {"DDR", "LPDDR"} -> [cl |-> 3, cwl |-> 3]
               [] OTHER -> get_default_cl_cwl(memtype, tck)
    IN [ nphases |-> n, cwl |-> l.cwl,
         phases |-> CASE memtype = "SDR" -> SdrPhases
                      [] memtype \in {"DDR", "LPDDR"} -> S6Phases
                      [] OTHER -> Phases(n, l.cl, l.cwl),
         write_latency |-> IF memtype \in {"SDR", "DDR", "LPDDR"} THEN 0 ELSE get_sys_latency(n, l.cwl) - 1 ]

Rows == {0, 1}
PowerUp == 1000         \* cycles before the first command
None4 == [k \in 0..3 |-> 0]
ModelInit ==
    \E m \in ModelModules, hasty \in BOOLEAN :
      \E g \in m.speedgrade_timings, mode \in Modes(m), tck \in Periods(m.memtype) :
        LET s == get_sdram_phy_settings(m.memtype, tck)
            t == get(m, g, mode)
            settings == TimingSettings(t, s.nphases, tck)
        IN dev = [ n |-> s.nphases, tck |-> tck, cwl |-> s.cwl, phases |-> s.phases, write_latency |-> s.write_latency,
                   burst |-> IF m.memtype = "SDR" THEN 1 ELSE burst_lengths(m.memtype) \div 2,
                   need |-> t, hasty |-> hasty,
                   settings |-> IF hasty THEN [name \in DOMAIN settings |-> -s.cwl] ELSE settings,
                   dir |-> "RD", open |-> FALSE, now |-> PowerUp, steps |-> 0,
                   cycles |-> [k \in Kinds |-> Never], clocks |-> [k \in Kinds |-> Never],
                   turned |-> {}, activates |-> <<>>, early |-> {},
                   active |-> FALSE, row |-> 0, mem |-> [r \in Rows |-> 0], writing |-> <<>>,
                   read_data |-> 0, target |-> 0, memory |-> [r \in Rows |-> 0],
                   last_cmd |-> "none", last_cmd_ps |-> [k \in Kinds |-> 0],
                   act_ps |-> None4, act_curr |-> 0, acts |-> <<>>, alarms |-> {} ]

-----------------------------------------------------------------------------
(* BankModel and the delay of its writes: the row is the one that is open     *)
(* when the data is there, and the read is done with its command.  m holds    *)
(* what was written up to a cycle and what is still under way.                *)
Perform(d, until) ==
    LET due == SelectSeq(d.writing, LAMBDA w : w.at <= until)
    IN [d EXCEPT !.writing = SelectSeq(@, LAMBDA w : w.at > until),
                 !.mem = IF d.active /\ due # <<>> THEN [@ EXCEPT ![d.row] = due[Len(due)].value] ELSE @]
BankModel(d, kind, row) ==
    LET before == Perform(d, d.now - 1)
        asked == IF kind = "WR"
                 THEN [before EXCEPT !.writing = Append(@, [at |-> d.now + d.write_latency, value |-> d.steps])] ELSE before
        edge == Perform(asked, d.now)
    IN [edge EXCEPT !.read_data = IF kind = "RD" THEN (IF before.active THEN before.mem[before.row] ELSE 0) ELSE @,
                    !.active = CASE kind = "PRE" -> FALSE [] kind = "ACT" -> TRUE [] OTHER -> @,
                    !.row = IF kind = "ACT" THEN row ELSE @]

(* DFITimingsChecker: the rules between a command and the bank's last one,    *)
(* and the ring of the last four activates.                                   *)
RULES == { <<"PRE", "ACT", "tRP">>, <<"PRE", "REF", "tRP">>, <<"ACT", "WR", "tRCD">>, <<"ACT", "RD", "tRCD">>,
           <<"ACT", "PRE", "tRAS">>, <<"REF", "PRE", "tRFC">>, <<"REF", "ACT", "tRFC">>,
           <<"WR", "RD", "tCCD">>, <<"WR", "WR", "tCCD">>, <<"RD", "RD", "tCCD">>, <<"RD", "WR", "tCCD">>,
           <<"ACT", "ACT", "tRC">>, <<"WR", "PRE", "tWR">>, <<"WR", "RD", "tWTR">> }
ck_ns_to_ps(t, tck) == IF t = None THEN 0 ELSE Max({t[1] * tck, t[2]})
prepare_timings(d) ==
    LET ps == [name \in DOMAIN d.need |-> ck_ns_to_ps(d.need[name], d.tck)]
        wrburst == d.tck * (d.burst - 1)
    IN [ps EXCEPT !.tRC = ps.tRAS + ps.tRP, !.tWR = @ + wrburst, !.tWTR = @ + wrburst]
\* Mutant: the ring is read before it turns.
oldest_actTurned(d) == d.act_ps[d.act_curr]
oldest_act(d) == d.act_ps[(d.act_curr + 1) % 4]
Checked(d, kind) ==
    LET ps == d.clocks[kind] * d.tck
        timings == prepare_timings(d)
        activate == kind \in {"ACT", "ACT other"}
        next == (d.act_curr + 1) % 4
    IN [d EXCEPT
          !.alarms = {r[3] : r \in {q \in RULES : /\ q[1] = d.last_cmd /\ q[2] = kind
                                                  /\ ps < d.last_cmd_ps[q[1]] + timings[q[3]]}}
                     \cup (IF activate /\ ps < d.act_ps[d.act_curr] + timings.tRRD THEN {"tRRD"} ELSE {})
                     \cup (IF activate /\ ps < oldest_act(d) + timings.tFAW THEN {"tFAW"} ELSE {}),
          !.last_cmd = IF kind = "ACT other" THEN @ ELSE kind,
          !.last_cmd_ps = IF kind = "ACT other" THEN @ ELSE [@ EXCEPT ![kind] = ps],
          !.act_ps = IF activate THEN [@ EXCEPT ![next] = ps] ELSE @,
          !.act_curr = IF activate THEN next ELSE @,
          !.acts = IF activate THEN Append(@, ps) ELSE @]

(* A command of the controller; memory is what its requests have written.     *)
ModelNext ==
    \E kind \in Kinds : \E row \in IF kind = "ACT" THEN Rows ELSE {0} :
        /\ dev.steps < SpacingSteps
        /\ Legal(dev, kind)
        /\ LET issued == Checked(BankModel(Issue(dev, kind), kind, row), kind)
           IN dev' = [issued EXCEPT !.target = IF kind = "ACT" THEN row ELSE @,
                                    !.memory = IF kind = "WR" THEN [@ EXCEPT ![dev.target] = issued.steps] ELSE @]

-----------------------------------------------------------------------------
(* Behind a controller that keeps its waits the simulated PHY is a memory:    *)
(* a read finds what was last written to its row, and no write, done          *)
(* write_latency after its command, meets another row than its own.           *)
ModelIsMemory ==
    ~dev.hasty => /\ dev.now = dev.cycles["RD"] => dev.read_data = dev.memory[dev.target]
                  /\ dev.writing = <<>> => dev.mem = dev.memory
(* The checker tells the truth about whatever it is shown: an activate is     *)
(* reported exactly if it is too close to the last one, or to the fourth      *)
(* last, of any bank; and a controller that keeps its waits raises no alarm   *)
(* before it changes direction.                                               *)
AlarmsTrue ==
    LET n == Len(dev.acts)
        Close(k, name) == n > k /\ dev.acts[n] - dev.acts[n - k] < ck_ns_to_ps(dev.need[name], dev.tck)
        activated == n > 0 /\ dev.acts[n] = Max({dev.clocks[k] : k \in Kinds}) * dev.tck
    IN /\ activated => /\ "tRRD" \in dev.alarms <=> Close(1, "tRRD")
                       /\ "tFAW" \in dev.alarms <=> Close(4, "tFAW")
       /\ ~dev.hasty /\ dev.turned = {} => dev.alarms = {}
=============================================================================
