---------------------------- MODULE DeviceSpacing ----------------------------
(* What the DRAM sees of a controller that is as fast as its settings allow:  *)
(* the settings are whole controller cycles and commands leave in phases, the *)
(* data sheet counts DRAM clocks and picoseconds.                             *)
EXTENDS PhyTimings, Sequences, FiniteSets, FiniteSetsExt

CONSTANTS
    SpacingModules,     \* the chips that are walked through
    SpacingSteps        \* the commands of a walk

VARIABLE dev            \* the state of the part of the system that is checked

-----------------------------------------------------------------------------
(* Clock periods in picoseconds, one to each row of the latency tables, and   *)
(* the ratios and phases of the PHYs for each type of memory.                 *)
Periods(memtype) ==
    CASE memtype = "SDR" -> {10000, 7519}
      [] memtype \in {"DDR", "LPDDR"} -> {6000, 5000}
      [] memtype = "DDR2" -> {5000, 3753, 2955, 2500, 1877}
      [] memtype = "DDR3" -> {2500, 1877, 1501, 1250, 1072}
      [] memtype = "DDR4" -> {1501, 1250, 1072, 938, 834, 751}
      [] memtype = "LPDDR4" -> {1251, 938}
      [] memtype = "RPC" -> {2500, 1250}
Latency(memtype, tck) ==
    CASE memtype \in {"DDR", "LPDDR"} -> [cl |-> 3, cwl |-> 3]
      [] memtype = "LPDDR4" -> get_cl_cw(tck)
      [] memtype = "RPC" -> RpcLatency
      [] OTHER -> get_default_cl_cwl(memtype, tck)
Ratios(memtype) ==
    CASE memtype = "SDR" -> {1, 2}
      [] memtype \in {"DDR", "LPDDR"} -> {2}
      [] memtype \in {"DDR2", "DDR3"} -> {2, 4}
      [] memtype \in {"DDR4", "RPC"} -> {4}
      [] memtype = "LPDDR4" -> {8}
PhaseChoices(memtype, n, l) ==
    CASE memtype = "SDR" -> {SdrPhases}
      [] memtype \in {"DDR", "LPDDR"} -> {S6Phases}
      [] memtype = "LPDDR4" -> {Lpddr4Phases(l.cl, l.cwl, serdes) : serdes \in {0, 4}}
      [] memtype = "DDR3" /\ n = 4 -> {Phases(n, l.cl, l.cwl), A7Phases(n, l.cl, l.cwl)}
      [] OTHER -> {Phases(n, l.cl, l.cwl)}

-----------------------------------------------------------------------------
Kinds == {"ACT", "ACT other", "RD", "WR", "PRE", "REF"}
Never == -1

(* A walk through one bank, with activates of other banks.  cycles and clocks *)
(* say when a command of a kind was last issued, turned which of them before  *)
(* the controller last changed direction, activates the last four.            *)
SpacingInit ==
    \E m \in SpacingModules :
      \E g \in m.speedgrade_timings, mode \in Modes(m), tck \in Periods(m.memtype), n \in Ratios(m.memtype) :
        LET l == Latency(m.memtype, tck)
            t == get(m, g, mode)
        IN \E phases \in PhaseChoices(m.memtype, n, l) :
             dev = [ n |-> n, tck |-> tck, cwl |-> l.cwl, phases |-> phases,
                     burst |-> IF m.memtype = "SDR" THEN n ELSE burst_lengths(m.memtype) \div 2,
                     need |-> t, settings |-> TimingSettings(t, n, tck),
                     dir |-> "RD", open |-> FALSE, now |-> 0, steps |-> 0,
                     cycles |-> [k \in Kinds |-> Never], clocks |-> [k \in Kinds |-> Never],
                     turned |-> {}, activates |-> <<>>, early |-> {} ]

(* The rules: the command that starts a wait, the ones that wait, the cycles  *)
(* the controller waits, what the data sheet asks for, and the DRAM clocks    *)
(* until the wait of the data sheet begins.                                   *)
Rule(name, from, to, cycles, lag) == [name |-> name, from |-> from, to |-> to, cycles |-> cycles, lag |-> lag]
Rules(d) ==
    LET s == d.settings
        data == d.cwl + d.burst
        columns == {"RD", "WR"}
        all == { Rule("tRCD", {"ACT"}, columns, s.tRCD, 0),
                 Rule("tRP", {"PRE"}, {"ACT", "REF"}, s.tRP, 0),
                 Rule("tRFC", {"REF"}, {"ACT", "ACT other"}, s.tRFC, 0),
                 Rule("tRC", {"ACT"}, {"ACT"}, s.tRC, 0),
                 Rule("tRAS", {"ACT"}, {"PRE"}, s.tRAS, 0),
                 Rule("tRRD", {"ACT", "ACT other"}, {"ACT", "ACT other"}, s.tRRD, 0),
                 Rule("tCCD", columns, columns, s.tCCD, 0),
                 Rule("tWR", {"WR"}, {"PRE"}, precharge_time(d.n, d.cwl, s), data),
                 Rule("tWTR", {"WR"}, {"RD"}, write_to_read(d.n, d.cwl, s), data) }
    IN {r \in all : d.need[r.name] # None}

PhaseOf(d, kind) ==
    CASE kind = "RD" -> d.phases.rd
      [] kind = "WR" -> d.phases.wr
      [] kind = "REF" -> 0
      [] OTHER -> cmdphase(d.n, IF d.dir = "RD" THEN d.phases.rd ELSE d.phases.wr)

(* The first cycle in which the controller issues a command, when it has      *)
(* nothing else to do before: the tXXDControllers, and tFAW.                  *)
Earliest(d, kind, after) ==
    LET waiting == UNION {{d.cycles[f] + r.cycles : f \in {k \in r.from : d.cycles[k] # Never}}
                            : r \in {q \in Rules(d) : kind \in q.to}}
        window == IF kind \in {"ACT", "ACT other"} /\ d.need.tFAW # None /\ Len(d.activates) = 4
                  THEN {d.activates[1].cycle + d.settings.tFAW} ELSE {}
    IN Max({d.now + after} \cup waiting \cup window)

(* What the DRAM finds wrong with a command at a clock: the names of the      *)
(* timings it comes too early for.  The floors in clocks of commands in       *)
(* different directions are left out, see SpacingCovered.                     *)
TooEarly(d, kind, clock) ==
    LET Short(name, since, floor) == \/ (clock - since) * d.tck < d.need[name][2]
                                     \/ floor /\ clock - since < d.need[name][1]
        of == {r \in Rules(d) : kind \in r.to /\
                  \E f \in r.from : /\ d.clocks[f] # Never
                                    /\ Short(r.name, d.clocks[f] + r.lag, f \notin d.turned \/ f = "WR")}
    IN {r.name : r \in of} \cup
       (IF kind \in {"ACT", "ACT other"} /\ d.need.tFAW # None /\ Len(d.activates) = 4
           /\ Short("tFAW", d.activates[1].clock, ~d.activates[1].turned)
        THEN {"tFAW"} ELSE {})

(* The bank's commands in their order; a refresh comes after a precharge.     *)
Legal(d, kind) ==
    CASE kind = "ACT" -> ~d.open
      [] kind \in {"RD", "WR"} -> d.open
      [] kind = "PRE" -> d.open
      [] kind = "ACT other" -> TRUE
      [] kind = "REF" -> ~d.open /\ d.clocks["PRE"] # Never

(* A command; a column command of the other direction turns the bus first,    *)
(* which takes two cycles.                                                    *)
Issue(d, kind) ==
    LET turn == kind \in {"RD", "WR"} /\ kind # d.dir
        at == Earliest(d, kind, IF turn THEN 2 ELSE 1)
        e == IF turn THEN [d EXCEPT !.dir = kind, !.turned = {k \in Kinds : d.cycles[k] # Never},
                                    !.activates = [k \in DOMAIN @ |-> [@[k] EXCEPT !.turned = TRUE]]]
             ELSE d
        clock == at * d.n + PhaseOf(e, kind)
        tail == IF Len(e.activates) = 4 THEN Tail(e.activates) ELSE e.activates
    IN [e EXCEPT !.now = at, !.steps = @ + 1,
                 !.cycles[kind] = at, !.clocks[kind] = clock, !.turned = @ \ {kind},
                 !.open = CASE kind = "ACT" -> TRUE [] kind = "PRE" -> FALSE [] OTHER -> @,
                 !.activates = IF kind \in {"ACT", "ACT other"}
                               THEN Append(tail, [cycle |-> at, clock |-> clock, turned |-> FALSE]) ELSE @,
                 !.early = TooEarly(e, kind, clock)]

SpacingNext ==
    \E kind \in Kinds :
        /\ dev.steps < SpacingSteps
        /\ Legal(dev, kind)
        /\ dev' = Issue(dev, kind)

(* No command reaches the DRAM earlier than its data sheet allows, for every  *)
(* chip, speed grade and clock and from whichever phases commands leave.  The *)
(* floors in DRAM clocks are rounded up to cycles without a margin for the    *)
(* phases, so that they hold between commands of the same direction.          *)
SpacingCovered == dev.early = {}
=============================================================================
