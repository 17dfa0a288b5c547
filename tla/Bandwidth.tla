----------------------------- MODULE Bandwidth -----------------------------
(* litedram/core/bandwidth.py: commands counted in periods of 2^period_bits   *)
(* cycles, and copied to the status registers when software asks.             *)
EXTENDS DeviceSpacing

CONSTANT period_bits    \* log2 of the cycles in a period: 24 in the code

PeriodCycles == 2^period_bits
CounterRange == 2^(period_bits + 1)
Nothing == [valid |-> FALSE, ready |-> FALSE, is_read |-> FALSE, is_write |-> FALSE]
Offers == {Nothing} \cup [valid : {TRUE}, ready : BOOLEAN, is_read : {TRUE}, is_write : {FALSE}]
                    \cup [valid : {TRUE}, ready : BOOLEAN, is_read : {FALSE}, is_write : {TRUE}]
NoCounts == [reads |-> 0, writes |-> 0]

(* seen: what was accepted in each cycle of the last period, and in the one   *)
(* that ended it.                                                             *)
BandwidthInit ==
    dev = [ cmd |-> Nothing, counter |-> 0, period |-> FALSE, counts |-> NoCounts, counts_r |-> NoCounts,
            status |-> NoCounts, reported |-> FALSE, seen |-> <<>> ]

Accepted(cmd) == cmd.valid /\ cmd.ready
Counted(counts, cmd) ==
    IF ~Accepted(cmd) THEN counts
    ELSE [reads  |-> IF cmd.is_read THEN (counts.reads + 1) % CounterRange ELSE counts.reads,
          writes |-> IF cmd.is_write THEN (counts.writes + 1) % CounterRange ELSE counts.writes]
(* A command on the boundary belongs to the period that begins.               *)
\* Mutant: it is lost.
CountsNextLost == IF dev.period THEN NoCounts ELSE Counted(dev.counts, dev.cmd)
CountsNext == Counted(IF dev.period THEN NoCounts ELSE dev.counts, dev.cmd)

BandwidthNext ==
    \E cmd \in Offers, update \in BOOLEAN :
        dev' = [ cmd |-> cmd,
                 counter |-> (dev.counter + 1) % PeriodCycles, period |-> dev.counter = PeriodCycles - 1,
                 counts |-> CountsNext,
                 counts_r |-> IF dev.period THEN dev.counts ELSE dev.counts_r,
                 status |-> IF update THEN dev.counts_r ELSE dev.status,
                 reported |-> dev.reported \/ dev.period,
                 seen |-> LET past == IF Len(dev.seen) > PeriodCycles THEN Tail(dev.seen) ELSE dev.seen
                          IN Append(past, Counted(NoCounts, dev.cmd)) ]

(* What a period reports is what was accepted in its cycles, all of them and  *)
(* each once, whatever happens on its boundaries.                             *)
PeriodsCounted ==
    dev.reported /\ dev.counter = 1 =>
        dev.counts_r = [kind \in {"reads", "writes"} |-> FoldSet(LAMBDA k, sum : sum + dev.seen[k][kind], 0, 1..PeriodCycles)]
=============================================================================
