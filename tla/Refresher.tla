----------------------------- MODULE Refresher -----------------------------
(***************************************************************************)
(* The refresher of litedram/core/refresher.py: a timer, a postponer, a    *)
(* sequencer with its executer, and optionally a timer and an executer for *)
(* ZQ short calibrations, under one FSM.  A record f holds the registers;  *)
(* RefresherNext gives them after a clock edge.                            *)
(*                                                                         *)
(* The command registers (a, ba, cas, ras, we) are one value: "NOP", "PRE" *)
(* (precharge all banks), "REF" or "ZQCS".                                 *)
(***************************************************************************)
EXTENDS Naturals

CONSTANTS
    tREFI,          \* refresh interval
    tRP, tRFC,
    tZQCS,          \* 0: no ZQ calibration
    zqcs_period,    \* clk_freq / zqcs_freq
    postponing,     \* refreshes done together
    with_refresh

RefresherAssumption ==
    /\ tREFI \in Nat \ {0} /\ tRP \in Nat \ {0} /\ tRFC \in Nat \ {0}
    /\ tZQCS \in Nat /\ zqcs_period \in Nat \ {0}
    /\ postponing \in 1..8 /\ with_refresh \in BOOLEAN

\* The sequence that the sequencer starts by itself at power-on, when several
\* refreshes are postponed, is faster than the timer.
PowerOnAssumption == postponing = 1 \/ tRP + tRFC + 2 < tREFI

RefresherStates == {"IDLE", "WAIT-BANK-MACHINES", "DO-REFRESH", "DO-ZQCS"}

\* timer, post, seq, zqtimer: counters; exe, zqexe: counters of the two
\* timelines; req_o, done, zqdone: registered pulses.
RefresherInit ==
    [fsm |-> "IDLE", timer |-> tREFI - 1,
     post |-> postponing - 1, req_o |-> FALSE,
     seq |-> postponing - 1, exe |-> 0, done |-> FALSE, cmd |-> "NOP",
     zqtimer |-> zqcs_period - 1, zqexe |-> 0, zqdone |-> FALSE]

-----------------------------------------------------------------------------
(* Combinational signals.                                                   *)

with_zqcs == tZQCS # 0

TimerDone(count) == count = 0
wants_refresh(f) == f.req_o
wants_zqcs(f) == with_zqcs /\ TimerDone(f.zqtimer)

sequencer_start(f, cmd_ready) == f.fsm = "WAIT-BANK-MACHINES" /\ cmd_ready
executer_start(f, cmd_ready) == sequencer_start(f, cmd_ready) \/ f.seq # 0

\* Mutant: done after the first of the postponed refreshes.
sequencer_doneFirst(f) == f.done

sequencer_done(f) == f.done /\ f.seq = 0

zqcs_start(f) == f.fsm = "DO-REFRESH" /\ sequencer_done(f) /\ wants_zqcs(f)

\* The cycle in which the refresher releases the controller.
cmd_last(f) ==
    \/ f.fsm = "DO-REFRESH" /\ sequencer_done(f) /\ ~wants_zqcs(f)
    \/ f.fsm = "DO-ZQCS" /\ f.zqdone

refresher_valid(f) == f.fsm # "IDLE" /\ ~cmd_last(f)

-----------------------------------------------------------------------------
(* The clock edge, part by part.                                            *)

\* RefreshTimer: done lasts one cycle, then the count is reloaded.
TimerNext(count, period, wait) ==
    IF wait /\ ~TimerDone(count) THEN count - 1 ELSE period - 1

\* Mutant: the postponer counts one interval too many.
PostNextFull(f) ==
    IF TimerDone(f.timer) THEN (IF f.post = 0 THEN postponing ELSE f.post - 1) ELSE f.post

\* RefreshPostponer.
PostNext(f) ==
    IF TimerDone(f.timer) THEN (IF f.post = 0 THEN postponing - 1 ELSE f.post - 1) ELSE f.post

\* RefreshSequencer.
SeqNext(f, cmd_ready) ==
    IF sequencer_start(f, cmd_ready) THEN postponing - 1
    ELSE IF f.done /\ f.seq # 0 THEN f.seq - 1 ELSE f.seq

\* timeline: a started timeline counts to its last event and stops; a
\* trigger in between is ignored.
TimelineNext(counter, trigger, last) ==
    IF counter = last THEN 0
    ELSE IF counter # 0 THEN counter + 1
    ELSE IF trigger THEN 1 ELSE 0

\* Mutant: the command comes one cycle early.
TimelineEventEarly(counter, trigger, twait) ==
    CASE counter = 0 /\ trigger    -> "precharge"
      [] counter = tRP - 1         -> "command"
      [] counter = tRP + twait     -> "done"
      [] OTHER                     -> "none"

\* The events at 0, trp and trp + twait of a timeline (0: none).
TimelineEvent(counter, trigger, twait) ==
    CASE counter = 0 /\ trigger    -> "precharge"
      [] counter = tRP             -> "command"
      [] counter = tRP + twait     -> "done"
      [] OTHER                     -> "none"

\* What an event leaves in the command registers.
Driven(event, command) ==
    CASE event = "precharge" -> "PRE" [] event = "command" -> command [] OTHER -> "NOP"

FsmStep(f, cmd_ready) ==
    CASE f.fsm = "IDLE" ->
            IF with_refresh /\ wants_refresh(f) THEN "WAIT-BANK-MACHINES" ELSE "IDLE"
      [] f.fsm = "WAIT-BANK-MACHINES" ->
            IF cmd_ready THEN "DO-REFRESH" ELSE "WAIT-BANK-MACHINES"
      [] f.fsm = "DO-REFRESH" ->
            IF zqcs_start(f) THEN "DO-ZQCS" ELSE IF sequencer_done(f) THEN "IDLE" ELSE "DO-REFRESH"
      [] f.fsm = "DO-ZQCS" ->
            IF f.zqdone THEN "IDLE" ELSE "DO-ZQCS"

RefresherNext(f, cmd_ready) ==
    LET event == TimelineEvent(f.exe, executer_start(f, cmd_ready), tRFC)
        zqevent == IF with_zqcs THEN TimelineEvent(f.zqexe, zqcs_start(f), tZQCS) ELSE "none"
    IN  [fsm     |-> FsmStep(f, cmd_ready),
         timer   |-> TimerNext(f.timer, tREFI, ~TimerDone(f.timer)),
         post    |-> PostNext(f),
         req_o   |-> TimerDone(f.timer) /\ f.post = 0,
         seq     |-> SeqNext(f, cmd_ready),
         exe     |-> TimelineNext(f.exe, executer_start(f, cmd_ready), tRP + tRFC),
         done    |-> event = "done",
         \* The ZQCS executer comes last and overrides the refresh executer.
         cmd     |-> IF zqevent = "none" THEN Driven(event, "REF") ELSE Driven(zqevent, "ZQCS"),
         zqtimer |-> IF with_zqcs THEN TimerNext(f.zqtimer, zqcs_period, ~f.zqdone) ELSE f.zqtimer,
         zqexe   |-> IF with_zqcs
                     THEN TimelineNext(f.zqexe, zqcs_start(f), tRP + tZQCS) ELSE f.zqexe,
         zqdone  |-> zqevent = "done"]
=============================================================================
