-------------------------- MODULE RefresherSystem --------------------------
(***************************************************************************)
(* The refresher clocked against a multiplexer that grants within          *)
(* MaxGrant cycles, with what the DRAM sees beside it.                     *)
(***************************************************************************)
EXTENDS Refresher

CONSTANTS
    MaxGrant,   \* cycles within which the bank machines and the multiplexer grant
    RefresherCap    \* ages saturate here

SystemAssumption ==
    /\ MaxGrant \in Nat /\ RefresherCap \in Nat
    /\ tRP <= RefresherCap /\ tRFC <= RefresherCap /\ tZQCS <= RefresherCap
    \* A round of refreshes fits in the interval: the code requires
    \* tREFI >= 100 for that reason.
    /\ postponing * (tRP + tRFC + 1) + tRP + tZQCS + MaxGrant + 6 < tREFI

VARIABLES
    f,          \* registers of the refresher
    granted,    \* the multiplexer is in its REFRESH state: cmd.ready
    delay,      \* cycles the request has been waiting
    ages,       \* ages of the last PRE, REF and ZQCS the DRAM received
    open,       \* rows may be open in the DRAM
    done,       \* refreshes in this grant
    owed        \* refresh intervals elapsed minus refreshes received

system_vars == <<f, granted, delay, ages, open, done, owed>>

CycleOlder(age) == IF age < RefresherCap THEN age + 1 ELSE RefresherCap

RegistersTyped ==
    /\ f.fsm \in RefresherStates
    /\ f.timer \in 0..(tREFI - 1) /\ f.post \in 0..(postponing - 1) /\ f.seq \in 0..(postponing - 1)
    /\ f.exe \in 0..(tRP + tRFC) /\ f.zqtimer \in 0..(zqcs_period - 1) /\ f.zqexe \in 0..(tRP + tZQCS)
    /\ f.req_o \in BOOLEAN /\ f.done \in BOOLEAN /\ f.zqdone \in BOOLEAN
    /\ f.cmd \in {"NOP", "PRE", "REF", "ZQCS"}

SystemTypeOK ==
    /\ RegistersTyped
    /\ granted \in BOOLEAN /\ delay \in 0..MaxGrant
    /\ ages \in [{"PRE", "REF", "ZQCS"} -> 1..RefresherCap]
    /\ open \in BOOLEAN /\ done \in Nat /\ owed \in Nat

SystemInit ==
    /\ f = RefresherInit
    /\ granted = FALSE /\ delay = 0
    /\ ages = [c \in {"PRE", "REF", "ZQCS"} |-> RefresherCap]
    /\ open = TRUE /\ done = 0 /\ owed = 0

\* The steerer passes the command on while valid and ready.
Given == IF granted /\ refresher_valid(f) THEN f.cmd ELSE "NOP"

SystemClock ==
    /\ f' = RefresherNext(f, granted)
    /\ ages' = [c \in DOMAIN ages |-> IF Given = c THEN 1 ELSE CycleOlder(ages[c])]
    /\ open' = (IF granted THEN open /\ Given # "PRE" ELSE TRUE)
    /\ done' = IF ~granted THEN 0 ELSE IF Given = "REF" THEN done + 1 ELSE done
    /\ owed' = owed + (IF TimerDone(f.timer) THEN 1 ELSE 0)
                    - (IF Given = "REF" /\ owed > 0 THEN 1 ELSE 0)

\* The multiplexer has no refresh to serve, or lets the request wait.
Hold ==
    /\ ~granted
    /\ refresher_valid(f) => delay < MaxGrant
    /\ delay' = IF refresher_valid(f) THEN delay + 1 ELSE 0
    /\ granted' = granted
    /\ SystemClock

\* All banks grant: the multiplexer enters REFRESH.
Grant ==
    /\ ~granted /\ refresher_valid(f)
    /\ granted' = TRUE /\ delay' = 0
    /\ SystemClock

\* The multiplexer stays in REFRESH until the refresher's last cycle.
Serve ==
    /\ granted
    /\ granted' = ~cmd_last(f)
    /\ delay' = delay
    /\ SystemClock

SystemNext == Hold \/ Grant \/ Serve

SystemSpec == SystemInit /\ [][SystemNext]_system_vars

\* The clock does not stop.
SystemFairSpec == SystemSpec /\ WF_system_vars(SystemNext)

-----------------------------------------------------------------------------
(* What the DRAM receives during a grant is a legal refresh sequence: every *)
(* refresh and calibration finds all rows closed tRP before, and follows a  *)
(* refresh by tRFC, also when several postponed refreshes run back to back. *)
(* The sequence that the sequencer starts by itself at power-on, because    *)
(* its count resets to postponing - 1, must not be caught half-way.         *)
SequenceLegal ==
    /\ Given \in {"REF", "ZQCS"} => ~open /\ tRP <= ages["PRE"] /\ tRFC <= ages["REF"]
    /\ Given = "PRE" => tRFC <= ages["REF"]

(* The controller is released only after every postponed refresh has been   *)
(* given, tRFC after the last of them and tZQCS after a calibration, with   *)
(* all rows closed, so that bank machines may activate at once.             *)
ReleaseSafe ==
    cmd_last(f) => /\ granted /\ done = postponing /\ ~open
                   /\ tRFC <= ages["REF"] /\ tZQCS <= ages["ZQCS"] /\ tRP <= ages["PRE"]

(* The DRAM is never owed more refreshes than the controller postpones: the *)
(* request is a one-cycle pulse seen only in IDLE, so a slow round could    *)
(* lose one for good.                                                       *)
BacklogBounded == owed <= postponing

(* ZQ short calibration is periodic: it happens again and again.            *)
ZqcsPeriodic == []<>(Given = "ZQCS")

-----------------------------------------------------------------------------
(* What makes the safety properties inductive.  First the circuit by        *)
(* itself: when the FSM leaves IDLE the executer rests, and from then on    *)
(* the state of the FSM and the counters of the timelines tell what is in   *)
(* the command registers.                                                   *)

Quiet == f.exe = 0 /\ f.seq = 0 /\ ~f.done

\* Cycles from one done of the executer to the next, and those that are over.
RefreshLength == tRP + tRFC + 1
Progress == IF f.exe = 0 /\ f.done THEN RefreshLength ELSE f.exe
ZqProgress == IF f.zqexe = 0 THEN tRP + tZQCS + 1 ELSE f.zqexe

\* Cycles since the refresh timer was reloaded.
Elapsed == tREFI - 1 - f.timer

\* In the command registers while the counter of a timeline has this value.
Timed(counter, command) ==
    IF counter = 1 THEN "PRE" ELSE IF counter = tRP + 1 THEN command ELSE "NOP"

\* At power-on, when several refreshes are postponed, the executer runs while
\* the FSM is idle, and is ahead of the postponer, which is as many intervals
\* from its first request.
PowerOn == postponing # 1 /\ f.seq <= f.post /\ (f.seq = f.post => Elapsed <= Progress)

SequencerAgrees ==
    /\ f.fsm = "IDLE" => ~granted /\ (Quiet \/ (~f.req_o /\ PowerOn))
    /\ f.fsm = "WAIT-BANK-MACHINES" => Quiet /\ f.cmd = "NOP"
    /\ f.fsm = "DO-REFRESH" => granted /\ (f.exe # 0 \/ f.done) /\ f.cmd = Timed(f.exe, "REF")
    /\ f.fsm = "DO-ZQCS" => /\ granted /\ with_zqcs /\ Quiet
                            /\ f.zqexe # 0 \/ f.zqdone
                            /\ f.cmd = Timed(f.zqexe, "ZQCS")
    /\ f.fsm # "DO-ZQCS" => f.zqexe = 0 /\ ~f.zqdone
    /\ f.done => f.exe = 0
    /\ f.zqdone => f.zqexe = 0

(* Then the ages of the last precharge, refresh and calibration that the    *)
(* DRAM received: they keep up with the counters.                           *)

PrechargeAged(age) ==
    /\ f.fsm = "DO-REFRESH" /\ f.exe # 1 => tRP <= age \/ (f.exe # 0 /\ f.exe - 1 <= age)
    /\ f.fsm = "DO-ZQCS" /\ f.zqexe # 1 => tRP <= age \/ (f.zqexe # 0 /\ f.zqexe - 1 <= age)

RefreshAged(age) ==
    \/ tRFC <= age
    \/ f.fsm = "DO-REFRESH" /\ tRP + 1 < f.exe /\ f.exe - tRP - 1 <= age

ZqcsAged(age) ==
    \/ tZQCS <= age
    \/ f.fsm = "DO-ZQCS" /\ tRP + 1 < f.zqexe /\ f.zqexe - tRP - 1 <= age

\* What a round of refreshes has done to the DRAM so far.
RoundAgrees ==
    /\ f.fsm = "WAIT-BANK-MACHINES" /\ granted => done = 0
    /\ f.fsm = "DO-REFRESH" =>
          done = postponing - f.seq - (IF 1 <= f.exe /\ f.exe <= tRP + 1 THEN 1 ELSE 0)
    /\ f.fsm = "DO-ZQCS" => done = postponing
    /\ (f.fsm = "DO-REFRESH" /\ f.exe # 1) \/ f.fsm = "DO-ZQCS" => ~open

\* A round is over before the timer ends the next interval, so that between
\* rounds every interval is counted by the postponer and within a round none.
BacklogAgrees ==
    /\ f.fsm = "IDLE" /\ ~f.req_o => owed = postponing - 1 - f.post
    /\ (f.fsm = "IDLE" /\ f.req_o) \/ (f.fsm # "IDLE" /\ ~granted) => owed = postponing
    /\ granted => owed = postponing - done
    /\ f.req_o \/ f.fsm # "IDLE" => f.post = postponing - 1
    /\ f.fsm = "IDLE" /\ f.req_o => Elapsed = 0
    /\ f.fsm = "WAIT-BANK-MACHINES" => Elapsed <= IF granted THEN MaxGrant + 2 ELSE delay + 1
    /\ f.fsm = "DO-REFRESH" =>
          Elapsed <= MaxGrant + 2 + (postponing - 1 - f.seq) * RefreshLength + Progress
    /\ f.fsm = "DO-ZQCS" => Elapsed <= MaxGrant + 2 + postponing * RefreshLength + ZqProgress

SystemIInv ==
    /\ SystemTypeOK
    /\ SequencerAgrees
    /\ PrechargeAged(ages["PRE"]) /\ RefreshAged(ages["REF"]) /\ ZqcsAged(ages["ZQCS"])
    /\ RoundAgrees
    /\ with_refresh => BacklogAgrees
=============================================================================
