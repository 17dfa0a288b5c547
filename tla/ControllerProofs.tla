--------------------------- MODULE ControllerProofs ---------------------------
(***************************************************************************)
(* Proofs about the controller, for every number of banks, every set of    *)
(* rows, every value of the timings and of the refresh settings, and any   *)
(* requests: each bank of the DRAM receives only commands that it accepts. *)
(* The refresher's part is that of RefresherProofs, each bank machine's    *)
(* that of BankMachineProofs; what is proved here is how the grant hands   *)
(* the banks over between them.                                            *)
(***************************************************************************)
EXTENDS Controller, BankMachineProofs, FiniteSetTheorems

\* The refresher under the multiplexer's grant.  What RefresherSystem counts
\* beside it is counted here for each bank.
Circuit == INSTANCE RefresherProofs
    WITH f <- rf, granted <- refresher_ready(mux), RefresherCap <- Cap,
         MaxGrant <- 0, delay <- 0, ages <- 0, open <- FALSE, done <- 0, owed <- 0

-----------------------------------------------------------------------------
(* The invariant.                                                           *)

\* The refresher as a bank sees it.
Phase ==
    IF ~refresh_req THEN "idle"
    ELSE IF ~refresher_ready(mux) THEN "request"
    ELSE IF rf.fsm = "WAIT-BANK-MACHINES" THEN "granted"
    ELSE IF rf.fsm = "DO-ZQCS" THEN (IF rf.zqexe = 1 THEN "granted" ELSE "precharged")
    ELSE IF rf.exe = 1 THEN "granted"
    ELSE IF 1 < rf.exe /\ rf.exe <= tRP + 1 THEN "precharged" ELSE "refreshed"

\* The command of the refresher as a bank receives it.
Other ==
    IF FromRefresher = "PRE" THEN [Nop EXCEPT !.op = "PRE"]
    ELSE IF FromRefresher = "REF" THEN [Nop EXCEPT !.op = "REF"] ELSE Nop

Typed ==
    /\ mux.fsm \in MuxStates
    /\ drams \in [BankIds -> Banks] /\ DOMAIN bms = BankIds
    /\ Circuit!RegistersTyped

\* The multiplexer is in REFRESH only with all bank machines, and a bank
\* machine waits there for the others only while the refresher waits.
HandOver ==
    /\ mux.fsm = "REFRESH" => \A b \in BankIds : bms[b].fsm = "REFRESH"
    /\ \A b \in BankIds : bms[b].fsm = "REFRESH" /\ mux.fsm # "REFRESH" => rf.fsm = "WAIT-BANK-MACHINES"

\* The refresher and each bank go together.
BanksInStep ==
    \A b \in BankIds : /\ InStep(bms[b], drams[b], Phase)
                       /\ Circuit!PrechargeAged(drams[b].pre) /\ Circuit!RefreshAged(drams[b].ref)

IInv == Typed /\ Circuit!SequencerAgrees /\ HandOver /\ BanksInStep

(* On top of it, what the timings between banks need: the multiplexer's     *)
(* timers agree with the ages over all banks, and each state of its FSM     *)
(* knows how long the turnaround still has to wait.  A refresh is long      *)
(* enough for the turnaround from write to read.                            *)

RankTyped ==
    /\ rank \in [act : Ages, rd : Ages, wr : Ages] /\ mux.wait \in Nat
    /\ mux.trrd.ready \in BOOLEAN /\ mux.tccd.ready \in BOOLEAN /\ mux.twtr.ready \in BOOLEAN

LastColumn == IF rank.rd < rank.wr THEN rank.rd ELSE rank.wr

RankTimers ==
    /\ TimerAgrees(tRRD, mux.trrd, rank.act)
    /\ TimerAgrees(tCCD, mux.tccd, LastColumn)
    /\ TimerAgrees(tWTRtotal, mux.twtr, rank.wr)

Turnaround ==
    /\ mux.fsm = "READ" => tWTRtotal <= rank.wr
    /\ mux.fsm = "WRITE" => read_latency <= rank.rd
    /\ mux.fsm = "RTW" => 1 <= mux.wait /\ read_latency <= rank.rd + mux.wait

RefreshOutlastsWrite ==
    /\ \E b \in BankIds : drams[b].wr = rank.wr
    /\ rf.fsm = "DO-REFRESH" => tWTRtotal <= rank.wr \/ (rf.exe # 0 /\ tWTP + rf.exe <= rank.wr)
    /\ rf.fsm = "DO-ZQCS" => tWTRtotal <= rank.wr

RankInv == RankTyped /\ RankTimers /\ Turnaround /\ RefreshOutlastsWrite

(* The bank machine and the multiplexer take a cycle each before the        *)
(* refresher's precharge, and the refresher another one.                    *)
RasInv ==
    \A b \in BankIds : drams[b].active =>
        /\ bms[b].fsm = "REFRESH" => tRAS <= drams[b].act + 2
        /\ mux.fsm = "REFRESH" => tRAS <= drams[b].act + 1
        /\ rf.fsm \in {"DO-REFRESH", "DO-ZQCS"} => tRAS <= drams[b].act

-----------------------------------------------------------------------------
(* The refresher.                                                           *)

(* Controller and RefresherProofs instantiate the same circuit.             *)
LEMMA SameCircuit ==
    /\ \A g : Ref!RefresherNext(rf, g) = Circuit!RefresherNext(rf, g)
    /\ Ref!cmd_last(rf) <=> Circuit!cmd_last(rf)
    /\ refresh_req <=> Circuit!refresher_valid(rf)
    /\ FromRefresher = Circuit!Given
    /\ Circuit!RefresherAssumption /\ Circuit!PowerOnAssumption
  <1>1. Circuit!RefresherAssumption /\ Circuit!PowerOnAssumption
    BY RefreshSettings, Zenon DEF Ref!RefresherAssumption, Circuit!RefresherAssumption,
       Ref!PowerOnAssumption, Circuit!PowerOnAssumption
  <1>2. Ref!cmd_last(rf) <=> Circuit!cmd_last(rf)
    BY Zenon DEF Ref!cmd_last, Circuit!cmd_last, Ref!sequencer_done, Circuit!sequencer_done,
       Ref!wants_zqcs, Circuit!wants_zqcs, Ref!with_zqcs, Circuit!with_zqcs, Ref!TimerDone,
       Circuit!TimerDone
  <1>3. refresh_req <=> Circuit!refresher_valid(rf)
    BY <1>2, Zenon DEF refresh_req, Ref!refresher_valid, Circuit!refresher_valid
  <1>4. FromRefresher = Circuit!Given
    BY <1>3, Zenon DEF FromRefresher, Circuit!Given
  <1>5. ASSUME NEW g PROVE Ref!RefresherNext(rf, g) = Circuit!RefresherNext(rf, g)
    BY Zenon DEF Ref!RefresherNext, Circuit!RefresherNext, Ref!FsmStep, Circuit!FsmStep,
       Ref!TimerNext, Circuit!TimerNext, Ref!PostNext, Circuit!PostNext, Ref!SeqNext,
       Circuit!SeqNext, Ref!TimelineNext, Circuit!TimelineNext, Ref!TimelineEvent,
       Circuit!TimelineEvent, Ref!Driven, Circuit!Driven, Ref!executer_start,
       Circuit!executer_start, Ref!sequencer_start, Circuit!sequencer_start,
       Ref!zqcs_start, Circuit!zqcs_start, Ref!wants_refresh, Circuit!wants_refresh,
       Ref!wants_zqcs, Circuit!wants_zqcs, Ref!with_zqcs, Circuit!with_zqcs,
       Ref!TimerDone, Circuit!TimerDone, Ref!sequencer_done, Circuit!sequencer_done
  <1>. QED  BY <1>1, <1>2, <1>3, <1>4, <1>5

-----------------------------------------------------------------------------
(* The hand-over between the refresher, the multiplexer and the bank        *)
(* machines.                                                                *)

(* When the multiplexer's FSM enters and leaves REFRESH.                    *)
LEMMA MuxFsmCases ==
    ASSUME NEW m, m.fsm \in MuxStates, NEW kinds, NEW go, NEW last
    PROVE  LET next == MuxFsmNext(m, kinds, go, last)[1]
           IN  /\ next \in MuxStates
               /\ m.fsm = "REFRESH" => next = IF last THEN "READ" ELSE "REFRESH"
               /\ m.fsm # "REFRESH" /\ next = "REFRESH" => go
  <1> DEFINE next == MuxFsmNext(m, kinds, go, last)[1]
             goal == /\ next \in MuxStates
                     /\ m.fsm = "REFRESH" => next = IF last THEN "READ" ELSE "REFRESH"
                     /\ m.fsm # "REFRESH" /\ next = "REFRESH" => go
  <1>1. EnterRTW[1] \in {"WRITE", "RTW"}
    BY DEF EnterRTW
  <1>2. CASE m.fsm = "READ"
    <2>1. next = IF go THEN "REFRESH"
                 ELSE IF write_available(kinds) /\ (~read_available(kinds) \/ TimeUp(read_time, m.rtime))
                 THEN EnterRTW[1] ELSE "READ"
      BY <1>2 DEF MuxFsmNext
    <2>. QED  BY <1>1, <1>2, <2>1 DEF MuxStates
  <1>3. CASE m.fsm = "WRITE"
    <2>1. next = IF go THEN "REFRESH"
                 ELSE IF read_available(kinds) /\ (~write_available(kinds) \/ TimeUp(write_time, m.wtime))
                 THEN "WTR" ELSE "WRITE"
      BY <1>3 DEF MuxFsmNext
    <2>. QED  BY <1>3, <2>1 DEF MuxStates
  <1>4. CASE m.fsm = "REFRESH"
    <2>1. next = IF last THEN "READ" ELSE "REFRESH"
      BY <1>4 DEF MuxFsmNext
    <2>. QED  BY <1>4, <2>1 DEF MuxStates
  <1>5. CASE m.fsm = "WTR"
    <2>1. next = IF m.twtr.ready THEN "READ" ELSE "WTR"
      BY <1>5 DEF MuxFsmNext
    <2>. QED  BY <1>5, <2>1 DEF MuxStates
  <1>6. CASE m.fsm = "RTW"
    <2>1. next = IF m.wait = 1 THEN "WRITE" ELSE "RTW"
      BY <1>6 DEF MuxFsmNext
    <2>. QED  BY <1>6, <2>1 DEF MuxStates
  <1>. QED  BY <1>2, <1>3, <1>4, <1>5, <1>6 DEF MuxStates

(* When a bank machine's FSM enters and leaves REFRESH.                     *)
LEMMA BmFsmRefresh ==
    ASSUME NEW s, s.fsm \in FsmStates, NEW req, NEW accepted
    PROVE  LET next == FsmNext(s, req, accepted)[1]
           IN  /\ s.fsm = "REFRESH" => next = IF req THEN "REFRESH" ELSE "REGULAR"
               /\ next = "REFRESH" => req /\ (s.fsm = "REGULAR" \/ s.fsm = "REFRESH")
  <1> DEFINE next == FsmNext(s, req, accepted)[1]
  <1>1. \A waiting, target, delay : DelayedEnter(waiting, target, delay)[1] \in {waiting, target}
    BY DEF DelayedEnter
  <1>2. CASE s.fsm = "REGULAR"
    BY <1>2 DEF FsmNext
  <1>3. CASE s.fsm = "PRECHARGE"
    <2>1. next = IF accepted THEN DelayedEnter("TRP", "ACTIVATE", tRP - 1)[1] ELSE "PRECHARGE"
      BY <1>3 DEF FsmNext
    <2>. QED  BY <1>1, <1>3, <2>1
  <1>4. CASE s.fsm = "AUTOPRECHARGE"
    <2>1. next = IF s.twtp.ready /\ s.tras.ready THEN DelayedEnter("TRP", "ACTIVATE", tRP - 1)[1]
                 ELSE "AUTOPRECHARGE"
      BY <1>4 DEF FsmNext
    <2>. QED  BY <1>1, <1>4, <2>1
  <1>5. CASE s.fsm = "ACTIVATE"
    <2>1. next = IF accepted THEN DelayedEnter("TRCD", "REGULAR", tRCD - 1)[1] ELSE "ACTIVATE"
      BY <1>5 DEF FsmNext
    <2>. QED  BY <1>1, <1>5, <2>1
  <1>6. CASE s.fsm = "REFRESH"
    BY <1>6 DEF FsmNext
  <1>7. CASE s.fsm = "TRP"
    BY <1>7 DEF FsmNext
  <1>8. CASE s.fsm = "TRCD"
    BY <1>8 DEF FsmNext
  <1>. QED  BY <1>2, <1>3, <1>4, <1>5, <1>6, <1>7, <1>8 DEF FsmStates

(* The FSMs after a clock edge.                                             *)
LEMMA FsmEdges ==
    ASSUME Typed, NEW arriving, Clock(Now, arriving)
    PROVE  /\ refresher_ready(mux) \in BOOLEAN
           /\ rf' = Circuit!RefresherNext(rf, refresher_ready(mux))
           /\ mux'.fsm = MuxFsmNext(mux, Kinds, go_to_refresh, Circuit!cmd_last(rf))[1]
           /\ \A b \in BankIds : \E accepted :
                 bms'[b].fsm = FsmNext(bms[b], refresh_req, accepted)[1]
  <1>1. refresher_ready(mux) \in BOOLEAN
    BY DEF refresher_ready
  <1>2. rf' = Circuit!RefresherNext(rf, refresher_ready(mux))
    BY SameCircuit DEF Clock
  <1>3. mux'.fsm = MuxFsmNext(mux, Kinds, go_to_refresh, Circuit!cmd_last(rf))[1]
    <2>1. mux' = MuxNext(mux, Now, go_to_refresh, Ref!cmd_last(rf))
      BY DEF Clock
    <2>2. mux'.fsm = MuxFsmNext(mux, Now.kinds, go_to_refresh, Ref!cmd_last(rf))[1]
      BY <2>1, Zenon DEF MuxNext
    <2>3. Now.kinds = Kinds
      BY Zenon DEF Now, Choices
    <2>4. Ref!cmd_last(rf) = Circuit!cmd_last(rf)
      BY SameCircuit, Zenon DEF Ref!cmd_last, Circuit!cmd_last
    <2>. QED  BY <2>2, <2>3, <2>4
  <1>4. ASSUME NEW b \in BankIds
        PROVE  \E accepted : bms'[b].fsm = FsmNext(bms[b], refresh_req, accepted)[1]
    <2>1. bms'[b] = BmNext(bms[b], refresh_req, arriving[b], ready_to(mux, Now, b))
      BY DEF Clock
    <2>2. bms'[b].fsm = FsmNext(bms[b], refresh_req, cmd_valid(bms[b], refresh_req)
                                                     /\ ready_to(mux, Now, b))[1]
      BY <2>1 DEF BmNext
    <2>. QED  BY <2>2
  <1>. QED  BY <1>1, <1>2, <1>3, <1>4

(* The multiplexer enters its REFRESH state only with the grant of every    *)
(* bank machine, while the refresher waits, and leaves it in the            *)
(* refresher's last cycle.                                                  *)
LEMMA GrantSteps ==
    ASSUME Typed, Circuit!SequencerAgrees, HandOver, BanksInStep, NEW arriving, Clock(Now, arriving)
    PROVE  /\ mux'.fsm \in MuxStates
           /\ refresher_ready(mux) => refresher_ready(mux)' = ~Circuit!cmd_last(rf)
           /\ ~refresher_ready(mux) /\ refresher_ready(mux)' =>
                 /\ rf.fsm = "WAIT-BANK-MACHINES"
                 /\ \A b \in BankIds : refresh_gnt(bms[b])
  <1>1. mux.fsm \in MuxStates
    BY DEF Typed
  <1>2. mux'.fsm = MuxFsmNext(mux, Kinds, go_to_refresh, Circuit!cmd_last(rf))[1]
    BY FsmEdges
  <1>3. /\ mux'.fsm \in MuxStates
        /\ mux.fsm = "REFRESH" => mux'.fsm = IF Circuit!cmd_last(rf) THEN "READ" ELSE "REFRESH"
        /\ mux.fsm # "REFRESH" /\ mux'.fsm = "REFRESH" => go_to_refresh
    BY <1>1, <1>2, MuxFsmCases
  <1>4. ASSUME go_to_refresh, mux.fsm # "REFRESH"
        PROVE  rf.fsm = "WAIT-BANK-MACHINES" /\ \A b \in BankIds : refresh_gnt(bms[b])
    <2>1. \A b \in BankIds : refresh_gnt(bms[b])
      BY <1>4 DEF go_to_refresh
    <2>2. 0 \in BankIds
      BY MuxAssumption DEF BankIds
    <2>3. bms[0].fsm = "REFRESH"
      BY <2>1, <2>2 DEF refresh_gnt
    <2>. QED  BY <1>4, <2>1, <2>2, <2>3 DEF HandOver
  <1>5. refresher_ready(mux) => refresher_ready(mux)' = ~Circuit!cmd_last(rf)
    <2>1. refresher_ready(mux) => (refresher_ready(mux)' <=> ~Circuit!cmd_last(rf))
      BY <1>3 DEF refresher_ready
    <2>. QED  BY <2>1, Zenon DEF refresher_ready, Circuit!cmd_last
  <1>. QED  BY <1>3, <1>4, <1>5 DEF refresher_ready

(* The refresher requests while it has the grant, until its last cycle, and *)
(* waits when it requests without a grant.                                  *)
LEMMA RequestCases ==
    ASSUME Typed, Circuit!SequencerAgrees
    PROVE  /\ refresh_req <=> rf.fsm # "IDLE" /\ ~Circuit!cmd_last(rf)
           /\ refresher_ready(mux) /\ ~Circuit!cmd_last(rf) /\ rf.fsm # "IDLE" => refresh_req
           /\ rf.fsm = "WAIT-BANK-MACHINES" => refresh_req
           /\ refresh_req /\ ~refresher_ready(mux) => rf.fsm = "WAIT-BANK-MACHINES"
           /\ refresher_ready(mux) => rf.fsm # "IDLE"
  <1>1. rf.fsm \in {"IDLE", "WAIT-BANK-MACHINES", "DO-REFRESH", "DO-ZQCS"}
    BY DEF Typed, Circuit!RegistersTyped, Circuit!RefresherStates
  <1>2. refresh_req <=> rf.fsm # "IDLE" /\ ~Circuit!cmd_last(rf)
    BY SameCircuit DEF Circuit!refresher_valid
  <1>3. rf.fsm = "WAIT-BANK-MACHINES" => ~Circuit!cmd_last(rf)
    BY DEF Circuit!cmd_last
  <1>4. /\ rf.fsm = "IDLE" => ~refresher_ready(mux)
        /\ rf.fsm \in {"DO-REFRESH", "DO-ZQCS"} => refresher_ready(mux)
    BY DEF Circuit!SequencerAgrees
  <1>. QED  BY <1>1, <1>2, <1>3, <1>4

(* A clock edge keeps the hand-over.                                        *)
LEMMA HandOverStep ==
    ASSUME Typed, Circuit!SequencerAgrees, HandOver, BanksInStep, NEW arriving, Clock(Now, arriving)
    PROVE  HandOver'
  <1>1. refresher_ready(mux) => (refresher_ready(mux)' <=> ~Circuit!cmd_last(rf))
    BY GrantSteps
  <1>2. \A b \in BankIds : bms[b].fsm \in FsmStates
    BY DEF BanksInStep, InStep, PairTyped, BmTyped
  <1>3. ASSUME NEW b \in BankIds
        PROVE  /\ bms[b].fsm = "REFRESH" /\ refresh_req => bms'[b].fsm = "REFRESH"
               /\ bms'[b].fsm = "REFRESH" => refresh_req
    <2>1. PICK accepted : bms'[b].fsm = FsmNext(bms[b], refresh_req, accepted)[1]
      BY FsmEdges
    <2>. QED  BY <1>2, <2>1, BmFsmRefresh
  <1>4. ASSUME mux'.fsm = "REFRESH", NEW b \in BankIds PROVE bms'[b].fsm = "REFRESH"
    <2>1. CASE mux.fsm = "REFRESH"
      <3>1. refresher_ready(mux) /\ ~Circuit!cmd_last(rf)
        BY <1>1, <1>4, <2>1 DEF refresher_ready
      <3>2. refresh_req /\ bms[b].fsm = "REFRESH"
        BY <2>1, <3>1, RequestCases DEF HandOver
      <3>. QED  BY <1>3, <3>2
    <2>2. CASE mux.fsm # "REFRESH"
      <3>1. rf.fsm = "WAIT-BANK-MACHINES" /\ refresh_gnt(bms[b])
        BY <1>4, <2>2, GrantSteps DEF refresher_ready
      <3>2. refresh_req /\ bms[b].fsm = "REFRESH"
        BY <3>1, RequestCases DEF refresh_gnt
      <3>. QED  BY <1>3, <3>2
    <2>. QED  BY <2>1, <2>2
  <1>5. ASSUME NEW b \in BankIds, bms'[b].fsm = "REFRESH", mux'.fsm # "REFRESH"
        PROVE  rf'.fsm = "WAIT-BANK-MACHINES"
    <2>1. refresh_req
      BY <1>3, <1>5
    <2>2. ~refresher_ready(mux)
      BY <1>1, <1>5, <2>1, RequestCases DEF refresher_ready
    <2>3. rf.fsm = "WAIT-BANK-MACHINES"
      BY <2>1, <2>2, RequestCases
    <2>4. /\ Circuit!RefresherAssumption /\ Circuit!RegistersTyped /\ refresher_ready(mux) \in BOOLEAN
          /\ rf' = Circuit!RefresherNext(rf, refresher_ready(mux))
      BY SameCircuit, FsmEdges DEF Typed
    <2>. QED  BY <2>2, <2>3, <2>4, Circuit!RoundEdges
  <1>. QED  BY <1>4, <1>5 DEF HandOver

(* A clock edge keeps the refresher's registers.                            *)
LEMMA RefresherStep ==
    ASSUME Typed, Circuit!SequencerAgrees, HandOver, BanksInStep, NEW arriving, Clock(Now, arriving)
    PROVE  Circuit!RegistersTyped' /\ Circuit!SequencerAgrees'
  <1>1. /\ Circuit!RefresherAssumption /\ Circuit!PowerOnAssumption
        /\ Circuit!RegistersTyped /\ refresher_ready(mux) \in BOOLEAN
        /\ rf' = Circuit!RefresherNext(rf, refresher_ready(mux))
    BY SameCircuit, FsmEdges DEF Typed
  <1>2. /\ refresher_ready(mux) => refresher_ready(mux)' = ~Circuit!cmd_last(rf)
        /\ ~refresher_ready(mux) /\ refresher_ready(mux)' => rf.fsm = "WAIT-BANK-MACHINES"
    BY GrantSteps
  <1>3. Circuit!RegistersTyped'
    BY <1>1, Circuit!RegistersStep
  <1>4. Circuit!SequencerAgrees'
    BY <1>1, <1>2, Circuit!SequencerStep
  <1>. QED  BY <1>3, <1>4

-----------------------------------------------------------------------------
(* The refresher as a bank sees it moves as BankMachineProofs assumes.      *)

(* The moves, one by one.                                                   *)
LEMMA Moves ==
    ASSUME NEW s, NEW bank
    PROVE  /\ \A p : <<p, Nop>> \in PhaseMoves(s, bank, p)
           /\ <<"request", Nop>> \in PhaseMoves(s, bank, "idle")
           /\ refresh_gnt(s) => <<"granted", Nop>> \in PhaseMoves(s, bank, "request")
           /\ <<"precharged", [Nop EXCEPT !.op = "PRE"]>> \in PhaseMoves(s, bank, "granted")
           /\ tRP <= bank.pre =>
                 /\ <<"refreshed", [Nop EXCEPT !.op = "REF"]>> \in PhaseMoves(s, bank, "precharged")
                 /\ <<"idle", Nop>> \in PhaseMoves(s, bank, "precharged")
                 /\ tRFC = 1 => <<"idle", [Nop EXCEPT !.op = "REF"]>> \in PhaseMoves(s, bank, "precharged")
           /\ tRFC <= Older(bank.ref) =>
                 /\ <<"idle", Nop>> \in PhaseMoves(s, bank, "refreshed")
                 /\ <<"granted", Nop>> \in PhaseMoves(s, bank, "refreshed")
  BY Zenon DEF PhaseMoves

(* The refresher as a bank sees it, while the FSM is in each of its states. *)
LEMMA PhaseCases ==
    ASSUME Typed, Circuit!SequencerAgrees
    PROVE  /\ rf.fsm = "IDLE" => Phase = "idle"
           /\ Circuit!cmd_last(rf) => Phase = "idle"
           /\ rf.fsm = "WAIT-BANK-MACHINES" => Phase = IF refresher_ready(mux) THEN "granted" ELSE "request"
           /\ rf.fsm = "DO-REFRESH" /\ ~Circuit!cmd_last(rf) =>
                 Phase = IF rf.exe = 1 THEN "granted"
                         ELSE IF 1 < rf.exe /\ rf.exe <= tRP + 1 THEN "precharged" ELSE "refreshed"
           /\ rf.fsm = "DO-ZQCS" /\ ~Circuit!cmd_last(rf) =>
                 Phase = IF rf.zqexe = 1 THEN "granted" ELSE "precharged"
           /\ Requested(Phase) <=> refresh_req
           /\ Phase \in RefreshPhases
  <1>1. rf.fsm \in {"DO-REFRESH", "DO-ZQCS"} => refresher_ready(mux)
    BY DEF Circuit!SequencerAgrees
  <1>2. Phase \in RefreshPhases /\ (Requested(Phase) <=> refresh_req)
    BY DEF Phase, Requested, RefreshPhases
  <1>. QED  BY <1>1, <1>2, RequestCases DEF Phase

(* What the refresher gives in each of its states.                          *)
LEMMA OtherCases ==
    ASSUME Typed, Circuit!SequencerAgrees
    PROVE  /\ rf.fsm \in {"IDLE", "WAIT-BANK-MACHINES"} => Other = Nop
           /\ rf.fsm = "DO-REFRESH" =>
                 Other = IF rf.exe = 1 THEN [Nop EXCEPT !.op = "PRE"]
                         ELSE IF rf.exe = tRP + 1 THEN [Nop EXCEPT !.op = "REF"] ELSE Nop
           /\ rf.fsm = "DO-ZQCS" => Other = IF rf.zqexe = 1 THEN [Nop EXCEPT !.op = "PRE"] ELSE Nop
  <1>1. /\ rf.fsm \in {"IDLE", "WAIT-BANK-MACHINES"} => FromRefresher = "NOP"
        /\ rf.fsm = "DO-REFRESH" => FromRefresher = Circuit!Timed(rf.exe, "REF")
        /\ rf.fsm = "DO-ZQCS" => FromRefresher = Circuit!Timed(rf.zqexe, "ZQCS")
    <2>1. refresher_ready(mux) \in BOOLEAN /\ Circuit!RegistersTyped
      BY DEF refresher_ready, Typed
    <2>. QED  BY <2>1, SameCircuit, Circuit!GivenCases
  <1>2. tRP \in Nat \ {0}
    BY DramTimings
  <1>. QED  BY <1>1, <1>2 DEF Other, Circuit!Timed

(* The same after a clock edge.                                             *)
LEMMA PhaseCasesNext ==
    ASSUME Circuit!RegistersTyped', Circuit!SequencerAgrees'
    PROVE  /\ rf'.fsm = "IDLE" => Phase' = "idle"
           /\ Circuit!cmd_last(rf)' => Phase' = "idle"
           /\ rf'.fsm = "WAIT-BANK-MACHINES" => Phase' = IF refresher_ready(mux)' THEN "granted" ELSE "request"
           /\ rf'.fsm = "DO-REFRESH" /\ ~Circuit!cmd_last(rf)' =>
                 Phase' = IF rf'.exe = 1 THEN "granted"
                          ELSE IF 1 < rf'.exe /\ rf'.exe <= tRP + 1 THEN "precharged" ELSE "refreshed"
           /\ rf'.fsm = "DO-ZQCS" /\ ~Circuit!cmd_last(rf)' =>
                 Phase' = IF rf'.zqexe = 1 THEN "granted" ELSE "precharged"
  <1>1. rf'.fsm \in {"IDLE", "WAIT-BANK-MACHINES", "DO-REFRESH", "DO-ZQCS"}
    BY DEF Circuit!RegistersTyped, Circuit!RefresherStates
  <1>2. refresh_req' <=> rf'.fsm # "IDLE" /\ ~Circuit!cmd_last(rf)'
    <2>1. Ref!cmd_last(rf)' <=> Circuit!cmd_last(rf)'
      BY Zenon DEF Ref!cmd_last, Circuit!cmd_last, Ref!sequencer_done, Circuit!sequencer_done,
         Ref!wants_zqcs, Circuit!wants_zqcs, Ref!with_zqcs, Circuit!with_zqcs, Ref!TimerDone,
         Circuit!TimerDone
    <2>2. refresh_req' <=> rf'.fsm # "IDLE" /\ ~Ref!cmd_last(rf)'
      BY Zenon DEF refresh_req, Ref!refresher_valid
    <2>. QED  BY <2>1, <2>2
  <1>3. rf'.fsm = "WAIT-BANK-MACHINES" => ~Circuit!cmd_last(rf)'
    BY Zenon DEF Circuit!cmd_last
  <1>4. rf'.fsm \in {"DO-REFRESH", "DO-ZQCS"} => refresher_ready(mux)'
    BY DEF Circuit!SequencerAgrees
  <1>. QED  BY <1>1, <1>2, <1>3, <1>4 DEF Phase

(* Each clock edge is a move of the refresher as bank b sees it.            *)
LEMMA PhaseStep ==
    ASSUME IInv, NEW arriving, Clock(Now, arriving), NEW b \in BankIds
    PROVE  <<Phase', Other>> \in PhaseMoves(bms[b], drams[b], Phase)
  <1>1. /\ tRP \in Nat \ {0} /\ tRFC \in Nat \ {0} /\ tZQCS \in Nat /\ Cap \in Nat
        /\ rf.exe \in 0..(tRP + tRFC) /\ rf.zqexe \in 0..(tRP + tZQCS)
        /\ rf.fsm \in {"IDLE", "WAIT-BANK-MACHINES", "DO-REFRESH", "DO-ZQCS"}
        /\ tRP <= Cap /\ tRFC <= Cap
    <2>1. Circuit!RefresherAssumption /\ Circuit!RegistersTyped
      BY SameCircuit DEF IInv, Typed
    <2>. QED  BY <2>1, DramTimings DEF Circuit!RefresherAssumption, Circuit!RegistersTyped,
                                       Circuit!RefresherStates
  <1>2. Typed /\ Circuit!SequencerAgrees /\ HandOver /\ BanksInStep
    BY DEF IInv
  <1>3. Circuit!RegistersTyped' /\ Circuit!SequencerAgrees'
    BY <1>2, RefresherStep
  <1>4. /\ Circuit!RefresherAssumption /\ Circuit!RegistersTyped /\ Circuit!SequencerAgrees
        /\ refresher_ready(mux) \in BOOLEAN /\ rf' = Circuit!RefresherNext(rf, refresher_ready(mux))
    BY <1>2, SameCircuit, FsmEdges DEF Typed
  <1>5. /\ drams[b].pre \in Nat /\ drams[b].ref \in Nat /\ Older(drams[b].ref) \in Nat
        /\ \A t \in Nat : t <= Cap /\ t <= drams[b].ref + 1 => t <= Older(drams[b].ref)
        /\ Circuit!PrechargeAged(drams[b].pre) /\ Circuit!RefreshAged(drams[b].ref)
    <2>1. drams[b] \in Banks
      BY <1>2 DEF BanksInStep, InStep, PairTyped
    <2>2. drams[b].pre \in Ages /\ drams[b].ref \in Ages
      BY <2>1 DEF Banks
    <2>. QED  BY <1>2, <2>2, OlderGrows DEF BanksInStep
  <1> DEFINE pre == [Nop EXCEPT !.op = "PRE"]
             ref == [Nop EXCEPT !.op = "REF"]
  <1>6. CASE rf.fsm = "IDLE"
    <2>1. Phase = "idle" /\ Other = Nop /\ ~refresher_ready(mux)
      BY <1>2, <1>6, PhaseCases, OtherCases, RequestCases
    <2>2. rf'.fsm \in {"IDLE", "WAIT-BANK-MACHINES"} /\ ~refresher_ready(mux)'
      <3>1. rf'.fsm \in {"IDLE", "WAIT-BANK-MACHINES"}
        BY <1>4, <1>6, Circuit!RoundEdges
      <3>. QED  BY <1>2, <1>6, <2>1, <3>1, GrantSteps
    <2>3. Phase' \in {"idle", "request"}
      BY <1>3, <2>2, PhaseCasesNext
    <2>. QED  BY <2>1, <2>3, Moves
  <1>7. CASE rf.fsm = "WAIT-BANK-MACHINES" /\ ~refresher_ready(mux)
    <2>1. Phase = "request" /\ Other = Nop
      BY <1>2, <1>7, PhaseCases, OtherCases
    <2>2. rf'.fsm = "WAIT-BANK-MACHINES"
      BY <1>4, <1>7, Circuit!RoundEdges
    <2>3. CASE refresher_ready(mux)'
      <3>1. refresh_gnt(bms[b]) /\ Phase' = "granted"
        BY <1>2, <1>3, <1>7, <2>2, <2>3, GrantSteps, PhaseCasesNext
      <3>. QED  BY <2>1, <3>1, Moves
    <2>4. CASE ~refresher_ready(mux)'
      <3>1. Phase' = "request"
        BY <1>3, <2>2, <2>4, PhaseCasesNext
      <3>. QED  BY <2>1, <3>1, Moves
    <2>. QED  BY <2>3, <2>4
  <1>8. CASE rf.fsm = "WAIT-BANK-MACHINES" /\ refresher_ready(mux)
    <2>1. Phase = "granted" /\ Other = Nop
      BY <1>2, <1>8, PhaseCases, OtherCases
    <2>2. rf'.fsm = "DO-REFRESH" /\ rf'.exe = 1 /\ ~rf'.done
      BY <1>4, <1>8, Circuit!RoundEdges
    <2>3. ~Circuit!cmd_last(rf)'
      BY <2>2 DEF Circuit!cmd_last, Circuit!sequencer_done
    <2>4. Phase' = "granted"
      BY <1>3, <2>2, <2>3, PhaseCasesNext
    <2>. QED  BY <2>1, <2>4, Moves
  <1>9. CASE rf.fsm = "DO-REFRESH" /\ ~(rf.done /\ rf.seq = 0)
    <2>1. /\ ~Circuit!cmd_last(rf) /\ rf'.fsm = "DO-REFRESH"
          /\ rf'.exe = IF rf.exe = tRP + tRFC THEN 0 ELSE rf.exe + 1
          /\ rf'.done <=> rf.exe = tRP + tRFC
      BY <1>4, <1>9, Circuit!RoundEdges
    <2>2. Phase = IF rf.exe = 1 THEN "granted"
                  ELSE IF 1 < rf.exe /\ rf.exe <= tRP + 1 THEN "precharged" ELSE "refreshed"
      BY <1>2, <1>9, <2>1, PhaseCases
    <2>3. Other = IF rf.exe = 1 THEN pre ELSE IF rf.exe = tRP + 1 THEN ref ELSE Nop
      BY <1>2, <1>9, OtherCases
    <2>4. Circuit!cmd_last(rf)' => rf'.done
      BY <2>1 DEF Circuit!cmd_last, Circuit!sequencer_done
    <2>5. /\ Circuit!cmd_last(rf)' => Phase' = "idle"
          /\ ~Circuit!cmd_last(rf)' =>
                Phase' = IF rf'.exe = 1 THEN "granted"
                         ELSE IF 1 < rf'.exe /\ rf'.exe <= tRP + 1 THEN "precharged" ELSE "refreshed"
      BY <1>3, <2>1, PhaseCasesNext
    <2>6. /\ rf.exe # 1 => tRP <= drams[b].pre \/ (rf.exe # 0 /\ rf.exe - 1 <= drams[b].pre)
          /\ tRFC <= drams[b].ref \/ (tRP + 1 < rf.exe /\ rf.exe - tRP - 1 <= drams[b].ref)
      BY <1>5, <1>9 DEF Circuit!PrechargeAged, Circuit!RefreshAged
    <2>7. CASE rf.exe = 0
      <3>1. Phase = "refreshed" /\ Other = Nop /\ Phase' = "granted"
        BY <1>1, <2>1, <2>2, <2>3, <2>4, <2>5, <2>7
      <3>2. tRFC <= Older(drams[b].ref)
        BY <1>1, <1>5, <2>6, <2>7
      <3>. QED  BY <3>1, <3>2, Moves
    <2>8. CASE rf.exe = 1
      <3>1. Phase = "granted" /\ Other = pre /\ Phase' = "precharged"
        BY <1>1, <2>1, <2>2, <2>3, <2>4, <2>5, <2>8
      <3>. QED  BY <3>1, Moves
    <2>9. CASE 1 < rf.exe /\ rf.exe < tRP + 1
      <3>1. Phase = "precharged" /\ Other = Nop /\ Phase' = "precharged"
        BY <1>1, <2>1, <2>2, <2>3, <2>4, <2>5, <2>9
      <3>. QED  BY <3>1, Moves
    <2>10. CASE rf.exe = tRP + 1
      <3>1. /\ Phase = "precharged" /\ Other = ref
            /\ Phase' = "refreshed" \/ (tRFC = 1 /\ Phase' = "idle")
        BY <1>1, <2>1, <2>2, <2>3, <2>4, <2>5, <2>10
      <3>2. tRP <= drams[b].pre
        BY <1>1, <1>5, <2>6, <2>10
      <3>. QED  BY <3>1, <3>2, Moves
    <2>11. CASE tRP + 1 < rf.exe
      <3>1. /\ Phase = "refreshed" /\ Other = Nop
            /\ Phase' = "refreshed" \/ (rf.exe = tRP + tRFC /\ Phase' = "idle")
        BY <1>1, <2>1, <2>2, <2>3, <2>4, <2>5, <2>11
      <3>2. rf.exe = tRP + tRFC => tRFC <= Older(drams[b].ref)
        BY <1>1, <1>5, <2>6, <2>11
      <3>. QED  BY <3>1, <3>2, Moves
    <2>. QED  BY <1>1, <2>7, <2>8, <2>9, <2>10, <2>11
  <1>10. CASE rf.fsm = "DO-REFRESH" /\ rf.done /\ rf.seq = 0
    <2>1. rf.exe = 0
      BY <1>4, <1>10 DEF Circuit!SequencerAgrees
    <2>2. Other = Nop
      BY <1>1, <1>2, <1>10, <2>1, OtherCases
    <2>3. CASE Circuit!cmd_last(rf)
      <3>1. rf'.fsm = "IDLE"
        BY <1>4, <1>10, <2>3, Circuit!RoundEdges
      <3>2. Phase = "idle" /\ Phase' = "idle"
        BY <1>2, <1>3, <2>3, <3>1, PhaseCases, PhaseCasesNext
      <3>. QED  BY <2>2, <3>2, Moves
    <2>4. CASE ~Circuit!cmd_last(rf)
      <3>1. rf'.fsm = "DO-ZQCS" /\ rf'.zqexe = 1 /\ ~rf'.zqdone
        BY <1>4, <1>10, <2>4, Circuit!RoundEdges
      <3>2. ~Circuit!cmd_last(rf)'
        BY <3>1 DEF Circuit!cmd_last
      <3>3. Phase = "refreshed" /\ Phase' = "granted"
        BY <1>1, <1>2, <1>3, <1>10, <2>1, <2>4, <3>1, <3>2, PhaseCases, PhaseCasesNext
      <3>4. tRFC <= Older(drams[b].ref)
        BY <1>1, <1>5, <2>1 DEF Circuit!RefreshAged
      <3>. QED  BY <2>2, <3>3, <3>4, Moves
    <2>. QED  BY <2>3, <2>4
  <1>11. CASE rf.fsm = "DO-ZQCS" /\ rf.zqdone
    <2>1. rf.zqexe = 0 /\ Circuit!cmd_last(rf) /\ rf'.fsm = "IDLE"
      BY <1>4, <1>11, Circuit!RoundEdges DEF Circuit!SequencerAgrees
    <2>2. Other = Nop /\ Phase = "idle" /\ Phase' = "idle"
      BY <1>2, <1>3, <1>11, <2>1, OtherCases, PhaseCases, PhaseCasesNext
    <2>. QED  BY <2>2, Moves
  <1>12. CASE rf.fsm = "DO-ZQCS" /\ ~rf.zqdone
    <2>1. /\ ~Circuit!cmd_last(rf) /\ rf'.fsm = "DO-ZQCS" /\ rf.zqexe # 0
          /\ rf'.zqexe = IF rf.zqexe = tRP + tZQCS THEN 0 ELSE rf.zqexe + 1
          /\ rf'.zqdone <=> rf.zqexe = tRP + tZQCS
      BY <1>4, <1>12, Circuit!RoundEdges
    <2>2. Phase = (IF rf.zqexe = 1 THEN "granted" ELSE "precharged") /\ Other = IF rf.zqexe = 1 THEN pre ELSE Nop
      BY <1>2, <1>12, <2>1, PhaseCases, OtherCases
    <2>3. tZQCS # 0
      BY <1>4, <1>12 DEF Circuit!SequencerAgrees, Circuit!with_zqcs
    <2>4. Circuit!cmd_last(rf)' <=> rf.zqexe = tRP + tZQCS
      BY <2>1 DEF Circuit!cmd_last
    <2>5. CASE rf.zqexe = tRP + tZQCS
      <3>1. Phase' = "idle" /\ Phase = "precharged" /\ Other = Nop
        BY <1>1, <1>3, <2>2, <2>3, <2>4, <2>5, PhaseCasesNext
      <3>2. tRP <= drams[b].pre
        BY <1>1, <1>5, <1>12, <2>3, <2>5 DEF Circuit!PrechargeAged
      <3>. QED  BY <3>1, <3>2, Moves
    <2>6. CASE rf.zqexe # tRP + tZQCS
      <3>1. Phase' = "precharged"
        BY <1>1, <1>3, <2>1, <2>4, <2>6, PhaseCasesNext
      <3>2. CASE rf.zqexe = 1
        BY <2>2, <3>1, <3>2, Moves
      <3>3. CASE rf.zqexe # 1
        BY <2>2, <3>1, <3>3, Moves
      <3>. QED  BY <3>2, <3>3
    <2>. QED  BY <2>5, <2>6
  <1>. QED  BY <1>1, <1>6, <1>7, <1>8, <1>9, <1>10, <1>11, <1>12

-----------------------------------------------------------------------------
(* The banks.                                                               *)

(* What bank b receives: the command of its bank machine when that is       *)
(* accepted, and the refresher's otherwise.  No bank machine precharges the *)
(* other banks.                                                             *)
LEMMA GivenToBank ==
    ASSUME Typed, Circuit!SequencerAgrees, BanksInStep, NEW b \in BankIds
    PROVE  /\ Given(Now, b) = Received(bms[b], refresh_req, ready_to(mux, Now, b), Other)
           /\ Takes(Now, b) =
                 IF cmd_valid(bms[b], refresh_req) /\ ready_to(mux, Now, b)
                 THEN cmd(bms[b], refresh_req).op ELSE "NOP"
  <1>1. \A i \in BankIds : BmTyped(bms[i]) /\ RequestHeld(bms[i])
    BY DEF BanksInStep, InStep, PairTyped
  <1>2. ASSUME NEW i \in BankIds, cmd_valid(bms[i], refresh_req)
        PROVE  /\ cmd(bms[i], refresh_req).op # "NOP"
               /\ cmd(bms[i], refresh_req).op = "PRE" => ~cmd(bms[i], refresh_req).a10
    <2>1. Column(bms[i], refresh_req) \/ cmd_precharge(bms[i]) \/ cmd_activate(bms[i])
      BY <1>2 DEF cmd_valid
    <2>. QED  BY <1>1, <1>2, <2>1, CmdCases
  <1>3. \A i \in BankIds :
            Takes(Now, i) = IF ready_to(mux, Now, i) /\ cmd_valid(bms[i], refresh_req)
                            THEN cmd(bms[i], refresh_req).op ELSE "NOP"
    <2>1. Now.kinds = Kinds
      BY Zenon DEF Now, Choices
    <2>. QED  BY <2>1 DEF Takes, Kinds
  <1>4. PrechargesAll(Now) <=> FromRefresher = "PRE"
    BY <1>2, <1>3 DEF PrechargesAll
  <1>5. CASE ready_to(mux, Now, b) /\ cmd_valid(bms[b], refresh_req)
    <2>1. Takes(Now, b) # "NOP"
      BY <1>2, <1>3, <1>5
    <2>. QED  BY <1>3, <1>5, <2>1 DEF Given, Received
  <1>6. CASE ~(ready_to(mux, Now, b) /\ cmd_valid(bms[b], refresh_req))
    <2>1. Takes(Now, b) = "NOP"
      BY <1>3, <1>6
    <2>2. Given(Now, b) = Other
      BY <1>4, <2>1 DEF Given, Other
    <2>. QED  BY <1>3, <1>6, <2>2 DEF Received
  <1>. QED  BY <1>5, <1>6

(* The requests that may arrive for bank b.                                 *)
LEMMA ArrivalsMay ==
    ASSUME NEW arriving \in Arrivals, NEW b \in BankIds
    PROVE  arriving[b] \in MayArrive(bms[b])
  <1> DEFINE room == {i \in BankIds : req_ready(bms[i])}
             sets == {bs \in SUBSET room : Cardinality(bs) <= MaxInFlight - Cardinality(InFlight)}
             choices(bs) == {r \in [bs -> Requests] : \A i \in bs : r[i] \in Offered[i]}
             offers(bs) == {[i \in BankIds |-> IF i \in bs THEN <<r[i]>> ELSE <<>>] : r \in choices(bs)}
  <1>1. Arrivals = UNION {offers(bs) : bs \in sets}
    BY Zenon DEF Arrivals
  <1>2. PICK bs \in sets : arriving \in offers(bs)
    <2> HIDE DEF offers, sets
    <2>. QED  BY <1>1
  <1>3. PICK r \in choices(bs) : arriving = [i \in BankIds |-> IF i \in bs THEN <<r[i]>> ELSE <<>>]
    BY <1>2
  <1>4. bs \in SUBSET room /\ r \in [bs -> Requests]
    OBVIOUS
  <1>5. CASE b \in bs
    <2>1. req_ready(bms[b]) /\ r[b] \in Requests /\ arriving[b] = <<r[b]>>
      BY <1>5, <1>3, <1>4
    <2>. QED  BY <2>1 DEF MayArrive
  <1>6. CASE b \notin bs
    BY <1>6, <1>3 DEF MayArrive
  <1>. QED  BY <1>5, <1>6

(* Bank b and its bank machine stay in step.                                *)
LEMMA BankStaysInStep ==
    ASSUME IInv, NEW arriving \in Arrivals, Clock(Now, arriving), NEW b \in BankIds
    PROVE  InStep(bms'[b], drams'[b], Phase')
  <1>1. Typed /\ Circuit!SequencerAgrees /\ HandOver /\ BanksInStep
    BY DEF IInv
  <1>2. refresh_req = Requested(Phase)
    <2>1. refresh_req <=> Requested(Phase)
      BY <1>1, PhaseCases
    <2>. QED  BY <2>1, Zenon DEF refresh_req, Ref!refresher_valid, Requested
  <1>3. PICK ready \in BOOLEAN : ready = ready_to(mux, Now, b)
    BY DEF ready_to
  <1>4. PICK move : move = <<Phase', Other>>
    OBVIOUS
  <1>5. /\ bms'[b] = BmNext(bms[b], refresh_req, arriving[b], ready)
        /\ drams'[b] = BankNext(drams[b], Received(bms[b], refresh_req, ready, Other))
    <2>1. /\ bms'[b] = BmNext(bms[b], refresh_req, arriving[b], ready_to(mux, Now, b))
          /\ drams'[b] = BankNext(drams[b], Given(Now, b))
      BY DEF Clock
    <2>. QED  BY <1>1, <1>3, <2>1, GivenToBank
  <1>6. Clocked(bms[b], drams[b], Phase, arriving[b], ready, move, bms'[b], drams'[b], Phase')
    BY <1>2, <1>4, <1>5 DEF Clocked
  <1>7. /\ InStep(bms[b], drams[b], Phase) /\ arriving[b] \in MayArrive(bms[b])
        /\ move \in PhaseMoves(bms[b], drams[b], Phase)
    BY <1>1, <1>4, ArrivalsMay, PhaseStep DEF BanksInStep
  <1>. QED  BY <1>6, <1>7, EdgeStep

(* While the refresher has the DRAM a bank receives what it gives, and does *)
(* not precharge by itself.                                                 *)
LEMMA RefresherAlone ==
    ASSUME IInv, refresher_ready(mux), NEW b \in BankIds
    PROVE  /\ ~cmd_valid(bms[b], refresh_req) /\ Takes(Now, b) = "NOP" /\ Given(Now, b) = Other
           /\ ~SelfPrecharge(drams[b])
  <1>1. Typed /\ Circuit!SequencerAgrees /\ HandOver /\ BanksInStep
    BY DEF IInv
  <1>2. bms[b].fsm = "REFRESH" /\ ~drams[b].ap
    BY <1>1 DEF HandOver, refresher_ready, BanksInStep, InStep, BankAgrees
  <1>3. ~cmd_valid(bms[b], refresh_req)
    BY <1>2 DEF cmd_valid, Column, cmd_precharge, cmd_activate, row_open
  <1>. QED  BY <1>1, <1>2, <1>3, GivenToBank DEF Received, SelfPrecharge

(* The refresher precharges banks that it has just been granted, and        *)
(* refreshes banks that it has precharged.                                  *)
LEMMA RefresherGives ==
    ASSUME IInv, NEW b \in BankIds
    PROVE  /\ Other.op \in {"NOP", "PRE", "REF"}
           /\ Other.op # "NOP" => refresher_ready(mux) /\ (rf.fsm = "DO-REFRESH" \/ rf.fsm = "DO-ZQCS")
           /\ Other.op = "PRE" => Phase = "granted"
           /\ Other.op = "REF" => Phase = "precharged" /\ tRP <= drams[b].pre
  <1>1. Typed /\ Circuit!SequencerAgrees /\ BanksInStep
    BY DEF IInv
  <1>2. /\ tRP \in Nat \ {0} /\ rf.exe \in Nat
        /\ rf.fsm \in {"IDLE", "WAIT-BANK-MACHINES", "DO-REFRESH", "DO-ZQCS"}
    <2>1. tRFC \in Nat \ {0} /\ rf.exe \in 0..(tRP + tRFC)
      BY <1>1, DramTimings DEF Typed, Circuit!RegistersTyped
    <2>. QED  BY <1>1, <2>1, DramTimings DEF Typed, Circuit!RegistersTyped, Circuit!RefresherStates
  <1>3. Nop.op = "NOP" /\ [Nop EXCEPT !.op = "PRE"].op = "PRE" /\ [Nop EXCEPT !.op = "REF"].op = "REF"
    BY DEF Nop
  <1>4. Other.op \in {"NOP", "PRE", "REF"}
    BY <1>3 DEF Other
  <1>5. ASSUME Other.op # "NOP"
        PROVE  /\ refresher_ready(mux) /\ ~Circuit!cmd_last(rf)
               /\ rf.fsm \in {"DO-REFRESH", "DO-ZQCS"}
    <2>1. refresher_ready(mux) /\ refresh_req
      BY <1>3, <1>5 DEF Other, FromRefresher
    <2>2. rf.fsm \notin {"IDLE", "WAIT-BANK-MACHINES"}
      BY <1>1, <1>3, <1>5, OtherCases
    <2>. QED  BY <1>1, <1>2, <2>1, <2>2, RequestCases
  <1>6. CASE rf.fsm = "DO-REFRESH" /\ ~Circuit!cmd_last(rf)
    <2>1. Phase = IF rf.exe = 1 THEN "granted"
                  ELSE IF 1 < rf.exe /\ rf.exe <= tRP + 1 THEN "precharged" ELSE "refreshed"
      BY <1>1, <1>6, PhaseCases
    <2>2. Other.op = IF rf.exe = 1 THEN "PRE" ELSE IF rf.exe = tRP + 1 THEN "REF" ELSE "NOP"
      BY <1>1, <1>3, <1>6, OtherCases
    <2>3. rf.exe # 1 => tRP <= drams[b].pre \/ (rf.exe # 0 /\ rf.exe - 1 <= drams[b].pre)
      BY <1>1, <1>6 DEF BanksInStep, Circuit!PrechargeAged
    <2>. QED  BY <1>2, <1>4, <1>5, <2>1, <2>2, <2>3
  <1>7. CASE rf.fsm = "DO-ZQCS" /\ ~Circuit!cmd_last(rf)
    <2>1. Phase = IF rf.zqexe = 1 THEN "granted" ELSE "precharged"
      BY <1>1, <1>7, PhaseCases
    <2>2. Other.op = IF rf.zqexe = 1 THEN "PRE" ELSE "NOP"
      BY <1>1, <1>3, <1>7, OtherCases
    <2>. QED  BY <1>4, <1>5, <2>1, <2>2
  <1>. QED  BY <1>4, <1>5, <1>6, <1>7

(* The ages of bank b keep up with the refresher's counters.                *)
LEMMA BankAges ==
    ASSUME IInv, NEW arriving \in Arrivals, Clock(Now, arriving), NEW b \in BankIds
    PROVE  Circuit!PrechargeAged(drams[b].pre)' /\ Circuit!RefreshAged(drams[b].ref)'
  <1>1. Typed /\ Circuit!SequencerAgrees /\ HandOver /\ BanksInStep
    BY DEF IInv
  <1>2. /\ tRP \in Nat \ {0} /\ tRFC \in Nat \ {0} /\ tZQCS \in Nat /\ Cap \in Nat
        /\ tRP <= Cap /\ tRFC <= Cap
        /\ rf.fsm \in {"IDLE", "WAIT-BANK-MACHINES", "DO-REFRESH", "DO-ZQCS"}
    <2>1. Circuit!RefresherAssumption /\ Circuit!RegistersTyped
      BY SameCircuit DEF IInv, Typed
    <2>. QED  BY <2>1, DramTimings DEF Circuit!RefresherAssumption, Circuit!RegistersTyped,
                                       Circuit!RefresherStates
  <1>3. /\ Circuit!RefresherAssumption /\ Circuit!RegistersTyped /\ Circuit!SequencerAgrees
        /\ refresher_ready(mux) \in BOOLEAN /\ rf' = Circuit!RefresherNext(rf, refresher_ready(mux))
    BY <1>1, SameCircuit, FsmEdges DEF Typed
  <1>4. drams[b] \in Banks /\ drams'[b] = BankNext(drams[b], Given(Now, b))
    BY <1>1 DEF BanksInStep, InStep, PairTyped, Clock
  <1>5. CASE rf.fsm \in {"IDLE", "WAIT-BANK-MACHINES"}
    <2>1. rf'.fsm \in {"IDLE", "WAIT-BANK-MACHINES"} \/ (rf'.fsm = "DO-REFRESH" /\ rf'.exe = 1 /\ ~rf'.done)
      BY <1>3, <1>5, Circuit!RoundEdges
    <2>2. Phase' # "refreshed"
      <3>1. Circuit!RegistersTyped' /\ Circuit!SequencerAgrees'
        BY <1>1, RefresherStep
      <3>2. rf'.fsm = "DO-REFRESH" => ~Circuit!cmd_last(rf)'
        BY <2>1 DEF Circuit!cmd_last, Circuit!sequencer_done
      <3>. QED  BY <2>1, <3>1, <3>2, PhaseCasesNext
    <2>3. tRFC <= drams'[b].ref
      BY <2>2, BankStaysInStep DEF InStep, PhaseAgrees
    <2>. QED  BY <2>1, <2>3 DEF Circuit!PrechargeAged, Circuit!RefreshAged
  <1>6. CASE rf.fsm \in {"DO-REFRESH", "DO-ZQCS"}
    <2>1. refresher_ready(mux)
      BY <1>1, <1>6 DEF Circuit!SequencerAgrees
    <2>2. Given(Now, b) = Other /\ ~SelfPrecharge(drams[b])
      BY <2>1, RefresherAlone
    <2>3. Nop \in Commands /\ Nop.op = "NOP"
      BY RowsAssumption DEF Nop, Commands, Ops
    <2>4. /\ Other \in Commands
          /\ Other.op = "PRE" <=> FromRefresher = "PRE"
          /\ Other.op = "REF" <=> FromRefresher = "REF"
      BY <2>3 DEF Other, Commands, Ops
    <2>5. /\ drams'[b].pre = IF FromRefresher = "PRE" THEN 1 ELSE Older(drams[b].pre)
          /\ drams'[b].ref = IF FromRefresher = "REF" THEN 1 ELSE Older(drams[b].ref)
      <3>1. drams'[b] = BankNext(drams[b], Other)
        BY <1>4, <2>2
      <3>2. /\ BankNext(drams[b], Other).pre = IF Other.op = "PRE" THEN 1 ELSE Older(drams[b].pre)
            /\ BankNext(drams[b], Other).ref = IF Other.op = "REF" THEN 1 ELSE Older(drams[b].ref)
        BY <1>4, <2>2, <2>4, DramRegisters
      <3>. QED  BY <2>4, <3>1, <3>2
    <2>6. drams[b].pre \in 1..Cap /\ drams[b].ref \in 1..Cap
      BY <1>4 DEF Banks, Ages
    <2>7. /\ Older(drams[b].pre) \in Nat /\ Older(drams[b].ref) \in Nat
          /\ tRP <= Older(drams[b].pre) \/ drams[b].pre + 1 <= Older(drams[b].pre)
          /\ tRFC <= Older(drams[b].ref) \/ drams[b].ref + 1 <= Older(drams[b].ref)
      BY <1>2, <2>6 DEF Older
    <2>8. PICK p \in Nat, r \in Nat : p = drams[b].pre /\ r = drams[b].ref
      BY <1>2, <2>6
    <2>9. PICK p2 \in Nat, r2 \in Nat : p2 = drams'[b].pre /\ r2 = drams'[b].ref
      BY <2>5, <2>7
    <2>10. /\ IF Circuit!Given = "PRE" THEN 1 <= p2 ELSE tRP <= p2 \/ p + 1 <= p2
           /\ IF Circuit!Given = "REF" THEN 1 <= r2 ELSE tRFC <= r2 \/ r + 1 <= r2
      <3>1. FromRefresher = Circuit!Given
        BY SameCircuit
      <3>. QED  BY <2>5, <2>7, <2>8, <2>9, <3>1
    <2>11. PICK zq \in Nat, zq2 \in Nat : tZQCS <= zq /\ tZQCS <= zq2 /\ 1 <= zq2
      <3>1. tZQCS + 1 \in Nat /\ tZQCS <= tZQCS + 1 /\ 1 <= tZQCS + 1
        BY <1>2
      <3>. QED  BY <3>1
    <2>12. Circuit!PrechargeAged(p) /\ Circuit!RefreshAged(r) /\ Circuit!ZqcsAged(zq)
      BY <1>1, <2>8, <2>11 DEF BanksInStep, Circuit!ZqcsAged
    <2>13. Circuit!PrechargeAged(p2)' /\ Circuit!RefreshAged(r2)'
      BY <1>3, <2>10, <2>11, <2>12, Circuit!AgesStep
    <2>. QED  BY <2>9, <2>13 DEF Circuit!PrechargeAged, Circuit!RefreshAged
  <1>. QED  BY <1>2, <1>5, <1>6

(* Every bank accepts what it receives, but for tRAS before the precharge   *)
(* of the refresher.                                                        *)
LEMMA GivenIsLegal ==
    ASSUME IInv, NEW b \in BankIds
    PROVE  LET c == Given(Now, b) IN
               /\ c.op = "ACT" => LegalActivate(drams[b])
               /\ c.op \in {"RD", "WR"} => LegalColumn(drams[b], c.row)
               /\ c.op = "PRE" => /\ PrechargeRecovered(drams[b])
                                  /\ \/ LegalPrecharge(drams[b])
                                     \/ rf.fsm = "DO-REFRESH" \/ rf.fsm = "DO-ZQCS"
               /\ c.op = "REF" => LegalRefresh(drams[b])
  <1> DEFINE c == Given(Now, b)
  <1>1. Typed /\ Circuit!SequencerAgrees /\ HandOver /\ BanksInStep /\ InStep(bms[b], drams[b], Phase)
    BY DEF IInv, BanksInStep
  <1>2. CASE cmd_valid(bms[b], refresh_req) /\ ready_to(mux, Now, b)
    <2>1. c = cmd(bms[b], refresh_req)
      BY <1>1, <1>2, GivenToBank DEF Received
    <2>2. BmTyped(bms[b]) /\ RequestHeld(bms[b]) /\ cmd_valid(bms[b], refresh_req)
      BY <1>1, <1>2 DEF InStep, PairTyped
    <2>3. CASE Column(bms[b], refresh_req)
      <3>1. LegalColumn(drams[b], bms[b].cb[1].row) /\ bms[b].cb[1].row = bms[b].row
        BY <1>1, <2>3, PresentedIsLegal DEF Column, row_hit
      <3>2. c.op \in {"RD", "WR"} /\ c.row = bms[b].row
        BY <2>1, <2>2, <2>3, CmdCases
      <3>. QED  BY <3>1, <3>2
    <2>4. CASE cmd_precharge(bms[b])
      <3>1. c.op = "PRE" /\ LegalPrecharge(drams[b])
        BY <1>1, <2>1, <2>2, <2>4, CmdCases, PresentedIsLegal
      <3>. QED  BY <3>1 DEF LegalPrecharge
    <2>5. CASE cmd_activate(bms[b])
      <3>1. c.op = "ACT" /\ LegalActivate(drams[b])
        BY <1>1, <2>1, <2>2, <2>5, CmdCases, PresentedIsLegal
      <3>. QED  BY <3>1
    <2>. QED  BY <2>2, <2>3, <2>4, <2>5 DEF cmd_valid
  <1>3. CASE ~(cmd_valid(bms[b], refresh_req) /\ ready_to(mux, Now, b))
    <2>1. c = Other
      BY <1>1, <1>3, GivenToBank DEF Received
    <2>2. /\ c.op \in {"NOP", "PRE", "REF"}
          /\ c.op = "PRE" => Phase = "granted"
          /\ c.op = "PRE" => rf.fsm = "DO-REFRESH" \/ rf.fsm = "DO-ZQCS"
          /\ c.op = "REF" => Phase = "precharged" /\ tRP <= drams[b].pre
      BY <2>1, RefresherGives
    <2>3. Phase = "granted" => PrechargeRecovered(drams[b])
      <3>1. drams[b].wr \in Nat /\ tWTP \in Nat
        BY <1>1, DramTimings DEF InStep, PairTyped, Banks, Ages
      <3>. QED  BY <1>1, <3>1 DEF InStep, PhaseAgrees, TimersAgree, TimerAgrees, PrechargeRecovered
    <2>4. Phase = "precharged" /\ tRP <= drams[b].pre => LegalRefresh(drams[b])
      BY <1>1 DEF InStep, PhaseAgrees, BankAgrees, LegalRefresh, Closed
    <2>. QED  BY <2>2, <2>3, <2>4
  <1>. QED  BY <1>2, <1>3

-----------------------------------------------------------------------------
(* The theorems.                                                            *)

(* Initially every FSM is idle and every bank closed.                       *)
LEMMA InitIInv == Init => IInv
  <1> SUFFICES ASSUME Init PROVE IInv
    OBVIOUS
  <1>1. /\ tREFI \in Nat \ {0} /\ tRP \in Nat \ {0} /\ tRFC \in Nat \ {0} /\ tZQCS \in Nat
        /\ zqcs_period \in Nat \ {0} /\ postponing \in Nat \ {0}
    BY SameCircuit DEF Circuit!RefresherAssumption
  <1>2. /\ rf.fsm = "IDLE" /\ rf.timer = tREFI - 1 /\ rf.post = postponing - 1 /\ ~rf.req_o
        /\ rf.seq = postponing - 1 /\ rf.exe = 0 /\ ~rf.done /\ rf.cmd = "NOP"
        /\ rf.zqtimer = zqcs_period - 1 /\ rf.zqexe = 0 /\ ~rf.zqdone
        /\ rf.req_o \in BOOLEAN /\ rf.done \in BOOLEAN /\ rf.zqdone \in BOOLEAN
    BY DEF Init, Ref!RefresherInit
  <1>3. mux.fsm = "READ"
    BY DEF Init, MuxInit
  <1>4. \A b \in BankIds : bms[b] = BmInit /\ drams[b] = BankInit
    BY DEF Init
  <1>5. Circuit!RegistersTyped
    BY <1>1, <1>2 DEF Circuit!RegistersTyped, Circuit!RefresherStates
  <1>6. Circuit!SequencerAgrees
    BY <1>1, <1>2, <1>3 DEF Circuit!SequencerAgrees, Circuit!Quiet, Circuit!PowerOn,
                            Circuit!Elapsed,
                            Circuit!Progress, refresher_ready
  <1>7. BankInit \in Banks /\ InStep(BmInit, BankInit, "idle")
    BY InitInStep DEF InStep, PairTyped
  <1>8. Typed
    BY <1>3, <1>4, <1>5, <1>7 DEF Typed, Init, MuxStates
  <1>9. HandOver
    <2>1. BmInit.fsm = "REGULAR"
      BY DEF BmInit
    <2>. QED  BY <1>3, <1>4, <2>1 DEF HandOver
  <1>10. Phase = "idle"
    BY <1>2, <1>6, <1>8, PhaseCases
  <1>11. BanksInStep
    <2>1. tRFC <= BankInit.ref
      BY DramTimings DEF BankInit
    <2>. QED  BY <1>2, <1>4, <1>7, <1>10, <2>1 DEF BanksInStep, Circuit!PrechargeAged,
                                                   Circuit!RefreshAged
  <1>. QED  BY <1>6, <1>8, <1>9, <1>11 DEF IInv

(* Every clock edge keeps the invariant.                                    *)
LEMMA NextIInv == IInv /\ [Next]_vars => IInv'
  <1> SUFFICES ASSUME IInv, [Next]_vars PROVE IInv'
    OBVIOUS
  <1>1. CASE UNCHANGED vars
    <2>1. bms' = bms /\ mux' = mux /\ rf' = rf /\ drams' = drams
      BY <1>1 DEF vars
    <2>2. Typed' /\ Circuit!SequencerAgrees'
      BY <2>1 DEF IInv, Typed, Circuit!RegistersTyped, Circuit!SequencerAgrees, Circuit!Quiet,
                  Circuit!PowerOn,
                  Circuit!Elapsed, Circuit!Progress, Circuit!RefreshLength, Circuit!Timed, refresher_ready
    <2>3. HandOver'
      BY <2>1 DEF IInv, HandOver
    <2>4. Phase' = Phase
      BY <2>1 DEF Phase, refresh_req, refresher_ready
    <2>5. BanksInStep'
      BY <2>1, <2>4 DEF IInv, BanksInStep, Circuit!PrechargeAged, Circuit!RefreshAged
    <2>. QED  BY <2>2, <2>3, <2>5 DEF IInv
  <1>2. CASE Next
    <2>1. PICK arriving \in Arrivals : Clock(Now, arriving)
      BY <1>2 DEF Next, Read, Write, Refresh, WriteToRead, ReadToWrite, Edge
    <2>2. Typed /\ Circuit!SequencerAgrees /\ HandOver /\ BanksInStep
      BY DEF IInv
    <2>3. Circuit!RegistersTyped' /\ Circuit!SequencerAgrees' /\ HandOver' /\ mux'.fsm \in MuxStates
      BY <2>1, <2>2, RefresherStep, HandOverStep, GrantSteps
    <2>4. BanksInStep'
      BY <2>1, BankStaysInStep, BankAges DEF BanksInStep
    <2>5. Typed'
      <3>1. DOMAIN bms' = BankIds
        BY <2>1 DEF Clock
      <3>2. \A b \in BankIds : drams'[b] \in Banks
        BY <2>4 DEF BanksInStep, InStep, PairTyped
      <3>3. drams' = [b \in BankIds |-> BankNext(drams[b], Given(Now, b))]
        BY <2>1 DEF Clock
      <3>4. drams' \in [BankIds -> Banks]
        BY <3>2, <3>3
      <3>. QED  BY <2>3, <3>1, <3>4 DEF Typed
    <2>. QED  BY <2>3, <2>4, <2>5 DEF IInv
  <1>. QED  BY <1>1, <1>2

(* Every DRAM bank accepts every command that reaches it: see               *)
(* BankCommandsLegal.                                                       *)
THEOREM BanksAcceptCommands == Spec => []BankCommandsLegal
  <1>1. IInv => BankCommandsLegal
    <2> SUFFICES ASSUME IInv, NEW b \in BankIds
                 PROVE  LET c == Given(Now, b) IN
                            /\ c.op = "ACT" => LegalActivate(drams[b])
                            /\ c.op \in {"RD", "WR"} => LegalColumn(drams[b], c.row)
                            /\ c.op = "PRE" => PrechargeRecovered(drams[b])
                            /\ c.op = "REF" => LegalRefresh(drams[b])
      BY Zenon DEF BankCommandsLegal
    <2>. QED  BY GivenIsLegal
  <1>. QED  BY <1>1, InitIInv, NextIInv, PTL DEF Spec

(* The multiplexer has the bank machines when it refreshes: see             *)
(* RefreshExclusive.                                                        *)
THEOREM RefreshIsExclusive == Spec => []RefreshExclusive
  <1>1. IInv => RefreshExclusive
    <2> SUFFICES ASSUME IInv, mux.fsm = "REFRESH", NEW b \in BankIds
                 PROVE  bms[b].fsm = "REFRESH" /\ Kinds[b] = "NOP"
      BY DEF RefreshExclusive
    <2>. QED  BY RefresherAlone DEF IInv, HandOver, refresher_ready, Kinds
  <1>. QED  BY <1>1, InitIInv, NextIInv, PTL DEF Spec

-----------------------------------------------------------------------------
(* The timings between banks.                                               *)

(* What a chooser shows is what the bank machine of its grant presents.     *)
LEMMA ShownCases ==
    ASSUME NEW kinds, NEW valids, NEW grant, Shown(kinds, valids, grant) # "NOP"
    PROVE  grant \in valids /\ Shown(kinds, valids, grant) = kinds[grant]
  BY DEF Shown

(* choose_req takes column commands in the direction of the FSM, when tCCD  *)
(* allows, and activates with one phase only, when tRRD and tFAW allow.     *)
LEMMA ReqAccepts ==
    ASSUME NEW m, NEW kinds, choose_req(m, kinds).accepts # "NOP"
    PROVE  LET op == choose_req(m, kinds).accepts
           IN  /\ m.reqg \in BankIds /\ op = kinds[m.reqg] /\ cas_allowed(m)
               /\ op = "RD" => m.fsm = "READ"
               /\ op = "WR" => m.fsm = "WRITE"
               /\ op = "ACT" => single_phase /\ ras_allowed(m)
  <1> DEFINE valids == req_valids(m, kinds)
             shown == Shown(kinds, valids, m.reqg)
             op == choose_req(m, kinds).accepts
  <1>1. op = IF req_ready_mux(m, shown) THEN shown ELSE "NOP"
    BY DEF choose_req, Chooser
  <1>2. req_ready_mux(m, shown) /\ shown # "NOP" /\ op = shown
    BY <1>1
  <1>3. m.reqg \in valids /\ shown = kinds[m.reqg]
    BY <1>2, ShownCases
  <1>4. m.reqg \in BankIds
    BY <1>3 DEF req_valids, Wanted
  <1>5. Serving(m) /\ cas_allowed(m)
    BY <1>2 DEF req_ready_mux
  <1>6. \/ /\ shown \in {"PRE", "ACT"} /\ single_phase
           /\ shown = "ACT" => single_phase /\ ras_allowed(m)
        \/ /\ (shown = "RD") <=> (m.fsm = "READ")
           /\ (shown = "WR") <=> (m.fsm = "WRITE")
    BY <1>3 DEF req_valids, Wanted
  <1>. QED  BY <1>2, <1>3, <1>4, <1>5, <1>6 DEF Serving

(* choose_cmd takes no column commands, and activates with several phases   *)
(* only, when tRRD and tFAW allow.                                          *)
LEMMA CmdAccepts ==
    ASSUME NEW m, NEW kinds, choose_cmd(m, kinds).accepts # "NOP"
    PROVE  LET op == choose_cmd(m, kinds).accepts
           IN  /\ m.cmdg \in BankIds /\ op = kinds[m.cmdg] /\ ~single_phase
               /\ op # "RD" /\ op # "WR"
               /\ op = "ACT" => ras_allowed(m)
  <1> DEFINE valids == cmd_valids(m, kinds)
             shown == Shown(kinds, valids, m.cmdg)
             op == choose_cmd(m, kinds).accepts
  <1>1. op = IF cmd_ready(m, shown) THEN shown ELSE "NOP"
    BY DEF choose_cmd, Chooser
  <1>2. cmd_ready(m, shown) /\ shown # "NOP" /\ op = shown
    BY <1>1
  <1>3. m.cmdg \in valids /\ shown = kinds[m.cmdg]
    BY <1>2, ShownCases
  <1>4. m.cmdg \in BankIds /\ shown # "RD" /\ shown # "WR"
    BY <1>3 DEF cmd_valids, Wanted
  <1>5. ~single_phase /\ (shown = "ACT" => ras_allowed(m))
    BY <1>2 DEF cmd_ready
  <1>. QED  BY <1>2, <1>3, <1>4, <1>5

(* The commands that the bank machines see taken are those that the two     *)
(* choosers take: at most one column command, the one of choose_req, and    *)
(* activates only from the chooser that starts tRRD.                        *)
Activates == (IF single_phase THEN Now.byReq ELSE Now.byCmd).accepts = "ACT"

LEMMA TakenCases ==
    /\ \A b \in BankIds : Takes(Now, b) \in {"RD", "WR"} =>
          b = mux.reqg /\ Now.byReq.accepts = Takes(Now, b)
    /\ \A op \in {"RD", "WR"} :
          (\E b \in BankIds : Takes(Now, b) = op) <=> Now.byReq.accepts = op
    /\ (\E b \in BankIds : Takes(Now, b) = "ACT") <=> Activates
    /\ Activates => ras_allowed(mux)
    /\ Now.byReq.accepts \in {"RD", "WR"} => cas_allowed(mux)
    /\ Now.byReq.accepts = "RD" => mux.fsm = "READ"
    /\ Now.byReq.accepts = "WR" => mux.fsm = "WRITE"
  <1>1. /\ Now.kinds = Kinds /\ Now.byReq = choose_req(mux, Kinds)
        /\ Now.byCmd = choose_cmd(mux, Kinds)
    BY Zenon DEF Now, Choices
  <1> DEFINE req == Now.byReq.accepts
             cmd0 == Now.byCmd.accepts
  <1>2. req # "NOP" =>
            /\ mux.reqg \in BankIds /\ req = Kinds[mux.reqg] /\ cas_allowed(mux)
            /\ req = "RD" => mux.fsm = "READ"
            /\ req = "WR" => mux.fsm = "WRITE"
            /\ req = "ACT" => single_phase /\ ras_allowed(mux)
    BY <1>1, ReqAccepts
  <1>3. cmd0 # "NOP" =>
            /\ mux.cmdg \in BankIds /\ cmd0 = Kinds[mux.cmdg] /\ ~single_phase
            /\ cmd0 # "RD" /\ cmd0 # "WR"
            /\ cmd0 = "ACT" => ras_allowed(mux)
    BY <1>1, CmdAccepts
  <1>4. \A b \in BankIds :
            Takes(Now, b) = IF (cmd0 # "NOP" /\ mux.cmdg = b) \/ (req # "NOP" /\ mux.reqg = b)
                            THEN Kinds[b] ELSE "NOP"
    BY <1>1 DEF Takes, ready_to
  <1> HIDE DEF req, cmd0
  <1>5. ASSUME NEW b \in BankIds, Takes(Now, b) # "NOP"
        PROVE  \/ cmd0 = Takes(Now, b) /\ cmd0 # "NOP"
               \/ req = Takes(Now, b) /\ req # "NOP" /\ mux.reqg = b
    BY <1>2, <1>3, <1>4, <1>5
  <1>6. req # "NOP" => Takes(Now, mux.reqg) = req
    BY <1>2, <1>4
  <1>7. cmd0 # "NOP" => Takes(Now, mux.cmdg) = cmd0
    BY <1>3, <1>4
  <1>8. Activates <=> IF single_phase THEN req = "ACT" ELSE cmd0 = "ACT"
    BY DEF Activates, req, cmd0
  <1>9. ASSUME NEW b \in BankIds, Takes(Now, b) \in {"RD", "WR"}
        PROVE  b = mux.reqg /\ req = Takes(Now, b)
    BY <1>3, <1>5, <1>9
  <1>10. (\E b \in BankIds : Takes(Now, b) = "RD") <=> req = "RD"
    BY <1>2, <1>6, <1>9
  <1>11. (\E b \in BankIds : Takes(Now, b) = "WR") <=> req = "WR"
    BY <1>2, <1>6, <1>9
  <1>12. (\E b \in BankIds : Takes(Now, b) = "ACT") <=> Activates
    <2>1. ASSUME NEW b \in BankIds, Takes(Now, b) = "ACT" PROVE Activates
      BY <1>2, <1>3, <1>5, <1>8, <2>1
    <2>2. ASSUME Activates PROVE \E b \in BankIds : Takes(Now, b) = "ACT"
      BY <1>2, <1>3, <1>6, <1>7, <1>8, <2>2
    <2>. QED  BY <2>1, <2>2
  <1>13. Activates => ras_allowed(mux)
    BY <1>2, <1>3, <1>8
  <1>14. /\ req \in {"RD", "WR"} => cas_allowed(mux)
         /\ req = "RD" => mux.fsm = "READ"
         /\ req = "WR" => mux.fsm = "WRITE"
    BY <1>2
  <1>. QED  BY <1>9, <1>10, <1>11, <1>12, <1>13, <1>14 DEF req

(* How the multiplexer's FSM enters the states of the two directions and    *)
(* the turnaround from read to write.                                       *)
LEMMA TurnaroundCases ==
    ASSUME NEW m, m.fsm \in MuxStates, m.wait \in Nat, m.fsm = "RTW" => 1 <= m.wait,
           NEW kinds, NEW go, NEW last
    PROVE  LET next == MuxFsmNext(m, kinds, go, last)
           IN  /\ next[2] \in Nat
               /\ next[1] = "READ" => \/ m.fsm = "READ" \/ (m.fsm = "REFRESH" /\ last)
                                      \/ m.fsm = "WTR" /\ m.twtr.ready
               /\ next[1] = "WRITE" => \/ m.fsm = "WRITE" \/ (m.fsm = "READ" /\ read_latency <= 1)
                                       \/ m.fsm = "RTW" /\ m.wait = 1
               /\ next[1] = "RTW" =>
                     \/ m.fsm = "READ" /\ 1 < read_latency /\ next[2] = read_latency - 1
                     \/ m.fsm = "RTW" /\ m.wait # 1 /\ next[2] = m.wait - 1
  <1> DEFINE next == MuxFsmNext(m, kinds, go, last)
             turns == write_available(kinds) /\ (~read_available(kinds) \/ TimeUp(read_time, m.rtime))
             returns == read_available(kinds) /\ (~write_available(kinds) \/ TimeUp(write_time, m.wtime))
  <1>1. read_latency \in Nat
    BY MuxAssumption
  <1>2. CASE m.fsm = "READ"
    <2>1. next = IF go THEN <<"REFRESH", 0>> ELSE IF turns THEN EnterRTW ELSE <<"READ", 0>>
      BY <1>2 DEF MuxFsmNext
    <2>2. EnterRTW = IF read_latency <= 1 THEN <<"WRITE", 0>> ELSE <<"RTW", read_latency - 1>>
      BY DEF EnterRTW
    <2> HIDE DEF turns, next
    <2>. QED  BY <1>1, <1>2, <2>1, <2>2 DEF next
  <1>3. CASE m.fsm = "WRITE"
    <2>1. next = IF go THEN <<"REFRESH", 0>> ELSE IF returns THEN <<"WTR", 0>> ELSE <<"WRITE", 0>>
      BY <1>3 DEF MuxFsmNext
    <2> HIDE DEF returns, next
    <2>. QED  BY <1>3, <2>1 DEF next
  <1>4. CASE m.fsm = "REFRESH"
    <2>1. next = IF last THEN <<"READ", 0>> ELSE <<"REFRESH", 0>>
      BY <1>4 DEF MuxFsmNext
    <2> HIDE DEF next
    <2>. QED  BY <1>4, <2>1 DEF next
  <1>5. CASE m.fsm = "WTR"
    <2>1. next = IF m.twtr.ready THEN <<"READ", 0>> ELSE <<"WTR", 0>>
      BY <1>5 DEF MuxFsmNext
    <2> HIDE DEF next
    <2>. QED  BY <1>5, <2>1 DEF next
  <1>6. CASE m.fsm = "RTW"
    <2>1. next = IF m.wait = 1 THEN <<"WRITE", 0>> ELSE <<"RTW", m.wait - 1>>
      BY <1>6 DEF MuxFsmNext
    <2> HIDE DEF next
    <2>. QED  BY <1>6, <2>1 DEF next
  <1>. QED  BY <1>2, <1>3, <1>4, <1>5, <1>6 DEF MuxStates

(* The multiplexer's timers and the ages over all banks after a clock edge. *)
LEMMA RankEdges ==
    ASSUME RankTyped, NEW arriving, Clock(Now, arriving)
    PROVE  LET op == Now.byReq.accepts
           IN  /\ rank' \in [act : Ages, rd : Ages, wr : Ages]
               /\ rank'.act = IF Activates THEN 1 ELSE Older(rank.act)
               /\ rank'.rd = IF op = "RD" THEN 1 ELSE Older(rank.rd)
               /\ rank'.wr = IF op = "WR" THEN 1 ELSE Older(rank.wr)
               /\ mux'.trrd = tXXDNext(tRRD, mux.trrd, Activates)
               /\ mux'.tccd = tXXDNext(tCCD, mux.tccd, op \in {"RD", "WR"})
               /\ mux'.twtr = tXXDNext(tWTRtotal, mux.twtr, op = "WR")
               /\ \E go, last : /\ mux'.fsm = MuxFsmNext(mux, Kinds, go, last)[1]
                                /\ mux'.wait = MuxFsmNext(mux, Kinds, go, last)[2]
                                /\ last = Ref!cmd_last(rf)
  <1> DEFINE op == Now.byReq.accepts
             next == MuxFsmNext(mux, Now.kinds, go_to_refresh, Ref!cmd_last(rf))
  <1>1. mux' = MuxNext(mux, Now, go_to_refresh, Ref!cmd_last(rf)) /\ rank' = RankNext(Now)
    BY DEF Clock
  <1>2. /\ mux'.trrd = tXXDNext(tRRD, mux.trrd, Activates)
        /\ mux'.tccd = tXXDNext(tCCD, mux.tccd, op \in {"RD", "WR"})
        /\ mux'.twtr = tXXDNext(tWTRtotal, mux.twtr, op = "WR")
        /\ mux'.fsm = next[1] /\ mux'.wait = next[2]
    BY <1>1, Zenon DEF MuxNext, Activates
  <1>3. Now.kinds = Kinds
    BY Zenon DEF Now, Choices
  <1>4. /\ rank'.act = IF \E b \in BankIds : Takes(Now, b) = "ACT" THEN 1 ELSE Older(rank.act)
        /\ rank'.rd = IF \E b \in BankIds : Takes(Now, b) = "RD" THEN 1 ELSE Older(rank.rd)
        /\ rank'.wr = IF \E b \in BankIds : Takes(Now, b) = "WR" THEN 1 ELSE Older(rank.wr)
        /\ rank' = [act |-> rank'.act, rd |-> rank'.rd, wr |-> rank'.wr]
    BY <1>1, Zenon DEF RankNext
  <1>5. /\ rank'.act = IF Activates THEN 1 ELSE Older(rank.act)
        /\ rank'.rd = IF op = "RD" THEN 1 ELSE Older(rank.rd)
        /\ rank'.wr = IF op = "WR" THEN 1 ELSE Older(rank.wr)
    BY <1>4, TakenCases
  <1>6. 1 \in Ages /\ \A age \in Ages : Older(age) \in Ages
    <2>1. Cap \in Nat \ {0}
      BY DramTimings
    <2>. QED  BY <2>1 DEF Ages, Older
  <1>7. rank.act \in Ages /\ rank.rd \in Ages /\ rank.wr \in Ages
    BY DEF RankTyped
  <1>8. rank'.act \in Ages /\ rank'.rd \in Ages /\ rank'.wr \in Ages
    BY <1>5, <1>6, <1>7
  <1>9. rank' \in [act : Ages, rd : Ages, wr : Ages]
    BY <1>4, <1>8
  <1>. QED  BY <1>2, <1>3, <1>5, <1>9

(* A bank is activated and written by what its bank machine has taken.      *)
LEMMA BankHistory ==
    ASSUME IInv, NEW arriving, Clock(Now, arriving), NEW b \in BankIds
    PROVE  /\ drams[b] \in Banks /\ Given(Now, b) \in Commands
           /\ drams'[b] = BankNext(drams[b], Given(Now, b))
           /\ Given(Now, b).op = "WR" <=> Takes(Now, b) = "WR"
           /\ Given(Now, b).op = "ACT" <=> Takes(Now, b) = "ACT"
           /\ drams'[b].wr = IF Takes(Now, b) = "WR" THEN 1 ELSE Older(drams[b].wr)
           /\ drams'[b].act = IF Takes(Now, b) = "ACT" THEN 1 ELSE Older(drams[b].act)
           /\ drams'[b].active /\ Takes(Now, b) # "ACT" => drams[b].active
  <1> DEFINE g == Given(Now, b)
  <1>1. Typed /\ Circuit!SequencerAgrees /\ BanksInStep
    BY DEF IInv
  <1>2. BmTyped(bms[b]) /\ RequestHeld(bms[b]) /\ drams[b] \in Banks
    BY <1>1 DEF BanksInStep, InStep, PairTyped
  <1>3. Other \in Commands /\ Other.op \in {"NOP", "PRE", "REF"}
    <2>1. Nop \in Commands
      BY RowsAssumption DEF Nop, Commands, Ops
    <2>2. Other \in Commands
      BY <2>1 DEF Other, Commands, Ops
    <2>. QED  BY <2>2, RefresherGives
  <1>4. g = Received(bms[b], refresh_req, ready_to(mux, Now, b), Other)
    BY <1>1, GivenToBank
  <1>5. /\ g \in Commands
        /\ cmd_valid(bms[b], refresh_req) /\ ready_to(mux, Now, b) => g = cmd(bms[b], refresh_req)
        /\ ~(cmd_valid(bms[b], refresh_req) /\ ready_to(mux, Now, b)) => g = Other
    BY <1>2, <1>3, <1>4, GivenCases
  <1>6. Takes(Now, b) = IF cmd_valid(bms[b], refresh_req) /\ ready_to(mux, Now, b)
                        THEN cmd(bms[b], refresh_req).op ELSE "NOP"
    BY <1>1, GivenToBank
  <1>7. /\ g.op = "WR" <=> Takes(Now, b) = "WR"
        /\ g.op = "ACT" <=> Takes(Now, b) = "ACT"
    BY <1>3, <1>5, <1>6
  <1>8. drams'[b] = BankNext(drams[b], g)
    BY DEF Clock
  <1> HIDE DEF g
  <1>9. /\ BankNext(drams[b], g).wr = IF g.op = "WR" THEN 1 ELSE Older(drams[b].wr)
        /\ BankNext(drams[b], g).act = IF g.op = "ACT" THEN 1 ELSE Older(drams[b].act)
        /\ BankNext(drams[b], g).active => g.op = "ACT" \/ drams[b].active
    BY <1>2, <1>5, DramRegisters
  <1>. QED  BY <1>2, <1>5, <1>7, <1>8, <1>9 DEF g

(* A clock edge keeps the timers in agreement with the ages.                *)
LEMMA RankTimersStep ==
    ASSUME RankTyped, RankTimers, NEW arriving, Clock(Now, arriving)
    PROVE  /\ RankTimers'
           /\ mux'.trrd.ready \in BOOLEAN /\ mux'.tccd.ready \in BOOLEAN /\ mux'.twtr.ready \in BOOLEAN
           /\ mux.twtr.ready /\ Now.byReq.accepts # "WR" => tWTRtotal <= rank'.wr
  <1> DEFINE op == Now.byReq.accepts
  <1>1. /\ tRRD \in Nat /\ tCCD \in Nat /\ tWTRtotal \in Nat
        /\ tRRD <= Cap /\ tCCD <= Cap /\ tWTRtotal <= Cap /\ Cap \in Nat
    BY MuxAssumption, RankAssumption, DramTimings
  <1>2. /\ rank.act \in Ages /\ rank.rd \in Ages /\ rank.wr \in Ages
        /\ mux.trrd.ready \in BOOLEAN /\ mux.tccd.ready \in BOOLEAN /\ mux.twtr.ready \in BOOLEAN
    BY DEF RankTyped
  <1>3. /\ rank'.act = IF Activates THEN 1 ELSE Older(rank.act)
        /\ rank'.rd = IF op = "RD" THEN 1 ELSE Older(rank.rd)
        /\ rank'.wr = IF op = "WR" THEN 1 ELSE Older(rank.wr)
        /\ mux'.trrd = tXXDNext(tRRD, mux.trrd, Activates)
        /\ mux'.tccd = tXXDNext(tCCD, mux.tccd, op \in {"RD", "WR"})
        /\ mux'.twtr = tXXDNext(tWTRtotal, mux.twtr, op = "WR")
    BY RankEdges
  <1> HIDE DEF op
  <1>4. mux'.trrd.ready \in BOOLEAN /\ TimerAgrees(tRRD, mux'.trrd, rank'.act)
    <2>1. PICK valid \in BOOLEAN : valid = Activates
      BY DEF Activates
    <2>2. TimerAgrees(tRRD, mux.trrd, rank.act)
      BY DEF RankTimers
    <2>. QED  BY <1>1, <1>2, <1>3, <2>1, <2>2, TimerStep
  <1>5. mux'.twtr.ready \in BOOLEAN /\ TimerAgrees(tWTRtotal, mux'.twtr, rank'.wr)
    <2>1. PICK valid \in BOOLEAN : valid = (op = "WR")
      OBVIOUS
    <2>2. TimerAgrees(tWTRtotal, mux.twtr, rank.wr)
      BY DEF RankTimers
    <2>3. rank'.wr = (IF valid THEN 1 ELSE Older(rank.wr)) /\ mux'.twtr = tXXDNext(tWTRtotal, mux.twtr, valid)
      BY <1>3, <2>1, Zenon
    <2>. QED  BY <1>1, <1>2, <2>2, <2>3, TimerStep
  <1>6. mux'.tccd.ready \in BOOLEAN /\ TimerAgrees(tCCD, mux'.tccd, LastColumn')
    <2>1. PICK valid \in BOOLEAN : valid = (op \in {"RD", "WR"})
      <3>1. (op \in {"RD", "WR"}) \in BOOLEAN
        OBVIOUS
      <3>. QED  BY <3>1, Zenon
    <2>2. TimerAgrees(tCCD, mux.tccd, LastColumn) /\ LastColumn \in Ages
      BY <1>2 DEF RankTimers, LastColumn
    <2>3. mux'.tccd = tXXDNext(tCCD, mux.tccd, valid)
      BY <1>3, <2>1, Zenon
    <2>4. valid <=> op = "RD" \/ op = "WR"
      BY <2>1, Zenon
    <2>5. LastColumn' = IF valid THEN 1 ELSE Older(LastColumn)
      <3>1. LastColumn' = IF rank'.rd < rank'.wr THEN rank'.rd ELSE rank'.wr
        BY DEF LastColumn
      <3>2. rank.rd \in 1..Cap /\ rank.wr \in 1..Cap
        BY <1>2 DEF Ages
      <3>. QED  BY <1>1, <1>3, <2>4, <3>1, <3>2 DEF LastColumn, Older
    <2>. QED  BY <1>1, <1>2, <2>2, <2>3, <2>5, TimerStep
  <1>7. mux.twtr.ready /\ op # "WR" => tWTRtotal <= rank'.wr
    BY <1>1, <1>2, <1>3 DEF RankTimers, TimerAgrees, Ages, Older
  <1>. QED  BY <1>4, <1>5, <1>6, <1>7 DEF RankTimers, op

(* A clock edge keeps the turnaround.                                       *)
LEMMA TurnaroundStep ==
    ASSUME IInv, RankInv, NEW arriving, Clock(Now, arriving)
    PROVE  Turnaround' /\ mux'.wait \in Nat
  <1> DEFINE op == Now.byReq.accepts
  <1>1. /\ tWTRtotal \in Nat /\ read_latency \in Nat /\ Cap \in Nat /\ tWTRtotal <= Cap /\ read_latency <= Cap
    BY MuxAssumption, RankAssumption, DramTimings
  <1>2. /\ rank.rd \in 1..Cap /\ rank.wr \in 1..Cap /\ mux.fsm \in MuxStates /\ mux.wait \in Nat
        /\ mux.fsm = "RTW" => 1 <= mux.wait
    BY DEF IInv, Typed, RankInv, RankTyped, Turnaround, Ages
  <1>3. /\ rank'.rd = IF op = "RD" THEN 1 ELSE Older(rank.rd)
        /\ rank'.wr = IF op = "WR" THEN 1 ELSE Older(rank.wr)
    BY RankEdges DEF RankInv
  <1>4. (op = "RD" => mux.fsm = "READ") /\ (op = "WR" => mux.fsm = "WRITE")
    BY TakenCases
  <1>5. PICK go, last : /\ mux'.fsm = MuxFsmNext(mux, Kinds, go, last)[1]
                        /\ mux'.wait = MuxFsmNext(mux, Kinds, go, last)[2]
                        /\ last = Ref!cmd_last(rf)
    BY RankEdges DEF RankInv
  <1>6. /\ mux'.wait \in Nat
        /\ mux'.fsm = "READ" => \/ mux.fsm = "READ" \/ (mux.fsm = "REFRESH" /\ last)
                                \/ mux.fsm = "WTR" /\ mux.twtr.ready
        /\ mux'.fsm = "WRITE" => \/ mux.fsm = "WRITE" \/ (mux.fsm = "READ" /\ read_latency <= 1)
                                 \/ mux.fsm = "RTW" /\ mux.wait = 1
        /\ mux'.fsm = "RTW" =>
              \/ mux.fsm = "READ" /\ 1 < read_latency /\ mux'.wait = read_latency - 1
              \/ mux.fsm = "RTW" /\ mux.wait # 1 /\ mux'.wait = mux.wait - 1
    BY <1>2, <1>5, TurnaroundCases
  <1> HIDE DEF op
  <1>7. ASSUME mux'.fsm = "READ" PROVE tWTRtotal <= rank'.wr
    <2>1. CASE mux.fsm = "READ"
      BY <1>1, <1>2, <1>3, <1>4, <2>1 DEF RankInv, Turnaround, Older
    <2>2. CASE mux.fsm = "WTR" /\ mux.twtr.ready
      BY <1>4, <2>2, RankTimersStep DEF RankInv, op
    <2>3. CASE mux.fsm = "REFRESH" /\ last
      <3>1. Circuit!cmd_last(rf)
        BY <1>5, <2>3, SameCircuit
      <3>2. (rf.fsm = "DO-REFRESH" /\ rf.exe = 0) \/ rf.fsm = "DO-ZQCS"
        BY <3>1 DEF Circuit!cmd_last, Circuit!sequencer_done, IInv, Circuit!SequencerAgrees
      <3>3. tWTRtotal <= rank.wr
        BY <3>2 DEF RankInv, RefreshOutlastsWrite
      <3>. QED  BY <1>1, <1>2, <1>3, <1>4, <2>3, <3>3 DEF Older
    <2>. QED  BY <1>6, <1>7, <2>1, <2>2, <2>3
  <1>8. ASSUME mux'.fsm = "WRITE" PROVE read_latency <= rank'.rd
    BY <1>1, <1>2, <1>3, <1>4, <1>6, <1>8 DEF RankInv, Turnaround, Older
  <1>9. ASSUME mux'.fsm = "RTW" PROVE 1 <= mux'.wait /\ read_latency <= rank'.rd + mux'.wait
    BY <1>1, <1>2, <1>3, <1>4, <1>6, <1>9 DEF RankInv, Turnaround, Older
  <1>. QED  BY <1>6, <1>7, <1>8, <1>9 DEF Turnaround

(* Every refresh outlasts the turnaround from write to read: the write      *)
(* recovery is over when it starts.                                         *)
LEMMA RefreshOutlastsStep ==
    ASSUME IInv, RankInv, NEW arriving, Clock(Now, arriving)
    PROVE  RefreshOutlastsWrite'
  <1> DEFINE op == Now.byReq.accepts
  <1>1. /\ tWTRtotal \in Nat /\ Cap \in Nat /\ tWTRtotal <= Cap
        /\ tRP \in Nat /\ tRFC \in Nat /\ tWTP \in Nat /\ tWTRtotal <= tWTP + tRP + tRFC + 1
    BY MuxAssumption, RankAssumption, DramTimings
  <1>2. rank.wr \in 1..Cap /\ rank'.wr = IF op = "WR" THEN 1 ELSE Older(rank.wr)
    BY RankEdges DEF RankInv, RankTyped, Ages
  <1>3. op = "WR" => mux.fsm = "WRITE"
    BY TakenCases
  <1>4. Typed /\ Circuit!SequencerAgrees /\ BanksInStep
    BY DEF IInv
  <1>5. /\ Circuit!RefresherAssumption /\ Circuit!RegistersTyped /\ Circuit!SequencerAgrees
        /\ refresher_ready(mux) \in BOOLEAN /\ rf' = Circuit!RefresherNext(rf, refresher_ready(mux))
    BY <1>4, SameCircuit, FsmEdges DEF Typed
  <1>6. /\ rf.fsm \in {"IDLE", "WAIT-BANK-MACHINES", "DO-REFRESH", "DO-ZQCS"}
        /\ rf.exe \in 0..(tRP + tRFC)
    BY <1>5 DEF Circuit!RegistersTyped, Circuit!RefresherStates
  <1>7. \E b \in BankIds : drams'[b].wr = rank'.wr
    <2>1. (\E b \in BankIds : Takes(Now, b) = "WR") <=> op = "WR"
      BY TakenCases
    <2>2. \A b \in BankIds : drams'[b].wr = IF Takes(Now, b) = "WR" THEN 1 ELSE Older(drams[b].wr)
      BY BankHistory
    <2>3. \E b \in BankIds : drams[b].wr = rank.wr
      BY DEF RankInv, RefreshOutlastsWrite
    <2>. QED  BY <1>2, <2>1, <2>2, <2>3
  <1> HIDE DEF op
  <1>8. refresher_ready(mux) => op # "WR"
    BY <1>3 DEF refresher_ready
  <1>9. CASE rf.fsm = "IDLE" \/ (rf.fsm = "WAIT-BANK-MACHINES" /\ ~refresher_ready(mux))
    <2>1. rf'.fsm \in {"IDLE", "WAIT-BANK-MACHINES"}
      BY <1>5, <1>9, Circuit!RoundEdges
    <2>. QED  BY <1>7, <2>1 DEF RefreshOutlastsWrite
  <1>10. CASE rf.fsm = "WAIT-BANK-MACHINES" /\ refresher_ready(mux)
    <2>1. rf'.fsm = "DO-REFRESH" /\ rf'.exe = 1
      BY <1>5, <1>10, Circuit!RoundEdges
    <2>2. PICK b \in BankIds : drams[b].wr = rank.wr
      BY DEF RankInv, RefreshOutlastsWrite
    <2>3. Phase = "granted"
      BY <1>4, <1>10, PhaseCases
    <2>4. tWTP <= rank.wr
      BY <1>1, <1>2, <1>4, <2>2, <2>3 DEF BanksInStep, InStep, PhaseAgrees, TimersAgree, TimerAgrees
    <2>5. tWTRtotal <= rank'.wr \/ tWTP + 1 <= rank'.wr
      BY <1>1, <1>2, <1>8, <1>10, <2>4 DEF Older
    <2>. QED  BY <1>7, <2>1, <2>5 DEF RefreshOutlastsWrite
  <1>11. CASE rf.fsm = "DO-REFRESH" /\ ~(rf.done /\ rf.seq = 0)
    <2>1. rf'.fsm = "DO-REFRESH" /\ rf'.exe = IF rf.exe = tRP + tRFC THEN 0 ELSE rf.exe + 1
      BY <1>5, <1>11, Circuit!RoundEdges
    <2>2. op # "WR"
      BY <1>5, <1>8, <1>11 DEF Circuit!SequencerAgrees
    <2>3. tWTRtotal <= rank.wr \/ (rf.exe # 0 /\ tWTP + rf.exe <= rank.wr)
      BY <1>11 DEF RankInv, RefreshOutlastsWrite
    <2>4. tWTRtotal <= rank'.wr \/ (rf'.exe # 0 /\ tWTP + rf'.exe <= rank'.wr)
      BY <1>1, <1>2, <1>6, <2>1, <2>2, <2>3 DEF Older
    <2>. QED  BY <1>7, <2>1, <2>4 DEF RefreshOutlastsWrite
  <1>12. CASE (rf.fsm = "DO-REFRESH" /\ rf.done /\ rf.seq = 0) \/ rf.fsm = "DO-ZQCS"
    <2>1. rf'.fsm \in {"IDLE", "DO-ZQCS"}
      BY <1>5, <1>12, Circuit!RoundEdges
    <2>2. op # "WR"
      BY <1>5, <1>8, <1>12 DEF Circuit!SequencerAgrees
    <2>3. tWTRtotal <= rank.wr
      BY <1>5, <1>12 DEF RankInv, RefreshOutlastsWrite, Circuit!SequencerAgrees
    <2>4. tWTRtotal <= rank'.wr
      BY <1>1, <1>2, <2>2, <2>3 DEF Older
    <2>. QED  BY <1>7, <2>1, <2>4 DEF RefreshOutlastsWrite
  <1>. QED  BY <1>6, <1>9, <1>10, <1>11, <1>12

(* Initially every age is old.                                              *)
LEMMA InitRankInv == Init => RankInv
  <1> SUFFICES ASSUME Init PROVE RankInv
    OBVIOUS
  <1>1. Cap \in Nat \ {0} /\ tWTRtotal <= Cap /\ tRRD <= Cap /\ tCCD <= Cap /\ tRRD \in Nat /\ tCCD \in Nat
        /\ tWTRtotal \in Nat
    BY DramTimings, RankAssumption, MuxAssumption
  <1>2. rank = [act |-> Cap, rd |-> Cap, wr |-> Cap]
    BY DEF Init, RankInit
  <1>3. /\ mux.fsm = "READ" /\ mux.wait = 0
        /\ mux.trrd.ready \in BOOLEAN /\ mux.tccd.ready \in BOOLEAN /\ mux.twtr.ready \in BOOLEAN
    BY DEF Init, MuxInit, tXXDInit
  <1>4. rf.fsm = "IDLE"
    BY DEF Init, Ref!RefresherInit
  <1>5. 0 \in BankIds /\ drams[0] = BankInit
    BY MuxAssumption DEF BankIds, Init
  <1>6. BankInit.wr = Cap
    BY DEF BankInit
  <1>7. RankTyped
    BY <1>1, <1>2, <1>3 DEF RankTyped, Ages
  <1>8. RankTimers
    BY <1>1, <1>2 DEF RankTimers, TimerAgrees, LastColumn
  <1>9. Turnaround /\ RefreshOutlastsWrite
    BY <1>1, <1>2, <1>3, <1>4, <1>5, <1>6 DEF Turnaround, RefreshOutlastsWrite
  <1>. QED  BY <1>7, <1>8, <1>9 DEF RankInv

(* Every clock edge keeps the invariant of the timings between banks.       *)
LEMMA NextRankInv == IInv /\ RankInv /\ [Next]_vars => RankInv'
  <1> SUFFICES ASSUME IInv, RankInv, [Next]_vars PROVE RankInv'
    OBVIOUS
  <1>1. CASE UNCHANGED vars
    BY <1>1 DEF vars, RankInv, RankTyped, RankTimers, LastColumn, Turnaround, RefreshOutlastsWrite
  <1>2. CASE Next
    <2>1. PICK arriving \in Arrivals : Clock(Now, arriving)
      BY <1>2 DEF Next, Read, Write, Refresh, WriteToRead, ReadToWrite, Edge
    <2>2. RankTyped /\ RankTimers
      BY DEF RankInv
    <2>3. Turnaround' /\ mux'.wait \in Nat /\ RefreshOutlastsWrite'
      BY <2>1, TurnaroundStep, RefreshOutlastsStep
    <2>4. /\ RankTimers'
          /\ mux'.trrd.ready \in BOOLEAN /\ mux'.tccd.ready \in BOOLEAN /\ mux'.twtr.ready \in BOOLEAN
      BY <2>1, <2>2, RankTimersStep
    <2>5. rank' \in [act : Ages, rd : Ages, wr : Ages]
      BY <2>1, <2>2, RankEdges
    <2>. QED  BY <2>3, <2>4, <2>5 DEF RankInv, RankTyped
  <1>. QED  BY <1>1, <1>2

(* The timings between banks hold: see RankTimingsRespected.                *)
THEOREM RankTimingsHold == Spec => []RankTimingsRespected
  <1>1. RankInv => RankTimingsRespected
    <2> SUFFICES ASSUME RankInv PROVE RankTimingsRespected
      OBVIOUS
    <2> DEFINE op == Now.byReq.accepts
               gives(o) == {b \in BankIds : Takes(Now, b) = o}
    <2>1. /\ tRRD \in Nat /\ tCCD \in Nat /\ rank.act \in Nat /\ rank.rd \in Nat /\ rank.wr \in Nat
          /\ LastColumn <= rank.rd /\ LastColumn <= rank.wr /\ LastColumn \in Nat
      BY MuxAssumption, DramTimings DEF RankInv, RankTyped, Ages, LastColumn
    <2>2. /\ mux.trrd.ready => tRRD <= rank.act
          /\ mux.tccd.ready => tCCD <= rank.rd /\ tCCD <= rank.wr
      BY <2>1 DEF RankInv, RankTimers, TimerAgrees
    <2>3. gives("ACT") # {} => tRRD <= rank.act
      BY <2>2, TakenCases DEF ras_allowed
    <2>4. gives("RD") # {} => op = "RD"
      BY TakenCases
    <2>5. gives("WR") # {} => op = "WR"
      BY TakenCases
    <2>6. gives("RD") # {} => tWTRtotal <= rank.wr /\ tCCD <= rank.rd
      BY <2>2, <2>4, TakenCases DEF cas_allowed, RankInv, Turnaround
    <2>7. gives("WR") # {} => read_latency <= rank.rd /\ tCCD <= rank.wr
      BY <2>2, <2>5, TakenCases DEF cas_allowed, RankInv, Turnaround
    <2>8. Cardinality(gives("RD") \cup gives("WR")) <= 1
      <3>1. \A b \in gives("RD") \cup gives("WR") : b = mux.reqg
        BY TakenCases
      <3>2. gives("RD") \cup gives("WR") = {} \/ gives("RD") \cup gives("WR") = {mux.reqg}
        BY <3>1
      <3>3. Cardinality({}) = 0 /\ Cardinality({mux.reqg}) = 1
        BY FS_EmptySet, FS_Singleton
      <3> HIDE DEF gives
      <3>. QED  BY <3>2, <3>3
    <2>. QED  BY <2>3, <2>6, <2>7, <2>8, Zenon DEF RankTimingsRespected
  <1>2. Init => IInv /\ RankInv
    BY InitIInv, InitRankInv
  <1>3. IInv /\ RankInv /\ [Next]_vars => IInv' /\ RankInv'
    BY NextIInv, NextRankInv
  <1>. QED  BY <1>1, <1>2, <1>3, PTL DEF Spec

-----------------------------------------------------------------------------
(* tRAS before the precharge of the refresher.                              *)

(* A bank machine on its way to REFRESH, or there, takes no activate.       *)
LEMMA NoActivateOnRefresh ==
    ASSUME IInv, NEW b \in BankIds, bms[b].fsm = "REGULAR" \/ bms[b].fsm = "REFRESH"
    PROVE  Takes(Now, b) # "ACT"
  <1>1. Typed /\ Circuit!SequencerAgrees /\ BanksInStep /\ BmTyped(bms[b]) /\ RequestHeld(bms[b])
    BY DEF IInv, BanksInStep, InStep, PairTyped
  <1>2. SUFFICES ASSUME cmd_valid(bms[b], refresh_req)
                 PROVE  cmd(bms[b], refresh_req).op # "ACT"
    BY <1>1, GivenToBank
  <1>3. ~cmd_precharge(bms[b]) /\ ~cmd_activate(bms[b])
    BY DEF cmd_precharge, cmd_activate, row_open
  <1>4. Column(bms[b], refresh_req)
    BY <1>2, <1>3 DEF cmd_valid
  <1>. QED  BY <1>1, <1>2, <1>4, CmdCases

(* A clock edge brings the precharge a cycle nearer, and the bank a cycle   *)
(* older.                                                                   *)
LEMMA RasStep ==
    ASSUME tRAS <= tRCD + 3, IInv, RasInv, NEW arriving, Clock(Now, arriving)
    PROVE  RasInv'
  <1>1. Typed /\ Circuit!SequencerAgrees /\ HandOver /\ BanksInStep
    BY DEF IInv
  <1>2. tRAS \in Nat /\ tRCD \in Nat /\ Cap \in Nat /\ tRAS <= Cap
    BY DramTimings
  <1>3. SUFFICES ASSUME NEW b \in BankIds, drams'[b].active
                 PROVE  /\ bms'[b].fsm = "REFRESH" => tRAS <= drams'[b].act + 2
                        /\ mux'.fsm = "REFRESH" => tRAS <= drams'[b].act + 1
                        /\ rf'.fsm \in {"DO-REFRESH", "DO-ZQCS"} => tRAS <= drams'[b].act
    BY DEF RasInv
  <1>4. drams[b].act \in 1..Cap
    BY <1>1 DEF BanksInStep, InStep, PairTyped, Banks, Ages
  <1>5. ASSUME bms[b].fsm = "REGULAR" \/ bms[b].fsm = "REFRESH"
        PROVE  drams[b].active /\ drams'[b].act = Older(drams[b].act)
    <2>1. Takes(Now, b) # "ACT"
      BY <1>5, NoActivateOnRefresh
    <2>. QED  BY <1>3, <2>1, BankHistory
  <1>6. ASSUME bms'[b].fsm = "REFRESH"
        PROVE  tRAS <= drams'[b].act + 2
    <2>1. bms[b].fsm = "REGULAR" \/ bms[b].fsm = "REFRESH"
      <3>1. bms[b].fsm \in FsmStates
        BY <1>1 DEF BanksInStep, InStep, PairTyped, BmTyped
      <3>2. PICK accepted : bms'[b].fsm = FsmNext(bms[b], refresh_req, accepted)[1]
        BY <1>1, FsmEdges
      <3>. QED  BY <1>6, <3>1, <3>2, BmFsmRefresh
    <2>2. bms[b].fsm = "REGULAR" => tRCD <= drams[b].act
      BY <1>1, <1>5 DEF BanksInStep, InStep, BankAgrees, Open, Closed
    <2>3. bms[b].fsm = "REFRESH" => tRAS <= drams[b].act + 2
      BY <1>5 DEF RasInv
    <2>4. tRAS <= drams[b].act + 3
      BY <1>2, <1>4, <2>1, <2>2, <2>3
    <2>. QED  BY <1>2, <1>4, <1>5, <2>1, <2>4 DEF Older
  <1>7. ASSUME mux'.fsm = "REFRESH"
        PROVE  tRAS <= drams'[b].act + 1
    <2>1. bms[b].fsm = "REFRESH"
      BY <1>1, <1>7, GrantSteps DEF refresher_ready, refresh_gnt, HandOver
    <2>2. tRAS <= drams[b].act + 2
      BY <1>5, <2>1 DEF RasInv
    <2>. QED  BY <1>2, <1>4, <1>5, <2>1, <2>2 DEF Older
  <1>8. ASSUME rf'.fsm \in {"DO-REFRESH", "DO-ZQCS"}
        PROVE  tRAS <= drams'[b].act
    <2>1. mux.fsm = "REFRESH"
      <3>1. rf.fsm \in {"IDLE", "WAIT-BANK-MACHINES", "DO-REFRESH", "DO-ZQCS"}
        BY <1>1 DEF Typed, Circuit!RegistersTyped, Circuit!RefresherStates
      <3>2. /\ Circuit!RefresherAssumption /\ Circuit!RegistersTyped
            /\ refresher_ready(mux) \in BOOLEAN /\ rf' = Circuit!RefresherNext(rf, refresher_ready(mux))
        BY <1>1, SameCircuit, FsmEdges DEF Typed
      <3>3. rf.fsm \in {"IDLE", "WAIT-BANK-MACHINES"} => refresher_ready(mux)
        BY <1>1, <1>8, <3>2, Circuit!RoundEdges
      <3>4. rf.fsm \in {"DO-REFRESH", "DO-ZQCS"} => refresher_ready(mux)
        BY <1>1 DEF Circuit!SequencerAgrees
      <3>. QED  BY <3>1, <3>3, <3>4 DEF refresher_ready
    <2>2. bms[b].fsm = "REFRESH"
      BY <1>1, <2>1 DEF HandOver
    <2>3. tRAS <= drams[b].act + 1
      BY <1>5, <2>1, <2>2 DEF RasInv
    <2>. QED  BY <1>2, <1>4, <1>5, <2>2, <2>3 DEF Older
  <1>. QED  BY <1>6, <1>7, <1>8

(* The refresher's precharge waits for tRAS too, unless tRAS is more than   *)
(* three cycles longer than tRCD: see PrechargeRespectsTRAS.                *)
THEOREM PrechargesHoldTRAS ==
    ASSUME tRAS <= tRCD + 3
    PROVE  Spec => []PrechargeRespectsTRAS
  <1>1. IInv /\ RasInv => PrechargeRespectsTRAS
    <2> SUFFICES ASSUME IInv, RasInv, NEW b \in BankIds, Given(Now, b).op = "PRE"
                 PROVE  LegalPrecharge(drams[b])
      BY Zenon DEF PrechargeRespectsTRAS
    <2>1. /\ PrechargeRecovered(drams[b])
          /\ LegalPrecharge(drams[b]) \/ rf.fsm = "DO-REFRESH" \/ rf.fsm = "DO-ZQCS"
      BY GivenIsLegal
    <2>. QED  BY <2>1 DEF RasInv, LegalPrecharge
  <1>2. Init => RasInv
    BY DEF Init, RasInv, BankInit
  <1>3. IInv /\ RasInv /\ [Next]_vars => RasInv'
    <2> SUFFICES ASSUME IInv, RasInv, [Next]_vars PROVE RasInv'
      OBVIOUS
    <2>1. CASE UNCHANGED vars
      BY <2>1 DEF vars, RasInv
    <2>2. CASE Next
      <3>1. PICK arriving \in Arrivals : Clock(Now, arriving)
        BY <2>2 DEF Next, Read, Write, Refresh, WriteToRead, ReadToWrite, Edge
      <3>. QED  BY <3>1, RasStep
    <2>. QED  BY <2>1, <2>2
  <1>. QED  BY <1>1, <1>2, <1>3, InitIInv, NextIInv, PTL DEF Spec
=============================================================================
