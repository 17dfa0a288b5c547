----------------------------- MODULE Controller -----------------------------
(***************************************************************************)
(* The memory controller of litedram/core/controller.py: a bank machine    *)
(* per bank, the refresher and the multiplexer, clocked together against   *)
(* the banks of the DRAM.  The only freedom left is which requests arrive. *)
(* Commands are observed where the steerer registers them, one cycle       *)
(* before the DFI, for all sources alike.                                  *)
(***************************************************************************)
EXTENDS BankMachine, Multiplexer

CONSTANTS
    tREFI, tZQCS, zqcs_period, postponing, with_refresh,    \* see Refresher
    Offered,        \* the requests that the crossbar offers to each bank
    MaxInFlight     \* bound on the requests inside the controller

ASSUME OfferAssumption == MaxInFlight \in Nat /\ Offered \in [BankIds -> SUBSET Requests]

Ref == INSTANCE Refresher
ASSUME RefreshSettings == Ref!RefresherAssumption /\ Ref!PowerOnAssumption

\* No rank-wide timing exceeds the ages, and a refresh takes longer than the
\* turnaround from write to read, as in every DRAM: tWTR is a few cycles.
ASSUME RankAssumption ==
    /\ tRRD <= Cap /\ tCCD <= Cap /\ tWTRtotal <= Cap /\ read_latency <= Cap
    /\ tWTRtotal <= tWTP + tRP + tRFC + 1

VARIABLES
    bms,        \* registers of the bank machines
    mux,        \* registers of the multiplexer
    rf,         \* registers of the refresher
    drams,      \* the banks of the DRAM
    rank,       \* ages, over all banks, of what the rank-wide timings count from
    performed   \* the bank whose access the DRAM performed in the last cycle, or NBanks

vars == <<bms, mux, rf, drams, rank, performed>>

-----------------------------------------------------------------------------
(* Signals between the parts.                                               *)

refresh_req == Ref!refresher_valid(rf)

\* Mutant: the refresh starts when the first bank grants.
go_to_refreshFirst == \E b \in BankIds : refresh_gnt(bms[b])

\* Mutant: the refresh starts from the READ state only.
go_to_refreshRead == mux.fsm = "READ" /\ \A b \in BankIds : refresh_gnt(bms[b])

go_to_refresh == \A b \in BankIds : refresh_gnt(bms[b])
Kinds == [b \in BankIds |-> IF cmd_valid(bms[b], refresh_req)
                             THEN cmd(bms[b], refresh_req).op ELSE "NOP"]

\* What the multiplexer decides in this cycle.
Now == Choices(mux, Kinds)

\* The command of bank b that is accepted in this cycle.
Takes(now, b) == IF ready_to(mux, now, b) THEN now.kinds[b] ELSE "NOP"

\* The steerer selects the refresher in the multiplexer's REFRESH state.
FromRefresher == IF refresher_ready(mux) /\ refresh_req THEN rf.cmd ELSE "NOP"

\* A precharge with A10 set closes every bank.
PrechargesAll(now) ==
    \/ FromRefresher = "PRE"
    \/ \E b \in BankIds : /\ Takes(now, b) = "PRE"
                          /\ cmd(bms[b], refresh_req).a10

\* What DRAM bank b receives in this cycle.
Given(now, b) ==
    IF Takes(now, b) # "NOP" THEN cmd(bms[b], refresh_req)
    ELSE IF PrechargesAll(now) THEN [Nop EXCEPT !.op = "PRE"]
    ELSE IF FromRefresher = "REF" THEN [Nop EXCEPT !.op = "REF"]
    ELSE Nop

-----------------------------------------------------------------------------
(* Rank-wide history: the ages of the last activate, read and write.        *)

RankInit == [act |-> Cap, rd |-> Cap, wr |-> Cap]

RankNext(now) ==
    LET age(op, old) == IF \E b \in BankIds : Takes(now, b) = op THEN 1 ELSE Older(old)
    IN  [act |-> age("ACT", rank.act), rd |-> age("RD", rank.rd), wr |-> age("WR", rank.wr)]

-----------------------------------------------------------------------------

Held(b) == Len(bms[b].mem) + Len(bms[b].out) + Len(bms[b].cb)
InFlight == UNION {{b} \X (1..Held(b)) : b \in BankIds}

\* The requests that may arrive in a cycle: none, or one for each bank of a
\* set of banks with room, within the bound on requests in flight.
Arrivals ==
    LET room == {b \in BankIds : req_ready(bms[b])}
        left == MaxInFlight - Cardinality(InFlight)
        sets == {bs \in SUBSET room : Cardinality(bs) <= left}
        choices(bs) == {r \in [bs -> Requests] : \A b \in bs : r[b] \in Offered[b]}
    IN  UNION {{[b \in BankIds |-> IF b \in bs THEN <<r[b]>> ELSE <<>>] : r \in choices(bs)} :
                  bs \in sets}

Init ==
    /\ bms = [b \in BankIds |-> BmInit]
    /\ mux = MuxInit
    /\ rf = Ref!RefresherInit
    /\ drams = [b \in BankIds |-> BankInit]
    /\ rank = RankInit
    /\ performed = NBanks

\* Every register of the controller at one clock edge; now is Now.
Clock(now, arriving) ==
    /\ bms' = [b \in BankIds |->
                  BmNext(bms[b], refresh_req, arriving[b], ready_to(mux, now, b))]
    /\ mux' = MuxNext(mux, now, go_to_refresh, Ref!cmd_last(rf))
    /\ rf' = Ref!RefresherNext(rf, refresher_ready(mux))
    /\ drams' = [b \in BankIds |-> BankNext(drams[b], Given(now, b))]
    /\ rank' = RankNext(now)
    /\ performed' = IF \E b \in BankIds : Takes(now, b) \in {"RD", "WR"}
                    THEN CHOOSE b \in BankIds : Takes(now, b) \in {"RD", "WR"}
                    ELSE NBanks

Edge == \E now \in {Now} : \E arriving \in Arrivals : Clock(now, arriving)

\* One action per state of the multiplexer's FSM.
Read == mux.fsm = "READ" /\ Edge
Write == mux.fsm = "WRITE" /\ Edge
Refresh == mux.fsm = "REFRESH" /\ Edge
WriteToRead == mux.fsm = "WTR" /\ Edge
ReadToWrite == mux.fsm = "RTW" /\ Edge

Next == Read \/ Write \/ Refresh \/ WriteToRead \/ ReadToWrite

Spec == Init /\ [][Next]_vars

\* The clock does not stop.  Every clock edge moves the free-running refresh
\* timer, so fairness of the refresher's registers is fairness of Next.
Tick == rf' = Ref!RefresherNext(rf, refresher_ready(mux))
FairSpec == Spec /\ WF_rf(Tick)

-----------------------------------------------------------------------------
TypeOK ==
    /\ \A b \in BankIds : bms[b].fsm \in FsmStates /\ Len(bms[b].mem) <= cmd_buffer_depth
    /\ mux.fsm \in MuxStates /\ mux.cmdg \in BankIds /\ mux.reqg \in BankIds
    /\ mux.wait \in 0..read_latency /\ mux.rtime \in 0..read_time /\ mux.wtime \in 0..write_time
    /\ (read_time # 0 => mux.rtime < read_time) /\ (write_time # 0 => mux.wtime < write_time)
    /\ rf.fsm \in Ref!RefresherStates
    /\ drams \in [BankIds -> Banks]
    /\ performed \in 0..NBanks

(* Each DRAM bank receives only commands that its state and its timings     *)
(* allow, whatever the other banks and the refresher do: the precharge and  *)
(* the refresh of all banks come when no bank has a write to recover from   *)
(* and, for the refresh, when every bank is closed.                         *)
BankCommandsLegal ==
    LET now == Now IN
    \A b \in BankIds : LET c == Given(now, b) IN
        /\ c.op = "ACT" => LegalActivate(drams[b])
        /\ c.op \in {"RD", "WR"} => LegalColumn(drams[b], c.row)
        /\ c.op = "PRE" => PrechargeRecovered(drams[b])
        /\ c.op = "REF" => LegalRefresh(drams[b])

(* A precharge comes no sooner than tRAS after the activate.  refresh_gnt   *)
(* waits for the write recovery only; the latency of the refresh request    *)
(* covers tRAS when tRAS is at most tRCD + 3.                               *)
PrechargeRespectsTRAS ==
    LET now == Now IN
    \A b \in BankIds : Given(now, b).op = "PRE" => LegalPrecharge(drams[b])

(* The timings between banks hold, although each is enforced by a           *)
(* registered ready, by the turnaround states or by both: tRRD between      *)
(* activates, tCCD between column commands, tWTR from write to read,        *)
(* read_latency from read to write; and there is at most one column command *)
(* in a cycle, because the banks share the data path.                       *)
RankTimingsRespected ==
    LET now == Now
        gives(op) == {b \in BankIds : Takes(now, b) = op}
    IN  /\ gives("ACT") # {} => tRRD <= rank.act
        /\ gives("RD") # {} => tWTRtotal <= rank.wr /\ tCCD <= rank.rd
        /\ gives("WR") # {} => read_latency <= rank.rd /\ tCCD <= rank.wr
        /\ Cardinality(gives("RD") \cup gives("WR")) <= 1

(* While the multiplexer is in REFRESH every bank machine is in REFRESH too  *)
(* and presents no command: neither side of the grant leaves early, although *)
(* each has an FSM of its own and the request falls one cycle before the     *)
(* multiplexer leaves.                                                       *)
RefreshExclusive ==
    mux.fsm = "REFRESH" => \A b \in BankIds : bms[b].fsm = "REFRESH" /\ Kinds[b] = "NOP"

(* Every request that is inside a bank machine is eventually performed,     *)
(* against reads and writes of other banks that never stop and against      *)
(* refreshes: no deadlock between the FSMs, and no starvation.              *)
RequestsServed == \A b \in BankIds : bms[b].cb # <<>> ~> performed = b

(* Refreshes never stop: a refresh that was requested is granted, whatever  *)
(* the traffic.                                                             *)
RefreshGranted == (rf.fsm = "WAIT-BANK-MACHINES") ~> (rf.fsm = "DO-REFRESH")
=============================================================================
