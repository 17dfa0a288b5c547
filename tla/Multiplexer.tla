---------------------------- MODULE Multiplexer ----------------------------
(***************************************************************************)
(* The multiplexer of litedram/core/multiplexer.py: two command choosers,  *)
(* the timings between banks, the read/write turnaround with its           *)
(* anti-starvation timers and the hand-over to the refresher.  A record m  *)
(* holds the registers; kinds[b] is the command bank machine b presents    *)
(* ("NOP" when it presents none); MuxNext gives the registers after a      *)
(* clock edge.                                                             *)
(*                                                                         *)
(* With several phases choose_cmd serves row commands and choose_req       *)
(* column commands; with one phase choose_req serves both.                 *)
(***************************************************************************)
EXTENDS TimingControllers, RoundRobin

CONSTANTS
    NBanks,         \* bank machines (nranks * nbanks)
    single_phase,   \* nphases = 1
    tRRD, tFAW,     \* 0: no constraint
    tCCD,
    tWTRtotal,      \* write command to read command
    read_latency,
    read_time, write_time       \* 0: no anti-starvation

ASSUME MuxAssumption ==
    /\ NBanks \in Nat \ {0} /\ single_phase \in BOOLEAN
    /\ tRRD \in Nat /\ tFAW \in Nat /\ tCCD \in Nat \ {0} /\ tWTRtotal \in Nat \ {0}
    /\ read_latency \in Nat /\ read_time \in Nat /\ write_time \in Nat

BankIds == 0..(NBanks - 1)

\* Cycles from a write command to a read command: the value of tWTRtotal.
write_to_read(tWTR, cwl, nphases, ccd) == tWTR + (cwl + nphases - 1) \div nphases + ccd

MuxStates == {"READ", "WRITE", "REFRESH", "WTR", "RTW"}

\* cmdg and reqg: grants of the two choosers; rtime and wtime: anti-starvation.
MuxInit ==
    [fsm |-> "READ", wait |-> 0, cmdg |-> 0, reqg |-> 0,
     trrd |-> tXXDInit(tRRD), tfaw |-> tFAWInit,
     tccd |-> tXXDInit(tCCD), twtr |-> tXXDInit(tWTRtotal),
     rtime |-> 0, wtime |-> 0]

-----------------------------------------------------------------------------
(* Combinational signals.                                                   *)

ras_allowed(m) == m.trrd.ready /\ m.tfaw.ready
cas_allowed(m) == m.tccd.ready

Serving(m) == m.fsm \in {"READ", "WRITE"}

\* _CommandChooser: the requests a chooser considers.
Wanted(kinds, want_reads, want_writes, want_cmds, want_activates) ==
    {b \in BankIds :
        /\ kinds[b] # "NOP"
        /\ \/ /\ kinds[b] \in {"PRE", "ACT"} /\ want_cmds
              /\ kinds[b] = "ACT" => want_activates
           \/ /\ (kinds[b] = "RD") = want_reads
              /\ (kinds[b] = "WR") = want_writes}

\* choose_cmd is used with several phases only.  No want_* but want_activates
\* is ever driven, so it considers the requests that neither read nor write.
cmd_valids(m, kinds) == Wanted(kinds, FALSE, FALSE, FALSE, Serving(m) /\ ras_allowed(m))

req_valids(m, kinds) ==
    Wanted(kinds, m.fsm = "READ", m.fsm = "WRITE", single_phase, single_phase /\ ras_allowed(m))

\* The kind of the command a chooser shows: NOP unless its grant is valid.
Shown(kinds, valids, grant) == IF grant \in valids THEN kinds[grant] ELSE "NOP"

cmd_ready(m, shown) == ~single_phase /\ Serving(m) /\ (shown = "ACT" => ras_allowed(m))
req_ready_mux(m, shown) ==
    Serving(m) /\ cas_allowed(m) /\ (single_phase /\ shown = "ACT" => ras_allowed(m))

\* A chooser in this cycle: what it considers, the command it shows, and
\* whether that command is taken.
Chooser(valids, shown, ready) ==
    [valids |-> valids, shown |-> shown, ready |-> ready,
     accepts |-> IF ready THEN shown ELSE "NOP"]

choose_cmd(m, kinds) ==
    LET valids == cmd_valids(m, kinds)
        shown == Shown(kinds, valids, m.cmdg)
    IN  Chooser(valids, shown, cmd_ready(m, shown))

choose_req(m, kinds) ==
    LET valids == req_valids(m, kinds)
        shown == Shown(kinds, valids, m.reqg)
    IN  Chooser(valids, shown, req_ready_mux(m, shown))

\* Everything the multiplexer decides in a cycle.
Choices(m, kinds) ==
    [kinds |-> kinds, byCmd |-> choose_cmd(m, kinds), byReq |-> choose_req(m, kinds)]

\* cmd.ready as bank machine b sees it.
ready_to(m, now, b) ==
    \/ now.byCmd.accepts # "NOP" /\ m.cmdg = b
    \/ now.byReq.accepts # "NOP" /\ m.reqg = b

refresher_ready(m) == m.fsm = "REFRESH"

read_available(kinds) == \E b \in BankIds : kinds[b] = "RD"
write_available(kinds) == \E b \in BankIds : kinds[b] = "WR"

\* Mutant: no anti-starvation.
TimeUpNever(timeout, time) == FALSE

\* anti_starvation: the time allowed in a direction has run out.
TimeUp(timeout, time) == timeout # 0 /\ time = 0

-----------------------------------------------------------------------------
(* The clock edge.                                                          *)

TimeNext(timeout, time, en) ==
    IF timeout = 0 THEN time
    ELSE IF ~en THEN timeout - 1
    ELSE IF time # 0 THEN time - 1 ELSE time

\* Mutant: the turnaround is one cycle short.
EnterRTWShort == IF read_latency <= 2 THEN <<"WRITE", 0>> ELSE <<"RTW", read_latency - 2>>

\* FSM.delayed_enter("RTW", "WRITE", read_latency - 1).
EnterRTW == IF read_latency <= 1 THEN <<"WRITE", 0>> ELSE <<"RTW", read_latency - 1>>

MuxFsmNext(m, kinds, go_to_refresh, refresher_last) ==
    CASE m.fsm = "READ" ->
            IF go_to_refresh THEN <<"REFRESH", 0>>
            ELSE IF write_available(kinds) /\ (~read_available(kinds) \/ TimeUp(read_time, m.rtime))
            THEN EnterRTW ELSE <<"READ", 0>>
      [] m.fsm = "WRITE" ->
            IF go_to_refresh THEN <<"REFRESH", 0>>
            ELSE IF read_available(kinds) /\ (~write_available(kinds) \/ TimeUp(write_time, m.wtime))
            THEN <<"WTR", 0>> ELSE <<"WRITE", 0>>
      [] m.fsm = "REFRESH" -> IF refresher_last THEN <<"READ", 0>> ELSE <<"REFRESH", 0>>
      [] m.fsm = "WTR" -> IF m.twtr.ready THEN <<"READ", 0>> ELSE <<"WTR", 0>>
      [] m.fsm = "RTW" -> IF m.wait = 1 THEN <<"WRITE", 0>> ELSE <<"RTW", m.wait - 1>>

MuxNext(m, now, go_to_refresh, refresher_last) ==
    LET byCmd     == now.byCmd
        byReq     == now.byReq
        activates == (IF single_phase THEN byReq ELSE byCmd).accepts = "ACT"
        next      == MuxFsmNext(m, now.kinds, go_to_refresh, refresher_last)
    IN  [fsm  |-> next[1],
         wait |-> next[2],
         cmdg |-> IF single_phase THEN m.cmdg
                  ELSE RoundRobinNext(NBanks, m.cmdg, byCmd.valids, byCmd.ready \/ byCmd.shown = "NOP"),
         reqg |-> RoundRobinNext(NBanks, m.reqg, byReq.valids, byReq.ready \/ byReq.shown = "NOP"),
         trrd |-> tXXDNext(tRRD, m.trrd, activates),
         tfaw |-> tFAWNext(tFAW, m.tfaw, activates),
         tccd |-> tXXDNext(tCCD, m.tccd, byReq.accepts \in {"RD", "WR"}),
         twtr |-> tXXDNext(tWTRtotal, m.twtr, byReq.accepts = "WR"),
         rtime |-> TimeNext(read_time, m.rtime, m.fsm = "READ"),
         wtime |-> TimeNext(write_time, m.wtime, m.fsm = "WRITE")]
=============================================================================
