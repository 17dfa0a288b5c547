---------------------------- MODULE BankMachine ----------------------------
(***************************************************************************)
(* The bank machine of litedram/core/bankmachine.py: it turns the requests *)
(* for one bank into DRAM commands, tracks the open row and enforces the   *)
(* timings of the bank.  A record s holds its registers, operators of s    *)
(* and of the inputs give its combinational signals, and BmNext gives the  *)
(* registers after a clock edge, so that a controller can clock several.   *)
(*                                                                         *)
(* A request is [we, row]: the column only rides along, except that column *)
(* commands carry the auto-precharge flag in A10.                          *)
(***************************************************************************)
EXTENDS TimingControllers, DramBank, RequestBuffer

CONSTANT with_auto_precharge       \* ControllerSettings

ASSUME AutoPrechargeAssumption == with_auto_precharge \in BOOLEAN

Requests == [we : BOOLEAN, row : Rows]

FsmStates == {"REGULAR", "PRECHARGE", "AUTOPRECHARGE", "ACTIVATE", "REFRESH", "TRP", "TRCD"}

\* Cycles from a write command to the precharge, the value of tWTP.
precharge_time(cwl, nphases, tWR, tCCD) == (cwl + nphases - 1) \div nphases + tWR + tCCD

-----------------------------------------------------------------------------
(* Registers.  mem, out and cb are those of RequestBuffer; wait counts the  *)
(* cycles left in TRP or TRCD.                                              *)

BmInit ==
    [fsm |-> "REGULAR", wait |-> 0,
     mem |-> <<>>, out |-> <<>>, cb |-> <<>>,
     row |-> CHOOSE r \in Rows : TRUE, row_opened |-> FALSE,
     twtp |-> tXXDInit(tWTP), trc |-> tXXDInit(tRC), tras |-> tXXDInit(tRAS)]

-----------------------------------------------------------------------------
(* Combinational signals, from the registers s and the inputs.              *)

row_hit(s) == s.row = s.cb[1].row

\* Mutant: a refresh does not close the row.
row_closeNoRefresh(s) == s.fsm \in {"PRECHARGE", "AUTOPRECHARGE"}

row_close(s) == s.fsm \in {"PRECHARGE", "AUTOPRECHARGE", "REFRESH"}
row_open(s) == s.fsm = "ACTIVATE" /\ s.trc.ready

\* Mutant: the write recovery is not awaited.
refresh_gntEarly(s) == s.fsm = "REFRESH"

refresh_gnt(s) == s.fsm = "REFRESH" /\ s.twtp.ready

\* Mutant: every access closes its row.
auto_prechargeAlways(s) == with_auto_precharge /\ s.cb # <<>> /\ ~row_close(s)

auto_precharge(s) ==
    /\ with_auto_precharge
    /\ lookahead(s) # <<>> /\ s.cb # <<>>
    /\ lookahead(s)[1].row # s.cb[1].row
    /\ ~row_close(s)

\* A column command is presented.
Column(s, refresh_req) ==
    s.fsm = "REGULAR" /\ ~refresh_req /\ s.cb # <<>> /\ s.row_opened /\ row_hit(s)

is_write(s, refresh_req) == Column(s, refresh_req) /\ s.cb[1].we
is_read(s, refresh_req) == Column(s, refresh_req) /\ ~s.cb[1].we

\* Mutant: tRAS is not awaited.
cmd_prechargeNoTRAS(s) == s.fsm = "PRECHARGE" /\ s.twtp.ready

cmd_precharge(s) == s.fsm = "PRECHARGE" /\ s.twtp.ready /\ s.tras.ready
cmd_activate(s) == row_open(s)

cmd_valid(s, refresh_req) == Column(s, refresh_req) \/ cmd_precharge(s) \/ cmd_activate(s)

\* The command on the cmd endpoint, as the DRAM decodes it.  In PRECHARGE the
\* column address is presented with A10 low, so only this bank is precharged.
cmd(s, refresh_req) ==
    IF Column(s, refresh_req)
    THEN [op |-> IF s.cb[1].we THEN "WR" ELSE "RD", row |-> s.cb[1].row,
          a10 |-> IF auto_precharge(s) THEN TRUE ELSE FALSE]
    ELSE IF cmd_precharge(s)
    THEN [op |-> "PRE", row |-> s.cb[1].row, a10 |-> IF auto_precharge(s) THEN TRUE ELSE FALSE]
    ELSE IF cmd_activate(s)
    THEN [op |-> "ACT", row |-> s.cb[1].row, a10 |-> FALSE]
    ELSE Nop

-----------------------------------------------------------------------------
(* The clock edge.                                                          *)

\* FSM.delayed_enter: delay cycles are spent in the waiting state before the
\* target is entered; without a delay the target is entered at once.
DelayedEnter(waiting, target, delay) ==
    IF delay <= 0 THEN <<target, 0>> ELSE <<waiting, delay>>

\* The next FSM state and waiting count.
FsmNext(s, refresh_req, accepted) ==
    CASE s.fsm = "REGULAR" ->
            IF refresh_req THEN <<"REFRESH", 0>>
            ELSE IF s.cb = <<>> THEN <<"REGULAR", 0>>
            ELSE IF ~s.row_opened THEN <<"ACTIVATE", 0>>
            ELSE IF ~row_hit(s) THEN <<"PRECHARGE", 0>>
            ELSE IF accepted /\ auto_precharge(s) THEN <<"AUTOPRECHARGE", 0>>
            ELSE <<"REGULAR", 0>>
      [] s.fsm = "PRECHARGE" ->
            IF accepted THEN DelayedEnter("TRP", "ACTIVATE", tRP - 1) ELSE <<"PRECHARGE", 0>>
      [] s.fsm = "AUTOPRECHARGE" ->
            IF s.twtp.ready /\ s.tras.ready
            THEN DelayedEnter("TRP", "ACTIVATE", tRP - 1) ELSE <<"AUTOPRECHARGE", 0>>
      [] s.fsm = "ACTIVATE" ->
            IF accepted THEN DelayedEnter("TRCD", "REGULAR", tRCD - 1) ELSE <<"ACTIVATE", 0>>
      [] s.fsm = "REFRESH" -> IF refresh_req THEN <<"REFRESH", 0>> ELSE <<"REGULAR", 0>>
      [] s.fsm = "TRP" -> IF s.wait = 1 THEN <<"ACTIVATE", 0>> ELSE <<"TRP", s.wait - 1>>
      [] s.fsm = "TRCD" -> IF s.wait = 1 THEN <<"REGULAR", 0>> ELSE <<"TRCD", s.wait - 1>>

BmNext(s, refresh_req, arriving, cmd_ready) ==
    LET accepted  == cmd_valid(s, refresh_req) /\ cmd_ready
        performed == Column(s, refresh_req) /\ cmd_ready
        opened    == row_open(s) /\ cmd_ready
        next      == FsmNext(s, refresh_req, accepted)
    IN  [fsm  |-> next[1],
         wait |-> next[2],
         mem  |-> MemNext(s, arriving, performed),
         out  |-> OutNext(s, performed),
         cb   |-> CbNext(s, performed),
         row  |-> IF row_open(s) THEN s.cb[1].row ELSE s.row,
         row_opened |-> IF row_close(s) THEN FALSE
                        ELSE IF row_open(s) THEN TRUE ELSE s.row_opened,
         twtp |-> tXXDNext(tWTP, s.twtp, is_write(s, refresh_req) /\ cmd_ready),
         trc  |-> tXXDNext(tRC, s.trc, opened),
         tras |-> tXXDNext(tRAS, s.tras, opened)]

-----------------------------------------------------------------------------
(* A bank machine with its bank of the DRAM, and the refresher as the two   *)
(* see it.  The refresher requests in every phase but "idle".  It waits for *)
(* the grant, precharges, waits tRP, refreshes (or calibrates), waits tRFC, *)
(* and may repeat the sequence for postponed refreshes.                     *)

RefreshPhases == {"idle", "request", "granted", "precharged", "refreshed"}
Requested(phase) == phase # "idle"

\* What the refresher may do in a cycle: its next phase and the command it
\* gives the bank.  A calibration ends a round without a refresh, and with
\* tRFC = 1 a round ends in the cycle after its refresh.
PhaseMoves(s, bank, phase) ==
    LET precharge == [Nop EXCEPT !.op = "PRE"]
        refresh == [Nop EXCEPT !.op = "REF"]
    IN  {<<phase, Nop>>}
        \cup (IF phase = "idle" THEN {<<"request", Nop>>} ELSE {})
        \cup (IF phase = "request" /\ refresh_gnt(s) THEN {<<"granted", Nop>>} ELSE {})
        \cup (IF phase = "granted" THEN {<<"precharged", precharge>>} ELSE {})
        \cup (IF phase = "precharged" /\ tRP <= bank.pre
              THEN {<<"refreshed", refresh>>, <<"idle", Nop>>} ELSE {})
        \cup (IF phase = "precharged" /\ tRP <= bank.pre /\ tRFC = 1
              THEN {<<"idle", refresh>>} ELSE {})
        \cup (IF phase = "refreshed" /\ tRFC <= Older(bank.ref)
              THEN {<<"idle", Nop>>, <<"granted", Nop>>} ELSE {})

\* What req may offer: nothing, or a request if the FIFO has room for it.
MayArrive(s) == {<<>>} \cup (IF req_ready(s) THEN {<<r>> : r \in Requests} ELSE {})

\* The command that reaches the DRAM: the accepted command of the bank
\* machine, or another's.
Received(s, refresh_req, cmd_ready, other) ==
    IF cmd_valid(s, refresh_req) /\ cmd_ready THEN cmd(s, refresh_req) ELSE other

-----------------------------------------------------------------------------
(* What keeps the two in step, although the bank machine does not see the   *)
(* DRAM: the timers agree with the ages that the DRAM counts, and each      *)
(* state of the FSM knows whether the bank is open and how long it still    *)
(* has to wait.                                                             *)

BmTyped(s) ==
    /\ s.fsm \in FsmStates /\ s.wait \in Nat
    /\ s.mem \in Seq(Requests) /\ s.out \in Seq(Requests) /\ s.cb \in Seq(Requests)
    /\ Len(s.mem) <= cmd_buffer_depth /\ Len(s.out) <= 1 /\ Len(s.cb) <= 1
    /\ s.row \in Rows /\ s.row_opened \in BOOLEAN
    /\ s.twtp.ready \in BOOLEAN /\ s.trc.ready \in BOOLEAN /\ s.tras.ready \in BOOLEAN

PairTyped(s, bank, phase) == BmTyped(s) /\ bank \in Banks /\ phase \in RefreshPhases

TimerAgrees(t, con, age) == age < t => ~con.ready /\ con.count = t - age

TimersAgree(s, bank) ==
    /\ TimerAgrees(tWTP, s.twtp, bank.wr)
    /\ TimerAgrees(tRC, s.trc, bank.act)
    /\ TimerAgrees(tRAS, s.tras, bank.act)

\* A row cycle has the request it was started for.
RequestHeld(s) ==
    s.fsm \in {"PRECHARGE", "AUTOPRECHARGE", "TRP", "ACTIVATE", "TRCD"} => s.cb # <<>>

\* The refresher, while it has the bank, finds it as it left it.
PhaseAgrees(s, bank, phase) ==
    /\ phase \in {"granted", "precharged", "refreshed"} =>
          s.fsm = "REFRESH" /\ s.twtp.ready /\ ~s.row_opened
    /\ phase = "precharged" => ~bank.active
    /\ phase = "refreshed" => ~bank.active /\ tRP <= bank.pre
    /\ phase # "refreshed" => tRFC <= bank.ref

BankAgrees(s, bank, phase) ==
    /\ s.fsm = "REGULAR" /\ s.row_opened => Open(bank, s.row)
    /\ s.fsm = "REGULAR" /\ ~s.row_opened => Closed(bank)
    /\ s.fsm = "PRECHARGE" => bank.active /\ ~bank.ap
    /\ s.fsm = "AUTOPRECHARGE" => bank.active = bank.ap
    /\ s.fsm = "TRP" => ~bank.active /\ ~bank.ap /\ ~s.row_opened
                        /\ 1 <= s.wait /\ tRP <= bank.pre + s.wait
    /\ s.fsm = "ACTIVATE" => Closed(bank)
    /\ s.fsm = "TRCD" => /\ bank.active /\ ~bank.ap /\ s.row_opened /\ bank.row = s.row
                         /\ 1 <= s.wait /\ tRCD <= bank.act + s.wait
    /\ s.fsm = "REFRESH" => ~bank.ap
    /\ s.fsm = "REFRESH" /\ phase = "idle" => Closed(bank) /\ ~s.row_opened

InStep(s, bank, phase) ==
    /\ PairTyped(s, bank, phase)
    /\ TimersAgree(s, bank)
    /\ RequestHeld(s)
    /\ PhaseAgrees(s, bank, phase)
    /\ BankAgrees(s, bank, phase)
=============================================================================
