-------------------------- MODULE BankMachineProofs --------------------------
(***************************************************************************)
(* What a bank machine and its bank of the DRAM do at a clock edge, for    *)
(* every set of rows, every value of the timings and every depth of the    *)
(* buffers.  The facts are about any registers s, bank and phase and those *)
(* after the edge, s2, bank2 and phase2, so that they hold for a bank      *)
(* machine alone (SingleBankProofs) and for each of a controller's.        *)
(***************************************************************************)
EXTENDS BankMachine, TLAPS

(* One clock edge of a bank machine, its bank and the refresher's phase.    *)
Clocked(s, bank, phase, arriving, cmd_ready, move, s2, bank2, phase2) ==
    /\ s2 = BmNext(s, Requested(phase), arriving, cmd_ready)
    /\ bank2 = BankNext(bank, Received(s, Requested(phase), cmd_ready, move[2]))
    /\ phase2 = move[1]

-----------------------------------------------------------------------------
(* Sequences of requests.                                                   *)

(* First takes at most one request, the head of a queue that has one (the   *)
(* transfer from the lookahead FIFO to cmd_buffer).                         *)
LEMMA FirstType ==
    ASSUME NEW S, NEW q \in Seq(S)
    PROVE  /\ First(q) \in Seq(S) /\ Len(First(q)) <= 1
           /\ q # <<>> => First(q) # <<>>
  <1>1. CASE q = <<>>
    BY <1>1 DEF First
  <1>2. CASE q # <<>>
    <2>1. Head(q) \in S
      BY <1>2
    <2>2. First(q) = <<Head(q)>>
      BY <1>2 DEF First
    <2>. QED  BY <2>1, <2>2
  <1>. QED  BY <1>1, <1>2

(* The buffers keep their types and their bounds (the FIFO is written only  *)
(* when it has room).                                                       *)
LEMMA BufferType ==
    ASSUME NEW s, BmTyped(s), NEW arriving \in MayArrive(s), NEW performed \in BOOLEAN
    PROVE  /\ MemNext(s, arriving, performed) \in Seq(Requests)
           /\ Len(MemNext(s, arriving, performed)) <= cmd_buffer_depth
           /\ OutNext(s, performed) \in Seq(Requests) /\ Len(OutNext(s, performed)) <= 1
           /\ CbNext(s, performed) \in Seq(Requests) /\ Len(CbNext(s, performed)) <= 1
  <1>1. /\ s.mem \in Seq(Requests) /\ s.out \in Seq(Requests) /\ s.cb \in Seq(Requests)
        /\ Len(s.mem) <= cmd_buffer_depth /\ Len(s.out) <= 1 /\ Len(s.cb) <= 1
    BY DEF BmTyped
  <1>2. cmd_buffer_depth \in Nat
    BY BufferAssumption
  <1> DEFINE kept == IF MemTaken(s, performed) THEN Tail(s.mem) ELSE s.mem
  <1>3. /\ kept \in Seq(Requests) /\ Len(kept) <= Len(s.mem)
        /\ MemNext(s, arriving, performed) = kept \o arriving
    <2>1. CASE MemTaken(s, performed)
      <3>1. s.mem # <<>>
        BY <2>1 DEF MemTaken
      <3>2. Tail(s.mem) \in Seq(Requests) /\ Len(Tail(s.mem)) <= Len(s.mem)
        BY <1>1, <3>1
      <3>. QED  BY <2>1, <3>2 DEF MemNext
    <2>2. CASE ~MemTaken(s, performed)
      BY <1>1, <2>2 DEF MemNext
    <2>. QED  BY <2>1, <2>2
  <1> HIDE DEF kept
  <1>4. /\ arriving \in Seq(Requests) /\ Len(arriving) <= 1
        /\ Len(arriving) = 1 => Len(s.mem) < cmd_buffer_depth
    <2>1. CASE arriving = <<>>
      BY <2>1
    <2>2. CASE req_ready(s) /\ \E r \in Requests : arriving = <<r>>
      BY <2>2 DEF req_ready
    <2>. QED  BY <2>1, <2>2 DEF MayArrive
  <1>5. /\ kept \o arriving \in Seq(Requests)
        /\ Len(kept \o arriving) = Len(kept) + Len(arriving)
    BY <1>3, <1>4
  <1>6. Len(kept \o arriving) <= cmd_buffer_depth
    <2>1. /\ Len(kept) \in Nat /\ Len(arriving) \in Nat /\ Len(s.mem) \in Nat
      BY <1>1, <1>3, <1>4
    <2>2. /\ Len(kept) <= Len(s.mem) /\ Len(s.mem) <= cmd_buffer_depth /\ Len(arriving) <= 1
          /\ Len(arriving) = 1 => Len(s.mem) < cmd_buffer_depth
      BY <1>1, <1>3, <1>4
    <2>3. \A k, a, m, d \in Nat : k <= m /\ m <= d /\ a <= 1 /\ (a = 1 => m < d) => k + a <= d
      OBVIOUS
    <2>4. Len(kept) + Len(arriving) <= cmd_buffer_depth
      BY <1>2, <2>1, <2>2, <2>3
    <2>. QED  BY <1>5, <2>4
  <1>7. lookahead(s) \in Seq(Requests)
    BY <1>1 DEF lookahead
  <1>8. CbNext(s, performed) \in Seq(Requests) /\ Len(CbNext(s, performed)) <= 1
    BY <1>1, <1>7, FirstType DEF CbNext
  <1>9. OutNext(s, performed) \in Seq(Requests) /\ Len(OutNext(s, performed)) <= 1
    BY <1>1, FirstType DEF OutNext
  <1>. QED  BY <1>3, <1>5, <1>6, <1>8, <1>9

(* A request in cmd_buffer names a row.                                     *)
LEMMA CbRow ==
    ASSUME NEW s, BmTyped(s), s.cb # <<>>
    PROVE  s.cb[1] \in Requests /\ s.cb[1].row \in Rows /\ s.cb[1].we \in BOOLEAN
  <1>1. s.cb \in Seq(Requests)
    BY DEF BmTyped
  <1>2. s.cb[1] \in Requests
    BY <1>1
  <1>. QED  BY <1>2 DEF Requests

-----------------------------------------------------------------------------
(* What reaches the DRAM in a cycle.                                        *)

(* The moves of the refresher: it waits for the grant, precharges, and      *)
(* refreshes (or calibrates) once tRP has passed.                           *)
LEMMA MoveCases ==
    ASSUME NEW s, NEW bank, NEW phase,
           PairTyped(s, bank, phase), NEW move \in PhaseMoves(s, bank, phase)
    PROVE  /\ move[1] \in RefreshPhases /\ move[2] \in Commands
           /\ \/ move[1] = phase /\ move[2].op = "NOP"
              \/ phase = "idle" /\ move[1] = "request" /\ move[2].op = "NOP"
              \/ phase = "request" /\ refresh_gnt(s) /\ move[1] = "granted" /\ move[2].op = "NOP"
              \/ phase = "granted" /\ move[1] = "precharged" /\ move[2].op = "PRE"
              \/ /\ phase = "precharged" /\ tRP <= bank.pre
                 /\ \/ move[1] = "refreshed" /\ move[2].op = "REF"
                    \/ move[1] = "idle" /\ move[2].op = "NOP"
                    \/ move[1] = "idle" /\ move[2].op = "REF" /\ tRFC = 1
              \/ /\ phase = "refreshed" /\ tRFC <= Older(bank.ref)
                 /\ move[1] \in {"idle", "granted"} /\ move[2].op = "NOP"
  <1> DEFINE pre == [Nop EXCEPT !.op = "PRE"]
             ref == [Nop EXCEPT !.op = "REF"]
  <1>1. /\ Nop \in Commands /\ Nop.op = "NOP"
        /\ pre \in Commands /\ pre.op = "PRE"
        /\ ref \in Commands /\ ref.op = "REF"
    BY RowsAssumption DEF Nop, Commands, Ops
  <1>2. phase \in RefreshPhases
    BY DEF PairTyped
  <1>3. \/ move = <<phase, Nop>>
        \/ phase = "idle" /\ move = <<"request", Nop>>
        \/ phase = "request" /\ refresh_gnt(s) /\ move = <<"granted", Nop>>
        \/ phase = "granted" /\ move = <<"precharged", pre>>
        \/ /\ phase = "precharged" /\ tRP <= bank.pre
           /\ move = <<"refreshed", ref>> \/ move = <<"idle", Nop>>
        \/ phase = "precharged" /\ tRP <= bank.pre /\ tRFC = 1 /\ move = <<"idle", ref>>
        \/ /\ phase = "refreshed" /\ tRFC <= Older(bank.ref)
           /\ move \in {<<"idle", Nop>>, <<"granted", Nop>>}
    BY Zenon DEF PhaseMoves
  <1>4. \E p \in RefreshPhases, c \in {Nop, pre, ref} : move = <<p, c>>
    BY <1>2, <1>3 DEF RefreshPhases
  <1>5. move[1] \in RefreshPhases /\ move[2] \in Commands
    BY <1>1, <1>4
  <1> HIDE DEF pre, ref
  <1>6. CASE move = <<phase, Nop>>
    BY <1>1, <1>5, <1>6
  <1>7. CASE phase = "idle" /\ move = <<"request", Nop>>
    BY <1>1, <1>5, <1>7
  <1>8. CASE phase = "request" /\ refresh_gnt(s) /\ move = <<"granted", Nop>>
    BY <1>1, <1>5, <1>8
  <1>9. CASE phase = "granted" /\ move = <<"precharged", pre>>
    BY <1>1, <1>5, <1>9
  <1>10. CASE /\ phase = "precharged" /\ tRP <= bank.pre
              /\ move = <<"refreshed", ref>> \/ move = <<"idle", Nop>>
    BY <1>1, <1>5, <1>10
  <1>11. CASE phase = "precharged" /\ tRP <= bank.pre /\ tRFC = 1 /\ move = <<"idle", ref>>
    BY <1>1, <1>5, <1>11
  <1>12. CASE /\ phase = "refreshed" /\ tRFC <= Older(bank.ref)
              /\ move \in {<<"idle", Nop>>, <<"granted", Nop>>}
    BY <1>1, <1>5, <1>12
  <1>. QED  BY <1>3, <1>6, <1>7, <1>8, <1>9, <1>10, <1>11, <1>12

(* A bank machine presents the command of its FSM state.  The precharge is  *)
(* one of its own bank only.                                                *)
LEMMA CmdCases ==
    ASSUME NEW s, NEW req, BmTyped(s), RequestHeld(s), cmd_valid(s, req)
    PROVE  LET c == cmd(s, req)
           IN  /\ c \in Commands
               /\ Column(s, req) =>
                     /\ c.op \in {"RD", "WR"} /\ c.row = s.row
                     /\ (c.op = "WR") <=> is_write(s, req)
                     /\ c.a10 <=> auto_precharge(s)
               /\ cmd_precharge(s) => c.op = "PRE" /\ ~c.a10
               /\ cmd_activate(s) => c.op = "ACT" /\ c.row = s.cb[1].row
  <1> DEFINE c == cmd(s, req)
  <1>1. CASE Column(s, req)
    <2>1. s.cb # <<>> /\ s.fsm = "REGULAR" /\ s.row = s.cb[1].row
      BY <1>1 DEF Column, row_hit
    <2>2. s.cb[1].row \in Rows /\ s.cb[1].we \in BOOLEAN
      BY <2>1, CbRow
    <2>3. ~cmd_precharge(s) /\ ~cmd_activate(s)
      BY <2>1 DEF cmd_precharge, cmd_activate, row_open
    <2>4. c = [op |-> IF s.cb[1].we THEN "WR" ELSE "RD", row |-> s.cb[1].row,
               a10 |-> IF auto_precharge(s) THEN TRUE ELSE FALSE]
      BY <1>1 DEF cmd
    <2>5. c \in Commands
      BY <2>2, <2>4 DEF Commands, Ops
    <2>6. is_write(s, req) <=> s.cb[1].we
      BY <1>1 DEF is_write
    <2>7. /\ c.op = IF s.cb[1].we THEN "WR" ELSE "RD"
          /\ c.row = s.cb[1].row
          /\ c.a10 <=> auto_precharge(s)
      BY <2>4
    <2> HIDE DEF c
    <2>8. c.op \in {"RD", "WR"} /\ ((c.op = "WR") <=> s.cb[1].we)
      BY <2>2, <2>7
    <2>. QED  BY <2>1, <2>3, <2>5, <2>6, <2>7, <2>8 DEF c
  <1>2. CASE cmd_precharge(s)
    <2>1. s.fsm = "PRECHARGE"
      BY <1>2 DEF cmd_precharge
    <2>2. s.cb[1].row \in Rows
      BY <2>1, CbRow DEF RequestHeld
    <2>3. ~Column(s, req) /\ ~cmd_activate(s) /\ ~auto_precharge(s)
      BY <2>1 DEF Column, cmd_activate, row_open, auto_precharge, row_close
    <2>4. c = [op |-> "PRE", row |-> s.cb[1].row, a10 |-> FALSE]
      BY <1>2, <2>3 DEF cmd
    <2>5. c \in Commands
      BY <2>2, <2>4 DEF Commands, Ops
    <2>6. c.op = "PRE" /\ ~c.a10
      BY <2>4
    <2>. QED  BY <2>3, <2>5, <2>6
  <1>3. CASE cmd_activate(s)
    <2>1. s.fsm = "ACTIVATE"
      BY <1>3 DEF cmd_activate, row_open
    <2>2. s.cb[1].row \in Rows
      BY <2>1, CbRow DEF RequestHeld
    <2>3. ~Column(s, req) /\ ~cmd_precharge(s)
      BY <2>1 DEF Column, cmd_precharge
    <2>4. c = [op |-> "ACT", row |-> s.cb[1].row, a10 |-> FALSE]
      BY <1>3, <2>3 DEF cmd
    <2>5. c \in Commands
      BY <2>2, <2>4 DEF Commands, Ops
    <2>6. c.op = "ACT" /\ c.row = s.cb[1].row
      BY <2>4
    <2>. QED  BY <2>3, <2>5, <2>6
  <1>. QED  BY <1>1, <1>2, <1>3 DEF cmd_valid

(* What it does not present in a cycle can only come from elsewhere.        *)
LEMMA GivenCases ==
    ASSUME NEW s, NEW req, BmTyped(s), RequestHeld(s), NEW cmd_ready, NEW other \in Commands
    PROVE  LET g == Received(s, req, cmd_ready, other)
           IN  /\ g \in Commands
               /\ cmd_valid(s, req) /\ cmd_ready => g = cmd(s, req)
               /\ ~(cmd_valid(s, req) /\ cmd_ready) => g = other
  <1>1. cmd_valid(s, req) => cmd(s, req) \in Commands
    BY CmdCases
  <1>. QED  BY <1>1 DEF Received

-----------------------------------------------------------------------------
(* One clock edge.                                                          *)

(* The DRAM bank after a clock edge.                                        *)
LEMMA DramRegisters ==
    ASSUME NEW bank \in Banks, NEW c \in Commands
    PROVE  LET new == BankNext(bank, c)
               closes == c.op = "PRE" \/ SelfPrecharge(bank)
           IN  /\ new \in Banks
               /\ new.active = IF closes THEN FALSE ELSE IF c.op = "ACT" THEN TRUE ELSE bank.active
               /\ new.row = IF ~closes /\ c.op = "ACT" THEN c.row ELSE bank.row
               /\ new.ap = IF closes THEN FALSE
                           ELSE IF c.op \in {"RD", "WR"} THEN c.a10 ELSE bank.ap
               /\ new.act = IF c.op = "ACT" THEN 1 ELSE Older(bank.act)
               /\ new.pre = IF closes THEN 1 ELSE Older(bank.pre)
               /\ new.wr = IF c.op = "WR" THEN 1 ELSE Older(bank.wr)
               /\ new.ref = IF c.op = "REF" THEN 1 ELSE Older(bank.ref)
  <1> DEFINE new == BankNext(bank, c)
             closes == c.op = "PRE" \/ SelfPrecharge(bank)
  <1>1. /\ bank.active \in BOOLEAN /\ bank.row \in Rows /\ bank.ap \in BOOLEAN
        /\ bank.act \in Ages /\ bank.pre \in Ages /\ bank.wr \in Ages /\ bank.ref \in Ages
        /\ c.op \in Ops /\ c.row \in Rows /\ c.a10 \in BOOLEAN
    BY DEF Banks, Commands
  <1>2. 1 \in Ages /\ \A age \in Ages : Older(age) \in Ages
    BY DramTimings DEF Ages, Older
  <1> DEFINE active == IF closes THEN FALSE ELSE IF c.op = "ACT" THEN TRUE ELSE bank.active
             row == IF ~closes /\ c.op = "ACT" THEN c.row ELSE bank.row
             ap == IF closes THEN FALSE ELSE IF c.op \in {"RD", "WR"} THEN c.a10 ELSE bank.ap
             act == IF c.op = "ACT" THEN 1 ELSE Older(bank.act)
             pre == IF closes THEN 1 ELSE Older(bank.pre)
             wr == IF c.op = "WR" THEN 1 ELSE Older(bank.wr)
             ref == IF c.op = "REF" THEN 1 ELSE Older(bank.ref)
  <1>3. new = [active |-> active, row |-> row, ap |-> ap,
               act |-> act, pre |-> pre, wr |-> wr, ref |-> ref]
    BY Zenon DEF BankNext
  <1>4. /\ active \in BOOLEAN /\ row \in Rows /\ ap \in BOOLEAN
        /\ act \in Ages /\ pre \in Ages /\ wr \in Ages /\ ref \in Ages
    <2> HIDE DEF closes
    <2>. QED  BY <1>1, <1>2, Zenon
  <1> HIDE DEF active, row, ap, act, pre, wr, ref, new
  <1>5. new \in Banks
    BY <1>3, <1>4 DEF Banks
  <1>6. /\ new.active = active /\ new.row = row /\ new.ap = ap
        /\ new.act = act /\ new.pre = pre /\ new.wr = wr /\ new.ref = ref
    BY <1>3
  <1>. QED  BY <1>5, <1>6, Zenon DEF active, row, ap, act, pre, wr, ref, new

(* A tXXDController and the age it stands for advance together.             *)
LEMMA TimerStep ==
    ASSUME NEW t \in Nat, t <= Cap, NEW con, con.ready \in BOOLEAN,
           NEW age \in Ages, NEW valid \in BOOLEAN, TimerAgrees(t, con, age)
    PROVE  LET new == tXXDNext(t, con, valid)
           IN  /\ new.ready \in BOOLEAN
               /\ con.ready /\ ~valid => new.ready
               /\ TimerAgrees(t, new, IF valid THEN 1 ELSE Older(age))
  <1>0. Cap \in Nat
    BY DramTimings
  <1>1. CASE t = 0
    BY <1>0, <1>1 DEF tXXDNext, TimerAgrees, None, Ages, Older
  <1>2. CASE t # 0 /\ valid
    <2>1. tXXDNext(t, con, valid) = [count |-> t - 1,
                                     ready |-> IF t - 1 = 0 THEN TRUE ELSE FALSE]
      BY <1>2 DEF tXXDNext, None
    <2> DEFINE new == tXXDNext(t, con, valid)
    <2>2. new.ready \in BOOLEAN /\ new.count = t - 1 /\ (1 < t => ~new.ready)
      <3>1. CASE t = 1
        BY <2>1, <3>1
      <3>2. CASE 1 < t
        <4>1. t - 1 # 0
          BY <3>2
        <4>2. new = [count |-> t - 1, ready |-> FALSE]
          BY <2>1, <4>1, Zenon
        <4>. QED  BY <4>2
      <3>3. t = 1 \/ 1 < t
        BY <1>2
      <3>. QED  BY <3>1, <3>2, <3>3, Zenon
    <2> HIDE DEF new
    <2>3. TimerAgrees(t, new, 1)
      BY <2>2 DEF TimerAgrees
    <2>4. (IF valid THEN 1 ELSE Older(age)) = 1
      BY <1>2
    <2>. QED  BY <1>2, <2>2, <2>3, <2>4 DEF new
  <1>3. CASE t # 0 /\ ~valid /\ con.ready
    <2>1. tXXDNext(t, con, valid) = con
      BY <1>3, Zenon DEF tXXDNext, None
    <2>2. ~(age < t)
      BY <1>3 DEF TimerAgrees
    <2>3. Older(age) \in Nat /\ ~(Older(age) < t)
      BY <1>0, <2>2 DEF Older, Ages
    <2>4. TimerAgrees(t, con, Older(age))
      BY <2>3 DEF TimerAgrees
    <2>5. (IF valid THEN 1 ELSE Older(age)) = Older(age)
      BY <1>3
    <2>. QED  BY <1>3, <2>1, <2>4, <2>5
  <1>4. CASE t # 0 /\ ~valid /\ ~con.ready
    <2>1. tXXDNext(t, con, valid) = [count |-> CountDown(con.count, CountModulus(t)),
                                     ready |-> IF con.count = 1 THEN TRUE ELSE FALSE]
      BY <1>4 DEF tXXDNext, None
    <2>. QED  BY <1>0, <1>4, <2>1 DEF TimerAgrees, CountDown, Ages, Older
  <1>. QED  BY <1>1, <1>2, <1>3, <1>4

(* The DRAM sees a write exactly when tWTP is started, and an activate      *)
(* exactly when tRC and tRAS are.                                           *)
LEMMA GivenStartsTimers ==
    ASSUME NEW s, NEW bank, NEW phase,
           PairTyped(s, bank, phase), RequestHeld(s),
           NEW cmd_ready \in BOOLEAN, NEW move \in PhaseMoves(s, bank, phase)
    PROVE  LET g == Received(s, Requested(phase), cmd_ready, move[2])
           IN  /\ (g.op = "WR") <=> (is_write(s, Requested(phase)) /\ cmd_ready)
               /\ (g.op = "ACT") <=> (row_open(s) /\ cmd_ready)
  <1> DEFINE g == Received(s, Requested(phase), cmd_ready, move[2])
  <1>1. /\ move[2] \in Commands /\ move[2].op \in {"NOP", "PRE", "REF"}
        /\ BmTyped(s)
    BY MoveCases DEF PairTyped
  <1>2. CASE cmd_valid(s, Requested(phase)) /\ cmd_ready
    <2> DEFINE c == cmd(s, Requested(phase))
    <2>1. g = c
      BY <1>2 DEF Received
    <2>2. CASE Column(s, Requested(phase))
      <3>1. c.op \in {"RD", "WR"} /\ ((c.op = "WR") <=> is_write(s, Requested(phase)))
        BY <1>1, <1>2, <2>2, CmdCases
      <3>. QED  BY <1>2, <2>1, <2>2, <3>1 DEF Column, row_open
    <2>3. CASE cmd_precharge(s)
      <3>1. c.op = "PRE"
        BY <1>1, <1>2, <2>3, CmdCases
      <3>. QED  BY <2>1, <2>3, <3>1 DEF cmd_precharge, row_open, is_write, Column
    <2>4. CASE cmd_activate(s)
      <3>1. c.op = "ACT"
        BY <1>1, <1>2, <2>4, CmdCases
      <3>. QED  BY <1>2, <2>1, <2>4, <3>1 DEF cmd_activate, row_open, is_write, Column
    <2>. QED  BY <1>2, <2>2, <2>3, <2>4 DEF cmd_valid
  <1>3. CASE ~(cmd_valid(s, Requested(phase)) /\ cmd_ready)
    <2>1. g = move[2]
      BY <1>3 DEF Received
    <2>2. ~(is_write(s, Requested(phase)) /\ cmd_ready) /\ ~(row_open(s) /\ cmd_ready)
      BY <1>3 DEF cmd_valid, is_write, cmd_activate
    <2>. QED  BY <1>1, <2>1, <2>2
  <1>. QED  BY <1>2, <1>3

(* A clock edge keeps the timers in step with the DRAM.                     *)
LEMMA TimersStep ==
    ASSUME NEW s, NEW bank, NEW phase, NEW s2, NEW bank2, NEW phase2,
           PairTyped(s, bank, phase), TimersAgree(s, bank), RequestHeld(s),
           NEW arriving \in MayArrive(s), NEW cmd_ready \in BOOLEAN,
           NEW move \in PhaseMoves(s, bank, phase),
           Clocked(s, bank, phase, arriving, cmd_ready, move, s2, bank2, phase2)
    PROVE  /\ TimersAgree(s2, bank2)
           /\ s2.twtp.ready \in BOOLEAN /\ s2.trc.ready \in BOOLEAN /\ s2.tras.ready \in BOOLEAN
           /\ s.twtp.ready /\ s.fsm = "REFRESH" => s2.twtp.ready
  <1> DEFINE g == Received(s, Requested(phase), cmd_ready, move[2])
             w == is_write(s, Requested(phase)) /\ cmd_ready
             o == row_open(s) /\ cmd_ready
  <1>1. g \in Commands /\ bank \in Banks
    BY MoveCases, GivenCases DEF PairTyped, BmTyped
  <1>2. bank2 = BankNext(bank, g)
    BY DEF Clocked
  <1>3. /\ bank2.wr = IF g.op = "WR" THEN 1 ELSE Older(bank.wr)
        /\ bank2.act = IF g.op = "ACT" THEN 1 ELSE Older(bank.act)
    BY <1>1, <1>2, DramRegisters
  <1>4. ((g.op = "WR") <=> w) /\ ((g.op = "ACT") <=> o)
    BY GivenStartsTimers
  <1>5. bank.wr \in Ages /\ bank.act \in Ages
    BY <1>1 DEF Banks
  <1>6. /\ s2.twtp = tXXDNext(tWTP, s.twtp, w)
        /\ s2.trc = tXXDNext(tRC, s.trc, o) /\ s2.tras = tXXDNext(tRAS, s.tras, o)
    BY DEF Clocked, BmNext
  <1>7. /\ tWTP \in Nat /\ tWTP <= Cap /\ tRC \in Nat /\ tRC <= Cap /\ tRAS \in Nat /\ tRAS <= Cap
    BY DramTimings
  <1>8. s.twtp.ready \in BOOLEAN /\ s.trc.ready \in BOOLEAN /\ s.tras.ready \in BOOLEAN
    BY DEF PairTyped, BmTyped
  <1>9. w \in BOOLEAN /\ o \in BOOLEAN
    BY DEF is_write, row_open
  <1>10. s.fsm = "REFRESH" => ~w
    BY DEF is_write, Column
  <1> HIDE DEF g, w, o
  <1>11. /\ bank2.wr = IF w THEN 1 ELSE Older(bank.wr)
         /\ bank2.act = IF o THEN 1 ELSE Older(bank.act)
    BY <1>3, <1>4
  <1>12. /\ s2.twtp.ready \in BOOLEAN /\ TimerAgrees(tWTP, s2.twtp, bank2.wr)
         /\ s.twtp.ready /\ ~w => s2.twtp.ready
    <2>1. TimerAgrees(tWTP, s.twtp, bank.wr)
      BY DEF TimersAgree
    <2>2. tWTP \in Nat /\ tWTP <= Cap /\ s.twtp.ready \in BOOLEAN /\ bank.wr \in Ages /\ w \in BOOLEAN
      BY <1>5, <1>7, <1>8, <1>9
    <2>3. s2.twtp = tXXDNext(tWTP, s.twtp, w) /\ bank2.wr = IF w THEN 1 ELSE Older(bank.wr)
      BY <1>6, <1>11
    <2>. QED  BY <2>1, <2>2, <2>3, TimerStep
  <1>13. s2.trc.ready \in BOOLEAN /\ TimerAgrees(tRC, s2.trc, bank2.act)
    <2>1. TimerAgrees(tRC, s.trc, bank.act)
      BY DEF TimersAgree
    <2>2. tRC \in Nat /\ tRC <= Cap /\ s.trc.ready \in BOOLEAN /\ bank.act \in Ages /\ o \in BOOLEAN
      BY <1>5, <1>7, <1>8, <1>9
    <2>3. s2.trc = tXXDNext(tRC, s.trc, o) /\ bank2.act = IF o THEN 1 ELSE Older(bank.act)
      BY <1>6, <1>11
    <2>. QED  BY <2>1, <2>2, <2>3, TimerStep
  <1>14. s2.tras.ready \in BOOLEAN /\ TimerAgrees(tRAS, s2.tras, bank2.act)
    <2>1. TimerAgrees(tRAS, s.tras, bank.act)
      BY DEF TimersAgree
    <2>2. tRAS \in Nat /\ tRAS <= Cap /\ s.tras.ready \in BOOLEAN /\ bank.act \in Ages /\ o \in BOOLEAN
      BY <1>5, <1>7, <1>8, <1>9
    <2>3. s2.tras = tXXDNext(tRAS, s.tras, o) /\ bank2.act = IF o THEN 1 ELSE Older(bank.act)
      BY <1>6, <1>11
    <2>. QED  BY <2>1, <2>2, <2>3, TimerStep
  <1>15. TimersAgree(s2, bank2)
    BY <1>12, <1>13, <1>14 DEF TimersAgree, TimerAgrees
  <1>. QED  BY <1>10, <1>12, <1>13, <1>14, <1>15

(* Ages grow up to Cap, which no timing exceeds.                            *)
LEMMA OlderGrows ==
    ASSUME NEW age \in Ages
    PROVE  /\ age \in Nat /\ Older(age) \in Nat /\ 1 <= Older(age) /\ age <= Older(age)
           /\ \A t \in Nat : t <= Cap /\ t <= age + 1 => t <= Older(age)
           /\ \A t, w \in Nat : t <= Cap /\ 1 <= w /\ t <= age + w => t <= Older(age) + (w - 1)
  <1>1. Cap \in Nat
    BY DramTimings
  <1>. QED  BY <1>1 DEF Ages, Older

(* A bank that receives nothing stays closed, tRP after its precharge.      *)
LEMMA StaysClosed ==
    ASSUME NEW bank \in Banks, NEW c \in Commands, c.op = "NOP", Closed(bank)
    PROVE  Closed(BankNext(bank, c))
  <1> DEFINE new == BankNext(bank, c)
  <1>1. ~bank.active /\ ~bank.ap /\ tRP <= bank.pre /\ bank.pre \in Ages
    BY DEF Closed, Banks
  <1>2. ~SelfPrecharge(bank)
    BY <1>1 DEF SelfPrecharge
  <1>3. new.active = bank.active /\ new.ap = bank.ap /\ new.pre = Older(bank.pre)
    BY <1>2, DramRegisters
  <1>4. tRP <= Older(bank.pre)
    BY <1>1, OlderGrows, DramTimings
  <1>. QED  BY <1>1, <1>3, <1>4 DEF Closed

(* An open row stays open while nothing or column commands without          *)
(* auto-precharge arrive.                                                   *)
LEMMA StaysOpen ==
    ASSUME NEW bank \in Banks, NEW r, Open(bank, r), NEW c \in Commands,
           c.op \in {"NOP", "RD", "WR"}, c.op \in {"RD", "WR"} => ~c.a10
    PROVE  Open(BankNext(bank, c), r)
  <1> DEFINE new == BankNext(bank, c)
  <1>1. bank.active /\ ~bank.ap /\ bank.row = r /\ tRCD <= bank.act /\ bank.act \in Ages
    BY DEF Open, Banks
  <1>2. ~SelfPrecharge(bank) /\ c.op # "PRE" /\ c.op # "ACT"
    BY <1>1 DEF SelfPrecharge
  <1>3. /\ new.active = bank.active /\ new.row = bank.row /\ new.act = Older(bank.act)
        /\ new.ap = IF c.op \in {"RD", "WR"} THEN c.a10 ELSE bank.ap
    BY <1>2, DramRegisters
  <1>4. tRCD <= Older(bank.act)
    BY <1>1, OlderGrows, DramTimings
  <1>5. ~new.ap
    BY <1>1, <1>3
  <1>. QED  BY <1>1, <1>3, <1>4, <1>5 DEF Open

(* Outside REFRESH the refresher gives no command.                          *)
LEMMA QuietRefresher ==
    ASSUME NEW s, NEW bank, NEW phase, NEW s2, NEW bank2, NEW phase2,
           InStep(s, bank, phase), s.fsm # "REFRESH",
           NEW arriving \in MayArrive(s), NEW cmd_ready \in BOOLEAN,
           NEW move \in PhaseMoves(s, bank, phase),
           Clocked(s, bank, phase, arriving, cmd_ready, move, s2, bank2, phase2)
    PROVE  /\ move[2] \in Commands /\ move[2].op = "NOP"
           /\ PhaseAgrees(s2, bank2, phase2)
  <1>1. phase \in {"idle", "request"}
    BY DEF InStep, PhaseAgrees, PairTyped, BmTyped, RefreshPhases
  <1>2. ~refresh_gnt(s) /\ PairTyped(s, bank, phase) /\ BmTyped(s) /\ RequestHeld(s)
    BY DEF refresh_gnt, InStep, PairTyped
  <1>3. /\ move[2] \in Commands /\ move[2].op = "NOP" /\ phase2 = move[1]
        /\ move[1] = phase \/ (phase = "idle" /\ move[1] = "request")
    <2>1. /\ move[2] \in Commands /\ move[2].op = "NOP"
          /\ move[1] = phase \/ (phase = "idle" /\ move[1] = "request")
      BY <1>1, <1>2, MoveCases
    <2>. QED  BY <2>1 DEF Clocked
  <1> DEFINE g == Received(s, Requested(phase), cmd_ready, move[2])
  <1>4. g \in Commands /\ bank \in Banks /\ bank2 = BankNext(bank, g)
    <2>1. g \in Commands
      BY <1>2, <1>3, GivenCases
    <2>. QED  BY <1>2, <2>1 DEF PairTyped, Clocked
  <1>5. g.op # "REF"
    <2>1. CASE cmd_valid(s, Requested(phase)) /\ cmd_ready
      <3>1. g = cmd(s, Requested(phase))
        BY <2>1 DEF Received
      <3>. QED  BY <1>2, <2>1, <3>1, CmdCases DEF cmd_valid
    <2>2. CASE ~(cmd_valid(s, Requested(phase)) /\ cmd_ready)
      BY <1>3, <2>2 DEF Received
    <2>. QED  BY <2>1, <2>2
  <1>6. bank2.ref = Older(bank.ref)
    BY <1>4, <1>5, DramRegisters
  <1>7. tRFC <= bank.ref /\ bank.ref \in Ages
    BY <1>1, <1>4 DEF InStep, PhaseAgrees, Banks
  <1>8. tRFC <= bank2.ref
    BY <1>6, <1>7, OlderGrows, DramTimings
  <1>9. phase2 \in {"idle", "request"}
    BY <1>1, <1>3
  <1>10. PhaseAgrees(s2, bank2, phase2)
    BY <1>8, <1>9 DEF PhaseAgrees
  <1>. QED  BY <1>3, <1>10

(* So outside REFRESH the DRAM receives what the bank machine presents.     *)
LEMMA QuietReceived ==
    ASSUME NEW s, NEW bank, NEW phase, NEW s2, NEW bank2, NEW phase2,
           InStep(s, bank, phase), s.fsm # "REFRESH",
           NEW arriving \in MayArrive(s), NEW cmd_ready \in BOOLEAN,
           NEW move \in PhaseMoves(s, bank, phase),
           Clocked(s, bank, phase, arriving, cmd_ready, move, s2, bank2, phase2)
    PROVE  LET g == Received(s, Requested(phase), cmd_ready, move[2])
           IN  /\ g \in Commands /\ bank \in Banks /\ bank2 = BankNext(bank, g)
               /\ cmd_valid(s, Requested(phase)) /\ cmd_ready => g = cmd(s, Requested(phase))
               /\ ~(cmd_valid(s, Requested(phase)) /\ cmd_ready) => g.op = "NOP"
  <1>1. BmTyped(s) /\ RequestHeld(s) /\ bank \in Banks
    BY DEF InStep, PairTyped
  <1>2. move[2] \in Commands /\ move[2].op = "NOP"
    BY QuietRefresher
  <1>3. bank2 = BankNext(bank, Received(s, Requested(phase), cmd_ready, move[2]))
    BY DEF Clocked
  <1>. QED  BY <1>1, <1>2, <1>3, GivenCases

-----------------------------------------------------------------------------
(* One lemma per state of the FSM.                                          *)

(* REGULAR: the row that row tracking knows is the row open in the DRAM.    *)
LEMMA RegularStep ==
    ASSUME NEW s, NEW bank, NEW phase, NEW s2, NEW bank2, NEW phase2,
           InStep(s, bank, phase), s.fsm = "REGULAR",
           NEW arriving \in MayArrive(s), NEW cmd_ready \in BOOLEAN,
           NEW move \in PhaseMoves(s, bank, phase),
           Clocked(s, bank, phase, arriving, cmd_ready, move, s2, bank2, phase2)
    PROVE  RequestHeld(s2) /\ BankAgrees(s2, bank2, phase2)
  <1> DEFINE g == Received(s, Requested(phase), cmd_ready, move[2])
             accepted == cmd_valid(s, Requested(phase)) /\ cmd_ready
             performed == Column(s, Requested(phase)) /\ cmd_ready
  <1>1. /\ g \in Commands /\ bank \in Banks /\ bank2 = BankNext(bank, g)
    BY QuietReceived
  <1>2. ~row_close(s) /\ ~row_open(s) /\ ~cmd_precharge(s) /\ ~cmd_activate(s)
    BY DEF row_close, row_open, cmd_precharge, cmd_activate
  <1>3. /\ s2.cb = CbNext(s, performed) /\ s2.row = s.row /\ s2.row_opened = s.row_opened
        /\ s2.fsm = FsmNext(s, Requested(phase), accepted)[1]
    BY <1>2 DEF Clocked, BmNext
  <1>4. accepted <=> performed
    BY <1>2 DEF cmd_valid
  <1>5. /\ s.row_opened => Open(bank, s.row)
        /\ ~s.row_opened => Closed(bank)
    BY DEF InStep, BankAgrees
  <1>6. ~performed => g.op = "NOP"
    BY <1>4, QuietReceived
  <1>7. /\ ~performed /\ s.row_opened => Open(bank2, s2.row)
        /\ ~performed /\ ~s.row_opened => Closed(bank2)
    BY <1>1, <1>3, <1>5, <1>6, StaysOpen, StaysClosed
  <1>8. ~performed /\ s.cb # <<>> => s2.cb # <<>>
    BY <1>3 DEF CbNext, cb_load
  <1>9. CASE Requested(phase)
    <2>1. s2.fsm = "REFRESH" /\ ~performed
      BY <1>3, <1>9 DEF FsmNext, Column
    <2>2. phase2 # "idle"
      <3>1. PairTyped(s, bank, phase) /\ phase = "request"
        BY <1>9 DEF Requested, InStep, PhaseAgrees, PairTyped, RefreshPhases
      <3>2. move[1] \in {"request", "granted"}
        BY <3>1, MoveCases
      <3>. QED  BY <3>2 DEF Clocked
    <2>3. ~bank2.ap
      BY <1>7, <2>1 DEF Open, Closed
    <2>. QED  BY <2>1, <2>2, <2>3 DEF RequestHeld, BankAgrees
  <1>10. CASE ~Requested(phase) /\ s.cb = <<>>
    <2>1. s2.fsm = "REGULAR" /\ ~performed
      BY <1>3, <1>10 DEF FsmNext, Column
    <2>. QED  BY <1>3, <1>7, <2>1 DEF RequestHeld, BankAgrees
  <1>11. CASE ~Requested(phase) /\ s.cb # <<>> /\ ~s.row_opened
    <2>1. s2.fsm = "ACTIVATE" /\ ~performed
      BY <1>3, <1>11 DEF FsmNext, Column
    <2>. QED  BY <1>3, <1>7, <1>8, <1>11, <2>1 DEF RequestHeld, BankAgrees
  <1>12. CASE ~Requested(phase) /\ s.cb # <<>> /\ s.row_opened /\ ~row_hit(s)
    <2>1. s2.fsm = "PRECHARGE" /\ ~performed
      BY <1>3, <1>12 DEF FsmNext, Column
    <2>2. bank2.active /\ ~bank2.ap
      BY <1>7, <1>12, <2>1 DEF Open
    <2>. QED  BY <1>8, <1>12, <2>1, <2>2 DEF RequestHeld, BankAgrees
  <1>13. CASE ~Requested(phase) /\ s.cb # <<>> /\ s.row_opened /\ row_hit(s)
    <2>1. Column(s, Requested(phase))
      BY <1>13 DEF Column
    <2>2. performed => g.op \in {"RD", "WR"} /\ (g.a10 <=> auto_precharge(s))
      <3>1. BmTyped(s) /\ RequestHeld(s) /\ cmd_valid(s, Requested(phase))
        BY <2>1 DEF InStep, PairTyped, cmd_valid
      <3>2. performed => g = cmd(s, Requested(phase))
        BY <3>1, QuietReceived
      <3> DEFINE c == cmd(s, Requested(phase))
      <3>3. c.op \in {"RD", "WR"} /\ (c.a10 <=> auto_precharge(s))
        BY <2>1, <3>1, CmdCases
      <3>. QED  BY <3>2, <3>3
    <2>3. CASE performed /\ auto_precharge(s)
      <3>1. s2.fsm = "AUTOPRECHARGE"
        BY <1>3, <1>4, <1>13, <2>3 DEF FsmNext
      <3>2. lookahead(s) # <<>> /\ lookahead(s) \in Seq(Requests)
        BY <2>3 DEF auto_precharge, lookahead, InStep, PairTyped, BmTyped
      <3>3. s2.cb # <<>>
        BY <1>3, <2>3, <3>2, FirstType DEF CbNext, cb_load
      <3>4. bank.active /\ ~bank.ap
        BY <1>5, <1>13 DEF Open
      <3>5. ~SelfPrecharge(bank)
        BY <3>4 DEF SelfPrecharge
      <3>6. g.op \in {"RD", "WR"} /\ g.a10
        BY <2>2, <2>3
      <3>7. bank2.active = bank.active /\ bank2.ap = g.a10
        BY <1>1, <3>5, <3>6, DramRegisters
      <3>8. bank2.active = TRUE /\ bank2.ap = TRUE
        BY <1>1, <3>4, <3>6, <3>7 DEF Banks, Commands
      <3>. QED  BY <3>1, <3>3, <3>8 DEF RequestHeld, BankAgrees
    <2>4. CASE ~(performed /\ auto_precharge(s))
      <3>1. s2.fsm = "REGULAR"
        BY <1>3, <1>4, <1>13, <2>4 DEF FsmNext
      <3>2. g.op \in {"NOP", "RD", "WR"} /\ (g.op \in {"RD", "WR"} => ~g.a10)
        BY <1>1, <1>6, <2>2, <2>4
      <3>3. Open(bank2, s2.row)
        BY <1>1, <1>3, <1>5, <1>13, <3>2, StaysOpen
      <3>. QED  BY <1>3, <1>13, <3>1, <3>3 DEF RequestHeld, BankAgrees
    <2>. QED  BY <2>3, <2>4
  <1>. QED  BY <1>9, <1>10, <1>11, <1>12, <1>13

(* No state but REGULAR takes a request out of cmd_buffer.                  *)
LEMMA RequestStays ==
    ASSUME NEW s, NEW bank, NEW phase, NEW s2, NEW bank2, NEW phase2,
           s.fsm # "REGULAR", s.cb # <<>>, NEW arriving, NEW cmd_ready, NEW move,
           Clocked(s, bank, phase, arriving, cmd_ready, move, s2, bank2, phase2)
    PROVE  s2.cb # <<>> /\ s2.cb = s.cb
  <1>1. ~Column(s, Requested(phase))
    BY DEF Column
  <1>2. s2.cb = CbNext(s, Column(s, Requested(phase)) /\ cmd_ready)
    BY DEF Clocked, BmNext
  <1>. QED  BY <1>1, <1>2 DEF CbNext, cb_load

(* PRECHARGE: the row is open until the precharge is accepted, and tRP is   *)
(* counted from there.                                                      *)
LEMMA PrechargeStep ==
    ASSUME NEW s, NEW bank, NEW phase, NEW s2, NEW bank2, NEW phase2,
           InStep(s, bank, phase), s.fsm = "PRECHARGE",
           NEW arriving \in MayArrive(s), NEW cmd_ready \in BOOLEAN,
           NEW move \in PhaseMoves(s, bank, phase),
           Clocked(s, bank, phase, arriving, cmd_ready, move, s2, bank2, phase2)
    PROVE  RequestHeld(s2) /\ BankAgrees(s2, bank2, phase2)
  <1> DEFINE g == Received(s, Requested(phase), cmd_ready, move[2])
             accepted == cmd_valid(s, Requested(phase)) /\ cmd_ready
  <1>1. /\ g \in Commands /\ bank \in Banks /\ bank2 = BankNext(bank, g)
    BY QuietReceived
  <1>2. row_close(s) /\ ~row_open(s) /\ ~Column(s, Requested(phase)) /\ ~cmd_activate(s)
    BY DEF row_close, row_open, Column, cmd_activate
  <1>3. s.cb # <<>> /\ s2.cb # <<>>
    BY RequestStays DEF InStep, RequestHeld
  <1>4. bank.active /\ ~bank.ap /\ ~SelfPrecharge(bank)
    BY DEF InStep, BankAgrees, SelfPrecharge
  <1>5. /\ s2.row_opened = FALSE
        /\ s2.fsm = FsmNext(s, Requested(phase), accepted)[1]
        /\ s2.wait = FsmNext(s, Requested(phase), accepted)[2]
    BY <1>2 DEF Clocked, BmNext
  <1>6. tRP \in Nat \ {0} /\ bank.pre \in Ages
    BY <1>1, DramTimings DEF Banks
  <1>7. CASE accepted
    <2>1. g.op = "PRE"
      <3>1. BmTyped(s) /\ RequestHeld(s) /\ cmd_precharge(s)
        BY <1>2, <1>7 DEF InStep, PairTyped, cmd_valid
      <3>2. g = cmd(s, Requested(phase))
        BY <1>7, QuietReceived
      <3>. QED  BY <1>7, <3>1, <3>2, CmdCases
    <2>2. bank2.active = FALSE /\ bank2.ap = FALSE /\ bank2.pre = 1
      BY <1>1, <2>1, DramRegisters
    <2>3. FsmNext(s, Requested(phase), accepted) = DelayedEnter("TRP", "ACTIVATE", tRP - 1)
      BY <1>7 DEF FsmNext
    <2>4. CASE tRP = 1
      <3>1. s2.fsm = "ACTIVATE"
        BY <1>5, <2>3, <2>4 DEF DelayedEnter
      <3>. QED  BY <1>3, <2>2, <2>4, <3>1 DEF RequestHeld, BankAgrees, Closed
    <2>5. CASE tRP # 1
      <3>1. s2.fsm = "TRP" /\ s2.wait = tRP - 1
        BY <1>5, <1>6, <2>3, <2>5 DEF DelayedEnter
      <3>. QED  BY <1>3, <1>5, <1>6, <2>2, <2>5, <3>1 DEF RequestHeld, BankAgrees
    <2>. QED  BY <2>4, <2>5
  <1>8. CASE ~accepted
    <2>1. g.op = "NOP"
      BY <1>8, QuietReceived
    <2>2. bank2.active = bank.active /\ bank2.ap = bank.ap
      BY <1>1, <1>4, <2>1, DramRegisters
    <2>3. s2.fsm = "PRECHARGE"
      BY <1>5, <1>8 DEF FsmNext
    <2>. QED  BY <1>3, <1>4, <2>2, <2>3 DEF RequestHeld, BankAgrees
  <1>. QED  BY <1>7, <1>8

(* AUTOPRECHARGE: when the two timers are ready the DRAM has precharged the *)
(* bank by itself, or does so in this cycle.                                *)
LEMMA AutoPrechargeStep ==
    ASSUME NEW s, NEW bank, NEW phase, NEW s2, NEW bank2, NEW phase2,
           InStep(s, bank, phase), s.fsm = "AUTOPRECHARGE",
           NEW arriving \in MayArrive(s), NEW cmd_ready \in BOOLEAN,
           NEW move \in PhaseMoves(s, bank, phase),
           Clocked(s, bank, phase, arriving, cmd_ready, move, s2, bank2, phase2)
    PROVE  RequestHeld(s2) /\ BankAgrees(s2, bank2, phase2)
  <1> DEFINE g == Received(s, Requested(phase), cmd_ready, move[2])
             accepted == cmd_valid(s, Requested(phase)) /\ cmd_ready
  <1>1. /\ g \in Commands /\ bank \in Banks /\ bank2 = BankNext(bank, g)
    BY QuietReceived
  <1>2. /\ row_close(s) /\ ~row_open(s) /\ ~cmd_valid(s, Requested(phase))
    BY DEF row_close, row_open, Column, cmd_valid, cmd_activate, cmd_precharge
  <1>3. s.cb # <<>> /\ s2.cb # <<>>
    BY RequestStays DEF InStep, RequestHeld
  <1>4. bank.active = bank.ap
    BY DEF InStep, BankAgrees
  <1>5. /\ s2.row_opened = FALSE
        /\ s2.fsm = FsmNext(s, Requested(phase), accepted)[1]
        /\ s2.wait = FsmNext(s, Requested(phase), accepted)[2]
    BY <1>2 DEF Clocked, BmNext
  <1>6. /\ tRP \in Nat \ {0} /\ tWTP \in Nat /\ tRAS \in Nat /\ bank.pre \in Ages
        /\ bank.wr \in Nat /\ bank.act \in Nat
        /\ bank.active \in BOOLEAN /\ bank.ap \in BOOLEAN
    BY <1>1, DramTimings DEF Banks, Ages
  <1>7. g.op = "NOP"
    BY <1>2, QuietReceived
  <1>8. /\ bank2.active = IF SelfPrecharge(bank) THEN FALSE ELSE bank.active
        /\ bank2.ap = IF SelfPrecharge(bank) THEN FALSE ELSE bank.ap
        /\ bank2.pre = IF SelfPrecharge(bank) THEN 1 ELSE Older(bank.pre)
    BY <1>1, <1>7, DramRegisters
  <1>9. bank2.active = bank2.ap
    BY <1>4, <1>8
  <1>10. bank2.pre \in Nat /\ 1 <= bank2.pre
    BY <1>6, <1>8, OlderGrows
  <1>11. CASE s.twtp.ready /\ s.tras.ready
    <2>1. tWTP <= bank.wr /\ tRAS <= bank.act
      BY <1>6, <1>11 DEF InStep, TimersAgree, TimerAgrees
    <2>2. bank.ap => SelfPrecharge(bank)
      BY <2>1 DEF SelfPrecharge
    <2>3. ~bank2.active /\ ~bank2.ap
      BY <1>4, <1>8, <2>2
    <2>4. FsmNext(s, Requested(phase), accepted) = DelayedEnter("TRP", "ACTIVATE", tRP - 1)
      BY <1>11 DEF FsmNext
    <2>5. CASE tRP = 1
      <3>1. s2.fsm = "ACTIVATE"
        BY <1>5, <2>4, <2>5 DEF DelayedEnter
      <3>. QED  BY <1>3, <1>10, <2>3, <2>5, <3>1 DEF RequestHeld, BankAgrees, Closed
    <2>6. CASE tRP # 1
      <3>1. s2.fsm = "TRP" /\ s2.wait = tRP - 1
        BY <1>5, <1>6, <2>4, <2>6 DEF DelayedEnter
      <3>2. ~s2.row_opened
        BY <1>5
      <3>. QED  BY <1>3, <1>6, <1>10, <2>3, <2>6, <3>1, <3>2 DEF RequestHeld, BankAgrees
    <2>. QED  BY <2>5, <2>6
  <1>12. CASE ~(s.twtp.ready /\ s.tras.ready)
    <2>1. s2.fsm = "AUTOPRECHARGE"
      BY <1>5, <1>12 DEF FsmNext
    <2>. QED  BY <1>3, <1>9, <2>1 DEF RequestHeld, BankAgrees
  <1>. QED  BY <1>11, <1>12

(* ACTIVATE: the bank stays closed until the activate is accepted, which    *)
(* opens the row that row tracking records.                                 *)
LEMMA ActivateStep ==
    ASSUME NEW s, NEW bank, NEW phase, NEW s2, NEW bank2, NEW phase2,
           InStep(s, bank, phase), s.fsm = "ACTIVATE",
           NEW arriving \in MayArrive(s), NEW cmd_ready \in BOOLEAN,
           NEW move \in PhaseMoves(s, bank, phase),
           Clocked(s, bank, phase, arriving, cmd_ready, move, s2, bank2, phase2)
    PROVE  RequestHeld(s2) /\ BankAgrees(s2, bank2, phase2)
  <1> DEFINE g == Received(s, Requested(phase), cmd_ready, move[2])
             accepted == cmd_valid(s, Requested(phase)) /\ cmd_ready
  <1>1. /\ g \in Commands /\ bank \in Banks /\ bank2 = BankNext(bank, g)
    BY QuietReceived
  <1>2. ~row_close(s) /\ ~Column(s, Requested(phase)) /\ ~cmd_precharge(s)
    BY DEF row_close, Column, cmd_precharge
  <1>3. s.cb # <<>> /\ s2.cb # <<>>
    BY RequestStays DEF InStep, RequestHeld
  <1>4. Closed(bank) /\ ~bank.active /\ ~bank.ap /\ ~SelfPrecharge(bank)
    BY DEF InStep, BankAgrees, SelfPrecharge, Closed
  <1>5. /\ s2.fsm = FsmNext(s, Requested(phase), accepted)[1]
        /\ s2.wait = FsmNext(s, Requested(phase), accepted)[2]
        /\ row_open(s) => s2.row = s.cb[1].row /\ s2.row_opened = TRUE
    BY <1>2 DEF Clocked, BmNext
  <1>6. tRCD \in Nat \ {0}
    BY DramTimings
  <1>7. CASE accepted
    <2>1. row_open(s) /\ g.op = "ACT" /\ g.row = s.cb[1].row
      <3>1. BmTyped(s) /\ RequestHeld(s) /\ cmd_activate(s) /\ row_open(s)
        BY <1>2, <1>7 DEF InStep, PairTyped, cmd_valid, cmd_activate
      <3>2. g = cmd(s, Requested(phase))
        BY <1>7, QuietReceived
      <3> DEFINE c == cmd(s, Requested(phase))
      <3>3. c.op = "ACT" /\ c.row = s.cb[1].row
        BY <1>7, <3>1, CmdCases
      <3>. QED  BY <3>1, <3>2, <3>3
    <2>2. /\ bank2.active = TRUE /\ bank2.ap = bank.ap /\ bank2.row = s.cb[1].row
          /\ bank2.act = 1
      BY <1>1, <1>4, <2>1, DramRegisters
    <2>3. FsmNext(s, Requested(phase), accepted) = DelayedEnter("TRCD", "REGULAR", tRCD - 1)
      BY <1>7 DEF FsmNext
    <2>4. s2.row_opened /\ bank2.row = s2.row /\ bank2.active /\ ~bank2.ap
      BY <1>4, <1>5, <2>1, <2>2
    <2>5. CASE tRCD = 1
      <3>1. s2.fsm = "REGULAR"
        BY <1>5, <2>3, <2>5 DEF DelayedEnter
      <3>. QED  BY <1>3, <2>2, <2>4, <2>5, <3>1 DEF RequestHeld, BankAgrees, Open
    <2>6. CASE tRCD # 1
      <3>1. s2.fsm = "TRCD" /\ s2.wait = tRCD - 1
        BY <1>5, <1>6, <2>3, <2>6 DEF DelayedEnter
      <3>. QED  BY <1>3, <1>6, <2>2, <2>4, <2>6, <3>1 DEF RequestHeld, BankAgrees
    <2>. QED  BY <2>5, <2>6
  <1>8. CASE ~accepted
    <2>1. g.op = "NOP"
      BY <1>8, QuietReceived
    <2>2. Closed(bank2)
      BY <1>1, <1>4, <2>1, StaysClosed
    <2>3. s2.fsm = "ACTIVATE"
      BY <1>5, <1>8 DEF FsmNext
    <2>. QED  BY <1>3, <2>2, <2>3 DEF RequestHeld, BankAgrees
  <1>. QED  BY <1>7, <1>8

(* TRP: the age of the precharge and the cycles left make up tRP.           *)
LEMMA WaitTRPStep ==
    ASSUME NEW s, NEW bank, NEW phase, NEW s2, NEW bank2, NEW phase2,
           InStep(s, bank, phase), s.fsm = "TRP",
           NEW arriving \in MayArrive(s), NEW cmd_ready \in BOOLEAN,
           NEW move \in PhaseMoves(s, bank, phase),
           Clocked(s, bank, phase, arriving, cmd_ready, move, s2, bank2, phase2)
    PROVE  RequestHeld(s2) /\ BankAgrees(s2, bank2, phase2)
  <1> DEFINE g == Received(s, Requested(phase), cmd_ready, move[2])
             accepted == cmd_valid(s, Requested(phase)) /\ cmd_ready
  <1>1. /\ g \in Commands /\ bank \in Banks /\ bank2 = BankNext(bank, g)
    BY QuietReceived
  <1>2. ~row_close(s) /\ ~row_open(s) /\ ~cmd_valid(s, Requested(phase))
    BY DEF row_close, row_open, Column, cmd_valid, cmd_activate, cmd_precharge
  <1>3. s.cb # <<>> /\ s2.cb # <<>>
    BY RequestStays DEF InStep, RequestHeld
  <1>4. ~bank.active /\ ~bank.ap /\ ~SelfPrecharge(bank) /\ ~s.row_opened
    BY DEF InStep, BankAgrees, SelfPrecharge
  <1>5. /\ s2.row_opened = s.row_opened
        /\ s2.fsm = FsmNext(s, Requested(phase), accepted)[1]
        /\ s2.wait = FsmNext(s, Requested(phase), accepted)[2]
    BY <1>2 DEF Clocked, BmNext
  <1>6. g.op = "NOP"
    BY <1>2, QuietReceived
  <1>7. bank2.active = bank.active /\ bank2.ap = bank.ap /\ bank2.pre = Older(bank.pre)
    BY <1>1, <1>4, <1>6, DramRegisters
  <1>8. /\ tRP \in Nat /\ tRP <= Cap /\ bank.pre \in Ages
        /\ s.wait \in Nat /\ 1 <= s.wait /\ tRP <= bank.pre + s.wait
    BY <1>1, DramTimings DEF InStep, BankAgrees, PairTyped, BmTyped, Banks
  <1>9. tRP <= bank2.pre + (s.wait - 1) /\ bank2.pre \in Nat
    BY <1>7, <1>8, OlderGrows
  <1>10. CASE s.wait = 1
    <2>1. s2.fsm = "ACTIVATE"
      BY <1>5, <1>10 DEF FsmNext
    <2>2. tRP <= bank2.pre
      BY <1>9, <1>10
    <2>. QED  BY <1>3, <1>4, <1>7, <2>1, <2>2 DEF RequestHeld, BankAgrees, Closed
  <1>11. CASE s.wait # 1
    <2>1. s2.fsm = "TRP" /\ s2.wait = s.wait - 1
      BY <1>5, <1>11 DEF FsmNext
    <2>2. 1 <= s2.wait /\ tRP <= bank2.pre + s2.wait
      BY <1>8, <1>9, <1>11, <2>1
    <2>. QED  BY <1>3, <1>4, <1>5, <1>7, <2>1, <2>2 DEF RequestHeld, BankAgrees
  <1>. QED  BY <1>10, <1>11

(* TRCD: the age of the activate and the cycles left make up tRCD.          *)
LEMMA WaitTRCDStep ==
    ASSUME NEW s, NEW bank, NEW phase, NEW s2, NEW bank2, NEW phase2,
           InStep(s, bank, phase), s.fsm = "TRCD",
           NEW arriving \in MayArrive(s), NEW cmd_ready \in BOOLEAN,
           NEW move \in PhaseMoves(s, bank, phase),
           Clocked(s, bank, phase, arriving, cmd_ready, move, s2, bank2, phase2)
    PROVE  RequestHeld(s2) /\ BankAgrees(s2, bank2, phase2)
  <1> DEFINE g == Received(s, Requested(phase), cmd_ready, move[2])
             accepted == cmd_valid(s, Requested(phase)) /\ cmd_ready
  <1>1. /\ g \in Commands /\ bank \in Banks /\ bank2 = BankNext(bank, g)
    BY QuietReceived
  <1>2. ~row_close(s) /\ ~row_open(s) /\ ~cmd_valid(s, Requested(phase))
    BY DEF row_close, row_open, Column, cmd_valid, cmd_activate, cmd_precharge
  <1>3. s.cb # <<>> /\ s2.cb # <<>>
    BY RequestStays DEF InStep, RequestHeld
  <1>4. /\ bank.active /\ ~bank.ap /\ ~SelfPrecharge(bank)
        /\ s.row_opened /\ bank.row = s.row
    BY DEF InStep, BankAgrees, SelfPrecharge
  <1>5. /\ s2.row_opened = s.row_opened /\ s2.row = s.row
        /\ s2.fsm = FsmNext(s, Requested(phase), accepted)[1]
        /\ s2.wait = FsmNext(s, Requested(phase), accepted)[2]
    BY <1>2 DEF Clocked, BmNext
  <1>6. g.op = "NOP"
    BY <1>2, QuietReceived
  <1>7. /\ bank2.active = bank.active /\ bank2.ap = bank.ap /\ bank2.row = bank.row
        /\ bank2.act = Older(bank.act)
    BY <1>1, <1>4, <1>6, DramRegisters
  <1>8. /\ tRCD \in Nat /\ tRCD <= Cap /\ bank.act \in Ages
        /\ s.wait \in Nat /\ 1 <= s.wait /\ tRCD <= bank.act + s.wait
    BY <1>1, DramTimings DEF InStep, BankAgrees, PairTyped, BmTyped, Banks
  <1>9. tRCD <= bank2.act + (s.wait - 1) /\ bank2.act \in Nat
    BY <1>7, <1>8, OlderGrows
  <1>10. s2.row_opened /\ bank2.row = s2.row /\ bank2.active /\ ~bank2.ap
    BY <1>4, <1>5, <1>7
  <1>11. CASE s.wait = 1
    <2>1. s2.fsm = "REGULAR"
      BY <1>5, <1>11 DEF FsmNext
    <2>2. tRCD <= bank2.act
      BY <1>9, <1>11
    <2>. QED  BY <1>3, <1>10, <2>1, <2>2 DEF RequestHeld, BankAgrees, Open
  <1>12. CASE s.wait # 1
    <2>1. s2.fsm = "TRCD" /\ s2.wait = s.wait - 1
      BY <1>5, <1>12 DEF FsmNext
    <2>2. 1 <= s2.wait /\ tRCD <= bank2.act + s2.wait
      BY <1>8, <1>9, <1>12, <2>1
    <2>. QED  BY <1>3, <1>10, <2>1, <2>2 DEF RequestHeld, BankAgrees
  <1>. QED  BY <1>11, <1>12

(* REFRESH: no command of the bank machine; the refresher closes the bank,  *)
(* and gives it back closed, tRP after the precharge and tRFC after the     *)
(* refresh.                                                                 *)
LEMMA RefreshStep ==
    ASSUME NEW s, NEW bank, NEW phase, NEW s2, NEW bank2, NEW phase2,
           InStep(s, bank, phase), s.fsm = "REFRESH",
           NEW arriving \in MayArrive(s), NEW cmd_ready \in BOOLEAN,
           NEW move \in PhaseMoves(s, bank, phase),
           Clocked(s, bank, phase, arriving, cmd_ready, move, s2, bank2, phase2)
    PROVE  RequestHeld(s2) /\ BankAgrees(s2, bank2, phase2) /\ PhaseAgrees(s2, bank2, phase2)
  <1> DEFINE c == move[2]
  <1>1. row_close(s) /\ ~row_open(s) /\ ~cmd_valid(s, Requested(phase))
    BY DEF row_close, row_open, Column, cmd_valid, cmd_activate, cmd_precharge
  <1>0. PairTyped(s, bank, phase) /\ bank \in Banks
    BY DEF InStep, PairTyped
  <1>2. c \in Commands /\ c.op \in {"NOP", "PRE", "REF"} /\ bank \in Banks
    BY <1>0, MoveCases
  <1>3. bank2 = BankNext(bank, c)
    BY <1>1 DEF Clocked, Received
  <1>4. ~bank.ap /\ ~SelfPrecharge(bank)
    BY DEF InStep, BankAgrees, SelfPrecharge
  <1>5. /\ bank2.active = IF c.op = "PRE" THEN FALSE ELSE bank.active
        /\ bank2.ap = IF c.op = "PRE" THEN FALSE ELSE bank.ap
        /\ bank2.pre = IF c.op = "PRE" THEN 1 ELSE Older(bank.pre)
        /\ bank2.ref = IF c.op = "REF" THEN 1 ELSE Older(bank.ref)
    BY <1>2, <1>3, <1>4, DramRegisters
  <1>6. ~bank2.ap
    BY <1>4, <1>5
  <1>7. /\ s2.row_opened = FALSE
        /\ s2.fsm = IF Requested(phase) THEN "REFRESH" ELSE "REGULAR"
        /\ phase2 = move[1]
    <2>1. s2.fsm = FsmNext(s, Requested(phase), cmd_valid(s, Requested(phase)) /\ cmd_ready)[1]
      BY DEF Clocked, BmNext
    <2>2. s2.fsm = IF Requested(phase) THEN "REFRESH" ELSE "REGULAR"
      BY <2>1 DEF FsmNext
    <2>. QED  BY <1>1, <2>2 DEF Clocked, BmNext
  <1>8. s.twtp.ready => s2.twtp.ready
    <2>1. TimersAgree(s, bank) /\ RequestHeld(s)
      BY DEF InStep
    <2>. QED  BY <1>0, <2>1, TimersStep
  <1>9. /\ tRP \in Nat /\ tRP <= Cap /\ tRFC \in Nat /\ tRFC <= Cap
        /\ bank.pre \in Ages /\ bank.ref \in Ages
    BY <1>2, DramTimings DEF Banks
  <1>10. /\ tRP <= bank.pre => tRP <= Older(bank.pre)
         /\ tRFC <= bank.ref => tRFC <= Older(bank.ref)
    BY <1>9, OlderGrows
  <1>11. RequestHeld(s2)
    BY <1>7 DEF RequestHeld
  <1>12. CASE phase = "idle"
    <2>0. Closed(bank)
      BY <1>12 DEF InStep, BankAgrees
    <2>1. c.op = "NOP" /\ phase2 \in {"idle", "request"} /\ Closed(bank)
      BY <1>0, <1>7, <1>12, <2>0, MoveCases
    <2>2. Closed(bank2)
      BY <1>2, <1>3, <2>1, StaysClosed
    <2>3. s2.fsm = "REGULAR"
      BY <1>7, <1>12 DEF Requested
    <2>4. tRFC <= bank2.ref
      BY <1>5, <1>10, <1>12, <2>1 DEF InStep, PhaseAgrees
    <2>. QED  BY <1>7, <1>11, <2>1, <2>2, <2>3, <2>4 DEF BankAgrees, PhaseAgrees
  <1>13. CASE phase # "idle"
    <2>1. s2.fsm = "REFRESH"
      BY <1>7, <1>13 DEF Requested
    <2>2. /\ phase = "precharged" => ~bank.active
          /\ phase = "refreshed" => ~bank.active /\ tRP <= bank.pre
          /\ phase # "refreshed" => tRFC <= bank.ref
          /\ phase \in {"granted", "precharged", "refreshed"} => s.twtp.ready
      BY DEF InStep, PhaseAgrees
    <2>3. \/ phase2 = phase /\ c.op = "NOP"
          \/ phase = "request" /\ refresh_gnt(s) /\ phase2 = "granted" /\ c.op = "NOP"
          \/ phase = "granted" /\ phase2 = "precharged" /\ c.op = "PRE"
          \/ /\ phase = "precharged" /\ tRP <= bank.pre
             /\ \/ phase2 = "refreshed" /\ c.op = "REF"
                \/ phase2 = "idle" /\ c.op = "NOP"
                \/ phase2 = "idle" /\ c.op = "REF" /\ tRFC = 1
          \/ /\ phase = "refreshed" /\ tRFC <= Older(bank.ref)
             /\ phase2 \in {"idle", "granted"} /\ c.op = "NOP"
      BY <1>0, <1>7, <1>13, MoveCases
    <2>4. phase2 = "idle" => Closed(bank2)
      BY <1>5, <1>6, <1>10, <1>13, <2>2, <2>3 DEF Closed
    <2>5. BankAgrees(s2, bank2, phase2)
      BY <1>6, <1>7, <2>1, <2>4 DEF BankAgrees
    <2>6. phase2 \in {"granted", "precharged", "refreshed"} => s2.twtp.ready
      <3>1. phase2 \in {"granted", "precharged", "refreshed"} =>
               phase \in {"granted", "precharged", "refreshed"} \/ refresh_gnt(s)
        BY <1>13, <2>3
      <3>. QED  BY <1>8, <2>2, <3>1 DEF refresh_gnt
    <2>7. phase2 = "precharged" => ~bank2.active
      <3>1. phase2 = "precharged" => c.op = "PRE" \/ (phase = "precharged" /\ c.op = "NOP")
        BY <1>13, <2>3
      <3>. QED  BY <1>5, <2>2, <3>1
    <2>8. phase2 = "refreshed" => ~bank2.active /\ tRP <= bank2.pre
      <3>1. phase2 = "refreshed" =>
               \/ phase = "precharged" /\ tRP <= bank.pre /\ c.op = "REF"
               \/ phase = "refreshed" /\ c.op = "NOP"
        BY <1>13, <2>3
      <3>. QED  BY <1>5, <1>10, <2>2, <3>1
    <2>9. phase2 # "refreshed" => tRFC <= bank2.ref
      <3>1. phase2 # "refreshed" =>
               \/ c.op = "REF" /\ tRFC = 1
               \/ c.op # "REF" /\ (phase = "refreshed" => tRFC <= Older(bank.ref))
        BY <1>13, <2>3
      <3>. QED  BY <1>5, <1>10, <2>2, <3>1
    <2>10. PhaseAgrees(s2, bank2, phase2)
      BY <1>7, <2>1, <2>6, <2>7, <2>8, <2>9 DEF PhaseAgrees
    <2>. QED  BY <1>11, <2>5, <2>10
  <1>. QED  BY <1>12, <1>13

-----------------------------------------------------------------------------
(* The inductive invariant.                                                 *)

(* A clock edge keeps every register in its type.                           *)
LEMMA TypeStep ==
    ASSUME NEW s, NEW bank, NEW phase, NEW s2, NEW bank2, NEW phase2,
           InStep(s, bank, phase),
           NEW arriving \in MayArrive(s), NEW cmd_ready \in BOOLEAN,
           NEW move \in PhaseMoves(s, bank, phase),
           Clocked(s, bank, phase, arriving, cmd_ready, move, s2, bank2, phase2)
    PROVE  PairTyped(s2, bank2, phase2)
  <1> DEFINE g == Received(s, Requested(phase), cmd_ready, move[2])
             accepted == cmd_valid(s, Requested(phase)) /\ cmd_ready
             performed == Column(s, Requested(phase)) /\ cmd_ready
             next == FsmNext(s, Requested(phase), accepted)
  <1>1. /\ PairTyped(s, bank, phase) /\ BmTyped(s) /\ bank \in Banks
        /\ TimersAgree(s, bank) /\ RequestHeld(s)
        /\ s.fsm \in FsmStates /\ s.wait \in Nat /\ s.row \in Rows /\ s.row_opened \in BOOLEAN
    BY DEF InStep, PairTyped, BmTyped
  <1>2. move[1] \in RefreshPhases /\ move[2] \in Commands /\ g \in Commands
    BY <1>1, MoveCases, GivenCases
  <1>3. s2.fsm \in FsmStates /\ s2.wait \in Nat
    <2>1. s.fsm \in {"TRP", "TRCD"} => 1 <= s.wait
      BY DEF InStep, BankAgrees
    <2>2. tRP - 1 \in Nat /\ tRCD - 1 \in Nat
      BY DramTimings
    <2>3. \A d \in Nat, w, e \in FsmStates :
             DelayedEnter(w, e, d)[1] \in FsmStates /\ DelayedEnter(w, e, d)[2] \in Nat
      BY DEF DelayedEnter
    <2>4. next[1] \in FsmStates /\ next[2] \in Nat
      <3>1. CASE s.fsm = "REGULAR"
        BY <3>1 DEF FsmNext, FsmStates
      <3>2. CASE s.fsm = "PRECHARGE"
        <4>1. next \in {DelayedEnter("TRP", "ACTIVATE", tRP - 1), <<"PRECHARGE", 0>>}
          BY <3>2 DEF FsmNext
        <4>. QED  BY <2>2, <2>3, <4>1 DEF FsmStates
      <3>3. CASE s.fsm = "AUTOPRECHARGE"
        <4>1. next \in {DelayedEnter("TRP", "ACTIVATE", tRP - 1), <<"AUTOPRECHARGE", 0>>}
          BY <3>3 DEF FsmNext
        <4>. QED  BY <2>2, <2>3, <4>1 DEF FsmStates
      <3>4. CASE s.fsm = "ACTIVATE"
        <4>1. next \in {DelayedEnter("TRCD", "REGULAR", tRCD - 1), <<"ACTIVATE", 0>>}
          BY <3>4 DEF FsmNext
        <4>. QED  BY <2>2, <2>3, <4>1 DEF FsmStates
      <3>5. CASE s.fsm = "REFRESH"
        BY <3>5 DEF FsmNext, FsmStates
      <3>6. CASE s.fsm = "TRP"
        BY <1>1, <2>1, <3>6 DEF FsmNext, FsmStates
      <3>7. CASE s.fsm = "TRCD"
        BY <1>1, <2>1, <3>7 DEF FsmNext, FsmStates
      <3>. QED  BY <1>1, <3>1, <3>2, <3>3, <3>4, <3>5, <3>6, <3>7 DEF FsmStates
    <2>. QED  BY <2>4 DEF Clocked, BmNext
  <1>4. /\ s2.mem \in Seq(Requests) /\ s2.out \in Seq(Requests) /\ s2.cb \in Seq(Requests)
        /\ Len(s2.mem) <= cmd_buffer_depth /\ Len(s2.out) <= 1 /\ Len(s2.cb) <= 1
    <2>1. performed \in BOOLEAN
      BY DEF Column
    <2>2. /\ s2.mem = MemNext(s, arriving, performed)
          /\ s2.out = OutNext(s, performed) /\ s2.cb = CbNext(s, performed)
      BY DEF Clocked, BmNext
    <2>. QED  BY <1>1, <2>1, <2>2, BufferType
  <1>5. s2.row \in Rows
    <2>1. row_open(s) => s.cb # <<>>
      BY <1>1 DEF row_open, RequestHeld
    <2>2. s2.row = IF row_open(s) THEN s.cb[1].row ELSE s.row
      BY DEF Clocked, BmNext
    <2>. QED  BY <1>1, <2>1, <2>2, CbRow
  <1>6. s2.row_opened \in BOOLEAN
    <2>1. s2.row_opened = IF row_close(s) THEN FALSE
                           ELSE IF row_open(s) THEN TRUE ELSE s.row_opened
      BY DEF Clocked, BmNext
    <2>. QED  BY <1>1, <2>1
  <1>7. s2.twtp.ready \in BOOLEAN /\ s2.trc.ready \in BOOLEAN /\ s2.tras.ready \in BOOLEAN
    BY <1>1, TimersStep
  <1>8. bank2 \in Banks
    <2>1. bank2 = BankNext(bank, g)
      BY DEF Clocked
    <2>. QED  BY <1>1, <1>2, <2>1, DramRegisters
  <1>9. phase2 \in RefreshPhases
    BY <1>2 DEF Clocked, BmNext
  <1>. QED  BY <1>3, <1>4, <1>5, <1>6, <1>7, <1>8, <1>9 DEF PairTyped, BmTyped

(* At power-on the bank machine and its bank are in step.                   *)
LEMMA InitInStep == InStep(BmInit, BankInit, "idle")
  <1>1. /\ BankInit \in Banks /\ ~BankInit.active /\ ~BankInit.ap
        /\ BankInit.act = Cap /\ BankInit.pre = Cap /\ BankInit.wr = Cap /\ BankInit.ref = Cap
    BY RowsAssumption, DramTimings DEF BankInit, Banks, Ages
  <1>2. PairTyped(BmInit, BankInit, "idle")
    <2> DEFINE s == BmInit
    <2>1. (CHOOSE r \in Rows : TRUE) \in Rows
      BY RowsAssumption
    <2>2. /\ s.fsm = "REGULAR" /\ s.wait = 0
          /\ s.mem = <<>> /\ s.out = <<>> /\ s.cb = <<>>
          /\ s.row \in Rows
      BY <2>1 DEF BmInit
    <2>3. /\ s.row_opened \in BOOLEAN
          /\ s.twtp.ready \in BOOLEAN /\ s.trc.ready \in BOOLEAN /\ s.tras.ready \in BOOLEAN
      BY DEF BmInit, tXXDInit
    <2>4. cmd_buffer_depth \in Nat
      BY BufferAssumption
    <2> HIDE DEF s
    <2>5. <<>> \in Seq(Requests) /\ Len(<<>>) = 0
      OBVIOUS
    <2>6. s.mem \in Seq(Requests) /\ s.out \in Seq(Requests) /\ s.cb \in Seq(Requests)
      BY <2>2, <2>5
    <2>7. Len(s.mem) <= cmd_buffer_depth /\ Len(s.out) <= 1 /\ Len(s.cb) <= 1
      BY <2>2, <2>4, <2>5
    <2>8. BmTyped(s)
      BY <2>2, <2>3, <2>6, <2>7 DEF BmTyped, FsmStates
    <2>. QED  BY <1>1, <2>8 DEF PairTyped, RefreshPhases, s
  <1>3. TimersAgree(BmInit, BankInit)
    BY <1>1, DramTimings DEF TimersAgree, TimerAgrees
  <1>4. RequestHeld(BmInit)
    BY DEF BmInit, RequestHeld
  <1>5. PhaseAgrees(BmInit, BankInit, "idle")
    BY <1>1, DramTimings DEF PhaseAgrees
  <1>6. BankAgrees(BmInit, BankInit, "idle")
    BY <1>1, DramTimings DEF BmInit, BankAgrees, Closed
  <1>. QED  BY <1>2, <1>3, <1>4, <1>5, <1>6 DEF InStep

(* A clock edge keeps them in step.                                         *)
LEMMA EdgeStep ==
    ASSUME NEW s, NEW bank, NEW phase, NEW s2, NEW bank2, NEW phase2,
           InStep(s, bank, phase),
           NEW arriving \in MayArrive(s), NEW cmd_ready \in BOOLEAN,
           NEW move \in PhaseMoves(s, bank, phase),
           Clocked(s, bank, phase, arriving, cmd_ready, move, s2, bank2, phase2)
    PROVE  InStep(s2, bank2, phase2)
  <1>1. PairTyped(s, bank, phase) /\ s.fsm \in FsmStates /\ RequestHeld(s) /\ TimersAgree(s, bank)
    BY DEF InStep, PairTyped, BmTyped
  <1>2. PairTyped(s2, bank2, phase2)
    BY TypeStep
  <1>3. TimersAgree(s2, bank2)
    BY <1>1, TimersStep
  <1>4. s.fsm # "REFRESH" => PhaseAgrees(s2, bank2, phase2)
    BY QuietRefresher
  <1>5. s.fsm = "REGULAR" => RequestHeld(s2) /\ BankAgrees(s2, bank2, phase2)
    BY RegularStep
  <1>6. s.fsm = "PRECHARGE" => RequestHeld(s2) /\ BankAgrees(s2, bank2, phase2)
    BY PrechargeStep
  <1>7. s.fsm = "AUTOPRECHARGE" => RequestHeld(s2) /\ BankAgrees(s2, bank2, phase2)
    BY AutoPrechargeStep
  <1>8. s.fsm = "ACTIVATE" => RequestHeld(s2) /\ BankAgrees(s2, bank2, phase2)
    BY ActivateStep
  <1>9. s.fsm = "TRP" => RequestHeld(s2) /\ BankAgrees(s2, bank2, phase2)
    BY WaitTRPStep
  <1>10. s.fsm = "TRCD" => RequestHeld(s2) /\ BankAgrees(s2, bank2, phase2)
    BY WaitTRCDStep
  <1>11. s.fsm = "REFRESH" =>
            RequestHeld(s2) /\ BankAgrees(s2, bank2, phase2) /\ PhaseAgrees(s2, bank2, phase2)
    BY RefreshStep
  <1>12. RequestHeld(s2) /\ BankAgrees(s2, bank2, phase2) /\ PhaseAgrees(s2, bank2, phase2)
    BY <1>1, <1>4, <1>5, <1>6, <1>7, <1>8, <1>9, <1>10, <1>11, Zenon DEF FsmStates
  <1>. QED  BY <1>2, <1>3, <1>12 DEF InStep

(* The bank accepts whatever command its bank machine presents.             *)
LEMMA PresentedIsLegal ==
    ASSUME NEW s, NEW bank, NEW phase, InStep(s, bank, phase), NEW req
    PROVE  /\ Column(s, req) => LegalColumn(bank, s.cb[1].row)
           /\ cmd_precharge(s) => LegalPrecharge(bank)
           /\ cmd_activate(s) => LegalActivate(bank)
  <1>1. /\ bank \in Banks /\ s.twtp.ready \in BOOLEAN /\ s.tras.ready \in BOOLEAN
        /\ s.trc.ready \in BOOLEAN
    BY DEF InStep, PairTyped, BmTyped
  <1>2. /\ bank.wr \in Nat /\ bank.act \in Nat /\ tWTP \in Nat /\ tRC \in Nat /\ tRAS \in Nat
    BY <1>1, DramTimings DEF Banks, Ages
  <1>3. s.fsm # "REFRESH" => tRFC <= bank.ref
    BY DEF InStep, PhaseAgrees
  <1>4. ASSUME Column(s, req) PROVE LegalColumn(bank, s.cb[1].row)
    BY <1>4 DEF Column, row_hit, InStep, BankAgrees, LegalColumn, Open
  <1>5. ASSUME cmd_precharge(s) PROVE LegalPrecharge(bank)
    BY <1>2, <1>3, <1>5 DEF cmd_precharge, InStep, TimersAgree, TimerAgrees, LegalPrecharge,
                            PrechargeRecovered
  <1>6. ASSUME cmd_activate(s) PROVE LegalActivate(bank)
    BY <1>2, <1>3, <1>6 DEF cmd_activate, row_open, InStep, TimersAgree, TimerAgrees, BankAgrees,
                            LegalActivate
  <1>. QED  BY <1>4, <1>5, <1>6
=============================================================================
