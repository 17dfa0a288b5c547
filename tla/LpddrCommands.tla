---------------------------- MODULE LpddrCommands ----------------------------
(* How LPDDR4, LPDDR5 and RPC receive commands: the adapters that translate a *)
(* DFI phase into words on the command pins (litedram/phy/lpddr4, lpddr5 and  *)
(* rpc: commands.py), and the devices of the simulators that take the words   *)
(* apart again (sim.py).  A DFI command d is the pins it drives, without the  *)
(* chip select, an address and a bank address; a word is a sequence of bits,  *)
(* the lowest first.                                                          *)
EXTENDS InitSequence

BitsOf(val, lo, n) == [k \in 1..n |-> bit(lo + k - 1, val)]
Value(bits) == MapThenSumSet(LAMBDA k : bits[k] * 2^(k - 1), DOMAIN bits)
DfiPins == [ACT |-> {"ras"}, RD |-> {"cas"}, WR |-> {"cas", "we"}, PRE |-> {"ras", "we"}, REF |-> {"cas", "ras"},
            ZQC |-> {"we"}, MRS |-> {"cas", "ras", "we"}]

-----------------------------------------------------------------------------
(* LPDDR4.  Command.TRUTH_TABLE: the words with CS high and with CS low.      *)
Command4(cmd, d) ==
    LET A(lo, n) == BitsOf(d.a, lo, n)
        BA(n) == BitsOf(d.ba, 0, n)
    IN CASE cmd = "MRW-1" -> <<<<0, 1, 1, 0, 0>> \o A(7, 1), BA(6)>>
         [] cmd = "MRW-2" -> <<<<0, 1, 1, 0, 1>> \o A(6, 1), A(0, 6)>>
         [] cmd = "MRR-1" -> <<<<0, 1, 1, 1, 0, 0>>, A(0, 6)>>
         [] cmd = "REFRESH" -> <<<<0, 0, 0, 1, 0>> \o A(10, 1), BA(3) \o <<0, 0, 0>>>>
         [] cmd = "ACTIVATE-1" -> <<<<1, 0>> \o A(12, 4), BA(3) \o A(16, 1) \o A(10, 2)>>
         [] cmd = "ACTIVATE-2" -> <<<<1, 1>> \o A(6, 4), A(0, 6)>>
         [] cmd = "WRITE-1" -> <<<<0, 0, 1, 0, 0, 0>>, BA(3) \o <<0>> \o A(9, 2)>>
         [] cmd = "MASK WRITE-1" -> <<<<0, 0, 1, 1, 0, 0>>, BA(3) \o <<0>> \o A(9, 2)>>
         [] cmd = "READ-1" -> <<<<0, 1, 0, 0, 0, 0>>, BA(3) \o <<0>> \o A(9, 2)>>
         [] cmd = "CAS-2" -> <<<<0, 1, 0, 0, 1>> \o A(8, 1), A(2, 6)>>
         [] cmd = "PRECHARGE" -> <<<<0, 0, 0, 0, 1>> \o A(10, 1), BA(3) \o <<0, 0, 0>>>>
         [] cmd = "MPC" -> <<<<0, 0, 0, 0, 0>> \o A(6, 1), A(0, 6)>>
(* DFIPhaseAdapter: the two small commands; <<>> for a phase without one.     *)
Adapter4(d, masked_write) ==
    CASE d.pins = DfiPins.ACT -> <<"ACTIVATE-1", "ACTIVATE-2">>
      [] d.pins = DfiPins.RD -> <<"READ-1", "CAS-2">>
      [] d.pins = DfiPins.WR -> <<IF masked_write THEN "MASK WRITE-1" ELSE "WRITE-1", "CAS-2">>
      [] d.pins = DfiPins.PRE -> <<"DESELECT", "PRECHARGE">>
      [] d.pins = DfiPins.REF -> <<"DESELECT", "REFRESH">>
      [] d.pins = DfiPins.ZQC /\ d.ba = SpecialCmd.MPC -> <<"DESELECT", "MPC">>
      [] d.pins = DfiPins.ZQC /\ d.ba = SpecialCmd.MRR -> <<"MRR-1", "CAS-2">>
      [] d.pins = DfiPins.MRS -> <<"MRW-1", "MRW-2">>
      [] OTHER -> <<>>
\* The CS and CA of the clocks a command takes.
Idle4 == [cs |-> 0, ca |-> <<0, 0, 0, 0, 0, 0>>]
Slots4(d, masked_write) ==
    FlattenSeq([k \in 1..2 |->
        LET cmd == Adapter4(d, masked_write)[k]
        IN IF cmd = "DESELECT" THEN <<Idle4, Idle4>>
           ELSE <<[cs |-> 1, ca |-> Command4(cmd, d)[1]], [cs |-> 0, ca |-> Command4(cmd, d)[2]]>>])

(* CommandsSim: a device takes a command where CS falls.  half says for the   *)
(* commands of two words what their first word was, seen the command it last  *)
(* took, and error what it complains about.                                   *)
NoHalf == [kind |-> "none"]
Device == [half |-> [mrw |-> NoHalf, act |-> NoHalf, cas |-> NoHalf], seen |-> <<>>, error |-> FALSE,
           mr |-> [m \in {} |-> 0], fsm |-> "RESET"]
Take4(s, hi, lo) ==
    LET Is(word) == SubSeq(hi, 1, Len(word)) = word
        bank == Value(SubSeq(lo, 1, 3))
        first(h, word) == s.half[h] = NoHalf /\ Is(word)
        second(h, word) == s.half[h] # NoHalf /\ Is(word)
        columns == [WR |-> <<0, 0, 1, 0, 0>>, MWR |-> <<0, 0, 1, 1, 0>>, RD |-> <<0, 1, 0, 0, 0>>]
        cas1 == {k \in DOMAIN columns : first("cas", columns[k])}
        mrw2 == second("mrw", <<0, 1, 1, 0, 1>>)
        half == [ mrw |-> IF first("mrw", <<0, 1, 1, 0, 0>>) THEN [kind |-> "MRW", ma |-> Value(lo), op7 |-> hi[6]] ELSE NoHalf,
                  act |-> IF first("act", <<1, 0>>)
                          THEN [kind |-> "ACT", bank |-> bank, row1 |-> SubSeq(lo, 5, 6) \o SubSeq(hi, 3, 6) \o <<lo[4]>>]
                          ELSE NoHalf,
                  cas |-> IF cas1 # {}
                          THEN [kind |-> CHOOSE k \in cas1 : TRUE, bank |-> bank, col9 |-> lo[5], ap |-> lo[6]] ELSE NoHalf ]
        op == lo \o <<hi[6], s.half.mrw.op7>>
        seen == CASE mrw2 -> <<"MRW", s.half.mrw.ma, Value(op)>>
                  [] second("act", <<1, 1>>) ->
                        <<"ACT", s.half.act.bank, Value(lo \o SubSeq(hi, 3, 6) \o s.half.act.row1)>>
                  [] second("cas", <<0, 1, 0, 0, 1>>) ->
                        <<s.half.cas.kind, s.half.cas.bank, Value(<<0, 0>> \o lo \o <<hi[6], s.half.cas.col9>>), s.half.cas.ap>>
                  [] Is(<<0, 0, 0, 1, 0>>) -> <<"REF">>
                  [] Is(<<0, 0, 0, 0, 1>>) -> <<"PRE", IF hi[6] = 1 THEN 8 ELSE bank>>
                  [] Is(<<0, 0, 0, 0, 0>>) -> <<"MPC", IF hi[6] = 0 THEN 0 ELSE Value(lo \o <<hi[6]>>)>>
                  [] OTHER -> <<>>
        broken == \E h \in DOMAIN half : /\ s.half[h] # NoHalf
                                         /\ ~Is([mrw |-> <<0, 1, 1, 0, 1>>, act |-> <<1, 1>>, cas |-> <<0, 1, 0, 0, 1>>][h])
    IN [s EXCEPT !.half = half, !.seen = seen,
                 !.error = @ \/ broken \/ (seen = <<>> /\ \A h \in DOMAIN half : half[h] = NoHalf),
                 !.mr = IF mrw2 THEN s.half.mrw.ma :> Value(op) @@ @ ELSE @]

(* The states a device of the simulator goes through to be initialised.       *)
Enabled4(s) == s.fsm \in {"MRW", "ZQC", "NORMAL"}
Fsm4(s, reset_n, cke) ==
    CASE ~reset_n -> "RESET"
      [] s.fsm = "RESET" /\ reset_n /\ cke -> "MRW"
      [] s.fsm = "MRW" /\ s.seen = <<"MPC", ZQC_START4>> -> "ZQC"
      [] s.fsm = "ZQC" /\ s.seen = <<"MPC", ZQC_LATCH4>> -> "NORMAL"
      [] OTHER -> s.fsm
\* Only the mode registers are written before the calibration.
OutOfTurn4(s) == \/ s.fsm = "MRW" /\ s.seen # <<>> /\ s.seen[1] # "MRW" /\ s.seen # <<"MPC", ZQC_START4>>
                 \/ s.fsm = "ZQC" /\ s.seen # <<>> /\ s.seen # <<"MPC", ZQC_LATCH4>>

\* What the device should see of a DFI command.
Meant4(d, masked_write) ==
    LET kind == CHOOSE k \in DOMAIN DfiPins : DfiPins[k] = d.pins
        column == <<d.ba % 8, field(d.a, 2, 8) * 4, bit(10, d.a)>>
    IN CASE kind = "ACT" -> <<"ACT", d.ba % 8, d.a>>
         [] kind = "RD" -> <<"RD">> \o column
         [] kind = "WR" -> <<IF masked_write THEN "MWR" ELSE "WR">> \o column
         [] kind = "PRE" -> <<"PRE", IF bit(10, d.a) = 1 THEN 8 ELSE d.ba % 8>>
         [] kind = "REF" -> <<"REF">>
         [] kind = "ZQC" -> <<"MPC", IF bit(6, d.a) = 0 THEN 0 ELSE field(d.a, 0, 7)>>
         [] kind = "MRS" -> <<"MRW", d.ba, field(d.a, 0, 8)>>

-----------------------------------------------------------------------------
(* CommandsPipeline: nphases commands in a cycle, each of which takes span    *)
(* phases.  valids says which phases of the last and of this cycle held a     *)
(* command.                                                                   *)
NPhases == 8
n_previous == 3
\* Mutant: a phase less is looked at.
allowedShort(valids, extended) == \A k \in (Len(valids) - n_previous + 2)..Len(valids) : ~valids[k]
allowed(valids, extended) ==
    LET sent[k \in 1..Len(valids)] == valids[k] /\ \A j \in 1..(k - 1) : j >= k - n_previous => ~sent[j]
    IN \A k \in Max({1, Len(valids) - n_previous + 1})..Len(valids) : IF extended THEN ~sent[k] ELSE ~valids[k]
Remembered(valids) == IF Len(valids) = 2 * NPhases THEN SubSeq(valids, NPhases + 1, 2 * NPhases) ELSE valids

\* Words that meet on the pins are merged.
Or(x, y) == IF x = 1 \/ y = 1 THEN 1 ELSE 0
Merge(x, y) == [cs |-> Or(x.cs, y.cs), ca |-> [k \in DOMAIN x.ca |-> Or(x.ca[k], y.ca[k])]]

-----------------------------------------------------------------------------
(* LPDDR5: the words of the rising and of the falling edge of a clock in      *)
(* which CS is high.  sync is the synchronisation of WCK that a CAS asks for. *)
WCKSyncType == [none |-> 0, WR |-> 1, RD |-> 2, FS |-> 3]
Command5(cmd, d, sync) ==
    LET A(lo, n) == BitsOf(d.a, lo, n)
        BA(n) == BitsOf(d.ba, 0, n)
        C(lo, n) == A(lo + 4, n)
        op == IF cmd = "MPC" /\ d.a = 0 THEN ZQC_LATCH5 ELSE d.a
        Is(s) == <<IF sync = s THEN 1 ELSE 0>>
        column == BA(4) \o C(1, 2) \o A(10, 1)
    IN CASE cmd = "NOP" -> <<<<0, 0, 0, 0, 0, 0, 0>>, <<0, 0, 0, 0, 0, 0, 0>>>>
         [] cmd = "ACT-1" -> <<<<1, 1, 1>> \o A(14, 4), BA(4) \o A(11, 3)>>
         [] cmd = "ACT-2" -> <<<<1, 1, 0>> \o A(7, 4), A(0, 7)>>
         [] cmd = "PRE" -> <<<<0, 0, 0, 1, 1, 1, 1>>, BA(4) \o <<0, 0>> \o A(10, 1)>>
         [] cmd = "REF" -> <<<<0, 0, 0, 1, 1, 1, 0>>, BA(3) \o <<0, 0, 0>> \o A(10, 1)>>
         [] cmd = "MWR" -> <<<<0, 1, 0>> \o C(0, 1) \o C(3, 3), column>>
         [] cmd = "WR16" -> <<<<0, 1, 1>> \o C(0, 1) \o C(3, 3), column>>
         [] cmd = "RD16" -> <<<<1, 0, 0>> \o C(0, 1) \o C(3, 3), column>>
         [] cmd = "CAS" -> <<<<0, 0, 1, 1>> \o Is(WCKSyncType.WR) \o Is(WCKSyncType.RD) \o Is(WCKSyncType.FS),
                             <<0, 0, 0, 0, 0, 0, 0>>>>
         [] cmd = "MPC" -> <<<<0, 0, 0, 0, 1, 1>> \o BitsOf(op, 7, 1), BitsOf(op, 0, 7)>>
         [] cmd = "MRW-1" -> <<<<0, 0, 0, 1, 1, 0, 1>>, BA(7)>>
         [] cmd = "MRW-2" -> <<<<0, 0, 0, 1, 0, 0>> \o A(7, 1), A(0, 7)>>
         [] cmd = "MRR" -> <<<<0, 0, 0, 1, 1, 0, 0>>, A(0, 7)>>
Adapter5(d, masked_write) ==
    CASE d.pins = DfiPins.ACT -> <<"ACT-1", "ACT-2">>
      [] d.pins = DfiPins.RD -> <<"CAS", "RD16">>
      [] d.pins = DfiPins.WR -> <<"CAS", IF masked_write THEN "MWR" ELSE "WR16">>
      [] d.pins = DfiPins.PRE -> <<"DES", "PRE">>
      [] d.pins = DfiPins.REF -> <<"DES", "REF">>
      [] d.pins = DfiPins.ZQC /\ d.ba = SpecialCmd.MPC -> <<"DES", "MPC">>
      [] d.pins = DfiPins.ZQC /\ d.ba = SpecialCmd.MRR -> <<"CAS", "MRR">>
      [] d.pins = DfiPins.ZQC /\ d.ba = SpecialCmd.NOP -> <<"DES", "NOP">>
      [] d.pins = DfiPins.MRS -> <<"MRW-1", "MRW-2">>
      [] OTHER -> <<>>
\* The synchronisation that goes with a command while WCK is off.
wck_sync(d, wck_sync_done) ==
    CASE wck_sync_done -> WCKSyncType.none
      [] d.pins = DfiPins.WR -> WCKSyncType.WR
      [] d.pins = DfiPins.RD \/ (d.pins = DfiPins.ZQC /\ d.ba = SpecialCmd.MRR) -> WCKSyncType.RD
      [] OTHER -> WCKSyncType.none
Words5(d, masked_write, sync) ==
    [k \in 1..2 |-> LET cmd == Adapter5(d, masked_write)[k]
                    IN IF cmd = "DES" THEN <<>> ELSE Command5(cmd, d, sync)]

\* ca_p and ca_n are the words of a clock in which CS was high.
Take5(s, p, n) ==
    LET Is(word) == SubSeq(p, 1, Len(word)) = word
        first(h, word) == s.half[h] = NoHalf /\ Is(word)
        second(h, word) == s.half[h] # NoHalf /\ Is(word)
        bank == Value(SubSeq(n, 1, 4))
        columns == [MWR |-> <<0, 1, 0>>, WR |-> <<0, 1, 1>>, WR32 |-> <<0, 0, 1, 0>>, RD |-> <<1, 0, 0>>, RD32 |-> <<1, 0, 1>>]
        data == {k \in DOMAIN columns : Is(columns[k])}
        mrw2 == second("mrw", <<0, 0, 0, 1, 0, 0>>)
        half == [s.half EXCEPT
                    !.mrw = IF first("mrw", <<0, 0, 0, 1, 1, 0, 1>>) THEN [kind |-> "MRW", ma |-> Value(n)] ELSE NoHalf,
                    !.act = IF first("act", <<1, 1, 1>>)
                            THEN [kind |-> "ACT", bank |-> bank, row |-> SubSeq(n, 5, 7) \o SubSeq(p, 4, 7)] ELSE NoHalf]
        cas == Is(<<0, 0, 1, 1>>)
        seen == CASE mrw2 -> <<"MRW", s.half.mrw.ma, Value(n \o <<p[7]>>)>>
                  [] second("act", <<1, 1, 0>>) -> <<"ACT", s.half.act.bank, Value(n \o SubSeq(p, 4, 7) \o s.half.act.row)>>
                  [] data # {} -> <<CHOOSE k \in data : TRUE, bank,
                                    Value(<<p[4], n[5], n[6], p[5], p[6], p[7]>>), n[7]>>
                  [] Is(<<0, 0, 0, 1, 1, 1, 0>>) -> <<"REF">>
                  [] Is(<<0, 0, 0, 1, 1, 1, 1>>) -> <<"PRE", IF n[7] = 1 THEN 16 ELSE bank>>
                  [] Is(<<0, 0, 0, 0, 1, 1>>) -> <<"MPC", Value(n \o <<p[7]>>)>>
                  [] OTHER -> <<>>
        broken == \/ s.half.mrw # NoHalf /\ ~mrw2
                  \/ s.half.act # NoHalf /\ ~Is(<<1, 1, 0>>)
    IN [s EXCEPT !.half = half, !.seen = seen,
                 !.error = @ \/ broken \/ (cas /\ p[5] + p[6] + p[7] > 1)
                             \/ (seen = <<>> /\ ~cas /\ half.mrw = NoHalf /\ half.act = NoHalf),
                 !.mr = IF mrw2 THEN s.half.mrw.ma :> Value(n \o <<p[7]>>) @@ @ ELSE @]
Meant5(d, masked_write) ==
    LET kind == CHOOSE k \in DOMAIN DfiPins : DfiPins[k] = d.pins
        column == <<d.ba % 16, field(d.a, 4, 6), bit(10, d.a)>>
    IN CASE kind = "ACT" -> <<"ACT", d.ba % 16, d.a>>
         [] kind = "RD" -> <<"RD">> \o column
         [] kind = "WR" -> <<IF masked_write THEN "MWR" ELSE "WR">> \o column
         [] kind = "PRE" -> <<"PRE", IF bit(10, d.a) = 1 THEN 16 ELSE d.ba % 16>>
         [] kind = "REF" -> <<"REF">>
         [] kind = "ZQC" -> <<"MPC", IF d.a = 0 THEN ZQC_LATCH5 ELSE field(d.a, 0, 8)>>
         [] kind = "MRS" -> <<"MRW", d.ba, field(d.a, 0, 8)>>

(* A device is woken up by a NOP before it takes commands.                    *)
Enabled5(s) == s.fsm \in {"MODE-REGS", "NORMAL"}
Fsm5(s, reset_n, nop) ==
    CASE ~reset_n -> "RESET"
      [] s.fsm = "RESET" -> "WAIT-NOP"
      [] s.fsm = "WAIT-NOP" /\ nop -> "MODE-REGS"
      [] s.fsm = "MODE-REGS" /\ s.seen = <<"MPC", ZQC_LATCH5>> -> "NORMAL"
      [] OTHER -> s.fsm
OutOfTurn5(s) == s.fsm = "MODE-REGS" /\ s.seen # <<>> /\ s.seen[1] # "MRW" /\ s.seen # <<"MPC", ZQC_LATCH5>>
\* ModeRegisters: the latencies a device is set to, WL of set A and RL of set 0.
WlLPDDR5(mr) == (IF bit(7, mr[18]) = 1 THEN <<4, 4, 6, 8, 8, 10>> ELSE <<2, 2, 3, 4, 4, 5, 6, 6, 7, 8, 9, 9>>)
                [field(mr[1], 4, 4) + 1]
RlLPDDR5(mr) == (IF bit(7, mr[18]) = 1 THEN <<6, 8, 10, 12, 16, 18>> ELSE <<3, 4, 5, 6, 8, 9, 10, 12, 13, 15, 16, 17>>)
                [field(mr[2], 0, 4) + 1]

-----------------------------------------------------------------------------
(* RPC: a packet on the DB pins, by its fields: op is db_p[2:0], n0 is        *)
(* db_n[0].  special is reset_n low, which gives some commands other          *)
(* meanings.                                                                  *)
AdapterRpc(d, special) ==
    LET bk == IF bit(10, d.a) = 1 THEN 15 ELSE 2^(d.ba % 4)
        Packet(op, n0, rest) == [op |-> op, n0 |-> n0, fields |-> rest]
        zqc_op == IF special THEN (IF bit(10, d.a) = 1 THEN 0 ELSE 3) ELSE (IF bit(10, d.a) = 1 THEN 1 ELSE 2)
        column == <<d.ba % 4, field(d.a, 4, 3), field(d.a, 7, 3)>>
    IN CASE d.pins = DfiPins.ACT /\ special -> Packet(0, 1, <<>>)
         [] d.pins = DfiPins.MRS /\ special -> Packet(7, 0, <<bit(0, d.a), field(d.a, 1, 2)>>)
         [] d.pins = DfiPins.ACT /\ ~special -> Packet(5, 0, <<d.ba % 4, field(d.a, 0, 12)>>)
         [] d.pins = DfiPins.RD -> Packet(0, 0, column)
         [] d.pins = DfiPins.WR -> Packet(1, 0, column)
         [] d.pins = DfiPins.PRE -> Packet(4, 0, <<bk>>)
         [] d.pins = DfiPins.REF -> Packet(6, 0, <<bk>>)
         [] d.pins = DfiPins.ZQC -> Packet(1, 1, <<zqc_op>>)
         [] d.pins = DfiPins.MRS /\ ~special ->
              Packet(2, 0, <<field(d.a, 0, 3), 0, field(d.a, 3, 4), field(d.a, 7, 3), bit(0, d.ba), bit(10, d.a), bit(1, d.ba)>>)
is_cmdRpc(d, special, kind) ==
    CASE kind = "RESET" -> special /\ d.pins = DfiPins.ACT
      [] kind = "UTR" -> special /\ d.pins = DfiPins.MRS
      [] kind = "ZQC_INIT" -> special /\ d.pins = DfiPins.ZQC
      [] OTHER -> d.pins = DfiPins[kind]
(* The reset FSM of the PHY lets pass what its state allows.  The waits are   *)
(* over before the next step of the software, which waits as long.            *)
FsmRpc(fsm, d, special) ==
    CASE fsm = "IDLE" /\ is_cmdRpc(d, special, "RESET") -> "RESET_DONE"
      [] fsm = "RESET_DONE" /\ is_cmdRpc(d, special, "ZQC_INIT") -> "READY"
      [] OTHER -> fsm
PassedRpc(fsm, d, special) ==
    CASE fsm = "IDLE" -> is_cmdRpc(d, special, "RESET")
      [] fsm = "RESET_DONE" -> \E k \in {"PRE", "MRS", "ZQC_INIT"} : is_cmdRpc(d, special, k)
      [] fsm = "READY" -> TRUE
=============================================================================
