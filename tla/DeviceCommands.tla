--------------------------- MODULE DeviceCommands ---------------------------
(* The command pins of LPDDR4 and LPDDR5: what the controller puts on the     *)
(* phases of the DFI, and what the device takes from the pins.                *)
EXTENDS DeviceSpacing, LpddrCommands

CONSTANTS
    StreamPhases,       \* the clocks that are looked at
    StreamCommands,     \* the commands in them
    OverlapChecks       \* values of extended_overlaps_check

-----------------------------------------------------------------------------
(* The commands: each kind, with no bit of the address and the bank set, with *)
(* each alone, and with all.                                                  *)
Patterns(width) == {0} \cup {2^k : k \in 0..(width - 1)} \cup {2^width - 1}
Dfi(kind, a, ba) == [pins |-> DfiPins[kind], a |-> a, ba |-> ba]
RowBits == [LPDDR4 |-> 17, LPDDR5 |-> 18]
Words(memtype) ==
    {Dfi(kind, a, 0) : kind \in {"ACT", "RD", "WR", "PRE", "REF"}, a \in Patterns(RowBits[memtype])}
    \cup {Dfi(kind, 2^RowBits[memtype] - 1, ba) : kind \in {"ACT", "RD", "WR", "PRE"}, ba \in Patterns(3)}
    \cup {Dfi("MRS", a, ba) : a \in Patterns(8), ba \in {0, 1, 32, 63}}
    \cup {Dfi("ZQC", a, SpecialCmd.MPC) : a \in {0, ZQC_START4, ZQC_LATCH4, ZQC_LATCH5}}
Stream == {Dfi("ACT", 2^17 - 1, 7), Dfi("WR", 0, 0), Dfi("PRE", 2^10, 0)}
Awake == [Device EXCEPT !.fsm = "NORMAL"]

(* now counts phases; a stream begins in the last phase of a cycle.  last is  *)
(* the CS and CA of the clock before, ahead those already decided, due what   *)
(* the device should have seen and when.                                      *)
CommandsInit ==
    \/ \E extended \in OverlapChecks, masked \in BOOLEAN, single \in Words("LPDDR4") \cup {<<>>} :
           dev = [ memtype |-> "LPDDR4", extended |-> extended, masked |-> masked, single |-> single, issued |-> 0,
                   now |-> NPhases - 1, valids |-> [k \in 1..(NPhases - 1) |-> FALSE],
                   ahead |-> <<>>, last |-> Idle4, device |-> Awake, due |-> <<>> ]
    \/ \E masked \in BOOLEAN, single \in Words("LPDDR5") \cup {<<>>} :
           dev = [ memtype |-> "LPDDR5", masked |-> masked, single |-> single, issued |-> 0,
                   now |-> NPhases - 1, ahead |-> <<>>, device |-> Awake, due |-> <<>> ]
Offered ==
    IF dev.single # <<>> THEN IF dev.issued = 0 THEN {dev.single} ELSE {<<>>}
    ELSE {<<>>} \cup (IF dev.issued < StreamCommands THEN Stream ELSE {})

(* LPDDR4: a phase of the pipeline is a clock of the pins.                    *)
Phase4(d) ==
    LET valids == Append(dev.valids, d # <<>>)
        taken == d # <<>> /\ allowed(dev.valids, dev.extended)
        slots == IF taken THEN Slots4(d, dev.masked) ELSE <<Idle4>>
        pins == [k \in 1..Max({Len(slots), Len(dev.ahead)}) |->
                    CASE k > Len(slots) -> dev.ahead[k]
                      [] k > Len(dev.ahead) -> slots[k]
                      [] OTHER -> Merge(dev.ahead[k], slots[k])]
        falls == dev.last.cs = 1 /\ pins[1].cs = 0
    IN dev' = [dev EXCEPT
         !.issued = IF d # <<>> THEN @ + 1 ELSE @, !.now = @ + 1,
         !.valids = Remembered(valids), !.ahead = Tail(pins), !.last = pins[1],
         !.device = IF falls THEN Take4(@, dev.last.ca, pins[1].ca) ELSE [@ EXCEPT !.seen = <<>>],
         !.due = SelectSeq(@, LAMBDA x : x[1] > dev.now)
                 \o (IF taken THEN <<<<dev.now + 4, Meant4(d, dev.masked)>>>> ELSE <<>>)]
(* LPDDR5: the first word leaves at once, the second is buffered; a command   *)
(* that comes just after another is ignored.  wck_sync_done is any.           *)
Clock5(d) ==
    \E wck_sync_done \in IF d = <<>> THEN {TRUE} ELSE BOOLEAN :
      LET buffered == dev.ahead # <<>>
          taken == d # <<>> /\ ~buffered
          words == IF taken THEN Words5(d, dev.masked, wck_sync(d, wck_sync_done)) ELSE <<<<>>, <<>>>>
          word == IF buffered THEN dev.ahead[1] ELSE words[1]
      IN dev' = [dev EXCEPT
           !.issued = IF d # <<>> THEN @ + 1 ELSE @, !.now = @ + 1,
           !.ahead = IF taken THEN <<words[2]>> ELSE <<>>,
           !.device = IF word = <<>> THEN [@ EXCEPT !.seen = <<>>] ELSE Take5(@, word[1], word[2]),
           !.due = SelectSeq(@, LAMBDA x : x[1] > dev.now)
                   \o (IF taken THEN <<<<dev.now + 2, Meant5(d, dev.masked)>>>> ELSE <<>>)]
CommandsNext ==
    /\ dev.now < NPhases - 1 + StreamPhases
    /\ \E d \in Offered : IF dev.memtype = "LPDDR4" THEN Phase4(d) ELSE Clock5(d)

-----------------------------------------------------------------------------
(* Whatever arrives on the phases, what the PHY passes on reaches the device  *)
(* in time, as the command and the address it was, and the device neither     *)
(* sees a command that nobody sent nor a word out of turn.                    *)
CommandsReachDevice ==
    LET now == {k \in DOMAIN dev.due : dev.due[k][1] = dev.now}
    IN /\ ~dev.device.error
       /\ dev.device.seen = IF now = {} THEN <<>> ELSE dev.due[CHOOSE k \in now : TRUE][2]
=============================================================================
