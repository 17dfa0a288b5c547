------------------------------ MODULE DramBank ------------------------------
(***************************************************************************)
(* One bank of the DRAM, as litedram/phy/model.py sees it: BankModel keeps *)
(* the open row, DFITimingsChecker keeps when each command last arrived    *)
(* and lists the minimum delay between two commands.  An age is the number *)
(* of controller cycles since the command was last given to the bank.      *)
(* Auto-precharge (a column command with A10 set) is behaviour of the DRAM *)
(* itself: it precharges the bank as soon as tRAS and the write recovery   *)
(* allow.                                                                  *)
(***************************************************************************)
EXTENDS Naturals

CONSTANTS
    Rows,       \* row addresses
    tRP,        \* precharge to activate or refresh
    tRCD,       \* activate to column command
    tRAS,       \* activate to precharge (0: no constraint)
    tRC,        \* activate to activate (0: no constraint)
    tWTP,       \* write command to precharge: latency, burst and recovery
    tRFC,       \* refresh to activate or precharge
    Cap         \* ages saturate here: a bound of the model, above every timing

ASSUME DramTimings ==
    /\ tRP \in Nat \ {0} /\ tRCD \in Nat \ {0}
    /\ tRAS \in Nat /\ tRC \in Nat /\ tWTP \in Nat \ {0} /\ tRFC \in Nat \ {0}
    /\ Cap \in Nat
    /\ tRP <= Cap /\ tRCD <= Cap /\ tRAS <= Cap /\ tRC <= Cap /\ tWTP <= Cap /\ tRFC <= Cap

ASSUME RowsAssumption == Rows # {}

Ops == {"NOP", "ACT", "PRE", "RD", "WR", "REF"}

\* What reaches the bank in a cycle; a10 is auto-precharge on RD and WR.
Commands == [op : Ops, row : Rows, a10 : BOOLEAN]

Nop == [op |-> "NOP", row |-> CHOOSE r \in Rows : TRUE, a10 |-> FALSE]

Ages == 1..Cap

Banks == [active : BOOLEAN, row : Rows, ap : BOOLEAN,
          act : Ages, pre : Ages, wr : Ages, ref : Ages]

BankInit ==
    [active |-> FALSE, row |-> CHOOSE r \in Rows : TRUE, ap |-> FALSE,
     act |-> Cap, pre |-> Cap, wr |-> Cap, ref |-> Cap]

Older(age) == IF age < Cap THEN age + 1 ELSE Cap

\* The DRAM starts the precharge that a column command with A10 asked for.
SelfPrecharge(bank) == bank.ap /\ tRAS <= bank.act /\ tWTP <= bank.wr

BankNext(bank, cmd) ==
    LET closes == cmd.op = "PRE" \/ SelfPrecharge(bank)
    IN  [active |-> IF closes THEN FALSE ELSE IF cmd.op = "ACT" THEN TRUE ELSE bank.active,
         row    |-> IF ~closes /\ cmd.op = "ACT" THEN cmd.row ELSE bank.row,
         ap     |-> IF closes THEN FALSE
                    ELSE IF cmd.op \in {"RD", "WR"} THEN cmd.a10 ELSE bank.ap,
         act    |-> IF cmd.op = "ACT" THEN 1 ELSE Older(bank.act),
         pre    |-> IF closes THEN 1 ELSE Older(bank.pre),
         wr     |-> IF cmd.op = "WR" THEN 1 ELSE Older(bank.wr),
         ref    |-> IF cmd.op = "REF" THEN 1 ELSE Older(bank.ref)]

-----------------------------------------------------------------------------
(* What the bank accepts.  The delays are the rows of                       *)
(* DFITimingsChecker.RULES, checked against the last command of each kind   *)
(* rather than only against the last command.                               *)

Closed(bank) == ~bank.active /\ ~bank.ap /\ tRP <= bank.pre
Open(bank, row) == bank.active /\ ~bank.ap /\ bank.row = row /\ tRCD <= bank.act

LegalActivate(bank) == Closed(bank) /\ tRC <= bank.act /\ tRFC <= bank.ref
LegalColumn(bank, row) == Open(bank, row)
LegalRefresh(bank) == Closed(bank) /\ tRFC <= bank.ref
PrechargeRecovered(bank) == tWTP <= bank.wr /\ tRFC <= bank.ref
LegalPrecharge(bank) == PrechargeRecovered(bank) /\ (bank.active => tRAS <= bank.act)
=============================================================================
