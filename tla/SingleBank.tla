----------------------------- MODULE SingleBank -----------------------------
(***************************************************************************)
(* One bank machine clocked against one bank of the DRAM.  Its environment *)
(* is as free as the code allows: requests arrive whenever the lookahead   *)
(* FIFO has room, the multiplexer accepts a presented command in any       *)
(* cycle, and the refresher asks for a refresh at any time, keeps asking   *)
(* until it has been granted, and then precharges and refreshes the bank.  *)
(***************************************************************************)
EXTENDS BankMachine

CONSTANT NoAccess       \* no access in the last cycle
ASSUME NoAccessAssumption == NoAccess \notin Requests

VARIABLES
    bm,         \* registers of the bank machine
    bank,       \* the DRAM bank
    refresh,    \* where the refresher is; it requests unless "idle"
    access      \* the access the DRAM performed in the last cycle, or NoAccess

vars == <<bm, bank, refresh, access>>

refresh_req == Requested(refresh)

TypeOK ==
    /\ PairTyped(bm, bank, refresh)
    /\ access \in Requests \cup {NoAccess}

Init ==
    /\ bm = BmInit
    /\ bank = BankInit
    /\ refresh = "idle"
    /\ access = NoAccess

-----------------------------------------------------------------------------
RefresherMoves == PhaseMoves(bm, bank, refresh)
Arrivals == MayArrive(bm)
Given(cmd_ready, fromRefresher) == Received(bm, refresh_req, cmd_ready, fromRefresher)

\* The access the DRAM performs, on the row that is open in the DRAM.
Performed(given) ==
    IF given.op \in {"RD", "WR"}
    THEN [we |-> IF given.op = "WR" THEN TRUE ELSE FALSE, row |-> bank.row]
    ELSE NoAccess

Clock(arriving, cmd_ready, move) ==
    /\ bm' = BmNext(bm, refresh_req, arriving, cmd_ready)
    /\ bank' = BankNext(bank, Given(cmd_ready, move[2]))
    /\ refresh' = move[1]
    /\ access' = Performed(Given(cmd_ready, move[2]))

Edge ==
    \E arriving \in Arrivals, cmd_ready \in BOOLEAN, move \in RefresherMoves :
        Clock(arriving, cmd_ready, move)

\* One action per state of the FSM.
Regular == bm.fsm = "REGULAR" /\ Edge
Precharge == bm.fsm = "PRECHARGE" /\ Edge
AutoPrecharge == bm.fsm = "AUTOPRECHARGE" /\ Edge
Activate == bm.fsm = "ACTIVATE" /\ Edge
Refresh == bm.fsm = "REFRESH" /\ Edge
WaitTRP == bm.fsm = "TRP" /\ Edge
WaitTRCD == bm.fsm = "TRCD" /\ Edge

Next ==
    \/ Regular \/ Precharge \/ AutoPrecharge \/ Activate
    \/ Refresh \/ WaitTRP \/ WaitTRCD

Spec == Init /\ [][Next]_vars

-----------------------------------------------------------------------------
(* Every command the bank machine presents is one the DRAM bank accepts in  *)
(* that cycle: it activates a closed and precharged bank, accesses the row  *)
(* that is really open, and precharges after tRAS and the write recovery.   *)
(* BankMachine keeps no copy of the DRAM's state, only row tracking, three  *)
(* timers and the waiting states, which refreshes and self-precharges pass  *)
(* by.                                                                      *)
CommandsLegal ==
    /\ Column(bm, refresh_req) => LegalColumn(bank, bm.cb[1].row)
    /\ cmd_precharge(bm) => LegalPrecharge(bank)
    /\ cmd_activate(bm) => LegalActivate(bank)

(* The FSM never opens or closes a row on behalf of a request that is not   *)
(* there: in PRECHARGE, TRP, ACTIVATE and the rest of the row cycle         *)
(* cmd_buffer still holds the request the cycle was started for, so the row *)
(* address on the bus is defined.                                           *)
RowCycleHasRequest == RequestHeld(bm)

(* A refresh is granted only when the bank machine is quiet and the last    *)
(* write has recovered, and the refresh and the precharge before it find    *)
(* the bank in a state that allows them.                                    *)
RefreshGrantSafe ==
    /\ refresh \in {"granted", "precharged", "refreshed"} =>
          bm.fsm = "REFRESH" /\ ~cmd_valid(bm, TRUE) /\ ~bm.row_opened
    /\ refresh = "granted" => PrechargeRecovered(bank)
    /\ refresh = "precharged" /\ tRP <= bank.pre => LegalRefresh(bank)

(* The bank machine implements RequestQueue: accepted requests are          *)
(* performed by the DRAM in order, once each, on the right row.             *)
Queue == INSTANCE RequestQueue WITH queue <- Pending(bm), access <- access, Idle <- NoAccess
InOrder == Queue!Spec

\* What makes the safety properties inductive.
IInv == TypeOK /\ InStep(bm, bank, refresh)
=============================================================================
