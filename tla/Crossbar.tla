------------------------------ MODULE Crossbar ------------------------------
(***************************************************************************)
(* The crossbar of litedram/core/crossbar.py: it routes the commands of    *)
(* the masters to the banks, through one round-robin arbiter per bank, and *)
(* routes the data slots back to the masters through shift registers that  *)
(* match the latencies of the PHY.                                         *)
(*                                                                         *)
(* A bank machine is its request buffer, and performs the request in its   *)
(* cmd_buffer in any cycle: SingleBank shows that it does so in order, and *)
(* Controller that at most one bank does so in a cycle.  A command is      *)
(* [bank, we]: the bank is the slice of the address that m_ba extracts.    *)
(***************************************************************************)
EXTENDS RequestBuffer, RoundRobin, FiniteSets

CONSTANTS
    NMasters, NBanks,
    slot_read_latency, slot_write_latency,    \* of the data slots: the PHY's, plus one
    port_modes,          \* the mode of each port: which values of we it presents
    NoCmd           \* a master presents no command

CrossbarAssumption ==
    /\ NMasters \in Nat \ {0} /\ NBanks \in Nat \ {0}
    /\ port_modes \in [0..(NMasters - 1) -> SUBSET BOOLEAN]
    /\ slot_read_latency \in Nat \ {0} /\ slot_write_latency \in Nat \ {0}

Masters == 0..(NMasters - 1)
BankIds == 0..(NBanks - 1)
Cmds == [bank : BankIds, we : BOOLEAN]
NoCmdAssumption == NoCmd \notin Cmds

\* A request in a bank carries its master, which the code does not know.
Requests == [owner : Masters, we : BOOLEAN]

VARIABLES
    cmds,       \* the command each master presents, or NoCmd
    grants,     \* the grant of each bank's arbiter
    bufs,       \* the request buffers of the bank machines
    wslots,     \* shift register of wdata_ready, newest first
    rslots      \* shift register of rdata_valid, newest first

crossbar_vars == <<cmds, grants, bufs, wslots, rslots>>

\* A stage of a shift register: the masters whose bit is set, and the master
\* whose request the slot belongs to (NMasters: the slot is empty).
Slot == [bits : SUBSET Masters, owner : 0..NMasters]
EmptySlot == [bits |-> {}, owner |-> NMasters]

CrossbarTypeOK ==
    /\ cmds \in [Masters -> Cmds \cup {NoCmd}]
    /\ grants \in [BankIds -> Masters]
    /\ \A b \in BankIds :
          /\ \A i \in 1..Len(Pending(bufs[b])) : Pending(bufs[b])[i] \in Requests
          /\ Len(bufs[b].mem) <= cmd_buffer_depth /\ Len(bufs[b].out) <= 1 /\ Len(bufs[b].cb) <= 1
    /\ wslots \in [1..slot_write_latency -> Slot] /\ rslots \in [1..slot_read_latency -> Slot]

-----------------------------------------------------------------------------
(* Combinational signals.                                                   *)

cmd_valid(m) == cmds[m] # NoCmd

\* Mutant: locks are ignored.
lockedNever(m, b) == FALSE

\* Another bank holds master m.
locked(m, b) == \E other \in BankIds \ {b} : lock(bufs[other]) /\ grants[other] = m

bank_selected(m, b) == cmds[m].bank = b /\ ~locked(m, b)
bank_requested(b) == {m \in Masters : cmd_valid(m) /\ bank_selected(m, b)}
bank_valid(b) == grants[b] \in bank_requested(b)

\* Mutant: the arbiter waits for its granted master to ask.
arbiter_ceAsked(b) == bank_valid(b) /\ ~lock(bufs[b])

arbiter_ce(b) == ~bank_valid(b) /\ ~lock(bufs[b])

\* Bank b takes the command of its granted master.
Accepts(b) == bank_valid(b) /\ req_ready(bufs[b])

\* cmd.ready of a master that presents a command.
master_ready(m) == \E b \in BankIds : grants[b] = m /\ bank_selected(m, b) /\ req_ready(bufs[b])

\* wdata_ready and rdata_valid of the bank that performs in this cycle go to
\* the master that its arbiter grants.
DataSlot(p, we) ==
    IF p \in BankIds /\ bufs[p].cb[1].we = we
    THEN [bits |-> {grants[p]}, owner |-> bufs[p].cb[1].owner] ELSE EmptySlot

-----------------------------------------------------------------------------

CrossbarInit ==
    /\ cmds = [m \in Masters |-> NoCmd]
    /\ grants = [b \in BankIds |-> 0]
    /\ bufs = [b \in BankIds |-> EmptyBuffer]
    /\ wslots = [i \in 1..slot_write_latency |-> EmptySlot]
    /\ rslots = [i \in 1..slot_read_latency |-> EmptySlot]

Shift(slots, slot) == [i \in DOMAIN slots |-> IF i = 1 THEN slot ELSE slots[i - 1]]

\* A master holds its command until it is accepted, and may then present
\* another one at once.
MasterMoves ==
    {c \in [Masters -> Cmds \cup {NoCmd}] :
        \A m \in Masters : IF cmd_valid(m) /\ ~master_ready(m) THEN c[m] = cmds[m]
                            ELSE c[m] # NoCmd => c[m].we \in port_modes[m]}

\* The clock edge; p is the bank that performs a request, or NBanks.
CrossbarClock(p) ==
    /\ cmds' \in MasterMoves
    /\ grants' = [b \in BankIds |->
                    RoundRobinNext(NMasters, grants[b], bank_requested(b), arbiter_ce(b))]
    /\ bufs' = [b \in BankIds |->
                  LET arriving == IF Accepts(b)
                                  THEN <<[owner |-> grants[b], we |-> cmds[grants[b]].we]>> ELSE <<>>
                  IN  [mem |-> MemNext(bufs[b], arriving, p = b),
                       out |-> OutNext(bufs[b], p = b), cb |-> CbNext(bufs[b], p = b)]]
    /\ wslots' = Shift(wslots, DataSlot(p, TRUE))
    /\ rslots' = Shift(rslots, DataSlot(p, FALSE))

\* A cycle in which no bank performs a request, and one in which bank p does.
Idle == CrossbarClock(NBanks)
Perform(p) == bufs[p].cb # <<>> /\ CrossbarClock(p)

CrossbarNext == Idle \/ \E p \in BankIds : Perform(p)

CrossbarSpec == CrossbarInit /\ [][CrossbarNext]_crossbar_vars

\* The clock does not stop while it has something to change in the circuit
\* (masters are free to stay silent), and the controller performs what it has
\* accepted (RequestsServed of Controller).  Several requests wait and one is
\* performed at a time, hence strong fairness.
circuit == <<grants, bufs, wslots, rslots>>
CrossbarFairSpec == CrossbarSpec /\ WF_circuit(CrossbarNext) /\ \A p \in BankIds : SF_bufs(Perform(p))

-----------------------------------------------------------------------------
\* The masters a slot is shown to are the master whose request it belongs to.
SlotsOwned ==
    /\ \A i \in 1..slot_write_latency : wslots[i].owner # NMasters => wslots[i].bits = {wslots[i].owner}
    /\ \A i \in 1..slot_read_latency : rslots[i].owner # NMasters => rslots[i].bits = {rslots[i].owner}

\* Everything pending in a bank belongs to the master its arbiter grants.
GrantHeldWhilePending ==
    \A b \in BankIds : \A i \in 1..Len(Pending(bufs[b])) : Pending(bufs[b])[i].owner = grants[b]

(* wdata.ready and rdata.valid reach exactly the master whose request the   *)
(* slot belongs to, although the crossbar does not remember masters: the    *)
(* grant at the time the bank performs the request decides, cycles after    *)
(* the request was accepted.  Otherwise read data is given to another       *)
(* master, or another master's write data is written.  It comes about       *)
(* because lock keeps the arbiter at a master that has requests in the bank *)
(* until the last of them is performed.                                     *)
SlotsReachOwner == SlotsOwned /\ GrantHeldWhilePending

(* A master never has requests pending in two banks, so that its requests   *)
(* are performed in the order it issued them, whatever the banks are doing. *)
OneBankPerMaster ==
    \A m \in Masters : Cardinality({b \in BankIds :
        \E i \in 1..Len(Pending(bufs[b])) : Pending(bufs[b])[i].owner = m}) <= 1

(* No command is left behind by a stale grant or lock: once the other       *)
(* masters stop asking, a command that is presented is accepted.            *)
NoCommandStuck ==
    \A m \in Masters :
        <>[](\A o \in Masters \ {m} : ~cmd_valid(o)) =>
            (cmd_valid(m) ~> (~cmd_valid(m) \/ master_ready(m)))

-----------------------------------------------------------------------------
(* What makes the safety properties inductive: everything inside a bank     *)
(* belongs to the master its arbiter grants, and no master holds two banks. *)
(* It needs the output of the FIFO to show a request at once, which it does *)
(* unless cmd_buffer_buffered.                                              *)

Owned(m) == [owner : {m}, we : BOOLEAN]

BuffersOwned ==
    /\ DOMAIN bufs = BankIds
    /\ \A b \in BankIds :
          bufs[b] \in [mem : Seq(Owned(grants[b])), out : {<<>>}, cb : Seq(Owned(grants[b]))]

OneBankHeld == \A b, c \in BankIds : lock(bufs[b]) /\ lock(bufs[c]) /\ grants[b] = grants[c] => b = c

CrossbarIInv == CrossbarTypeOK /\ BuffersOwned /\ OneBankHeld /\ SlotsOwned
=============================================================================
