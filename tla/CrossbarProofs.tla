---------------------------- MODULE CrossbarProofs ----------------------------
(***************************************************************************)
(* Proofs about the crossbar, for any number of masters and banks, every   *)
(* depth of the buffers and every latency: the grant of a bank stays with  *)
(* the master whose requests are in it, so that its data slots reach it,   *)
(* and no master has requests in two banks.                                *)
(*                                                                         *)
(* And about the addresses it gives to the banks, for every geometry: the  *)
(* address of a port is taken apart into a block of a bank, the bank and a *)
(* place in the block; block and place together are taken apart again into *)
(* row and column; and no quotient or remainder loses what the next one    *)
(* needs.                                                                  *)
(***************************************************************************)
EXTENDS Crossbar, AddressMapping, FiniteSetTheorems, WellFoundedInduction, TLAPS

\* What is assumed of the constants: the FIFO is not buffered, the default.
Assumptions == CrossbarAssumption /\ NoCmdAssumption /\ cmd_buffer_buffered = FALSE

-----------------------------------------------------------------------------
(* The arbiter.                                                             *)

(* A set of natural numbers that is not empty has a least element.          *)
LEMMA LeastElement ==
    ASSUME NEW S \in SUBSET Nat, S # {}
    PROVE  \E m \in S : \A n \in S : m <= n
  <1>1. PICK m \in S : \A n \in S : <<n, m>> \notin OpToRel(<, Nat)
    BY WFMin, NatLessThanWellFounded, Zenon
  <1>2. \A n \in S : ~(n < m)
    BY <1>1, Zenon DEF OpToRel
  <1>3. \A n \in S : n \in Nat /\ m \in Nat
    OBVIOUS
  <1>. QED  BY <1>2, <1>3

(* The round-robin arbiter grants one of the masters, and keeps its grant   *)
(* while it is not enabled.                                                 *)
LEMMA ArbiterGrants ==
    ASSUME NEW n \in Nat \ {0}, NEW grant \in 0..(n - 1), NEW requests \in SUBSET (0..(n - 1)),
           NEW ce \in BOOLEAN
    PROVE  /\ RoundRobinNext(n, grant, requests, ce) \in 0..(n - 1)
           /\ ~ce => RoundRobinNext(n, grant, requests, ce) = grant
  <1> DEFINE others == requests \ {grant}
             distances == {Distance(grant, u, n) : u \in others}
  <1>1. CASE ~ce \/ others = {}
    BY <1>1 DEF RoundRobinNext
  <1>2. CASE ce /\ others # {}
    <2>1. \A u \in others : Distance(grant, u, n) \in Nat
      BY DEF Distance
    <2>2. distances \in SUBSET Nat /\ distances # {}
      BY <1>2, <2>1
    <2>3. PICK d \in distances : \A e \in distances : d <= e
      BY <2>2, LeastElement
    <2>4. \E t \in others : \A u \in others : Distance(grant, t, n) <= Distance(grant, u, n)
      BY <2>3
    <2>5. (CHOOSE t \in others : \A u \in others : Distance(grant, t, n) <= Distance(grant, u, n)) \in others
      BY <2>4
    <2>6. RoundRobinNext(n, grant, requests, ce) \in others
      BY <1>2, <2>5, Zenon DEF RoundRobinNext
    <2>. QED  BY <1>2, <2>6
  <1>. QED  BY <1>1, <1>2

-----------------------------------------------------------------------------
(* The request buffer of a bank.                                            *)

(* First takes at most one request, the head of a queue that has one.       *)
LEMMA FirstType ==
    ASSUME NEW S, NEW q \in Seq(S)
    PROVE  First(q) \in Seq(S) /\ Len(First(q)) <= 1 /\ (q = <<>> => First(q) = <<>>)
  <1>1. CASE q = <<>>
    BY <1>1 DEF First
  <1>2. CASE q # <<>>
    <2>1. Head(q) \in S /\ First(q) = <<Head(q)>>
      BY <1>2 DEF First
    <2>. QED  BY <1>2, <2>1
  <1>. QED  BY <1>1, <1>2

(* After a clock edge the buffer holds what it held and what arrived, and   *)
(* something only if it held something or a request arrived.                *)
LEMMA BufferStep ==
    ASSUME ~cmd_buffer_buffered,
           NEW S, NEW s \in [mem : Seq(S), out : {<<>>}, cb : Seq(S)],
           Len(s.mem) <= cmd_buffer_depth, Len(s.cb) <= 1,
           NEW arriving \in Seq(S), Len(arriving) <= 1,
           arriving # <<>> => req_ready(s),
           NEW performed \in BOOLEAN
    PROVE  LET next == [mem |-> MemNext(s, arriving, performed), out |-> OutNext(s, performed),
                        cb |-> CbNext(s, performed)]
           IN  /\ next \in [mem : Seq(S), out : {<<>>}, cb : Seq(S)]
               /\ Len(next.mem) <= cmd_buffer_depth /\ Len(next.cb) <= 1
               /\ lock(next) => lock(s) \/ arriving # <<>>
  <1> DEFINE kept == IF MemTaken(s, performed) THEN Tail(s.mem) ELSE s.mem
             mem2 == MemNext(s, arriving, performed)
             cb2 == CbNext(s, performed)
  <1>1. s.mem \in Seq(S) /\ s.cb \in Seq(S) /\ s.out = <<>> /\ cmd_buffer_depth \in Nat
    BY BufferAssumption
  <1>2. kept \in Seq(S) /\ Len(kept) <= Len(s.mem) /\ mem2 = kept \o arriving
        /\ (s.mem = <<>> => kept = <<>>)
    <2>1. CASE MemTaken(s, performed)
      <3>1. s.mem # <<>>
        BY <2>1 DEF MemTaken
      <3>2. Tail(s.mem) \in Seq(S) /\ Len(Tail(s.mem)) <= Len(s.mem)
        BY <1>1, <3>1
      <3>. QED  BY <2>1, <3>1, <3>2 DEF MemNext
    <2>2. CASE ~MemTaken(s, performed)
      BY <1>1, <2>2 DEF MemNext
    <2>. QED  BY <2>1, <2>2
  <1> HIDE DEF kept, mem2
  <1>3. mem2 \in Seq(S) /\ Len(mem2) = Len(kept) + Len(arriving)
    BY <1>2
  <1>4. Len(mem2) <= cmd_buffer_depth
    <2>1. CASE arriving = <<>>
      BY <1>1, <1>2, <1>3, <2>1
    <2>2. CASE arriving # <<>>
      <3>1. Len(s.mem) < cmd_buffer_depth
        BY <2>2 DEF req_ready
      <3>2. Len(arriving) \in Nat /\ Len(kept) \in Nat /\ Len(s.mem) \in Nat
        BY <1>1, <1>2
      <3>. QED  BY <1>1, <1>2, <1>3, <3>1, <3>2
    <2>. QED  BY <2>1, <2>2
  <1>5. cb2 \in Seq(S) /\ Len(cb2) <= 1 /\ (s.cb = <<>> /\ s.mem = <<>> => cb2 = <<>>)
    BY <1>1, FirstType DEF CbNext, lookahead
  <1>6. OutNext(s, performed) = <<>>
    BY <1>1 DEF OutNext
  <1>7. s.mem = <<>> /\ arriving = <<>> => mem2 = <<>>
    BY <1>2
  <1> DEFINE next == [mem |-> mem2, out |-> OutNext(s, performed), cb |-> cb2]
  <1>8. next \in [mem : Seq(S), out : {<<>>}, cb : Seq(S)] /\ next.mem = mem2 /\ next.cb = cb2
    BY <1>3, <1>5, <1>6
  <1>9. lock(next) => lock(s) \/ arriving # <<>>
    BY <1>5, <1>7, <1>8 DEF lock, lookahead
  <1>. QED  BY <1>4, <1>5, <1>8, <1>9 DEF mem2

-----------------------------------------------------------------------------
(* A clock edge; p is the bank that performs a request, or NBanks.          *)

(* A bank that holds or accepts requests keeps its grant.                   *)
LEMMA GrantsStep ==
    ASSUME Assumptions, CrossbarTypeOK, NEW p, CrossbarClock(p)
    PROVE  /\ grants' \in [BankIds -> Masters]
           /\ \A b \in BankIds : lock(bufs[b]) \/ Accepts(b) => grants'[b] = grants[b]
  <1>1. NMasters \in Nat \ {0} /\ grants \in [BankIds -> Masters]
    BY DEF Assumptions, CrossbarAssumption, CrossbarTypeOK
  <1>2. ASSUME NEW b \in BankIds
        PROVE  /\ RoundRobinNext(NMasters, grants[b], bank_requested(b), arbiter_ce(b)) \in Masters
               /\ ~arbiter_ce(b) =>
                     RoundRobinNext(NMasters, grants[b], bank_requested(b), arbiter_ce(b)) = grants[b]
    <2>1. /\ grants[b] \in 0..(NMasters - 1) /\ bank_requested(b) \in SUBSET (0..(NMasters - 1))
          /\ arbiter_ce(b) \in BOOLEAN
      BY <1>1 DEF bank_requested, arbiter_ce, Masters
    <2>. QED  BY <1>1, <2>1, ArbiterGrants DEF Masters
  <1>3. grants' = [b \in BankIds |->
                     RoundRobinNext(NMasters, grants[b], bank_requested(b), arbiter_ce(b))]
    BY DEF CrossbarClock
  <1>4. \A b \in BankIds : lock(bufs[b]) \/ Accepts(b) => ~arbiter_ce(b)
    BY DEF arbiter_ce, Accepts
  <1>. QED  BY <1>2, <1>3, <1>4

(* The commands of the masters keep their type.                             *)
LEMMA CmdsStep ==
    ASSUME NEW p, CrossbarClock(p)
    PROVE  cmds' \in [Masters -> Cmds \cup {NoCmd}]
  BY DEF CrossbarClock, MasterMoves

(* The buffers after a clock edge: what is in them belongs to the granted   *)
(* master, and there is something only where there was, or where a command  *)
(* was accepted.                                                            *)
LEMMA BuffersStep ==
    ASSUME Assumptions, CrossbarTypeOK, BuffersOwned, NEW p, CrossbarClock(p)
    PROVE  /\ BuffersOwned'
           /\ \A b \in BankIds : /\ Len(bufs'[b].mem) <= cmd_buffer_depth /\ Len(bufs'[b].cb) <= 1
                                 /\ lock(bufs'[b]) => lock(bufs[b]) \/ Accepts(b)
  <1> DEFINE arriving(b) == IF Accepts(b)
                            THEN <<[owner |-> grants[b], we |-> cmds[grants[b]].we]>> ELSE <<>>
  <1>1. /\ DOMAIN bufs' = BankIds
        /\ \A b \in BankIds : bufs'[b] = [mem |-> MemNext(bufs[b], arriving(b), p = b),
                                          out |-> OutNext(bufs[b], p = b), cb |-> CbNext(bufs[b], p = b)]
    BY DEF CrossbarClock
  <1>2. /\ grants' \in [BankIds -> Masters]
        /\ \A b \in BankIds : lock(bufs[b]) \/ Accepts(b) => grants'[b] = grants[b]
    BY GrantsStep
  <1>3. ASSUME NEW b \in BankIds
        PROVE  /\ bufs'[b] \in [mem : Seq(Owned(grants'[b])), out : {<<>>}, cb : Seq(Owned(grants'[b]))]
               /\ Len(bufs'[b].mem) <= cmd_buffer_depth /\ Len(bufs'[b].cb) <= 1
               /\ lock(bufs'[b]) => lock(bufs[b]) \/ Accepts(b)
    <2>1. /\ bufs[b] \in [mem : Seq(Owned(grants[b])), out : {<<>>}, cb : Seq(Owned(grants[b]))]
          /\ Len(bufs[b].mem) <= cmd_buffer_depth /\ Len(bufs[b].cb) <= 1
          /\ cmd_buffer_buffered = FALSE
      BY DEF BuffersOwned, CrossbarTypeOK, Assumptions
    <2>2. /\ arriving(b) \in Seq(Owned(grants[b])) /\ Len(arriving(b)) <= 1
          /\ arriving(b) # <<>> => Accepts(b) /\ req_ready(bufs[b])
      <3>1. CASE Accepts(b)
        <4>1. cmds[grants[b]] \in Cmds /\ req_ready(bufs[b])
          BY <3>1 DEF Accepts, bank_valid, bank_requested, cmd_valid, CrossbarTypeOK
        <4>2. [owner |-> grants[b], we |-> cmds[grants[b]].we] \in Owned(grants[b])
          BY <4>1 DEF Cmds, Owned
        <4>. QED  BY <3>1, <4>1, <4>2
      <3>2. CASE ~Accepts(b)
        BY <3>2
      <3>. QED  BY <3>1, <3>2
    <2>3. PICK performed \in BOOLEAN :
                bufs'[b] = [mem |-> MemNext(bufs[b], arriving(b), performed),
                            out |-> OutNext(bufs[b], performed), cb |-> CbNext(bufs[b], performed)]
      BY <1>1, Zenon
    <2> HIDE DEF arriving
    <2>4. /\ bufs'[b] \in [mem : Seq(Owned(grants[b])), out : {<<>>}, cb : Seq(Owned(grants[b]))]
          /\ Len(bufs'[b].mem) <= cmd_buffer_depth /\ Len(bufs'[b].cb) <= 1
          /\ lock(bufs'[b]) => lock(bufs[b]) \/ arriving(b) # <<>>
      BY <2>1, <2>2, <2>3, BufferStep
    <2>5. CASE lock(bufs'[b])
      BY <1>2, <2>2, <2>4, <2>5
    <2>6. CASE ~lock(bufs'[b])
      <3>1. bufs'[b].mem = <<>> /\ bufs'[b].cb = <<>>
        BY <2>1, <2>4, <2>6 DEF lock, lookahead
      <3>2. bufs'[b] = [mem |-> <<>>, out |-> <<>>, cb |-> <<>>]
        BY <2>4, <3>1
      <3>. QED  BY <2>4, <2>6, <3>2
    <2>. QED  BY <2>5, <2>6
  <1>. QED  BY <1>1, <1>3 DEF BuffersOwned

(* A command is accepted by the bank it is for, and only if its master      *)
(* holds no other bank.                                                     *)
LEMMA HeldStep ==
    ASSUME Assumptions, CrossbarTypeOK, BuffersOwned, OneBankHeld, NEW p, CrossbarClock(p)
    PROVE  OneBankHeld'
  <1> SUFFICES ASSUME NEW b \in BankIds, NEW c \in BankIds,
                      lock(bufs'[b]), lock(bufs'[c]), grants'[b] = grants'[c]
               PROVE  b = c
    BY DEF OneBankHeld, lock, lookahead
  <1>1. /\ lock(bufs[b]) \/ Accepts(b)
        /\ lock(bufs[c]) \/ Accepts(c)
    BY BuffersStep
  <1>2. grants[b] = grants[c]
    BY <1>1, GrantsStep
  <1>3. CASE lock(bufs[b]) /\ lock(bufs[c])
    BY <1>2, <1>3 DEF OneBankHeld
  <1>4. CASE Accepts(b)
    <2>1. cmds[grants[b]].bank = b /\ ~locked(grants[b], b)
      BY <1>4 DEF Accepts, bank_valid, bank_requested, bank_selected
    <2>2. CASE lock(bufs[c])
      BY <1>2, <2>1, <2>2 DEF locked
    <2>3. CASE Accepts(c)
      BY <1>2, <2>1, <2>3 DEF Accepts, bank_valid, bank_requested, bank_selected
    <2>. QED  BY <1>1, <2>2, <2>3
  <1>5. CASE Accepts(c)
    <2>1. cmds[grants[c]].bank = c /\ ~locked(grants[c], c)
      BY <1>5 DEF Accepts, bank_valid, bank_requested, bank_selected
    <2>2. CASE lock(bufs[b])
      BY <1>2, <2>1, <2>2 DEF locked
    <2>3. CASE Accepts(b)
      BY <1>2, <2>1, <2>3 DEF Accepts, bank_valid, bank_requested, bank_selected
    <2>. QED  BY <1>1, <2>2, <2>3
  <1>. QED  BY <1>1, <1>3, <1>4, <1>5

\* A slot that is not empty goes to the master whose request it belongs to.
ToOwner(slot) == slot.owner # NMasters => slot.bits = {slot.owner}

(* A slot of the performed request is given to its master.                  *)
LEMMA SlotGiven ==
    ASSUME Assumptions, CrossbarTypeOK, BuffersOwned, NEW p,
           p \in BankIds => bufs[p].cb # <<>>, NEW we \in BOOLEAN
    PROVE  /\ DataSlot(p, we) \in Slot
           /\ ToOwner(DataSlot(p, we))
  <1>1. NMasters \in Nat \ {0}
    BY DEF Assumptions, CrossbarAssumption
  <1>2. CASE p \in BankIds /\ bufs[p].cb[1].we = we
    <2>1. bufs[p].cb \in Seq(Owned(grants[p])) /\ grants[p] \in Masters
      BY <1>2 DEF BuffersOwned, CrossbarTypeOK
    <2>2. bufs[p].cb[1] \in Owned(grants[p])
      BY <1>2, <2>1
    <2>3. bufs[p].cb[1].owner = grants[p]
      BY <2>2 DEF Owned
    <2>4. DataSlot(p, we) = [bits |-> {grants[p]}, owner |-> grants[p]]
      BY <1>2, <2>3, Zenon DEF DataSlot
    <2>. QED  BY <1>1, <2>1, <2>4 DEF Slot, Masters, ToOwner
  <1>3. CASE ~(p \in BankIds /\ bufs[p].cb[1].we = we)
    <2>1. DataSlot(p, we) = EmptySlot
      BY <1>3, Zenon DEF DataSlot
    <2>. QED  BY <1>1, <2>1 DEF Slot, EmptySlot, ToOwner
  <1>. QED  BY <1>2, <1>3

(* A shift register moves its slots on.                                     *)
LEMMA ShiftStep ==
    ASSUME NEW n \in Nat \ {0}, NEW slots \in [1..n -> Slot], NEW slot \in Slot,
           \A i \in 1..n : ToOwner(slots[i]), ToOwner(slot)
    PROVE  /\ Shift(slots, slot) \in [1..n -> Slot]
           /\ \A i \in 1..n : ToOwner(Shift(slots, slot)[i])
  <1>1. Shift(slots, slot) = [i \in 1..n |-> IF i = 1 THEN slot ELSE slots[i - 1]]
    BY DEF Shift
  <1>2. \A i \in 1..n : i # 1 => i - 1 \in 1..n
    OBVIOUS
  <1>. QED  BY <1>1, <1>2

(* The strengthening is kept by every step.                                 *)
LEMMA ClockIInv ==
    ASSUME Assumptions, CrossbarIInv, NEW p, p \in BankIds => bufs[p].cb # <<>>, CrossbarClock(p)
    PROVE  CrossbarIInv'
  <1>1. CrossbarTypeOK /\ BuffersOwned /\ OneBankHeld /\ SlotsOwned
        /\ slot_write_latency \in Nat \ {0} /\ slot_read_latency \in Nat \ {0}
    BY DEF CrossbarIInv, Assumptions, CrossbarAssumption
  <1>2. BuffersOwned' /\ OneBankHeld'
    BY <1>1, BuffersStep, HeldStep
  <1>3. /\ wslots' = Shift(wslots, DataSlot(p, TRUE)) /\ rslots' = Shift(rslots, DataSlot(p, FALSE))
        /\ wslots \in [1..slot_write_latency -> Slot] /\ rslots \in [1..slot_read_latency -> Slot]
    BY <1>1 DEF CrossbarClock, CrossbarTypeOK
  <1>8. /\ \A i \in 1..slot_write_latency : ToOwner(wslots[i])
        /\ \A i \in 1..slot_read_latency : ToOwner(rslots[i])
    BY <1>1 DEF SlotsOwned, ToOwner
  <1>4. /\ wslots' \in [1..slot_write_latency -> Slot]
        /\ \A i \in 1..slot_write_latency : ToOwner(wslots'[i])
    <2>1. PICK slot : slot = DataSlot(p, TRUE)
      OBVIOUS
    <2>2. slot \in Slot /\ ToOwner(slot)
      BY <1>1, <2>1, TRUE \in BOOLEAN, SlotGiven, Zenon
    <2>3. wslots' = Shift(wslots, slot) /\ wslots \in [1..slot_write_latency -> Slot]
      BY <1>3, <2>1
    <2>4. Shift(wslots, slot) \in [1..slot_write_latency -> Slot]
      BY <1>1, <1>8, <2>2, <2>3, ShiftStep
    <2>5. \A i \in 1..slot_write_latency : ToOwner(Shift(wslots, slot)[i])
      BY <1>1, <1>8, <2>2, <2>3, ShiftStep
    <2>. QED  BY <2>3, <2>4, <2>5
  <1>5. /\ rslots' \in [1..slot_read_latency -> Slot]
        /\ \A i \in 1..slot_read_latency : ToOwner(rslots'[i])
    <2>1. PICK slot : slot = DataSlot(p, FALSE)
      OBVIOUS
    <2>2. slot \in Slot /\ ToOwner(slot)
      BY <1>1, <2>1, FALSE \in BOOLEAN, SlotGiven, Zenon
    <2>3. rslots' = Shift(rslots, slot) /\ rslots \in [1..slot_read_latency -> Slot]
      BY <1>3, <2>1
    <2>4. Shift(rslots, slot) \in [1..slot_read_latency -> Slot]
      BY <1>1, <1>8, <2>2, <2>3, ShiftStep
    <2>5. \A i \in 1..slot_read_latency : ToOwner(Shift(rslots, slot)[i])
      BY <1>1, <1>8, <2>2, <2>3, ShiftStep
    <2>. QED  BY <2>3, <2>4, <2>5
  <1>6. ASSUME NEW b \in BankIds
        PROVE  /\ \A i \in 1..Len(Pending(bufs'[b])) : Pending(bufs'[b])[i] \in Requests
               /\ Len(bufs'[b].mem) <= cmd_buffer_depth /\ Len(bufs'[b].out) <= 1 /\ Len(bufs'[b].cb) <= 1
    <2>1. /\ bufs'[b] \in [mem : Seq(Owned(grants'[b])), out : {<<>>}, cb : Seq(Owned(grants'[b]))]
          /\ Len(bufs'[b].mem) <= cmd_buffer_depth /\ Len(bufs'[b].cb) <= 1
          /\ grants'[b] \in Masters
      BY <1>1, <1>2, BuffersStep, GrantsStep DEF BuffersOwned
    <2>2. Owned(grants'[b]) \in SUBSET Requests
      BY <2>1 DEF Owned, Requests
    <2>3. PICK S : S = Owned(grants'[b])
      OBVIOUS
    <2>4. bufs'[b].mem \in Seq(S) /\ bufs'[b].cb \in Seq(S) /\ bufs'[b].out = <<>>
      BY <2>1, <2>3
    <2>5. bufs'[b].out \in Seq(S)
      BY <2>4
    <2>6. Pending(bufs'[b]) \in Seq(S)
      BY <2>4, <2>5 DEF Pending
    <2>. QED  BY <2>1, <2>2, <2>3, <2>4, <2>6
  <1>7. CrossbarTypeOK'
    BY <1>1, <1>4, <1>5, <1>6, CmdsStep, GrantsStep DEF CrossbarTypeOK
  <1>. QED  BY <1>2, <1>4, <1>5, <1>7 DEF CrossbarIInv, SlotsOwned, ToOwner

-----------------------------------------------------------------------------
(* The theorems.                                                            *)

(* Initially the buffers and the slots are empty.                           *)
LEMMA InitIInv == Assumptions /\ CrossbarInit => CrossbarIInv
  <1> SUFFICES ASSUME Assumptions, CrossbarInit PROVE CrossbarIInv
    OBVIOUS
  <1>1. NMasters \in Nat \ {0} /\ slot_write_latency \in Nat \ {0} /\ slot_read_latency \in Nat \ {0}
        /\ cmd_buffer_depth \in Nat
    BY BufferAssumption DEF Assumptions, CrossbarAssumption
  <1>2. \A b \in BankIds : bufs[b] = [mem |-> <<>>, out |-> <<>>, cb |-> <<>>]
    BY DEF CrossbarInit, EmptyBuffer
  <1>3. grants \in [BankIds -> Masters] /\ cmds \in [Masters -> Cmds \cup {NoCmd}]
    BY <1>1 DEF CrossbarInit, Masters
  <1>4. EmptySlot \in Slot /\ EmptySlot.owner = NMasters
    BY <1>1 DEF Slot, EmptySlot
  <1>5. /\ wslots \in [1..slot_write_latency -> Slot] /\ rslots \in [1..slot_read_latency -> Slot]
        /\ SlotsOwned
    BY <1>4 DEF CrossbarInit, SlotsOwned
  <1>6. BuffersOwned
    <2>1. DOMAIN bufs = BankIds
      BY DEF CrossbarInit
    <2>2. ASSUME NEW S
          PROVE  [mem |-> <<>>, out |-> <<>>, cb |-> <<>>] \in [mem : Seq(S), out : {<<>>}, cb : Seq(S)]
      OBVIOUS
    <2>. QED  BY <1>2, <2>1, <2>2 DEF BuffersOwned
  <1>7. \A b \in BankIds : ~lock(bufs[b])
    BY <1>2 DEF lock, lookahead
  <1>8. ASSUME NEW b \in BankIds
        PROVE  /\ Pending(bufs[b]) = <<>> /\ Len(bufs[b].mem) <= cmd_buffer_depth
               /\ Len(bufs[b].out) <= 1 /\ Len(bufs[b].cb) <= 1
    BY <1>1, <1>2 DEF Pending
  <1>9. \A i \in 1..Len(<<>>) : FALSE
    OBVIOUS
  <1>10. CrossbarTypeOK
    BY <1>3, <1>5, <1>8, <1>9 DEF CrossbarTypeOK
  <1>. QED  BY <1>5, <1>6, <1>7, <1>10 DEF CrossbarIInv, OneBankHeld

LEMMA NextIInv == Assumptions /\ CrossbarIInv /\ [CrossbarNext]_crossbar_vars => CrossbarIInv'
  <1> SUFFICES ASSUME Assumptions, CrossbarIInv, [CrossbarNext]_crossbar_vars PROVE CrossbarIInv'
    OBVIOUS
  <1>1. CASE Idle
    <2>1. NBanks \notin BankIds
      BY DEF Assumptions, CrossbarAssumption, BankIds
    <2>. QED  BY <1>1, <2>1, ClockIInv DEF Idle
  <1>2. ASSUME NEW p \in BankIds, Perform(p) PROVE CrossbarIInv'
    BY <1>2, ClockIInv DEF Perform
  <1>3. CASE UNCHANGED crossbar_vars
    BY <1>3 DEF CrossbarIInv, crossbar_vars, CrossbarTypeOK, BuffersOwned, OneBankHeld, SlotsOwned,
                lock, lookahead, Pending
  <1>. QED  BY <1>1, <1>2, <1>3 DEF CrossbarNext

(* The strengthening is an invariant of the crossbar.                       *)
THEOREM Inductive == ASSUME Assumptions PROVE CrossbarSpec => []CrossbarIInv
  <1>1. CrossbarInit => CrossbarIInv
    BY InitIInv
  <1>2. CrossbarIInv /\ [CrossbarNext]_crossbar_vars => CrossbarIInv'
    BY NextIInv
  <1>. QED  BY <1>1, <1>2, PTL DEF CrossbarSpec

(* Commands, grants, buffers and slots keep their types.                    *)
THEOREM TypeCorrect == ASSUME Assumptions PROVE CrossbarSpec => []CrossbarTypeOK
  <1>1. CrossbarIInv => CrossbarTypeOK
    BY DEF CrossbarIInv
  <1>. QED  BY <1>1, Inductive, PTL

(* What is pending in a bank belongs to the master its arbiter grants.      *)
LEMMA PendingOwned ==
    ASSUME Assumptions, BuffersOwned, NEW b \in BankIds, NEW i, i \in 1..Len(Pending(bufs[b]))
    PROVE  Pending(bufs[b])[i].owner = grants[b] /\ lock(bufs[b])
  <1>1. PICK S : S = Owned(grants[b])
    OBVIOUS
  <1>2. bufs[b].mem \in Seq(S) /\ bufs[b].cb \in Seq(S) /\ bufs[b].out = <<>> /\ <<>> \in Seq(S)
    BY <1>1 DEF BuffersOwned
  <1>3. PICK q, cb, mem : q = Pending(bufs[b]) /\ cb = bufs[b].cb /\ mem = bufs[b].mem
    OBVIOUS
  <1>4. cb \in Seq(S) /\ mem \in Seq(S) /\ q = cb \o <<>> \o mem
    BY <1>2, <1>3 DEF Pending
  <1>5. q \in Seq(S) /\ Len(q) = Len(cb) + Len(mem)
    BY <1>2, <1>4
  <1>6. i \in 1..Len(q) /\ Len(q) \in Nat
    <2>1. i \in 1..Len(q)
      BY <1>3, Zenon
    <2>2. Len(q) \in Nat
      BY <1>5
    <2>. QED  BY <2>1, <2>2
  <1>7. q[i] \in S
    BY <1>5, <1>6
  <1>8. cb # <<>> \/ mem # <<>>
    <2>1. cb = <<>> /\ mem = <<>> => Len(q) = 0
      BY <1>5
    <2>. QED  BY <1>6, <2>1
  <1>9. q[i].owner = grants[b]
    BY <1>1, <1>7 DEF Owned
  <1>10. lock(bufs[b])
    BY <1>3, <1>8 DEF Assumptions, lock, lookahead
  <1>. QED  BY <1>3, <1>9, <1>10

(* Data slots reach the master whose request they belong to: see            *)
(* SlotsReachOwner.                                                         *)
THEOREM SlotsOfOwner == ASSUME Assumptions PROVE CrossbarSpec => []SlotsReachOwner
  <1>1. CrossbarIInv => SlotsReachOwner
    BY PendingOwned, Zenon DEF CrossbarIInv, GrantHeldWhilePending, SlotsReachOwner
  <1>. QED  BY <1>1, Inductive, PTL

(* A master has requests pending in one bank only: see OneBankPerMaster.    *)
THEOREM OneBank == ASSUME Assumptions PROVE CrossbarSpec => []OneBankPerMaster
  <1>1. CrossbarIInv => OneBankPerMaster
    <2> SUFFICES ASSUME CrossbarIInv, NEW m \in Masters
                 PROVE  Cardinality({b \in BankIds :
                            \E i \in 1..Len(Pending(bufs[b])) : Pending(bufs[b])[i].owner = m}) <= 1
      BY DEF OneBankPerMaster
    <2> DEFINE holding == {b \in BankIds :
                              \E i \in 1..Len(Pending(bufs[b])) : Pending(bufs[b])[i].owner = m}
    <2>1. BuffersOwned /\ OneBankHeld
      BY DEF CrossbarIInv
    <2>2. \A b \in holding : b \in BankIds /\ lock(bufs[b]) /\ grants[b] = m
      BY <2>1, PendingOwned
    <2>3. \A b, c \in holding : b = c
      BY <2>1, <2>2 DEF OneBankHeld
    <2>4. CASE holding = {}
      BY <2>4, FS_EmptySet
    <2>5. CASE holding # {}
      <3>1. PICK b \in holding : holding = {b}
        BY <2>3, <2>5
      <3>2. Cardinality({b}) = 1
        BY FS_Singleton
      <3> HIDE DEF holding
      <3>3. Cardinality(holding) <= 1
        BY <3>1, <3>2
      <3>. QED  BY <3>3 DEF holding
    <2>. QED  BY <2>4, <2>5
  <1>. QED  BY <1>1, Inductive, PTL

-----------------------------------------------------------------------------
(* Quotients and remainders.                                                *)

(* A number is the quotient times the divisor plus the remainder.           *)
LEMMA Division ==
    ASSUME NEW a \in Nat, NEW d \in Nat \ {0}
    PROVE  \E q \in Nat, r \in Nat : r < d /\ a = d * q + r /\ a \div d = q /\ a % d = r
  OBVIOUS

(* The converse: a number so written has this quotient and this remainder.  *)
LEMMA DivisionIs ==
    ASSUME NEW d \in Nat \ {0}, NEW q \in Nat, NEW r \in Nat, r < d
    PROVE  (d * q + r) \div d = q /\ (d * q + r) % d = r
  OBVIOUS

(* Quotient and remainder tell two numbers apart.                           *)
LEMMA DivisionUnique ==
    ASSUME NEW d \in Nat, NEW q \in Nat, NEW r \in Nat, NEW q2 \in Nat, NEW r2 \in Nat,
           r < d, r2 < d, d * q + r = d * q2 + r2
    PROVE  q = q2 /\ r = r2
  <1>1. d \in Nat \ {0}
    OBVIOUS
  <1>. QED  BY <1>1, DivisionIs

(* A number of d blocks of n is below d * n only if its block is.           *)
LEMMA QuotientBelow ==
    ASSUME NEW d \in Nat \ {0}, NEW q \in Nat, NEW r \in Nat, NEW n \in Nat, d * q + r < d * n
    PROVE  q < n
  <1> SUFFICES ASSUME n <= q PROVE FALSE
    OBVIOUS
  <1>1. PICK k \in Nat : q = n + k
    <2>1. q - n \in Nat /\ q = n + (q - n)
      OBVIOUS
    <2>. QED  BY <2>1
  <1>2. d * q = d * n + d * k /\ d * k \in Nat /\ d * n \in Nat
    BY <1>1
  <1>. QED  BY <1>2

(* A block below n, and a place below d in it, are below d * n.             *)
LEMMA BlockBelow ==
    ASSUME NEW d \in Nat \ {0}, NEW q \in Nat, NEW r \in Nat, NEW n \in Nat, q < n, r < d
    PROVE  d * q + r < d * n
  <1>1. PICK k \in Nat : n = q + 1 + k
    <2>1. n - q - 1 \in Nat /\ n = q + 1 + (n - q - 1)
      OBVIOUS
    <2>. QED  BY <2>1
  <1>2. d * n = d * q + d + d * k /\ d * k \in Nat /\ d * q \in Nat
    BY <1>1
  <1>. QED  BY <1>2

(* A divisor goes a positive number of times into a positive multiple.      *)
LEMMA Divides ==
    ASSUME NEW a \in Nat \ {0}, NEW d \in Nat \ {0}, a % d = 0
    PROVE  \E n \in Nat \ {0} : a = d * n /\ a \div d = n
  <1>1. PICK q \in Nat, r \in Nat : a = d * q + r /\ a \div d = q /\ a % d = r
    BY Division
  <1>2. a = d * q
    BY <1>1
  <1>3. q # 0
    BY <1>2
  <1>. QED  BY <1>1, <1>2, <1>3

-----------------------------------------------------------------------------
(* Where an address goes.                                                   *)

(* The sizes of a geometry.                                                 *)
LEMMA Sizes ==
    ASSUME GeometryAssumption, NEW g \in Geometries
    PROVE  /\ g.rows \in Nat \ {0} /\ g.page \in Nat \ {0} /\ g.banks \in Nat \ {0}
           /\ g.ranks \in Nat \ {0} /\ g.burst \in Nat \ {0} /\ g.aligned \in Nat \ {0}
           /\ cba_size(g) \in Nat \ {0}
           /\ \E n \in Nat \ {0} : g.rows * g.page = cba_size(g) * n
           /\ \E n \in Nat \ {0} : cba_size(g) = g.page * n
           /\ \E n \in Nat \ {0} : cba_size(g) = g.aligned * n
           /\ rca_size(g) = g.rows * g.page * g.ranks
           /\ rca_size(g) \in Nat \ {0}
           /\ port_size(g) = g.rows * g.page * g.banks
  <1>1. /\ g.rows \in Nat \ {0} /\ g.page \in Nat \ {0} /\ g.banks \in Nat \ {0}
        /\ g.ranks \in Nat \ {0} /\ g.burst \in Nat \ {0} /\ g.aligned \in Nat \ {0}
    BY DEF GeometryAssumption
  <1>2. /\ (g.rows * g.page) % g.aligned = 0
        /\ g.page % g.aligned = 0 \/ g.aligned % g.page = 0
        /\ g.banks % g.ranks = 0
    BY DEF GeometryAssumption
  <1>3. PICK R \in Nat \ {0}, P \in Nat \ {0}, B \in Nat \ {0}, K \in Nat \ {0}, A \in Nat \ {0} :
           R = g.rows /\ P = g.page /\ B = g.banks /\ K = g.ranks /\ A = g.aligned
    BY <1>1
  <1>4. R * P \in Nat \ {0}
    OBVIOUS
  <1>5. PICK n \in Nat \ {0} : R * P = A * n
    <2>1. (R * P) % A = 0
      BY <1>2, <1>3
    <2>. QED  BY <1>4, <2>1, Divides
  <1>6. PICK m \in Nat \ {0} : B = K * m /\ B \div K = m
    <2>1. B % K = 0
      BY <1>2, <1>3
    <2>. QED  BY <2>1, Divides
  <1>7. rca_size(g) = R * P * K
    BY <1>3 DEF rca_size
  <1>8. R * P * K \in Nat \ {0}
    BY <1>4
  <1>9. port_size(g) = R * P * B
    <2>1. port_size(g) = (R * P * K) * m
      BY <1>3, <1>6, <1>7 DEF port_size
    <2>2. (R * P * K) * m = R * P * (K * m)
      OBVIOUS
    <2>. QED  BY <1>6, <2>1, <2>2
  <1>10. CASE P < A
    <2>1. cba_size(g) = A /\ P % A = P
      <3>1. (A * 0 + P) % A = P
        BY <1>10, DivisionIs
      <3>. QED  BY <1>3, <1>10, <3>1 DEF cba_size
    <2>2. A % P = 0
      BY <1>2, <1>3, <2>1
    <2>3. PICK k \in Nat \ {0} : A = P * k
      BY <2>2, Divides
    <2>5. A = A * 1 /\ 1 \in Nat \ {0}
      OBVIOUS
    <2>. QED  BY <1>1, <1>3, <1>5, <1>7, <1>8, <1>9, <2>1, <2>3, <2>5
  <1>11. CASE ~(P < A)
    <2>1. cba_size(g) = P
      BY <1>3, <1>11 DEF cba_size
    <2>2. PICK k \in Nat \ {0} : P = A * k
      <3>1. CASE P % A = 0
        BY <3>1, Divides
      <3>2. CASE A % P = 0
        <4>1. PICK k \in Nat \ {0} : A = P * k
          BY <3>2, Divides
        <4>3. PICK j \in Nat : k = 1 + j
          <5>1. k - 1 \in Nat /\ k = 1 + (k - 1)
            OBVIOUS
          <5>. QED  BY <5>1
        <4>4. A = P + P * j /\ P * j \in Nat
          BY <4>1, <4>3
        <4>5. P = A * 1
          BY <1>11, <4>4
        <4>. QED  BY <4>5
      <3>. QED  BY <1>2, <1>3, <3>1, <3>2
    <2>4. P = P * 1 /\ R * P = P * R /\ 1 \in Nat \ {0}
      OBVIOUS
    <2>. QED  BY <1>1, <1>3, <1>7, <1>8, <1>9, <2>1, <2>2, <2>4
  <1>. QED  BY <1>10, <1>11

\* Address a is a block of a bank, the bank and a place in the block; the bank
\* receives block and place as row and column.
PlaceOf(g, a, high, bank, low, r, c) ==
    /\ bank < g.banks /\ low < cba_size(g) /\ c < g.page
    /\ a = cba_size(g) * (g.banks * high + bank) + low
    /\ cba_size(g) * high + low = g.page * r + c
    /\ get_row_column_address(g, a) % g.page = c
    /\ Location(g, a).bank = bank /\ Location(g, a).row = r

(* Every address of a port has such a place, and no slice cuts it short.    *)
LEMMA Located ==
    ASSUME GeometryAssumption, NEW g \in Geometries, NEW a \in Addresses(g)
    PROVE  \E high \in Nat, bank \in Nat, low \in Nat, r \in Nat, c \in Nat :
              PlaceOf(g, a, high, bank, low, r, c)
  <1>1. PICK R \in Nat \ {0}, P \in Nat \ {0}, B \in Nat \ {0}, K \in Nat \ {0}, C \in Nat \ {0} :
           R = g.rows /\ P = g.page /\ B = g.banks /\ K = g.ranks /\ C = cba_size(g)
    BY Sizes
  <1>2. PICK n \in Nat \ {0} : R * P = C * n
    BY <1>1, Sizes
  <1>3. rca_size(g) = R * P * K /\ port_size(g) = R * P * B
    BY <1>1, Sizes
  <1>4. a \in Nat /\ a < C * (B * n)
    <2>1. R * P * B = (C * n) * B /\ (C * n) * B = C * (B * n)
      BY <1>2
    <2>2. R * P * B \in Nat
      OBVIOUS
    <2>. QED  BY <1>3, <2>1, <2>2 DEF Addresses
  <1>5. PICK q \in Nat, low \in Nat : low < C /\ a = C * q + low /\ a \div C = q /\ a % C = low
    BY <1>4, Division
  <1>6. PICK high \in Nat, bank \in Nat : bank < B /\ q = B * high + bank /\ q % B = bank
    BY Division
  <1>7. a \div (C * B) = high
    <2>1. C * bank + low < C * B /\ C * bank + low \in Nat /\ C * B \in Nat \ {0}
      BY <1>5, <1>6, BlockBelow
    <2>2. a = (C * B) * high + (C * bank + low)
      <3>1. C * (B * high + bank) = (C * B) * high + C * bank
        OBVIOUS
      <3>2. C * bank \in Nat /\ (C * B) * high \in Nat
        OBVIOUS
      <3>. QED  BY <1>5, <1>6, <3>1, <3>2
    <2>3. PICK d \in Nat \ {0}, x \in Nat : d = C * B /\ x = C * bank + low
      BY <2>1
    <2>. QED  BY <2>1, <2>2, <2>3, DivisionIs
  <1>8. high < n
    <2>1. q < B * n
      <3>1. B * n \in Nat
        OBVIOUS
      <3>. QED  BY <1>4, <1>5, <3>1, QuotientBelow
    <2>. QED  BY <1>6, <2>1, QuotientBelow
  <1>9. PICK rca \in Nat : rca = C * high + low
    OBVIOUS
  <1>10. rca < R * P
    BY <1>2, <1>5, <1>8, <1>9, BlockBelow
  <1>11. get_row_column_address(g, a) = rca
    <2>1. get_row_column_address(g, a) =
             (IF C < R * P * K THEN low + high * C ELSE low) % (R * P * K)
      BY <1>1, <1>3, <1>5, <1>7 DEF get_row_column_address
    <2>2. R * P * K \in Nat /\ R * P <= R * P * K
      <3>1. PICK S \in Nat, j \in Nat : S = R * P /\ K = j + 1
        <4>1. R * P \in Nat /\ K - 1 \in Nat /\ K = (K - 1) + 1
          OBVIOUS
        <4>. QED  BY <4>1
      <3>2. S * K = S * j + S /\ S * j \in Nat
        BY <3>1
      <3>. QED  BY <3>1, <3>2
    <2>3. (IF C < R * P * K THEN low + high * C ELSE low) = rca
      <3>1. CASE C < R * P * K
        BY <1>9, <3>1
      <3>2. CASE ~(C < R * P * K)
        <4>1. n = 1
          <5>1. C * n <= C
            BY <1>2, <2>2, <3>2
          <5>2. PICK j \in Nat : n = 1 + j
            <6>1. n - 1 \in Nat /\ n = 1 + (n - 1)
              OBVIOUS
            <6>. QED  BY <6>1
          <5>3. C * n = C + C * j /\ C * j \in Nat
            BY <5>2
          <5>4. C * j = 0
            BY <5>1, <5>3
          <5>. QED  BY <5>2, <5>4
        <4>2. high = 0
          BY <1>8, <4>1
        <4>. QED  BY <1>9, <3>2, <4>2
      <3>. QED  BY <3>1, <3>2
    <2>4. PICK T \in Nat \ {0} : T = R * P * K /\ rca < T
      BY <1>10, <2>2
    <2>5. (T * 0 + rca) % T = rca
      BY <2>4, DivisionIs
    <2>. QED  BY <2>1, <2>3, <2>4, <2>5
  <1>12. PICK r \in Nat, c \in Nat : c < P /\ rca = P * r + c /\ rca \div P = r /\ rca % P = c
    BY Division
  <1>13. r % R = r
    <2>1. r < R
      <3>1. R * P = P * R
        OBVIOUS
      <3>. QED  BY <1>10, <1>12, <3>1, QuotientBelow
    <2>2. (R * 0 + r) % R = r
      BY <2>1, DivisionIs
    <2>. QED  BY <2>2
  <1>14. Location(g, a).bank = bank /\ Location(g, a).row = r
    BY <1>1, <1>5, <1>6, <1>11, <1>12, <1>13 DEF Location, get_bank_address, row
  <1>. QED  BY <1>1, <1>5, <1>6, <1>9, <1>11, <1>12, <1>14 DEF PlaceOf

-----------------------------------------------------------------------------
(* Columns.                                                                 *)

ColumnOf(g, c) ==
    IF g.page * g.burst > ApBit
    THEN (c % (ApBit \div g.burst)) * g.burst + (c \div (ApBit \div g.burst)) * (2 * ApBit)
    ELSE c * g.burst

\* Column c is split at the auto-precharge bit, and what is above is moved by
\* one bit.
SplitOf(g, c, above, below, unit) ==
    /\ ApBit = g.burst * unit /\ below < unit
    /\ ColumnOf(g, c) = g.burst * ((2 * unit) * above + below)
    /\ c = unit * above + below

(* Every column of a page can be split so, whichever form the slice takes.  *)
LEMMA ColumnCases ==
    ASSUME GeometryAssumption, NEW g \in Geometries, NEW c \in Nat, c < g.page
    PROVE  \E above \in Nat, below \in Nat, unit \in Nat \ {0} :
              SplitOf(g, c, above, below, unit)
  <1>1. PICK B \in Nat \ {0}, P \in Nat \ {0} : B = g.burst /\ P = g.page
    BY Sizes
  <1>2. ApBit \in Nat \ {0} /\ ApBit % B = 0
    BY <1>1 DEF GeometryAssumption
  <1>3. PICK unit \in Nat \ {0} : ApBit = B * unit /\ ApBit \div B = unit
    BY <1>2, Divides
  <1>4. PICK above \in Nat, below \in Nat :
           below < unit /\ c = unit * above + below /\ c \div unit = above /\ c % unit = below
    BY Division
  <1>5. CASE P * B > ApBit
    <2>1. ColumnOf(g, c) = below * B + above * (2 * (B * unit))
      BY <1>1, <1>3, <1>4, <1>5 DEF ColumnOf
    <2>2. below * B + above * (2 * (B * unit)) = B * ((2 * unit) * above + below)
      OBVIOUS
    <2>. QED  BY <1>1, <1>3, <1>4, <2>1, <2>2 DEF SplitOf
  <1>6. CASE ~(P * B > ApBit)
    <2>1. ColumnOf(g, c) = c * B
      BY <1>1, <1>6 DEF ColumnOf
    <2>2. c < unit
      <3>1. B * c + 0 < B * P
        BY <1>1, BlockBelow
      <3>2. B * P = P * B /\ B * c \in Nat /\ B * P \in Nat
        OBVIOUS
      <3>3. B * c + 0 < B * unit
        BY <1>2, <1>3, <1>6, <3>1, <3>2
      <3>. QED  BY <3>3, QuotientBelow
    <2>3. c = unit * 0 + c /\ c * B = B * ((2 * unit) * 0 + c)
      OBVIOUS
    <2>. QED  BY <1>1, <1>3, <2>1, <2>2, <2>3 DEF SplitOf
  <1>. QED  BY <1>5, <1>6

(* The slices keep columns apart.                                           *)
LEMMA ColumnsApart ==
    ASSUME GeometryAssumption, NEW g \in Geometries, NEW c \in Nat, NEW c2 \in Nat,
           c < g.page, c2 < g.page, ColumnOf(g, c) = ColumnOf(g, c2)
    PROVE  c = c2
  <1>1. PICK B \in Nat \ {0} : B = g.burst
    BY Sizes
  <1>2. PICK x \in Nat, y \in Nat, u \in Nat \ {0} :
           ApBit = B * u /\ y < u /\ ColumnOf(g, c) = B * ((2 * u) * x + y) /\ c = u * x + y
    <2>1. PICK x \in Nat, y \in Nat, u \in Nat \ {0} : SplitOf(g, c, x, y, u)
      BY ColumnCases
    <2>. QED  BY <1>1, <2>1 DEF SplitOf
  <1>3. PICK x2 \in Nat, y2 \in Nat, u2 \in Nat \ {0} :
           ApBit = B * u2 /\ y2 < u2 /\ ColumnOf(g, c2) = B * ((2 * u2) * x2 + y2) /\ c2 = u2 * x2 + y2
    <2>1. PICK x2 \in Nat, y2 \in Nat, u2 \in Nat \ {0} : SplitOf(g, c2, x2, y2, u2)
      BY ColumnCases
    <2>. QED  BY <1>1, <2>1 DEF SplitOf
  <1>4. u2 = u
    <2>1. B * u + 0 = B * u2 + 0
      BY <1>2, <1>3
    <2>. QED  BY <2>1, DivisionUnique
  <1>5. (2 * u) * x + y = (2 * u) * x2 + y2
    <2>1. PICK v \in Nat, w \in Nat : v = (2 * u) * x + y /\ w = (2 * u) * x2 + y2
      OBVIOUS
    <2>2. B * v + 0 = B * w + 0
      BY <1>2, <1>3, <1>4, <2>1
    <2>3. v = w
      BY <2>2, DivisionUnique
    <2>. QED  BY <2>1, <2>3
  <1>6. PICK d \in Nat \ {0} : d = 2 * u
    OBVIOUS
  <1>7. x = x2 /\ y = y2
    <2>1. y < d /\ y2 < d
      BY <1>2, <1>3, <1>4, <1>6
    <2>2. d * x + y = d * x2 + y2
      BY <1>5, <1>6
    <2>. QED  BY <2>1, <2>2, DivisionUnique
  <1>. QED  BY <1>2, <1>3, <1>4, <1>7

-----------------------------------------------------------------------------
(* The theorems.                                                            *)

MappingTyped == geom \in Geometries /\ addr \in Addresses(geom)

(* A port has an address, and the last is the one before its size.          *)
LEMMA PortSize ==
    ASSUME GeometryAssumption, NEW g \in Geometries
    PROVE  port_size(g) \in Nat \ {0} /\ Addresses(g) = 0..(port_size(g) - 1)
  <1>1. PICK R \in Nat \ {0}, P \in Nat \ {0}, B \in Nat \ {0} :
           R = g.rows /\ P = g.page /\ B = g.banks /\ port_size(g) = R * P * B
    BY Sizes
  <1>2. R * P \in Nat \ {0}
    OBVIOUS
  <1>3. R * P * B \in Nat \ {0}
    BY <1>2
  <1>. QED  BY <1>1, <1>3 DEF Addresses

(* The address the master presents is one of the port.                      *)
LEMMA TypedMapping ==
    ASSUME GeometryAssumption
    PROVE  /\ MappingInit => MappingTyped
           /\ MappingTyped /\ [MappingNext]_mapping_vars => MappingTyped'
  <1>1. MappingInit => MappingTyped
    BY PortSize DEF MappingInit, MappingTyped
  <1>2. ASSUME MappingTyped, MappingNext PROVE MappingTyped'
    <2>1. geom' = geom /\ addr' = (addr + 1) % port_size(geom)
      BY <1>2 DEF MappingNext, Advance
    <2>2. geom \in Geometries /\ addr \in Addresses(geom)
      BY <1>2 DEF MappingTyped
    <2>3. PICK N \in Nat \ {0} : N = port_size(geom) /\ Addresses(geom) = 0..(N - 1)
      BY <2>2, PortSize
    <2>4. (addr + 1) % N \in 0..(N - 1)
      BY <2>2, <2>3
    <2>. QED  BY <2>1, <2>2, <2>3, <2>4 DEF MappingTyped
  <1>3. ASSUME MappingTyped, UNCHANGED mapping_vars PROVE MappingTyped'
    BY <1>3 DEF MappingTyped, mapping_vars
  <1>. QED  BY <1>1, <1>2, <1>3

(* No two addresses of a port are the same place of the DRAM: see           *)
(* NoAliasing.                                                              *)
THEOREM AddressesApart ==
    ASSUME GeometryAssumption
    PROVE  MappingSpec => []NoAliasing
  <1>1. ASSUME NEW g \in Geometries, NEW a \in Addresses(g), NEW b \in Addresses(g),
               Location(g, a) = Location(g, b)
        PROVE  a = b
    <2>1. PICK C \in Nat, P \in Nat, B \in Nat : C = cba_size(g) /\ P = g.page /\ B = g.banks
      BY Sizes
    <2>2. PICK high \in Nat, bank \in Nat, low \in Nat, r \in Nat, c \in Nat :
             PlaceOf(g, a, high, bank, low, r, c)
      BY Located
    <2>3. PICK high2 \in Nat, bank2 \in Nat, low2 \in Nat, r2 \in Nat, c2 \in Nat :
             PlaceOf(g, b, high2, bank2, low2, r2, c2)
      BY Located
    <2>4. bank = bank2 /\ r = r2
      BY <1>1, <2>2, <2>3 DEF PlaceOf
    <2>5. c = c2
      <3>1. c < g.page /\ c2 < g.page
        BY <2>2, <2>3 DEF PlaceOf
      <3>2. Location(g, a).col = ColumnOf(g, c) /\ Location(g, b).col = ColumnOf(g, c2)
        BY <2>2, <2>3 DEF PlaceOf, Location, col, ColumnOf
      <3>. QED  BY <1>1, <3>1, <3>2, ColumnsApart
    <2>6. /\ low < C /\ low2 < C
          /\ C * high + low = C * high2 + low2
      BY <2>1, <2>2, <2>3, <2>4, <2>5 DEF PlaceOf
    <2>7. high = high2 /\ low = low2
      BY <2>6, DivisionUnique
    <2>. QED  BY <2>2, <2>3, <2>4, <2>7 DEF PlaceOf
  <1>2. MappingTyped => NoAliasing
    BY <1>1 DEF MappingTyped, NoAliasing
  <1>. QED  BY <1>2, TypedMapping, PTL DEF MappingSpec

(* A column address starts a burst and leaves the auto-precharge bit alone: *)
(* see ColumnLegal.                                                         *)
THEOREM ColumnsAreLegal ==
    ASSUME GeometryAssumption
    PROVE  MappingSpec => []ColumnLegal
  <1>1. ASSUME NEW g \in Geometries, NEW a \in Addresses(g)
        PROVE  (Location(g, a).col \div ApBit) % 2 = 0 /\ Location(g, a).col % g.burst = 0
    <2>1. PICK B \in Nat \ {0} : B = g.burst
      BY Sizes
    <2>2. PICK c \in Nat : c < g.page /\ get_row_column_address(g, a) % g.page = c
      BY Located DEF PlaceOf
    <2>3. Location(g, a).col = ColumnOf(g, c)
      BY <2>2 DEF Location, col, ColumnOf
    <2>4. PICK above \in Nat, below \in Nat, unit \in Nat \ {0} :
              /\ ApBit = B * unit /\ below < unit
              /\ ColumnOf(g, c) = B * ((2 * unit) * above + below)
      <3>1. PICK above \in Nat, below \in Nat, unit \in Nat \ {0} : SplitOf(g, c, above, below, unit)
        BY <2>2, ColumnCases
      <3>. QED  BY <2>1, <3>1 DEF SplitOf
    <2>5. PICK v \in Nat : v = (2 * unit) * above + below
      OBVIOUS
    <2>6. (B * v + 0) % B = 0
      BY DivisionIs
    <2>7. PICK x \in Nat, y \in Nat, A \in Nat \ {0} : x = 2 * above /\ y = B * below /\ A = B * unit
      OBVIOUS
    <2>8. B * v = A * x + y
      <3>1. B * ((2 * unit) * above + below) = (B * unit) * (2 * above) + B * below
        OBVIOUS
      <3>. QED  BY <2>5, <2>7, <3>1
    <2>9. y < A
      <3>1. B * below + 0 < B * unit
        BY <2>4, BlockBelow
      <3>. QED  BY <2>7, <3>1
    <2>10. (B * v) \div A = x
      BY <2>8, <2>9, DivisionIs
    <2>11. x % 2 = 0
      BY <2>7
    <2>. QED  BY <2>1, <2>3, <2>4, <2>5, <2>6, <2>7, <2>10, <2>11
  <1>2. MappingTyped => ColumnLegal
    BY <1>1 DEF MappingTyped, ColumnLegal
  <1>. QED  BY <1>2, TypedMapping, PTL DEF MappingSpec

(* A walk changes bank at page and alignment boundaries only: see           *)
(* BankChangesAligned.                                                      *)
THEOREM BanksChangeAligned ==
    ASSUME GeometryAssumption
    PROVE  MappingSpec => BankChangesAligned
  <1>1. ASSUME MappingTyped, MappingNext, Location(geom, addr').bank # Location(geom, addr).bank
        PROVE  addr' % geom.aligned = 0 /\ addr' % geom.page = 0
    <2>1. geom \in Geometries /\ addr \in Addresses(geom) /\ addr' \in Addresses(geom)
      <3>1. MappingTyped' /\ geom' = geom
        BY <1>1, TypedMapping DEF MappingNext, Advance
      <3>. QED  BY <1>1, <3>1 DEF MappingTyped
    <2>2. PICK C \in Nat \ {0}, P \in Nat \ {0}, A \in Nat \ {0}, B \in Nat \ {0} :
             C = cba_size(geom) /\ P = geom.page /\ A = geom.aligned /\ B = geom.banks
      BY <2>1, Sizes
    <2>3. PICK m \in Nat, n \in Nat : C = P * m /\ C = A * n
      BY <2>1, <2>2, Sizes
    <2>4. PICK N \in Nat \ {0} : N = port_size(geom) /\ Addresses(geom) = 0..(N - 1)
      BY <2>1, PortSize
    <2>5. PICK high \in Nat, bank \in Nat, low \in Nat :
             /\ bank < B /\ low < C /\ addr = C * (B * high + bank) + low
             /\ Location(geom, addr).bank = bank
      <3>1. PICK high \in Nat, bank \in Nat, low \in Nat, r \in Nat, c \in Nat :
               PlaceOf(geom, addr, high, bank, low, r, c)
        BY <2>1, Located
      <3>. QED  BY <2>2, <3>1 DEF PlaceOf
    <2>6. CASE addr + 1 = N
      <3>1. addr' = 0
        <4>1. (N * 1 + 0) % N = 0
          BY DivisionIs
        <4>. QED  BY <1>1, <2>4, <2>6, <4>1 DEF MappingNext, Advance
      <3>2. (A * 0 + 0) % A = 0 /\ (P * 0 + 0) % P = 0
        BY DivisionIs
      <3>. QED  BY <2>2, <3>1, <3>2
    <2>7. CASE addr + 1 # N
      <3>1. addr' = addr + 1
        <4>1. addr \in Nat /\ addr + 1 < N
          BY <2>1, <2>4, <2>7
        <4>2. (N * 0 + (addr + 1)) % N = addr + 1
          BY <4>1, DivisionIs
        <4>. QED  BY <1>1, <2>4, <4>1, <4>2 DEF MappingNext, Advance
      <3>2. PICK q \in Nat : q = B * high + bank
        OBVIOUS
      <3>3. low + 1 = C
        <4> SUFFICES ASSUME low + 1 < C PROVE FALSE
          BY <2>5
        <4>1. (C * q + (low + 1)) \div C = q
          BY DivisionIs
        <4>2. q % B = bank
          BY <2>5, <3>2, DivisionIs
        <4>3. addr' = C * q + (low + 1)
          BY <2>5, <3>1, <3>2
        <4>4. Location(geom, addr').bank = bank
          BY <2>2, <4>1, <4>2, <4>3 DEF Location, get_bank_address
        <4>. QED  BY <1>1, <2>5, <4>4
      <3>4. addr' = C * (q + 1)
        <4>1. C * (q + 1) = C * q + C
          OBVIOUS
        <4>. QED  BY <2>5, <3>1, <3>2, <3>3, <4>1
      <3>5. addr' = P * (m * (q + 1)) + 0 /\ addr' = A * (n * (q + 1)) + 0
        BY <2>3, <3>4
      <3>6. PICK j \in Nat, k \in Nat : j = m * (q + 1) /\ k = n * (q + 1)
        OBVIOUS
      <3>7. (P * j + 0) % P = 0 /\ (A * k + 0) % A = 0
        BY DivisionIs
      <3>. QED  BY <2>2, <3>5, <3>6, <3>7
    <2>. QED  BY <2>6, <2>7
  <1>2. MappingTyped /\ [MappingNext]_mapping_vars =>
           [LET here == Location(geom, addr)
                there == Location(geom, addr')
            IN  there.bank # here.bank =>
                   addr' % geom.aligned = 0 /\ addr' % geom.page = 0]_mapping_vars
    BY <1>1
  <1>. QED  BY <1>2, TypedMapping, PTL DEF MappingSpec, BankChangesAligned
=============================================================================
