-------------------------- MODULE SingleBankProofs --------------------------
(***************************************************************************)
(* Proofs about a bank machine, for every set of rows, every value of the  *)
(* timings and every depth of the buffers: it gives the DRAM bank only     *)
(* commands that its state and its timings allow, grants a refresh only    *)
(* when that is safe, and serves its requests in order.  The clock edge    *)
(* itself is the matter of BankMachineProofs.                              *)
(***************************************************************************)
EXTENDS SingleBank, BankMachineProofs, SequenceTheorems

-----------------------------------------------------------------------------
(* The clock edge.                                                          *)

(* The environment of SingleBank clocks the bank machine and its bank as    *)
(* BankMachineProofs has it.                                                *)
LEMMA ClockIsClocked ==
    ASSUME NEW arriving, NEW cmd_ready, NEW move, Clock(arriving, cmd_ready, move)
    PROVE  Clocked(bm, bank, refresh, arriving, cmd_ready, move, bm', bank', refresh')
  BY DEF Clock, Clocked, Given, refresh_req

(* The DRAM performs an access exactly when cmd_buffer gives up its request *)
(* and the access is that request: its direction, on its row.               *)
LEMMA AccessIsRequest ==
    ASSUME IInv,
           NEW arriving \in Arrivals, NEW cmd_ready \in BOOLEAN, NEW move \in RefresherMoves,
           Clock(arriving, cmd_ready, move)
    PROVE  /\ Column(bm, refresh_req) /\ cmd_ready => access' = bm.cb[1] /\ bm.cb[1] \in Requests
           /\ ~(Column(bm, refresh_req) /\ cmd_ready) => access' = NoAccess
  <1> DEFINE g == Given(cmd_ready, move[2])
             c == cmd(bm, refresh_req)
  <1>1. /\ PairTyped(bm, bank, refresh) /\ BmTyped(bm) /\ RequestHeld(bm)
        /\ access' = Performed(g)
    BY DEF IInv, InStep, PairTyped, Clock
  <1>2. move[2] \in Commands /\ move[2].op \in {"NOP", "PRE", "REF"}
    BY <1>1, MoveCases DEF RefresherMoves
  <1>3. CASE Column(bm, refresh_req) /\ cmd_ready
    <2>1. /\ bm.fsm = "REGULAR" /\ bm.cb # <<>> /\ bm.row_opened /\ bm.row = bm.cb[1].row
      BY <1>3 DEF Column, row_hit
    <2>2. bank.row = bm.cb[1].row
      BY <2>1 DEF IInv, InStep, BankAgrees, Open
    <2>3. bm.cb[1] \in Requests /\ bm.cb[1].we \in BOOLEAN
      BY <1>1, <2>1, CbRow
    <2>4. g = c /\ c.op \in {"RD", "WR"} /\ ((c.op = "WR") <=> bm.cb[1].we)
      <3>1. cmd_valid(bm, refresh_req)
        BY <1>3 DEF cmd_valid
      <3>2. c.op \in {"RD", "WR"} /\ ((c.op = "WR") <=> is_write(bm, refresh_req))
        BY <1>1, <1>3, <3>1, CmdCases
      <3>3. is_write(bm, refresh_req) <=> bm.cb[1].we
        BY <1>3 DEF is_write
      <3>4. g = c
        BY <1>3, <3>1 DEF Given, Received
      <3>. QED  BY <3>2, <3>3, <3>4
    <2>5. \A r \in Requests : r = [we |-> r.we, row |-> r.row]
      BY DEF Requests
    <2>6. PICK r \in Requests : r = bm.cb[1]
      BY <2>3
    <2> HIDE DEF g, c
    <2>7. r.we \in BOOLEAN /\ g.op \in {"RD", "WR"} /\ ((g.op = "WR") <=> r.we)
      BY <2>3, <2>4, <2>6
    <2>8. (IF g.op = "WR" THEN TRUE ELSE FALSE) = r.we
      <3>1. CASE r.we = TRUE
        BY <2>7, <3>1
      <3>2. CASE r.we = FALSE
        BY <2>7, <3>2
      <3>. QED  BY <2>7, <3>1, <3>2, Zenon
    <2>9. Performed(g) = [we |-> IF g.op = "WR" THEN TRUE ELSE FALSE, row |-> bank.row]
      BY <2>7 DEF Performed
    <2>10. Performed(g) = [we |-> r.we, row |-> r.row]
      BY <2>2, <2>6, <2>8, <2>9, Zenon
    <2>. QED  BY <1>1, <1>3, <2>3, <2>5, <2>6, <2>10
  <1>4. CASE ~(Column(bm, refresh_req) /\ cmd_ready)
    <2>1. g.op \notin {"RD", "WR"}
      <3>1. CASE cmd_valid(bm, refresh_req) /\ cmd_ready
        <4>1. g = c /\ (cmd_precharge(bm) \/ cmd_activate(bm))
          BY <1>4, <3>1 DEF Given, Received, cmd_valid
        <4>2. c.op = "PRE" \/ c.op = "ACT"
          BY <1>1, <3>1, <4>1, CmdCases
        <4>. QED  BY <4>1, <4>2
      <3>2. CASE ~(cmd_valid(bm, refresh_req) /\ cmd_ready)
        <4>1. g = move[2]
          BY <3>2 DEF Given, Received
        <4>. QED  BY <1>2, <4>1
      <3>. QED  BY <3>1, <3>2
    <2> HIDE DEF g
    <2>. QED  BY <1>1, <1>4, <2>1, Zenon DEF Performed
  <1>. QED  BY <1>3, <1>4

-----------------------------------------------------------------------------
(* The inductive invariant.                                                 *)

(* It holds at power-on.                                                    *)
LEMMA InitIInv == Init => IInv
  <1> SUFFICES ASSUME Init PROVE IInv
    OBVIOUS
  <1>1. bm = BmInit /\ bank = BankInit /\ refresh = "idle" /\ access = NoAccess
    BY DEF Init
  <1>2. InStep(bm, bank, refresh)
    BY <1>1, InitInStep
  <1>. QED  BY <1>1, <1>2 DEF IInv, TypeOK, InStep

(* Every step of the bank machine keeps the invariant.                      *)
LEMMA NextIInv == IInv /\ [Next]_vars => IInv'
  <1> SUFFICES ASSUME IInv, [Next]_vars PROVE IInv'
    OBVIOUS
  <1>1. CASE UNCHANGED vars
    <2>1. bm' = bm /\ bank' = bank /\ refresh' = refresh /\ access' = access
      BY <1>1 DEF vars
    <2>. QED  BY <2>1 DEF IInv, TypeOK
  <1>2. CASE Next
    <2>1. PICK arriving \in Arrivals, cmd_ready \in BOOLEAN, move \in RefresherMoves :
              Clock(arriving, cmd_ready, move)
      BY <1>2 DEF Next, Regular, Precharge, AutoPrecharge, Activate, Refresh, WaitTRP, WaitTRCD,
                  Edge
    <2>2. /\ arriving \in MayArrive(bm) /\ move \in PhaseMoves(bm, bank, refresh)
          /\ InStep(bm, bank, refresh)
      BY DEF Arrivals, RefresherMoves, IInv
    <2>3. InStep(bm', bank', refresh')
      <3>1. Clocked(bm, bank, refresh, arriving, cmd_ready, move, bm', bank', refresh')
        BY <2>1, ClockIsClocked
      <3>. QED  BY <2>2, <3>1, EdgeStep
    <2>4. access' \in Requests \cup {NoAccess}
      BY <2>1, AccessIsRequest
    <2>. QED  BY <2>3, <2>4 DEF IInv, TypeOK, InStep
  <1>. QED  BY <1>1, <1>2

-----------------------------------------------------------------------------
(* The order of the requests.                                               *)

Rest(q) == IF q = <<>> THEN q ELSE Tail(q)
Join(p, q) == p \o q

(* Joining queues keeps their type, is associative, and the empty queue     *)
(* adds nothing.                                                            *)
LEMMA Joined ==
    ASSUME NEW S
    PROVE  /\ \A p, q \in Seq(S) : Join(p, q) \in Seq(S)
           /\ \A p, q, r \in Seq(S) : Join(Join(p, q), r) = Join(p, Join(q, r))
           /\ \A q \in Seq(S) : Join(q, <<>>) = q /\ Join(<<>>, q) = q
           /\ \A r \in S, q \in Seq(S) : /\ Join(<<r>>, q) # <<>> /\ Head(Join(<<r>>, q)) = r
                                        /\ Tail(Join(<<r>>, q)) = q
  <1>1. ASSUME NEW p \in Seq(S), NEW q \in Seq(S), NEW r \in Seq(S)
        PROVE  Join(Join(p, q), r) = Join(p, Join(q, r))
    BY ConcatAssociative DEF Join
  <1>2. ASSUME NEW p \in Seq(S), NEW q \in Seq(S)
        PROVE  Join(p, q) \in Seq(S)
    BY DEF Join
  <1>3. ASSUME NEW q \in Seq(S) PROVE Join(q, <<>>) = q /\ Join(<<>>, q) = q
    BY ConcatEmptySeq DEF Join
  <1>4. ASSUME NEW r \in S, NEW q \in Seq(S)
        PROVE  Join(<<r>>, q) # <<>> /\ Head(Join(<<r>>, q)) = r /\ Tail(Join(<<r>>, q)) = q
    BY DEF Join
  <1>. QED  BY <1>1, <1>2, <1>3, <1>4

(* What First takes of a queue and what it leaves make up the queue.        *)
LEMMA FirstRest ==
    ASSUME NEW S, NEW q \in Seq(S)
    PROVE  /\ Rest(q) \in Seq(S) /\ Join(First(q), Rest(q)) = q
           /\ Len(q) <= 1 => First(q) = q
  <1>1. CASE q = <<>>
    BY <1>1 DEF First, Rest, Join
  <1>2. CASE q # <<>>
    <2>1. Tail(q) \in Seq(S) /\ <<Head(q)>> \o Tail(q) = q
      BY <1>2, HeadTailProperties
    <2>2. Len(q) <= 1 => <<Head(q)>> = q
      BY <1>2
    <2>. QED  BY <1>2, <2>1, <2>2 DEF First, Rest, Join
  <1>. QED  BY <1>1, <1>2

(* Without its output register the FIFO has nothing in it.                  *)
OutUnused == cmd_buffer_buffered \/ bm.out = <<>>

(* The buffers are one queue: a request that moves from one to the next     *)
(* keeps its place, the one performed was the oldest, and the one that      *)
(* arrives is the youngest, whether the FIFO has an output register or not. *)
LEMMA PendingStep ==
    ASSUME TypeOK, OutUnused, NEW arriving \in Seq(Requests), NEW performed \in BOOLEAN,
           performed => bm.cb # <<>>
    PROVE  LET pending == Join(Join(CbNext(bm, performed), OutNext(bm, performed)),
                               MemNext(bm, arriving, performed))
           IN  /\ ~performed => pending = Join(Pending(bm), arriving)
               /\ performed => /\ Pending(bm) # <<>> /\ Head(Pending(bm)) = bm.cb[1]
                              /\ pending = Join(Tail(Pending(bm)), arriving)
  <1>0. /\ \A p, q \in Seq(Requests) : Join(p, q) \in Seq(Requests)
        /\ \A p, q, r \in Seq(Requests) : Join(Join(p, q), r) = Join(p, Join(q, r))
        /\ \A q \in Seq(Requests) : Join(q, <<>>) = q /\ Join(<<>>, q) = q
    BY Joined
  <1>1. PICK cb \in Seq(Requests), out \in Seq(Requests), mem \in Seq(Requests) :
            /\ bm.cb = cb /\ bm.out = out /\ bm.mem = mem
            /\ Len(cb) <= 1 /\ Len(out) <= 1
    BY DEF TypeOK, PairTyped, BmTyped
  <1>2. PICK kept \in Seq(Requests) :
            /\ kept = IF performed THEN <<>> ELSE cb
            /\ kept = <<>> <=> cb_load(bm, performed)
    <2>1. <<>> \in Seq(Requests)
      OBVIOUS
    <2>. QED  BY <1>1, <2>1 DEF cb_load
  <1>3. PICK first \in Seq(Requests), rest \in Seq(Requests) :
            first = First(mem) /\ rest = Rest(mem) /\ Join(first, rest) = mem
    BY FirstType, FirstRest
  <1>4. First(out) = out
    BY <1>1, FirstRest
  <1>5. PICK load \in BOOLEAN : load <=> cb_load(bm, performed)
    OBVIOUS
  <1>6. MemTaken(bm, performed) <=>
            mem # <<>> /\ (load \/ (cmd_buffer_buffered /\ out = <<>>))
    BY <1>1, <1>5 DEF MemTaken
  <1>7. /\ MemTaken(bm, performed) => MemNext(bm, arriving, performed) = Join(rest, arriving)
        /\ ~MemTaken(bm, performed) => MemNext(bm, arriving, performed) = Join(mem, arriving)
        /\ mem = <<>> => mem = rest
    BY <1>1, <1>3, <1>6 DEF MemNext, Rest, Join
  <1>8. Join(first, Join(rest, arriving)) = Join(mem, arriving)
    BY <1>0, <1>3
  <1>9. load => kept = <<>> /\ Join(kept, out) = out
    BY <1>0, <1>2, <1>5
  <1>10. Join(Join(CbNext(bm, performed), OutNext(bm, performed)), MemNext(bm, arriving, performed))
            = Join(Join(Join(kept, out), mem), arriving)
    <2>1. CASE cmd_buffer_buffered /\ load
      <3>1. /\ CbNext(bm, performed) = out /\ OutNext(bm, performed) = first
            /\ MemNext(bm, arriving, performed) = Join(rest, arriving)
        BY <1>1, <1>3, <1>4, <1>5, <1>6, <1>7, <2>1 DEF CbNext, OutNext, lookahead
      <3>2. Join(Join(out, first), Join(rest, arriving)) = Join(out, Join(mem, arriving))
        BY <1>0, <1>8
      <3>3. Join(out, Join(mem, arriving)) = Join(Join(out, mem), arriving)
        BY <1>0
      <3>. QED  BY <1>9, <2>1, <3>1, <3>2, <3>3
    <2>2. CASE cmd_buffer_buffered /\ ~load /\ out = <<>>
      <3>1. /\ CbNext(bm, performed) = kept /\ OutNext(bm, performed) = first
            /\ MemNext(bm, arriving, performed) = Join(rest, arriving)
        BY <1>1, <1>2, <1>3, <1>5, <1>6, <1>7, <2>2 DEF CbNext, OutNext, cb_load
      <3>2. Join(Join(kept, first), Join(rest, arriving)) = Join(kept, Join(mem, arriving))
        BY <1>0, <1>8
      <3>3. Join(kept, Join(mem, arriving)) = Join(Join(kept, mem), arriving)
        BY <1>0
      <3>4. Join(kept, out) = kept
        BY <1>0, <2>2
      <3>. QED  BY <3>1, <3>2, <3>3, <3>4
    <2>3. CASE cmd_buffer_buffered /\ ~load /\ out # <<>>
      <3>1. /\ CbNext(bm, performed) = kept /\ OutNext(bm, performed) = out
            /\ MemNext(bm, arriving, performed) = Join(mem, arriving)
        BY <1>1, <1>2, <1>5, <1>6, <1>7, <2>3 DEF CbNext, OutNext, cb_load
      <3>2. Join(Join(kept, out), Join(mem, arriving)) = Join(Join(Join(kept, out), mem), arriving)
        <4>1. Join(kept, out) \in Seq(Requests)
          BY <1>0
        <4>. QED  BY <1>0, <4>1
      <3>. QED  BY <3>1, <3>2
    <2>4. CASE ~cmd_buffer_buffered /\ load
      <3>1. /\ CbNext(bm, performed) = first /\ OutNext(bm, performed) = <<>> /\ out = <<>>
            /\ MemNext(bm, arriving, performed) = Join(rest, arriving)
        BY <1>1, <1>3, <1>5, <1>6, <1>7, <2>4 DEF CbNext, OutNext, lookahead, OutUnused
      <3>2. Join(first, <<>>) = first
        BY <1>0
      <3>3. Join(Join(kept, out), mem) = mem
        <4>1. kept = <<>> /\ Join(kept, out) = <<>>
          BY <1>9, <2>4, <3>1
        <4>. QED  BY <1>0, <4>1
      <3>. QED  BY <1>8, <3>1, <3>2, <3>3
    <2>5. CASE ~cmd_buffer_buffered /\ ~load
      <3>1. /\ CbNext(bm, performed) = kept /\ OutNext(bm, performed) = out
            /\ MemNext(bm, arriving, performed) = Join(mem, arriving)
        BY <1>1, <1>2, <1>5, <1>6, <1>7, <2>5 DEF CbNext, OutNext, cb_load
      <3>2. Join(Join(kept, out), Join(mem, arriving)) = Join(Join(Join(kept, out), mem), arriving)
        <4>1. Join(kept, out) \in Seq(Requests)
          BY <1>0
        <4>. QED  BY <1>0, <4>1
      <3>. QED  BY <3>1, <3>2
    <2>. QED  BY <2>1, <2>2, <2>3, <2>4, <2>5
  <1>11. Pending(bm) = Join(Join(cb, out), mem)
    BY <1>1 DEF Pending, Join
  <1>12. CASE ~performed
    BY <1>2, <1>10, <1>11, <1>12
  <1>13. CASE performed
    <2>1. kept = <<>> /\ cb # <<>>
      BY <1>1, <1>2, <1>13
    <2>2. PICK r \in Requests : cb = <<r>> /\ bm.cb[1] = r
      <3>1. First(cb) = cb /\ First(cb) = <<Head(cb)>>
        BY <1>1, <2>1, FirstRest DEF First
      <3>2. Head(cb) \in Requests
        BY <2>1
      <3>3. bm.cb = <<Head(cb)>>
        BY <1>1, <3>1
      <3>. QED  BY <3>1, <3>2, <3>3
    <2>3. PICK later \in Seq(Requests) : later = Join(out, mem)
      BY <1>0
    <2>4. /\ Pending(bm) = Join(<<r>>, later)
          /\ Join(Join(Join(kept, out), mem), arriving) = Join(later, arriving)
      <3>1. Join(Join(cb, out), mem) = Join(cb, Join(out, mem)) /\ Join(<<>>, out) = out
        BY <1>0
      <3>. QED  BY <1>11, <2>1, <2>2, <2>3, <3>1
    <2>5. /\ Join(<<r>>, later) # <<>> /\ Head(Join(<<r>>, later)) = r
          /\ Tail(Join(<<r>>, later)) = later
      BY Joined
    <2>. QED  BY <1>10, <1>13, <2>2, <2>4, <2>5
  <1>. QED  BY <1>12, <1>13

-----------------------------------------------------------------------------
(* Theorems.                                                                *)

(* Every register of the bank machine and of the DRAM bank stays in its     *)
(* type, and the FIFO of cmd_buffer_depth entries never overflows.          *)
THEOREM Typed == Spec => []TypeOK
  <1>1. IInv => TypeOK
    BY DEF IInv
  <1>. QED  BY <1>1, InitIInv, NextIInv, PTL DEF Spec

(* Every command that the bank machine presents is legal for the DRAM bank, *)
(* for every value of the timings, whatever the multiplexer and the         *)
(* refresher do.                                                            *)
THEOREM CommandsAreLegal == Spec => []CommandsLegal
  <1>1. IInv => CommandsLegal
    BY PresentedIsLegal DEF IInv, CommandsLegal
  <1>. QED  BY <1>1, InitIInv, NextIInv, PTL DEF Spec

(* A row is opened or closed only for a request that is in cmd_buffer.      *)
THEOREM RowCyclesHaveRequests == Spec => []RowCycleHasRequest
  <1>1. IInv => RowCycleHasRequest
    BY DEF IInv, InStep, RowCycleHasRequest
  <1>. QED  BY <1>1, InitIInv, NextIInv, PTL DEF Spec

(* A refresh is granted only to a quiet bank whose last write has           *)
(* recovered, and finds it closed.                                          *)
THEOREM RefreshGrantsAreSafe == Spec => []RefreshGrantSafe
  <1>1. IInv => RefreshGrantSafe
    <2> SUFFICES ASSUME IInv PROVE RefreshGrantSafe
      OBVIOUS
    <2>1. bank \in Banks /\ bank.wr \in Nat /\ tWTP \in Nat
      BY DramTimings DEF IInv, TypeOK, PairTyped, Banks, Ages
    <2>2. bm.fsm = "REFRESH" => ~cmd_valid(bm, TRUE)
      BY DEF cmd_valid, Column, cmd_precharge, cmd_activate, row_open
    <2>3. refresh = "granted" => PrechargeRecovered(bank)
      BY <2>1 DEF IInv, InStep, PhaseAgrees, TimersAgree, TimerAgrees, PrechargeRecovered
    <2>4. refresh = "precharged" /\ tRP <= bank.pre => LegalRefresh(bank)
      BY DEF IInv, InStep, PhaseAgrees, BankAgrees, LegalRefresh, Closed
    <2>. QED  BY <2>2, <2>3, <2>4 DEF RefreshGrantSafe, IInv, InStep, PhaseAgrees
  <1>. QED  BY <1>1, InitIInv, NextIInv, PTL DEF Spec

-----------------------------------------------------------------------------
(* Refinement.                                                              *)

(* A clock edge in which the DRAM performs an access is a step Perform of   *)
(* the queue, every other one a step Wait.                                  *)
LEMMA StepOfQueue ==
    ASSUME IInv, OutUnused, [Next]_vars
    PROVE  [Queue!Next]_<<Pending(bm), access>> /\ OutUnused'
  <1>1. CASE UNCHANGED vars
    BY <1>1 DEF vars, Pending, OutUnused
  <1>2. CASE Next
    <2>1. PICK arriving \in Arrivals, cmd_ready \in BOOLEAN, move \in RefresherMoves :
              Clock(arriving, cmd_ready, move)
      BY <1>2 DEF Next, Regular, Precharge, AutoPrecharge, Activate, Refresh, WaitTRP, WaitTRCD,
                  Edge
    <2>2. arriving \in Queue!Arrivals /\ arriving \in Seq(Requests)
      <3>1. arriving = <<>> \/ \E q \in Requests : arriving = <<q>>
        BY DEF Arrivals, MayArrive
      <3>2. arriving \in Seq(Requests)
        <4>1. CASE arriving = <<>>
          BY <4>1
        <4>2. CASE \E q \in Requests : arriving = <<q>>
          BY <4>2
        <4>. QED  BY <3>1, <4>1, <4>2
      <3>. QED  BY <3>1, <3>2 DEF Queue!Arrivals
    <2>3. PICK performed \in BOOLEAN : performed <=> (Column(bm, refresh_req) /\ cmd_ready)
      BY DEF Column
    <2>4. performed = (Column(bm, refresh_req) /\ cmd_ready)
      BY <2>3, Zenon DEF Column
    <2>5. /\ bm'.mem = MemNext(bm, arriving, performed)
          /\ bm'.out = OutNext(bm, performed) /\ bm'.cb = CbNext(bm, performed)
      BY <2>1, <2>4 DEF Clock, BmNext
    <2>6. performed => bm.cb # <<>>
      BY <2>3 DEF Column
    <2>7. Pending(bm)' = Join(Join(CbNext(bm, performed), OutNext(bm, performed)),
                              MemNext(bm, arriving, performed))
      BY <2>5, Zenon DEF Pending, Join
    <2>8. OutUnused'
      BY <2>5 DEF OutUnused, OutNext
    <2>9. CASE performed
      <3>1. access' = bm.cb[1]
        BY <2>1, <2>3, <2>9, AccessIsRequest
      <3>2. /\ Pending(bm) # <<>> /\ Head(Pending(bm)) = bm.cb[1]
            /\ Pending(bm)' = Tail(Pending(bm)) \o arriving
        BY <2>2, <2>6, <2>7, <2>9, PendingStep DEF IInv, Join
      <3>3. Queue!Perform(arriving)
        BY <3>1, <3>2 DEF Queue!Perform
      <3>. QED  BY <2>2, <2>8, <3>3 DEF Queue!Next
    <2>10. CASE ~performed
      <3>1. access' = NoAccess
        BY <2>1, <2>3, <2>10, AccessIsRequest
      <3>2. Pending(bm)' = Pending(bm) \o arriving
        BY <2>2, <2>6, <2>7, <2>10, PendingStep DEF IInv, Join
      <3>3. Queue!Wait(arriving)
        BY <3>1, <3>2 DEF Queue!Wait
      <3>. QED  BY <2>2, <2>8, <3>3 DEF Queue!Next
    <2>. QED  BY <2>9, <2>10
  <1>. QED  BY <1>1, <1>2

(* The bank machine implements RequestQueue: the requests it accepts are    *)
(* performed by the DRAM in order, once each, on the right row, whatever    *)
(* the depth of the lookahead FIFO, with and without its output register,   *)
(* and however refreshes and self-precharges interrupt them.                *)
THEOREM ServesInOrder == Spec => InOrder
  <1>1. Init => Queue!Init /\ OutUnused
    <2> SUFFICES ASSUME Init PROVE Queue!Init /\ OutUnused
      OBVIOUS
    <2>1. bm.mem = <<>> /\ bm.out = <<>> /\ bm.cb = <<>> /\ access = NoAccess
      BY DEF Init, BmInit
    <2>2. (<<>> \o <<>>) \o <<>> = <<>>
      OBVIOUS
    <2>. QED  BY <2>1, <2>2 DEF Queue!Init, Pending, OutUnused
  <1>2. IInv /\ OutUnused /\ [Next]_vars => [Queue!Next]_<<Pending(bm), access>> /\ OutUnused'
    BY StepOfQueue
  <1>. QED  BY <1>1, <1>2, InitIInv, NextIInv, PTL DEF Spec, InOrder, Queue!Spec
=============================================================================
