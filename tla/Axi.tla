---------------------------------- MODULE Axi ----------------------------------
(* litedram/frontend/axi.py: an AXI master on a native port.  Write and read   *)
(* paths share the port's commands; each reserves its data before it sends a   *)
(* command, since the port never waits.  AXIBurst2Beat, Buffer and SyncFIFO    *)
(* are of litex, RoundRobin of migen.  Addresses are words from base_address.   *)
EXTENDS NativePort, RoundRobin

CONSTANT buffer_depth       \* w_buffer_depth and r_buffer_depth
ASSUME AxiAssumption == buffer_depth \in Nat /\ buffer_depth >= 2

W == 2                      \* bytes of a word: strobes select them

(* A buffered SyncFIFO: a word passes through an output register, and level    *)
(* counts both.                                                                *)
FifoInit == [inner |-> <<>>, out |-> <<>>]
Level(f) == Len(f.inner) + Len(f.out)
FifoRoom(f) == Len(f.inner) < buffer_depth
FifoStep(f, push, pop) ==
    LET move == f.inner # <<>> /\ (f.out = <<>> \/ pop)
    IN [ inner |-> (IF move THEN Tail(f.inner) ELSE f.inner) \o (IF FifoRoom(f) THEN push ELSE <<>>),
         out |-> IF move THEN <<Head(f.inner)>> ELSE IF pop THEN <<>> ELSE f.out ]
(* A FIFO whose sink.ready nobody reads: a push into a full one is lost. *)
Pushed(q, push) == IF Len(q) < buffer_depth THEN q \o push ELSE q

AxiInit(rmw) ==
    [ aw |-> <<>>, aw_beat |-> 0, w_buffer |-> FifoInit, w_buffer_level |-> 0,
      w_id |-> <<>>, resp_buffer |-> <<>>,
      ar |-> <<>>, ar_beat |-> 0, r_buffer |-> FifoInit, r_buffer_level |-> 0, r_id |-> <<>>,
      grant |-> 0,
      with_rmw |-> rmw, rmw |-> "IDLE", rmw_data |-> Zero(W),
      rmw_cmd_done |-> FALSE, rmw_data_done |-> FALSE ]

-----------------------------------------------------------------------------
(* The master: independent channels, a burst of each kind at a time, its       *)
(* address before, with or after its data.  aw and ar are the bursts not taken *)
(* yet, w the beats; the _on flags say that they are presented.  written is    *)
(* the burst whose response is awaited, expect the words of the read under way.*)
AxiBursts(lens) ==
    { r \in [adr : Addrs(W), len : lens, id : Addrs(W)] :
        r.adr + r.len <= NCells \div W /\ r.id = r.adr }
Strobes == {Lanes(W), {0}}
AxiBeat(adr, w) ==
    \A l \in Lanes(W) : /\ w.dat[l] # 0 => CellOf(W, adr, l) = port.focus /\ l \in w.strb
                        /\ l \notin w.strb => \E k \in Lanes(W) : CellOf(W, adr, k) = port.focus
AxiMasterInit(lens, w_first) ==
    [ aw |-> <<>>, aw_on |-> FALSE, w |-> <<>>, w_on |-> FALSE, written |-> <<>>,
      ar |-> <<>>, expect |-> <<>>, ideal |-> IdealInit, answered |-> FALSE, wrong |-> FALSE,
      lens |-> lens, w_first |-> w_first ]
w_valid == master.w # <<>> /\ master.w_on
w_beat == Head(master.w)

(* What a master's write does to what reads may return: while it is under way  *)
(* both values, after its response only the new one.                           *)
WordMayBe(sets, w) == [l \in Lanes(W) |-> IF l \in w.strb THEN sets[l] \cup {w.dat[l]} ELSE sets[l]]
IdealBurst(ideal, adr, ws, response) ==
    [c \in Cells |->
        LET k == c \div W - adr + 1
            l == c % W
        IN IF k \notin DOMAIN ws \/ l \notin ws[k].strb THEN ideal[c]
           ELSE IF response THEN {ws[k].dat[l]} ELSE ideal[c] \cup {ws[k].dat[l]}]

-----------------------------------------------------------------------------
(* Read-modify-write of a partial word. *)
partial == w_valid /\ w_beat.strb # Lanes(W)
rmw_request(b) == b.with_rmw /\ (b.rmw # "IDLE" \/ partial)

(* AXIBurst2Beat: a beat is valid while a burst waits in the buffer. *)
aw_valid(b) == b.aw # <<>>
aw_last(b) == b.aw # <<>> /\ b.aw_beat = Head(b.aw).len - 1
aw_addr(b) == IF b.aw # <<>> THEN Head(b.aw).adr + b.aw_beat ELSE 0
ar_last(b) == b.ar_beat = Head(b.ar).len - 1

(* Mutant: the word a command needs is counted one too early. *)
can_writeEarly(b) == Level(b.w_buffer) >= b.w_buffer_level /\ ~rmw_request(b)
can_write(b) == Level(b.w_buffer) > b.w_buffer_level /\ ~rmw_request(b)
can_read(b) == b.r_buffer_level # buffer_depth /\ ~rmw_request(b)
write_request(b) == aw_valid(b) /\ can_write(b)
read_request(b) == b.ar # <<>> /\ can_read(b)

AxiCmd(b) ==
    CASE write_request(b) /\ b.grant = 0 -> <<[we |-> TRUE, addr |-> aw_addr(b), last |-> aw_last(b)]>>
      [] read_request(b) /\ b.grant = 1 ->
           <<[we |-> FALSE, addr |-> Head(b.ar).adr + b.ar_beat, last |-> ar_last(b)]>>
      [] b.rmw = "READ" -> <<[we |-> FALSE, addr |-> aw_addr(b), last |-> aw_last(b)]>>
      [] b.rmw = "WRITE" /\ ~b.rmw_cmd_done -> <<[we |-> TRUE, addr |-> aw_addr(b), last |-> aw_last(b)]>>
      [] OTHER -> <<>>
sent(b, i, we) == AxiCmd(b) # <<>> /\ i.cmd_ready /\ Head(AxiCmd(b)).we = we
aw_ready(b, i) == sent(b, i, TRUE)
ar_ready(b, i) == sent(b, i, FALSE) /\ b.rmw # "READ"

(* Reservations and grants of the read-modify-write.  The read path does not   *)
(* count the command of a read-modify-write.                                   *)
w_buffer_queue(b, i) == sent(b, i, TRUE)
r_buffer_queue(b, i) == sent(b, i, FALSE) /\ ~rmw_request(b)
rmw_wgrant(b, i) == ~w_buffer_queue(b, i) /\ b.w_buffer_level = 0
rmw_rgrant(b, i) == ~r_buffer_queue(b, i) /\ b.r_buffer_level = 0

(* Data: sent only after a matching command was accepted, in this cycle or     *)
(* before; read data by-passes the buffer during a read-modify-write.          *)
w_buffer_send(b, i) == b.w_buffer_level # 0 \/ w_buffer_queue(b, i)
w_dequeue(b, i) == b.w_buffer.out # <<>> /\ w_buffer_send(b, i) /\ i.wdata_ready
w_sink(b) ==
    IF b.rmw = "WRITE" THEN IF b.rmw_data_done THEN <<>>
                            ELSE <<[dat |-> b.rmw_data, strb |-> Lanes(W), last |-> Len(master.w) = 1]>>
    ELSE IF w_valid /\ ~rmw_request(b)
    THEN <<[dat |-> w_beat.dat, strb |-> w_beat.strb, last |-> Len(master.w) = 1]>> ELSE <<>>
w_taken(b) == w_sink(b) # <<>> /\ FifoRoom(b.w_buffer)
r_bypass(b, i) == rmw_request(b) /\ rmw_rgrant(b, i)
AxiDrives(b, i) ==
    [ cmd |-> AxiCmd(b),
      wdata |-> IF b.w_buffer.out # <<>> /\ w_buffer_send(b, i)
                THEN LET w == Head(b.w_buffer.out) IN <<[data |-> w.dat, we |-> w.strb]>> ELSE <<>>,
      rdata_ready |-> r_bypass(b, i) \/ FifoRoom(b.r_buffer) ]

-----------------------------------------------------------------------------
(* The write path; bready is the master's b.ready. *)
AxiWrite(v, b, i, bready) ==
    LET aw_done == aw_ready(b, i) /\ aw_last(b)
        resp == w_dequeue(b, i) /\ Head(b.w_buffer.out).last
        room == b.aw = <<>> \/ aw_done
    IN [v EXCEPT
         !.aw = IF room THEN (IF master.aw_on THEN master.aw ELSE <<>>) ELSE @,
         !.aw_beat = IF aw_ready(b, i) /\ aw_valid(b) THEN (IF aw_last(b) THEN 0 ELSE @ + 1) ELSE @,
         !.w_buffer = FifoStep(@, w_sink(b), w_dequeue(b, i)),
         !.w_buffer_level = @ + (IF w_buffer_queue(b, i) THEN 1 ELSE 0) - (IF w_dequeue(b, i) THEN 1 ELSE 0),
         !.w_id = LET q == IF resp /\ @ # <<>> THEN Tail(@) ELSE @
                  IN IF aw_ready(b, i) /\ aw_valid(b) /\ b.aw_beat = 0
                     THEN Pushed(q, <<Head(b.aw).id>>) ELSE q,
         !.resp_buffer = LET q == IF bready /\ @ # <<>> THEN Tail(@) ELSE @
                         IN IF resp THEN Pushed(q, <<IF b.w_id = <<>> THEN 0 ELSE Head(b.w_id)>>) ELSE q]
(* The read path; rready is the master's r.ready. *)
AxiRead(v, b, i, rready) ==
    LET ar_done == ar_ready(b, i) /\ ar_last(b)
        taken == rready /\ b.r_buffer.out # <<>>
    IN [v EXCEPT
         !.ar = IF b.ar = <<>> \/ ar_done THEN master.ar ELSE @,
         !.ar_beat = IF ar_ready(b, i) THEN (IF ar_done THEN 0 ELSE @ + 1) ELSE @,
         !.r_buffer = FifoStep(@, IF r_bypass(b, i) THEN <<>> ELSE i.rdata, taken),
         !.r_buffer_level = @ + (IF r_buffer_queue(b, i) THEN 1 ELSE 0) - (IF taken THEN 1 ELSE 0),
         !.r_id = LET q == IF taken /\ @ # <<>> THEN Tail(@) ELSE @
                  IN IF ar_ready(b, i) THEN Pushed(q, <<[id |-> Head(b.ar).id, last |-> ar_last(b)]>>)
                     ELSE q]
(* The read-modify-write FSM. *)
AxiRmw(v, b, i) ==
    CASE b.rmw = "IDLE" ->
           [v EXCEPT !.rmw_cmd_done = FALSE, !.rmw_data_done = FALSE,
                     !.rmw = IF rmw_request(b) /\ rmw_rgrant(b, i) /\ rmw_wgrant(b, i) THEN "READ" ELSE @]
      [] b.rmw = "READ" -> [v EXCEPT !.rmw = IF i.cmd_ready THEN "MODIFY" ELSE @]
      [] b.rmw = "MODIFY" /\ i.rdata # <<>> ->
           [v EXCEPT !.rmw = "WRITE",
                     !.rmw_data = [l \in Lanes(W) |-> IF l \in w_beat.strb THEN w_beat.dat[l]
                                                      ELSE Head(i.rdata)[l]]]
      [] b.rmw = "WRITE" ->
           [v EXCEPT !.rmw_cmd_done = @ \/ i.cmd_ready, !.rmw_data_done = @ \/ w_taken(b),
                     !.rmw = IF (i.cmd_ready \/ b.rmw_cmd_done) /\ (FifoRoom(b.w_buffer) \/ b.rmw_data_done)
                             THEN "IDLE" ELSE @]
      [] OTHER -> v
arbiter_next(b, i) ==
    RoundRobinNext(2, b.grant,
                   {k \in {0, 1} : IF k = 0 THEN write_request(b) ELSE read_request(b)},
                   AxiCmd(b) = <<>> \/ (i.cmd_ready /\ Head(AxiCmd(b)).last))
AxiNext(b, i, bready, rready) ==
    [AxiRmw(AxiRead(AxiWrite(b, b, i, bready), b, i, rready), b, i) EXCEPT !.grant = arbiter_next(b, i)]

-----------------------------------------------------------------------------
(* The master's clock edge. *)
AxiWrites ==        \* a new write burst: address and beats
    UNION { { <<a, ws>> : ws \in { s \in [1 .. a.len -> [dat : Words(W), strb : Strobes]] :
                                     \A k \in 1 .. a.len : AxiBeat(a.adr + k - 1, s[k]) } }
            : a \in AxiBursts(master.lens) }
AxiStarts ==        \* what the master may start: a write, a read, both, nothing
    { m \in [w : {<<>>} \cup {<<x>> : x \in AxiWrites}, r : {<<>>} \cup {<<a>> : a \in AxiBursts(master.lens)}] :
        /\ m.w # <<>> => master.written = <<>>
        /\ m.r # <<>> => master.expect = <<>> /\ m.w = <<>> }

AxiMasterNext(b, i, bready, rready, m, aw_go, w_go) ==
    LET aw_taken == master.aw # <<>> /\ master.aw_on /\ (b.aw = <<>> \/ (aw_ready(b, i) /\ aw_last(b)))
        ar_taken == master.ar # <<>> /\ (b.ar = <<>> \/ (ar_ready(b, i) /\ ar_last(b)))
        beat == IF b.rmw = "WRITE" THEN w_taken(b) ELSE w_valid /\ w_taken(b)
        got_b == bready /\ b.resp_buffer # <<>>
        got_r == rready /\ b.r_buffer.out # <<>>
        new == m.w # <<>>
        ideal1 == IF got_b /\ master.written # <<>>
                  THEN LET x == Head(master.written) IN IdealBurst(master.ideal, x[1].adr, x[2], TRUE)
                  ELSE master.ideal
        ideal2 == IF new THEN IdealBurst(ideal1, m.w[1][1].adr, m.w[1][2], FALSE) ELSE ideal1
        late(k, x) == IF new THEN LET j == x.adr - m.w[1][1].adr + 1
                                  IN IF j \in DOMAIN m.w[1][2] THEN WordMayBe(x.sets, m.w[1][2][j]) ELSE x.sets
                      ELSE x.sets
        left == IF got_r /\ master.expect # <<>> THEN Tail(master.expect) ELSE master.expect
        asked == IF m.r = <<>> THEN <<>>
                 ELSE [k \in 1 .. m.r[1].len |->
                         [adr |-> m.r[1].adr + k - 1, sets |-> IdealWord(ideal2, W, m.r[1].adr + k - 1),
                          id |-> m.r[1].id, last |-> k = m.r[1].len]]
    IN [master EXCEPT
         !.aw = IF new THEN <<m.w[1][1]>> ELSE IF aw_taken THEN <<>> ELSE @,
         !.aw_on = (master.aw_on /\ ~aw_taken) \/ ((new \/ (master.aw # <<>> /\ ~aw_taken)) /\ aw_go),
         !.w = IF new THEN m.w[1][2] ELSE IF beat THEN Tail(@) ELSE @,
         !.w_on = IF w_valid /\ ~beat THEN TRUE
                  ELSE w_go /\ (master.w_first \/ (~new /\ (master.aw = <<>> \/ master.aw_on)) \/ (new /\ aw_go)),
         !.written = IF new THEN <<m.w[1]>> ELSE IF got_b THEN <<>> ELSE @,
         !.ar = IF m.r # <<>> THEN m.r ELSE IF ar_taken THEN <<>> ELSE @,
         !.expect = [k \in DOMAIN left |-> [left[k] EXCEPT !.sets = late(k, left[k])]] \o asked,
         !.ideal = ideal2,
         !.answered = got_b \/ got_r,
         !.wrong = \/ @
                   \/ got_b /\ (master.written = <<>> \/ Head(b.resp_buffer) # master.written[1][1].id)
                   \/ got_r /\ \/ master.expect = <<>>
                               \/ b.r_id = <<>>
                               \/ Head(b.r_id) # [id |-> Head(master.expect).id, last |-> Head(master.expect).last]
                               \/ ~Allowed(Head(b.r_buffer.out), Head(master.expect).sets)]

(* A bridge without read-modify-write over a port with byte masks, for any     *)
(* master, and one with it over a port without masks, for a master that writes *)
(* one word at a time and never data before its address.                       *)
AxiUserInit(rmw, lens) ==
    /\ port \in {[PortInit(W, f) EXCEPT !.masks = ~rmw] : f \in Focus}
    /\ master = AxiMasterInit(lens, ~rmw)
    /\ bridge = AxiInit(rmw)
Choice(matters) == IF matters THEN BOOLEAN ELSE {FALSE}
AxiUserTick(e) ==
    LET i == Seen(e)
    IN \E m \in AxiStarts, bready \in Choice(bridge.resp_buffer # <<>>),
          rready \in Choice(bridge.r_buffer.out # <<>>) :
       \E aw_go \in Choice(m.w # <<>> \/ (master.aw # <<>> /\ ~master.aw_on)),
          w_go \in Choice(m.w # <<>> \/ master.w # <<>>) :
       /\ port' = PortNext(e, AxiDrives(bridge, i))
       /\ bridge' = AxiNext(bridge, i, bready, rready)
       /\ master' = AxiMasterNext(bridge, i, bready, rready, m, aw_go, w_go)
=============================================================================
