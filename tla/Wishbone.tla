------------------------------- MODULE Wishbone -------------------------------
(* litedram/frontend/wishbone.py: a Wishbone master on a native port, of the   *)
(* port's width, wider (through the down converter) or narrower (with its own  *)
(* merging of writes and cache of the last word read), and a native user on a  *)
(* Wishbone slave.                                                             *)
EXTENDS Adapters

CONSTANT offset         \* base_address in words of the bus

(* The address on the bus: the window of the memory starts at base_address. *)
adr == offset + req.adr

-----------------------------------------------------------------------------
(* LiteDRAMWishbone2Native, bus at least as wide as the port. *)
WbInit == [state |-> "CMD", aborted |-> FALSE]

(* With a converter in between (ratio > 1) the data is offered from the start: *)
(* it fetches the parts while the FSM waits.                                   *)
WbDrives(b, ratio) ==
    [ cmd |-> IF b.state = "CMD" /\ stb
              THEN <<[we |-> req.we, adr |-> adr - offset, last |-> ~req.we]>> ELSE <<>>,
      wdata |-> IF stb /\ req.we /\ (ratio <= 1 => b.state = "WRITE") THEN <<req.dat>> ELSE <<>> ]

(* The cycle in which the access ends on the native side. *)
WbDone(b, ratio, i) ==
    \/ b.state = "WRITE" /\ WbDrives(b, ratio).wdata # <<>> /\ i.wdata_ready
    \/ b.state = "READ" /\ i.rdata # <<>>
ack(b, ratio, i) == WbDone(b, ratio, i) /\ cyc /\ ~b.aborted
WbNext(b, ratio, i) ==
    CASE b.state = "CMD" ->
           [ state |-> IF stb /\ i.cmd_ready THEN (IF req.we THEN "WRITE" ELSE "READ") ELSE "CMD",
             aborted |-> FALSE ]
      [] b.state \in {"WRITE", "READ"} ->
           [ state |-> IF WbDone(b, ratio, i) THEN "CMD" ELSE b.state,
             aborted |-> b.aborted \/ ~cyc ]

dat_r(i) == IF i.rdata = <<>> THEN Zero(master.width) ELSE Head(i.rdata)

(* The master may give up a read at any time.  It holds a write until ack: the *)
(* data is taken from the bus when the port fetches it.                        *)
WbAborts == stb /\ ~req.we

(* Same width. *)
WbUserInit == /\ port \in {PortInit(1, f) : f \in Focus}
              /\ master = BusInit(1, {TRUE})
              /\ bridge = WbInit
WbUserTick(e) ==
    LET i == Seen(e)
        o == WbDrives(bridge, 1)
        a == ack(bridge, 1, i)
    IN \E next \in BusMoves(a, WbAborts), go \in BOOLEAN :
       /\ port' = PortNext(e, [ cmd |-> IF o.cmd = <<>> THEN <<>>
                                        ELSE <<[we |-> req.we, addr |-> Head(o.cmd).adr]>>,
                                wdata |-> IF o.wdata = <<>> THEN <<>>
                                          ELSE <<[data |-> req.dat, we |-> {0}]>>,
                                rdata_ready |-> TRUE ])
       /\ bridge' = WbNext(bridge, 1, i)
       /\ master' = BusNext(a, dat_r(i), next, go)

(* A bus of twice the width: the FSM and a down converter. *)
WbWideInit == /\ port \in {PortInit(1, f) : f \in Focus}
              /\ master = BusInit(2, {TRUE})
              /\ bridge = [fsm |-> WbInit, converter |-> DownInit]
WbWideTick(e) ==
    LET i == Seen(e)
        s == DownSeen(bridge.converter, 2, i)
        o == WbDrives(bridge.fsm, 2)
        a == ack(bridge.fsm, 2, s)
    IN \E next \in BusMoves(a, WbAborts), go \in BOOLEAN :
       /\ port' = PortNext(e, DownDrives(bridge.converter, 2, o))
       /\ bridge' = [ fsm |-> WbNext(bridge.fsm, 2, s),
                      converter |-> DownNext(bridge.converter, 2, o, i) ]
       /\ master' = BusNext(a, dat_r(s), next, go)

-----------------------------------------------------------------------------
(* _init_burst_upconverter: narrow beats share a native word.  wr is the word  *)
(* being gathered, rd_cache the last word read in this burst.                  *)
BurstInit(ratio) ==
    [ state |-> "CMD", aborted |-> FALSE,
      wr |-> [valid |-> FALSE, addr |-> 0, data |-> Zero(ratio), we |-> {}],
      rd |-> [addr |-> 0, chunk |-> 0, last |-> FALSE],
      rd_cache |-> [valid |-> FALSE, addr |-> 0, data |-> Zero(ratio)] ]

wide_addr(ratio) == (adr - offset) \div ratio
chunk(ratio) == (adr - offset) % ratio
wr_can_merge(b, ratio) ==
    b.wr.valid => b.wr.addr = wide_addr(ratio) /\ chunk(ratio) \notin b.wr.we
wr_flush(b, ratio) == req.last \/ b.wr.we \cup {chunk(ratio)} = Lanes(ratio)
rd_cache_hit(b, ratio) == b.rd_cache.valid /\ b.rd_cache.addr = wide_addr(ratio)

BurstDrives(b) ==
    [ cmd |-> IF b.state = "WRITE_CMD" /\ b.wr.valid THEN <<[we |-> TRUE, addr |-> b.wr.addr]>>
              ELSE IF b.state = "READ_CMD" /\ cyc THEN <<[we |-> FALSE, addr |-> b.rd.addr]>>
              ELSE <<>>,
      wdata |-> IF b.state = "WRITE_DATA" THEN <<[data |-> b.wr.data, we |-> b.wr.we]>> ELSE <<>>,
      rdata_ready |-> b.state = "READ_DATA" ]

(* The answer to the bus: a posted write, a hit in the cache, a word returned. *)
burst_ack(b, ratio, i) ==
    \/ /\ b.state = "CMD" /\ cyc /\ stb
       /\ IF req.we THEN wr_can_merge(b, ratio) ELSE ~b.wr.valid /\ rd_cache_hit(b, ratio)
    \/ b.state = "READ_DATA" /\ i.rdata # <<>> /\ cyc /\ ~b.aborted
burst_dat_r(b, ratio, i) ==
    IF b.state = "READ_DATA" /\ i.rdata # <<>> THEN [l \in {0} |-> Head(i.rdata)[b.rd.chunk]]
    ELSE [l \in {0} |-> b.rd_cache.data[IF stb THEN chunk(ratio) ELSE 0]]

(* Mutant: a write leaves the word read before it in the cache. *)
BurstMergeKeepCache(b, ratio) ==
    [b EXCEPT !.wr = [ valid |-> TRUE, addr |-> wide_addr(ratio),
                       data |-> [@.data EXCEPT ![chunk(ratio)] = req.dat[0]],
                       we |-> @.we \cup {chunk(ratio)} ],
              !.state = IF wr_flush(b, ratio) THEN "WRITE_CMD" ELSE "CMD"]

(* State CMD. *)
BurstMerge(b, ratio) ==
    [b EXCEPT !.rd_cache.valid = FALSE,
              !.wr = [ valid |-> TRUE, addr |-> wide_addr(ratio),
                       data |-> [@.data EXCEPT ![chunk(ratio)] = req.dat[0]],
                       we |-> @.we \cup {chunk(ratio)} ],
              !.state = IF wr_flush(b, ratio) THEN "WRITE_CMD" ELSE "CMD"]
BurstCmd(b, ratio) ==
    LET c == [b EXCEPT !.aborted = FALSE]
    IN CASE ~cyc -> [c EXCEPT !.rd_cache.valid = FALSE, !.state = IF b.wr.valid THEN "WRITE_CMD" ELSE @]
         [] cyc /\ ~stb -> c
         [] cyc /\ stb /\ req.we ->
              IF wr_can_merge(b, ratio) THEN BurstMerge(c, ratio)
              ELSE [c EXCEPT !.rd_cache.valid = FALSE, !.state = "WRITE_CMD"]
         [] cyc /\ stb /\ ~req.we ->
              IF b.wr.valid THEN [c EXCEPT !.state = "WRITE_CMD"]
              ELSE IF rd_cache_hit(b, ratio) THEN [c EXCEPT !.rd_cache.valid = ~req.last]
              ELSE [c EXCEPT !.state = "READ_CMD",
                             !.rd = [addr |-> wide_addr(ratio), chunk |-> chunk(ratio), last |-> req.last]]
(* Mutant: a read that is given up is forgotten before its word came. *)
BurstNextLeaves(b, ratio, i) ==
    CASE b.state = "CMD" -> BurstCmd(b, ratio)
      [] b.state = "WRITE_CMD" -> [b EXCEPT !.state = IF i.cmd_ready THEN "WRITE_DATA" ELSE @]
      [] b.state = "WRITE_DATA" /\ i.wdata_ready ->
           [b EXCEPT !.state = "CMD", !.wr = [@ EXCEPT !.valid = FALSE, !.we = {}]]
      [] b.state = "READ_CMD" ->
           [b EXCEPT !.state = IF ~cyc THEN "CMD" ELSE IF i.cmd_ready THEN "READ_DATA" ELSE @]
      [] b.state = "READ_DATA" /\ (i.rdata # <<>> \/ ~cyc) -> [b EXCEPT !.state = "CMD"]
      [] OTHER -> b
BurstNext(b, ratio, i) ==
    CASE b.state = "CMD" -> BurstCmd(b, ratio)
      [] b.state = "WRITE_CMD" ->
           [b EXCEPT !.state = IF ~b.wr.valid THEN "CMD" ELSE IF i.cmd_ready THEN "WRITE_DATA" ELSE @]
      [] b.state = "WRITE_DATA" /\ i.wdata_ready ->
           [b EXCEPT !.state = "CMD",
                     !.wr = [valid |-> FALSE, addr |-> @.addr, data |-> Zero(ratio), we |-> {}]]
      [] b.state = "READ_CMD" ->
           [b EXCEPT !.state = IF ~cyc THEN "CMD" ELSE IF i.cmd_ready THEN "READ_DATA" ELSE @]
      [] b.state = "READ_DATA" /\ i.rdata # <<>> ->
           [b EXCEPT !.state = "CMD", !.aborted = @ \/ ~cyc,
                     !.rd_cache = [ valid |-> cyc /\ ~b.aborted /\ ~b.rd.last,
                                    addr |-> b.rd.addr, data |-> Head(i.rdata) ]]
      [] b.state = "READ_DATA" /\ i.rdata = <<>> -> [b EXCEPT !.aborted = @ \/ ~cyc]
      [] OTHER -> b

(* A bus of half the width; every request may be given up. *)
WbBurstInit == /\ port \in {PortInit(2, f) : f \in Focus}
               /\ master = BusInit(1, BOOLEAN)
               /\ bridge = BurstInit(2)
WbBurstTick(e) ==
    LET i == Seen(e)
        a == burst_ack(bridge, 2, i)
    IN \E next \in BusMoves(a, TRUE), go \in BOOLEAN :
       /\ port' = PortNext(e, BurstDrives(bridge))
       /\ bridge' = BurstNext(bridge, 2, i)
       /\ master' = BusNext(a, burst_dat_r(bridge, 2, i), next, go)

-----------------------------------------------------------------------------
(* LiteDRAMNative2Wishbone: a native user on a Wishbone slave, here the memory *)
(* itself, which answers in a cycle of its choice (e.ready).  The FSM's only   *)
(* other register is the address.                                              *)
SlaveInit == /\ port \in {PortInit(1, f) : f \in Focus}
             /\ master = NativeInit(1, {TRUE})
             /\ bridge = [state |-> "CMD", adr |-> 0]
SlaveTick(e) ==
    LET valid == master.cmd # <<>>
        strobe == \/ bridge.state = "WRITE" /\ master.wdata # <<>>
                  \/ bridge.state = "READ"
        answer == strobe /\ e.ready
        at == bridge.adr - offset
        s == [ cmd_ready |-> bridge.state = "CMD",
               wdata_ready |-> answer /\ bridge.state = "WRITE",
               rdata |-> IF answer /\ bridge.state = "READ" THEN <<MemWord(at)>> ELSE <<>> ]
    IN \E next \in NativeMoves(s.cmd_ready) :
       /\ bridge' = CASE bridge.state = "CMD" /\ valid ->
                           [ state |-> IF Head(master.cmd).we THEN "WRITE" ELSE "READ",
                             adr |-> Head(master.cmd).adr + offset ]
                      [] answer -> [bridge EXCEPT !.state = "CMD"]
                      [] OTHER -> bridge
       /\ port' = IF s.wdata_ready
                  THEN [port EXCEPT !.mem = MemWrite(@, at, [data |-> Head(master.wdata), we |-> {0}])]
                  ELSE port
       /\ master' = NativeNext(s, next)
=============================================================================
