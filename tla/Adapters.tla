------------------------------- MODULE Adapters -------------------------------
(* litedram/frontend/adapter.py: the width converters and the clock domain     *)
(* crossing between a user's native port (port_from) and a native port of the  *)
(* crossbar (port_to); and the ECC port of litedram/frontend/ecc.py, which     *)
(* stands at the same place.  StrideConverter, SyncFIFO and the asynchronous   *)
(* FIFOs are of litex.                                                         *)
EXTENDS NativePort

CONSTANTS
    cmd_depth, wdata_depth, rdata_depth,    \* of the clock domain crossing
    max_errors      \* where the counters of ECC stop; the code has 2^32 - 1

(* The FIFOs have room for what the port can owe: the code takes depths 4, 16  *)
(* and 16.  rdata_depth needs no bound from above but the words under way.     *)
ASSUME CdcAssumption ==
    /\ cmd_depth \in Nat \ {0} /\ wdata_depth \in Nat /\ rdata_depth \in Nat
    /\ cmd_depth + MaxCmds <= wdata_depth
    /\ MaxCmds <= rdata_depth

-----------------------------------------------------------------------------
(* LiteDRAMNativePortDownConverter: ratio native commands for each command of  *)
(* the user.  c is what port_from drives: [cmd, wdata] sequences of at most    *)
(* one; i is what port_to answers.  wmux selects the part of the user's word   *)
(* that is offered; parts are the words of a read gathered so far, strobe says *)
(* that all are there.                                                         *)
DownInit == [state |-> "IDLE", cmd_count |-> 0, cmd_addr |-> 0, cmd_we |-> FALSE,
             wmux |-> 0, parts |-> <<>>, strobe |-> FALSE]

DownCmdReady(d) == d.state = "IDLE"
DownDrives(d, ratio, c) ==
    [ cmd |-> IF d.state = "CONVERT"
              THEN <<[we |-> d.cmd_we, addr |-> d.cmd_addr * ratio + d.cmd_count]>> ELSE <<>>,
      wdata |-> IF c.wdata = <<>> THEN <<>>
                ELSE LET word == Head(c.wdata)
                     IN <<[data |-> [l \in {0} |-> word[d.wmux]], we |-> {0}]>>,
      rdata_ready |-> TRUE ]
(* What port_from sees: its data is taken with the last part, and a word is    *)
(* returned in the cycle after the last part came.                             *)
DownSeen(d, ratio, i) ==
    [ cmd_ready |-> DownCmdReady(d),
      wdata_ready |-> i.wdata_ready /\ d.wmux = ratio - 1,
      rdata |-> IF d.strobe THEN <<[l \in Lanes(ratio) |-> d.parts[l + 1]]>> ELSE <<>> ]
DownNext(d, ratio, c, i) ==
    LET convert == d.state = "CONVERT" /\ i.cmd_ready
        accept == DownCmdReady(d) /\ c.cmd # <<>>
        kept == IF d.strobe THEN <<>> ELSE d.parts
    IN [ state |-> IF accept THEN "CONVERT"
                   ELSE IF convert /\ d.cmd_count = ratio - 1 THEN "IDLE" ELSE d.state,
         cmd_count |-> IF accept THEN 0
                       ELSE IF convert THEN (d.cmd_count + 1) % ratio ELSE d.cmd_count,
         cmd_addr |-> IF accept THEN Head(c.cmd).adr ELSE d.cmd_addr,
         cmd_we |-> IF accept THEN Head(c.cmd).we ELSE d.cmd_we,
         wmux |-> IF i.wdata_ready /\ c.wdata # <<>> THEN (d.wmux + 1) % ratio ELSE d.wmux,
         parts |-> IF i.rdata = <<>> THEN kept ELSE Append(kept, Head(i.rdata)[0]),
         strobe |-> i.rdata # <<>> /\ Len(kept) = ratio - 1 ]

(* A native user of twice the width behind the down converter. *)
DownUserInit == /\ port \in {PortInit(1, f) : f \in Focus}
                /\ master = NativeInit(2, {TRUE})
                /\ bridge = DownInit
DownUserTick(e) ==
    LET c == [cmd |-> master.cmd, wdata |-> master.wdata]
        i == Seen(e)
        s == DownSeen(bridge, 2, i)
    IN \E next \in NativeMoves(s.cmd_ready) :
       /\ port' = PortNext(e, DownDrives(bridge, 2, c))
       /\ bridge' = DownNext(bridge, 2, c, i)
       /\ master' = NativeNext(s, next)

-----------------------------------------------------------------------------
(* LiteDRAMNativePortUpConverter: up to ratio commands of the user in one      *)
(* native command.  cmd_order is the order in which the parts of the word were *)
(* asked for, cmd_buffer a FIFO of depth 0, which hands the group being        *)
(* committed straight to the data paths.  c also has the levels of addr, we,   *)
(* last and flush, which the code reads while no command is valid.             *)
UpInit(ratio) ==
    [ state |-> "NEW", cmd_order |-> <<>>, cmd_addr |-> 0, cmd_we |-> FALSE, cmd_last |-> FALSE,
      read_lock |-> FALSE, read_unlocked |-> FALSE,
      rdata_fifo |-> <<>>, rdata_count |-> 0,
      wdata_fifo |-> <<>>, wdata_buffer |-> <<>>, wdata_count |-> 0,
      wdata_word |-> [data |-> Zero(ratio), we |-> {}], wdata_pending |-> FALSE ]

(* SyncFIFO's sink.ready: with depth 1 it is a buffer that passes the word of  *)
(* a cycle in which it is read.                                                *)
FifoReady(q, depth, pop) == Len(q) < depth \/ (depth = 1 /\ pop)

addr_changed(u, ratio, c) == u.cmd_addr \div ratio # c.adr \div ratio
next_cmd(u, ratio, c) ==
    \/ addr_changed(u, ratio, c)
    \/ u.cmd_we # c.we
    \/ c.cmd # <<>> /\ \E k \in DOMAIN u.cmd_order : u.cmd_order[k] = c.adr % ratio
    \/ Len(u.cmd_order) = ratio
    \/ u.cmd_last
    \/ c.flush
rw_collision(u, ratio, c) ==
    u.cmd_we /\ c.cmd # <<>> /\ ~c.we /\ ~addr_changed(u, ratio, c)

UpCmdReady(u, ratio, c) ==
    \/ u.state = "NEW" /\ ~u.read_lock
    \/ u.state = "FILL" /\ ~next_cmd(u, ratio, c)

(* Data paths: both run only while a group is committed. *)
wdata_accept(u) == u.state = "COMMIT" /\ u.cmd_we /\ ~u.wdata_pending /\ u.wdata_fifo # <<>>
wdata_finished(u, i) == u.wdata_pending /\ FifoReady(u.wdata_buffer, 1, i.wdata_ready)
up_rdata_valid(u) == u.state = "COMMIT" /\ ~u.cmd_we /\ u.rdata_fifo # <<>>
rdata_finished(u) == up_rdata_valid(u) /\ u.rdata_count = Len(u.cmd_order) - 1

UpDrives(u, ratio) ==
    [ cmd |-> IF u.state = "CMD" THEN <<[we |-> u.cmd_we, addr |-> u.cmd_addr \div ratio]>> ELSE <<>>,
      wdata |-> u.wdata_buffer,
      rdata_ready |-> FifoReady(u.rdata_fifo, ratio - 1, rdata_finished(u)) ]
UpSeen(u, ratio, c) ==
    [ cmd_ready |-> UpCmdReady(u, ratio, c),
      wdata_ready |-> FifoReady(u.wdata_fifo, ratio - 1, wdata_accept(u)),
      rdata |-> IF up_rdata_valid(u)
                THEN <<[l \in {0} |-> Head(u.rdata_fifo)[u.cmd_order[u.rdata_count + 1]]]>> ELSE <<>> ]

(* The FSM.  A read sends its command before it gathers, a write after its     *)
(* data is complete, so that the port never waits for data.                    *)
UpFsm(u, ratio, c, i) ==
    LET accept == c.cmd # <<>> /\ UpCmdReady(u, ratio, c)
        part == c.adr % ratio
    IN CASE u.state = "NEW" /\ accept ->
              [u EXCEPT !.state = IF c.we THEN "FILL" ELSE "CMD", !.cmd_addr = c.adr,
                        !.cmd_we = c.we, !.cmd_last = c.last, !.cmd_order = <<part>>]
         [] u.state = "CMD" /\ i.cmd_ready ->
              [u EXCEPT !.state = IF u.cmd_we THEN "NEW" ELSE "FILL"]
         [] u.state = "FILL" /\ next_cmd(u, ratio, c) -> [u EXCEPT !.state = "COMMIT"]
         [] u.state = "FILL" /\ ~next_cmd(u, ratio, c) ->
              [u EXCEPT !.cmd_last = c.last,
                        !.cmd_order = IF accept THEN Append(@, part) ELSE @]
         [] u.state = "COMMIT" /\ (wdata_finished(u, i) \/ rdata_finished(u)) ->
              [u EXCEPT !.state = IF u.cmd_we THEN "CMD" ELSE "NEW"]
         [] OTHER -> u
(* A read of the address just written is held until the data has left. *)
UpLock(v, u, ratio, c, i) ==
    [v EXCEPT
      !.read_lock = IF wdata_finished(u, i) THEN FALSE
                    ELSE @ \/ (rw_collision(u, ratio, c) /\ u.state # "CMD" /\ ~u.read_unlocked),
      !.read_unlocked = IF c.cmd # <<>> /\ UpCmdReady(u, ratio, c) THEN FALSE
                        ELSE @ \/ wdata_finished(u, i)]
UpRead(v, u, ratio, i) ==
    [v EXCEPT
      !.rdata_fifo = (IF rdata_finished(u) THEN Tail(@) ELSE @)
                     \o (IF UpDrives(u, ratio).rdata_ready THEN i.rdata ELSE <<>>),
      !.rdata_count = IF rdata_finished(u) THEN 0 ELSE IF up_rdata_valid(u) THEN @ + 1 ELSE @]
UpWrite(v, u, ratio, c, i) ==
    LET part == u.cmd_order[u.wdata_count + 1]
        word == Head(u.wdata_fifo)
        last == u.wdata_count = Len(u.cmd_order) - 1
    IN [v EXCEPT
         !.wdata_fifo = (IF wdata_accept(u) THEN Tail(@) ELSE @)
                        \o (IF UpSeen(u, ratio, c).wdata_ready /\ c.wdata # <<>>
                            THEN <<Head(c.wdata)>> ELSE <<>>),
         !.wdata_buffer = (IF i.wdata_ready /\ @ # <<>> THEN Tail(@) ELSE @)
                          \o (IF wdata_finished(u, i) THEN <<u.wdata_word>> ELSE <<>>),
         !.wdata_word = IF wdata_finished(u, i) THEN [data |-> Zero(ratio), we |-> {}]
                        ELSE IF wdata_accept(u)
                        THEN [data |-> [@.data EXCEPT ![part] = word[0]], we |-> @.we \cup {part}]
                        ELSE @,
         !.wdata_pending = IF wdata_finished(u, i) THEN FALSE ELSE @ \/ (wdata_accept(u) /\ last),
         !.wdata_count = IF wdata_finished(u, i) THEN 0
                         ELSE IF wdata_accept(u) /\ ~last THEN @ + 1 ELSE @]
UpNext(u, ratio, c, i) ==
    UpWrite(UpRead(UpLock(UpFsm(u, ratio, c, i), u, ratio, c, i), u, ratio, i), u, ratio, c, i)

(* A native user of half the width behind the up converter.  It flushes when   *)
(* it has no command.                                                          *)
UpUserInit == /\ port \in {PortInit(2, f) : f \in Focus}
              /\ master = NativeInit(1, BOOLEAN)
              /\ bridge = UpInit(2)
UpUserDrives ==
    LET idle == master.cmd = <<>>
    IN [ cmd |-> master.cmd, wdata |-> master.wdata, flush |-> idle,
         adr |-> IF idle THEN 0 ELSE Head(master.cmd).adr,
         we |-> ~idle /\ Head(master.cmd).we,
         last |-> ~idle /\ Head(master.cmd).last ]
UpUserTick(e) ==
    LET c == UpUserDrives
        i == Seen(e)
        s == UpSeen(bridge, 2, c)
    IN \E next \in NativeMoves(s.cmd_ready) :
       /\ port' = PortNext(e, UpDrives(bridge, 2))
       /\ bridge' = UpNext(bridge, 2, c, i)
       /\ master' = NativeNext(s, next)

-----------------------------------------------------------------------------
(* LiteDRAMNativePortCDC: three asynchronous FIFOs.  The user's clock and the  *)
(* port's are unrelated: each has its own step, and the time a word takes to   *)
(* cross shows as steps of the other clock.                                    *)
CdcInit == /\ port \in {PortInit(1, f) : f \in Focus}
           /\ master = NativeInit(1, {TRUE})
           /\ bridge = [cmd |-> <<>>, wdata |-> <<>>, rdata |-> <<>>]
CdcUserTick ==
    LET s == [cmd_ready |-> Len(bridge.cmd) < cmd_depth,
              wdata_ready |-> Len(bridge.wdata) < wdata_depth,
              rdata |-> IF bridge.rdata = <<>> THEN <<>> ELSE <<Head(bridge.rdata)>>]
        c == master.cmd
    IN \E next \in NativeMoves(s.cmd_ready) :
       /\ bridge' = [ cmd |-> IF s.cmd_ready /\ c # <<>>
                              THEN Append(bridge.cmd, [we |-> Head(c).we, addr |-> Head(c).adr])
                              ELSE bridge.cmd,
                      wdata |-> IF s.wdata_ready /\ master.wdata # <<>>
                                THEN Append(bridge.wdata, [data |-> Head(master.wdata), we |-> {0}])
                                ELSE bridge.wdata,
                      rdata |-> IF bridge.rdata = <<>> THEN <<>> ELSE Tail(bridge.rdata) ]
       /\ master' = NativeNext(s, next)
       /\ UNCHANGED port
CdcPortTick(e) ==
    LET first(q) == IF q = <<>> THEN <<>> ELSE <<Head(q)>>
        rest(q) == IF q = <<>> THEN <<>> ELSE Tail(q)
        room == Len(bridge.rdata) < rdata_depth
    IN /\ port' = PortNext(e, [cmd |-> first(bridge.cmd), wdata |-> first(bridge.wdata),
                               rdata_ready |-> room])
       /\ bridge' = [ cmd |-> IF e.ready THEN rest(bridge.cmd) ELSE bridge.cmd,
                      wdata |-> IF wdata_ready(e) THEN rest(bridge.wdata) ELSE bridge.wdata,
                      rdata |-> IF room THEN bridge.rdata \o rdata(e) ELSE bridge.rdata ]
       /\ UNCHANGED master

-----------------------------------------------------------------------------
(* LiteDRAMNativePortECC of litedram/frontend/ecc.py: a native user whose      *)
(* words are stored with a code that corrects one flipped bit and detects two. *)
(* A native word holds an ECC word per burst cycle.  The code itself is        *)
(* litex's; a codeword is here the value it encodes and the number of its bits *)
(* that are flipped, and the decoder tells 0, 1 and 2 of them apart.           *)
burst_cycles == 2

(* ECCEncoder and ECCDecoder. *)
Encoded(v) == [value |-> v, flips |-> 0]
Flipped(c) == [c EXCEPT !.flips = @ + 1]
Corrected(c, enable) == IF c.flips = 0 \/ (enable /\ c.flips = 1) THEN c.value ELSE 1 - c.value
sec(c, enable) == enable /\ c.flips = 1
ded(c, enable) == enable /\ c.flips = 2

(* wdata and rdata are the buffers behind the encoder and the decoder; an      *)
(* entry of rdata also notes whether an error in it was reported.              *)
EccInit(enable) ==
    [ enable |-> enable, wdata |-> <<>>, rdata |-> <<>>,
      sec_errors |-> 0, ded_errors |-> 0, sec_detected |-> FALSE, ded_detected |-> FALSE ]
EccDrives(b, cmd) == [ cmd |-> cmd, wdata |-> b.wdata, rdata_ready |-> TRUE ]
(* LiteDRAMNativePortECCW: an ECC word is written whole if any of its bytes is *)
(* enabled.                                                                    *)
EccEncode(dat) == [data |-> [k \in 0 .. burst_cycles - 1 |-> Encoded(dat[k])], we |-> 0 .. burst_cycles - 1]
EccWReady(b, i) == b.wdata = <<>> \/ i.wdata_ready
(* LiteDRAMNativePortECCR: the cycle in which a word passes the decoder. *)
EccDecode(word, enable) == [k \in 0 .. burst_cycles - 1 |-> Corrected(word[k], enable)]
AnyCycle(i, error(_)) == i.rdata # <<>> /\ \E k \in 0 .. burst_cycles - 1 : error(Head(i.rdata)[k])
EccNext(b, i, wdata, clear) ==
    LET s == AnyCycle(i, LAMBDA c : sec(c, b.enable)) /\ b.sec_errors # max_errors
        d == AnyCycle(i, LAMBDA c : ded(c, b.enable)) /\ b.ded_errors # max_errors
    IN [b EXCEPT
         !.wdata = IF ~EccWReady(b, i) THEN @ ELSE IF wdata = <<>> THEN <<>> ELSE <<EccEncode(Head(wdata))>>,
         !.rdata = IF i.rdata = <<>> THEN <<>>
                   ELSE <<[word |-> EccDecode(Head(i.rdata), b.enable),
                           reported |-> AnyCycle(i, LAMBDA c : ded(c, b.enable))]>>,
         !.sec_errors = IF clear THEN 0 ELSE IF s THEN @ + 1 ELSE @,
         !.ded_errors = IF clear THEN 0 ELSE IF d THEN @ + 1 ELSE @,
         !.sec_detected = ~clear /\ (@ \/ s),
         !.ded_detected = ~clear /\ (@ \/ d)]

(* The user writes whole words, reads, and clears the counters when it has no  *)
(* read under way.                                                             *)
EccUserInit ==
    /\ port \in { [PortInit(burst_cycles, f) EXCEPT !.mem = [c \in Cells |-> Encoded(0)]] : f \in Focus }
    /\ master = NativeInit(burst_cycles, {TRUE})
    /\ \E enable \in BOOLEAN : bridge = EccInit(enable)
EccUserTick(e) ==
    LET i == Seen(e)
        cmd == IF master.cmd = <<>> THEN <<>>
               ELSE <<[we |-> Head(master.cmd).we, addr |-> Head(master.cmd).adr]>>
        seen == [ cmd_ready |-> e.ready, wdata_ready |-> EccWReady(bridge, i),
                  rdata |-> IF bridge.rdata = <<>> THEN <<>> ELSE <<Head(bridge.rdata).word>> ]
    IN \E next \in NativeMoves(e.ready),
          clear \in (IF master.expect = <<>> THEN BOOLEAN ELSE {FALSE}) :
       /\ port' = PortNext(e, EccDrives(bridge, cmd))
       /\ bridge' = EccNext(bridge, i, master.wdata, clear)
       (* a wrong word that was reported, and is still counted, is no surprise *)
       /\ master' = [NativeNext(seen, next) EXCEPT
            !.wrong = @ /\ (master.wrong \/ ~(Head(bridge.rdata).reported /\ bridge.ded_detected))]
(* A bit of a stored word flips.  The decoder is built for two at most. *)
EccFlip ==
    /\ bridge.enable
    /\ \E c \in Cells : /\ c = port.focus
                        /\ port.mem[c].flips < 2
                        /\ port' = [port EXCEPT !.mem[c] = Flipped(@)]
    /\ UNCHANGED <<bridge, master>>
=============================================================================
