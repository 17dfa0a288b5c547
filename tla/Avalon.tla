-------------------------------- MODULE Avalon --------------------------------
(* litedram/frontend/avalon.py: an Avalon-MM master on a native port of the    *)
(* same width, with bursts.  The width converters are those of Adapters.       *)
EXTENDS NativePort

CONSTANTS max_burst_length,    \* depth of cmd_fifo and wdata_fifo
          address_offset       \* base_address in words

AvInit == [ state |-> "START", burst_count |-> 0, address |-> 0, writedata |-> Zero(1),
            cmd_ready_seen |-> FALSE, cmd_ready_count |-> 0,
            cmd_fifo |-> <<>>, wdata_fifo |-> <<>> ]

(* The master: a burst of count beats at adr, beat says how many are over.     *)
(* Once it writes a burst it presents its beats one after the other.           *)
AvRequests ==
    { r \in [we : BOOLEAN, adr : Addrs(1), count : 1 .. max_burst_length, beat : {0}, dat : Words(1)] :
        /\ r.adr + r.count <= NCells
        /\ r.dat # Zero(1) => r.we /\ r.adr = port.focus }
AvMasterInit ==
    [req |-> <<>>, expect |-> <<>>, ideal |-> IdealInit, answered |-> FALSE, wrong |-> FALSE]
av_read == master.req # <<>> /\ ~Head(master.req).we
av_write == master.req # <<>> /\ Head(master.req).we
av == Head(master.req)
av_address == av.adr + address_offset

-----------------------------------------------------------------------------
(* BURST_WRITE: beats go into both FIFOs, a command to the port when its data  *)
(* is there.  The burst is over when the last word is fetched.                 *)
BeatPushed(b) == /\ b.state = "BURST_WRITE" /\ av_write /\ b.burst_count > 0
                 /\ Len(b.cmd_fifo) < max_burst_length
                 /\ Len(b.wdata_fifo) < max_burst_length
(* Mutant: the end of the burst is looked for one word too late. *)
BurstWrittenLate(b, i) == /\ ~(av_write /\ b.burst_count > 0)
                          /\ Len(b.cmd_fifo) = 0 /\ Len(b.wdata_fifo) = 0 /\ i.wdata_ready
BurstWritten(b, i) == /\ ~(av_write /\ b.burst_count > 0)
                      /\ Len(b.cmd_fifo) = 0 /\ Len(b.wdata_fifo) = 1 /\ i.wdata_ready

waitrequest(b, i) ==
    CASE b.state = "START" /\ (av_read \/ av_write) ->
           IF av.count > 1 THEN av_write ELSE ~i.cmd_ready
      [] b.state = "BURST_WRITE" -> ~BeatPushed(b)
      [] OTHER -> TRUE
readdata(b, i) == IF b.state \in {"SINGLE_READ", "BURST_READ"} THEN i.rdata ELSE <<>>

AvDrives(b) ==
    [ cmd |->
        CASE b.state = "START" /\ (av_read \/ av_write) /\ av.count = 1 ->
               <<[we |-> av_write, addr |-> av_address - address_offset]>>
          [] b.state = "BURST_WRITE" /\ b.cmd_fifo # <<>> /\ b.wdata_fifo # <<>> ->
               <<[we |-> TRUE, addr |-> Head(b.cmd_fifo)]>>
          [] b.state = "BURST_READ" /\ ~b.cmd_ready_seen -> <<[we |-> FALSE, addr |-> b.address]>>
          [] OTHER -> <<>>,
      wdata |->
        CASE b.state = "SINGLE_WRITE" -> <<[data |-> b.writedata, we |-> {0}]>>
          [] b.state = "BURST_WRITE" /\ b.wdata_fifo # <<>> ->
               <<[data |-> Head(b.wdata_fifo), we |-> {0}]>>
          [] OTHER -> <<>>,
      rdata_ready |-> b.state \in {"SINGLE_READ", "BURST_READ"} ]

AvStart(b, i) ==
    IF ~(av_read \/ av_write) THEN [b EXCEPT !.cmd_ready_seen = FALSE]
    ELSE LET latched == [b EXCEPT !.cmd_ready_seen = FALSE, !.burst_count = av.count,
                                  !.writedata = av.dat, !.address = av_address - address_offset]
         IN IF av.count > 1
            THEN IF av_write THEN [latched EXCEPT !.state = "BURST_WRITE"]
                 ELSE [latched EXCEPT !.state = "BURST_READ", !.cmd_ready_count = av.count]
            ELSE IF i.cmd_ready
                 THEN [latched EXCEPT !.state = IF av_write THEN "SINGLE_WRITE" ELSE "SINGLE_READ"]
                 ELSE latched
AvBurstWrite(b, i) ==
    LET pop(q, by) == IF by /\ q # <<>> THEN Tail(q) ELSE q
        c == [b EXCEPT !.cmd_fifo = pop(@, i.cmd_ready), !.wdata_fifo = pop(@, i.wdata_ready)]
    IN IF BeatPushed(b)
       THEN [c EXCEPT !.burst_count = @ - 1, !.address = @ + 1,
                      !.cmd_fifo = Append(@, b.address), !.wdata_fifo = Append(@, av.dat)]
       ELSE IF BurstWritten(b, i) THEN [c EXCEPT !.state = "START"] ELSE c
(* After the last command is accepted its counter and address are dead: they   *)
(* are loaded again in START.                                                  *)
AvBurstRead(b, i) ==
    LET c == IF i.cmd_ready /\ ~b.cmd_ready_seen
             THEN [b EXCEPT !.cmd_ready_seen = (b.cmd_ready_count = 1),
                            !.cmd_ready_count = @ - 1, !.address = @ + 1]
             ELSE b
    IN IF i.rdata = <<>> THEN c
       ELSE [c EXCEPT !.burst_count = @ - 1, !.state = IF b.burst_count = 1 THEN "START" ELSE @]
AvNext(b, i) ==
    CASE b.state = "START" -> AvStart(b, i)
      [] b.state = "SINGLE_WRITE" -> IF i.wdata_ready THEN [b EXCEPT !.state = "START"] ELSE b
      [] b.state = "SINGLE_READ" -> IF i.rdata # <<>> THEN [b EXCEPT !.state = "START"] ELSE b
      [] b.state = "BURST_WRITE" -> AvBurstWrite(b, i)
      [] b.state = "BURST_READ" -> AvBurstRead(b, i)

-----------------------------------------------------------------------------
(* The master's clock edge.  A write counts from the cycle its beat is taken,  *)
(* a read from the cycle its request is taken.                                 *)
AvTaken(b, i) == master.req # <<>> /\ ~waitrequest(b, i)
AvMoves(taken) ==
    IF master.req # <<>> /\ ~taken THEN {master.req}
    ELSE IF taken /\ av.we /\ av.beat + 1 < av.count
    THEN { <<[av EXCEPT !.beat = @ + 1, !.dat = d]>> :
             d \in {w \in Words(1) : w # Zero(1) => av.adr + av.beat + 1 = port.focus} }
    ELSE {<<>>} \cup (IF master.expect = <<>> THEN {<<r>> : r \in AvRequests} ELSE {})
AvMasterNext(taken, got, next) ==
    [master EXCEPT
      !.req = next,
      !.expect = (IF got # <<>> /\ @ # <<>> THEN Tail(@) ELSE @)
                 \o (IF taken /\ ~av.we
                     THEN [k \in 1 .. av.count |-> IdealWord(master.ideal, 1, av.adr + k - 1)] ELSE <<>>),
      !.ideal = IF taken /\ av.we THEN IdealWrite(@, 1, av.adr + av.beat, av.dat) ELSE @,
      !.answered = taken \/ got # <<>>,
      !.wrong = @ \/ (got # <<>> /\ (master.expect = <<>> \/ ~Allowed(Head(got), Head(master.expect))))]

AvUserInit == /\ port \in {PortInit(1, f) : f \in Focus}
              /\ master = AvMasterInit
              /\ bridge = AvInit
AvUserTick(e) ==
    LET i == Seen(e)
        taken == AvTaken(bridge, i)
    IN \E next \in AvMoves(taken) :
       /\ port' = PortNext(e, AvDrives(bridge))
       /\ bridge' = AvNext(bridge, i)
       /\ master' = AvMasterNext(taken, readdata(bridge, i), next)
=============================================================================
