--------------------------------- MODULE Bist ---------------------------------
(* litedram/frontend/bist.py: the generator writes a sequence of words through *)
(* a DMA writer, the checker reads it back through a DMA reader and counts the *)
(* words that differ; with registers of the same clock or of another one.  The *)
(* pattern variants take addresses and data from a list.                       *)
EXTENDS Dma

CONSTANT n_state            \* bits of the LFSR; the code has 31, and taps 27 and 30

(* LFSR: n_state shifts in a step, each with the complement of the exclusive   *)
(* or of the taps, the two highest bits but three and the highest.             *)
Taps == {IF n_state > 4 THEN n_state - 4 ELSE n_state - 2, n_state - 1}
LfsrShift(s) ==
    LET nv == (s[CHOOSE t \in Taps : \A u \in Taps : t <= u] + s[n_state - 1] + 1) % 2
    IN [j \in 0 .. n_state - 1 |-> IF j = 0 THEN nv ELSE s[j - 1]]
LfsrBits[k \in 0 .. n_state * (NCells + 1)] ==
    IF k = 0 THEN [j \in 0 .. n_state - 1 |-> 0] ELSE LfsrShift(LfsrBits[k - 1])
LfsrValue[j \in 0 .. n_state] ==
    IF j = 0 THEN [s \in {LfsrBits[k] : k \in DOMAIN LfsrBits} |-> 0]
    ELSE [s \in {LfsrBits[k] : k \in DOMAIN LfsrBits} |-> LfsrValue[j - 1][s] + s[j - 1] * 2 ^ (j - 1)]
(* Generator: the output of the LFSR is the value after the step. *)
GeneratorOut(random, n) ==
    IF random THEN LfsrValue[n_state][LfsrBits[n_state * (n + 1)]] ELSE n % 2 ^ n_state

(* The address and the data of the n-th word.  p.init is the list of a pattern *)
(* variant, empty otherwise; mask is end - base - 1, a power of two less one.  *)
BistLength(p) == IF p.init = <<>> THEN p.length \div word_bytes ELSE Len(p.init)
BistAddr(p, n) ==
    IF p.init = <<>> THEN p.base \div word_bytes + (GeneratorOut(p.random_addr, n) % (p.end - p.base))
    ELSE p.init[n + 1][1]
BistData(p, n) ==
    [l \in {0} |-> IF p.init = <<>> THEN GeneratorOut(p.random_data, n) % 2 ELSE p.init[n + 1][2]]

-----------------------------------------------------------------------------
(* The cores.  reset and start are the strobes of a cycle, cascade is          *)
(* run_cascade_in; the generators step with the commands, so the counters also *)
(* count them.                                                                 *)
GenInit == [state |-> "IDLE", cmd_counter |-> 0]
GenSink(g, p) ==
    IF g.state = "RUN" THEN <<[adr |-> BistAddr(p, g.cmd_counter), dat |-> BistData(p, g.cmd_counter)]>>
    ELSE <<>>
GenNext(g, p, fifo, reset, start, cascade, i) ==
    CASE reset -> [g EXCEPT !.state = "IDLE"]
      [] ~reset /\ g.state = "IDLE" /\ start -> [state |-> "RUN", cmd_counter |-> 0]
      [] ~reset /\ g.state = "WAIT" /\ cascade -> [g EXCEPT !.state = "RUN"]
      [] ~reset /\ g.state = "RUN" /\ WriterReady(fifo, i) ->
           [ cmd_counter |-> g.cmd_counter + 1,
             state |-> IF g.cmd_counter = BistLength(p) - 1
                       THEN (IF p.init = <<>> THEN "AWAIT_FIFO_EMPTY" ELSE "DONE")
                       ELSE IF ~cascade THEN "WAIT" ELSE "RUN" ]
      [] ~reset /\ g.state = "AWAIT_FIFO_EMPTY" /\ fifo = <<>> -> [g EXCEPT !.state = "DONE"]
      [] OTHER -> g

ChkInit == [cmd |-> "IDLE", cmd_counter |-> 0, data |-> "IDLE", data_counter |-> 0, errors |-> 0]
ChkSink(c, p) == IF c.cmd = "RUN" THEN <<BistAddr(p, c.cmd_counter)>> ELSE <<>>
ChkCmdFsm(c, p, reader, start, cascade, i) ==
    CASE c.cmd = "IDLE" /\ start ->
           [c EXCEPT !.cmd_counter = 0, !.cmd = IF p.init # <<>> /\ cascade THEN "RUN" ELSE "WAIT"]
      [] c.cmd = "WAIT" /\ cascade -> [c EXCEPT !.cmd = "RUN"]
      [] c.cmd = "RUN" /\ ReaderReady(reader, TRUE, i) ->
           [c EXCEPT !.cmd_counter = @ + 1,
                     !.cmd = IF c.cmd_counter = BistLength(p) - 1 THEN "DONE"
                             ELSE IF ~cascade THEN "WAIT" ELSE @]
      [] OTHER -> c
ChkDataFsm(c, p, reader, start) ==
    CASE c.data = "IDLE" /\ start -> [c EXCEPT !.data_counter = 0, !.errors = 0, !.data = "RUN"]
      [] c.data = "RUN" /\ ReaderSource(reader) # <<>> ->
           [c EXCEPT !.data_counter = @ + 1,
                     !.errors = @ + (IF Head(ReaderSource(reader)) # BistData(p, c.data_counter) THEN 1 ELSE 0),
                     !.data = IF c.data_counter = BistLength(p) - 1 THEN "DONE" ELSE @]
      [] OTHER -> c
ChkNext(c, p, reader, reset, start, cascade, i) ==
    IF reset THEN [c EXCEPT !.cmd = "IDLE", !.data = "IDLE", !.errors = 0]
    ELSE ChkDataFsm(ChkCmdFsm(c, p, reader, start, cascade, i), p, reader, start)

-----------------------------------------------------------------------------
(* Software runs the generator and then the checker with the same registers:   *)
(* reset, until done is low; start, until done is high.  Between the two a     *)
(* word of the memory may be disturbed.                                        *)
BistParameters(pattern, cdc) ==
    IF pattern
    THEN { [base |-> 0, end |-> 0, length |-> 0, random_data |-> FALSE, random_addr |-> FALSE, init |-> s] :
             s \in {<< <<1, 1>>, <<0, 0>> >>, << <<2, 1>>, <<2, 0>>, <<0, 1>> >>} }
    ELSE { p \in [ base : {b * word_bytes : b \in 0 .. 1}, end : 1 .. NCells + word_bytes,
                   length : {n * word_bytes : n \in 1 .. NCells},
                   random_data : BOOLEAN, random_addr : BOOLEAN, init : {<<>>} ] :
             /\ p.end - p.base \in {2, NCells}
             /\ p.base \div word_bytes + (p.end - p.base) <= NCells
             /\ cdc => p.base = 0 /\ p.random_data = p.random_addr /\ p.length \in {word_bytes, 2 * word_bytes} }

BistUserInit(pattern, cdc) ==
    /\ port = PortInit(1, 0)
    /\ bridge = [ gen |-> GenInit, fifo |-> <<>>, chk |-> ChkInit, reader |-> ReaderInit,
                  cdc |-> cdc, control |-> <<>>, status |-> <<>> ]
    /\ master \in [ step : {"reset gen"}, p : BistParameters(pattern, cdc),
                    done : {[gen |-> FALSE, chk |-> FALSE, errors |-> 0]},
                    disturbed : {{}}, answered : {FALSE}, wrong : {FALSE} ]

(* What the registers of the status show: the cores, or the last status that   *)
(* crossed.                                                                    *)
Status == [gen |-> bridge.gen.state = "DONE", chk |-> bridge.chk.data = "DONE", errors |-> bridge.chk.errors]
Shown == IF bridge.cdc THEN master.done ELSE Status

(* A strobe of the user, and its next step. *)
BistStrobe ==
    CASE master.step = "reset gen" -> <<"gen", "reset">>
      [] master.step = "start gen" /\ ~Shown.gen -> <<"gen", "start">>
      [] master.step = "reset chk" -> <<"chk", "reset">>
      [] master.step = "start chk" /\ ~Shown.chk -> <<"chk", "start">>
      [] OTHER -> <<>>
BistStep ==
    CASE master.step = "reset gen" -> "start gen"
      [] master.step = "start gen" /\ ~Shown.gen -> "generating"
      [] master.step = "generating" /\ Shown.gen -> "reset chk"
      [] master.step = "reset chk" -> "start chk"
      [] master.step = "start chk" /\ ~Shown.chk -> "checking"
      [] master.step = "checking" /\ Shown.chk -> "over"
      [] master.step = "over" -> "reset gen"
      [] OTHER -> master.step
(* The words that differ when every write was performed in order and the       *)
(* disturbed word, if any, was inverted: the last word written to an address   *)
(* stays.                                                                      *)
Stored(p, c) ==
    LET v == BistData(p, (CHOOSE n \in 0 .. BistLength(p) - 1 :
                           /\ BistAddr(p, n) = c
                           /\ \A k \in n + 1 .. BistLength(p) - 1 : BistAddr(p, k) # c))[0]
    IN IF c \in master.disturbed THEN 1 - v ELSE v
Truth(p) == Cardinality({n \in 0 .. BistLength(p) - 1 : Stored(p, BistAddr(p, n)) # BistData(p, n)[0]})
BistMasterNext(strobed) ==
    LET next == IF BistStrobe # <<>> /\ ~strobed THEN master.step ELSE BistStep
        verdict == next = "over" /\ master.step # "over"
    IN [master EXCEPT !.step = next,
                      !.disturbed = IF next = "reset gen" THEN {} ELSE @,
                      !.answered = next # master.step,
                      !.wrong = @ \/ (verdict /\ Shown.errors # Truth(master.p))]

(* A clock edge of the cores; s is the strobe that reaches them. *)
BistCoreTick(e, s, cascade) ==
    LET i == Seen(e)
        p == master.p
        sink == GenSink(bridge.gen, p)
        rsink == ChkSink(bridge.chk, p)
        reset(core) == s = <<core, "reset">>
        start(core) == s = <<core, "start">>
    IN /\ port' = PortNext(e, [ cmd |-> WriterCmd(bridge.fifo, sink) \o ReaderCmd(bridge.reader, TRUE, rsink),
                                wdata |-> WriterData(bridge.fifo),
                                rdata_ready |-> ReaderRoom(bridge.reader) ])
       /\ bridge' = [bridge EXCEPT
             !.gen = GenNext(@, p, bridge.fifo, reset("gen"), start("gen"), cascade, i),
             !.fifo = IF reset("gen") THEN <<>> ELSE WriterNext(@, sink, i),
             !.chk = ChkNext(@, p, bridge.reader, reset("chk"), start("chk"), cascade, i),
             !.reader = IF reset("chk") THEN ReaderInit
                        ELSE ReaderNext(@, TRUE, rsink, bridge.chk.data = "RUN", i),
             !.control = IF bridge.cdc /\ @ # <<>> THEN Tail(@) ELSE @,
             !.status = IF bridge.cdc /\ @ = <<>> THEN <<Status>> ELSE @]

(* Registers in the clock of the cores. *)
BistTick(e, cascade) ==
    /\ ~bridge.cdc
    /\ BistCoreTick(e, BistStrobe, cascade)
    /\ master' = BistMasterNext(TRUE)
(* Registers in another clock: strobes and status cross in FIFOs. *)
BistCdcCoreTick(e, cascade) ==
    /\ bridge.cdc
    /\ BistCoreTick(e, IF bridge.control = <<>> THEN <<>> ELSE Head(bridge.control), cascade)
    /\ UNCHANGED master
BistCdcUserTick ==
    /\ bridge.cdc
    /\ bridge' = [bridge EXCEPT !.control = IF BistStrobe # <<>> /\ Len(@) < 2 THEN Append(@, BistStrobe) ELSE @,
                                !.status = <<>>]
    /\ master' = [BistMasterNext(Len(bridge.control) < 2) EXCEPT
                    !.done = IF bridge.status = <<>> THEN @ ELSE Head(bridge.status)]
    /\ UNCHANGED port
(* A disturbed word while neither core runs. *)
Disturb ==
    /\ master.step = "reset chk" /\ master.disturbed = {}
    /\ port.cmds = <<>> /\ port.fresh = <<>> /\ bridge.fifo = <<>>
    /\ \E c \in Cells :
          /\ port' = [port EXCEPT !.mem[c] = 1 - @]
          /\ master' = [master EXCEPT !.disturbed = {c}]
    /\ UNCHANGED bridge
=============================================================================
