---------------------------------- MODULE Dma ----------------------------------
(* litedram/frontend/dma.py: the DMA writer and reader on a native port and    *)
(* their registers (add_csr).  Both front ends take byte addresses; a word has *)
(* word_bytes of them.                                                         *)
EXTENDS NativePort

CONSTANTS dma_depth,       \* depth of the FIFOs and of the reservation FIFO
          word_bytes
ASSUME DmaAssumption == dma_depth \in Nat /\ dma_depth >= 2 /\ word_bytes \in Nat \ {0}

(* Writer: a command is sent when its data has room; sink is a sequence of at  *)
(* most one [adr, dat].                                                        *)
WriterCmd(fifo, sink) ==
    IF sink # <<>> /\ Len(fifo) < dma_depth THEN <<[we |-> TRUE, addr |-> Head(sink).adr]>> ELSE <<>>
WriterReady(fifo, i) == Len(fifo) < dma_depth /\ i.cmd_ready
WriterData(fifo) == IF fifo = <<>> THEN <<>> ELSE <<[data |-> Head(fifo), we |-> {0}]>>
WriterNext(fifo, sink, i) ==
    (IF i.wdata_ready /\ fifo # <<>> THEN Tail(fifo) ELSE fifo)
    \o (IF sink # <<>> /\ WriterReady(fifo, i) THEN <<Head(sink).dat>> ELSE <<>>)

(* Reader: a command is sent when its reservation has room; the data is passed *)
(* on with its reservation, and dropped with it while disabled.  res counts    *)
(* reservations.                                                               *)
ReaderInit == [res |-> 0, fifo |-> <<>>]
ReaderCmd(r, enable, sink) ==
    IF enable /\ sink # <<>> /\ r.res < dma_depth THEN <<[we |-> FALSE, addr |-> Head(sink)]>> ELSE <<>>
ReaderReady(r, enable, i) == enable /\ r.res < dma_depth /\ i.cmd_ready
ReaderRoom(r) == Len(r.fifo) < dma_depth
ReaderSource(r) == IF r.res > 0 /\ r.fifo # <<>> THEN <<Head(r.fifo)>> ELSE <<>>
ReaderNext(r, enable, sink, source_ready, i) ==
    LET pop == r.fifo # <<>> /\ (source_ready \/ ~enable)
    IN [ res |-> r.res + (IF ReaderCmd(r, enable, sink) # <<>> /\ i.cmd_ready THEN 1 ELSE 0)
                       - (IF pop /\ r.res > 0 THEN 1 ELSE 0),
         fifo |-> (IF pop THEN Tail(r.fifo) ELSE r.fifo) \o (IF ReaderRoom(r) THEN i.rdata ELSE <<>>) ]

-----------------------------------------------------------------------------
(* add_csr: an FSM that counts an offset from base to length - 1, once or, with*)
(* loop, again and again; it is held in reset while disabled.  The writer and  *)
(* the reader have the same one, moved by the items they take (move).          *)
CsrInit == [state |-> "IDLE", offset |-> 0]
CsrAddress(f, p) == p.base \div word_bytes + f.offset
CsrLast(f, p) == f.offset = p.length \div word_bytes - 1
CsrNext(f, p, enable, move) ==
    CASE ~enable -> [f EXCEPT !.state = "IDLE", !.offset = IF f.state = "IDLE" THEN 0 ELSE @]
      [] enable /\ f.state = "IDLE" -> [state |-> "RUN", offset |-> 0]
      [] enable /\ f.state = "RUN" /\ move ->
           IF ~CsrLast(f, p) THEN [f EXCEPT !.offset = @ + 1]
           ELSE IF p.loop THEN [f EXCEPT !.offset = 0] ELSE [state |-> "DONE", offset |-> f.offset + 1]
      [] OTHER -> f

(* The user sets the registers, lets the writer store a stream, then the       *)
(* reader return it; with loop, or at any time, it stops by disabling, and it  *)
(* starts again only when nothing is under way.  count is the position of the  *)
(* stream in the window.                                                       *)
DmaParameters ==
    { [base |-> b * word_bytes, length |-> n * word_bytes, loop |-> l] :
        b \in 0 .. 1, n \in 1 .. 2, l \in BOOLEAN }
DmaUserInit ==
    /\ port \in {PortInit(1, f) : f \in Focus}
    /\ bridge = [w |-> CsrInit, wfifo |-> <<>>, r |-> CsrInit, reader |-> ReaderInit]
    /\ master = [phase |-> "off", p |-> [base |-> 0, length |-> word_bytes, loop |-> FALSE],
                 count |-> 0, expect |-> <<>>, ideal |-> IdealInit, answered |-> FALSE, wrong |-> FALSE]

DmaQuiet == bridge.wfifo = <<>> /\ bridge.reader = ReaderInit
DmaPhases ==        \* <<phase, registers>> the user may go to
    CASE master.phase = "off" ->
           {<<"off", master.p>>} \cup (IF DmaQuiet THEN {<<"writing", p>> : p \in DmaParameters} ELSE {})
      [] master.phase = "writing" ->
           {<<"writing", master.p>>}
           \cup (IF bridge.w.state = "DONE" \/ master.p.loop THEN {<<"reading", master.p>>} ELSE {})
      [] master.phase = "reading" -> {<<"reading", master.p>>, <<"off", master.p>>}

(* The address an item of the stream belongs to. *)
DmaCell == master.p.base \div word_bytes + master.count
DmaItems ==         \* what the user presents to the writer
    {<<>>} \cup { <<v>> : v \in {w \in Words(1) : w # Zero(1) => DmaCell = port.focus} }

(* A clock edge of the bridge: wsink and rsink are what the FSMs present.      *)
DmaEdge(e, wsink, rsink) ==
    LET i == Seen(e)
        writing == master.phase = "writing"
        reading == master.phase = "reading"
    IN /\ port' = PortNext(e, [ cmd |-> WriterCmd(bridge.wfifo, wsink)
                                        \o ReaderCmd(bridge.reader, reading, rsink),
                                wdata |-> WriterData(bridge.wfifo),
                                rdata_ready |-> ReaderRoom(bridge.reader) ])
       /\ bridge' = [ w |-> CsrNext(bridge.w, master.p, writing, wsink # <<>> /\ WriterReady(bridge.wfifo, i)),
                      wfifo |-> WriterNext(bridge.wfifo, wsink, i),
                      r |-> CsrNext(bridge.r, master.p, reading,
                                    rsink # <<>> /\ ReaderReady(bridge.reader, reading, i)),
                      reader |-> ReaderNext(bridge.reader, reading, rsink, TRUE, i) ]
(* The user's: the item it stores, a word asked for, the words it got.         *)
DmaMasterNext(stored, asked, got, next) ==
    LET step(n) == (n + 1) % (master.p.length \div word_bytes)
    IN [master EXCEPT
         !.phase = next[1], !.p = next[2],
         !.count = IF next[1] # master.phase THEN 0 ELSE IF stored # <<>> \/ asked THEN step(@) ELSE @,
         !.ideal = IF stored # <<>> THEN IdealWrite(@, 1, DmaCell, Head(stored)) ELSE @,
         !.expect = IF next[1] # "reading" THEN <<>>
                    ELSE (IF got # <<>> /\ @ # <<>> THEN Tail(@) ELSE @)
                         \o (IF asked THEN <<IdealWord(master.ideal, 1, DmaCell)>> ELSE <<>>),
         !.answered = stored # <<>> \/ got # <<>>,
         !.wrong = @ \/ (got # <<>> /\ ( \/ master.expect = <<>>
                                          \/ ~Allowed(Head(got), Head(master.expect))))]
DmaUserTick(e) ==
    LET i == Seen(e)
        reading == master.phase = "reading"
        rsink == IF bridge.r.state = "RUN" THEN <<CsrAddress(bridge.r, master.p)>> ELSE <<>>
    IN \E item \in (IF master.phase = "writing" /\ bridge.w.state = "RUN" THEN DmaItems ELSE {<<>>}),
          next \in DmaPhases :
       /\ DmaEdge(e, IF item = <<>> THEN <<>>
                     ELSE <<[adr |-> CsrAddress(bridge.w, master.p), dat |-> Head(item)]>>, rsink)
       /\ master' = DmaMasterNext(IF WriterReady(bridge.wfifo, i) THEN item ELSE <<>>,
                                  rsink # <<>> /\ ReaderReady(bridge.reader, reading, i),
                                  IF reading THEN ReaderSource(bridge.reader) ELSE <<>>, next)
=============================================================================
