----------------------------- MODULE StreamFifo -----------------------------
(***************************************************************************)
(* LiteDRAMFIFO of litedram/frontend/fifo.py: a stream FIFO that passes    *)
(* its items from pre_fifo to post_fifo directly (bypass), or through the  *)
(* DRAM, packed into words of ratio items.  The stream FIFOs and the       *)
(* converters are litex's: SyncFIFO shows an item one cycle after it was   *)
(* accepted, the up-converter collects a word in a register, the           *)
(* down-converter selects an item of the word at its sink, and both are    *)
(* wires when ratio = 1.  Users leave last low.                            *)
(***************************************************************************)
EXTENDS DramFifo

CONSTANTS
    data_width_ratio,
    Bypasses,           \* the values of with_bypass to build the FIFO with
    pre_fifo_depth, post_fifo_depth,
    cnt_modulus,        \* 2^port_address_width, the range of dram_cnt
    NItems,             \* items are numbered modulo NItems
    Pad,                \* the value of an input that nothing drives
    NoItem              \* no item left the FIFO in the last cycle

Items == 0..(NItems - 1)
\* The words of the DRAM.
ItemWords == [1..data_width_ratio -> Items \cup {Pad}]

ASSUME StreamFifoAssumption ==
    /\ data_width_ratio \in Nat \ {0} /\ Bypasses \subseteq BOOLEAN
    /\ FALSE \in Bypasses => data_width_ratio = 1
    /\ pre_fifo_depth >= 2 * data_width_ratio /\ post_fifo_depth >= 2 * data_width_ratio
    /\ cnt_modulus \in Nat \ {0, 1} /\ NItems \in Nat \ {0}
    /\ Pad \notin Items /\ NoItem \notin Items \cup {Pad}
    /\ Words = ItemWords

VARIABLES
    with_bypass,        \* how the FIFO was built
    pre_fifo, post_fifo,
    parts, strobe_all,  \* pre_converter: the items collected, word complete
    mux,                \* post_converter: items of the word already given
    fsm,                \* state of the FSM
    dram,               \* its counters dram_*
    sent,               \* number of the next item
    out                 \* the item taken from the source in the last cycle

vars == <<level, write_address, read_address, writer_fifo, res_fifo, reader_fifo, port, mem,
          with_bypass, pre_fifo, post_fifo, parts, strobe_all, mux, fsm, dram, sent, out>>

States == {"BYPASS", "DRAM", "PUMP_PRECONVERTER", "DRAIN_POSTCONVERTER"}
Mods == 0..(IF data_width_ratio = 1 THEN 1 ELSE data_width_ratio - 1)
Counters == [first : BOOLEAN, cnt : 0..(cnt_modulus - 1), inc_mod : Mods, dec_mod : Mods,
             flush_count : Mods, flush_output : Mods, flush_total : Mods]

TypeOK ==
    /\ DramTypeOK
    /\ with_bypass \in Bypasses
    /\ pre_fifo \in Seq(Items) /\ Len(pre_fifo) <= pre_fifo_depth
    /\ post_fifo \in Seq(Items \cup {Pad}) /\ Len(post_fifo) <= post_fifo_depth
    /\ parts \in Seq(Items \cup {Pad}) /\ strobe_all \in BOOLEAN
    /\ IF strobe_all THEN Len(parts) = data_width_ratio ELSE Len(parts) < data_width_ratio
    /\ mux \in 0..(data_width_ratio - 1)
    /\ fsm \in States /\ dram \in Counters
    /\ sent \in Items /\ out \in Items \cup {Pad, NoItem}

ResetCounters == [first |-> FALSE, cnt |-> 0, inc_mod |-> 0, dec_mod |-> 0,
                  flush_count |-> 0, flush_output |-> 0, flush_total |-> 0]

Init ==
    /\ DramInit
    /\ with_bypass \in Bypasses
    /\ pre_fifo = <<>> /\ post_fifo = <<>>
    /\ parts = <<>> /\ strobe_all = FALSE /\ mux = 0
    /\ fsm = (IF with_bypass THEN "BYPASS" ELSE "DRAM") /\ dram = ResetCounters
    /\ sent = 0 /\ out = NoItem

-----------------------------------------------------------------------------
(* The data flow.  An operator with an argument c depends on c, the inputs  *)
(* of the cycle: c.valid and c.ready of the FIFO's sink and source, c.w and *)
(* c.r the ready of the ports' commands, c.p the command performed.         *)

identity == data_width_ratio = 1
pumping == fsm = "PUMP_PRECONVERTER" /\ ~identity
dram_bypass == fsm = "BYPASS"

\* No word is left between pre_converter and post_converter.
dram_empty == ~dram.first /\ dram.cnt = 0

dram_store == fsm = "DRAM" /\ (with_bypass => ~dram_empty)
dram_store_threshold == Len(pre_fifo) >= data_width_ratio

post_fifo_ready == Len(post_fifo) < post_fifo_depth

\* The pump drops the padding behind the items of the last word.
dropping == pumping /\ dram.flush_output >= dram.flush_count

post_source_ready == dropping \/ (~dram_bypass /\ post_fifo_ready)
post_sink_ready == mux = data_width_ratio - 1 /\ post_source_ready

\* pre_converter.sink
pre_sink_valid ==
    \/ dram_store /\ pre_fifo # <<>>
    \/ pumping /\ ~strobe_all
pre_sink_data == IF dram_store THEN Head(pre_fifo) ELSE Pad

\* pre_converter.source
pre_word == IF identity /\ pre_sink_valid THEN <<pre_sink_data>> ELSE IF strobe_all THEN parts ELSE <<>>
pre_source_valid == pre_word # <<>>
offered == IF pre_source_valid THEN <<pre_word>> ELSE <<>>

pre_source_ready(c) == IF pumping THEN post_sink_ready ELSE write(offered, c.w)
pre_sink_ready(c) == IF identity THEN pre_source_ready(c) ELSE ~strobe_all \/ pre_source_ready(c)
Loads(c) == pre_sink_valid /\ pre_sink_ready(c)

\* post_converter
post_sink_valid == IF pumping THEN pre_source_valid ELSE source_valid
post_item == IF pumping THEN pre_word[mux + 1] ELSE source_data[mux + 1]
Gives == post_sink_valid /\ post_source_ready

bypassed == dram_bypass /\ pre_fifo # <<>> /\ post_fifo_ready
PreTaken(c) == bypassed \/ (dram_store /\ Loads(c))

\* An input that nothing would look at is low.
Inputs == {c \in [valid : BOOLEAN, ready : BOOLEAN, w : BOOLEAN, r : BOOLEAN, p : Steps] :
    /\ c.valid => Len(pre_fifo) < pre_fifo_depth
    /\ c.ready => post_fifo # <<>>
    /\ c.w => pre_source_valid
    /\ c.r => readable}

-----------------------------------------------------------------------------
(* The FSM.  Each state says what it does to fsm and dram.                  *)

Up(count) == IF count = data_width_ratio - 1 THEN 0 ELSE count + 1

Bypass ==
    /\ fsm = "BYPASS"
    /\ IF dram_store_threshold
       THEN fsm' = "DRAM" /\ dram' = [ResetCounters EXCEPT !.first = TRUE]
       ELSE UNCHANGED <<fsm, dram>>

Dram(c) ==
    /\ fsm = "DRAM"
    /\ IF with_bypass
       THEN LET dram_inc == pre_source_valid /\ pre_source_ready(c)
                dram_dec == post_sink_valid /\ post_sink_ready
                counted  == [dram EXCEPT
                    !.first = @ /\ ~dram_inc,
                    !.cnt = (@ + (IF dram_inc THEN 1 ELSE 0)
                               + (IF dram_dec THEN cnt_modulus - 1 ELSE 0)) % cnt_modulus,
                    !.inc_mod = IF Loads(c) /\ ~identity THEN Up(@) ELSE @,
                    !.dec_mod = IF Gives /\ ~identity THEN Up(@) ELSE @]
            IN  IF dram_empty
                THEN /\ fsm' = IF dram.dec_mod # 0 THEN "DRAIN_POSTCONVERTER"
                               ELSE IF dram.inc_mod = 0 THEN "BYPASS" ELSE "PUMP_PRECONVERTER"
                     /\ dram' = [counted EXCEPT !.flush_count = dram.inc_mod,
                                                !.flush_output = 0, !.flush_total = 0]
                ELSE fsm' = fsm /\ dram' = counted
       ELSE UNCHANGED <<fsm, dram>>

Pump ==
    /\ fsm = "PUMP_PRECONVERTER"
    /\ IF identity THEN fsm' = "BYPASS" /\ dram' = dram
       ELSE IF pre_source_valid /\ Gives
            THEN IF dram.flush_total = data_width_ratio - 1
                 THEN /\ fsm' = "BYPASS"
                      /\ dram' = [dram EXCEPT !.inc_mod = 0, !.dec_mod = 0, !.flush_count = 0,
                                              !.flush_output = 0, !.flush_total = 0]
                 ELSE /\ fsm' = fsm
                      /\ dram' = [dram EXCEPT
                            !.flush_output = IF @ < dram.flush_count THEN @ + 1 ELSE @,
                            !.flush_total = @ + 1]
            ELSE UNCHANGED <<fsm, dram>>

Drain ==
    /\ fsm = "DRAIN_POSTCONVERTER"
    /\ IF identity THEN fsm' = "BYPASS" /\ dram' = dram
       ELSE IF dram.dec_mod = 0
            THEN /\ fsm' = IF dram.flush_count = 0 THEN "BYPASS" ELSE "PUMP_PRECONVERTER"
                 /\ dram' = dram
            ELSE fsm' = fsm /\ dram' = [dram EXCEPT !.dec_mod = IF Gives THEN Up(@) ELSE @]

-----------------------------------------------------------------------------
(* The clock edge in every register outside the FSM.                        *)
Flow(c) ==
    LET puts == c.valid /\ Len(pre_fifo) < pre_fifo_depth
        gets == c.ready /\ post_fifo # <<>>
    IN  /\ DramEdge(offered, post_sink_ready, c.w, c.r, c.p)
        /\ pre_fifo' = (IF PreTaken(c) THEN Tail(pre_fifo) ELSE pre_fifo)
                         \o (IF puts THEN <<sent>> ELSE <<>>)
        /\ sent' = IF puts THEN (sent + 1) % NItems ELSE sent
        /\ post_fifo' = (IF gets THEN Tail(post_fifo) ELSE post_fifo)
                          \o (IF bypassed THEN <<Head(pre_fifo)>> ELSE <<>>)
                          \o (IF Gives /\ ~dropping THEN <<post_item>> ELSE <<>>)
        /\ out' = IF gets THEN Head(post_fifo) ELSE NoItem
        /\ IF identity THEN UNCHANGED <<parts, strobe_all>>
           ELSE LET kept == IF strobe_all /\ pre_source_ready(c) THEN <<>> ELSE parts
                IN  /\ parts' = IF Loads(c) THEN Append(kept, pre_sink_data) ELSE kept
                    /\ strobe_all' = (Len(parts') = data_width_ratio)
        /\ mux' = IF Gives THEN Up(mux) ELSE mux
        /\ UNCHANGED with_bypass

Next ==
    \/ \E c \in Inputs : Flow(c) /\ Bypass
    \/ \E c \in Inputs : Flow(c) /\ Dram(c)
    \/ \E c \in Inputs : Flow(c) /\ Pump
    \/ \E c \in Inputs : Flow(c) /\ Drain

Spec == Init /\ [][Next]_vars

\* The clock does not stop, the user takes what the source offers and may put
\* nothing into the sink, and the ports accept what they are asked
\* (NoCommandStuck of Crossbar) and perform what they accepted
\* (RequestsServed of Controller).
Cycle(c) == Flow(c) /\ (Bypass \/ Dram(c) \/ Pump \/ Drain)
circuit == <<level, write_address, read_address, writer_fifo, res_fifo, reader_fifo, port, mem,
             post_fifo, parts, strobe_all, mux, fsm, dram>>
FairSpec ==
    /\ Spec
    /\ WF_circuit(Next)
    /\ WF_circuit(\E c \in Inputs : c.ready /\ Cycle(c))
    /\ WF_circuit(\E c \in Inputs : c.w /\ Cycle(c))
    /\ WF_circuit(\E c \in Inputs : c.r /\ Cycle(c))
    /\ SF_circuit(\E c \in Inputs : Fetches(c.p) /\ Cycle(c))
    /\ SF_circuit(\E c \in Inputs : Delivers(c.p) /\ Cycle(c))

-----------------------------------------------------------------------------
(* The items in the FIFO, oldest first.  mux items of the oldest word have  *)
(* already been given to post_fifo, and padding is not an item; a converter *)
(* between equal widths adds none.                                          *)

Flat(words) == [i \in 1..(Len(words) * data_width_ratio) |->
    words[((i - 1) \div data_width_ratio) + 1][((i - 1) % data_width_ratio) + 1]]

IsItem(v) == v # Pad

Contents ==
    LET packed == Flat(DramContents) \o parts
        ungiven == SubSeq(packed, mux + 1, Len(packed))
    IN  post_fifo \o (IF identity THEN ungiven ELSE SelectSeq(ungiven, IsItem)) \o pre_fifo

Queue == INSTANCE RequestQueue WITH Requests <- Items, Idle <- NoItem, queue <- Contents, access <- out

(* The FIFO is one: items leave in the order in which they were accepted,   *)
(* each of them once and nothing else, through any number of changes        *)
(* between bypass and DRAM.                                                 *)
Ordered == Queue!Spec

(* An item in the FIFO leaves it, also when no other item follows.          *)
Delivered == Contents # <<>> ~> out # NoItem

PathEmpty == DramContents = <<>> /\ parts = <<>> /\ mux = 0

(* The FIFO goes from DRAM back to bypass only when nothing is left in the  *)
(* converters and the DRAM.                                                 *)
LeavesDramEmpty == [][fsm = "DRAM" /\ fsm' = "BYPASS" => PathEmpty']_vars
=============================================================================
