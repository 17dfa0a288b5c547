------------------------------ MODULE DramFifo ------------------------------
(***************************************************************************)
(* A FIFO of words kept in DRAM (_LiteDRAMFIFO of                          *)
(* litedram/frontend/fifo.py), with the DMA writer and reader it is made   *)
(* of (litedram/frontend/dma.py), on two native ports.                     *)
(*                                                                         *)
(* The ports are external.  Commands of one port are performed in the      *)
(* order of acceptance (OneBankPerMaster of Crossbar) and so are commands  *)
(* for one address, whatever their ports (InOrder of SingleBank); others   *)
(* may overtake.  The write data is fetched, and the read data delivered,  *)
(* when the command is performed, without asking whether there is any or   *)
(* whether there is room for it.                                           *)
(***************************************************************************)
EXTENDS Integers, Sequences, FiniteSets

CONSTANTS
    depth,                              \* words the FIFO holds in DRAM
    writer_fifo_depth, reader_fifo_depth,
    Words,
    NoWord                              \* nothing, or what was never written

ASSUME DramFifoAssumption ==
    /\ depth \in Nat \ {0}
    /\ writer_fifo_depth \in Nat \ {0} /\ reader_fifo_depth \in Nat \ {0}
    /\ NoWord \notin Words

Addresses == 0..(depth - 1)
Ops == {"read", "write"}

VARIABLES
    level, write_address, read_address, \* _LiteDRAMFIFOCtrl
    writer_fifo,                        \* words accepted, not yet fetched
    res_fifo,                           \* reads reserved in reader_fifo
    reader_fifo,                        \* words read, not yet taken
    port,                               \* commands accepted, not yet performed
    mem                                 \* the words in the DRAM

dramVars == <<level, write_address, read_address, writer_fifo, res_fifo, reader_fifo, port, mem>>

DramTypeOK ==
    /\ level \in 0..depth
    /\ write_address \in Addresses /\ read_address \in Addresses
    /\ writer_fifo \in Seq(Words) /\ Len(writer_fifo) <= writer_fifo_depth
    /\ res_fifo \in 0..reader_fifo_depth
    /\ reader_fifo \in Seq(Words) /\ Len(reader_fifo) <= reader_fifo_depth
    /\ port \in Seq([op : Ops, addr : Addresses])
    /\ mem \in [Addresses -> Words \cup {NoWord}]

DramInit ==
    /\ level = 0 /\ write_address = 0 /\ read_address = 0
    /\ writer_fifo = <<>> /\ res_fifo = 0 /\ reader_fifo = <<>>
    /\ port = <<>>
    /\ mem = [a \in Addresses |-> NoWord]

-----------------------------------------------------------------------------
(* Combinational signals.  offered is <<w>> when the sink is valid, else    *)
(* <<>>; w_ready and r_ready are the ready signals of the ports' commands.  *)

inc(address) == IF address = depth - 1 THEN 0 ELSE address + 1

\* Mutant: one word more than the FIFO has slots.
writableLate == level <= depth

writable == level < depth

\* Mutant: the last word stays.
readableLate == level > 1

readable == level > 0

\* Mutant: a write is issued whether or not its data finds room.
writeUnbuffered(offered, w_ready) == offered # <<>> /\ writable /\ w_ready

\* ctrl.write, which is also the ready of the sink.
write(offered, w_ready) ==
    offered # <<>> /\ writable /\ Len(writer_fifo) < writer_fifo_depth /\ w_ready

\* Mutant: a read is issued whether or not its word will find room.
readUnreserved(r_ready) == readable /\ r_ready

\* ctrl.read: a read is issued when there is a word, and room reserved for it.
read(r_ready) == readable /\ res_fifo < reader_fifo_depth /\ r_ready

source_valid == res_fifo > 0 /\ reader_fifo # <<>>
source_data == Head(reader_fifo)

\* The reader's FIFO gives a word away.
Taken(source_ready) == reader_fifo # <<>> /\ source_ready

-----------------------------------------------------------------------------
(* The port performs the command at position p of port, or none if p = 0.   *)

Performable(p) ==
    \A earlier \in 1..(p - 1) :
        port[earlier].op # port[p].op /\ port[earlier].addr # port[p].addr

Steps == {0} \cup {p \in 1..Len(port) : Performable(p)}
Fetches(p) == p > 0 /\ port[p].op = "write"
Delivers(p) == p > 0 /\ port[p].op = "read"

Remaining(p) ==
    IF p = 0 THEN port ELSE SubSeq(port, 1, p - 1) \o SubSeq(port, p + 1, Len(port))

\* A clock edge.
DramEdge(offered, source_ready, w_ready, r_ready, p) ==
    LET wr == write(offered, w_ready)
        rd == read(r_ready)
        fetched == IF writer_fifo = <<>> THEN NoWord ELSE Head(writer_fifo)
    IN  /\ level' = (IF wr THEN level + 1 ELSE level) - (IF rd THEN 1 ELSE 0)
        /\ write_address' = IF wr THEN inc(write_address) ELSE write_address
        /\ read_address' = IF rd THEN inc(read_address) ELSE read_address
        /\ writer_fifo' = (IF Fetches(p) /\ writer_fifo # <<>> THEN Tail(writer_fifo) ELSE writer_fifo)
                            \o (IF wr /\ Len(writer_fifo) < writer_fifo_depth THEN offered ELSE <<>>)
        /\ res_fifo' = (IF rd THEN res_fifo + 1 ELSE res_fifo)
                         - (IF Taken(source_ready) /\ res_fifo > 0 THEN 1 ELSE 0)
        /\ reader_fifo' = (IF Taken(source_ready) THEN Tail(reader_fifo) ELSE reader_fifo)
                            \o (IF Delivers(p) /\ Len(reader_fifo) < reader_fifo_depth
                                THEN <<mem[port[p].addr]>> ELSE <<>>)
        /\ port' = Remaining(p)
                     \o (IF wr THEN <<[op |-> "write", addr |-> write_address]>> ELSE <<>>)
                     \o (IF rd THEN <<[op |-> "read", addr |-> read_address]>> ELSE <<>>)
        /\ mem' = IF Fetches(p) THEN [mem EXCEPT ![port[p].addr] = fetched] ELSE mem

DramNext ==
    \E sink \in {<<>>} \cup {<<w>> : w \in Words}, source_ready, w_ready, r_ready \in BOOLEAN, p \in Steps :
        DramEdge(sink, source_ready, w_ready, r_ready, p)

DramSpec == DramInit /\ [][DramNext]_dramVars

-----------------------------------------------------------------------------
\* The positions of the reads, or of the writes, in a list of commands.
Kind(commands, op) == {i \in 1..Len(commands) : commands[i].op = op}
Reads == Kind(port, "read")
Writes == Kind(port, "write")

(* The words in the FIFO, oldest first: those of reader_fifo; those in the  *)
(* DRAM, beginning with the one that the oldest read under way asks for;    *)
(* and those that are still in writer_fifo.                                 *)
reading == res_fifo - Len(reader_fifo)
stored == reading + level - Len(writer_fifo)
DramContents ==
    reader_fifo \o [k \in 1..stored |-> mem[(read_address - reading + k - 1) % depth]] \o writer_fifo

(* Read data is never lost: every read under way has a place reserved for   *)
(* it in reader_fifo, which the port does not ask for when it delivers.     *)
ReadsHaveRoom == Cardinality(Reads) + Len(reader_fifo) = res_fifo

(* Write data is there when the port fetches it: one word in writer_fifo    *)
(* for each write under way.                                                *)
WritesHaveData == Cardinality(Writes) = Len(writer_fifo)

(* The writer is level words ahead of the reader in the ring of addresses,  *)
(* so that the two ports never ask for the same address in one cycle, and   *)
(* a slot is not written again before its word has been asked for.          *)
PointersAgree ==
    /\ level <= depth
    /\ read_address + level \in {write_address, write_address + depth}
=============================================================================
