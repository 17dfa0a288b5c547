------------------------------ MODULE NativePort ------------------------------
(* A native port as the bridges and adapters of litedram/frontend see it, the  *)
(* crossbar and the controller behind it, and the users of the bridges.        *)
(*                                                                             *)
(* The port accepts commands, performs them in order, and never waits: in the  *)
(* cycle in which a write is performed wdata is fetched whether it is valid or *)
(* not, and a word that was read is presented for one cycle whether rdata is   *)
(* ready or not.  A step is a clock cycle; the port's inputs of a cycle say    *)
(* whether it accepts (ready), performs (do) and returns (ret).  A command     *)
(* passes the buffers of a bank machine: it is performed two cycles after it   *)
(* was accepted, or later.                                                     *)
(*                                                                             *)
(* The memory is an array of cells.  A port of width w holds w cells in a      *)
(* word, and so does the word of a bus of width w: widths are the ratios the   *)
(* converters bridge.  In a behaviour the users write other values than 0 only *)
(* to one cell, focus: data that reaches another cell or another lane than it  *)
(* should then shows there or, with that cell as the focus, in its place.      *)
EXTENDS Integers, Sequences, FiniteSets

CONSTANTS NCells,      \* cells of the memory
          Values,      \* what a cell holds
          MaxCmds,     \* commands, and words read, that the port holds
          Focus        \* cells that are written with other values than 0

ASSUME NativePortAssumption ==
    /\ NCells \in Nat \ {0}
    /\ MaxCmds \in Nat \ {0}
    /\ 0 \in Values
    /\ Focus \subseteq 0 .. NCells - 1

VARIABLES kind,        \* the bridge that is exercised
          port,        \* the native port and the memory behind it
          bridge,      \* the registers of the bridge
          master       \* the user of the bridge

frontVars == <<kind, port, bridge, master>>

Cells == 0 .. NCells - 1

(* The lanes of a word, and the cell of a lane. *)
Lanes(w) == 0 .. w - 1
Addrs(w) == 0 .. (NCells \div w) - 1
CellOf(w, adr, l) == adr * w + l
Words(w) == [Lanes(w) -> Values]
Zero(w) == [l \in Lanes(w) |-> 0]

PortInit(w, f) ==
    [ width |-> w, focus |-> f, masks |-> TRUE, fresh |-> <<>>, cmds |-> <<>>, returns |-> <<>>,
      mem |-> [c \in Cells |-> 0],
      missed |-> FALSE,       \* a write was performed without data
      dropped |-> FALSE ]     \* a word that was read found no room

(* The inputs of a cycle from the port's side. *)
PortInputs ==
    { e \in [ready : BOOLEAN, do : BOOLEAN, ret : BOOLEAN] :
        /\ e.ready => Len(port.fresh) + Len(port.cmds) < MaxCmds
        /\ e.do => /\ port.cmds # <<>>
                   /\ Head(port.cmds).we \/ Len(port.returns) < MaxCmds
        /\ e.ret => port.returns # <<>> }

wdata_ready(e) == e.do /\ Head(port.cmds).we
(* The word returned in this cycle, if any. *)
rdata(e) == IF e.ret THEN <<Head(port.returns)>> ELSE <<>>

(* What a bridge sees of the port in a cycle. *)
Seen(e) == [cmd_ready |-> e.ready, wdata_ready |-> wdata_ready(e), rdata |-> rdata(e)]

MemWord(adr) == [l \in Lanes(port.width) |-> port.mem[CellOf(port.width, adr, l)]]
MemWrite(mem, adr, w) ==
    [c \in Cells |-> LET l == c % port.width
                     IN IF c \div port.width = adr /\ (port.masks => l \in w.we) THEN w.data[l] ELSE mem[c]]

(* A clock edge of the port; o is what the bridge drives: at most one command, *)
(* at most one word of write data, and rdata.ready.                            *)
PortNext(e, o) ==
    LET head == Head(port.cmds)
    IN [port EXCEPT
         !.fresh = IF e.ready THEN o.cmd ELSE <<>>,
         !.cmds = (IF e.do THEN Tail(@) ELSE @) \o port.fresh,
         !.returns = (IF rdata(e) # <<>> THEN Tail(@) ELSE @)
                     \o (IF e.do /\ ~head.we THEN <<MemWord(head.addr)>> ELSE <<>>),
         !.mem = IF wdata_ready(e) /\ o.wdata # <<>>
                 THEN MemWrite(@, head.addr, Head(o.wdata)) ELSE @,
         !.missed = @ \/ (wdata_ready(e) /\ o.wdata = <<>>),
         !.dropped = @ \/ (rdata(e) # <<>> /\ ~o.rdata_ready)]

-----------------------------------------------------------------------------
(* Users.  ideal[c] is the set of values a read of cell c may return: one      *)
(* value, or more while a write is under way or after a write that the user    *)
(* gave up.  wrong records a read that returned anything else, answered that   *)
(* this cycle brought the user on.                                             *)

IdealInit == [c \in Cells |-> {0}]
IdealWrite(ideal, w, adr, dat) ==
    [c \in Cells |-> IF c \div w = adr THEN {dat[c % w]} ELSE ideal[c]]
IdealMayWrite(ideal, w, adr, dat) ==
    [c \in Cells |-> IF c \div w = adr THEN ideal[c] \cup {dat[c % w]} ELSE ideal[c]]
IdealWord(ideal, w, adr) == [l \in Lanes(w) |-> ideal[CellOf(w, adr, l)]]
Allowed(got, sets) == \A l \in DOMAIN sets : got[l] \in sets[l]

(* The requests of a user.  Some users mark the last one of a burst. *)
Requests(w, lasts) ==
    { r \in [we : BOOLEAN, adr : Addrs(w), dat : Words(w), last : lasts] :
        \A l \in Lanes(w) : r.dat[l] # 0 => r.we /\ CellOf(w, r.adr, l) = port.focus }

(* A bus user (Wishbone): one request at a time, held until ack or, where the  *)
(* bus allows it, given up.  cyc stays high between the beats of a burst.      *)
BusInit(w, lasts) ==
    [width |-> w, lasts |-> lasts, req |-> <<>>, cyc |-> FALSE, ideal |-> IdealInit,
     answered |-> FALSE, wrong |-> FALSE]

stb == master.req # <<>>
cyc == master.cyc
req == Head(master.req)

(* The requests the user may present in the next cycle. *)
BusMoves(ack, aborts) ==
    LET fresh == {<<r>> : r \in Requests(master.width, master.lasts)} \cup {<<>>}
    IN IF stb /\ ~ack THEN {master.req} \cup (IF aborts THEN {<<>>} ELSE {}) ELSE fresh

(* An answer nobody asked for, or a read that returns what it must not. *)
BusWrong(dat_r) ==
    stb => ~req.we /\ ~Allowed(dat_r, IdealWord(master.ideal, master.width, req.adr))

(* The user's clock edge: next is its next request, go whether it keeps cyc    *)
(* when it presents none.                                                      *)
BusNext(ack, dat_r, next, go) ==
    LET w == master.width
        gives_up == stb /\ ~ack /\ next = <<>>
    IN [master EXCEPT
         !.req = next,
         !.cyc = next # <<>> \/ (go /\ cyc /\ ~gives_up),
         !.ideal = IF ~stb \/ ~req.we THEN @
                   ELSE IF ack THEN IdealWrite(@, w, req.adr, req.dat)
                   ELSE IF gives_up THEN IdealMayWrite(@, w, req.adr, req.dat) ELSE @,
         !.answered = ack,
         !.wrong = @ \/ (ack /\ BusWrong(dat_r))]

(* A native user: commands in a row, the data of a write offered with its      *)
(* command or earlier, words read taken in order.  expect is what the reads    *)
(* that are under way must return.                                             *)
NativeInit(w, lasts) ==
    [width |-> w, lasts |-> lasts, cmd |-> <<>>, wdata |-> <<>>, expect |-> <<>>,
     ideal |-> IdealInit, answered |-> FALSE, wrong |-> FALSE]
NativeMoves(accepted) ==
    IF master.cmd # <<>> /\ ~accepted THEN {master.cmd}
    ELSE IF Len(master.wdata) + Len(master.expect) >= MaxCmds THEN {<<>>}
    ELSE {<<r>> : r \in Requests(master.width, master.lasts)} \cup {<<>>}

(* i is what the user sees: its command accepted, its data fetched, a word.    *)
NativeNext(i, next) ==
    LET w == master.width
        accepted == master.cmd # <<>> /\ i.cmd_ready
        new == next # <<>> /\ (master.cmd = <<>> \/ accepted)
        r == Head(next)
    IN [master EXCEPT
         !.cmd = next,
         !.wdata = (IF i.wdata_ready /\ @ # <<>> THEN Tail(@) ELSE @)
                   \o (IF new /\ r.we THEN <<r.dat>> ELSE <<>>),
         !.expect = (IF i.rdata # <<>> /\ @ # <<>> THEN Tail(@) ELSE @)
                    \o (IF new /\ ~r.we THEN <<IdealWord(master.ideal, w, r.adr)>> ELSE <<>>),
         !.ideal = IF new /\ r.we THEN IdealWrite(@, w, r.adr, r.dat) ELSE @,
         !.answered = accepted \/ (i.wdata_ready /\ master.wdata # <<>>) \/ i.rdata # <<>>,
         !.wrong = @ \/ (i.rdata # <<>> /\ (master.expect = <<>>
                                  \/ ~Allowed(Head(i.rdata), Head(master.expect))))]
=============================================================================
