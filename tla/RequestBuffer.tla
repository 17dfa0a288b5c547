--------------------------- MODULE RequestBuffer ---------------------------
(***************************************************************************)
(* The requests inside a bank machine (litedram/core/bankmachine.py): the  *)
(* lookahead FIFO and the one-entry cmd_buffer behind it.  A record s has  *)
(* the fields mem and out (the FIFO; out is its output register, used only *)
(* when buffered) and cb (cmd_buffer), sequences of requests, oldest       *)
(* first.  arriving is <<>> or <<r>>, the request accepted in this cycle;  *)
(* performed says that the request in cmd_buffer is performed in it.       *)
(***************************************************************************)
EXTENDS Naturals, Sequences

CONSTANTS
    cmd_buffer_depth,       \* ControllerSettings
    cmd_buffer_buffered

ASSUME BufferAssumption ==
    cmd_buffer_depth \in Nat \ {0, 1} /\ cmd_buffer_buffered \in BOOLEAN

EmptyBuffer == [mem |-> <<>>, out |-> <<>>, cb |-> <<>>]

lookahead(s) == IF cmd_buffer_buffered THEN s.out ELSE s.mem

\* Mutant: the FIFO accepts a request when it is full.
req_readyLate(s) == Len(s.mem) <= cmd_buffer_depth

req_ready(s) == Len(s.mem) < cmd_buffer_depth

\* Mutant: the request in cmd_buffer is not covered.
lockLookahead(s) == lookahead(s) # <<>>

lock(s) == lookahead(s) # <<>> \/ s.cb # <<>>

\* The accepted requests that have not been performed, oldest first.
Pending(s) == s.cb \o s.out \o s.mem

\* Mutant: cmd_buffer loads in every cycle.
cb_loadAlways(s, performed) == TRUE

\* cmd_buffer loads when it is empty or its request is performed.
cb_load(s, performed) == s.cb = <<>> \/ performed

\* The FIFO moves its oldest request on.
MemTaken(s, performed) ==
    /\ s.mem # <<>>
    /\ IF cmd_buffer_buffered THEN s.out = <<>> \/ cb_load(s, performed) ELSE cb_load(s, performed)

First(queue) == IF queue = <<>> THEN <<>> ELSE <<Head(queue)>>

MemNext(s, arriving, performed) ==
    (IF MemTaken(s, performed) THEN Tail(s.mem) ELSE s.mem) \o arriving
OutNext(s, performed) ==
    IF cmd_buffer_buffered /\ (s.out = <<>> \/ cb_load(s, performed)) THEN First(s.mem) ELSE s.out
CbNext(s, performed) ==
    IF cb_load(s, performed) THEN First(lookahead(s)) ELSE s.cb
=============================================================================
