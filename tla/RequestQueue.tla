---------------------------- MODULE RequestQueue ----------------------------
(***************************************************************************)
(* A queue: what is accepted leaves one at a time, in the order in which   *)
(* it was accepted, each of it once.  It is what a bank machine promises   *)
(* to the crossbar of the requests it performs on the DRAM (InOrder of     *)
(* SingleBank), and what the stream FIFO over DRAM promises of its items   *)
(* (Ordered of StreamFifo).                                                *)
(***************************************************************************)
EXTENDS Sequences, Naturals

CONSTANTS
    Requests,   \* what may be accepted
    Idle        \* nothing left in the last cycle

VARIABLES
    queue,      \* requests accepted and not yet performed, oldest first
    access      \* the request performed in the last cycle, or Idle

Init == queue = <<>> /\ access = Idle

\* A cycle in which the given requests arrive (none or one) and nothing is
\* performed.
Wait(arriving) ==
    /\ queue' = queue \o arriving
    /\ access' = Idle

\* A cycle in which the oldest request is performed.
Perform(arriving) ==
    /\ queue # <<>>
    /\ access' = Head(queue)
    /\ queue' = Tail(queue) \o arriving

Arrivals == {<<>>} \cup {<<r>> : r \in Requests}

Next == \E arriving \in Arrivals : Wait(arriving) \/ Perform(arriving)

Spec == Init /\ [][Next]_<<queue, access>>
=============================================================================
