----------------------------- MODULE RoundRobin -----------------------------
(* migen's RoundRobin with SP_CE, the arbiter of the command choosers and   *)
(* of the crossbar: when enabled, the grant moves to the next requester     *)
(* after the current one, and stays if there is no other.                   *)
EXTENDS Naturals

Distance(from, to, n) == (to + n - from) % n

RoundRobinNext(n, grant, requests, ce) ==
    LET others == requests \ {grant}
    IN  IF ~ce \/ others = {} THEN grant
        ELSE CHOOSE t \in others :
                \A u \in others : Distance(grant, t, n) <= Distance(grant, u, n)
=============================================================================
