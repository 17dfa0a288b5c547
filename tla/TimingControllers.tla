------------------------- MODULE TimingControllers -------------------------
(***************************************************************************)
(* The two timing controllers of litedram/common.py.  Both are small       *)
(* synchronous circuits: their registers are a record, and an operator     *)
(* gives the registers after one clock edge from the registers and the     *)
(* inputs before it.                                                       *)
(*                                                                         *)
(* A timing is a number of clock cycles; None (no constraint) is 0.        *)
(***************************************************************************)
EXTENDS Naturals, FiniteSets

None == 0

\* Number of values of Signal(max=max(t, 2)): the least power of two that
\* holds 0 .. max(t, 2) - 1.
CountModulus(t) ==
    CHOOSE m \in {2^k : k \in 1..(t + 1)} :
        /\ t <= m
        /\ \A k \in 1..(t + 1) : t <= 2^k => m <= 2^k

\* count - 1 on a register of the given modulus.
CountDown(count, modulus) == IF count = 0 THEN modulus - 1 ELSE count - 1

-----------------------------------------------------------------------------
(* tXXDController: after a cycle with valid, ready is low until txxd cycles *)
(* have passed.                                                             *)

tXXDInit(txxd) == [ready |-> txxd = None, count |-> 0]

\* Mutant: the counter is loaded with one cycle too few.
tXXDNextShort(txxd, con, valid) ==
    IF txxd > 1 /\ valid
    THEN [ready |-> txxd = 2, count |-> txxd - 2]
    ELSE IF ~con.ready /\ ~valid
    THEN [ready |-> con.count <= 1, count |-> CountDown(con.count, CountModulus(txxd))]
    ELSE con

\* Mutant: ready is raised one cycle after the counter reached one.
tXXDNextLate(txxd, con, valid) ==
    IF txxd # None /\ valid
    THEN [ready |-> txxd = 1, count |-> txxd - 1]
    ELSE IF ~con.ready
    THEN [ready |-> con.count = 0, count |-> CountDown(con.count, CountModulus(txxd))]
    ELSE con

tXXDNext(txxd, con, valid) ==
    IF txxd = None
    THEN con
    ELSE IF valid
    THEN [count |-> txxd - 1,
          ready |-> IF txxd - 1 = 0 THEN TRUE ELSE FALSE]
    ELSE IF ~con.ready
    THEN [count |-> CountDown(con.count, CountModulus(txxd)),
          ready |-> IF con.count = 1 THEN TRUE ELSE FALSE]
    ELSE con

-----------------------------------------------------------------------------
(* tFAWController: window is the shift register of the last tfaw values of  *)
(* valid, kept as the set of the positions that hold a one; position 1 is   *)
(* the previous cycle.                                                      *)

tFAWInit == [ready |-> TRUE, window |-> {}]

tFAWShift(tfaw, window, valid) ==
    {a + 1 : a \in {w \in window : w < tfaw}} \cup (IF valid THEN {1} ELSE {})

\* A value assigned to a register of the given modulus.
Truncate(n, modulus) == IF n < modulus THEN n ELSE n % modulus

\* The number of ones in the window, on a register that may be too narrow.
tFAWCount(tfaw, window) == Truncate(Cardinality(window), CountModulus(tfaw))

\* Mutant: the activate accepted in this cycle is not counted.
tFAWNextStale(tfaw, con, valid) ==
    IF tfaw = None
    THEN con
    ELSE [ready  |-> tFAWCount(tfaw, con.window) < 4,
          window |-> tFAWShift(tfaw, con.window, valid)]

tFAWNext(tfaw, con, valid) ==
    IF tfaw = None
    THEN con
    ELSE LET count == tFAWCount(tfaw, con.window)
         IN  [ready  |-> IF count < 4 THEN count = 3 => ~valid ELSE con.ready,
              window |-> tFAWShift(tfaw, con.window, valid)]
=============================================================================
