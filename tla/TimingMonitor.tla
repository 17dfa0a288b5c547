--------------------------- MODULE TimingMonitor ---------------------------
(***************************************************************************)
(* A tXXDController and a tFAWController, each clocked with the history of *)
(* its inputs beside it, so that what ready promises can be stated.  The   *)
(* two circuits share nothing, so their clock edges interleave.  The two   *)
(* timings are chosen in the initial state and never change.               *)
(***************************************************************************)
EXTENDS TimingControllers

CONSTANTS
    Timings,    \* the values of txxd and tfaw that are considered
    Cap         \* ages saturate here

ASSUME TimingsAssumption == Timings \subseteq Nat
ASSUME CapAssumption == Cap \in Nat \ {0} /\ \A t \in Timings : t <= Cap
ASSUME WidthAssumption ==
    \A t \in Timings :
        /\ CountModulus(t) \in Nat /\ CountModulus(t) >= 2
        /\ t <= CountModulus(t)
        /\ 3 <= t => 4 <= CountModulus(t)

VARIABLES
    txxd,       \* parameter of the tXXDController
    xxd,        \* registers of the tXXDController
    since,      \* cycles since its valid was last high (Cap: long ago or never)
    boot,       \* cycles from reset until valid was first high
    fired,      \* valid has been high
    tfaw,       \* parameter of the tFAWController
    faw         \* registers of the tFAWController

vars == <<txxd, xxd, since, boot, fired, tfaw, faw>>

Older(age) == IF age < Cap THEN age + 1 ELSE Cap

TypeOK ==
    /\ txxd \in Timings
    /\ xxd.ready \in BOOLEAN
    /\ xxd.count \in 0..(CountModulus(txxd) - 1)
    /\ since \in 1..Cap
    /\ boot \in 0..Cap
    /\ fired \in BOOLEAN
    /\ tfaw \in Timings
    /\ faw.ready \in BOOLEAN
    /\ faw.window \subseteq 1..tfaw

Init ==
    /\ txxd \in Timings
    /\ xxd = tXXDInit(txxd)
    /\ since = Cap
    /\ boot = 0
    /\ fired = FALSE
    /\ tfaw \in Timings
    /\ faw = tFAWInit

\* A clock edge of the tXXDController.  Its valid is any accepted command of
\* the kind it watches, whether or not ready is high.
ClockXXD(valid) ==
    /\ xxd' = tXXDNext(txxd, xxd, valid)
    /\ since' = IF valid THEN 1 ELSE Older(since)
    /\ boot' = IF fired \/ valid THEN boot ELSE Older(boot)
    /\ fired' = (fired \/ valid)
    /\ UNCHANGED <<txxd, tfaw, faw>>

\* A clock edge of the tFAWController.  The multiplexer accepts an activate
\* only in a cycle in which ready is high.
ClockFAW(valid) ==
    /\ valid => faw.ready
    /\ faw' = tFAWNext(tfaw, faw, valid)
    /\ UNCHANGED <<txxd, tfaw, xxd, since, boot, fired>>

Next == \E valid \in BOOLEAN : ClockXXD(valid) \/ ClockFAW(valid)

Spec == Init /\ [][Next]_vars

-----------------------------------------------------------------------------
(* tXXDController: ready never comes back early.  While fewer than txxd     *)
(* cycles have passed since valid, ready is low, however often valid is     *)
(* asserted again and whatever the counter wrapped to before.               *)
ReadyNotEarly == since < txxd => ~xxd.ready

(* tXXDController: ready is not late either.  From txxd cycles after the    *)
(* last valid it is high, and after reset, where the counter starts at 0    *)
(* and wraps, it is high after at most one round of the counter.            *)
ReadyNotLate ==
    IF fired THEN txxd <= since => xxd.ready
             ELSE CountModulus(txxd) <= boot => xxd.ready

(* tFAWController: no window of tfaw cycles holds more than four activates, *)
(* although ready is a register and the count of the window may be          *)
(* truncated.                                                               *)
FourActivateWindow == Cardinality(faw.window) <= 4

(* What makes the two safety properties inductive: the counter holds the    *)
(* cycles that remain, and ready is low whenever the window is full.        *)
CountHoldsRemaining == since < txxd => xxd.count = txxd - since
ReadyMeansRoom == faw.ready => Cardinality(faw.window) <= 3

\* What makes ReadyNotLate inductive: after a valid ready is low only while
\* cycles remain, and after reset only in the first round of the counter,
\* which goes from 0 to its largest value and down to 1.
RoundHoldsRemaining ==
    /\ txxd = None => xxd.ready
    /\ fired /\ ~xxd.ready => since < txxd
    /\ ~fired /\ ~xxd.ready =>
          /\ boot < CountModulus(txxd)
          /\ boot < Cap => xxd.count = IF boot = 0 THEN 0 ELSE CountModulus(txxd) - boot

IInv ==
    /\ TypeOK
    /\ ReadyNotEarly
    /\ CountHoldsRemaining
    /\ FourActivateWindow
    /\ ReadyMeansRoom

=============================================================================
