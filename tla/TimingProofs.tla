---------------------------- MODULE TimingProofs ----------------------------
(***************************************************************************)
(* Proofs about the timing controllers, for every set of timings: ready of *)
(* a tXXDController comes back neither early nor late, and no window of    *)
(* tfaw cycles holds more than four activates.                             *)
(***************************************************************************)
EXTENDS TimingMonitor, FiniteSetTheorems, TLAPS

\* The ones of the window that the next shift keeps.
Kept(t, w) == {a \in w : a < t}

(* A window is finite, and the shift drops its oldest position only (the    *)
(* shift register of tFAWController).                                       *)
LEMMA KeptWindow ==
    ASSUME NEW t \in Nat \ {0}, NEW w \in SUBSET (1..t)
    PROVE  /\ IsFiniteSet(w) /\ Cardinality(w) \in Nat /\ Cardinality(w) <= t
           /\ IsFiniteSet(Kept(t, w)) /\ Cardinality(Kept(t, w)) \in Nat
           /\ Cardinality(Kept(t, w)) <= Cardinality(w)
           /\ t \in w => Cardinality(Kept(t, w)) = Cardinality(w) - 1
  <1>1. IsFiniteSet(1..t) /\ Cardinality(1..t) = t
    BY FS_Interval, 1 \in Int, t \in Int
  <1>2. IsFiniteSet(w) /\ Cardinality(w) \in Nat /\ Cardinality(w) <= t
    BY <1>1, FS_Subset, FS_CardinalityType
  <1>3. Kept(t, w) \in SUBSET w
    BY DEF Kept
  <1>4. /\ IsFiniteSet(Kept(t, w)) /\ Cardinality(Kept(t, w)) \in Nat
        /\ Cardinality(Kept(t, w)) <= Cardinality(w)
    BY <1>2, <1>3, FS_Subset, FS_CardinalityType
  <1>5. ASSUME t \in w PROVE Cardinality(Kept(t, w)) = Cardinality(w) - 1
    <2>1. \A a \in w : a \in Nat /\ (a < t <=> a # t)
      OBVIOUS
    <2>2. Kept(t, w) = w \ {t}
      BY <2>1 DEF Kept
    <2>. QED  BY <1>2, <1>5, <2>2, FS_RemoveElement
  <1>. QED  BY <1>2, <1>4, <1>5

(* The shift moves every kept bit by one position and puts valid in the     *)
(* first one, so it adds one to the number of ones exactly when valid.      *)
LEMMA ShiftWindow ==
    ASSUME NEW t \in Nat \ {0}, NEW w \in SUBSET (1..t), NEW valid \in BOOLEAN
    PROVE  /\ tFAWShift(t, w, valid) \in SUBSET (1..t)
           /\ valid => Cardinality(tFAWShift(t, w, valid)) = Cardinality(Kept(t, w)) + 1
           /\ ~valid => Cardinality(tFAWShift(t, w, valid)) = Cardinality(Kept(t, w))
  <1> DEFINE old == Kept(t, w)
             shifted == {a + 1 : a \in old}
             f == [a \in old |-> a + 1]
  <1>1. \A a \in old : a \in Nat /\ 1 <= a /\ a < t
    BY DEF Kept
  <1>2. shifted \in SUBSET (1..t) /\ 1 \notin shifted
    BY <1>1
  <1>3. tFAWShift(t, w, valid) = IF valid THEN shifted \cup {1} ELSE shifted
    BY DEF tFAWShift, Kept
  <1>4. IsFiniteSet(shifted) /\ Cardinality(shifted) = Cardinality(old)
    <2>1. f \in Injection(old, shifted)
      BY <1>1 DEF Injection, IsInjective
    <2>2. f \in Surjection(old, shifted)
      BY DEF Surjection
    <2>3. ExistsBijection(old, shifted)
      BY <2>1, <2>2 DEF ExistsBijection, Bijection
    <2>. QED  BY <2>3, KeptWindow, FS_Bijection
  <1> HIDE DEF shifted
  <1>5. Cardinality(shifted \cup {1}) = Cardinality(old) + 1
    BY <1>2, <1>4, FS_AddElement
  <1>. QED  BY <1>2, <1>3, <1>4, <1>5

-----------------------------------------------------------------------------
(* The initial registers satisfy the inductive invariant.                   *)
LEMMA InitIInv == Init => IInv
  <1> SUFFICES ASSUME Init PROVE IInv
    OBVIOUS
  <1>1. Cardinality({}) = 0
    BY FS_EmptySet
  <1>2. TypeOK
    <2>1. txxd \in Timings /\ tfaw \in Timings /\ xxd.ready \in BOOLEAN
      BY DEF Init, tXXDInit
    <2>2. xxd.count \in 0..(CountModulus(txxd) - 1)
      BY WidthAssumption DEF Init, tXXDInit
    <2>3. since \in 1..Cap /\ boot \in 0..Cap
      BY CapAssumption DEF Init
    <2>4. fired \in BOOLEAN /\ faw.ready \in BOOLEAN /\ faw.window \subseteq 1..tfaw
      BY DEF Init, tFAWInit
    <2>. QED  BY <2>1, <2>2, <2>3, <2>4 DEF TypeOK
  <1>3. ReadyNotEarly /\ CountHoldsRemaining
    BY TimingsAssumption, CapAssumption DEF Init, ReadyNotEarly, CountHoldsRemaining
  <1>4. FourActivateWindow /\ ReadyMeansRoom
    BY <1>1 DEF Init, tFAWInit, FourActivateWindow, ReadyMeansRoom
  <1>. QED  BY <1>2, <1>3, <1>4 DEF IInv

(* A clock edge of the tXXDController keeps the counter equal to the cycles *)
(* that remain, so ready stays low until they have passed.                  *)
LEMMA ClockXXDStep ==
    ASSUME IInv, NEW valid \in BOOLEAN, ClockXXD(valid)
    PROVE  IInv'
  <1> USE TimingsAssumption, CapAssumption, WidthAssumption
  <1>0. TypeOK /\ ReadyNotEarly /\ CountHoldsRemaining /\ FourActivateWindow /\ ReadyMeansRoom
    BY DEF IInv
  <1>1. TypeOK'
    <2>1. xxd'.ready \in BOOLEAN
      BY <1>0 DEF TypeOK, ClockXXD, tXXDNext
    <2>2. xxd'.count \in 0..(CountModulus(txxd') - 1)
      BY <1>0 DEF TypeOK, ClockXXD, tXXDNext, CountDown, None
    <2>3. since' \in 1..Cap /\ boot' \in 0..Cap
      BY <1>0 DEF TypeOK, ClockXXD, Older
    <2>4. fired' \in BOOLEAN
      BY <1>0 DEF TypeOK, ClockXXD
    <2>5. /\ txxd' \in Timings /\ tfaw' \in Timings
          /\ faw'.ready \in BOOLEAN /\ faw'.window \subseteq 1..tfaw'
      BY <1>0 DEF TypeOK, ClockXXD
    <2>. QED  BY <2>1, <2>2, <2>3, <2>4, <2>5 DEF TypeOK
  <1>2. ReadyNotEarly' /\ CountHoldsRemaining'
    <2>1. /\ txxd \in Nat /\ txxd <= Cap /\ txxd' = txxd
          /\ since \in 1..Cap /\ since' = IF valid THEN 1 ELSE Older(since)
          /\ xxd' = tXXDNext(txxd, xxd, valid)
      BY <1>0 DEF TypeOK, ClockXXD
    <2>2. CASE valid
      BY <2>1, <2>2 DEF ReadyNotEarly, CountHoldsRemaining, tXXDNext, None
    <2>3. CASE ~valid
      BY <1>0, <2>1, <2>3 DEF ReadyNotEarly, CountHoldsRemaining, tXXDNext, CountDown, Older, None
    <2>. QED  BY <2>2, <2>3
  <1>3. FourActivateWindow' /\ ReadyMeansRoom'
    BY <1>0 DEF FourActivateWindow, ReadyMeansRoom, ClockXXD
  <1>. QED  BY <1>1, <1>2, <1>3 DEF IInv

(* A clock edge of the tFAWController keeps at most four ones in the        *)
(* window: the fifth activate could only come while ready is low.           *)
LEMMA ClockFAWStep ==
    ASSUME IInv, NEW valid \in BOOLEAN, ClockFAW(valid)
    PROVE  IInv'
  <1> DEFINE w == faw.window
             n == Cardinality(w)
             n2 == Cardinality(faw'.window)
  <1>0. /\ TypeOK /\ ReadyNotEarly /\ CountHoldsRemaining /\ n <= 4 /\ (faw.ready => n <= 3)
        /\ tfaw \in Nat /\ tfaw' = tfaw
    BY TimingsAssumption DEF IInv, TypeOK, FourActivateWindow, ReadyMeansRoom, ClockFAW
  <1>1. ReadyNotEarly' /\ CountHoldsRemaining'
    BY <1>0 DEF ReadyNotEarly, CountHoldsRemaining, ClockFAW
  <1>2. CASE tfaw = None
    BY <1>0, <1>1, <1>2 DEF IInv, TypeOK, FourActivateWindow, ReadyMeansRoom, ClockFAW, tFAWNext
  <1>3. CASE tfaw # None
    <2>1. tfaw \in Nat \ {0} /\ w \in SUBSET (1..tfaw)
      BY <1>0, <1>3 DEF TypeOK, None
    <2>2. /\ faw'.window = tFAWShift(tfaw, w, valid)
          /\ faw'.ready = IF tFAWCount(tfaw, w) < 4
                          THEN tFAWCount(tfaw, w) = 3 => ~valid ELSE faw.ready
      BY <1>3 DEF ClockFAW, tFAWNext
    <2>3. /\ n \in Nat /\ n <= tfaw /\ Cardinality(Kept(tfaw, w)) \in Nat
          /\ Cardinality(Kept(tfaw, w)) <= n
          /\ tfaw \in w => Cardinality(Kept(tfaw, w)) = n - 1
      BY <2>1, KeptWindow
    <2>4. /\ faw'.window \in SUBSET (1..tfaw)
          /\ valid => n2 = Cardinality(Kept(tfaw, w)) + 1
          /\ ~valid => n2 = Cardinality(Kept(tfaw, w))
      BY <2>1, <2>2, ShiftWindow
    <2>5. TypeOK'
      <3>1. faw'.ready \in BOOLEAN
        BY <1>0, <2>2 DEF TypeOK
      <3>. QED  BY <1>0, <2>4, <3>1 DEF TypeOK, ClockFAW
    <2>6. n2 <= 4
      <3>1. valid => n <= 3
        BY <1>0 DEF ClockFAW
      <3>. QED  BY <1>0, <2>3, <2>4, <3>1
    <2>7. faw'.ready => n2 <= 3
      <3>1. CASE n <= 2
        BY <1>0, <2>3, <2>4, <3>1
      <3>2. CASE n = 3
        <4>1. CountModulus(tfaw) \in Nat /\ 4 <= CountModulus(tfaw)
          BY <1>0, <2>3, <3>2, WidthAssumption DEF TypeOK
        <4>2. tFAWCount(tfaw, w) = 3
          BY <3>2, <4>1 DEF tFAWCount, Truncate
        <4>3. faw'.ready = ~valid
          BY <2>2, <4>2, SMT
        <4>. QED  BY <2>3, <2>4, <3>2, <4>3
      <3>3. CASE n = 4 /\ tfaw # 4
        <4>1. CountModulus(tfaw) \in Nat /\ 5 <= CountModulus(tfaw)
          BY <1>0, <2>3, <3>3, WidthAssumption DEF TypeOK
        <4>2. tFAWCount(tfaw, w) = 4
          BY <3>3, <4>1 DEF tFAWCount, Truncate
        <4>3. ~faw'.ready
          BY <1>0, <2>2, <3>3, <4>2
        <4>. QED  BY <4>3
      <3>4. CASE n = 4 /\ tfaw = 4
        <4>1. IsFiniteSet(1..tfaw) /\ Cardinality(1..tfaw) = tfaw
          BY <2>1, FS_Interval, 1 \in Int, tfaw \in Int
        <4>2. w = 1..tfaw
          BY <2>1, <3>4, <4>1, FS_Subset
        <4>3. tfaw \in w
          BY <3>4, <4>2
        <4>4. ~valid
          BY <1>0, <3>4 DEF ClockFAW
        <4>. QED  BY <2>3, <2>4, <3>4, <4>3, <4>4
      <3>. QED  BY <1>0, <2>3, <3>1, <3>2, <3>3, <3>4
    <2>. QED  BY <1>1, <2>5, <2>6, <2>7 DEF IInv, FourActivateWindow, ReadyMeansRoom
  <1>. QED  BY <1>2, <1>3

(* Every step of the monitor preserves the inductive invariant.             *)
LEMMA NextIInv == IInv /\ [Next]_vars => IInv'
  <1> SUFFICES ASSUME IInv, [Next]_vars PROVE IInv'
    OBVIOUS
  <1>1. ASSUME NEW valid \in BOOLEAN, ClockXXD(valid) PROVE IInv'
    BY <1>1, ClockXXDStep
  <1>2. ASSUME NEW valid \in BOOLEAN, ClockFAW(valid) PROVE IInv'
    BY <1>2, ClockFAWStep
  <1>3. CASE UNCHANGED vars
    BY <1>3 DEF vars, IInv, TypeOK, ReadyNotEarly, CountHoldsRemaining,
                FourActivateWindow, ReadyMeansRoom
  <1>. QED  BY <1>1, <1>2, <1>3 DEF Next

(* The counter holds the cycles that remain of its round, so ready comes    *)
(* back at the latest when the round ends.                                  *)
LEMMA RoundStep ==
    ASSUME TypeOK, CountHoldsRemaining, RoundHoldsRemaining, [Next]_vars
    PROVE  RoundHoldsRemaining'
  <1> DEFINE m == CountModulus(txxd)
  <1>1. /\ txxd \in Nat /\ txxd <= Cap /\ Cap \in Nat /\ 1 <= Cap /\ m \in Nat /\ 2 <= m
        /\ xxd.ready \in BOOLEAN /\ xxd.count \in 0..(m - 1)
        /\ since \in 1..Cap /\ boot \in 0..Cap /\ fired \in BOOLEAN
    BY TimingsAssumption, CapAssumption, WidthAssumption DEF TypeOK
  <1>2. ASSUME UNCHANGED <<txxd, xxd, since, boot, fired>> PROVE RoundHoldsRemaining'
    BY <1>2 DEF RoundHoldsRemaining
  <1>3. ASSUME NEW valid \in BOOLEAN, ClockXXD(valid) PROVE RoundHoldsRemaining'
    <2>1. /\ txxd' = txxd /\ xxd' = tXXDNext(txxd, xxd, valid)
          /\ since' = IF valid THEN 1 ELSE Older(since)
          /\ boot' = IF fired \/ valid THEN boot ELSE Older(boot)
          /\ fired' <=> fired \/ valid
      BY <1>3 DEF ClockXXD
    <2>2. CASE txxd = None
      BY <1>1, <2>1, <2>2 DEF RoundHoldsRemaining, tXXDNext
    <2>3. CASE txxd # None /\ valid
      <3>1. xxd'.ready <=> txxd - 1 = 0
        BY <2>1, <2>3 DEF tXXDNext
      <3>2. fired' /\ since' = 1 /\ txxd' # None
        BY <2>1, <2>3
      <3>3. ~xxd'.ready => since' < txxd'
        <4>1. txxd # 0 /\ txxd' = txxd
          BY <2>1, <2>3 DEF None
        <4>2. \A t \in Nat : t # 0 /\ t - 1 # 0 => 1 < t
          OBVIOUS
        <4>. QED  BY <1>1, <3>1, <3>2, <4>1, <4>2
      <3>. QED  BY <3>2, <3>3 DEF RoundHoldsRemaining
    <2>4. CASE txxd # None /\ ~valid /\ xxd.ready
      <3>1. xxd' = xxd
        BY <2>1, <2>4 DEF tXXDNext
      <3>. QED  BY <1>1, <2>1, <2>4, <3>1 DEF RoundHoldsRemaining
    <2>5. CASE txxd # None /\ ~valid /\ ~xxd.ready
      <3>1. /\ xxd'.count = IF xxd.count = 0 THEN m - 1 ELSE xxd.count - 1
            /\ xxd'.ready <=> xxd.count = 1
        BY <2>1, <2>5 DEF tXXDNext, CountDown
      <3> HIDE DEF m
      <3>2. CASE fired
        <4>1. since < txxd /\ xxd.count = txxd - since /\ since' = since + 1 /\ fired'
          BY <1>1, <2>1, <2>5, <3>2 DEF RoundHoldsRemaining, CountHoldsRemaining, Older
        <4>2. ~xxd'.ready => since' < txxd
          BY <1>1, <3>1, <4>1
        <4>. QED  BY <2>1, <2>5, <4>1, <4>2 DEF RoundHoldsRemaining
      <3>3. CASE ~fired
        <4>1. boot < m /\ (boot < Cap => xxd.count = IF boot = 0 THEN 0 ELSE m - boot)
          BY <2>5, <3>3 DEF RoundHoldsRemaining, m
        <4>2. boot' = Older(boot) /\ ~fired'
          BY <2>1, <2>5, <3>3
        <4>3. ~xxd'.ready =>
                 /\ boot' < m
                 /\ boot' < Cap => xxd'.count = IF boot' = 0 THEN 0 ELSE m - boot'
          BY <1>1, <3>1, <4>1, <4>2 DEF Older
        <4>. QED  BY <2>1, <2>5, <4>2, <4>3 DEF RoundHoldsRemaining, m
      <3>. QED  BY <3>2, <3>3
    <2>. QED  BY <2>2, <2>3, <2>4, <2>5
  <1>4. CASE UNCHANGED vars
    BY <1>2, <1>4 DEF vars
  <1>5. ASSUME NEW valid \in BOOLEAN, ClockFAW(valid) PROVE RoundHoldsRemaining'
    BY <1>2, <1>5 DEF ClockFAW
  <1>. QED  BY <1>3, <1>4, <1>5 DEF Next

(* A tXXDController never raises ready fewer than txxd cycles after the     *)
(* last valid, for every txxd and every width of its counter.               *)
THEOREM TimerNotEarly == Spec => []ReadyNotEarly
  <1>1. IInv => ReadyNotEarly
    BY DEF IInv
  <1>. QED  BY InitIInv, NextIInv, <1>1, PTL DEF Spec

(* A tFAWController whose ready is respected never lets a fifth activate    *)
(* into a window of tfaw cycles, for every tfaw, truncated count included.  *)
THEOREM FourActivates == Spec => []FourActivateWindow
  <1>1. IInv => FourActivateWindow
    BY DEF IInv
  <1>. QED  BY InitIInv, NextIInv, <1>1, PTL DEF Spec

(* Nor is it late: txxd cycles after the last valid ready is high, and      *)
(* after reset at the latest when the counter, which wraps from 0, has gone *)
(* round once, whatever its width.                                          *)
THEOREM TimerNotLate == Spec => []ReadyNotLate
  <1>1. Init => RoundHoldsRemaining
    <2> SUFFICES ASSUME Init PROVE RoundHoldsRemaining
      OBVIOUS
    <2>1. /\ xxd = [ready |-> txxd = None, count |-> 0] /\ ~fired /\ boot = 0
          /\ CountModulus(txxd) \in Nat /\ 2 <= CountModulus(txxd)
      BY WidthAssumption DEF Init, tXXDInit
    <2>2. boot < CountModulus(txxd) /\ xxd.count = 0 /\ (xxd.ready <=> txxd = None)
      <3>1. xxd.count = 0
        BY <2>1
      <3>2. xxd.ready <=> txxd = None
        <4>1. PICK none \in BOOLEAN : none <=> txxd = None
          OBVIOUS
        <4>2. none = (txxd = None)
          BY <4>1, Zenon
        <4>3. xxd = [ready |-> none, count |-> 0]
          BY <2>1, <4>2
        <4>4. xxd.ready = none
          BY <4>3, Zenon
        <4>. QED  BY <4>1, <4>4, Zenon
      <3>. QED  BY <2>1, <3>1, <3>2
    <2>. QED  BY <2>1, <2>2 DEF RoundHoldsRemaining
  <1>2. IInv /\ RoundHoldsRemaining /\ [Next]_vars => RoundHoldsRemaining'
    BY RoundStep DEF IInv
  <1>3. IInv /\ RoundHoldsRemaining => ReadyNotLate
    <2> SUFFICES ASSUME IInv, RoundHoldsRemaining PROVE ReadyNotLate
      OBVIOUS
    <2>1. /\ txxd \in Nat /\ since \in Nat /\ boot \in Nat /\ CountModulus(txxd) \in Nat
      BY TimingsAssumption, CapAssumption, WidthAssumption DEF IInv, TypeOK
    <2>2. (fired => (txxd <= since => xxd.ready))
          /\ (~fired => (CountModulus(txxd) <= boot => xxd.ready))
      BY <2>1 DEF RoundHoldsRemaining
    <2>. QED  BY <2>2 DEF ReadyNotLate
  <1>. QED  BY InitIInv, NextIInv, <1>1, <1>2, <1>3, PTL DEF Spec
=============================================================================
