------------------------------ MODULE Lpddr5Wck ------------------------------
(* litedram/phy/lpddr5/basephy.py: the clock of the data, WCK, which runs     *)
(* only while there is data, and the words of a burst.  One phase, in clocks  *)
(* of the PHY; the output stages delay WCK and data alike and are left out.   *)
EXTENDS DeviceSpacing, LpddrCommands

(* LPDDR5ExampleModule: the clocks between two masked writes, which the       *)
(* controller keeps between any two bursts; tccd_write those between two      *)
(* unmasked ones.                                                             *)
tccd_masked_write == 32
tccd_write == 8

burst_ck_cycles(ratio) == 16 \div (2 * ratio)
cmd_latency == 1
Lat(fr, kind) == IF kind = "RD" THEN fr.rl ELSE fr.wl
Enl(fr, kind) == IF kind = "RD" THEN fr.t_wckenl_rd ELSE fr.t_wckenl_wr
ToggleOf(fr, kind) == IF kind = "RD" THEN fr.t_wckpre_toggle_rd ELSE fr.t_wckpre_toggle_wr
\* Clocks after which WCK is let go, less the serialisation.
\* Mutant: as for a burst of one clock less.
wck_latencyShort(fr, ratio, kind) == cmd_latency + Lat(fr, kind) + burst_ck_cycles(ratio) - 3
wck_latency(fr, ratio, kind) == cmd_latency + Lat(fr, kind) + burst_ck_cycles(ratio) - 2
read_latency(fr, ratio, ser, des) ==
    (cmd_latency + ser + fr.rl) + (des + 1 + 1 + burst_ck_cycles(ratio))
wrtap(fr) == fr.wl + cmd_latency - 1

WckInit ==
    \E ratio \in {2, 4} : \E k \in DOMAIN FREQUENCY_RANGES(ratio) :
      LET fr == FREQUENCY_RANGES(ratio)[k]
          taps == [RD |-> read_latency(fr, ratio, 1, 2) + burst_ck_cycles(ratio),
                   WR |-> wrtap(fr) + (burst_ck_cycles(ratio) - 1) + 2]
      IN dev = [ fr |-> fr, ratio |-> ratio, fsm |-> "DISABLED", done |-> FALSE, state |-> WCKSyncType.none,
                 sync |-> [j \in 1..(Max({fr.t_wckenl_wr, fr.t_wckenl_rd}) + fr.t_wckpre_static) |-> WCKSyncType.none],
                 en |-> [kind \in {"RD", "WR"} |-> [j \in 1..taps[kind] |-> FALSE]],
                 last |-> "none", since |-> 0, static |-> 0, toggled |-> 0,
                 held |-> FALSE, beat |-> 0, gathered |-> 0, rddata_valid |-> FALSE ]

(* TappedDelayLine: tap 0 is the input a clock ago.                           *)
Shift(taps, input) == <<input>> \o SubSeq(taps, 1, Len(taps) - 1)
Tap(taps, n) == taps[n + 1]
AnyTap(taps, first, end) == \E n \in first..(end - 1) : Tap(taps, n)

(* Commands arrive as the controller spaces them, or, without masks, closer   *)
(* together, but never while WCK is being let go: a command in that time is   *)
(* not synchronised.                                                          *)
LetGo(fr, ratio, kind) ==
    (Lat(fr, kind) + burst_ck_cycles(ratio))..(Lat(fr, kind) + burst_ck_cycles(ratio) + (IF ratio = 2 THEN 3 ELSE 2))
Commands ==
    {"none"} \cup {kind \in {"RD", "WR"} :
        \/ dev.last = "none"
        \/ dev.since >= tccd_masked_write
        \/ dev.last = kind /\ dev.since >= tccd_write /\ dev.since \notin LetGo(dev.fr, dev.ratio, kind)}

(* The pattern of WCK, combinational in the FSM.                              *)
wck_pattern ==
    CASE dev.fsm = "DISABLED" -> "disabled"
      [] dev.fsm = "STATIC" -> "static"
      [] dev.fsm = "TOGGLE" -> "toggle"
      [] dev.fsm = "TOGGLE_4:1" -> "toggle_4:1"
      [] dev.fsm = "POSTAMBLE" -> IF dev.ratio = 4 THEN "postamble_4:1" ELSE "toggle"
      [] dev.fsm = "POSTAMBLE_2:1" -> "postamble"
wck_fsm(sync_input) ==
    LET taps == <<sync_input>> \o dev.sync
        due(after) == \E kind \in {"RD", "WR"} : Tap(taps, Enl(dev.fr, kind) + after) = WCKSyncType[kind]
    IN CASE dev.fsm = "DISABLED" /\ due(0) -> "STATIC"
         [] dev.fsm = "STATIC" /\ due(dev.fr.t_wckpre_static) -> "TOGGLE"
         [] dev.fsm \in {"TOGGLE", "TOGGLE_4:1"} /\ ~dev.done -> "POSTAMBLE"
         [] dev.fsm = "TOGGLE" /\ dev.done /\ dev.ratio = 4 -> "TOGGLE_4:1"
         [] dev.fsm = "POSTAMBLE" -> IF dev.ratio = 4 THEN "DISABLED" ELSE "POSTAMBLE_2:1"
         [] dev.fsm = "POSTAMBLE_2:1" -> "DISABLED"
         [] OTHER -> dev.fsm
(* HoldValid and the converter behind it: the beat of the burst that is sent. *)
valid_beat == dev.held \/ Tap(dev.en.WR, wrtap(dev.fr))

WckNext ==
    \E kind \in Commands :
      LET fr == dev.fr
          B == burst_ck_cycles(dev.ratio)
          sync == IF kind = "none" THEN WCKSyncType.none ELSE wck_sync([pins |-> DfiPins[kind], ba |-> 0], dev.done)
          letgo == \E k \in {"RD", "WR"} : dev.state = WCKSyncType[k] /\ ~AnyTap(dev.en[k], 0, wck_latency(fr, dev.ratio, k))
          ready == dev.beat = B - 1
          start == read_latency(fr, dev.ratio, 1, 2) - B - 1
          arrives == AnyTap(dev.en.RD, start, start + B)
      IN dev' = [dev EXCEPT
           !.fsm = wck_fsm(sync),
           !.sync = Shift(@, sync),
           !.done = IF sync # WCKSyncType.none THEN TRUE ELSE IF letgo THEN FALSE ELSE @,
           !.state = IF sync # WCKSyncType.none THEN sync ELSE IF letgo THEN WCKSyncType.none ELSE @,
           !.en = [k \in DOMAIN @ |-> Shift(@[k], k = kind)],
           !.last = IF kind = "none" THEN @ ELSE kind,
           !.since = IF kind # "none" THEN 1 ELSE Min({@ + 1, tccd_masked_write}),
           !.static = CASE wck_pattern = "static" -> @ + 1 [] wck_pattern = "disabled" -> 0 [] OTHER -> @,
           !.toggled = IF wck_pattern \in {"toggle", "toggle_4:1"} THEN Min({@ + 1, 10}) ELSE 0,
           !.held = valid_beat /\ ~ready,
           !.beat = IF ~valid_beat \/ ready THEN 0 ELSE @ + 1,
           !.gathered = IF arrives THEN (@ + 1) % B ELSE @,
           !.rddata_valid = arrives /\ dev.gathered = B - 1]

-----------------------------------------------------------------------------
(* The bursts that are on their way, by the taps of their enables: WCK goes   *)
(* with a burst one clock after the data of a write is handed out.            *)
Burst(kind, n) == n \in 0..(burst_ck_cycles(dev.ratio) - 1) /\ Tap(dev.en[kind], Lat(dev.fr, kind) + 1 + n)
(* WCK toggles at full speed through every burst, after a static and a        *)
(* toggling preamble of their full lengths; the beats of a write leave one    *)
(* after the other from the clock the DFI gives its data, with the drivers    *)
(* on; and read data is valid read_latency after its command and never else.  *)
BurstsClocked ==
    /\ \A kind \in {"RD", "WR"} : \A n \in 0..(burst_ck_cycles(dev.ratio) - 1) :
         Burst(kind, n) => /\ wck_pattern = (IF dev.ratio = 2 THEN "toggle" ELSE "toggle_4:1")
                           /\ dev.static = dev.fr.t_wckpre_static
                           /\ dev.toggled >= Min({ToggleOf(dev.fr, kind) + n, 10})
    /\ \A n \in 0..(burst_ck_cycles(dev.ratio) - 1) :
         Tap(dev.en.WR, wrtap(dev.fr) + n) => valid_beat /\ dev.beat = n
    /\ dev.rddata_valid = Tap(dev.en.RD, read_latency(dev.fr, dev.ratio, 1, 2) - 1)
=============================================================================
