--------------------------- MODULE RefresherProofs ---------------------------
(***************************************************************************)
(* Proofs about the refresher, for every value of its timings and every    *)
(* number of postponed refreshes: what it gives the DRAM is a legal        *)
(* sequence, it releases the controller only after all of it, and it does  *)
(* not fall behind.                                                        *)
(***************************************************************************)
EXTENDS RefresherSystem, TLAPS

-----------------------------------------------------------------------------
(* The circuit by itself.                                                   *)

(* The registers after a clock edge, one by one.                            *)
LEMMA Registers ==
    ASSUME f' = RefresherNext(f, granted)
    PROVE  LET event == TimelineEvent(f.exe, executer_start(f, granted), tRFC)
               zqevent == IF with_zqcs THEN TimelineEvent(f.zqexe, zqcs_start(f), tZQCS) ELSE "none"
           IN  /\ f'.fsm = FsmStep(f, granted)
               /\ f'.timer = TimerNext(f.timer, tREFI, ~TimerDone(f.timer))
               /\ f'.post = PostNext(f)
               /\ f'.req_o = (TimerDone(f.timer) /\ f.post = 0)
               /\ f'.seq = SeqNext(f, granted)
               /\ f'.exe = TimelineNext(f.exe, executer_start(f, granted), tRP + tRFC)
               /\ f'.done = (event = "done")
               /\ f'.cmd = IF zqevent = "none" THEN Driven(event, "REF") ELSE Driven(zqevent, "ZQCS")
               /\ f'.zqtimer = IF with_zqcs THEN TimerNext(f.zqtimer, zqcs_period, ~f.zqdone) ELSE f.zqtimer
               /\ f'.zqexe = IF with_zqcs
                             THEN TimelineNext(f.zqexe, zqcs_start(f), tRP + tZQCS) ELSE f.zqexe
               /\ f'.zqdone = (zqevent = "done")
  BY Zenon DEF RefresherNext

(* Every register keeps its type and its width.                             *)
LEMMA RegistersStep ==
    ASSUME RefresherAssumption, RegistersTyped, f' = RefresherNext(f, granted)
    PROVE  RegistersTyped'
  <1>1. /\ tREFI \in Nat \ {0} /\ tRP \in Nat \ {0} /\ tRFC \in Nat \ {0}
        /\ tZQCS \in Nat /\ zqcs_period \in Nat \ {0} /\ postponing \in Nat \ {0}
    BY DEF RefresherAssumption
  <1>2. f'.fsm \in RefresherStates
    BY Registers DEF RegistersTyped, FsmStep, RefresherStates
  <1>3. f'.timer \in 0..(tREFI - 1)
    BY <1>1, Registers DEF RegistersTyped, TimerNext, TimerDone
  <1>4. f'.post \in 0..(postponing - 1)
    BY <1>1, Registers DEF RegistersTyped, PostNext, TimerDone
  <1>5. f'.seq \in 0..(postponing - 1)
    BY <1>1, Registers DEF RegistersTyped, SeqNext
  <1>6. f'.exe \in 0..(tRP + tRFC)
    BY <1>1, Registers DEF RegistersTyped, TimelineNext
  <1>7. f'.zqtimer \in 0..(zqcs_period - 1)
    BY <1>1, Registers DEF RegistersTyped, TimerNext, TimerDone
  <1>8. f'.zqexe \in 0..(tRP + tZQCS)
    BY <1>1, Registers DEF RegistersTyped, TimelineNext
  <1>9. f'.req_o \in BOOLEAN /\ f'.done \in BOOLEAN /\ f'.zqdone \in BOOLEAN
    BY Registers, Zenon
  <1>10. f'.cmd \in {"NOP", "PRE", "REF", "ZQCS"}
    <2>1. \A event, command : command \in {"REF", "ZQCS"} => Driven(event, command) \in {"NOP", "PRE", "REF", "ZQCS"}
      BY DEF Driven
    <2>. QED  BY <2>1, Registers
  <1>. QED  BY <1>2, <1>3, <1>4, <1>5, <1>6, <1>7, <1>8, <1>9, <1>10 DEF RegistersTyped

(* The events of a timeline exclude each other.                             *)
LEMMA TimelineEvents ==
    ASSUME RefresherAssumption,
           NEW counter \in Nat, NEW trigger \in BOOLEAN, NEW twait \in Nat \ {0}
    PROVE  TimelineEvent(counter, trigger, twait) =
               IF counter = 0 /\ trigger THEN "precharge"
               ELSE IF counter = tRP THEN "command"
               ELSE IF counter = tRP + twait THEN "done" ELSE "none"
  <1>1. 0 # tRP /\ 0 # tRP + twait /\ tRP # tRP + twait
    BY DEF RefresherAssumption
  <1>2. CASE counter = 0 /\ trigger
    BY <1>1, <1>2, Zenon DEF TimelineEvent
  <1>3. CASE counter = tRP
    BY <1>1, <1>3, Zenon DEF TimelineEvent
  <1>4. CASE counter = tRP + twait
    BY <1>1, <1>4, Zenon DEF TimelineEvent
  <1>5. CASE ~(counter = 0 /\ trigger) /\ counter # tRP /\ counter # tRP + twait
    BY <1>5, Zenon DEF TimelineEvent
  <1>. QED  BY <1>2, <1>3, <1>4, <1>5

(* What the events of a timeline leave in the command registers.            *)
LEMMA DrivenCommands ==
    ASSUME NEW command
    PROVE  /\ Driven("precharge", command) = "PRE" /\ Driven("command", command) = command
           /\ Driven("done", command) = "NOP" /\ Driven("none", command) = "NOP"
  BY DEF Driven

(* The executers after a clock edge: outside DO-REFRESH no calibration      *)
(* starts, and while one runs the refresh executer leaves the command       *)
(* registers to it.                                                         *)
LEMMA Executers ==
    ASSUME RefresherAssumption, RegistersTyped, SequencerAgrees, granted \in BOOLEAN,
           f' = RefresherNext(f, granted)
    PROVE  LET starts == executer_start(f, granted)
               zqstarts == zqcs_start(f)
           IN  /\ f.exe = 0 => f'.exe = IF starts THEN 1 ELSE 0
               /\ f.exe # 0 => f'.exe = IF f.exe = tRP + tRFC THEN 0 ELSE f.exe + 1
               /\ f'.done <=> f.exe = tRP + tRFC
               /\ f.fsm # "DO-ZQCS" /\ ~zqstarts =>
                     /\ f'.zqexe = 0 /\ ~f'.zqdone
                     /\ f.exe = 0 => f'.cmd = IF starts THEN "PRE" ELSE "NOP"
                     /\ f.exe # 0 => f'.cmd = IF f.exe = tRP THEN "REF" ELSE "NOP"
               /\ zqstarts => with_zqcs /\ f'.zqexe = 1 /\ ~f'.zqdone /\ f'.cmd = "PRE"
               /\ f.fsm = "DO-ZQCS" =>
                     /\ f.zqexe # 0 => f'.zqexe = IF f.zqexe = tRP + tZQCS THEN 0 ELSE f.zqexe + 1
                     /\ f.zqexe = 0 => f'.zqexe = 0
                     /\ f'.zqdone <=> f.zqexe = tRP + tZQCS
                     /\ f'.cmd = IF f.zqexe = tRP THEN "ZQCS" ELSE "NOP"
  <1> DEFINE starts == executer_start(f, granted)
             zqstarts == zqcs_start(f)
             event == TimelineEvent(f.exe, starts, tRFC)
             zqevent == TimelineEvent(f.zqexe, zqstarts, tZQCS)
  <1>1. /\ tRP \in Nat \ {0} /\ tRFC \in Nat \ {0} /\ tZQCS \in Nat
        /\ f.exe \in Nat /\ f.zqexe \in Nat
    BY DEF RefresherAssumption, RegistersTyped
  <1>2. starts \in BOOLEAN /\ zqstarts \in BOOLEAN
    BY DEF executer_start, sequencer_start, zqcs_start
  <1>3. zqstarts => with_zqcs /\ f.fsm = "DO-REFRESH"
    BY DEF zqcs_start, wants_zqcs
  <1>4. with_zqcs => tZQCS \in Nat \ {0}
    BY <1>1 DEF with_zqcs
  <1>5. /\ f'.exe = TimelineNext(f.exe, starts, tRP + tRFC)
        /\ f'.done = (event = "done")
        /\ f'.cmd = IF (IF with_zqcs THEN zqevent ELSE "none") = "none" THEN Driven(event, "REF")
                    ELSE Driven(IF with_zqcs THEN zqevent ELSE "none", "ZQCS")
        /\ f'.zqexe = IF with_zqcs THEN TimelineNext(f.zqexe, zqstarts, tRP + tZQCS) ELSE f.zqexe
        /\ f'.zqdone = ((IF with_zqcs THEN zqevent ELSE "none") = "done")
    BY Registers, Zenon
  <1>8. f.fsm # "DO-ZQCS" => f.zqexe = 0
    BY DEF SequencerAgrees
  <1>9. f.fsm = "DO-ZQCS" => with_zqcs /\ f.exe = 0 /\ ~starts /\ ~zqstarts
    BY Zenon DEF SequencerAgrees, Quiet, executer_start, sequencer_start, zqcs_start
  <1> HIDE DEF starts, zqstarts, event, zqevent
  <1>6. /\ f.exe = 0 /\ starts => Driven(event, "REF") = "PRE"
        /\ f.exe = tRP => Driven(event, "REF") = "REF"
        /\ ~(f.exe = 0 /\ starts) /\ f.exe # tRP => Driven(event, "REF") = "NOP"
        /\ (event = "done") = (f.exe = tRP + tRFC)
    <2>1. event = TimelineEvent(f.exe, starts, tRFC)
      BY DEF event
    <2>2. event = IF f.exe = 0 /\ starts THEN "precharge" ELSE IF f.exe = tRP THEN "command"
                  ELSE IF f.exe = tRP + tRFC THEN "done" ELSE "none"
      BY <1>1, <1>2, <2>1, TimelineEvents
    <2>. QED  BY <1>1, <2>2, DrivenCommands
  <1>7. ASSUME with_zqcs
        PROVE  /\ f.zqexe = 0 /\ zqstarts => Driven(zqevent, "ZQCS") = "PRE"
               /\ f.zqexe = tRP => Driven(zqevent, "ZQCS") = "ZQCS"
               /\ ~(f.zqexe = 0 /\ zqstarts) /\ f.zqexe # tRP => Driven(zqevent, "ZQCS") = "NOP"
               /\ (zqevent = "done") = (f.zqexe = tRP + tZQCS)
               /\ zqevent = "none" <=> /\ ~(f.zqexe = 0 /\ zqstarts)
                                       /\ f.zqexe # tRP /\ f.zqexe # tRP + tZQCS
    <2>1. tZQCS \in Nat \ {0} /\ zqevent = TimelineEvent(f.zqexe, zqstarts, tZQCS)
      BY <1>4, <1>7 DEF zqevent
    <2>2. zqevent = IF f.zqexe = 0 /\ zqstarts THEN "precharge" ELSE IF f.zqexe = tRP THEN "command"
                    ELSE IF f.zqexe = tRP + tZQCS THEN "done" ELSE "none"
      BY <1>1, <1>2, <2>1, TimelineEvents
    <2>. QED  BY <1>1, <2>1, <2>2, DrivenCommands
  <1>10. 0 # tRP /\ 0 # tRP + tZQCS
    BY <1>1
  <1>11. ASSUME f.fsm # "DO-ZQCS", ~zqstarts
         PROVE  /\ f'.zqexe = 0 /\ ~f'.zqdone
                /\ f'.cmd = Driven(event, "REF")
    <2>1. CASE with_zqcs
      <3>1. zqevent = "none"
        BY <1>7, <1>8, <1>10, <1>11, <2>1
      <3>. QED  BY <1>1, <1>5, <1>8, <1>10, <1>11, <2>1, <3>1 DEF TimelineNext
    <2>2. CASE ~with_zqcs
      BY <1>5, <1>8, <1>11, <2>2
    <2>. QED  BY <2>1, <2>2
  <1>12. ASSUME zqstarts
         PROVE  with_zqcs /\ f'.zqexe = 1 /\ ~f'.zqdone /\ f'.cmd = "PRE"
    <2>1. with_zqcs /\ f.zqexe = 0
      BY <1>3, <1>8, <1>12
    <2>2. zqevent # "none" /\ zqevent # "done" /\ Driven(zqevent, "ZQCS") = "PRE"
      BY <1>7, <1>10, <1>12, <2>1
    <2>. QED  BY <1>5, <1>10, <1>12, <2>1, <2>2 DEF TimelineNext
  <1>13. ASSUME f.fsm = "DO-ZQCS"
         PROVE  /\ f.zqexe # 0 => f'.zqexe = IF f.zqexe = tRP + tZQCS THEN 0 ELSE f.zqexe + 1
                /\ f.zqexe = 0 => f'.zqexe = 0
                /\ f'.zqdone <=> f.zqexe = tRP + tZQCS
                /\ f'.cmd = IF f.zqexe = tRP THEN "ZQCS" ELSE "NOP"
    <2>1. with_zqcs /\ f.exe = 0 /\ ~starts /\ ~zqstarts
      BY <1>9, <1>13
    <2>2. Driven(event, "REF") = "NOP"
      BY <1>6, <1>10, <2>1
    <2>3. f'.cmd = IF f.zqexe = tRP THEN "ZQCS" ELSE "NOP"
      BY <1>5, <1>7, <2>1, <2>2
    <2>. QED  BY <1>1, <1>5, <1>7, <1>10, <2>1, <2>3 DEF TimelineNext
  <1>14. /\ f.exe = 0 => Driven(event, "REF") = IF starts THEN "PRE" ELSE "NOP"
         /\ f.exe # 0 => Driven(event, "REF") = IF f.exe = tRP THEN "REF" ELSE "NOP"
    BY <1>6, <1>10
  <1>15. /\ f.exe = 0 => f'.exe = IF starts THEN 1 ELSE 0
         /\ f.exe # 0 => f'.exe = IF f.exe = tRP + tRFC THEN 0 ELSE f.exe + 1
    BY <1>1, <1>5 DEF TimelineNext
  <1>16. f'.done <=> f.exe = tRP + tRFC
    BY <1>5, <1>6
  <1>. QED  BY <1>11, <1>12, <1>13, <1>14, <1>15, <1>16 DEF starts, zqstarts

(* What the FSM does in each of its states.                                 *)
LEMMA FsmCases ==
    /\ f.fsm = "IDLE" => FsmStep(f, granted) =
          IF with_refresh /\ wants_refresh(f) THEN "WAIT-BANK-MACHINES" ELSE "IDLE"
    /\ f.fsm = "WAIT-BANK-MACHINES" => FsmStep(f, granted) =
          IF granted THEN "DO-REFRESH" ELSE "WAIT-BANK-MACHINES"
    /\ f.fsm = "DO-REFRESH" => FsmStep(f, granted) =
          IF zqcs_start(f) THEN "DO-ZQCS" ELSE IF sequencer_done(f) THEN "IDLE" ELSE "DO-REFRESH"
    /\ f.fsm = "DO-ZQCS" => FsmStep(f, granted) = IF f.zqdone THEN "IDLE" ELSE "DO-ZQCS"
  BY DEF FsmStep

(* A clock edge keeps SequencerAgrees, when the multiplexer enters its      *)
(* REFRESH state only while the refresher waits, and leaves it in the       *)
(* refresher's last cycle.                                                  *)
LEMMA SequencerStep ==
    ASSUME RefresherAssumption, PowerOnAssumption, RegistersTyped, SequencerAgrees,
           granted \in BOOLEAN, f' = RefresherNext(f, granted),
           granted => granted' = ~cmd_last(f),
           ~granted /\ granted' => f.fsm = "WAIT-BANK-MACHINES"
    PROVE  SequencerAgrees'
  <1>1. /\ tREFI \in Nat \ {0} /\ tRP \in Nat \ {0} /\ tRFC \in Nat \ {0} /\ tZQCS \in Nat
        /\ postponing \in Nat \ {0}
        /\ f.exe \in 0..(tRP + tRFC) /\ f.zqexe \in 0..(tRP + tZQCS)
        /\ f.timer \in 0..(tREFI - 1) /\ f.post \in 0..(postponing - 1)
        /\ f.seq \in 0..(postponing - 1)
        /\ f.done \in BOOLEAN /\ f.zqdone \in BOOLEAN /\ f.req_o \in BOOLEAN
    BY DEF RefresherAssumption, RegistersTyped
  <1>2. /\ f'.fsm = FsmStep(f, granted)
        /\ f'.seq = SeqNext(f, granted)
        /\ f'.timer = TimerNext(f.timer, tREFI, ~TimerDone(f.timer))
        /\ f'.post = PostNext(f)
        /\ f'.req_o = (TimerDone(f.timer) /\ f.post = 0)
    BY Registers
  <1>3. RegistersTyped'
    BY RegistersStep
  <1>4. f'.done => f'.exe = 0
    BY <1>1, Executers
  <1>5. f'.zqdone => f'.zqexe = 0
    BY <1>1, Executers DEF SequencerAgrees
  <1>6. CASE f.fsm = "IDLE"
    <2>1. ~granted /\ ~granted' /\ ~sequencer_start(f, granted) /\ ~zqcs_start(f)
      BY <1>6 DEF SequencerAgrees, sequencer_start, zqcs_start
    <2>2. f'.zqexe = 0 /\ ~f'.zqdone
      BY <1>6, <2>1, Executers
    <2>3. CASE Quiet
      <3>1. ~executer_start(f, granted)
        BY <2>1, <2>3 DEF Quiet, executer_start
      <3>2. Quiet'
        BY <1>1, <1>2, <2>1, <2>3, <3>1, Executers DEF Quiet, SeqNext
      <3>3. f'.cmd = "NOP"
        BY <1>6, <2>1, <2>3, <3>1, Executers DEF Quiet
      <3>4. f'.fsm \in {"IDLE", "WAIT-BANK-MACHINES"}
        BY <1>2, <1>6, FsmCases
      <3>. QED  BY <1>4, <1>5, <2>1, <2>2, <3>2, <3>3, <3>4 DEF SequencerAgrees
    <2>4. CASE ~Quiet
      <3>1. ~f.req_o /\ PowerOn /\ (f.done => f.exe = 0)
        BY <1>6, <2>4 DEF SequencerAgrees
      <3>2. f'.fsm = "IDLE"
        BY <1>2, <1>6, <3>1, FsmCases DEF wants_refresh
      <3>3. /\ f.exe = 0 => f'.exe = IF f.seq # 0 THEN 1 ELSE 0
            /\ f.exe # 0 => f'.exe = IF f.exe = tRP + tRFC THEN 0 ELSE f.exe + 1
            /\ f'.done <=> f.exe = tRP + tRFC
            /\ f'.seq = IF f.done /\ f.seq # 0 THEN f.seq - 1 ELSE f.seq
        <4>1. executer_start(f, granted) <=> f.seq # 0
          BY <2>1, Zenon DEF executer_start
        <4>. QED  BY <1>2, <2>1, <4>1, Executers DEF SeqNext
      <3>4. /\ f.timer = 0 => f'.timer = tREFI - 1 /\ f'.post = IF f.post = 0 THEN postponing - 1 ELSE f.post - 1
            /\ f.timer # 0 => f'.timer = f.timer - 1 /\ f'.post = f.post
        BY <1>1, <1>2 DEF TimerNext, TimerDone, PostNext
      <3>5. tRP + tRFC + 2 < tREFI
        BY <1>1, <3>1 DEF PowerOnAssumption, PowerOn
      <3>7. f'.req_o <=> f.timer = 0 /\ f.post = 0
        BY <1>2 DEF TimerDone
      <3>8. /\ f.seq <= f.post
            /\ f.seq = f.post =>
                  tREFI - 1 - f.timer <= IF f.exe = 0 /\ f.done THEN tRP + tRFC + 1 ELSE f.exe
            /\ ~(f.exe = 0 /\ f.seq = 0 /\ ~f.done)
        BY <2>4, <3>1 DEF Quiet, PowerOn, Elapsed, Progress, RefreshLength
      <3>9. postponing # 1
        BY <3>1 DEF PowerOn
      <3>10. f.seq # 0 => f.timer # 0 \/ f.seq < f.post
        BY <1>1, <3>1, <3>5, <3>8, <3>9
      <3>6. Quiet' \/ (~f'.req_o /\ PowerOn')
        <4>1. CASE f.exe = 0 /\ f.done
          <5>1. CASE f.seq = 0
            BY <1>1, <3>3, <4>1, <5>1 DEF Quiet
          <5>2. CASE f.seq # 0
            <6>1. f'.seq = f.seq - 1 /\ f'.exe = 1 /\ ~f'.done
              BY <1>1, <3>3, <4>1, <5>2
            <6>2. f'.seq <= f'.post /\ (f'.seq = f'.post => tREFI - 1 - f'.timer <= 1)
              BY <1>1, <3>4, <3>8, <3>10, <5>2, <6>1
            <6>3. ~f'.req_o
              BY <1>1, <3>7, <3>10, <5>2
            <6>. QED  BY <1>1, <3>9, <6>1, <6>2, <6>3 DEF PowerOn, Elapsed, Progress
          <5>. QED  BY <5>1, <5>2
        <4>2. CASE f.exe = 0 /\ ~f.done
          BY <1>1, <3>1, <3>3, <3>4, <3>5, <3>7, <3>8, <3>9, <3>10, <4>2
             DEF Quiet, PowerOn, Elapsed, Progress, RefreshLength
        <4>3. CASE f.exe # 0
          BY <1>1, <3>1, <3>3, <3>4, <3>5, <3>7, <3>8, <3>9, <3>10, <4>3
             DEF Quiet, PowerOn, Elapsed, Progress, RefreshLength
        <4>. QED  BY <4>1, <4>2, <4>3
      <3>. QED  BY <1>4, <1>5, <2>1, <2>2, <3>2, <3>6 DEF SequencerAgrees
    <2>. QED  BY <2>3, <2>4
  <1>7. CASE f.fsm = "WAIT-BANK-MACHINES"
    <2>1. Quiet /\ ~zqcs_start(f) /\ ~cmd_last(f)
      BY <1>7 DEF SequencerAgrees, zqcs_start, cmd_last
    <2>2. f'.zqexe = 0 /\ ~f'.zqdone
      BY <1>7, <2>1, Executers
    <2>3. (executer_start(f, granted) <=> granted) /\ (sequencer_start(f, granted) <=> granted)
      BY <1>7, <2>1 DEF Quiet, executer_start, sequencer_start
    <2>4. CASE granted
      <3>1. f'.fsm = "DO-REFRESH" /\ granted'
        BY <1>2, <1>7, <2>1, <2>4, FsmCases
      <3>2. f'.exe = 1 /\ f'.cmd = "PRE"
        BY <1>1, <1>7, <2>1, <2>3, <2>4, Executers DEF Quiet
      <3>. QED  BY <1>4, <1>5, <2>2, <3>1, <3>2 DEF SequencerAgrees, Timed
    <2>5. CASE ~granted
      <3>1. f'.fsm = "WAIT-BANK-MACHINES"
        BY <1>2, <1>7, <2>5, FsmCases
      <3>2. Quiet' /\ f'.cmd = "NOP"
        BY <1>1, <1>2, <1>7, <2>1, <2>3, <2>5, Executers DEF Quiet, SeqNext
      <3>. QED  BY <1>4, <1>5, <2>2, <3>1, <3>2 DEF SequencerAgrees
    <2>. QED  BY <2>4, <2>5
  <1>8. CASE f.fsm = "DO-REFRESH"
    <2>1. granted /\ (f.exe # 0 \/ f.done) /\ (f.done => f.exe = 0) /\ ~sequencer_start(f, granted)
      BY <1>8 DEF SequencerAgrees, sequencer_start
    <2>2. executer_start(f, granted) <=> f.seq # 0
      BY <2>1, Zenon DEF executer_start
    <2>3. f'.seq = IF f.done /\ f.seq # 0 THEN f.seq - 1 ELSE f.seq
      BY <1>2, <2>1 DEF SeqNext
    <2>4. CASE sequencer_done(f)
      <3>1. f.done /\ f.seq = 0 /\ f.exe = 0
        BY <2>1, <2>4 DEF sequencer_done
      <3>2. Quiet'
        BY <1>1, <2>2, <2>3, <3>1, Executers DEF Quiet
      <3>3. CASE zqcs_start(f)
        <4>1. f'.fsm = "DO-ZQCS" /\ granted'
          <5>1. ~cmd_last(f)
            BY <1>8, <3>3 DEF cmd_last, zqcs_start
          <5>. QED  BY <1>2, <1>8, <2>1, <3>3, <5>1, FsmCases
        <4>2. with_zqcs /\ f'.zqexe = 1 /\ ~f'.zqdone /\ f'.cmd = "PRE"
          BY <3>3, Executers
        <4>. QED  BY <1>4, <3>2, <4>1, <4>2 DEF SequencerAgrees, Timed
      <3>4. CASE ~zqcs_start(f)
        <4>1. f'.fsm = "IDLE" /\ ~granted'
          <5>1. cmd_last(f)
            BY <1>8, <2>4, <3>4 DEF cmd_last, zqcs_start
          <5>. QED  BY <1>2, <1>8, <2>1, <2>4, <3>4, <5>1, FsmCases
        <4>2. f'.zqexe = 0 /\ ~f'.zqdone
          BY <1>8, <3>4, Executers
        <4>. QED  BY <1>4, <3>2, <4>1, <4>2 DEF SequencerAgrees
      <3>. QED  BY <3>3, <3>4
    <2>5. CASE ~sequencer_done(f)
      <3>1. ~zqcs_start(f) /\ ~cmd_last(f)
        BY <1>8, <2>5 DEF zqcs_start, cmd_last
      <3>2. f'.fsm = "DO-REFRESH" /\ granted'
        BY <1>2, <1>8, <2>1, <2>5, <3>1, FsmCases
      <3>3. f'.zqexe = 0 /\ ~f'.zqdone
        BY <1>8, <3>1, Executers
      <3>4. f.exe = 0 => f.seq # 0
        BY <2>1, <2>5 DEF sequencer_done
      <3>5. f'.exe # 0 \/ f'.done
        BY <1>1, <2>2, <3>4, Executers
      <3>6. f'.cmd = Timed(f'.exe, "REF")
        <4>1. f'.cmd = IF f.exe = 0 THEN (IF f.seq # 0 THEN "PRE" ELSE "NOP")
                       ELSE IF f.exe = tRP THEN "REF" ELSE "NOP"
          BY <1>8, <2>2, <3>1, Executers
        <4>2. f'.exe = IF f.exe = tRP + tRFC THEN 0 ELSE f.exe + 1
          BY <1>1, <2>2, <3>4, Executers
        <4>. QED  BY <1>1, <3>4, <4>1, <4>2 DEF Timed
      <3>. QED  BY <1>4, <3>2, <3>3, <3>5, <3>6 DEF SequencerAgrees
    <2>. QED  BY <2>4, <2>5
  <1>9. CASE f.fsm = "DO-ZQCS"
    <2>1. /\ granted /\ with_zqcs /\ Quiet /\ (f.zqexe # 0 \/ f.zqdone) /\ (f.zqdone => f.zqexe = 0)
          /\ ~executer_start(f, granted) /\ ~sequencer_start(f, granted)
      BY <1>9, Zenon DEF SequencerAgrees, executer_start, sequencer_start, Quiet
    <2>2. f.exe = 0 /\ f.seq = 0 /\ ~f.done /\ tRP + tRFC # 0
      BY <1>1, <2>1 DEF Quiet
    <2>3. f'.exe = 0 /\ ~f'.done
      <3>1. f'.exe = IF executer_start(f, granted) THEN 1 ELSE 0
        BY <2>2, Executers
      <3>2. f'.done <=> f.exe = tRP + tRFC
        BY Executers
      <3>. QED  BY <2>1, <2>2, <3>1, <3>2
    <2>4. Quiet'
      BY <1>2, <2>1, <2>2, <2>3 DEF Quiet, SeqNext
    <2>5. /\ f.zqexe # 0 => f'.zqexe = IF f.zqexe = tRP + tZQCS THEN 0 ELSE f.zqexe + 1
          /\ f.zqexe = 0 => f'.zqexe = 0
          /\ f'.zqdone <=> f.zqexe = tRP + tZQCS
          /\ f'.cmd = IF f.zqexe = tRP THEN "ZQCS" ELSE "NOP"
      BY <1>9, Executers
    <2>8. tRP \in Nat \ {0} /\ tZQCS \in Nat \ {0} /\ f.zqexe \in 0..(tRP + tZQCS)
      BY <1>1, <2>1 DEF with_zqcs
    <2>9. (f.zqexe # 0 \/ f.zqdone) /\ (f.zqdone => f.zqexe = 0)
      BY <2>1
    <2>6. CASE f.zqdone
      <3>1. f'.fsm = "IDLE" /\ ~granted'
        BY <1>2, <1>9, <2>1, <2>6, FsmCases DEF cmd_last
      <3>2. f'.zqexe = 0 /\ ~f'.zqdone
        BY <2>5, <2>6, <2>8, <2>9
      <3>. QED  BY <1>4, <2>4, <3>1, <3>2 DEF SequencerAgrees
    <2>7. CASE ~f.zqdone
      <3>1. f'.fsm = "DO-ZQCS" /\ granted'
        BY <1>2, <1>9, <2>1, <2>7, FsmCases DEF cmd_last
      <3>2. f'.zqexe # 0 \/ f'.zqdone
        BY <2>5, <2>7, <2>8, <2>9
      <3>3. f'.cmd = Timed(f'.zqexe, "ZQCS")
        BY <2>5, <2>7, <2>8, <2>9 DEF Timed
      <3>. QED  BY <1>4, <1>5, <2>1, <2>4, <3>1, <3>2, <3>3 DEF SequencerAgrees
    <2>. QED  BY <2>6, <2>7
  <1>10. f.fsm \in RefresherStates
    BY DEF RegistersTyped
  <1>. QED  BY <1>6, <1>7, <1>8, <1>9, <1>10 DEF RefresherStates

(* The clock edges of a round, for the state of the FSM and the counters    *)
(* that matter in it.                                                       *)
LEMMA RoundEdges ==
    ASSUME RefresherAssumption, RegistersTyped, SequencerAgrees, granted \in BOOLEAN,
           f' = RefresherNext(f, granted)
    PROVE  /\ f.fsm = "IDLE" =>
                 f'.fsm = IF with_refresh /\ f.req_o THEN "WAIT-BANK-MACHINES" ELSE "IDLE"
           /\ f.fsm = "WAIT-BANK-MACHINES" /\ ~granted => f'.fsm = "WAIT-BANK-MACHINES"
           /\ f.fsm = "WAIT-BANK-MACHINES" /\ granted =>
                 f'.fsm = "DO-REFRESH" /\ f'.exe = 1 /\ ~f'.done /\ f'.seq = postponing - 1
           /\ f.fsm = "DO-REFRESH" /\ ~(f.done /\ f.seq = 0) =>
                 /\ ~cmd_last(f) /\ f'.fsm = "DO-REFRESH"
                 /\ f'.exe = IF f.exe = tRP + tRFC THEN 0 ELSE f.exe + 1
                 /\ f'.done <=> f.exe = tRP + tRFC
                 /\ f'.seq = IF f.done THEN f.seq - 1 ELSE f.seq
           /\ f.fsm = "DO-REFRESH" /\ f.done /\ f.seq = 0 =>
                 \/ cmd_last(f) /\ f'.fsm = "IDLE"
                 \/ ~cmd_last(f) /\ f'.fsm = "DO-ZQCS" /\ f'.zqexe = 1 /\ ~f'.zqdone
           /\ f.fsm = "DO-ZQCS" /\ f.zqdone => cmd_last(f) /\ f'.fsm = "IDLE"
           /\ f.fsm = "DO-ZQCS" /\ ~f.zqdone =>
                 /\ ~cmd_last(f) /\ f'.fsm = "DO-ZQCS" /\ f.zqexe # 0
                 /\ f'.zqexe = IF f.zqexe = tRP + tZQCS THEN 0 ELSE f.zqexe + 1
                 /\ f'.zqdone <=> f.zqexe = tRP + tZQCS
  <1>1. /\ tRP \in Nat \ {0} /\ tRFC \in Nat \ {0} /\ tZQCS \in Nat /\ postponing \in Nat \ {0}
        /\ f.exe \in Nat /\ f.seq \in Nat /\ f.zqexe \in Nat
    BY DEF RefresherAssumption, RegistersTyped
  <1>2. f'.fsm = FsmStep(f, granted) /\ f'.seq = SeqNext(f, granted)
    BY Registers
  <1>3. f.fsm = "IDLE" => f'.fsm = IF with_refresh /\ f.req_o THEN "WAIT-BANK-MACHINES" ELSE "IDLE"
    BY <1>2, FsmCases DEF wants_refresh
  <1>4. f.fsm = "WAIT-BANK-MACHINES" /\ ~granted => f'.fsm = "WAIT-BANK-MACHINES"
    BY <1>2, FsmCases
  <1>5. ASSUME f.fsm = "WAIT-BANK-MACHINES", granted
        PROVE  f'.fsm = "DO-REFRESH" /\ f'.exe = 1 /\ ~f'.done /\ f'.seq = postponing - 1
    <2>1. Quiet /\ sequencer_start(f, granted) /\ executer_start(f, granted)
      BY <1>5 DEF SequencerAgrees, sequencer_start, executer_start
    <2>2. f'.fsm = "DO-REFRESH" /\ f'.seq = postponing - 1
      BY <1>2, <1>5, <2>1, FsmCases DEF SeqNext
    <2>3. f'.exe = 1 /\ ~f'.done
      BY <1>1, <2>1, Executers DEF Quiet
    <2>. QED  BY <2>2, <2>3
  <1>6. ASSUME f.fsm = "DO-REFRESH", ~(f.done /\ f.seq = 0)
        PROVE  /\ ~cmd_last(f) /\ f'.fsm = "DO-REFRESH"
               /\ f'.exe = IF f.exe = tRP + tRFC THEN 0 ELSE f.exe + 1
               /\ f'.done <=> f.exe = tRP + tRFC
               /\ f'.seq = IF f.done THEN f.seq - 1 ELSE f.seq
    <2>1. (f.exe # 0 \/ f.done) /\ ~sequencer_done(f)
      BY <1>6 DEF SequencerAgrees, sequencer_done
    <2>2. ~zqcs_start(f) /\ ~cmd_last(f) /\ ~sequencer_start(f, granted)
      BY <1>6, <2>1 DEF zqcs_start, cmd_last, sequencer_start
    <2>3. f.exe = 0 => executer_start(f, granted)
      BY <1>6, <2>1 DEF executer_start
    <2>4. f'.fsm = "DO-REFRESH" /\ f'.seq = IF f.done THEN f.seq - 1 ELSE f.seq
      BY <1>2, <1>6, <2>1, <2>2, FsmCases DEF SeqNext
    <2>. QED  BY <1>1, <2>2, <2>3, <2>4, Executers
  <1>7. ASSUME f.fsm = "DO-REFRESH", f.done, f.seq = 0
        PROVE  \/ cmd_last(f) /\ f'.fsm = "IDLE"
               \/ ~cmd_last(f) /\ f'.fsm = "DO-ZQCS" /\ f'.zqexe = 1 /\ ~f'.zqdone
    <2>1. sequencer_done(f) /\ (cmd_last(f) <=> ~wants_zqcs(f)) /\ (zqcs_start(f) <=> wants_zqcs(f))
      BY <1>7, Zenon DEF sequencer_done, cmd_last, zqcs_start
    <2>2. CASE zqcs_start(f)
      BY <1>2, <1>7, <2>1, <2>2, Executers, FsmCases
    <2>3. CASE ~zqcs_start(f)
      BY <1>2, <1>7, <2>1, <2>3, FsmCases
    <2>. QED  BY <2>2, <2>3
  <1>8. f.fsm = "DO-ZQCS" /\ f.zqdone => cmd_last(f) /\ f'.fsm = "IDLE"
    BY <1>2, FsmCases DEF cmd_last
  <1>9. ASSUME f.fsm = "DO-ZQCS", ~f.zqdone
        PROVE  /\ ~cmd_last(f) /\ f'.fsm = "DO-ZQCS" /\ f.zqexe # 0
               /\ f'.zqexe = IF f.zqexe = tRP + tZQCS THEN 0 ELSE f.zqexe + 1
               /\ f'.zqdone <=> f.zqexe = tRP + tZQCS
    <2>1. ~cmd_last(f) /\ f.zqexe # 0
      BY <1>9 DEF cmd_last, SequencerAgrees
    <2>2. f'.fsm = "DO-ZQCS"
      BY <1>2, <1>9, FsmCases
    <2>3. /\ f'.zqexe = IF f.zqexe = tRP + tZQCS THEN 0 ELSE f.zqexe + 1
          /\ f'.zqdone <=> f.zqexe = tRP + tZQCS
      BY <1>9, <2>1, Executers
    <2>. QED  BY <2>1, <2>2, <2>3
  <1>. QED  BY <1>3, <1>4, <1>5, <1>6, <1>7, <1>8, <1>9

(* What the DRAM receives in each state of the FSM.                         *)
LEMMA GivenCases ==
    ASSUME RefresherAssumption, RegistersTyped, SequencerAgrees, granted \in BOOLEAN
    PROVE  /\ f.fsm \in {"IDLE", "WAIT-BANK-MACHINES"} => Given = "NOP"
           /\ f.fsm = "DO-REFRESH" => Given = Timed(f.exe, "REF")
           /\ f.fsm = "DO-ZQCS" => Given = Timed(f.zqexe, "ZQCS")
  <1>1. tRP \in Nat \ {0}
    BY DEF RefresherAssumption
  <1>2. f.fsm \in {"IDLE", "WAIT-BANK-MACHINES"} => Given = "NOP"
    BY DEF SequencerAgrees, Given, refresher_valid
  <1>3. CASE f.fsm = "DO-REFRESH"
    <2>1. granted /\ f.cmd = Timed(f.exe, "REF") /\ (f.done => f.exe = 0)
      BY <1>3 DEF SequencerAgrees
    <2>2. cmd_last(f) => f.done
      BY <1>3 DEF cmd_last, sequencer_done
    <2>. QED  BY <1>1, <1>3, <2>1, <2>2 DEF Given, refresher_valid, Timed
  <1>4. CASE f.fsm = "DO-ZQCS"
    <2>1. granted /\ f.cmd = Timed(f.zqexe, "ZQCS") /\ (f.zqdone => f.zqexe = 0)
      BY <1>4 DEF SequencerAgrees
    <2>2. cmd_last(f) => f.zqdone
      BY <1>4 DEF cmd_last
    <2>. QED  BY <1>1, <1>4, <2>1, <2>2 DEF Given, refresher_valid, Timed
  <1>. QED  BY <1>2, <1>3, <1>4

(* The ages follow the counters over a clock edge: pre, ref and zq are the  *)
(* ages before it and pre2, ref2 and zq2 those after it.                    *)
LEMMA AgesStep ==
    ASSUME RefresherAssumption, RegistersTyped, SequencerAgrees, granted \in BOOLEAN,
           f' = RefresherNext(f, granted),
           NEW pre \in Nat, NEW ref \in Nat, NEW zq \in Nat,
           NEW pre2 \in Nat, NEW ref2 \in Nat, NEW zq2 \in Nat,
           IF Given = "PRE" THEN 1 <= pre2 ELSE tRP <= pre2 \/ pre + 1 <= pre2,
           IF Given = "REF" THEN 1 <= ref2 ELSE tRFC <= ref2 \/ ref + 1 <= ref2,
           IF Given = "ZQCS" THEN 1 <= zq2 ELSE tZQCS <= zq2 \/ zq + 1 <= zq2,
           PrechargeAged(pre), RefreshAged(ref), ZqcsAged(zq)
    PROVE  PrechargeAged(pre2)' /\ RefreshAged(ref2)' /\ ZqcsAged(zq2)'
  <1>1. /\ tRP \in Nat \ {0} /\ tRFC \in Nat \ {0} /\ tZQCS \in Nat
        /\ f.exe \in 0..(tRP + tRFC) /\ f.zqexe \in 0..(tRP + tZQCS)
    BY DEF RefresherAssumption, RegistersTyped
  <1>2. SequencerAgrees => /\ f.fsm = "DO-REFRESH" => f.exe # 0 \/ f.done
                           /\ f.done => f.exe = 0
                           /\ f.zqdone => f.zqexe = 0
    BY DEF SequencerAgrees
  <1>3. CASE f.fsm \in {"IDLE", "WAIT-BANK-MACHINES"}
    <2>1. Given = "NOP" /\ tRFC <= ref /\ tZQCS <= zq
      BY <1>3, GivenCases DEF RefreshAged, ZqcsAged
    <2>2. f'.fsm \in {"IDLE", "WAIT-BANK-MACHINES"} \/ (f'.fsm = "DO-REFRESH" /\ f'.exe = 1)
      BY <1>3, RoundEdges
    <2>. QED  BY <1>1, <2>1, <2>2 DEF PrechargeAged, RefreshAged, ZqcsAged
  <1>4. CASE f.fsm = "DO-REFRESH" /\ ~(f.done /\ f.seq = 0)
    <2>1. /\ Given = IF f.exe = 1 THEN "PRE" ELSE IF f.exe = tRP + 1 THEN "REF" ELSE "NOP"
          /\ f'.fsm = "DO-REFRESH"
          /\ f'.exe = IF f.exe = tRP + tRFC THEN 0 ELSE f.exe + 1
      BY <1>4, GivenCases, RoundEdges DEF Timed
    <2>2. PrechargeAged(pre2)'
      BY <1>1, <1>4, <2>1 DEF PrechargeAged
    <2>3. RefreshAged(ref2)'
      BY <1>1, <1>4, <2>1 DEF RefreshAged
    <2>4. ZqcsAged(zq2)'
      BY <1>1, <1>4, <2>1 DEF ZqcsAged
    <2>. QED  BY <2>2, <2>3, <2>4
  <1>5. CASE f.fsm = "DO-REFRESH" /\ f.done /\ f.seq = 0
    <2>1. f.exe = 0 /\ Given = "NOP"
      BY <1>1, <1>2, <1>5, GivenCases DEF Timed
    <2>2. f'.fsm = "IDLE" \/ (f'.fsm = "DO-ZQCS" /\ f'.zqexe = 1)
      BY <1>5, RoundEdges
    <2>. QED  BY <1>1, <1>5, <2>1, <2>2 DEF PrechargeAged, RefreshAged, ZqcsAged
  <1>6. CASE f.fsm = "DO-ZQCS" /\ ~f.zqdone
    <2>1. /\ Given = IF f.zqexe = 1 THEN "PRE" ELSE IF f.zqexe = tRP + 1 THEN "ZQCS" ELSE "NOP"
          /\ f'.fsm = "DO-ZQCS" /\ f.zqexe # 0
          /\ f'.zqexe = IF f.zqexe = tRP + tZQCS THEN 0 ELSE f.zqexe + 1
      BY <1>6, GivenCases, RoundEdges DEF Timed
    <2>2. PrechargeAged(pre2)'
      BY <1>1, <1>6, <2>1 DEF PrechargeAged
    <2>3. RefreshAged(ref2)'
      BY <1>1, <1>6, <2>1 DEF RefreshAged
    <2>4. ZqcsAged(zq2)'
      BY <1>1, <1>6, <2>1 DEF ZqcsAged
    <2>. QED  BY <2>2, <2>3, <2>4
  <1>7. CASE f.fsm = "DO-ZQCS" /\ f.zqdone
    <2>1. f.zqexe = 0 /\ Given = "NOP"
      BY <1>1, <1>2, <1>7, GivenCases DEF Timed
    <2>2. f'.fsm = "IDLE"
      BY <1>7, RoundEdges
    <2>. QED  BY <1>1, <1>7, <2>1, <2>2 DEF PrechargeAged, RefreshAged, ZqcsAged
  <1>. QED  BY <1>3, <1>4, <1>5, <1>6, <1>7 DEF RegistersTyped, RefresherStates

-----------------------------------------------------------------------------
(* The refresher with the multiplexer and the DRAM.                         *)

(* The multiplexer enters its REFRESH state only while the refresher waits, *)
(* and leaves it in the refresher's last cycle.                             *)
LEMMA GrantSteps ==
    ASSUME SystemAssumption, SystemTypeOK, SequencerAgrees, SystemNext
    PROVE  /\ SystemClock /\ (granted => granted' = ~cmd_last(f))
           /\ ~granted /\ granted' => f.fsm = "WAIT-BANK-MACHINES"
           /\ granted' \in BOOLEAN /\ delay' \in 0..MaxGrant
           /\ ~granted /\ ~granted' /\ f.fsm = "WAIT-BANK-MACHINES" => delay' = delay + 1
  <1>1. f.fsm \in RefresherStates /\ granted \in BOOLEAN /\ delay \in 0..MaxGrant /\ MaxGrant \in Nat
    BY DEF SystemTypeOK, RegistersTyped, SystemAssumption
  <1>2. f.fsm = "WAIT-BANK-MACHINES" => refresher_valid(f)
    BY DEF refresher_valid, cmd_last
  <1>3. ~granted /\ refresher_valid(f) => f.fsm = "WAIT-BANK-MACHINES"
    BY <1>1 DEF SequencerAgrees, refresher_valid, RefresherStates
  <1>4. granted' \in BOOLEAN /\ SystemClock /\ delay' \in 0..MaxGrant
    <2>1. CASE Hold
      <3>1. granted' = granted /\ SystemClock
        BY <2>1 DEF Hold
      <3>2. (refresher_valid(f) => delay < MaxGrant) /\ delay' = IF refresher_valid(f) THEN delay + 1 ELSE 0
        BY <2>1 DEF Hold
      <3>. QED  BY <1>1, <3>1, <3>2
    <2>2. CASE Grant
      BY <1>1, <2>2 DEF Grant
    <2>3. CASE Serve
      <3>1. granted' \in BOOLEAN
        BY <2>3, Zenon DEF Serve
      <3>. QED  BY <1>1, <2>3, <3>1 DEF Serve
    <2>. QED  BY <2>1, <2>2, <2>3 DEF SystemNext
  <1>5. granted => granted' = ~cmd_last(f)
    BY Zenon DEF SystemNext, Hold, Grant, Serve
  <1>6. ~granted /\ granted' => f.fsm = "WAIT-BANK-MACHINES"
    BY <1>3, Zenon DEF SystemNext, Hold, Grant, Serve
  <1>7. ~granted /\ ~granted' /\ f.fsm = "WAIT-BANK-MACHINES" => delay' = delay + 1
    BY <1>2 DEF SystemNext, Hold, Grant, Serve
  <1>. QED  BY <1>4, <1>5, <1>6, <1>7

(* Every step keeps the types.                                              *)
LEMMA TypeStep ==
    ASSUME RefresherAssumption, SystemAssumption, SystemTypeOK, SequencerAgrees, SystemNext
    PROVE  SystemTypeOK'
  <1>1. /\ SystemClock /\ granted' \in BOOLEAN /\ delay' \in 0..MaxGrant
        /\ RefresherCap \in Nat \ {0}
    BY GrantSteps DEF RefresherAssumption, SystemAssumption
  <1>2. RegistersTyped'
    BY <1>1, RegistersStep DEF SystemTypeOK, SystemClock
  <1>3. ages' \in [{"PRE", "REF", "ZQCS"} -> 1..RefresherCap]
    <2>1. ages \in [{"PRE", "REF", "ZQCS"} -> 1..RefresherCap] /\ DOMAIN ages = {"PRE", "REF", "ZQCS"}
      BY DEF SystemTypeOK
    <2>2. \A age \in 1..RefresherCap : CycleOlder(age) \in 1..RefresherCap
      BY <1>1 DEF CycleOlder
    <2>. QED  BY <1>1, <2>1, <2>2 DEF SystemClock
  <1>4. open' \in BOOLEAN /\ done' \in Nat /\ owed' \in Nat
    <2>1. open' \in BOOLEAN
      BY <1>1, Zenon DEF SystemTypeOK, SystemClock
    <2>2. done \in Nat /\ owed \in Nat
      BY DEF SystemTypeOK
    <2>3. done' = IF ~granted THEN 0 ELSE IF Given = "REF" THEN done + 1 ELSE done
      BY <1>1 DEF SystemClock
    <2>4. owed' = owed + (IF TimerDone(f.timer) THEN 1 ELSE 0)
                       - (IF Given = "REF" /\ owed > 0 THEN 1 ELSE 0)
      BY <1>1 DEF SystemClock
    <2>. QED  BY <2>1, <2>2, <2>3, <2>4
  <1>. QED  BY <1>1, <1>2, <1>3, <1>4 DEF SystemTypeOK

(* The ages of the DRAM grow as AgesStep asks.                              *)
LEMMA DramAgesStep ==
    ASSUME RefresherAssumption, SystemAssumption, SystemTypeOK, SequencerAgrees, SystemNext,
           PrechargeAged(ages["PRE"]), RefreshAged(ages["REF"]), ZqcsAged(ages["ZQCS"])
    PROVE  PrechargeAged(ages["PRE"])' /\ RefreshAged(ages["REF"])' /\ ZqcsAged(ages["ZQCS"])'
  <1>0. PICK pre2, ref2, zq2 : pre2 = ages'["PRE"] /\ ref2 = ages'["REF"] /\ zq2 = ages'["ZQCS"]
    OBVIOUS
  <1>1. SystemClock /\ granted \in BOOLEAN /\ RegistersTyped
    BY GrantSteps DEF SystemTypeOK
  <1>2. /\ ages \in [{"PRE", "REF", "ZQCS"} -> 1..RefresherCap] /\ RefresherCap \in Nat
        /\ tRP <= RefresherCap /\ tRFC <= RefresherCap /\ tZQCS <= RefresherCap
        /\ tRP \in Nat /\ tRFC \in Nat /\ tZQCS \in Nat
    BY DEF SystemTypeOK, SystemAssumption, RefresherAssumption
  <1>3. /\ pre2 = IF Given = "PRE" THEN 1 ELSE CycleOlder(ages["PRE"])
        /\ ref2 = IF Given = "REF" THEN 1 ELSE CycleOlder(ages["REF"])
        /\ zq2 = IF Given = "ZQCS" THEN 1 ELSE CycleOlder(ages["ZQCS"])
    BY <1>0, <1>1, <1>2 DEF SystemClock
  <1>4. \A age \in 1..RefresherCap : CycleOlder(age) \in Nat /\ (CycleOlder(age) = RefresherCap \/ age + 1 <= CycleOlder(age))
    BY <1>2 DEF CycleOlder
  <1>5. /\ ages["PRE"] \in 1..RefresherCap /\ ages["REF"] \in 1..RefresherCap /\ ages["ZQCS"] \in 1..RefresherCap
    BY <1>2
  <1>6. /\ pre2 \in Nat /\ ref2 \in Nat /\ zq2 \in Nat
        /\ IF Given = "PRE" THEN 1 <= pre2 ELSE tRP <= pre2 \/ ages["PRE"] + 1 <= pre2
        /\ IF Given = "REF" THEN 1 <= ref2 ELSE tRFC <= ref2 \/ ages["REF"] + 1 <= ref2
        /\ IF Given = "ZQCS" THEN 1 <= zq2 ELSE tZQCS <= zq2 \/ ages["ZQCS"] + 1 <= zq2
    BY <1>2, <1>3, <1>4, <1>5
  <1>7. ages["PRE"] \in Nat /\ ages["REF"] \in Nat /\ ages["ZQCS"] \in Nat
    BY <1>2, <1>5
  <1>8. PrechargeAged(pre2)' /\ RefreshAged(ref2)' /\ ZqcsAged(zq2)'
    BY <1>1, <1>6, <1>7, AgesStep DEF SystemClock
  <1>. QED  BY <1>0, <1>8 DEF PrechargeAged, RefreshAged, ZqcsAged

(* What a round has done to the DRAM follows its counters.                  *)
LEMMA RoundStep ==
    ASSUME RefresherAssumption, SystemAssumption, SystemTypeOK, SequencerAgrees, RoundAgrees, SystemNext
    PROVE  RoundAgrees'
  <1>1. /\ tRP \in Nat \ {0} /\ tRFC \in Nat \ {0} /\ postponing \in Nat \ {0}
        /\ f.exe \in 0..(tRP + tRFC) /\ f.seq \in 0..(postponing - 1) /\ done \in Nat
        /\ f.fsm \in RefresherStates /\ RegistersTyped /\ granted \in BOOLEAN
    BY DEF RefresherAssumption, SystemTypeOK, RegistersTyped
  <1>2. /\ SystemClock /\ f' = RefresherNext(f, granted)
        /\ (~granted /\ granted' => f.fsm = "WAIT-BANK-MACHINES")
    BY GrantSteps DEF SystemClock
  <1>3. done' = IF ~granted THEN 0 ELSE IF Given = "REF" THEN done + 1 ELSE done
    BY <1>2 DEF SystemClock
  <1>4. granted => (open' <=> open /\ Given # "PRE")
    BY <1>2, Zenon DEF SystemClock
  <1>5. CASE f.fsm \in {"IDLE", "WAIT-BANK-MACHINES"}
    <2>1. CASE ~granted
      <3>1. f'.fsm \in {"IDLE", "WAIT-BANK-MACHINES"} /\ done' = 0
        BY <1>2, <1>3, <1>1, <1>5, <2>1, RoundEdges
      <3>. QED  BY <3>1 DEF RoundAgrees
    <2>2. CASE granted
      <3>1. f.fsm = "WAIT-BANK-MACHINES" /\ done = 0 /\ Given = "NOP"
        BY <1>1, <1>5, <2>2, GivenCases DEF SequencerAgrees, RoundAgrees
      <3>2. f'.fsm = "DO-REFRESH" /\ f'.exe = 1 /\ f'.seq = postponing - 1
        BY <1>1, <1>2, <2>2, <3>1, RoundEdges
      <3>3. done' = 0
        BY <1>3, <2>2, <3>1
      <3>. QED  BY <1>1, <3>2, <3>3 DEF RoundAgrees
    <2>. QED  BY <1>1, <2>1, <2>2
  <1>6. CASE f.fsm = "DO-REFRESH" /\ ~(f.done /\ f.seq = 0)
    <2>1. /\ granted /\ (f.exe # 0 \/ f.done) /\ (f.done => f.exe = 0)
          /\ done = postponing - f.seq - (IF 1 <= f.exe /\ f.exe <= tRP + 1 THEN 1 ELSE 0)
          /\ (f.exe # 1 => ~open)
      BY <1>6 DEF SequencerAgrees, RoundAgrees
    <2>2. /\ Given = IF f.exe = 1 THEN "PRE" ELSE IF f.exe = tRP + 1 THEN "REF" ELSE "NOP"
          /\ f'.fsm = "DO-REFRESH"
          /\ f'.exe = IF f.exe = tRP + tRFC THEN 0 ELSE f.exe + 1
          /\ f'.seq = IF f.done THEN f.seq - 1 ELSE f.seq
      BY <1>1, <1>2, <1>6, GivenCases, RoundEdges DEF Timed
    <2>3. done' = IF f.exe = tRP + 1 THEN done + 1 ELSE done
      BY <1>1, <1>3, <2>1, <2>2
    <2>4. done' = postponing - f'.seq - (IF 1 <= f'.exe /\ f'.exe <= tRP + 1 THEN 1 ELSE 0)
      <3>1. CASE f.done
        BY <1>1, <2>1, <2>2, <2>3, <3>1
      <3>2. CASE ~f.done
        <4>1. f.exe # 0 /\ f'.seq = f.seq
          BY <2>1, <2>2, <3>2
        <4>2. CASE f.exe = tRP + tRFC
          BY <1>1, <2>1, <2>2, <2>3, <4>1, <4>2
        <4>3. CASE f.exe # tRP + tRFC
          BY <1>1, <2>1, <2>2, <2>3, <4>1, <4>3
        <4>. QED  BY <4>2, <4>3
      <3>. QED  BY <3>1, <3>2
    <2>5. f'.exe # 1 => ~open'
      BY <1>1, <1>4, <2>1, <2>2
    <2>. QED  BY <2>2, <2>4, <2>5 DEF RoundAgrees
  <1>7. CASE f.fsm = "DO-REFRESH" /\ f.done /\ f.seq = 0
    <2>1. granted /\ f.exe = 0 /\ done = postponing /\ ~open
      BY <1>1, <1>7 DEF SequencerAgrees, RoundAgrees
    <2>2. Given = "NOP" /\ f'.fsm \in {"IDLE", "DO-ZQCS"}
      <3>1. Given = "NOP"
        BY <1>1, <1>7, <2>1, GivenCases DEF Timed
      <3>. QED  BY <1>1, <1>2, <1>7, <3>1, RoundEdges
    <2>3. done' = postponing /\ ~open'
      BY <1>3, <1>4, <2>1, <2>2
    <2>. QED  BY <2>2, <2>3 DEF RoundAgrees
  <1>8. CASE f.fsm = "DO-ZQCS"
    <2>1. granted /\ done = postponing /\ ~open
      BY <1>8 DEF SequencerAgrees, RoundAgrees
    <2>2. Given # "REF"
      BY <1>1, <1>8, GivenCases DEF Timed
    <2>3. done' = postponing /\ ~open'
      BY <1>3, <1>4, <2>1, <2>2
    <2>4. f'.fsm \in {"IDLE", "DO-ZQCS"}
      BY <1>1, <1>2, <1>8, RoundEdges
    <2>. QED  BY <2>3, <2>4 DEF RoundAgrees
  <1>. QED  BY <1>1, <1>5, <1>6, <1>7, <1>8 DEF RefresherStates

(* Rounds of refreshes, counted in cycles.                                  *)
LEMMA RoundLengths ==
    ASSUME NEW length \in Nat, NEW n \in Nat, NEW m \in Nat
    PROVE  /\ n * length \in Nat /\ (n + 1) * length = n * length + length
           /\ n < m => n * length + length <= m * length
  <1>1. n * length \in Nat /\ m * length \in Nat
    OBVIOUS
  <1>2. (n + 1) * length = n * length + length
    OBVIOUS
  <1>3. ASSUME n < m
        PROVE  n * length + length <= m * length
    <2>1. PICK k \in Nat : m = n + 1 + k
      <3>1. m - n - 1 \in Nat /\ m = n + 1 + (m - n - 1)
        BY <1>3
      <3>. QED  BY <3>1
    <2>2. m * length = n * length + length + k * length /\ k * length \in Nat
      BY <2>1
    <2>. QED  BY <1>1, <2>2
  <1>. QED  BY <1>1, <1>2, <1>3

(* A round is over before the next interval, so no request is lost and the  *)
(* backlog is known from the counters.                                      *)
LEMMA BacklogStep ==
    ASSUME RefresherAssumption, SystemAssumption, with_refresh,
           SystemTypeOK, SequencerAgrees, RoundAgrees, BacklogAgrees, SystemNext
    PROVE  BacklogAgrees'
  <1> DEFINE Round == postponing * RefreshLength
             Past == (postponing - 1 - f.seq) * RefreshLength
  <1>1. /\ tREFI \in Nat /\ tRP \in Nat \ {0} /\ tRFC \in Nat \ {0} /\ tZQCS \in Nat
        /\ postponing \in Nat \ {0} /\ MaxGrant \in Nat
        /\ f.exe \in 0..(tRP + tRFC) /\ f.zqexe \in 0..(tRP + tZQCS)
        /\ f.seq \in 0..(postponing - 1) /\ f.post \in 0..(postponing - 1)
        /\ f.timer \in 0..(tREFI - 1) /\ done \in Nat /\ owed \in Nat /\ delay \in 0..MaxGrant
        /\ f.fsm \in RefresherStates /\ RegistersTyped /\ granted \in BOOLEAN
    BY DEF RefresherAssumption, SystemAssumption, SystemTypeOK, RegistersTyped
  <1>2. /\ SystemClock /\ f' = RefresherNext(f, granted)
        /\ (granted => granted' = ~cmd_last(f))
        /\ (~granted /\ granted' => f.fsm = "WAIT-BANK-MACHINES")
        /\ granted' \in BOOLEAN
        /\ (~granted /\ ~granted' /\ f.fsm = "WAIT-BANK-MACHINES" => delay' = delay + 1)
    BY GrantSteps DEF SystemClock
  <1>3. done' = IF ~granted THEN 0 ELSE IF Given = "REF" THEN done + 1 ELSE done
    BY <1>2 DEF SystemClock
  <1>4. /\ f.timer = 0 => /\ f'.timer = tREFI - 1
                          /\ f'.post = IF f.post = 0 THEN postponing - 1 ELSE f.post - 1
                          /\ f'.req_o <=> f.post = 0
        /\ f.timer # 0 => f'.timer = f.timer - 1 /\ f'.post = f.post /\ ~f'.req_o
    BY <1>1, <1>2, Registers DEF TimerNext, TimerDone, PostNext
  <1>5. owed' = owed + (IF f.timer = 0 THEN 1 ELSE 0) - (IF Given = "REF" /\ owed > 0 THEN 1 ELSE 0)
    BY <1>2 DEF SystemClock, TimerDone
  <1>6. /\ Round \in Nat /\ Past \in Nat /\ Past + RefreshLength <= Round
        /\ RefreshLength = tRP + tRFC + 1
        /\ f.seq = 0 => Past + RefreshLength = Round
    <2>1. RefreshLength \in Nat /\ postponing - 1 - f.seq \in Nat /\ postponing - 1 - f.seq < postponing
      BY <1>1 DEF RefreshLength
    <2>2. f.seq = 0 => (postponing - 1 - f.seq) + 1 = postponing
      BY <1>1
    <2>3. /\ Past \in Nat /\ Round \in Nat /\ Past + RefreshLength <= Round
          /\ ((postponing - 1 - f.seq) + 1) * RefreshLength = Past + RefreshLength
      BY <1>1, <2>1, RoundLengths
    <2>. QED  BY <2>2, <2>3 DEF RefreshLength
  <1>7. Round + tRP + tZQCS + MaxGrant + 6 < tREFI
    BY DEF SystemAssumption, RefreshLength
  <1> HIDE DEF Round
  <1>8. f.fsm # "IDLE" \/ f.req_o => f.timer # 0
    <2>1. CASE f.fsm = "IDLE" /\ f.req_o
      BY <1>1, <1>6, <1>7, <2>1 DEF BacklogAgrees, Elapsed
    <2>2. CASE f.fsm = "WAIT-BANK-MACHINES"
      BY <1>1, <1>6, <1>7, <2>2 DEF BacklogAgrees, Elapsed
    <2>3. CASE f.fsm = "DO-REFRESH"
      <3>1. Progress \in 0..RefreshLength /\ Elapsed <= MaxGrant + 2 + Past + Progress
        BY <1>1, <1>6, <2>3 DEF BacklogAgrees, Progress
      <3>. QED  BY <1>1, <1>6, <1>7, <3>1 DEF Elapsed
    <2>4. CASE f.fsm = "DO-ZQCS"
      <3>1. ZqProgress \in 0..(tRP + tZQCS + 1) /\ Elapsed <= MaxGrant + 2 + Round + ZqProgress
        BY <1>1, <2>4 DEF BacklogAgrees, ZqProgress, Round
      <3>. QED  BY <1>1, <1>6, <1>7, <3>1 DEF Elapsed
    <2>. QED  BY <1>1, <2>1, <2>2, <2>3, <2>4 DEF RefresherStates
  <1>9. CASE f.fsm = "IDLE"
    <2>1. /\ ~granted /\ ~granted' /\ Given = "NOP" /\ done' = 0
          /\ f'.fsm = IF f.req_o THEN "WAIT-BANK-MACHINES" ELSE "IDLE"
      BY <1>1, <1>2, <1>3, <1>9, GivenCases, RoundEdges DEF SequencerAgrees
    <2>2. CASE f.req_o
      <3>1. owed = postponing /\ f.post = postponing - 1 /\ Elapsed = 0 /\ f.timer # 0
        BY <1>8, <1>9, <2>2 DEF BacklogAgrees
      <3>2. f'.fsm = "WAIT-BANK-MACHINES" /\ ~f'.req_o /\ owed' = postponing /\ f'.post = postponing - 1
        BY <1>1, <1>4, <1>5, <2>1, <2>2, <3>1
      <3>3. Elapsed' = 1 /\ delay' >= 0
        <4>1. delay' \in 0..MaxGrant
          BY GrantSteps
        <4>. QED  BY <1>1, <1>4, <3>1, <4>1 DEF Elapsed
      <3>. QED  BY <1>1, <2>1, <3>2, <3>3, GrantSteps DEF BacklogAgrees
    <2>3. CASE ~f.req_o
      <3>1. f'.fsm = "IDLE" /\ owed = postponing - 1 - f.post
        BY <1>9, <2>1, <2>3 DEF BacklogAgrees
      <3>2. CASE f.timer = 0
        BY <1>1, <1>4, <1>5, <2>1, <3>1, <3>2 DEF BacklogAgrees, Elapsed
      <3>3. CASE f.timer # 0
        BY <1>1, <1>4, <1>5, <2>1, <3>1, <3>3 DEF BacklogAgrees, Elapsed
      <3>. QED  BY <3>2, <3>3
    <2>. QED  BY <2>2, <2>3
  <1>10. ASSUME f.fsm # "IDLE"
         PROVE  /\ f.post = postponing - 1 /\ f'.post = postponing - 1
                /\ f.timer # 0 /\ ~f'.req_o /\ Elapsed' = Elapsed + 1
    <2>1. f.post = postponing - 1 /\ f.timer # 0
      BY <1>8, <1>10 DEF BacklogAgrees
    <2>. QED  BY <1>1, <1>4, <2>1 DEF Elapsed
  <1>11. CASE f.fsm = "WAIT-BANK-MACHINES"
    <2>1. Given = "NOP" /\ owed' = owed /\ f.post = postponing - 1 /\ f'.post = postponing - 1
          /\ ~f'.req_o /\ Elapsed' = Elapsed + 1
      BY <1>1, <1>5, <1>10, <1>11, GivenCases
    <2>2. Elapsed \in Nat /\ Elapsed <= IF granted THEN MaxGrant + 2 ELSE delay + 1
      BY <1>1, <1>11 DEF BacklogAgrees, Elapsed
    <2>3. CASE ~granted
      <3>1. f'.fsm = "WAIT-BANK-MACHINES" /\ owed = postponing /\ done' = 0
        BY <1>2, <1>1, <1>3, <1>11, <2>3, RoundEdges DEF BacklogAgrees
      <3>2. CASE granted'
        <4>1. Elapsed' <= MaxGrant + 2
          BY <1>1, <2>1, <2>2, <2>3
        <4>. QED  BY <1>1, <2>1, <3>1, <3>2, <4>1 DEF BacklogAgrees
      <3>3. CASE ~granted'
        <4>1. delay' = delay + 1
          BY <1>2, <1>11, <2>3, <3>3
        <4>2. Elapsed' <= delay' + 1
          BY <1>1, <2>1, <2>2, <2>3, <4>1
        <4>. QED  BY <1>1, <2>1, <3>1, <3>3, <4>2 DEF BacklogAgrees
      <3>. QED  BY <3>2, <3>3
    <2>4. CASE granted
      <3>1. f'.fsm = "DO-REFRESH" /\ f'.exe = 1 /\ ~f'.done /\ f'.seq = postponing - 1
        BY <1>1, <1>2, <1>11, <2>4, RoundEdges
      <3>2. granted' /\ done' = 0 /\ owed = postponing
        <4>1. ~cmd_last(f)
          BY <1>11 DEF cmd_last
        <4>2. done = 0
          BY <1>11, <2>4 DEF RoundAgrees
        <4>3. granted'
          BY <1>2, <2>4, <4>1
        <4>4. owed = postponing - done
          BY <2>4 DEF BacklogAgrees
        <4>. QED  BY <1>1, <1>3, <2>1, <2>4, <4>2, <4>3, <4>4
      <3>3. Progress' = 1 /\ (postponing - 1 - f'.seq) * RefreshLength' = 0
        BY <1>1, <3>1 DEF Progress, RefreshLength
      <3>4. Elapsed' <= MaxGrant + 2 + (postponing - 1 - f'.seq) * RefreshLength' + Progress'
        BY <1>1, <2>1, <2>2, <2>4, <3>3
      <3>. QED  BY <1>1, <2>1, <3>1, <3>2, <3>4 DEF BacklogAgrees
    <2>. QED  BY <1>1, <2>3, <2>4
  <1>12. CASE f.fsm = "DO-REFRESH" /\ ~(f.done /\ f.seq = 0)
    <2>1. /\ ~cmd_last(f) /\ f'.fsm = "DO-REFRESH"
          /\ f'.exe = IF f.exe = tRP + tRFC THEN 0 ELSE f.exe + 1
          /\ f'.done <=> f.exe = tRP + tRFC
          /\ f'.seq = IF f.done THEN f.seq - 1 ELSE f.seq
          /\ Given = IF f.exe = 1 THEN "PRE" ELSE IF f.exe = tRP + 1 THEN "REF" ELSE "NOP"
      BY <1>1, <1>2, <1>12, GivenCases, RoundEdges DEF Timed
    <2>2. granted /\ granted' /\ (f.exe # 0 \/ f.done) /\ (f.done => f.exe = 0)
      BY <1>2, <1>12, <2>1 DEF SequencerAgrees
    <2>3. /\ owed = postponing - done /\ Elapsed <= MaxGrant + 2 + Past + Progress
          /\ done = postponing - f.seq - (IF 1 <= f.exe /\ f.exe <= tRP + 1 THEN 1 ELSE 0)
      BY <1>12, <2>2 DEF BacklogAgrees, RoundAgrees
    <2>4. owed' = postponing - done'
      BY <1>1, <1>3, <1>5, <1>10, <1>12, <2>1, <2>2, <2>3
    <2>5. Elapsed' <= MaxGrant + 2 + (postponing - 1 - f'.seq) * RefreshLength' + Progress'
      <3>1. Elapsed \in Nat /\ Elapsed' = Elapsed + 1
        BY <1>1, <1>10, <1>12 DEF Elapsed
      <3>2. CASE f.done
        <4>1. f.exe = 0 /\ f'.exe = 1 /\ ~f'.done /\ f'.seq = f.seq - 1 /\ f.seq # 0
          BY <1>1, <1>12, <2>1, <2>2, <3>2
        <4>2. Progress = RefreshLength /\ Progress' = 1
          BY <1>1, <3>2, <4>1 DEF Progress
        <4>3. (postponing - 1 - f'.seq) * RefreshLength' = Past + RefreshLength
          <5>1. postponing - 1 - f.seq \in Nat /\ postponing - 1 - f'.seq = (postponing - 1 - f.seq) + 1
            BY <1>1, <4>1
          <5>2. RefreshLength \in Nat /\ RefreshLength' = RefreshLength
            BY <1>1 DEF RefreshLength
          <5>3. ((postponing - 1 - f.seq) + 1) * RefreshLength = Past + RefreshLength
            BY <5>1, <5>2, RoundLengths
          <5>. QED  BY <5>1, <5>2, <5>3
        <4>4. RefreshLength \in Nat
          BY <1>1 DEF RefreshLength
        <4> HIDE DEF Past
        <4>. QED  BY <1>1, <1>6, <2>3, <3>1, <4>2, <4>3, <4>4
      <3>3. CASE ~f.done
        <4>1. f.exe # 0 /\ f'.seq = f.seq
          BY <2>1, <2>2, <3>3
        <4>2. Progress' = Progress + 1 /\ Progress \in Nat
          BY <1>1, <2>1, <3>3, <4>1 DEF Progress, RefreshLength
        <4>3. (postponing - 1 - f'.seq) * RefreshLength' = Past
          BY <4>1 DEF RefreshLength
        <4> HIDE DEF Past
        <4>. QED  BY <1>1, <1>6, <2>3, <3>1, <4>2, <4>3
      <3>. QED  BY <3>2, <3>3
    <2>. QED  BY <1>10, <1>12, <2>1, <2>2, <2>4, <2>5 DEF BacklogAgrees
  <1>13. CASE f.fsm = "DO-REFRESH" /\ f.done /\ f.seq = 0
    <2>1. granted /\ f.exe = 0 /\ done = postponing /\ owed = 0
      BY <1>1, <1>13 DEF SequencerAgrees, RoundAgrees, BacklogAgrees
    <2>2. Given = "NOP"
      BY <1>1, <1>13, <2>1, GivenCases DEF Timed
    <2>3. owed' = 0 /\ done' = postponing
      BY <1>1, <1>3, <1>5, <1>10, <1>13, <2>1, <2>2
    <2>4. CASE cmd_last(f)
      <3>1. f'.fsm = "IDLE" /\ ~granted'
        BY <1>1, <1>2, <1>13, <2>1, <2>4, RoundEdges
      <3>. QED  BY <1>1, <1>10, <1>13, <2>3, <3>1 DEF BacklogAgrees
    <2>5. CASE ~cmd_last(f)
      <3>1. f'.fsm = "DO-ZQCS" /\ granted' /\ f'.zqexe = 1
        BY <1>1, <1>2, <1>13, <2>1, <2>5, RoundEdges
      <3>2. ZqProgress' = 1
        BY <3>1 DEF ZqProgress
      <3>3. Elapsed <= MaxGrant + 2 + Past + RefreshLength
        BY <1>13, <2>1 DEF BacklogAgrees, Progress
      <3>4. Elapsed' <= MaxGrant + 2 + Round + ZqProgress'
        <4>1. Elapsed \in Nat /\ RefreshLength \in Nat
          BY <1>1 DEF Elapsed, RefreshLength
        <4> HIDE DEF Past
        <4>. QED  BY <1>1, <1>6, <1>10, <1>13, <3>2, <3>3, <4>1
      <3>5. Round = postponing * RefreshLength'
        BY DEF Round, RefreshLength
      <3>. QED  BY <1>1, <1>10, <1>13, <2>3, <3>1, <3>4, <3>5 DEF BacklogAgrees
    <2>. QED  BY <2>4, <2>5
  <1>14. CASE f.fsm = "DO-ZQCS"
    <2>1. granted /\ done = postponing /\ owed = 0 /\ Elapsed <= MaxGrant + 2 + Round + ZqProgress
      BY <1>1, <1>14 DEF SequencerAgrees, RoundAgrees, BacklogAgrees, Round
    <2>2. Given # "REF"
      BY <1>1, <1>14, GivenCases DEF Timed
    <2>3. owed' = 0 /\ done' = postponing
      BY <1>1, <1>3, <1>5, <1>10, <1>14, <2>1, <2>2
    <2>4. CASE f.zqdone
      <3>1. f'.fsm = "IDLE" /\ ~granted'
        BY <1>1, <1>2, <1>14, <2>1, <2>4, RoundEdges
      <3>. QED  BY <1>1, <1>10, <1>14, <2>3, <3>1 DEF BacklogAgrees
    <2>5. CASE ~f.zqdone
      <3>1. /\ f'.fsm = "DO-ZQCS" /\ granted' /\ f.zqexe # 0
            /\ f'.zqexe = IF f.zqexe = tRP + tZQCS THEN 0 ELSE f.zqexe + 1
        BY <1>1, <1>2, <1>14, <2>1, <2>5, RoundEdges
      <3>2. ZqProgress' = ZqProgress + 1
        BY <1>1, <3>1 DEF ZqProgress
      <3>3. Elapsed' <= MaxGrant + 2 + Round + ZqProgress'
        <4>1. Elapsed \in Nat /\ ZqProgress \in Nat
          BY <1>1 DEF Elapsed, ZqProgress
        <4>. QED  BY <1>1, <1>6, <1>10, <1>14, <2>1, <3>2, <4>1
      <3>4. Round = postponing * RefreshLength'
        BY DEF Round, RefreshLength
      <3>. QED  BY <1>1, <1>10, <1>14, <2>3, <3>1, <3>3, <3>4 DEF BacklogAgrees
    <2>. QED  BY <2>4, <2>5
  <1>. QED  BY <1>1, <1>9, <1>11, <1>12, <1>13, <1>14 DEF RefresherStates

-----------------------------------------------------------------------------
(* The theorems.                                                            *)

\* What is assumed of the constants.
Assumptions == RefresherAssumption /\ SystemAssumption

(* The condition for the sequence at power-on follows from the one for a    *)
(* round: a round is longer.                                                *)
LEMMA RoundsLongEnough ==
    ASSUME Assumptions
    PROVE  PowerOnAssumption
  <1> DEFINE length == tRP + tRFC + 1
  <1>1. /\ length \in Nat /\ tRP \in Nat /\ tRFC \in Nat /\ tZQCS \in Nat /\ MaxGrant \in Nat /\ tREFI \in Nat
        /\ postponing \in Nat /\ 0 < postponing
    BY DEF Assumptions, RefresherAssumption, SystemAssumption
  <1>2. postponing * length + tRP + tZQCS + MaxGrant + 6 < tREFI
    BY DEF Assumptions, SystemAssumption
  <1>3. 0 * length + length <= postponing * length /\ postponing * length \in Nat /\ 0 * length \in Nat
    BY <1>1, RoundLengths
  <1>4. length + 1 < tREFI
    <2> DEFINE round == postponing * length
               none == 0 * length
    <2>1. none + length <= round /\ round + tRP + tZQCS + MaxGrant + 6 < tREFI /\ round \in Nat /\ none \in Nat
      BY <1>2, <1>3
    <2> HIDE DEF round, none, length
    <2>. QED  BY <1>1, <2>1
  <1>. QED  BY <1>1, <1>4 DEF PowerOnAssumption

(* Initially every timeline rests, the ages are old and nothing is owed.    *)
LEMMA InitIInv == Assumptions /\ SystemInit => SystemIInv
  <1> SUFFICES ASSUME Assumptions, SystemInit PROVE SystemIInv
    OBVIOUS
  <1>1. /\ tREFI \in Nat \ {0} /\ tRP \in Nat \ {0} /\ tRFC \in Nat \ {0} /\ tZQCS \in Nat
        /\ postponing \in Nat \ {0} /\ zqcs_period \in Nat \ {0} /\ MaxGrant \in Nat
        /\ RefresherCap \in Nat /\ tRP <= RefresherCap /\ tRFC <= RefresherCap /\ tZQCS <= RefresherCap
    BY DEF Assumptions, RefresherAssumption, SystemAssumption
  <1>2. /\ f.fsm = "IDLE" /\ f.timer = tREFI - 1 /\ f.post = postponing - 1 /\ ~f.req_o
        /\ f.seq = postponing - 1 /\ f.exe = 0 /\ ~f.done /\ f.cmd = "NOP"
        /\ f.zqtimer = zqcs_period - 1 /\ f.zqexe = 0 /\ ~f.zqdone
        /\ f.req_o \in BOOLEAN /\ f.done \in BOOLEAN /\ f.zqdone \in BOOLEAN
    BY DEF SystemInit, RefresherInit
  <1>3. /\ granted = FALSE /\ delay = 0 /\ ages = [c \in {"PRE", "REF", "ZQCS"} |-> RefresherCap]
        /\ open = TRUE /\ done = 0 /\ owed = 0
    BY DEF SystemInit
  <1>4. RegistersTyped
    BY <1>1, <1>2 DEF RegistersTyped, RefresherStates
  <1>5. SystemTypeOK
    <2>1. RefresherCap \in 1..RefresherCap /\ 0 \in 0..MaxGrant
      BY <1>1
    <2>. QED  BY <1>3, <1>4, <2>1 DEF SystemTypeOK
  <1>6. SequencerAgrees
    BY <1>1, <1>2, <1>3 DEF SequencerAgrees, Quiet, PowerOn, Elapsed, Progress
  <1>7. PrechargeAged(ages["PRE"]) /\ RefreshAged(ages["REF"]) /\ ZqcsAged(ages["ZQCS"])
    BY <1>1, <1>2, <1>3 DEF PrechargeAged, RefreshAged, ZqcsAged
  <1>8. RoundAgrees
    BY <1>2 DEF RoundAgrees
  <1>9. BacklogAgrees
    BY <1>1, <1>2, <1>3 DEF BacklogAgrees
  <1>. QED  BY <1>5, <1>6, <1>7, <1>8, <1>9 DEF SystemIInv

LEMMA NextIInv == Assumptions /\ SystemIInv /\ [SystemNext]_system_vars => SystemIInv'
  <1> SUFFICES ASSUME Assumptions, SystemIInv, [SystemNext]_system_vars PROVE SystemIInv'
    OBVIOUS
  <1>1. CASE SystemNext
    <2>1. /\ RefresherAssumption /\ SystemAssumption /\ PowerOnAssumption
          /\ SystemTypeOK /\ SequencerAgrees /\ RoundAgrees
          /\ PrechargeAged(ages["PRE"]) /\ RefreshAged(ages["REF"]) /\ ZqcsAged(ages["ZQCS"])
      BY RoundsLongEnough DEF Assumptions, SystemIInv
    <2>2. SequencerAgrees'
      <3>1. RegistersTyped /\ granted \in BOOLEAN
        BY <2>1 DEF SystemTypeOK
      <3>2. /\ f' = RefresherNext(f, granted)
            /\ granted => granted' = ~cmd_last(f)
            /\ ~granted /\ granted' => f.fsm = "WAIT-BANK-MACHINES"
        BY <1>1, <2>1, GrantSteps DEF SystemClock
      <3>. QED  BY <2>1, <3>1, <3>2, SequencerStep
    <2>3. with_refresh => BacklogAgrees'
      BY <1>1, <2>1, BacklogStep DEF SystemIInv
    <2>. QED  BY <1>1, <2>1, <2>2, <2>3, TypeStep, DramAgesStep, RoundStep DEF SystemIInv
  <1>2. CASE UNCHANGED system_vars
    BY <1>2 DEF SystemIInv, system_vars, SystemTypeOK, RegistersTyped, SequencerAgrees, Quiet, PowerOn, Elapsed, Progress,
                PrechargeAged, RefreshAged, ZqcsAged, RoundAgrees, BacklogAgrees, ZqProgress,
                RefreshLength, Timed
  <1>. QED  BY <1>1, <1>2

(* The strengthening is an invariant of the refresher.                      *)
THEOREM Inductive == ASSUME Assumptions PROVE SystemSpec => []SystemIInv
  <1>1. SystemInit => SystemIInv
    BY InitIInv
  <1>2. SystemIInv /\ [SystemNext]_system_vars => SystemIInv'
    BY NextIInv
  <1>. QED  BY <1>1, <1>2, PTL DEF SystemSpec

(* Every register keeps its width.                                          *)
THEOREM TypeCorrect == ASSUME Assumptions PROVE SystemSpec => []SystemTypeOK
  <1>1. SystemIInv => SystemTypeOK
    BY DEF SystemIInv
  <1>. QED  BY <1>1, Inductive, PTL

(* The DRAM receives a legal refresh sequence: see SequenceLegal.           *)
THEOREM LegalSequence == ASSUME Assumptions PROVE SystemSpec => []SequenceLegal
  <1>1. SystemIInv => SequenceLegal
    <2> SUFFICES ASSUME SystemIInv PROVE SequenceLegal
      OBVIOUS
    <2>1. /\ tRP \in Nat \ {0} /\ tRFC \in Nat \ {0} /\ tZQCS \in Nat
          /\ f.exe \in Nat /\ f.zqexe \in Nat /\ f.fsm \in RefresherStates
          /\ ages["PRE"] \in Nat /\ ages["REF"] \in Nat
      BY DEF Assumptions, RefresherAssumption, SystemAssumption, SystemIInv, SystemTypeOK, RegistersTyped
    <2>2. /\ RefresherAssumption /\ RegistersTyped /\ SequencerAgrees /\ granted \in BOOLEAN
          /\ PrechargeAged(ages["PRE"]) /\ RefreshAged(ages["REF"]) /\ RoundAgrees
      BY DEF Assumptions, SystemIInv, SystemTypeOK
    <2>3. CASE f.fsm \in {"IDLE", "WAIT-BANK-MACHINES"}
      BY <2>2, <2>3, GivenCases DEF SequenceLegal
    <2>4. CASE f.fsm = "DO-REFRESH"
      <3>1. Given = IF f.exe = 1 THEN "PRE" ELSE IF f.exe = tRP + 1 THEN "REF" ELSE "NOP"
        BY <2>2, <2>4, GivenCases DEF Timed
      <3>. QED  BY <2>1, <2>2, <2>4, <3>1 DEF SequenceLegal, PrechargeAged, RefreshAged, RoundAgrees
    <2>5. CASE f.fsm = "DO-ZQCS"
      <3>1. Given = IF f.zqexe = 1 THEN "PRE" ELSE IF f.zqexe = tRP + 1 THEN "ZQCS" ELSE "NOP"
        BY <2>2, <2>5, GivenCases DEF Timed
      <3>. QED  BY <2>1, <2>2, <2>5, <3>1 DEF SequenceLegal, PrechargeAged, RefreshAged, RoundAgrees
    <2>. QED  BY <2>1, <2>3, <2>4, <2>5 DEF RefresherStates
  <1>. QED  BY <1>1, Inductive, PTL

(* The controller is released only after the whole round: see ReleaseSafe.  *)
THEOREM SafeRelease == ASSUME Assumptions PROVE SystemSpec => []ReleaseSafe
  <1>1. SystemIInv => ReleaseSafe
    <2> SUFFICES ASSUME SystemIInv, cmd_last(f) PROVE ReleaseSafe
      BY DEF ReleaseSafe
    <2>1. /\ tRP \in Nat \ {0} /\ tRFC \in Nat \ {0} /\ tZQCS \in Nat /\ postponing \in Nat
          /\ ages["PRE"] \in Nat /\ ages["REF"] \in Nat /\ ages["ZQCS"] \in Nat
      BY DEF Assumptions, RefresherAssumption, SystemAssumption, SystemIInv, SystemTypeOK, RegistersTyped
    <2>2. /\ SequencerAgrees /\ RoundAgrees
          /\ PrechargeAged(ages["PRE"]) /\ RefreshAged(ages["REF"]) /\ ZqcsAged(ages["ZQCS"])
      BY DEF SystemIInv
    <2>3. CASE f.fsm = "DO-REFRESH" /\ f.done /\ f.seq = 0
      <3>1. f.exe = 0 /\ granted /\ done = postponing /\ ~open
        BY <2>1, <2>2, <2>3 DEF SequencerAgrees, RoundAgrees
      <3>. QED  BY <2>1, <2>2, <2>3, <3>1 DEF ReleaseSafe, PrechargeAged, RefreshAged, ZqcsAged
    <2>4. CASE f.fsm = "DO-ZQCS" /\ f.zqdone
      <3>1. f.zqexe = 0 /\ granted /\ done = postponing /\ ~open
        BY <2>1, <2>2, <2>4 DEF SequencerAgrees, RoundAgrees
      <3>. QED  BY <2>1, <2>2, <2>4, <3>1 DEF ReleaseSafe, PrechargeAged, RefreshAged, ZqcsAged
    <2>. QED  BY <2>3, <2>4 DEF cmd_last, sequencer_done
  <1>. QED  BY <1>1, Inductive, PTL

(* With refreshes enabled no request is lost: see BacklogBounded.           *)
THEOREM BoundedBacklog == ASSUME Assumptions, with_refresh PROVE SystemSpec => []BacklogBounded
  <1>1. SystemIInv => BacklogBounded
    <2> SUFFICES ASSUME SystemIInv PROVE BacklogBounded
      OBVIOUS
    <2>1. /\ postponing \in Nat /\ f.post \in Nat /\ done \in Nat /\ owed \in Nat /\ granted \in BOOLEAN
      BY DEF Assumptions, RefresherAssumption, SystemIInv, SystemTypeOK, RegistersTyped
    <2>2. BacklogAgrees
      BY DEF SystemIInv
    <2>3. CASE granted
      BY <2>1, <2>2, <2>3 DEF BacklogAgrees, BacklogBounded
    <2>4. CASE ~granted
      BY <2>1, <2>2, <2>4 DEF BacklogAgrees, BacklogBounded
    <2>. QED  BY <2>3, <2>4
  <1>. QED  BY <1>1, Inductive, PTL
=============================================================================
