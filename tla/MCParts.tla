------------------------------- MODULE MCParts -------------------------------
(* The parts of the system that can be checked alone, on small instances: an  *)
(* initial state chooses the part that moves, the variables of the others     *)
(* keep their first values.                                                   *)
EXTENDS TimingMonitor, RefresherSystem, Crossbar, AddressMapping, TLC

CONSTANTS
    SpacingSteps, StreamPhases, StreamCommands, OverlapChecks, period_bits      \* of the devices

VARIABLES
    part,       \* the part that moves
    dev         \* the state of a part between the controller and the chips

-----------------------------------------------------------------------------
\* Port 0 reads and writes, the others only read.
MixedModes == [m \in 0..(NMasters - 1) |-> IF m = 0 THEN BOOLEAN ELSE {FALSE}]

\* Columns below, at and beyond the auto-precharge bit; one or two ranks; bank
\* alignments up to the largest.
SmallGeometries ==
    {g \in [rows : {2, 4}, page : {1, 2, 4, 8, 16}, banks : {2, 4}, ranks : {1, 2},
            burst : {1, 2}, aligned : {1, 4, 8, 32}] :
        g.page * g.burst <= 16 /\ 2 <= g.page * g.burst /\ g.aligned <= g.rows * g.page}

\* Chips of every type of memory, and two DIMMs from the bytes of their SPD:
\* MT16KTF1G64HZ-1G9E1 (DDR3) and MTA4ATF51264HZ-2G3B1 (DDR4).
Db == INSTANCE ModuleDatabase
Bytes(numbers, values) ==
    [b \in 0..127 |-> IF \E k \in DOMAIN numbers : numbers[k] = b
                      THEN values[CHOOSE k \in DOMAIN numbers : numbers[k] = b] ELSE 0]
Ddr3Spd == Bytes(<<2, 4, 5, 9, 10, 11, 12, 17, 18, 19, 20, 21, 22, 24, 25, 26, 28, 29, 34, 36, 37>>,
                 <<11, 4, 33, 17, 1, 8, 9, 120, 105, 40, 105, 17, 16, 32, 8, 60, 0, 216, 202, 0, 0>>)
Ddr4Spd == Bytes(<<2, 4, 5, 12, 17, 18, 25, 26, 27, 28, 30, 31, 32, 33, 34, 35, 36, 37,
                   39, 40, 41, 42, 43, 45, 117, 118, 121, 122, 125>>,
                 <<12, 69, 33, 2, 0, 7, 110, 110, 17, 0, 240, 10, 32, 8, 0, 5, 0, 240,
                   52, 40, 0, 120, 0, 60, 0, 156, 0, 0, 214>>)
SmallModels == {Db!IS42S16160, Db!MT46H32M16, Db!P3R1GE4JGF,
                Db!MT41K128M16, Db!EDY4016A}
AllChips == Db!Chips \cup {Db!from_spd_data(Ddr3Spd), Db!from_spd_data(Ddr4Spd)}

\* The parts between the controller and the chips share the variable dev.
Spacing == INSTANCE DeviceSpacing WITH SpacingModules <- AllChips
Starting == INSTANCE DeviceInit WITH SpacingModules <- AllChips
Streams == INSTANCE DeviceCommands WITH SpacingModules <- AllChips
Wck == INSTANCE Lpddr5Wck WITH SpacingModules <- AllChips
Model == INSTANCE PhyModel WITH SpacingModules <- AllChips, ModelModules <- SmallModels
Data == INSTANCE PhyData WITH SpacingModules <- AllChips
Rates == INSTANCE Dfi WITH SpacingModules <- AllChips
Counter == INSTANCE Bandwidth WITH SpacingModules <- AllChips

ASSUME RefresherSmall == RefresherAssumption /\ PowerOnAssumption /\ SystemAssumption
ASSUME CrossbarSmall == CrossbarAssumption /\ NoCmdAssumption /\ ~cmd_buffer_buffered
ASSUME GeometriesSmall == GeometryAssumption
-----------------------------------------------------------------------------
PartNames == {"timing", "refresher", "crossbar", "addresses", "spacing", "init", "commands",
              "wck", "model", "data", "converter", "bandwidth"}

DevicesInit ==
    CASE part = "spacing"   -> Spacing!SpacingInit
      [] part = "init"      -> Starting!InitInit
      [] part = "commands"  -> Streams!CommandsInit
      [] part = "wck"       -> Wck!WckInit
      [] part = "model"     -> Model!ModelInit
      [] part = "data"      -> Data!DataInit
      [] part = "converter" -> Rates!ConverterInit
      [] part = "bandwidth" -> Counter!BandwidthInit
      [] OTHER              -> dev = "idle"

DevicesNext ==
    \/ part = "spacing"   /\ Spacing!SpacingNext
    \/ part = "init"      /\ Starting!InitNext
    \/ part = "commands"  /\ Streams!CommandsNext
    \/ part = "wck"       /\ Wck!WckNext
    \/ part = "model"     /\ Model!ModelNext
    \/ part = "data"      /\ Data!DataNext
    \/ part = "converter" /\ Rates!ConverterNext
    \/ part = "bandwidth" /\ Counter!BandwidthNext

PartsInit ==
    /\ part \in PartNames
    /\ Init /\ (part # "timing" => txxd = None /\ tfaw = None)
    /\ SystemInit
    /\ CrossbarInit
    /\ MappingInit /\ (part # "addresses" => geom = CHOOSE g \in SmallGeometries : TRUE)
    /\ DevicesInit

TimingStep ==
    part = "timing" /\ Next /\ UNCHANGED <<part, system_vars, crossbar_vars, mapping_vars, dev>>
RefresherStep ==
    part = "refresher" /\ SystemNext /\ UNCHANGED <<part, vars, crossbar_vars, mapping_vars, dev>>
CrossbarStep(A) ==
    part = "crossbar" /\ A /\ UNCHANGED <<part, vars, system_vars, mapping_vars, dev>>
AddressStep ==
    part = "addresses" /\ MappingNext /\ UNCHANGED <<part, vars, system_vars, crossbar_vars, dev>>
DeviceStep ==
    DevicesNext /\ UNCHANGED <<part, vars, system_vars, crossbar_vars, mapping_vars>>

PartsNext == TimingStep \/ RefresherStep \/ CrossbarStep(CrossbarNext) \/ AddressStep \/ DeviceStep

\* Of the properties here only those of the crossbar need fairness: its own.
PartsSpec ==
    /\ PartsInit /\ [][PartsNext]_<<part, vars, system_vars, crossbar_vars, mapping_vars, dev>>
    /\ WF_circuit(CrossbarStep(CrossbarNext))
    /\ \A p \in BankIds : SF_bufs(CrossbarStep(Perform(p)))

-----------------------------------------------------------------------------
(* The properties of TimingMonitor, RefresherSystem, Crossbar and             *)
(* AddressMapping hold as they are: a part that does not move keeps its first *)
(* state.  Those of the devices are about the part that moves.                *)

(* Chips: no command is earlier than the data sheet allows.                   *)
SpacingCovered == part = "spacing" => Spacing!SpacingCovered
(* Initialisation: every chip ends up in the mode its settings need.          *)
DevicesConfigured == part = "init" => Starting!DevicesConfigured
(* LPDDR commands: the chip decodes what the controller meant.                *)
CommandsReachDevice == part = "commands" => Streams!CommandsReachDevice
(* LPDDR5: WCK runs around every burst.                                       *)
BurstsClocked == part = "wck" => Wck!BurstsClocked
(* PHYs: data, drivers and DQS meet the command; the rate converter keeps     *)
(* data and command together.                                                 *)
DataMeetsCommand == /\ part = "data" => Data!DataMeetsCommand
                    /\ part = "converter" => Rates!ConverterMeetsPhy
(* Simulated PHY: it is a memory behind a controller that keeps its waits.    *)
ModelIsMemory == part = "model" => Model!ModelIsMemory
(* Simulated PHY: its checker of timings tells the truth.                     *)
AlarmsTrue == part = "model" => Model!AlarmsTrue
(* Bandwidth counter: every accepted command is counted in its period.        *)
PeriodsCounted == part = "bandwidth" => Counter!PeriodsCounted
=============================================================================
