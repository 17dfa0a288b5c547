SPECIFICATION PartsSpec
CONSTANTS
    Timings = {0, 1, 2, 3, 4, 5}
    Cap = 6
    tREFI = 100
    tRP = 2
    tRFC = 3
    tZQCS = 4
    zqcs_period = 53
    postponing = 3
    with_refresh = TRUE
    MaxGrant = 5
    RefresherCap = 5
    NMasters = 2
    NBanks = 2
    slot_read_latency = 2
    slot_write_latency = 1
    port_modes <- MixedModes
    NoCmd = NoCmd
    cmd_buffer_depth = 2
    cmd_buffer_buffered = FALSE
    ApBit = 4
    Geometries <- SmallGeometries
    SpacingSteps = 5
    StreamPhases = 11
    StreamCommands = 3
    OverlapChecks = {FALSE}
    period_bits = 1
INVARIANTS
    ReadyNotEarly
    FourActivateWindow
    ReadyNotLate
    SequenceLegal
    ReleaseSafe
    BacklogBounded
    SlotsReachOwner
    OneBankPerMaster
    NoAliasing
    ColumnLegal
    SpacingCovered
    DevicesConfigured
    CommandsReachDevice
    BurstsClocked
    DataMeetsCommand
    ModelIsMemory
    AlarmsTrue
    PeriodsCounted
PROPERTIES
    NoCommandStuck
    BankChangesAligned
CHECK_DEADLOCK FALSE
