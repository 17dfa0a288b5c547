SPECIFICATION FairSpec
CONSTANTS
    r0 = r0
    r1 = r1
    Rows <- MCRows
    tRP = 1
    tRCD = 1
    tRAS = 0
    tRC = 0
    tWTP = 2
    tRFC = 1
    Cap = 2
    cmd_buffer_depth = 2
    cmd_buffer_buffered = FALSE
    with_auto_precharge = TRUE
    NBanks = 2
    single_phase = TRUE
    tRRD = 2
    tFAW = 0
    tCCD = 2
    tWTRtotal = 2
    read_latency = 2
    read_time = 3
    write_time = 3
    tREFI = 26
    tZQCS = 0
    zqcs_period = 1
    postponing = 1
    with_refresh = TRUE
    Offered <- LiveOffered
    MaxInFlight = 3
PROPERTIES
    RequestsServed
    RefreshGranted
