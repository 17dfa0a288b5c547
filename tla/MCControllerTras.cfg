SPECIFICATION Spec
CONSTANTS
    r0 = r0
    r1 = r1
    Rows <- MCRows
    tRP = 2
    tRCD = 2
    tRAS = 6
    tRC = 8
    tWTP <- MCtWTP
    tRFC = 2
    Cap = 8
    cmd_buffer_depth = 2
    cmd_buffer_buffered = FALSE
    with_auto_precharge = TRUE
    NBanks = 1
    single_phase = FALSE
    tRRD = 3
    tFAW = 0
    tCCD = 1
    tWTRtotal <- MCtWTR
    read_latency = 3
    read_time = 3
    write_time = 2
    tREFI = 16
    tZQCS = 0
    zqcs_period = 1
    postponing = 1
    with_refresh = TRUE
    Offered <- MCOffered
    MaxInFlight = 3
INVARIANT
    PrechargeRespectsTRAS
SYMMETRY RowSymmetry
