SPECIFICATION Spec
CONSTANTS
    NoAccess = NoAccess
    \* Two rows, so that requests hit and miss; pairwise different timings, so
    \* that none hides behind another; tWTP = precharge_time(3, 2, 1, 1).
    Rows = {r0, r1}
    tRP = 2
    tRCD = 3
    tRAS = 7
    tRC = 10
    tWTP = 4
    tRFC = 3
    Cap = 10
    cmd_buffer_depth = 2
    cmd_buffer_buffered = FALSE
    with_auto_precharge = TRUE
INVARIANTS
    TypeOK
    CommandsLegal
    RowCycleHasRequest
    RefreshGrantSafe
PROPERTY
    InOrder
