SPECIFICATION SystemFairSpec
CONSTANTS
    tREFI = 100
    tRP = 2
    tRFC = 3
    tZQCS = 4
    zqcs_period = 1000
    postponing = 1
    with_refresh = TRUE
    MaxGrant = 5
    RefresherCap = 5
PROPERTY
    ZqcsPeriodic
