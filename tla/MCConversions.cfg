SPECIFICATION Spec
CONSTANTS
    v0 = v0
    v1 = v1
    none = none
    Values <- MCValues
    Default = v0
    UNAVAILABLE = none
    OtherIds <- MCOtherIds
    Cams <- MCCams
    Denms <- MCDenms
    CpmsTs <- MCCpmsTs
    RosCams <- MCRosCams
    MaxHops = 3
    MaxMessages = 2
INVARIANTS
    TypeOK
    LosesOnlyOnce
    LightsMatchMasks
    DenmsToldApart
    CpmsToldApart
    WholeOrStopped
\* Messages are bounded, and a node may end.
CHECK_DEADLOCK FALSE
