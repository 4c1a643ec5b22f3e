SPECIFICATION Spec
CONSTANTS
    VehicleTypes <- MCVehicleTypes
    OtherClasses <- MCOtherClasses
    Cpms <- MCCpms
    MaxMessages = 2
INVARIANTS
    TypeOK
    OptionalsFromNearest
\* The node may end, and the CPMs are bounded.
CHECK_DEADLOCK FALSE
