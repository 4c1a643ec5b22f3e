SPECIFICATION Spec
CONSTANTS
    VehicleTypes <- MCVehicleTypes
    OtherClasses <- MCOtherClasses
    Cpms <- MCCpms
    MaxMessages = 1
INVARIANTS
    ErrorsReturn
\* The node may end, and the CPMs are bounded.
CHECK_DEADLOCK FALSE
