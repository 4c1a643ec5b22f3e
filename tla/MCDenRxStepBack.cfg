SPECIFICATION Spec
CONSTANTS
    Events <- MCEvents
    Times <- MCTimes
    Cooldowns <- MCCooldowns
    MaxIndications = 3
INVARIANT
    DefaultSuppressesNothing
