CONSTANTS
    One = 10
    Word = 16
    Incentives = 4
    Circulating = 4
    Inflations = {0, 4}
    GenesisParams <- Yearly
    ParamsProposed <- Proposed
    Funder = {"daoAccount"}
    Restarts = TRUE
    MaxSupply = 8
SPECIFICATION Spec
INVARIANTS
    TypeOK
PROPERTIES
    PayoutsBounded
    FloorPaid
    RateChangesSlowly
    IncentivesPaidOut
CHECK_DEADLOCK FALSE
