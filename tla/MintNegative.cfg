CONSTANTS
    One = 10
    Word = 16
    Incentives = 5
    Circulating = 6
    Inflations = {4}
    GenesisParams <- Negative
    ParamsProposed = {}
    Funder = {"daoAccount"}
    Restarts = FALSE
    MaxSupply = 13
SPECIFICATION Spec
INVARIANTS
    MinterValid
