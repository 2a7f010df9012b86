CONSTANTS
    alice = alice
    bob = bob
    rly1 = rly1
    rly2 = rly2
    Addr = {alice}
    DelegateBoundary <- TwoBlocks
    RedelegateBoundary <- ThreeBlocks
    Txs <- SingleTxs
    Relayer = {}
    UpgradeLists <- NoList
    AnteTxs <- StakingOnly
    Restarts = FALSE
SPECIFICATION AnteSpec
INVARIANTS
    WithinRate
