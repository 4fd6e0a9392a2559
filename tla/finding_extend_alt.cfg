\* extend-alt.ts takes every table for a deactivated one: an active one's deactivationSlot is not
\* undefined. The scripts' runs are bounded, so the instance may stop.
SPECIFICATION MCSpec
CONSTANTS
    Symbols = {"dai", "usdt"}  old = old  Mints = {old, new1, new2}  NoMint = NoMint
    CommittedFiles <- MCCommitted  ClusterMints = {old}  MaxSupply = 2
    Labels = {"main"}  NoTable = NoTable  MaxAttempts = 2  MaxSlot = 2  MaxStarts = 3  MaxHelperStarts = 0
    Questions = {"upkeep"}
INVARIANT RefusesOnlyDeactivated
CHECK_DEADLOCK FALSE
