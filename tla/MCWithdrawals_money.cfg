SPECIFICATION Spec
CONSTANTS
    Nil = Nil
    alice = alice
    bob = bob
    w1 = w1
    w2 = w2
    r1 = r1
    r2 = r2
    Profiles = {alice}
    WhiteList = {}
    Ids = {w1, w2}
    Requests = {r1, r2}
    Funds <- Odd
    Amounts = {1, 3, 5}
    Tick = 2
    Tiers <- TwoTiers
    SpecialTiers <- Special
    BlockDelay = 2
    Confirmations = 1
    MaxBlocks = 1
    MaxVolume = 3
    Never = 99
    TicksOverlap = FALSE
    LastBlock = 3
    MaxFaults = 1
    MaxLost = 1
SYMMETRY Symmetry
INVARIANTS
    WithdrawalsSafe
    BalanceConserved
PROPERTIES
    WithdrawalsAdvance
CHECK_DEADLOCK FALSE
