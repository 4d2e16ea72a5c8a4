SPECIFICATION Spec
CONSTANTS
    Nil = Nil
    alice = alice
    bob = bob
    w1 = w1
    w2 = w2
    r1 = r1
    r2 = r2
    Profiles = {alice}
    WhiteList = {}
    Ids = {w1}
    Requests = {r1}
    Funds <- AliceOnly
    Amounts = {2}
    Tick = 1
    Tiers <- OneTier
    SpecialTiers = {}
    BlockDelay = 2
    Confirmations = 1
    MaxBlocks = 1
    MaxVolume = 9
    Never = 99
    TicksOverlap = TRUE
    LastBlock = 5
    MaxFaults = 0
    MaxLost = 0
INVARIANTS
    CursorCoversReceipts
