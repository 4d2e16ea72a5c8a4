SPECIFICATION ServicesSpec
CONSTANTS
  wa = wa wb = wb tx1 = tx1 tx2 = tx2 ra = ra rb = rb ti = ti tj = tj ca = ca cb = cb
  alice = alice o1 = o1 o2 = o2
  Wallets = {wa, wb}
  Events = {1, 2, 3}
  EventOf <- SomeEvents
  DepositTxs = {tx1, tx2}
  DefaultFrom = 0
  DepositConfirmations = 1
  RangeBlocks = 0
  ChainEnd = 3
  MaxDepositFaults = 1
  FundingServices = {fs}
  FundingMarkets <- TwoMarkets
  FundingProfiles = {p, q}
  FundingRates = {0, 2}
  FundingLimit = 1
  MaxFundings = 2
  MaxFundingTrades = 1
  MaxFundingFaults = 1
  Debtors = {1, 2}
  MarginLevels = {1, 5}
  HeldAtStart = 1
  BatchLimit = 1
  MaxMargins = 1
  MarginAtStart <- LowAndSound
  MaxLiqFaults = 1
  TierProfiles = {1, 2}
  TierMarkets = {m1}
  MinVolume <- TierVolume
  TierVolumes = {0, 2}
  SpecialTier = 9
  Inviter <- InvitedByOne
  AffiliateTier <- AffiliateOfOne
  TierBatch = 1
  MaxTierChanges = 1
  MaxDialAttempts = 2
  MaxFeedFaults = 3
  ArchiveModes = {"live", "live-raw", "snapshot", "full-snapshot"}
  SpaceRows = {1, 2, 3, 4}
  Shard <- RowShard
  Chunk <- RowChunk
  SyncBatch = 2
  BatcherLimit = 9
  MaxWrites = 3
  MaxArchFaults = 1
  Referrers = {ra, rb}
  Traders = {ti}
  KolPercent <- Kol
  ReferralLevels <- Levels
  TradeKinds <- Kinds
  QueryRank <- InOrder
  MaxTrades = 2
  ReferralServices = {s1}
  MaxReferralFaults = 1
  Callers = {ca, cb}
  Plans <- OneOrTwo
  MarketId = "m1"
  MarketTitle = "m2"
  MaxBreaks = 1
  Orders = {o1, o2}
  Conditional = {}
  Profiles = {alice}
  Owner <- OneOwner
  Rank <- CancelsFirst
  TotalSize = 2
  MaxPuts = 3
  MaxDrops = 0
  MaxCrashes = 0
  Nil = Nil
PROPERTIES
    DepositsPaidOnce
    DepositsComplete
    FundingPaidExactlyOnce
    LiquidationsEndInFocus
    TiersEarned
    FeedKept
    ArchiveComplete
    ReferralsPaid
    CallsSound
    RequestsHonoured
CHECK_DEADLOCK FALSE
