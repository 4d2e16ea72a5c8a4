SPECIFICATION RequestsSpec
CONSTANTS
  s1 = s1 s2 = s2 t1 = t1 ra = ra rb = rb ti = ti tj = tj
  Stakers = {s1, s2}
  TheVault = vlt
  Treasurer = tr
  StakeTxs = {t1}
  StakeTx <- OneStakeTx
  VaultRequests = {r1, r2}
  Unstakes = {1, 2}
  StakeFunds <- FundsOfOne
  StakeAmounts = {4}
  ShareAmounts = {2}
  Profits = {0, 2}
  FeePercent = 50
  MaxVaultCalls = 3
  NoRow = none
  Holders = {h1, h2, h3}
  Claims = {1, 2}
  YieldAmount <- TwoClaims
  CachedBalances = {0, 1, 2}
  Chunk = 1
  StartGas = 1
  GasEnough = 4
  MaxYieldFaults = 3
  Winners = {w1, w2, w3}
  WinningSizes = {1, 2, 3, 5}
  InsuranceSizes = {2, 5, 8}
  MinOrder = 2
  Titles <- TwoTitles
  TotalRewards <- Rewards
  ClaimableFirst <- FirstRewards
  AirdropVolume <- VolumeThen
  Visits = {v1, v2}
  MaxFilled = 2
  MaxVisits = 3
  MaxClaimOps = 3
  PriceSources = {"s1", "s2", "s3"}
  ReceiptAge <- ThreeSources
  SoundSources = {"s1", "s2"}
  PriceLevels = {376, 420}
  ReportError = 4
  MaxUseAge = 1
  MaxRejectedRun = 1
  MaxPriceFaults = 1
  Wallets = {1}
  ApiKeys = {k1, k2}
  SessionRequests = {r1, r2}
  MaxSecrets = 1
  SignatureLifetime = 1
  JwtLifetime = 1
  RefreshLifetime = 2
  KeyLifetimes = {0}
  LongLife = 1
  MaxSeconds = 3
  MaxSessionCalls = 3
  SlipOrders = {o1, o2, o3}
  SlipPrices = {1, 2}
  FiresBelow = {o3}
  MaxSlipNodes = 6
  MaxSlipChanges = 3
  Referrers = {ra, rb}
  Traders = {ti}
  KolPercent <- Kol
  ReferralLevels <- Levels
  TradeKinds <- OneKind
  QueryRank <- InOrder
  MaxTrades = 2
  ReferralServices = {s1, s2}
  MaxReferralFaults = 0
  Debtors = {1}
  MarginLevels = {1, 5}
  HeldAtStart = 1
  BatchLimit = 1
  MaxMargins = 2
  MarginAtStart <- LowMargin
  MaxLiqFaults = 1
  DmProfiles = {s1, s2}
  DmOrders = {2}
  DmOwner <- OwnerIsFirst
  DmMarkets = {1, 2}
  DmMarket <- SecondMarket
  DmTimeouts = {1, 3}
  DefaultSleep = 2
  MaxDmTime = 4
  MaxDmRequests = 3
  MaxDmRestarts = 1
INVARIANTS
    ClawFair
    ClaimsLimited
    SessionsAgree
    PlacedAreWatched
    SharedAndPaidOnce
    
PROPERTIES
    VaultAccounts
    YieldPaid
    IndexResists
    
CHECK_DEADLOCK FALSE
