SPECIFICATION ServedSpec
CONSTANTS
  alice = alice bob = bob w1 = w1 w2 = w2 r1 = r1 r2 = r2
  wa = wa wb = wb wc = wc ra = ra rb = rb n1 = n1 n2 = n2 n3 = n3
  abc = abc ABC = ABC xyz = xyz g1 = g1 g2 = g2
  Nil = Nil
  Profiles = {alice}
  WhiteList = {}
  Ids = {w1}
  Requests = {r1}
  Funds <- AliceOnly
  Amounts = {2}
  Tick = 1
  Tiers <- OneTier
  SpecialTiers = {}
  BlockDelay = 2
  Confirmations = 1
  MaxBlocks = 1
  MaxVolume = 9
  Never = 99
  TicksOverlap = FALSE
  LastBlock = 4
  MaxFaults = 1
  MaxLost = 0
  Gamers = {g1, g2}
  Uploads = {u1, u2}
  BlastPosts <- BlastFiles
  BfxPosts <- BfxFiles
  PostLimit = 2
  VolumeSteps <- OneStep
  MaxTraded = 1
  MaxUploads = 2
  NoAssets = NoAssets
  PointWallets = {wa, wb}
  PointContracts = 2
  PointBatches = {1, 2, 3}
  BatchData <- ThreeBatches
  PageSize = 1
  MaxPointFaults = 1
  Inviters = {ra, rb}
  Newcomers = {n1}
  OnboardRequests = {"q1", "q2"}
  CodeTexts = {abc, ABC, xyz}
  InLower <- Lowered
  MaxEdits = 2
  NoCode = NoCode
  Ranked = {wa, wb, wc}
  ExchangeOf <- OnTwoExchanges
  InvitedOf <- OneInvitedEach
  BoardExchanges <- TwoExchanges
  BoardPeriods <- TwoPeriods
  MaxBoardFills = 2
  MaxBoardFaults = 1
  NoRank = NoRank
  StreamClients = {c1}
  BookLevels = {1, 2}
  LevelSizes = {0, 1}
  StreamMarkets <- TwoMarkets
  MaxStreamSeq = 3
  MaxStreamFaults = 1
  ListRows = {1, 2, 3}
  ListKeys = {1, 2, 3}
  PageLimit = 1
  MaxListChanges = 1
  MaxListFaults = 1
INVARIANTS
    CursorCoversReceipts
    PagesComplete
PROPERTIES
    WithdrawalsServed
    PostsSettle
    PointsRight
    InvitedRight
    BoardsRightInFocus
    StreamsRight
CHECK_DEADLOCK FALSE
