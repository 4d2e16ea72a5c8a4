SPECIFICATION Spec
CONSTANTS
    Orders = {o1, o2, o3}
    Traders = {ins, t1}
    Insurance = ins
    Prices = {1, 2}
    FairPrices = {1}
    Sizes = {1, 2}
    LiquidationSizes = {1, 2}
    RouterActive = TRUE
    Percents = {100}
    OrderTypes = {"limit"}
    TimesInForce = {"gtc"}
    BuyRatio = 100
    SellRatio = 100
    TriggerBuyRatio = 150
    TriggerSellRatio = 100
    MaxNotional = 10
    MaxDependent = 1
    MaxConditional = 1
    MaxOldPosition = 1
    MaxSequence = 3
    Nil = Nil
SYMMETRY Symmetry
INVARIANTS
    OpenInterestBalanced
