SPECIFICATION Spec
CONSTANTS
    Orders = {o1, o2}
    Traders = {ins, t1}
    Insurance = ins
    Prices = {1, 2}
    FairPrices = {1, 2}
    Sizes = {1, 2}
    LiquidationSizes = {}
    RouterActive = FALSE
    Percents = {100}
    OrderTypes = {"limit", "market", "stop_limit", "stop_market"}
    TimesInForce = {"ioc", "fok", "post_only"}
    BuyRatio = 100
    SellRatio = 100
    TriggerBuyRatio = 150
    TriggerSellRatio = 100
    MaxNotional = 2
    MaxDependent = 1
    MaxConditional = 1
    MaxOldPosition = 0
    MaxSequence = 3
    Nil = Nil
SYMMETRY Symmetry
INVARIANTS
    TimeInForceHonoured
PROPERTIES
    RepairsComplete
