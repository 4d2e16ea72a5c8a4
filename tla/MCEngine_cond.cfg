SPECIFICATION Spec
CONSTANTS
    Orders = {o1, o2, o3}
    Traders = {ins, t1}
    Insurance = ins
    Prices = {1, 2}
    FairPrices = {1, 2}
    Sizes = {2}
    LiquidationSizes = {}
    RouterActive = FALSE
    Percents = {50}
    OrderTypes = {"limit", "stop_loss", "take_profit_limit"}
    TimesInForce = {"gtc"}
    BuyRatio = 100
    SellRatio = 100
    TriggerBuyRatio = 150
    TriggerSellRatio = 100
    MaxNotional = 4
    MaxDependent = 1
    MaxConditional = 1
    MaxOldPosition = 1
    MaxSequence = 3
    Nil = Nil
SYMMETRY Symmetry
INVARIANTS
    ConditionalLimits
PROPERTIES
    TradesCancelStale FinalOrdersStay
