CONSTANTS
    BaseCapital <- Capital
    Prices <- ThreePrices
    Requests <- BracketRequests
    Edits <- BracketEdits
    MaxOrders = 5
    MaxPositionSize = 3
    MaxTradeValue = 1000000
    MaxOpenOrders = 50
    Handlers = {"poll", "modify"}
SPECIFICATION Spec
INVARIANTS OneLegFills
PROPERTIES ExitsOnlyReduce
CHECK_DEADLOCK FALSE
