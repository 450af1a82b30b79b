CONSTANTS
    BaseCapital <- Capital
    Prices <- ThreePrices
    Requests <- RestingBuy
    Edits <- NoEdits
    MaxOrders = 2
    MaxPositionSize = 10
    MaxTradeValue = 1000000
    MaxOpenOrders = 50
    Handlers = {}
SPECIFICATION Spec
PROPERTIES FillUsesReservation
CHECK_DEADLOCK FALSE
