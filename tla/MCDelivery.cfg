CONSTANTS
    BaseCapital <- Capital
    Prices <- ThreePrices
    Requests <- DeliveryRequests
    Edits <- DeliveryEdits
    MaxOrders = 3
    MaxPositionSize = 3
    MaxTradeValue = 1000000
    MaxOpenOrders = 50
    Handlers = {"poll", "modify", "cancel", "expire"}
SPECIFICATION Spec
INVARIANTS TypeOK DeliveryNeverShort
CHECK_DEADLOCK FALSE
