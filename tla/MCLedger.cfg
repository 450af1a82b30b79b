CONSTANTS
    BaseCapital <- Capital
    Prices <- TwoPrices
    Requests <- LedgerRequests
    Edits <- NoEdits
    MaxOrders = 4
    MaxPositionSize = 3
    MaxTradeValue = 1000000
    MaxOpenOrders = 50
    Handlers = {"summary", "kill"}
SPECIFICATION Spec
INVARIANTS PositionIsNetOfTransactions CashConserved CashNeverInvented
PROPERTIES KillSwitchFlattens
CHECK_DEADLOCK FALSE
