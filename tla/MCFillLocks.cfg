CONSTANTS
    Procs = {p1, p2, p3}
    NoProc = NoProc
    PlaceQty = 2  PlaceCost = 20
    RestQty = 1   RestCost = 10
    Reserved = 7
    ClosePrice = 10
    Capital = 100
SPECIFICATION FairSpec
INVARIANTS TypeOK NoLostHolding SecondFillIsAPoll CapitalExact OnlyPollDeadlocks
PROPERTIES FinishWithoutPoll
CHECK_DEADLOCK FALSE
