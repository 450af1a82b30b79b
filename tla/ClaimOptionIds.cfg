SPECIFICATION Spec
CONSTANTS
    Legs = {"callBuy", "putBuy"}
    MaxOrders = 3
PROPERTY ClosesOne
