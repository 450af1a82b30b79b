CONSTANTS
    Accounts = {"a", "b"}
    Active = {"a"}
    Admins = {"a"}
    Users = {"x"}
    Normal = "n"
    Group = "g"
    Queries = {"q", "r"}
    Tenants = {"t", "v"}
    Members = {"m"}
    Reports = {"r", "s"}
    Students = {"s", "t"}
    Orders = {"A", "B"}
    MaxQty = 2
    MaxOrders = 2
    Turns = {"1", "2"}
    MaxNotices = 2
    MaxFills = 3
    MaxQuantity = 2
    Symbols = {"A", "B"}
    Periods = {"1d", "1m"}
    MAX_CANDLE_RETRIES = 2
    ChartPeriods = {"1m", "2m"}
    Indicators = {"ema9", "rsi14"}
    MaxForwardGap = 3
    MaxBars = 2
    MaxPrice = 6
    MaxTime = 2
    Underlyings = {"N", "T"}
    First = "N"
    MaxPosts = 2
    Contracts = {"S", "O"}
    Seeded = {"S"}
    MaxSeeded = 2
    ServerLists = {"W1", "W2"}
    LocalLists = {"idx"}
    Edited = {"W1"}
    MaxSends = 3
    Strategies = {"a"}
    Ranges = {"1W", "1M"}
    Photos = {"p", "q"}
    Chats = {"c1", "c2"}
    MaxMessages = 3
    MaxCalls = 2
    ManyCalls = 3
SPECIFICATION Spec
INVARIANTS TypeOK NothingLocked OneSubmission OrdersShown ChartsShown StrategiesShown AccountShown AdministrationShown
