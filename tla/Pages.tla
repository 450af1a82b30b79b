-------------------------------- MODULE Pages --------------------------------
(* The pages and the widgets of the browser application, one at a time: which  *)
(* one is mounted is chosen at the start, and what happens next is what that   *)
(* one does. They share the backend and the stores, not their own state, which *)
(* is made anew when the router mounts them.                                   *)
EXTENDS FormPages

CONSTANTS
    Turns, MaxNotices, MaxFills, MaxQuantity,
    Symbols, Periods, MAX_CANDLE_RETRIES,   \* of the charts
    ChartPeriods, Indicators, MaxForwardGap, MaxBars, MaxPrice, MaxTime,
    Contracts, Seeded, MaxSeeded,           \* of the derivative terminals
    ServerLists, LocalLists, Edited, MaxSends,  \* of the watchlists
    Chats, MaxMessages

Bar == INSTANCE Navbar
OpenLots == INSTANCE TradeLots
Chart == INSTANCE ChartData
Candles == INSTANCE LiveChart WITH Periods <- ChartPeriods
Lists == INSTANCE Watchlists
Mcx == INSTANCE Commodities WITH Default <- CHOOSE s \in Symbols : TRUE, MaxCalls <- 1
Market == INSTANCE Dashboards WITH Views <- Symbols, MaxQuestions <- MaxMessages,
                                   Frames <- Periods, First <- CHOOSE s \in Symbols : TRUE
Dashboard == INSTANCE Dashboards WITH Views <- Symbols, MaxQuestions <- MaxMessages, MaxCalls <- ManyCalls,
                                      Frames <- Periods, First <- CHOOSE s \in Symbols : TRUE
ContractLists == INSTANCE FuturesWatchlists WITH ListIds <- Accounts
Options == INSTANCE OptionsPage
Dock == INSTANCE StrategyDock
Mentor == INSTANCE MentorPage

Init ==
    \/ FormInit
    \/ /\ \/ page = "notices" /\ Bar!InitBell
          \/ page = "lots" /\ OpenLots!Init
          \/ page = "chart" /\ Chart!Init
          \/ page = "candles" /\ Candles!Init
          \/ page = "lists" /\ Lists!Init
          \/ page = "market" /\ Market!MarketInit
          \/ page = "commodities" /\ Mcx!Init
          \/ page = "search" /\ Bar!InitSearch
          \/ page = "dashboards" /\ Dashboard!Init
          \/ page = "contracts" /\ ContractLists!Init
          \/ page = "options" /\ Options!Init
          \/ page = "dock" /\ Dock!Init
          \/ page = "mentor" /\ Mentor!Init
          \/ page = "preferences" /\ Settings!InitPrefs
          \/ page = "feedback" /\ Reporting!WidgetInit
       /\ Other

WidgetNext ==
    /\ Other /\ UNCHANGED page
    /\ \/ page = "notices" /\ Bar!NextBell
       \/ page = "lots" /\ OpenLots!Next
       \/ page = "chart" /\ Chart!Next
       \/ page = "candles" /\ Candles!Next
       \/ page = "lists" /\ Lists!Next
       \/ page = "market" /\ Market!MarketNext
       \/ page = "commodities" /\ Mcx!Next
       \/ page = "search" /\ Bar!NextSearch
       \/ page = "dashboards" /\ Dashboard!Next
       \/ page = "contracts" /\ ContractLists!Next
       \/ page = "options" /\ Options!Next
       \/ page = "dock" /\ Dock!Next
       \/ page = "mentor" /\ Mentor!Next
       \/ page = "preferences" /\ Settings!NextPrefs
       \/ page = "feedback" /\ Reporting!WidgetNext

Next == FormNext \/ WidgetNext

Spec == Init /\ [][Next]_vars

-----------------------------------------------------------------------------
\* The state of every page has its type.
TypeOK ==
    CASE page = "session" -> Session!TypeOK
      [] page = "orders" -> OrderBook!TypeOK
      [] page = "ticket" -> Ticket!TypeOK
      [] page = "notices" -> Bar!BellOK
      [] page = "lots" -> OpenLots!TypeOK
      [] page = "chart" -> Chart!TypeOK
      [] page = "candles" -> Candles!TypeOK
      [] page = "lists" -> Lists!TypeOK
      [] page = "market" -> Market!MarketOK
      [] page = "commodities" -> Mcx!TypeOK
      [] page = "search" -> Bar!SearchOK
      [] page = "dashboards" -> Dashboard!TypeOK
      [] page = "futures" -> Futures!TypeOK
      [] page = "contracts" -> ContractLists!TypeOK
      [] page = "options" -> Options!TypeOK
      [] page = "algo" -> Algo!TypeOK
      [] page = "zeroloss" -> ZeroLoss!TypeOK
      [] page = "dock" -> Dock!TypeOK
      [] page = "mentor" -> Mentor!TypeOK
      [] page = "profile" -> Profile!TypeOK
      [] page = "capital" -> Settings!TypeOK
      [] page = "preferences" -> Settings!PrefsOK
      [] page = "feedback" -> Reporting!WidgetTypeOK
      [] page = "reports" -> Reporting!TypeOK
      [] page = "users" -> ManageUsers!TypeOK
      [] page = "groups" -> ManageGroups!GroupsOK
      [] page = "rosters" -> Rosters!TypeOK
      [] page = "institutions" -> Institutions!TypeOK
      [] page = "rootControl" -> Root!TypeOK
      [] page = "dataFeed" -> Feed!FeedOK
      [] page = "academy" -> Academy!TypeOK

\* No spinner and no disabled button outlives the calls it waits for: what a
\* page marks as busy (loading, saving, sending, placing) is undone by an
\* answer, a failure or a timer still to come.
NothingLocked ==
    CASE page = "session" -> Session!NothingLocked
      [] page = "orders" -> OrderBook!NothingLocked
      [] page = "ticket" -> Ticket!NothingLocked
      [] page = "lots" -> OpenLots!NothingLocked
      [] page = "chart" -> Chart!NothingLocked
      [] page = "candles" -> Candles!NothingLocked
      [] page = "lists" -> Lists!NothingLocked
      [] page = "market" -> Market!MarketNotLocked
      [] page = "commodities" -> Mcx!NothingLocked
      [] page = "search" -> Bar!SearchNotLocked
      [] page = "dashboards" -> Dashboard!NothingLocked
      [] page = "futures" -> Futures!NothingLocked
      [] page = "contracts" -> ContractLists!NothingLocked
      [] page = "options" -> Options!NothingLocked
      [] page = "algo" -> Algo!NothingLocked
      [] page = "zeroloss" -> ZeroLoss!NothingLocked
      [] page = "mentor" -> Mentor!NothingLocked
      [] page = "profile" -> Profile!NothingLocked
      [] page = "capital" -> Settings!NothingLocked
      [] page = "feedback" -> Reporting!WidgetNotLocked
      [] page = "reports" -> Reporting!NothingLocked
      [] page = "users" -> ManageUsers!NothingLocked
      [] page = "groups" -> ManageGroups!GroupsNotLocked
      [] page = "rosters" -> Rosters!NothingLocked
      [] page = "institutions" -> Institutions!NothingLocked
      [] page = "rootControl" -> Root!NothingLocked
      [] page = "dataFeed" -> Feed!FeedNotLocked
      [] page = "academy" -> Academy!NothingLocked
      [] OTHER -> TRUE

\* What the pages of orders and derivatives and the bell show and send is what it
\* claims to be: ShownIsTrue of each module says what that is.
OrdersShown ==
    CASE page = "orders" -> OrderBook!ShownIsTrue
      [] page = "ticket" -> Ticket!ShownIsTrue
      [] page = "notices" -> Bar!BellIsTrue
      [] page = "lots" -> OpenLots!ShownIsTrue
      [] page = "futures" -> Futures!ShownIsTrue
      [] page = "contracts" -> ContractLists!ShownIsTrue
      [] page = "options" -> Options!ShownIsTrue
      [] OTHER -> TRUE

\* The charts, the watchlists, the searches and the home pages show the symbol, the
\* list, the text and the view that are selected, in bars that are in order and
\* well formed and with quotes that no late answer takes back.
ChartsShown ==
    CASE page = "chart" -> Chart!ShownIsTrue
      [] page = "candles" -> Candles!ShownIsTrue
      [] page = "lists" -> Lists!ShownIsTrue
      [] page = "market" -> Market!MarketIsTrue
      [] page = "commodities" -> Mcx!ShownIsTrue
      [] page = "search" -> Bar!SearchIsTrue
      [] page = "dashboards" -> Dashboard!ShownIsTrue
      [] OTHER -> TRUE

\* The strategies and the mentor's conversations shown are those of the server
\* and of the question, and a market bias is that of the strategies behind it.
StrategiesShown ==
    CASE page = "algo" -> Algo!ShownIsTrue
      [] page = "zeroloss" -> ZeroLoss!ShownIsTrue
      [] page = "dock" -> Dock!ShownIsTrue
      [] page = "mentor" -> Mentor!ShownIsTrue
      [] OTHER -> TRUE

\* The account shown is the one that is signed in, with the settings it has.
AccountShown ==
    CASE page = "session" -> Session!ShownIsTrue
      [] page = "profile" -> Profile!ShownIsTrue
      [] page = "capital" -> Settings!ShownIsTrue
      [] page = "preferences" -> Settings!PrefsAreTrue
      [] page = "feedback" -> Reporting!WidgetIsTrue
      [] page = "reports" -> Reporting!ShownIsTrue
      [] OTHER -> TRUE

\* The lists of an administrator and of a teacher show what the last action left.
AdministrationShown ==
    CASE page = "users" -> ManageUsers!ShownIsTrue
      [] page = "groups" -> ManageGroups!GroupsAreTrue
      [] page = "rosters" -> Rosters!ShownIsTrue
      [] page = "institutions" -> Institutions!ShownIsTrue
      [] page = "rootControl" -> Root!ShownIsTrue
      [] page = "dataFeed" -> Feed!FeedIsTrue
      [] page = "academy" -> Academy!ShownIsTrue
      [] OTHER -> TRUE
================================================================================
