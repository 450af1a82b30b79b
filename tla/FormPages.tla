------------------------------ MODULE FormPages ------------------------------
(* The pages of the browser application that send something on behalf of the   *)
(* user: the session, the orders, the derivative and strategy terminals, the   *)
(* settings, the administration and the academy, one at a time.                *)
EXTENDS Naturals

CONSTANTS
    Accounts, Active, Admins,               \* who may sign in, is approved, administers
    Users, Normal, Group, Queries,          \* of the administration
    Tenants, Members, Reports, Students,
    Orders, MaxQty, MaxOrders,              \* of the orders
    Underlyings, First, MaxPosts,           \* of the futures terminal
    Strategies, Ranges, Photos,
    MaxCalls, ManyCalls                     \* calls of a page under way at the same time

VARIABLES
    page,       \* the page that is mounted
    ui          \* and its state

vars == <<page, ui>>

Session == INSTANCE SessionPages
OrderBook == INSTANCE OrdersPage
Ticket == INSTANCE OrderPanel
Futures == INSTANCE FuturesPage
Algo == INSTANCE AlgoPage
ZeroLoss == INSTANCE ZeroLossPage WITH MaxCalls <- ManyCalls
Profile == INSTANCE ProfileSettings
Settings == INSTANCE AccountSettings
Reporting == INSTANCE UserFeedback
ManageUsers == INSTANCE AdminAccounts WITH MaxCalls <- ManyCalls
ManageGroups == INSTANCE AdminAccounts
Rosters == INSTANCE AdminLists
Institutions == INSTANCE InstitutionsPage
Root == INSTANCE AdminForms WITH Users <- Accounts, MaxCalls <- ManyCalls
Feed == INSTANCE AdminForms WITH Users <- Accounts
Academy == INSTANCE AcademyPages

Forms ==
    {"session", "orders", "ticket", "futures", "algo", "zeroloss", "profile", "capital", "reports",
     "users", "groups", "rosters", "institutions", "rootControl", "dataFeed", "academy"}

FormInit ==
    \/ page = "session" /\ Session!Init
    \/ page = "orders" /\ OrderBook!Init
    \/ page = "ticket" /\ Ticket!Init
    \/ page = "futures" /\ Futures!Init
    \/ page = "algo" /\ Algo!Init
    \/ page = "zeroloss" /\ ZeroLoss!Init
    \/ page = "profile" /\ Profile!Init
    \/ page = "capital" /\ Settings!Init
    \/ page = "reports" /\ Reporting!Init
    \/ page = "users" /\ ManageUsers!Init
    \/ page = "groups" /\ ManageGroups!InitGroups
    \/ page = "rosters" /\ Rosters!Init
    \/ page = "institutions" /\ Institutions!Init
    \/ page = "rootControl" /\ Root!Init
    \/ page = "dataFeed" /\ Feed!FeedInit
    \/ page = "academy" /\ Academy!Init

FormNext ==
    /\ UNCHANGED page
    /\ \/ page = "session" /\ Session!Next
       \/ page = "orders" /\ OrderBook!Next
       \/ page = "ticket" /\ Ticket!Next
       \/ page = "futures" /\ Futures!Next
       \/ page = "algo" /\ Algo!Next
       \/ page = "zeroloss" /\ ZeroLoss!Next
       \/ page = "profile" /\ Profile!Next
       \/ page = "capital" /\ Settings!Next
       \/ page = "reports" /\ Reporting!Next
       \/ page = "users" /\ ManageUsers!Next
       \/ page = "groups" /\ ManageGroups!NextGroups
       \/ page = "rosters" /\ Rosters!Next
       \/ page = "institutions" /\ Institutions!Next
       \/ page = "rootControl" /\ Root!Next
       \/ page = "dataFeed" /\ Feed!FeedNext
       \/ page = "academy" /\ Academy!Next

\* Another page is mounted, and stays.
Other == page \notin Forms
FormSpec == (FormInit \/ Other) /\ [][FormNext \/ (Other /\ UNCHANGED page)]_vars

-----------------------------------------------------------------------------
\* A form is submitted once: while an order, a cancellation, a saved profile or
\* an administrator's action is under way, the same button sends no second one.
OneSubmission ==
    CASE page = "session" -> Session!OneSubmission
      [] page = "orders" -> OrderBook!OneSubmission
      [] page = "ticket" -> Ticket!OneSubmission
      [] page = "futures" -> Futures!OneSubmission
      [] page = "algo" -> Algo!OneSubmission
      [] page = "zeroloss" -> ZeroLoss!OneSubmission
      [] page = "profile" -> Profile!OneSubmission
      [] page = "capital" -> Settings!OneSubmission
      [] page = "reports" -> Reporting!OneSubmission
      [] page = "users" -> ManageUsers!OneSubmission
      [] page = "groups" -> ManageGroups!OneGroupSubmission
      [] page = "rosters" -> Rosters!OneSubmission
      [] page = "institutions" -> Institutions!OneSubmission
      [] page = "rootControl" -> Root!OneSubmission
      [] page = "dataFeed" -> Feed!OneConnection
      [] page = "academy" -> Academy!OneSubmission
      [] OTHER -> TRUE
================================================================================
