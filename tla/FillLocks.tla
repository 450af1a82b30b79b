------------------------------- MODULE FillLocks -------------------------------
(***************************************************************************)
(* Handlers of one user that run concurrently on one resting BUY order and *)
(* one holding, at the granularity of their awaits, on PostgreSQL.  Three  *)
(* locks are involved: the portfolio row (SELECT ... FOR UPDATE) and the   *)
(* order row (taken when a changed order is flushed), both released by     *)
(* commit or rollback, and the in-process asyncio.Lock of                  *)
(* _update_portfolio_on_fill, held only inside that function.              *)
(*                                                                         *)
(*   "place"   place_order of a MARKET order: portfolio row, asyncio lock; *)
(*   "tick"    order worker, filling the resting order: reads the order,   *)
(*             portfolio row, asyncio lock, order row;                     *)
(*   "poll"    check_pending_orders of GET /orders: reads order and        *)
(*             portfolio without a lock, asyncio lock, order row (the      *)
(*             session flushes before it selects), portfolio row;          *)
(*   "cancel"  cancel_order: reads the order, order row (flushed before    *)
(*             the portfolio is read without a lock), and at commit the    *)
(*             portfolio row;                                              *)
(*   "kill"    POST /orders/close-all: loads the portfolio, reads the      *)
(*             order, cancels it like "cancel" (a commit of its own), then *)
(*             reads the holding, all without a lock, and closes it by a   *)
(*             placement: portfolio row, asyncio lock.                     *)
(*                                                                         *)
(* The event bus hands the worker one price after another, so of several   *)
(* ticks one runs at a time; everything else overlaps freely.  No handler  *)
(* looks at the order's status again after its first read.                 *)
(*                                                                         *)
(* A session keeps what it has loaded (the ORM identity map is not         *)
(* refreshed by FOR UPDATE), so cache[p] is what process p computes with.  *)
(* PostgreSQL aborts one of two transactions that wait for each other's    *)
(* rows; it knows nothing of the asyncio lock.                             *)
(***************************************************************************)
EXTENDS Integers

CONSTANTS Procs,               \* concurrent handlers
          NoProc,
          PlaceQty, PlaceCost, \* signed quantity and debit of a placed order
          RestQty, RestCost,   \* the same for the resting order
          Reserved,            \* what the resting order reserved
          ClosePrice,          \* price at which the kill switch closes
          Capital              \* available_capital at the start

ASSUME LocksAssumption ==
    /\ NoProc \notin Procs
    /\ {PlaceQty, PlaceCost, RestQty, RestCost, Reserved, ClosePrice, Capital}
        \subseteq Int

Roles == {"place", "tick", "poll", "cancel", "kill"}
Pcs == {"start", "loaded", "read", "locked", "cancelled", "counted", "selling",
        "inmem", "flushed", "update", "dirty", "done"}
Statuses == {"OPEN", "FILLED", "CANCELLED"}

VARIABLES role,    \* what each handler does
          pc,      \* how far it is
          row,     \* holder of the portfolio row lock
          orow,    \* holder of the order row lock
          mem,     \* holder of the asyncio lock
          cache,   \* what its session has loaded: avail and hold, and what a
                   \* kill switch trades to close that
          status,  \* committed status of the resting order
          avail,   \* committed available_capital
          hold,    \* committed quantity of the holding
          net,     \* signed sum of the committed transactions
          filled,  \* handlers that have committed a fill of the resting order
          due,     \* available_capital if every change had been added up
          old,     \* whose loaded capital, whose loaded holding is out of date
          lost     \* what has been written back from such a copy

account == <<status, avail, hold, net, filled, due, lost>>
vars == <<role, pc, row, orow, mem, cache, account, old>>

Columns == {"capital", "holding"}

Qty(p)  == CASE role[p] = "place" -> PlaceQty
             [] role[p] = "kill" -> cache[p].qty
             [] OTHER -> RestQty
Cost(p) == CASE role[p] = "place" -> PlaceCost
             [] role[p] = "kill" -> cache[p].qty * ClosePrice
             [] OTHER -> RestCost

Init ==
    /\ role \in [Procs -> Roles]
    /\ pc = [p \in Procs |-> "start"]
    /\ row = NoProc /\ orow = NoProc /\ mem = NoProc
    /\ cache = [p \in Procs |-> [avail |-> 0, hold |-> 0, qty |-> 0]]
    /\ status = "OPEN"
    /\ avail = Capital /\ due = Capital
    /\ hold = 0 /\ net = 0 /\ filled = {}
    /\ old = [c \in Columns |-> {}] /\ lost = {}

\* What each step waits for: its turn in the handler, and a lock.
MayLoadPortfolio(p) == role[p] = "kill" /\ pc[p] = "start"
MayReadOrder(p) ==
    /\ \/ role[p] \in {"tick", "poll", "cancel"} /\ pc[p] = "start"
       \/ role[p] = "kill" /\ pc[p] = "loaded"
    /\ role[p] = "tick" => \A q \in Procs : role[q] = "tick" => pc[q] \in {"start", "done"}
MayReadUnlocked(p) == role[p] = "poll" /\ pc[p] = "read"
MayLockPortfolio(p) == /\ \/ role[p] = "place" /\ pc[p] = "start"
                          \/ role[p] = "tick" /\ pc[p] = "read"
                       /\ row = NoProc
MayLockToClose(p) == pc[p] = "counted" /\ row = NoProc
MayFlushCancel(p) == role[p] \in {"cancel", "kill"} /\ pc[p] = "read" /\ orow = NoProc
MayEnterUpdate(p) == /\ \/ role[p] \in {"place", "tick", "poll"} /\ pc[p] = "locked"
                        \/ pc[p] = "selling"
                     /\ mem = NoProc
MayFlushOrder(p) == role[p] \in {"tick", "poll"} /\ pc[p] = "inmem" /\ orow = NoProc
MayLockInUpdate(p) == /\ pc[p] = IF role[p] \in {"place", "kill"} THEN "inmem" ELSE "flushed"
                      /\ row \in {NoProc, p}
MayCommitCancel(p) == role[p] \in {"cancel", "kill"} /\ pc[p] = "locked" /\ row = NoProc

\* Loading makes the copy of p the committed value; a commit of p leaves every
\* other copy behind.
Loads(p, columns) == old' = [c \in Columns |-> IF c \in columns THEN old[c] \ {p} ELSE old[c]]
Writes(p, columns) ==
    /\ old' = [c \in Columns |-> IF c \in columns THEN (old[c] \cup Procs) \ {p} ELSE old[c]]
    /\ lost' = lost \cup {c \in columns : p \in old[c]}

\* close-all begins by loading the portfolio.
LoadPortfolio(p) ==
    /\ MayLoadPortfolio(p)
    /\ cache' = [cache EXCEPT ![p].avail = avail]
    /\ Loads(p, {"capital"})
    /\ pc' = [pc EXCEPT ![p] = "loaded"]
    /\ UNCHANGED <<role, row, orow, mem, account>>

\* Mutant of ReadOrder: without the condition on the status.
ReadAnyOrder(p) ==
    /\ MayReadOrder(p)
    /\ pc' = [pc EXCEPT ![p] = "read"]
    /\ UNCHANGED <<role, row, orow, mem, cache, account, old>>

\* select(Order) of tick, poll, cancel and kill, without a lock; with an order that
\* is not OPEN a kill goes on to the holdings and the others are done.
ReadOrder(p) ==
    /\ MayReadOrder(p)
    /\ pc' = [pc EXCEPT ![p] = IF status = "OPEN" THEN "read"
                               ELSE IF role[p] = "kill" THEN "cancelled" ELSE "done"]
    /\ UNCHANGED <<role, row, orow, mem, cache, account, old>>

\* Mutant of LockPortfolio: SELECT without FOR UPDATE.
ReadPortfolioUnlocked(p) ==
    /\ \/ role[p] = "place" /\ pc[p] = "start"
       \/ role[p] = "tick" /\ pc[p] = "read"
    /\ cache' = [cache EXCEPT ![p] = [avail |-> avail, hold |-> hold, qty |-> 0]]
    /\ Loads(p, Columns)
    /\ pc' = [pc EXCEPT ![p] = "locked"]
    /\ UNCHANGED <<role, row, orow, mem, account>>

\* place_order and the worker load portfolio and holding FOR UPDATE.
LockPortfolio(p) ==
    /\ MayLockPortfolio(p)
    /\ row' = p
    /\ cache' = [cache EXCEPT ![p] = [avail |-> avail, hold |-> hold, qty |-> 0]]
    /\ Loads(p, Columns)
    /\ pc' = [pc EXCEPT ![p] = "locked"]
    /\ UNCHANGED <<role, orow, mem, account>>

\* The same SELECT in close_net_holding's placement: the rows are locked, what the
\* session has loaded of them before stays.
LockToClose(p) ==
    /\ MayLockToClose(p)
    /\ row' = p
    /\ pc' = [pc EXCEPT ![p] = "selling"]
    /\ UNCHANGED <<role, orow, mem, cache, account, old>>

\* poll loads the portfolio as it is.  So does cancel (a kill has loaded it), but
\* the changed order is flushed first and has to wait for the order row.
ReadPortfolio(p) ==
    /\ MayReadUnlocked(p) \/ MayFlushCancel(p)
    /\ orow' = IF role[p] = "poll" THEN orow ELSE p
    /\ IF role[p] = "kill"
       THEN UNCHANGED <<cache, old>>
       ELSE /\ cache' = [cache EXCEPT ![p].avail = avail]
            /\ Loads(p, {"capital"})
    /\ pc' = [pc EXCEPT ![p] = "locked"]
    /\ UNCHANGED <<role, row, mem, account>>

\* async with _get_holding_update_lock(...)
EnterUpdate(p) ==
    /\ MayEnterUpdate(p)
    /\ mem' = p
    /\ pc' = [pc EXCEPT ![p] = "inmem"]
    /\ UNCHANGED <<role, row, orow, cache, account, old>>

\* The order that tick and poll have set to FILLED is flushed by the first query
\* inside.
FlushOrder(p) ==
    /\ MayFlushOrder(p)
    /\ orow' = p
    /\ pc' = [pc EXCEPT ![p] = "flushed"]
    /\ UNCHANGED <<role, row, mem, cache, account, old>>

\* SELECT Portfolio.id FOR UPDATE inside: re-entrant for who has the row, and
\* the holding is loaded now if it was not before.
LockInUpdate(p) ==
    /\ MayLockInUpdate(p)
    /\ row' = p
    /\ IF role[p] = "poll"
       THEN /\ cache' = [cache EXCEPT ![p].hold = hold]
            /\ Loads(p, {"holding"})
       ELSE UNCHANGED <<cache, old>>
    /\ pc' = [pc EXCEPT ![p] = "update"]
    /\ UNCHANGED <<role, orow, mem, account>>

\* Mutant of ApplyFill: the asyncio lock is not released.
ApplyFillKeepingLock(p) ==
    /\ pc[p] = "update"
    /\ cache' = [cache EXCEPT ![p] = [avail |-> @.avail - Cost(p),
                                      hold  |-> @.hold + Qty(p), qty |-> @.qty]]
    /\ pc' = [pc EXCEPT ![p] = "dirty"]
    /\ UNCHANGED <<role, row, orow, mem, account, old>>

\* Holding, capital and transaction are changed in the session; the asyncio
\* lock is released, the row lock is kept.
ApplyFill(p) ==
    /\ pc[p] = "update"
    /\ cache' = [cache EXCEPT ![p] = [avail |-> @.avail - Cost(p),
                                      hold  |-> @.hold + Qty(p), qty |-> @.qty]]
    /\ mem' = NoProc
    /\ pc' = [pc EXCEPT ![p] = "dirty"]
    /\ UNCHANGED <<role, row, orow, account, old>>

Booked(p) ==
    /\ avail' = cache[p].avail /\ hold' = cache[p].hold
    /\ net' = net + Qty(p) /\ due' = due - Cost(p)
    /\ Writes(p, Columns)
    /\ IF role[p] \in {"tick", "poll"}
       THEN status' = "FILLED" /\ filled' = filled \cup {p}
       ELSE UNCHANGED <<status, filled>>

\* Mutant of CommitFill: the transaction is left open.
CommitFillKeepingRow(p) ==
    /\ pc[p] = "dirty"
    /\ Booked(p)
    /\ pc' = [pc EXCEPT ![p] = "done"]
    /\ UNCHANGED <<role, row, orow, mem, cache>>

\* The handler's commit writes everything and releases the row lock.
CommitFill(p) ==
    /\ pc[p] = "dirty"
    /\ Booked(p)
    /\ row' = NoProc
    /\ orow' = IF orow = p THEN NoProc ELSE orow
    /\ pc' = [pc EXCEPT ![p] = "done"]
    /\ UNCHANGED <<role, mem, cache>>

\* Mutant of CommitCancel: a misspelt status.
CommitCancelMisspelt(p) ==
    /\ MayCommitCancel(p)
    /\ status' = "CANCELED"
    /\ avail' = cache[p].avail + Reserved /\ due' = due + Reserved
    /\ Writes(p, {"capital"})
    /\ orow' = NoProc
    /\ pc' = [pc EXCEPT ![p] = "done"]
    /\ UNCHANGED <<role, row, mem, cache, hold, net, filled>>

\* The UPDATE of the portfolio waits for whoever has its row.  The session of a
\* kill lives on with what it has just written.
CommitCancel(p) ==
    /\ MayCommitCancel(p)
    /\ status' = "CANCELLED"
    /\ avail' = cache[p].avail + Reserved /\ due' = due + Reserved
    /\ Writes(p, {"capital"})
    /\ cache' = [cache EXCEPT ![p].avail = @ + Reserved]
    /\ orow' = NoProc
    /\ pc' = [pc EXCEPT ![p] = IF role[p] = "kill" THEN "cancelled" ELSE "done"]
    /\ UNCHANGED <<role, row, mem, hold, net, filled>>

\* The kill switch reads what is held; nothing held ends it.
ReadHoldings(p) ==
    /\ pc[p] = "cancelled"
    /\ cache' = [cache EXCEPT ![p] = [avail |-> @.avail, hold |-> hold, qty |-> -hold]]
    /\ Loads(p, {"holding"})
    /\ pc' = [pc EXCEPT ![p] = IF hold = 0 THEN "done" ELSE "counted"]
    /\ UNCHANGED <<role, row, orow, mem, account>>

WantsRow(p) == \/ role[p] \in {"cancel", "kill"} /\ pc[p] = "locked"
               \/ role[p] = "poll" /\ pc[p] = "flushed"
WantsOrderRow(p) == \/ role[p] \in {"cancel", "kill"} /\ pc[p] = "read"
                    \/ role[p] \in {"tick", "poll"} /\ pc[p] = "inmem"
WaitsForRowOf(p, q) == (WantsRow(p) /\ row = q) \/ (WantsOrderRow(p) /\ orow = q)
InRowCycle(p) == \E q \in Procs \ {p} : WaitsForRowOf(p, q) /\ WaitsForRowOf(q, p)

\* PostgreSQL ends one of two transactions that wait for each other; the handler
\* rolls back and leaves the asyncio lock.
AbortDeadlocked(p) ==
    /\ InRowCycle(p)
    /\ row' = IF row = p THEN NoProc ELSE row
    /\ orow' = IF orow = p THEN NoProc ELSE orow
    /\ mem' = IF mem = p THEN NoProc ELSE mem
    /\ pc' = [pc EXCEPT ![p] = "done"]
    /\ UNCHANGED <<role, cache, account, old>>

Step(p) == \/ LoadPortfolio(p) \/ ReadOrder(p) \/ LockPortfolio(p) \/ ReadPortfolio(p)
           \/ LockToClose(p) \/ EnterUpdate(p) \/ FlushOrder(p) \/ LockInUpdate(p)
           \/ ApplyFill(p) \/ CommitFill(p) \/ CommitCancel(p) \/ ReadHoldings(p)
           \/ AbortDeadlocked(p)

Next == \E p \in Procs : Step(p)

\* Each handler is a task the event loop keeps running.
Fairness == \A p \in Procs : WF_vars(Step(p))
Spec == Init /\ [][Next]_vars
FairSpec == Spec /\ Fairness

--------------------------------------------------------------------------------
\* Every variable has its type.
TypeOK ==
    /\ role \in [Procs -> Roles] /\ pc \in [Procs -> Pcs]
    /\ {row, orow, mem} \subseteq Procs \cup {NoProc}
    /\ cache \in [Procs -> [avail : Int, hold : Int, qty : Int]]
    /\ status \in Statuses /\ filled \subseteq Procs
    /\ avail \in Int /\ hold \in Int /\ net \in Int /\ due \in Int
    /\ old \in [Columns -> SUBSET Procs] /\ lost \subseteq Columns

\* The holding is the sum of the committed transactions: no placement, tick or
\* GET /orders computes it from a quantity another handler has changed since.  Only
\* the kill switch may, which reads the holdings before it has their lock: a fill
\* committed in between is then lost.
NoLostHolding ==
    /\ hold # net => "holding" \in lost
    /\ "holding" \in lost => \E p \in Procs : role[p] = "kill" /\ pc[p] = "done"

\* An order that is filled twice, or filled although cancelled, was filled by
\* handlers that had read it OPEN before; the worker's ticks alone never do it
\* twice, and nobody finds an order OPEN that has been filled, whatever a cancel or
\* a GET /orders has committed over it meanwhile.
SecondFillIsAPoll ==
    /\ filled # {} => status # "OPEN"
    /\ \A p, q \in filled : p # q => "poll" \in {role[p], role[q]}

\* p loads the portfolio without a lock and has committed at least once.
HasWrittenBlind(p) ==
    \/ role[p] \in {"poll", "cancel"} /\ pc[p] = "done"
    \/ role[p] = "kill" /\ pc[p] \in {"cancelled", "counted", "selling", "inmem",
                                     "update", "dirty", "done"}

\* available_capital is exact unless a handler that loaded the portfolio without
\* a lock (GET /orders, cancel, the kill switch) was overtaken by another one's
\* commit and has then written its own value.
CapitalExact ==
    /\ avail # due => "capital" \in lost
    /\ "capital" \in lost => \E p \in Procs : HasWrittenBlind(p)

\* p has a step to take: its next statement is not waiting for anybody, or the
\* database ends it.
CanStep(p) == \/ MayLoadPortfolio(p) \/ MayReadOrder(p) \/ MayReadUnlocked(p)
              \/ MayLockPortfolio(p) \/ MayLockToClose(p) \/ MayFlushCancel(p)
              \/ MayEnterUpdate(p) \/ MayFlushOrder(p) \/ MayLockInUpdate(p)
              \/ MayCommitCancel(p) \/ pc[p] \in {"update", "dirty", "cancelled"}
              \/ InRowCycle(p)

Stuck == /\ \E p \in Procs : pc[p] # "done"
         /\ \A p \in Procs : ~CanStep(p)

\* The only way the handlers of a user can block each other for good: a
\* GET /orders has the asyncio lock and waits for a row, and the holder of the
\* portfolio row waits for the asyncio lock.
OnlyPollDeadlocks ==
    Stuck => \E p, q \in Procs :
                /\ role[p] = "poll" /\ mem = p /\ pc[p] \in {"inmem", "flushed"}
                /\ role[q] \in {"place", "tick", "kill"} /\ row = q
                /\ pc[q] \in {"locked", "selling"}

\* Without GET /orders every placement, tick, cancel and kill switch finishes: a
\* cancel and a tick that take the two rows in opposite order are told apart by the
\* database.
FinishWithoutPoll ==
    (\A p \in Procs : role[p] # "poll") ~> (\A p \in Procs : pc[p] = "done")
================================================================================
