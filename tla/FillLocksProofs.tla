---------------------------- MODULE FillLocksProofs ----------------------------
(***************************************************************************)
(* FillLocks for any number of concurrent handlers and any quantities,     *)
(* costs and capital.  The invariants hold because the row lock spans      *)
(* reading and committing: who has passed the point where it takes the     *)
(* row is its only holder, and its cached values are the committed ones    *)
(* (plus its own change once the fill is applied).  A standstill is traced *)
(* from the portfolio row: who has it can only wait for the asyncio lock,  *)
(* and only a poll can have that one without the row.                      *)
(***************************************************************************)
EXTENDS FillLocks, TLAPS

\* Which points of which handlers there are.
Points ==
    \A p \in Procs :
        /\ pc[p] \in {"loaded", "cancelled", "counted", "selling"} => role[p] = "kill"
        /\ pc[p] \in {"inmem", "update", "dirty"} => role[p] # "cancel"
        /\ pc[p] = "flushed" => role[p] \in {"tick", "poll"}
        /\ pc[p] = "read" => role[p] # "place"

\* p has taken the row lock of the portfolio and not yet committed.
HasRow(p) ==
    \/ pc[p] \in {"selling", "update", "dirty"}
    \/ role[p] \in {"place", "tick"} /\ pc[p] \in {"locked", "inmem", "flushed"}
    \/ role[p] = "kill" /\ pc[p] = "inmem"

RowExclusive == \A p \in Procs : HasRow(p) => row = p

\* Who loads behind the row lock works on the committed values.
LockedLoadsFresh ==
    \A p \in Procs : HasRow(p) =>
        /\ role[p] # "kill" => p \notin old["holding"]
        /\ role[p] \in {"place", "tick"} => p \notin old["capital"]

HasHolding(p) == HasRow(p) \/ pc[p] = "counted"
HasCapital(p) == \/ pc[p] \notin {"start", "read", "done"}
                 \/ role[p] = "kill" /\ pc[p] = "read"

\* A copy that no commit has overtaken is the committed value, but for the fill
\* that is applied to it already.
CopiesFresh ==
    \A p \in Procs :
        /\ HasHolding(p) /\ p \notin old["holding"] =>
               cache[p].hold = IF pc[p] = "dirty" THEN hold + Qty(p) ELSE hold
        /\ HasCapital(p) /\ p \notin old["capital"] =>
               cache[p].avail = IF pc[p] = "dirty" THEN avail - Cost(p) ELSE avail

IInv == /\ TypeOK /\ Points /\ RowExclusive /\ LockedLoadsFresh /\ CopiesFresh
        /\ NoLostHolding /\ CapitalExact

\* Quantities and costs are integers, whatever the role of the handler.
LEMMA AmountsAreIntegers ==
    ASSUME TypeOK, NEW p \in Procs PROVE Qty(p) \in Int /\ Cost(p) \in Int
<1>1. cache[p].qty \in Int /\ ClosePrice \in Int /\ {PlaceQty, PlaceCost, RestQty, RestCost} \subseteq Int
    BY LocksAssumption DEF TypeOK
<1>2. cache[p].qty * ClosePrice \in Int
    BY <1>1
<1> QED
    BY <1>1, <1>2 DEF Qty, Cost

\* Nobody has the row, nothing is cached and nothing has been traded at first.
LEMMA InitEstablishes == Init => IInv
BY LocksAssumption
   DEF Init, IInv, TypeOK, Points, RowExclusive, LockedLoadsFresh, CopiesFresh, NoLostHolding,
       CapitalExact, HasRow, HasHolding, HasCapital, Roles, Pcs, Statuses, Columns

\* The columns that a load or a commit of p touches.
LEMMA LoadsOld ==
    ASSUME TypeOK, NEW p \in Procs, NEW S \in SUBSET Columns, Loads(p, S)
    PROVE  /\ old' \in [Columns -> SUBSET Procs]
           /\ \A c \in S : p \notin old'[c]
           /\ \A c \in Columns, q \in Procs : q # p \/ c \notin S => (q \in old'[c] <=> q \in old[c])
BY DEF Loads, TypeOK

LEMMA WritesOld ==
    ASSUME TypeOK, NEW p \in Procs, NEW S \in SUBSET Columns, Writes(p, S)
    PROVE  /\ old' \in [Columns -> SUBSET Procs] /\ lost' \subseteq Columns
           /\ \A c \in S, q \in Procs : q \in old'[c] <=> q # p
           /\ \A c \in Columns \ S, q \in Procs : q \in old'[c] <=> q \in old[c]
           /\ \A c \in Columns : c \in lost' <=> c \in lost \/ (c \in S /\ p \in old[c])
<1>1. old' \in [Columns -> SUBSET Procs] /\ lost' \subseteq Columns
    BY DEF Writes, TypeOK
<1>2. \A c \in S : old'[c] = (old[c] \cup Procs) \ {p}
    BY DEF Writes
<1>3. \A c \in Columns \ S : old'[c] = old[c]
    BY DEF Writes
<1>4. \A c \in Columns : c \in lost' <=> c \in lost \/ (c \in S /\ p \in old[c])
    BY DEF Writes
<1> QED
    BY <1>1, <1>2, <1>3, <1>4

\* Every step keeps the types.
LEMMA StepKeepsTypes ==
    ASSUME TypeOK, NEW p \in Procs, Step(p) PROVE TypeOK'
<1> USE LocksAssumption DEF Roles, Pcs, Statuses
<1>q. Qty(p) \in Int /\ Cost(p) \in Int
    BY AmountsAreIntegers
<1>c. {"capital"} \in SUBSET Columns /\ {"holding"} \in SUBSET Columns /\ Columns \in SUBSET Columns
    BY DEF Columns
<1>1. CASE LoadPortfolio(p)
  <2>1. old' \in [Columns -> SUBSET Procs]
      BY <1>1, <1>c, LoadsOld DEF LoadPortfolio
  <2> QED
      BY <1>1, <2>1 DEF LoadPortfolio, MayLoadPortfolio, TypeOK, account
<1>2. CASE ReadOrder(p)
    BY <1>2 DEF ReadOrder, MayReadOrder, TypeOK, account
<1>3. CASE LockPortfolio(p)
  <2>1. old' \in [Columns -> SUBSET Procs]
      BY <1>3, <1>c, LoadsOld DEF LockPortfolio
  <2> QED
      BY <1>3, <2>1 DEF LockPortfolio, MayLockPortfolio, TypeOK, account
<1>4. CASE ReadPortfolio(p)
  <2>1. old' \in [Columns -> SUBSET Procs]
      BY <1>4, <1>c, LoadsOld DEF ReadPortfolio, TypeOK
  <2> QED
      BY <1>4, <2>1 DEF ReadPortfolio, MayReadUnlocked, MayFlushCancel, TypeOK, account
<1>5. CASE LockToClose(p)
    BY <1>5 DEF LockToClose, MayLockToClose, TypeOK, account
<1>6. CASE EnterUpdate(p)
    BY <1>6 DEF EnterUpdate, MayEnterUpdate, TypeOK, account
<1>7. CASE FlushOrder(p)
    BY <1>7 DEF FlushOrder, MayFlushOrder, TypeOK, account
<1>8. CASE LockInUpdate(p)
  <2>1. old' \in [Columns -> SUBSET Procs]
      BY <1>8, <1>c, LoadsOld DEF LockInUpdate, TypeOK
  <2> QED
      BY <1>8, <2>1 DEF LockInUpdate, MayLockInUpdate, TypeOK, account
<1>9. CASE ApplyFill(p)
    BY <1>9, <1>q DEF ApplyFill, TypeOK, account
<1>10. CASE CommitFill(p)
  <2>1. old' \in [Columns -> SUBSET Procs] /\ lost' \subseteq Columns
      BY <1>10, <1>c, WritesOld DEF CommitFill, Booked
  <2> QED
      BY <1>10, <1>q, <2>1 DEF CommitFill, Booked, TypeOK
<1>11. CASE CommitCancel(p)
  <2>1. old' \in [Columns -> SUBSET Procs] /\ lost' \subseteq Columns
      BY <1>11, <1>c, WritesOld DEF CommitCancel
  <2> QED
      BY <1>11, <2>1 DEF CommitCancel, MayCommitCancel, TypeOK
<1>12. CASE ReadHoldings(p)
  <2>1. old' \in [Columns -> SUBSET Procs]
      BY <1>12, <1>c, LoadsOld DEF ReadHoldings
  <2> QED
      BY <1>12, <2>1 DEF ReadHoldings, TypeOK, account
<1>13. CASE AbortDeadlocked(p)
    BY <1>13 DEF AbortDeadlocked, TypeOK, account
<1> QED
    BY <1>1, <1>2, <1>3, <1>4, <1>5, <1>6, <1>7, <1>8, <1>9, <1>10, <1>11, <1>12, <1>13
       DEF Step

\* Every step goes from one point of a handler to the next, and who takes the
\* portfolio row finds it free.
LEMMA StepKeepsPoints ==
    ASSUME IInv, NEW p \in Procs, Step(p) PROVE Points' /\ RowExclusive'
<1> USE LocksAssumption DEF Points, RowExclusive, HasRow
<1>t. /\ role \in [Procs -> Roles] /\ pc \in [Procs -> Pcs]
      /\ row \in Procs \cup {NoProc}
      /\ Points /\ RowExclusive
    BY DEF IInv, TypeOK
<1>1. CASE LoadPortfolio(p)
    BY <1>1, <1>t DEF LoadPortfolio, MayLoadPortfolio
<1>2. CASE ReadOrder(p)
    BY <1>2, <1>t DEF ReadOrder, MayReadOrder
<1>3. CASE LockPortfolio(p)
    BY <1>3, <1>t DEF LockPortfolio, MayLockPortfolio
<1>4. CASE ReadPortfolio(p)
    BY <1>4, <1>t DEF ReadPortfolio, MayReadUnlocked, MayFlushCancel
<1>5. CASE LockToClose(p)
    BY <1>5, <1>t DEF LockToClose, MayLockToClose
<1>6. CASE EnterUpdate(p)
    BY <1>6, <1>t DEF EnterUpdate, MayEnterUpdate
<1>7. CASE FlushOrder(p)
    BY <1>7, <1>t DEF FlushOrder, MayFlushOrder
<1>8. CASE LockInUpdate(p)
    BY <1>8, <1>t DEF LockInUpdate, MayLockInUpdate, Roles
<1>9. CASE ApplyFill(p)
    BY <1>9, <1>t DEF ApplyFill
<1>10. CASE CommitFill(p)
    BY <1>10, <1>t DEF CommitFill
<1>11. CASE CommitCancel(p)
    BY <1>11, <1>t DEF CommitCancel, MayCommitCancel
<1>12. CASE ReadHoldings(p)
    BY <1>12, <1>t DEF ReadHoldings
<1>13. CASE AbortDeadlocked(p)
    BY <1>13, <1>t DEF AbortDeadlocked
<1> QED
    BY <1>1, <1>2, <1>3, <1>4, <1>5, <1>6, <1>7, <1>8, <1>9, <1>10, <1>11, <1>12, <1>13
       DEF Step

\* A step loads the committed value into its own copy, keeps the others, or leaves
\* them behind.
LEMMA StepKeepsCopies ==
    ASSUME IInv, NEW p \in Procs, Step(p) PROVE LockedLoadsFresh' /\ CopiesFresh'
<1> USE DEF LockedLoadsFresh, CopiesFresh, HasRow, HasHolding, HasCapital
<1>t. /\ role \in [Procs -> Roles] /\ pc \in [Procs -> Pcs] /\ Points /\ RowExclusive
      /\ cache \in [Procs -> [avail : Int, hold : Int, qty : Int]]
      /\ old \in [Columns -> SUBSET Procs]
      /\ avail \in Int /\ hold \in Int
      /\ LockedLoadsFresh /\ CopiesFresh
    BY DEF IInv, TypeOK
<1>q. \A q \in Procs : Qty(q) \in Int /\ Cost(q) \in Int
    BY AmountsAreIntegers DEF IInv
<1>c. /\ {"capital"} \in SUBSET Columns /\ {"holding"} \in SUBSET Columns
      /\ Columns = {"capital", "holding"} /\ Columns \in SUBSET Columns
    BY DEF Columns
<1>y. TypeOK
    BY DEF IInv
<1>s. role' = role
    BY DEF Step, LoadPortfolio, ReadOrder, LockPortfolio, ReadPortfolio, LockToClose, EnterUpdate,
           FlushOrder, LockInUpdate, ApplyFill, CommitFill, CommitCancel, ReadHoldings,
           AbortDeadlocked
<1>1. CASE LoadPortfolio(p)
  <2>1. /\ \A c \in {"capital"} : p \notin old'[c]
        /\ \A c \in Columns, q \in Procs : q # p \/ c \notin {"capital"} => (q \in old'[c] <=> q \in old[c])
      BY <1>1, <1>c, <1>y, LoadsOld DEF LoadPortfolio
  <2> QED
      BY <1>1, <1>t, <1>c, <2>1 DEF LoadPortfolio, MayLoadPortfolio, account, Qty, Cost, Points
<1>2. CASE ReadOrder(p)
    BY <1>2, <1>t DEF ReadOrder, MayReadOrder, account, Qty, Cost, Points
<1>3. CASE LockPortfolio(p)
  <2>1. /\ \A c \in Columns : p \notin old'[c]
        /\ \A c \in Columns, q \in Procs : q # p \/ c \notin Columns => (q \in old'[c] <=> q \in old[c])
      BY <1>3, <1>c, <1>y, LoadsOld DEF LockPortfolio
  <2> QED
      BY <1>3, <1>t, <1>c, <2>1 DEF LockPortfolio, MayLockPortfolio, account, Qty, Cost, Points
<1>4. CASE ReadPortfolio(p)
  <2>1. CASE role[p] = "kill"
      BY <1>4, <2>1, <1>t DEF ReadPortfolio, MayReadUnlocked, MayFlushCancel, account, Qty, Cost, Points
  <2>2. CASE role[p] # "kill"
    <3>1. /\ \A c \in {"capital"} : p \notin old'[c]
          /\ \A c \in Columns, q \in Procs : q # p \/ c \notin {"capital"} => (q \in old'[c] <=> q \in old[c])
        BY <1>4, <2>2, <1>c, <1>y, LoadsOld DEF ReadPortfolio
    <3> QED
        BY <1>4, <2>2, <1>t, <1>c, <3>1 DEF ReadPortfolio, MayReadUnlocked, MayFlushCancel, account, Qty, Cost, Points
  <2> QED
      BY <2>1, <2>2
<1>5. CASE LockToClose(p)
    BY <1>5, <1>t DEF LockToClose, MayLockToClose, account, Qty, Cost, Points
<1>6. CASE EnterUpdate(p)
    BY <1>6, <1>t DEF EnterUpdate, MayEnterUpdate, account, Qty, Cost, Points
<1>7. CASE FlushOrder(p)
    BY <1>7, <1>t DEF FlushOrder, MayFlushOrder, account, Qty, Cost, Points
<1>8. CASE LockInUpdate(p)
  <2>1. CASE role[p] = "poll"
    <3>1. /\ \A c \in {"holding"} : p \notin old'[c]
          /\ \A c \in Columns, q \in Procs : q # p \/ c \notin {"holding"} => (q \in old'[c] <=> q \in old[c])
        BY <1>8, <2>1, <1>c, <1>y, LoadsOld DEF LockInUpdate
    <3> QED
        BY <1>8, <2>1, <1>t, <1>c, <3>1 DEF LockInUpdate, MayLockInUpdate, account, Qty, Cost, Points
  <2>2. CASE role[p] # "poll"
      BY <1>8, <2>2, <1>t DEF LockInUpdate, MayLockInUpdate, account, Qty, Cost, Points, Roles
  <2> QED
      BY <2>1, <2>2
<1>9. CASE ApplyFill(p)
    BY <1>9, <1>t, <1>q DEF ApplyFill, account, Qty, Cost, Points
<1>10. CASE CommitFill(p)
  <2>1. \A c \in Columns, q \in Procs : q \in old'[c] <=> q # p
      BY <1>10, <1>c, <1>y, WritesOld DEF CommitFill, Booked
  <2>2. pc[p] = "dirty" /\ pc' = [pc EXCEPT ![p] = "done"] /\ row = p
      BY <1>10, <1>t DEF CommitFill, RowExclusive
  <2>3. \A q \in Procs \ {p} : ~HasRow(q)'
      BY <1>s, <1>t, <2>2 DEF RowExclusive
  <2> QED
      BY <1>s, <1>t, <1>c, <2>1, <2>2, <2>3
<1>11. CASE CommitCancel(p)
  <2>1. /\ \A q \in Procs : q \in old'["capital"] <=> q # p
        /\ \A q \in Procs : q \in old'["holding"] <=> q \in old["holding"]
      BY <1>11, <1>c, <1>y, WritesOld DEF CommitCancel
  <2>2. /\ pc[p] = "locked" /\ row = NoProc /\ role[p] \in {"cancel", "kill"}
        /\ pc' = [pc EXCEPT ![p] = IF role[p] = "kill" THEN "cancelled" ELSE "done"]
        /\ hold' = hold /\ avail' = cache[p].avail + Reserved
        /\ cache' = [cache EXCEPT ![p].avail = @ + Reserved]
      BY <1>11 DEF CommitCancel, MayCommitCancel
  <2>3. \A q \in Procs : ~HasRow(q) /\ ~HasRow(q)'
      BY <1>s, <1>t, <2>2, LocksAssumption DEF RowExclusive
  <2> QED
      BY <1>s, <1>t, <1>c, <2>1, <2>2, <2>3, LocksAssumption DEF Qty, Cost, Points
<1>12. CASE ReadHoldings(p)
  <2>1. /\ \A c \in {"holding"} : p \notin old'[c]
        /\ \A c \in Columns, q \in Procs : q # p \/ c \notin {"holding"} => (q \in old'[c] <=> q \in old[c])
      BY <1>12, <1>c, <1>y, LoadsOld DEF ReadHoldings
  <2> QED
      BY <1>12, <1>t, <1>c, <2>1 DEF ReadHoldings, account, Qty, Cost, Points
<1>13. CASE AbortDeadlocked(p)
    BY <1>13, <1>t DEF AbortDeadlocked, account, Qty, Cost, Points
<1> QED
    BY <1>1, <1>2, <1>3, <1>4, <1>5, <1>6, <1>7, <1>8, <1>9, <1>10, <1>11, <1>12, <1>13
       DEF Step

\* What is committed from a copy nobody has overtaken adds up; what is committed
\* from another one is marked as lost, and its writer has loaded without a lock.
LEMMA StepKeepsBooks ==
    ASSUME IInv, NEW p \in Procs, Step(p) PROVE NoLostHolding' /\ CapitalExact'
<1> USE DEF NoLostHolding, CapitalExact, HasWrittenBlind
<1>t. /\ role \in [Procs -> Roles] /\ pc \in [Procs -> Pcs]
      /\ avail \in Int /\ hold \in Int /\ due \in Int /\ net \in Int
      /\ NoLostHolding /\ CapitalExact
    BY DEF IInv, TypeOK
<1>c. Columns = {"capital", "holding"} /\ {"capital"} \in SUBSET Columns /\ Columns \in SUBSET Columns
    BY DEF Columns
<1>s. role' = role
    BY DEF Step, LoadPortfolio, ReadOrder, LockPortfolio, ReadPortfolio, LockToClose, EnterUpdate,
           FlushOrder, LockInUpdate, ApplyFill, CommitFill, CommitCancel, ReadHoldings,
           AbortDeadlocked
\* A handler that has written blind stays one.
<1>b. \A q \in Procs : HasWrittenBlind(q) => HasWrittenBlind(q)'
    BY <1>t, <1>s
       DEF Step, LoadPortfolio, ReadOrder, LockPortfolio, ReadPortfolio, LockToClose, EnterUpdate,
           FlushOrder, LockInUpdate, ApplyFill, CommitFill, CommitCancel, ReadHoldings,
           AbortDeadlocked, MayLoadPortfolio, MayReadOrder, MayLockPortfolio, MayReadUnlocked,
           MayFlushCancel, MayLockToClose, MayEnterUpdate, MayFlushOrder, MayLockInUpdate,
           MayCommitCancel, InRowCycle, WaitsForRowOf, WantsRow, WantsOrderRow
<1>d. \A q \in Procs : role[q] = "kill" /\ pc[q] = "done" => pc'[q] = "done"
    BY <1>t
       DEF Step, LoadPortfolio, ReadOrder, LockPortfolio, ReadPortfolio, LockToClose, EnterUpdate,
           FlushOrder, LockInUpdate, ApplyFill, CommitFill, CommitCancel, ReadHoldings,
           AbortDeadlocked, MayLoadPortfolio, MayReadOrder, MayLockPortfolio, MayReadUnlocked,
           MayFlushCancel, MayLockToClose, MayEnterUpdate, MayFlushOrder, MayLockInUpdate,
           MayCommitCancel
<1>1. CASE CommitFill(p)
  <2>1. \A c \in Columns : c \in lost' <=> c \in lost \/ p \in old[c]
      BY <1>1, <1>c, WritesOld DEF CommitFill, Booked, IInv
  <2>2. pc[p] = "dirty" /\ pc' = [pc EXCEPT ![p] = "done"] /\ HasRow(p)
      BY <1>1 DEF CommitFill, HasRow
  <2>3. /\ avail' = cache[p].avail /\ hold' = cache[p].hold
        /\ net' = net + Qty(p) /\ due' = due - Cost(p)
      BY <1>1 DEF CommitFill, Booked
  <2>4. Qty(p) \in Int /\ Cost(p) \in Int
      BY AmountsAreIntegers DEF IInv
  <2>5. p \notin old["holding"] => cache[p].hold = hold + Qty(p)
      BY <2>2 DEF IInv, CopiesFresh, HasHolding
  <2>6. p \notin old["capital"] => cache[p].avail = avail - Cost(p)
      BY <2>2 DEF IInv, CopiesFresh, HasCapital
  <2>7. /\ p \in old["holding"] => role[p] = "kill"
        /\ p \in old["capital"] => role[p] \in {"poll", "kill"}
      BY <2>2, <1>t DEF IInv, LockedLoadsFresh, Points, Roles
  <2>8. NoLostHolding'
    <3>1. hold' # net' => "holding" \in lost'
        BY <1>t, <1>c, <2>1, <2>3, <2>4, <2>5
    <3>2. "holding" \in lost' => \E q \in Procs : role[q] = "kill" /\ pc'[q] = "done"
        BY <1>t, <1>c, <1>d, <2>1, <2>2, <2>7
    <3> QED
        BY <1>s, <3>1, <3>2
  <2>9. CapitalExact'
    <3>1. avail' # due' => "capital" \in lost'
        BY <1>t, <1>c, <2>1, <2>3, <2>4, <2>6
    <3>2. p \in old["capital"] => HasWrittenBlind(p)'
        BY <1>t, <1>s, <2>2, <2>7
    <3>3. "capital" \in lost' => \E q \in Procs : HasWrittenBlind(q)'
      <4>1. "capital" \in lost => \E q \in Procs : HasWrittenBlind(q)
          BY <1>t
      <4> HIDE DEF HasWrittenBlind
      <4> QED
          BY <1>b, <1>c, <2>1, <3>2, <4>1
    <3> QED
        BY <3>1, <3>3
  <2> QED
      BY <2>8, <2>9
<1>2. CASE CommitCancel(p)
  <2>1. /\ "capital" \in lost' <=> "capital" \in lost \/ p \in old["capital"]
        /\ "holding" \in lost' <=> "holding" \in lost
      BY <1>2, <1>c, WritesOld DEF CommitCancel, IInv
  <2>2. /\ pc[p] = "locked" /\ role[p] \in {"cancel", "kill"}
        /\ pc' = [pc EXCEPT ![p] = IF role[p] = "kill" THEN "cancelled" ELSE "done"]
        /\ hold' = hold /\ net' = net
        /\ avail' = cache[p].avail + Reserved /\ due' = due + Reserved
      BY <1>2 DEF CommitCancel, MayCommitCancel
  <2>3. p \notin old["capital"] => cache[p].avail = avail
      BY <2>2 DEF IInv, CopiesFresh, HasCapital
  <2>4. NoLostHolding'
      BY <1>t, <1>s, <1>d, <2>1, <2>2
  <2>5. CapitalExact'
    <3>1. avail' # due' => "capital" \in lost'
        BY <1>t, <2>1, <2>2, <2>3
    <3>2. HasWrittenBlind(p)'
        BY <1>t, <1>s, <2>2
    <3> QED
        BY <3>1, <3>2
  <2> QED
      BY <2>4, <2>5
<1>3. CASE ~CommitFill(p) /\ ~CommitCancel(p)
  <2>1. UNCHANGED account
      BY <1>3
         DEF Step, LoadPortfolio, ReadOrder, LockPortfolio, ReadPortfolio, LockToClose, EnterUpdate,
             FlushOrder, LockInUpdate, ApplyFill, ReadHoldings, AbortDeadlocked, account
  <2>2. "holding" \in lost => \E q \in Procs : role'[q] = "kill" /\ pc'[q] = "done"
      BY <1>t, <1>s, <1>d
  <2>3. "capital" \in lost => \E q \in Procs : HasWrittenBlind(q)'
    <3>1. "capital" \in lost => \E q \in Procs : HasWrittenBlind(q)
        BY <1>t
    <3> HIDE DEF HasWrittenBlind
    <3> QED
        BY <1>b, <3>1
  <2> QED
      BY <1>t, <2>1, <2>2, <2>3 DEF account
<1> QED
    BY <1>1, <1>2, <1>3

\* Every step of a handler keeps the inductive invariant.
LEMMA StepKeepsInvariant ==
    ASSUME IInv, NEW p \in Procs, Step(p) PROVE IInv'
<1>1. TypeOK'
    BY StepKeepsTypes DEF IInv
<1> QED
    BY <1>1, StepKeepsPoints, StepKeepsCopies, StepKeepsBooks DEF IInv

\* The inductive invariant holds in every reachable state.
THEOREM InvariantHolds == Spec => []IInv
<1>1. Init => IInv
    BY InitEstablishes
<1>2. IInv /\ [Next]_vars => IInv'
  <2>1. CASE Next
      BY <2>1, StepKeepsInvariant DEF Next
  <2>2. CASE UNCHANGED vars
      BY <2>2 DEF vars, account, IInv, TypeOK, Points, RowExclusive, LockedLoadsFresh, CopiesFresh,
                  NoLostHolding, CapitalExact, HasRow, HasHolding, HasCapital, HasWrittenBlind,
                  Qty, Cost
  <2> QED
      BY <2>1, <2>2
<1> QED
    BY <1>1, <1>2, PTL DEF Spec

\* Every variable keeps its type, for any number of handlers.
THEOREM TypesHold == Spec => []TypeOK
<1>1. IInv => TypeOK
    BY DEF IInv
<1> QED
    BY <1>1, InvariantHolds, PTL

\* Whatever the number and the mix of concurrent handlers: the FOR UPDATE inside
\* _update_portfolio_on_fill is enough for the holding of every handler but the kill
\* switch, which loads the holdings before.
THEOREM NoHoldingIsLost == Spec => []NoLostHolding
<1>1. IInv => NoLostHolding
    BY DEF IInv
<1> QED
    BY <1>1, InvariantHolds, PTL

\* available_capital stays exact until a handler that loads the portfolio without
\* the row lock writes over what another one has committed since.
THEOREM CapitalStaysExact == Spec => []CapitalExact
<1>1. IInv => CapitalExact
    BY DEF IInv
<1> QED
    BY <1>1, InvariantHolds, PTL

--------------------------------------------------------------------------------
\* Who has filled the order is done and was a tick or a poll; nobody finds a
\* filled order OPEN, and once a tick has filled it no tick is under way with it.
Midway(p) == role[p] = "tick" /\ pc[p] \notin {"start", "done"}

FillInv ==
    /\ filled # {} => status # "OPEN"
    /\ \A p \in filled : pc[p] = "done" /\ role[p] \in {"tick", "poll"}
    /\ \A p \in Procs, q \in filled : Midway(p) => role[q] = "poll"
    /\ \A p, q \in Procs : Midway(p) /\ Midway(q) => p = q
    /\ \A p, q \in filled : p # q => "poll" \in {role[p], role[q]}

\* Every step keeps that: a tick begins when no other is under way, with an order
\* it finds OPEN.
LEMMA StepKeepsFills ==
    ASSUME IInv, FillInv, NEW p \in Procs, Step(p) PROVE FillInv'
<1> USE DEF FillInv, Midway
<1>t. /\ role \in [Procs -> Roles] /\ pc \in [Procs -> Pcs] /\ filled \subseteq Procs
      /\ pc[p] \in {"inmem", "update", "dirty"} => role[p] # "cancel"
      /\ pc[p] \in {"loaded", "cancelled", "counted", "selling"} => role[p] = "kill"
    BY DEF IInv, TypeOK, Points
<1>1. CASE ReadOrder(p)
  <2>1. role' = role /\ filled' = filled /\ status' = status
      BY <1>1 DEF ReadOrder, account
  <2>2. CASE status = "OPEN"
    <3>1. filled = {} /\ pc' = [pc EXCEPT ![p] = "read"]
        BY <1>1, <2>2 DEF ReadOrder
    <3>2. role[p] = "tick" => \A q \in Procs : ~Midway(q)
        BY <1>1 DEF ReadOrder, MayReadOrder
    <3> QED
        BY <1>t, <2>1, <3>1, <3>2
  <2>3. CASE status # "OPEN"
    <3>1. pc' = [pc EXCEPT ![p] = IF role[p] = "kill" THEN "cancelled" ELSE "done"]
        BY <1>1, <2>3 DEF ReadOrder
    <3> QED
        BY <1>t, <2>1, <2>3, <3>1
  <2> QED
      BY <2>2, <2>3
<1>2. CASE LockPortfolio(p)
    BY <1>2, <1>t DEF LockPortfolio, MayLockPortfolio, account
<1>3. CASE ReadPortfolio(p)
    BY <1>3, <1>t DEF ReadPortfolio, MayReadUnlocked, MayFlushCancel, account
<1>4. CASE EnterUpdate(p)
    BY <1>4, <1>t DEF EnterUpdate, MayEnterUpdate, account
<1>5. CASE FlushOrder(p)
    BY <1>5, <1>t DEF FlushOrder, MayFlushOrder, account
<1>6. CASE LockInUpdate(p)
    BY <1>6, <1>t DEF LockInUpdate, MayLockInUpdate, account
<1>7. CASE ApplyFill(p)
    BY <1>7, <1>t DEF ApplyFill, account
<1>8. CASE CommitFill(p)
  <2>1. /\ pc[p] = "dirty" /\ pc' = [pc EXCEPT ![p] = "done"] /\ role' = role
      BY <1>8, <1>t DEF CommitFill, Booked
  <2>2. CASE role[p] \notin {"tick", "poll"}
    <3>1. filled' = filled /\ status' = status
        BY <1>8, <2>2 DEF CommitFill, Booked
    <3> QED
        BY <1>t, <2>1, <2>2, <3>1
  <2>3. CASE role[p] \in {"tick", "poll"}
    <3>1. filled' = filled \cup {p} /\ status' = "FILLED"
        BY <1>8, <2>3 DEF CommitFill, Booked
    <3> QED
        BY <1>t, <2>1, <2>3, <3>1
  <2> QED
      BY <2>2, <2>3
<1>9. CASE CommitCancel(p)
    BY <1>9, <1>t DEF CommitCancel, MayCommitCancel
<1>10. CASE AbortDeadlocked(p)
    BY <1>10, <1>t DEF AbortDeadlocked, account
<1>11. CASE LoadPortfolio(p)
    BY <1>11, <1>t DEF LoadPortfolio, MayLoadPortfolio, account
<1>12. CASE LockToClose(p)
    BY <1>12, <1>t DEF LockToClose, MayLockToClose, account
<1>13. CASE ReadHoldings(p)
    BY <1>13, <1>t DEF ReadHoldings, account
<1> QED
    BY <1>1, <1>2, <1>3, <1>4, <1>5, <1>6, <1>7, <1>8, <1>9, <1>10, <1>11, <1>12, <1>13
       DEF Step

\* However many price events, polls, placements and cancels overlap: of two
\* handlers that fill one order one is a GET /orders, and no filled order is found
\* OPEN again.
THEOREM WorkerFillsOnce == Spec => []SecondFillIsAPoll
<1>1. Init => FillInv
    BY DEF Init, FillInv, Midway
<1>2. IInv /\ FillInv /\ [Next]_vars => FillInv'
  <2>1. ASSUME IInv, FillInv, Next PROVE FillInv'
      BY <2>1, StepKeepsFills DEF Next
  <2>2. ASSUME FillInv, UNCHANGED vars PROVE FillInv'
      BY <2>2 DEF vars, account, FillInv, Midway
  <2> QED
      BY <2>1, <2>2
<1>3. FillInv => SecondFillIsAPoll
    BY DEF FillInv, SecondFillIsAPoll
<1> QED
    BY <1>1, <1>2, <1>3, InvariantHolds, PTL DEF Spec

--------------------------------------------------------------------------------
\* Where the holder of each lock is, and who never comes to a point.
RowHeld == row \in Procs => HasRow(row)

MemHeld == \A p \in Procs : mem = p <=> pc[p] \in {"inmem", "flushed", "update"}

HasOrderRow(p) ==
    \/ role[p] \in {"cancel", "kill"} /\ pc[p] = "locked"
    \/ role[p] \in {"tick", "poll"} /\ pc[p] \in {"flushed", "update", "dirty"}

OrderRowHeld == \A p \in Procs : orow = p <=> HasOrderRow(p)

LockInv == RowHeld /\ MemHeld /\ OrderRowHeld

\* Each step takes and gives back its locks where the program counter says so.
LEMMA StepKeepsLocks ==
    ASSUME IInv, LockInv, NEW p \in Procs, Step(p) PROVE LockInv'
<1> USE LocksAssumption DEF LockInv, RowHeld, MemHeld, OrderRowHeld, HasRow, HasOrderRow
<1> USE DEF RowExclusive, Points
<1>t. /\ role \in [Procs -> Roles] /\ pc \in [Procs -> Pcs]
      /\ row \in Procs \cup {NoProc} /\ orow \in Procs \cup {NoProc} /\ mem \in Procs \cup {NoProc}
      /\ RowExclusive /\ Points
    BY DEF IInv, TypeOK
<1>1. CASE ReadOrder(p)
    BY <1>1, <1>t DEF ReadOrder, MayReadOrder
<1>2. CASE LockPortfolio(p)
    BY <1>2, <1>t DEF LockPortfolio, MayLockPortfolio
<1>3. CASE ReadPortfolio(p)
    BY <1>3, <1>t DEF ReadPortfolio, MayReadUnlocked, MayFlushCancel
<1>4. CASE EnterUpdate(p)
    BY <1>4, <1>t DEF EnterUpdate, MayEnterUpdate
<1>5. CASE FlushOrder(p)
    BY <1>5, <1>t DEF FlushOrder, MayFlushOrder
<1>6. CASE LockInUpdate(p)
    BY <1>6, <1>t DEF LockInUpdate, MayLockInUpdate, Roles
<1>7. CASE ApplyFill(p)
    BY <1>7, <1>t DEF ApplyFill
<1>8. CASE CommitFill(p)
    BY <1>8, <1>t DEF CommitFill
<1>9. CASE CommitCancel(p)
    BY <1>9, <1>t DEF CommitCancel, MayCommitCancel
<1>10. CASE AbortDeadlocked(p)
    BY <1>10, <1>t DEF AbortDeadlocked
<1>11. CASE LoadPortfolio(p)
    BY <1>11, <1>t DEF LoadPortfolio, MayLoadPortfolio
<1>12. CASE LockToClose(p)
    BY <1>12, <1>t DEF LockToClose, MayLockToClose
<1>13. CASE ReadHoldings(p)
    BY <1>13, <1>t DEF ReadHoldings
<1> QED
    BY <1>1, <1>2, <1>3, <1>4, <1>5, <1>6, <1>7, <1>8, <1>9, <1>10, <1>11, <1>12, <1>13
       DEF Step

\* In a standstill the order row is held by a cancel, of its own or of a kill
\* switch, that waits for the portfolio row, or by a poll that does.
LEMMA OrderRowInStandstill ==
    ASSUME IInv, LockInv, NEW r \in Procs, orow = r, ~CanStep(r)
    PROVE  /\ row # NoProc /\ row # r
           /\ \/ role[r] \in {"cancel", "kill"} /\ pc[r] = "locked"
              \/ role[r] = "poll" /\ pc[r] = "flushed"
<1>1. HasOrderRow(r)
    BY DEF LockInv, OrderRowHeld
<1>2. pc[r] \notin {"update", "dirty"}
    BY DEF CanStep
<1>3. CASE role[r] \in {"cancel", "kill"} /\ pc[r] = "locked"
  <2>1. row # NoProc
      BY <1>3 DEF CanStep, MayCommitCancel
  <2>2. ~HasRow(r)
      BY <1>3 DEF HasRow
  <2> QED
      BY <1>3, <2>1, <2>2 DEF LockInv, RowHeld
<1>4. CASE role[r] \in {"tick", "poll"} /\ pc[r] = "flushed"
  <2>1. row # NoProc /\ row # r
      BY <1>4 DEF CanStep, MayLockInUpdate
  <2>2. role[r] # "tick"
      BY <1>4, <2>1 DEF IInv, RowExclusive, HasRow
  <2> QED
      BY <1>4, <2>1, <2>2
<1> QED
    BY <1>1, <1>2, <1>3, <1>4 DEF HasOrderRow

\* In a standstill somebody has the portfolio row.
LEMMA RowTakenInStandstill ==
    ASSUME IInv, LockInv, Stuck PROVE row \in Procs
<1>t. row \in Procs \cup {NoProc} /\ orow \in Procs \cup {NoProc} /\ mem \in Procs \cup {NoProc}
    BY DEF IInv, TypeOK
<1> SUFFICES ASSUME row = NoProc PROVE FALSE
    BY <1>t
<1>1. orow = NoProc
    BY <1>t, OrderRowInStandstill DEF Stuck
<1>2. \A p \in Procs : pc[p] \notin {"inmem", "flushed", "update", "dirty"}
  <2> SUFFICES ASSUME NEW p \in Procs, pc[p] \in {"inmem", "flushed", "update", "dirty"} PROVE FALSE
      OBVIOUS
  <2>1. role[p] \in Roles /\ ~CanStep(p) /\ Points
      BY DEF IInv, TypeOK, Stuck
  <2> QED
      BY <1>1, <2>1 DEF CanStep, MayFlushOrder, MayLockInUpdate, Points, Roles
<1>3. mem = NoProc
    BY <1>2, <1>t DEF LockInv, MemHeld
<1>4. \A p \in Procs : pc[p] \in {"start", "done"}
  <2> SUFFICES ASSUME NEW p \in Procs, pc[p] \notin {"start", "done"} PROVE FALSE
      OBVIOUS
  <2>1. /\ pc[p] \in {"loaded", "read", "locked", "cancelled", "counted", "selling"}
        /\ role[p] \in Roles /\ ~CanStep(p) /\ Points
      BY <1>2 DEF IInv, TypeOK, Pcs, Stuck
  <2> QED
      BY <1>1, <1>3, <2>1
         DEF CanStep, MayReadOrder, MayReadUnlocked, MayLockPortfolio, MayFlushCancel,
             MayLockToClose, MayEnterUpdate, MayCommitCancel, Points, Roles
<1>5. PICK p \in Procs : pc[p] # "done" /\ ~CanStep(p)
    BY DEF Stuck
<1>6. role[p] \in Roles
    BY DEF IInv, TypeOK
<1> QED
    BY <1>4, <1>5, <1>6 DEF CanStep, MayReadOrder, MayLoadPortfolio, MayLockPortfolio, Roles

\* The holder of the portfolio row has a step to take unless it waits for the
\* asyncio lock: who has the order row it may wait for is in a cycle with it.
LEMMA RowHolderInStandstill ==
    ASSUME IInv, LockInv, Stuck, NEW q \in Procs, row = q
    PROVE  /\ role[q] \in {"place", "tick", "kill"} /\ pc[q] \in {"locked", "selling"}
           /\ mem # NoProc
<1>t. orow \in Procs \cup {NoProc} /\ ~CanStep(q) /\ HasRow(q) /\ Points
    BY DEF IInv, TypeOK, LockInv, RowHeld, Stuck
<1>1. \/ role[q] \in {"place", "tick"} /\ pc[q] \in {"locked", "inmem", "flushed"}
      \/ role[q] = "kill" /\ pc[q] \in {"selling", "inmem"}
    BY <1>t DEF HasRow, CanStep, Points
<1>2. pc[q] # "flushed"
    BY <1>t, <1>1 DEF CanStep, MayLockInUpdate, Points
<1>3. ASSUME pc[q] = "inmem" PROVE FALSE
  <2>1. role[q] = "tick"
      BY <1>1, <1>3, <1>t DEF CanStep, MayLockInUpdate
  <2>2. orow \in Procs
      BY <1>t, <1>3, <2>1 DEF CanStep, MayFlushOrder
  <2>3. PICK r \in Procs : orow = r /\ ~CanStep(r)
      BY <2>2 DEF Stuck
  <2>4. /\ r # q
        /\ \/ role[r] \in {"cancel", "kill"} /\ pc[r] = "locked"
           \/ role[r] = "poll" /\ pc[r] = "flushed"
      BY <2>3, OrderRowInStandstill
  <2>5. CASE role[r] \in {"cancel", "kill"} /\ pc[r] = "locked"
    <3>1. WaitsForRowOf(q, r) /\ WaitsForRowOf(r, q)
        BY <1>3, <2>1, <2>3, <2>5 DEF WaitsForRowOf, WantsRow, WantsOrderRow
    <3> QED
        BY <3>1, <2>4, <1>t DEF CanStep, InRowCycle
  <2>6. CASE role[r] = "poll" /\ pc[r] = "flushed"
    <3>1. mem = r /\ mem = q
        BY <1>3, <2>6 DEF LockInv, MemHeld
    <3> QED
        BY <3>1, <2>4
  <2> QED
      BY <2>4, <2>5, <2>6
<1>4. pc[q] \in {"locked", "selling"}
    BY <1>1, <1>2, <1>3
<1>5. mem # NoProc
    BY <1>1, <1>4, <1>t DEF CanStep, MayEnterUpdate
<1> QED
    BY <1>1, <1>4, <1>5

\* The locks are where LockInv says in every reachable state.
LEMMA LocksHold == Spec => []LockInv
<1>1. Init => LockInv
    BY LocksAssumption
       DEF Init, LockInv, RowHeld, MemHeld, OrderRowHeld, HasOrderRow
<1>2. IInv /\ LockInv /\ [Next]_vars => LockInv'
  <2>1. ASSUME IInv, LockInv, Next PROVE LockInv'
      BY <2>1, StepKeepsLocks DEF Next
  <2>2. ASSUME LockInv, UNCHANGED vars PROVE LockInv'
      BY <2>2 DEF vars, LockInv, RowHeld, MemHeld, OrderRowHeld, HasOrderRow, HasRow
  <2> QED
      BY <2>1, <2>2
<1> QED
    BY <1>1, <1>2, InvariantHolds, PTL DEF Spec

\* However many handlers of a user run, and whatever their mix: they block each
\* other for good only around a GET /orders that has the asyncio lock and waits
\* for a row, while the holder of the portfolio row waits for the asyncio lock.
\* Place, tick, cancel and kill switch alone never come to a standstill.
THEOREM StandstillNeedsPoll == Spec => []OnlyPollDeadlocks
<1>1. IInv /\ LockInv => OnlyPollDeadlocks
  <2> SUFFICES ASSUME IInv, LockInv, Stuck
               PROVE  \E p, q \in Procs :
                        /\ role[p] = "poll" /\ mem = p /\ pc[p] \in {"inmem", "flushed"}
                        /\ role[q] \in {"place", "tick", "kill"} /\ row = q
                        /\ pc[q] \in {"locked", "selling"}
      BY DEF OnlyPollDeadlocks
  <2>1. PICK q \in Procs : row = q
      BY RowTakenInStandstill
  <2>2. /\ role[q] \in {"place", "tick", "kill"} /\ pc[q] \in {"locked", "selling"}
        /\ mem # NoProc
      BY <2>1, RowHolderInStandstill
  <2>3. PICK p \in Procs : mem = p /\ ~CanStep(p)
      BY <2>2 DEF IInv, TypeOK, Stuck
  <2>4. pc[p] \in {"inmem", "flushed"}
      BY <2>3 DEF LockInv, MemHeld, CanStep
  <2>5. role[p] = "poll"
    <3>1. role[p] \in {"place", "tick", "poll", "kill"}
        BY <2>4 DEF IInv, TypeOK, Points, Roles
    <3>2. role[p] \in {"place", "tick", "kill"} => row = p
        BY <2>4 DEF IInv, RowExclusive, HasRow, Points
    <3> QED
        BY <3>1, <3>2, <2>1, <2>2, <2>4
  <2> QED
      BY <2>1, <2>2, <2>3, <2>4, <2>5
<1> QED
    BY <1>1, InvariantHolds, LocksHold, PTL
================================================================================
