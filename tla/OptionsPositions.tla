---------------------------- MODULE OptionsPositions ----------------------------
(* The paper option orders of the browser: orders and positions are persisted,  *)
(* the counters that number them are not.                                       *)
EXTENDS Naturals, FiniteSets

CONSTANTS
    Legs,           \* symbol, strike, type, side and expiry of an order
    MaxOrders

VARIABLES
    positions,      \* records of leg, id and lots; one leg is open at most once
    nextId,         \* _posId
    placed, closed  \* orders placed and positions closed so far

vars == <<positions, nextId, placed, closed>>

Init == positions = {} /\ nextId = 1 /\ placed = 0 /\ closed = 0

--------------------------------------------------------------------------------
existing(l) == {p \in positions : p.leg = l}

\* Into the position of the same leg if there is one: every position with its
\* id is written.
addPosition(l) ==
    IF existing(l) # {}
    THEN LET e == CHOOSE p \in existing(l) : TRUE
         IN  /\ positions' = {IF p.id = e.id THEN [p EXCEPT !.lots = e.lots + 1] ELSE p : p \in positions}
             /\ UNCHANGED nextId
    ELSE /\ positions' = positions \cup {[leg |-> l, id |-> nextId, lots |-> 1]}
         /\ nextId' = nextId + 1

\* A market order is filled at once; a limit order stays pending for good.
placeOptionOrder(l) ==
    /\ placed < MaxOrders
    /\ placed' = placed + 1
    /\ addPosition(l)
    /\ UNCHANGED closed

closePosition(id) ==
    /\ \E p \in positions : p.id = id
    /\ positions' = {p \in positions : p.id # id}
    /\ closed' = closed + 1
    /\ UNCHANGED <<nextId, placed>>

\* The page is loaded anew: the store is restored, the module starts at 1.
Reload == nextId' = 1 /\ UNCHANGED <<positions, placed, closed>>

Next ==
    \/ Reload
    \/ \E l \in Legs : placeOptionOrder(l)
    \/ \E p \in positions : closePosition(p.id)

Spec == Init /\ [][Next]_vars

--------------------------------------------------------------------------------
\* Closing a position removes that position and no other ("Close (remove) an open
\* position by id").
ClosesOne == [][closed' = closed + 1 => Cardinality(positions') = Cardinality(positions) - 1]_vars
================================================================================
