----------------------------- MODULE EventDelivery -----------------------------
(***************************************************************************)
(* What the transactional outbox promises, without rows, relays or         *)
(* processes: the events of a unit of work become deliverable together,    *)
(* only such events reach subscribers, and an event is settled only when   *)
(* all its subscribers have been run or it cannot be rebuilt from its row. *)
(***************************************************************************)
CONSTANTS Units,        \* units of work
          UnitEvents,   \* the set of events each unit records
          Subscribed,   \* the subscribers of each event
          Rebuildable   \* events whose row can be turned back into an event

VARIABLES committed, ran, settled

dvars == <<committed, ran, settled>>

DInit == committed = {} /\ ran = {} /\ settled = {}

CommitUnit(u) ==
    /\ UnitEvents[u] \cap committed = {}
    /\ committed' = committed \cup UnitEvents[u]
    /\ UNCHANGED <<ran, settled>>

Run(e, s) ==
    /\ e \in committed /\ s \in Subscribed[e]
    /\ ran' = ran \cup {<<e, s>>}
    /\ UNCHANGED <<committed, settled>>

Settle(e) ==
    /\ e \in committed
    /\ e \in Rebuildable => \A s \in Subscribed[e] : <<e, s>> \in ran
    /\ settled' = settled \cup {e}
    /\ UNCHANGED <<committed, ran>>

DNext == \/ \E u \in Units : CommitUnit(u)
         \/ \E e \in DOMAIN Subscribed : Settle(e) \/ \E s \in Subscribed[e] : Run(e, s)

DSpec == DInit /\ [][DNext]_dvars
================================================================================
