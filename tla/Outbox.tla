--------------------------------- MODULE Outbox --------------------------------
(***************************************************************************)
(* The transactional outbox of backend/app/shared: SqlAlchemyUnitOfWork    *)
(* writes one row per domain event in its own transaction and then         *)
(* publishes the events one by one, marking each row; OutboxRelay drains   *)
(* rows left PENDING.  The EventBus runs all subscribers of an event       *)
(* concurrently and waits for all of them.  A worker is a unit or a relay; *)
(* todo[w] is what it still has to publish, Head(todo[w]) being in hand.   *)
(* A crash ends every worker and keeps the committed rows.                 *)
(***************************************************************************)
EXTENDS Naturals, Sequences, FiniteSets

CONSTANTS Units, Relays, Events, Subscribers,
          EventsOf,      \* the events a unit's aggregates have recorded, in order
          Subscribed,    \* the subscribers of each event's type
          Registered,    \* events whose type the relay has registered
          WellFormed,    \* events whose JSON payload rebuilds the dataclass
          FetchLimit,    \* limit of fetch_pending
          MaxCrashes, MaxFaults   \* bounds: process crashes, failed UPDATEs

Workers == Units \cup Relays
EventSet(u) == {EventsOf[u][i] : i \in DOMAIN EventsOf[u]}
Rebuildable == Registered \cap WellFormed

ASSUME OutboxAssumption ==
    /\ Units \cap Relays = {}
    /\ EventsOf \in [Units -> Seq(Events)]
    /\ \A u, v \in Units : u # v => EventSet(u) \cap EventSet(v) = {}
    /\ \A u \in Units : \A i, j \in DOMAIN EventsOf[u] :
            i # j => EventsOf[u][i] # EventsOf[u][j]
    /\ Subscribed \in [Events -> SUBSET Subscribers]
    /\ Registered \subseteq Events /\ WellFormed \subseteq Events
    /\ FetchLimit \in Nat \ {0} /\ MaxCrashes \in Nat /\ MaxFaults \in Nat

Statuses == {"PENDING", "PUBLISHED", "FAILED"}
Phases == {"open", "next", "running", "done", "idle"}

VARIABLES row,      \* status of the committed row of each event, or "none"
          phase,    \* where each worker is
          todo,     \* events it has not finished with
          waiting,  \* subscribers the event in hand still waits for
          allOk,    \* all_succeeded of that publish, TRUE between publishes
          runs,     \* completed runs of each subscriber for each event
          raced,    \* events fetched by a relay while another worker had them
          crashes, faults

vars == <<row, phase, todo, waiting, allOk, runs, raced, crashes, faults>>

Rest(w) == IF w \in Units THEN "done" ELSE "idle"

Init ==
    /\ row = [e \in Events |-> "none"]
    /\ phase = [w \in Workers |-> IF w \in Units THEN "open" ELSE "idle"]
    /\ todo = [w \in Workers |-> <<>>]
    /\ waiting = [w \in Workers |-> {}]
    /\ allOk = [w \in Workers |-> TRUE]
    /\ runs = [e \in Events |-> [s \in Subscribers |-> 0]]
    /\ raced = {}
    /\ crashes = 0 /\ faults = 0

--------------------------------------------------------------------------------
\* collect_uncommitted_events, outbox_repo.add of each, session.commit().
CommitUnit(u) ==
    /\ phase[u] = "open"
    /\ row' = [e \in Events |-> IF e \in EventSet(u) THEN "PENDING" ELSE row[e]]
    /\ todo' = [todo EXCEPT ![u] = EventsOf[u]]
    /\ phase' = [phase EXCEPT ![u] = IF EventsOf[u] = <<>> THEN "done" ELSE "next"]
    /\ UNCHANGED <<waiting, allOk, runs, raced, crashes, faults>>

\* Mutant of LeaveUncommitted: the failed commit is swallowed.
PublishUncommitted(u) ==
    /\ phase[u] = "open"
    /\ todo' = [todo EXCEPT ![u] = EventsOf[u]]
    /\ phase' = [phase EXCEPT ![u] = IF EventsOf[u] = <<>> THEN "done" ELSE "next"]
    /\ UNCHANGED <<row, waiting, allOk, runs, raced, crashes, faults>>

\* The body or the commit raises, or the body ends without a commit: rollback
\* and close; the rows were never visible and nothing is published.
LeaveUncommitted(u) ==
    /\ phase[u] = "open"
    /\ phase' = [phase EXCEPT ![u] = "done"]
    /\ UNCHANGED <<row, todo, waiting, allOk, runs, raced, crashes, faults>>

\* Mutant of Pending: the query lost its status filter.
PendingUnfiltered == {e \in Events : row[e] # "none"}

Pending == {e \in Events : row[e] = "PENDING"}

Injective(q) == \A i, j \in DOMAIN q : i # j => q[i] # q[j]

\* created_at_utc is taken event by event inside a unit's commit, so it orders
\* the events of a unit; those of different units may come either way.
CreatedBefore(d, e) ==
    \E u \in Units : \E i, j \in DOMAIN EventsOf[u] :
        i < j /\ EventsOf[u][i] = d /\ EventsOf[u][j] = e

\* Mutant of Batch: ORDER BY ... DESC.
BatchDescending(q) ==
    /\ Len(q) = (IF Cardinality(Pending) < FetchLimit THEN Cardinality(Pending) ELSE FetchLimit)
    /\ Injective(q)
    /\ \A i \in DOMAIN q : \A d \in Pending :
            CreatedBefore(q[i], d) => \E k \in 1 .. (i - 1) : q[k] = d

\* What ORDER BY created_at_utc ASC LIMIT FetchLimit may return.
Batch(q) ==
    /\ Len(q) = (IF Cardinality(Pending) < FetchLimit THEN Cardinality(Pending) ELSE FetchLimit)
    /\ Injective(q)
    /\ \A i \in DOMAIN q : \A d \in Pending :
            CreatedBefore(d, q[i]) => \E k \in 1 .. (i - 1) : q[k] = d

InHand(w) == {todo[w][i] : i \in DOMAIN todo[w]}

\* relay_once starts: fetch_pending.
FetchPending(r) ==
    /\ phase[r] = "idle" /\ Pending # {}
    /\ \E n \in 1 .. FetchLimit : \E q \in [1 .. n -> Pending] :
        /\ Batch(q)
        /\ todo' = [todo EXCEPT ![r] = q]
        /\ raced' = raced \cup {e \in Events : /\ \E i \in 1 .. n : q[i] = e
                                               /\ \E w \in Workers : e \in InHand(w)}
    /\ phase' = [phase EXCEPT ![r] = "next"]
    /\ UNCHANGED <<row, waiting, allOk, runs, crashes, faults>>

--------------------------------------------------------------------------------
\* event_bus.publish: a task for every subscriber of the type.  The relay first
\* has to rebuild the event.
BeginPublish(w) ==
    /\ phase[w] = "next"
    /\ w \in Relays => Head(todo[w]) \in Rebuildable
    /\ waiting' = [waiting EXCEPT ![w] = Subscribed[Head(todo[w])]]
    /\ phase' = [phase EXCEPT ![w] = "running"]
    /\ UNCHANGED <<row, todo, allOk, runs, raced, crashes, faults>>

\* One of the gathered subscribers ends, well or by raising.
SubscriberEnds(w, s) ==
    /\ phase[w] = "running" /\ s \in waiting[w]
    /\ waiting' = [waiting EXCEPT ![w] = @ \ {s}]
    /\ runs' = [runs EXCEPT ![Head(todo[w])][s] = @ + 1]
    /\ \E ok \in BOOLEAN : allOk' = [allOk EXCEPT ![w] = @ /\ ok]
    /\ UNCHANGED <<row, phase, todo, raced, crashes, faults>>

Published(w) == phase[w] = "running" /\ waiting[w] = {}

\* The row in hand gets its status and the worker goes to its next event.
Mark(w, st) ==
    /\ row' = [row EXCEPT ![Head(todo[w])] = st]
    /\ todo' = [todo EXCEPT ![w] = Tail(@)]
    /\ phase' = [phase EXCEPT ![w] = IF Len(todo[w]) = 1 THEN Rest(w) ELSE "next"]
    /\ allOk' = [allOk EXCEPT ![w] = TRUE]
    /\ UNCHANGED <<waiting, runs, raced, crashes>>

\* Mutant of UnitMarks: no mark_failed.
UnitMarksOnlySuccess(u) ==
    Published(u) /\ Mark(u, IF allOk[u] THEN "PUBLISHED" ELSE "PENDING") /\ UNCHANGED faults

\* mark_published or mark_failed, after the value publish returned.
UnitMarks(u) ==
    Published(u) /\ Mark(u, IF allOk[u] THEN "PUBLISHED" ELSE "FAILED") /\ UNCHANGED faults

\* The relay does not look at what publish returned.
RelayMarks(r) == Published(r) /\ Mark(r, "PUBLISHED") /\ UNCHANGED faults

\* Mutant of RelayRefuses: the message is skipped as if delivered.
RelaySkips(r) ==
    /\ phase[r] = "next" /\ Head(todo[r]) \notin Rebuildable
    /\ Mark(r, "PUBLISHED") /\ UNCHANGED faults

\* Mutant of RelayRefuses: an unknown status.
RelayDrops(r) ==
    /\ phase[r] = "next" /\ Head(todo[r]) \notin Rebuildable
    /\ Mark(r, "DEAD") /\ UNCHANGED faults

\* Unknown event type, or a payload event_type(**payload) rejects.
RelayRefuses(r) ==
    /\ phase[r] = "next" /\ Head(todo[r]) \notin Rebuildable
    /\ Mark(r, "FAILED") /\ UNCHANGED faults

\* The worker leaves its loop with an exception; its other rows stay PENDING.
GiveUp(w) ==
    /\ todo' = [todo EXCEPT ![w] = <<>>]
    /\ phase' = [phase EXCEPT ![w] = Rest(w)]
    /\ allOk' = [allOk EXCEPT ![w] = TRUE]
    /\ UNCHANGED <<row, waiting, runs, raced, crashes>>

\* The UPDATE of a mark raises.  In a unit that ends commit(); the relay catches
\* it and tries mark_failed, which works or ends relay_once.
MarkRaises(w) ==
    /\ faults < MaxFaults /\ faults' = faults + 1
    /\ \/ Published(w) /\ GiveUp(w)
       \/ w \in Relays /\ Published(w) /\ Mark(w, "FAILED")
       \/ w \in Relays /\ phase[w] = "next" /\ Head(todo[w]) \notin Rebuildable /\ GiveUp(w)

\* The process dies; units in flight are gone, relays start anew.
Crash ==
    /\ crashes < MaxCrashes /\ crashes' = crashes + 1
    /\ todo' = [w \in Workers |-> <<>>]
    /\ phase' = [w \in Workers |-> Rest(w)]
    /\ waiting' = [w \in Workers |-> {}]
    /\ allOk' = [w \in Workers |-> TRUE]
    /\ UNCHANGED <<row, runs, raced, faults>>

UnitStep(u) == CommitUnit(u) \/ LeaveUncommitted(u) \/ UnitMarks(u)
RelayStep(r) == FetchPending(r) \/ RelayMarks(r) \/ RelayRefuses(r)
Publish(w) == BeginPublish(w) \/ \E s \in Subscribers : SubscriberEnds(w, s)

Next == \/ \E u \in Units : UnitStep(u)
        \/ \E r \in Relays : RelayStep(r)
        \/ \E w \in Workers : Publish(w) \/ MarkRaises(w)
        \/ Crash

\* The event loop keeps running a unit of work and its subscribers end.  Nothing is
\* assumed of the relay, which no part of the program runs.
Fairness == \A u \in Units : WF_vars(UnitStep(u)) /\ WF_vars(Publish(u))

Spec == Init /\ [][Next]_vars
FairSpec == Spec /\ Fairness

--------------------------------------------------------------------------------
\* Every variable has its type.
TypeOK ==
    /\ row \in [Events -> Statuses \cup {"none"}]
    /\ phase \in [Workers -> Phases]
    /\ todo \in [Workers -> Seq(Events)]
    /\ waiting \in [Workers -> SUBSET Subscribers]
    /\ allOk \in [Workers -> BOOLEAN]
    /\ runs \in [Events -> [Subscribers -> Nat]]
    /\ raced \subseteq Events
    /\ crashes \in 0 .. MaxCrashes /\ faults \in 0 .. MaxFaults

\* A row says PUBLISHED only when every subscriber of the event has been run,
\* whoever marked it and whatever crashed in between.
PublishedMeansRun ==
    \A e \in Events : row[e] = "PUBLISHED" => \A s \in Subscribed[e] : runs[e][s] > 0

\* A subscriber sees an event twice only after a crash or a failed mark, or if a
\* relay fetched the row while its unit (or another relay) was still at it.
OnceUnlessRecovered ==
    \A e \in Events : \A s \in Subscribers :
        runs[e][s] > 1 => crashes > 0 \/ faults > 0 \/ e \in raced

\* A subscriber sees the events of one unit in the order they were recorded: when
\* it has run for one, it has run for the earlier ones or they were marked FAILED.
RecordedOrder ==
    \A d, e \in Events : CreatedBefore(d, e) =>
        \A s \in Subscribed[d] \cap Subscribed[e] :
            runs[e][s] > 0 => runs[d][s] > 0 \/ row[d] = "FAILED"

\* A row marked PUBLISHED turns FAILED only if two workers had it at a time, and
\* a marked row never becomes PENDING again.
MarksAreFinal ==
    [][\A e \in Events :
        /\ row[e] = "PUBLISHED" /\ row'[e] # row[e] => row'[e] = "FAILED" /\ e \in raced
        /\ row[e] = "FAILED" /\ row'[e] # row[e] => row'[e] = "PUBLISHED" /\ e \in raced]_vars

\* Without a relay a committed event is run by all its subscribers and its row is
\* marked, whoever else fetches the row meanwhile: for good, a row stays PENDING only
\* after a crash or a failed UPDATE, as the docstring of commit() promises.
SettledUnlessInterrupted ==
    \A e \in Events :
        row[e] # "none" ~>
            \/ row[e] # "PENDING" /\ \A s \in Subscribed[e] : runs[e][s] > 0
            \/ crashes > 0 \/ faults > 0

Delivery == INSTANCE EventDelivery
    WITH UnitEvents <- [u \in Units |-> EventSet(u)],
         committed <- {e \in Events : row[e] # "none"},
         ran <- {x \in Events \X Subscribers : runs[x[1]][x[2]] > 0},
         settled <- {e \in Events : row[e] \in {"PUBLISHED", "FAILED"}}

\* Unit, relay and bus together keep the promise of EventDelivery: rows appear
\* with their whole unit, subscribers only see committed events, and a row is
\* settled only after its subscribers ran or when it cannot be rebuilt.
ImplementsDelivery == Delivery!DSpec
================================================================================
