------------------------------ MODULE OutboxProofs ------------------------------
(***************************************************************************)
(* What Outbox guarantees for any units, relays, events, subscribers,      *)
(* batch limit, number of crashes and number of failed marks.              *)
(*                                                                         *)
(* PublishedMeansRun is inductive once it is known that a publish under    *)
(* way has run whom it no longer waits for (RunOrWaited).  The order of a  *)
(* unit's events needs EarlierFirst: an event is anywhere in a queue only  *)
(* behind the earlier ones that are not settled; the relay's fetch keeps   *)
(* that because a batch holds a PENDING event only behind its earlier      *)
(* PENDING ones.  That nobody sees an event twice, and that a mark is      *)
(* final, need SoleWorker: who is not raced has one worker, and its row    *)
(* is PENDING as long.  The refinement of EventDelivery rests on the same  *)
(* invariant.                                                              *)
(***************************************************************************)
EXTENDS Outbox, SequenceTheorems, TLAPS

\* Worker w has event e among those it has not finished with.
Holds(w, e) == \E i \in DOMAIN todo[w] : todo[w][i] = e

Settled(e) == row[e] \in {"PUBLISHED", "FAILED"}

\* The program counter of a worker says what it has in hand.
WorkerShape ==
    \A w \in Workers :
        /\ phase[w] \in {"next", "running"} <=> todo[w] # <<>>
        /\ phase[w] # "running" => waiting[w] = {}
        /\ phase[w] = "running" => waiting[w] \subseteq Subscribed[Head(todo[w])]
        /\ Injective(todo[w])

\* Nothing is known of an event before its unit has committed.
Unrecorded ==
    /\ \A u \in Units : phase[u] = "open" => \A e \in EventSet(u) : row[e] = "none"
    /\ \A e \in Events : row[e] = "none" =>
           /\ \A s \in Subscribers : runs[e][s] = 0
           /\ \A w \in Workers : ~Holds(w, e)
    /\ \A d, e \in Events : CreatedBefore(d, e) => (row[d] = "none" <=> row[e] = "none")

\* Subscribers of the event in hand that are not waited for any more have run,
\* and only subscribers run.
RunOrWaited ==
    /\ \A w \in Workers : phase[w] = "running" =>
           \A s \in Subscribed[Head(todo[w])] \ waiting[w] : runs[Head(todo[w])][s] > 0
    /\ \A e \in Events : \A s \in Subscribers : runs[e][s] > 0 => s \in Subscribed[e]

\* An event that was never fetched from under a worker has one worker at most,
\* and its row is PENDING while it has one.
SoleWorker ==
    \A e \in Events \ raced : \A w \in Workers : Holds(w, e) =>
        /\ row[e] = "PENDING"
        /\ \A v \in Workers : Holds(v, e) => v = w

\* A worker comes to an event when the earlier ones of its unit are settled.
EarlierFirst ==
    /\ \A w \in Workers : \A i \in DOMAIN todo[w] : \A d \in Events :
           CreatedBefore(d, todo[w][i]) => Settled(d) \/ \E k \in 1 .. (i - 1) : todo[w][k] = d
    /\ \A d, e \in Events : CreatedBefore(d, e) =>
           ((\E s \in Subscribers : runs[e][s] > 0) => Settled(d))

\* Without a crash or a failed mark a PENDING event is in the hands of its unit,
\* and before its publish is under way no subscriber has seen it.
FirstTime ==
    (crashes = 0 /\ faults = 0) =>
        \A e \in Events \ raced :
            /\ row[e] = "PENDING" => \E w \in Workers : Holds(w, e)
            /\ \A s \in Subscribers : runs[e][s] <= 1
            /\ \A w \in Workers : Holds(w, e) =>
                 \A s \in Subscribers :
                    ~(phase[w] = "running" /\ Head(todo[w]) = e) \/ s \in waiting[w]
                        => runs[e][s] = 0

IInv == /\ TypeOK /\ WorkerShape /\ Unrecorded /\ RunOrWaited /\ PublishedMeansRun
        /\ SoleWorker /\ EarlierFirst /\ FirstTime

\* What the actions that mark a row have in common: all subscribers have been
\* waited for, or a relay refuses a row that it cannot rebuild.
Marking(w, st) ==
    /\ Mark(w, st) /\ waiting[w] = {}
    /\ \/ phase[w] = "running"
       \/ phase[w] = "next" /\ Head(todo[w]) \notin Rebuildable /\ st = "FAILED"
    /\ faults' \in 0 .. MaxFaults /\ faults' >= faults

\* What a crash and a mark that raises have in common: some workers drop all
\* they have and nothing else is lost.
Dropping ==
    /\ TypeOK' /\ crashes' + faults' > 0
    /\ row' = row /\ runs' = runs /\ raced' = raced
    /\ \A w \in Workers : \/ /\ todo'[w] = <<>> /\ waiting'[w] = {}
                             /\ phase'[w] \in {"done", "idle"}
                          \/ /\ todo'[w] = todo[w] /\ waiting'[w] = waiting[w]
                             /\ phase'[w] = phase[w]
--------------------------------------------------------------------------------
\* What the rest of a queue is.
LEMMA QueueFacts ==
    ASSUME NEW q \in Seq(Events), q # <<>>
    PROVE  /\ Head(q) = q[1] /\ Head(q) \in Events /\ 1 \in DOMAIN q
           /\ Tail(q) \in Seq(Events) /\ Len(q) \in Nat
           /\ DOMAIN q = 1 .. Len(q) /\ DOMAIN Tail(q) = 1 .. (Len(q) - 1)
           /\ \A i \in 1 .. (Len(q) - 1) : Tail(q)[i] = q[i + 1]
           /\ Tail(q) = <<>> <=> Len(q) = 1
<1>1. Len(q) \in Nat \ {0} /\ DOMAIN q = 1 .. Len(q) /\ \A i \in 1 .. Len(q) : q[i] \in Events
    BY EmptySeq, LenProperties, ElementOfSeq
<1>2. /\ Head(q) \in Events /\ Tail(q) \in Seq(Events) /\ Len(Tail(q)) = Len(q) - 1
      /\ \A i \in 1 .. Len(Tail(q)) : Tail(q)[i] = q[i + 1]
    BY HeadTailProperties
<1>3. DOMAIN Tail(q) = 1 .. (Len(q) - 1)
    BY <1>2, LenProperties
<1>4. Tail(q) = <<>> <=> Len(q) = 1
  <2> DEFINE t == Tail(q)
  <2>0. <<>> \in Seq(Events) /\ Len(<<>>) = 0
      BY EmptySeq
  <2>3. t \in Seq(Events) /\ Len(t) = Len(q) - 1
      BY <1>2
  <2> HIDE DEF t
  <2>1. ASSUME t = <<>> PROVE Len(q) = 1
    <3>1. Len(t) = 0
        BY ONLY <2>0, <2>1, Zenon
    <3> DEFINE n == Len(q)
               k == Len(t)
    <3>2. n \in Nat /\ k = n - 1 /\ k = 0
        BY <1>1, <2>3, <3>1
    <3> HIDE DEF n, k
    <3>3. n = 1
        BY <3>2
    <3> QED
        BY <3>3 DEF n
  <2>2. ASSUME Len(q) = 1 PROVE t = <<>>
      BY <1>1, <2>0, <2>2, <2>3, SeqEqual
  <2> QED
      BY <2>1, <2>2 DEF t
<1> QED
    BY <1>1, <1>2, <1>3, <1>4

\* A worker with an event in hand.
LEMMA InHandFacts ==
    ASSUME TypeOK, WorkerShape, NEW w \in Workers, phase[w] \in {"next", "running"}
    PROVE  /\ todo[w] \in Seq(Events) /\ todo[w] # <<>>
           /\ Head(todo[w]) \in Events /\ Head(todo[w]) = todo[w][1] /\ 1 \in DOMAIN todo[w]
           /\ Holds(w, Head(todo[w]))
<1>1. todo[w] \in Seq(Events) /\ todo[w] # <<>>
    BY DEF TypeOK, WorkerShape
<1> QED
    BY <1>1, QueueFacts DEF Holds

\* A queue that is finished holds nothing.
LEMMA EmptyHolds == ASSUME NEW w, todo[w] = <<>> PROVE \A e : ~Holds(w, e)
BY DEF Holds

\* The state a mark or a crash leaves a worker in.
LEMMA RestType == ASSUME NEW w \in Workers PROVE Rest(w) \in {"done", "idle"}
BY DEF Rest

\* One unit has recorded both an event and the earlier ones.
LEMMA SameUnit ==
    ASSUME NEW u \in Units, NEW i \in DOMAIN EventsOf[u], NEW d,
           CreatedBefore(d, EventsOf[u][i])
    PROVE  \E j \in DOMAIN EventsOf[u] : j < i /\ EventsOf[u][j] = d
<1>1. PICK v \in Units : \E j, k \in DOMAIN EventsOf[v] :
          j < k /\ EventsOf[v][j] = d /\ EventsOf[v][k] = EventsOf[u][i]
    BY DEF CreatedBefore
<1>2. EventsOf[u][i] \in EventSet(u) \cap EventSet(v)
    BY <1>1 DEF EventSet
<1>3. u = v
    BY <1>2, OutboxAssumption
<1> QED
    BY <1>1, <1>3, OutboxAssumption

\* The events of a unit are events, and those created before one of them too.
LEMMA EventsOfUnit ==
    ASSUME NEW u \in Units
    PROVE  /\ EventsOf[u] \in Seq(Events) /\ EventSet(u) \subseteq Events
           /\ Injective(EventsOf[u]) /\ DOMAIN EventsOf[u] = 1 .. Len(EventsOf[u])
           /\ \A d, e : CreatedBefore(d, e) => (d \in EventSet(u) <=> e \in EventSet(u))
<1>1. EventsOf[u] \in Seq(Events)
    BY OutboxAssumption
<1>2. EventSet(u) \subseteq Events
    BY <1>1, ElementOfSeq, LenProperties DEF EventSet
<1>3. Injective(EventsOf[u])
    BY OutboxAssumption DEF Injective
<1>4. ASSUME NEW d, NEW e, CreatedBefore(d, e) PROVE d \in EventSet(u) <=> e \in EventSet(u)
  <2>1. PICK v \in Units : d \in EventSet(v) /\ e \in EventSet(v)
      BY <1>4 DEF CreatedBefore, EventSet
  <2> QED
      BY <2>1, OutboxAssumption
<1>5. DOMAIN EventsOf[u] = 1 .. Len(EventsOf[u])
    BY <1>1, LenProperties
<1> QED
    BY <1>1, <1>2, <1>3, <1>4, <1>5
--------------------------------------------------------------------------------
\* A unit commits: its rows and its queue appear together.
LEMMA CommitStep == ASSUME IInv, NEW u \in Units, CommitUnit(u) PROVE IInv'
<1> USE DEF IInv
<1>w. u \in Workers /\ phase[u] = "open"
    BY DEF Workers, CommitUnit
<1>e. /\ EventsOf[u] \in Seq(Events) /\ EventSet(u) \subseteq Events
      /\ Injective(EventsOf[u]) /\ DOMAIN EventsOf[u] = 1 .. Len(EventsOf[u])
      /\ \A d, e : CreatedBefore(d, e) => (d \in EventSet(u) <=> e \in EventSet(u))
    BY EventsOfUnit
<1>a. /\ row' = [e \in Events |-> IF e \in EventSet(u) THEN "PENDING" ELSE row[e]]
      /\ todo' = [todo EXCEPT ![u] = EventsOf[u]]
      /\ phase' = [phase EXCEPT ![u] = IF EventsOf[u] = <<>> THEN "done" ELSE "next"]
      /\ waiting' = waiting /\ allOk' = allOk /\ runs' = runs /\ raced' = raced
      /\ crashes' = crashes /\ faults' = faults
    BY DEF CommitUnit
<1>n. /\ \A e \in EventSet(u) : row[e] = "none" /\ row'[e] = "PENDING"
      /\ \A e \in Events \ EventSet(u) : row'[e] = row[e]
    BY <1>a, <1>e, <1>w DEF Unrecorded
<1>1. TypeOK'
    BY <1>a, <1>e DEF TypeOK, Statuses, Phases
<1>2. /\ todo'[u] = EventsOf[u] /\ \A w \in Workers \ {u} : todo'[w] = todo[w] /\ phase'[w] = phase[w]
      /\ phase'[u] \in {"done", "next"} /\ (phase'[u] = "next" <=> EventsOf[u] # <<>>)
    BY <1>a, <1>w DEF TypeOK
<1>3. \A e : \A w \in Workers : Holds(w, e)' <=> IF w = u THEN e \in EventSet(u) ELSE Holds(w, e)
    BY <1>2 DEF Holds, EventSet
<1>4. \A e \in EventSet(u) : /\ \A w \in Workers : ~Holds(w, e)
                             /\ \A s \in Subscribers : runs[e][s] = 0
    BY <1>e, <1>n DEF Unrecorded
<1>5. WorkerShape'
    BY <1>a, <1>2, <1>e, <1>w DEF WorkerShape, Injective
<1>6. Unrecorded'
  <2>1. ASSUME NEW v \in Units, phase'[v] = "open", NEW e \in EventSet(v)
        PROVE  row'[e] = "none"
    <3>1. v # u /\ phase[v] = "open" /\ v \in Workers
        BY <2>1, <1>2 DEF Workers
    <3>2. e \notin EventSet(u)
        BY <3>1, OutboxAssumption
    <3>3. e \in Events
        BY EventsOfUnit
    <3> QED
        BY <3>1, <3>2, <3>3, <1>n DEF Unrecorded
  <2>2. ASSUME NEW e \in Events, row'[e] = "none"
        PROVE  (\A s \in Subscribers : runs'[e][s] = 0) /\ \A w \in Workers : ~Holds(w, e)'
      BY <2>2, <1>a, <1>n, <1>3 DEF Unrecorded
  <2>3. \A d, e \in Events : CreatedBefore(d, e) => (row'[d] = "none" <=> row'[e] = "none")
      BY <1>n, <1>e DEF Unrecorded
  <2> QED
      BY <2>1, <2>2, <2>3 DEF Unrecorded, CreatedBefore, EventSet
<1>7. RunOrWaited' /\ PublishedMeansRun'
    BY <1>a, <1>2, <1>n, <1>w DEF RunOrWaited, PublishedMeansRun
<1>8. SoleWorker'
    BY <1>a, <1>3, <1>4, <1>n DEF SoleWorker
<1>9. EarlierFirst'
  <2>1. ASSUME NEW w \in Workers, NEW i \in DOMAIN todo'[w], NEW d \in Events,
               CreatedBefore(d, todo'[w][i])
        PROVE  Settled(d)' \/ \E k \in 1 .. (i - 1) : todo'[w][k] = d
    <3>1. CASE w = u
      <4>1. PICK j \in DOMAIN EventsOf[u] : j < i /\ EventsOf[u][j] = d
          BY <3>1, <2>1, <1>2, SameUnit
      <4>2. j \in 1 .. (i - 1)
          BY <4>1, <3>1, <1>2, <1>e
      <4> QED
          BY <4>1, <4>2, <3>1, <1>2
    <3>2. CASE w # u
      <4>1. Settled(d) \/ \E k \in 1 .. (i - 1) : todo[w][k] = d
          BY <3>2, <2>1, <1>2 DEF EarlierFirst
      <4>2. Settled(d) => Settled(d)'
          BY <1>n DEF Settled
      <4> QED
          BY <4>1, <4>2, <3>2, <1>2
    <3> QED
        BY <3>1, <3>2
  <2>2. \A d, e \in Events : CreatedBefore(d, e) =>
            ((\E s \in Subscribers : runs'[e][s] > 0) => Settled(d)')
      BY <1>a, <1>n DEF EarlierFirst, Settled
  <2> QED
      BY <2>1, <2>2 DEF EarlierFirst, CreatedBefore
<1>10. FirstTime'
  <2> SUFFICES ASSUME crashes = 0, faults = 0, NEW e \in Events \ raced
               PROVE  /\ row'[e] = "PENDING" => \E w \in Workers : Holds(w, e)'
                      /\ \A s \in Subscribers : runs[e][s] <= 1
                      /\ \A w \in Workers : Holds(w, e)' =>
                            \A s \in Subscribers :
                               ~(phase'[w] = "running" /\ Head(todo'[w]) = e) \/ s \in waiting[w]
                                 => runs[e][s] = 0
      BY <1>a DEF FirstTime
  <2>1. CASE e \in EventSet(u)
      BY <2>1, <1>3, <1>4, <1>w
  <2>2. CASE e \notin EventSet(u)
    <3>1. row'[e] = "PENDING" => \E w \in Workers : Holds(w, e)'
      <4>1. \A w \in Workers : Holds(w, e) => w # u
          BY <1>w, EmptyHolds DEF WorkerShape
      <4> QED
          BY <2>2, <1>n, <1>3, <4>1 DEF FirstTime
    <3>2. \A w \in Workers : Holds(w, e)' => Holds(w, e) /\ w # u
        BY <2>2, <1>3
    <3> QED
        BY <3>1, <3>2, <1>2 DEF FirstTime
  <2> QED
      BY <2>1, <2>2
<1> QED
    BY <1>1, <1>5, <1>6, <1>7, <1>8, <1>9, <1>10

\* A unit that rolls back leaves no trace.
LEMMA LeaveStep == ASSUME IInv, NEW u \in Units, LeaveUncommitted(u) PROVE IInv'
<1> USE DEF IInv
<1>a. /\ u \in Workers /\ phase[u] = "open" /\ phase' = [phase EXCEPT ![u] = "done"]
      /\ row' = row /\ todo' = todo /\ waiting' = waiting /\ allOk' = allOk /\ runs' = runs
      /\ raced' = raced /\ crashes' = crashes /\ faults' = faults
    BY DEF LeaveUncommitted, Workers
<1>1. TypeOK'
    BY <1>a DEF TypeOK, Phases
<1>2. \A w \in Workers : \/ w # u /\ phase'[w] = phase[w]
                         \/ w = u /\ phase'[w] = "done" /\ phase[w] = "open"
    BY <1>a DEF TypeOK
<1>3. todo[u] = <<>> /\ waiting[u] = {} /\ \A e : ~Holds(u, e)
    BY <1>a, EmptyHolds DEF WorkerShape
<1>4. \A w \in Workers : \A e : Holds(w, e)' <=> Holds(w, e)
    BY <1>a DEF Holds
<1>5. WorkerShape'
    BY <1>a, <1>2, <1>3 DEF WorkerShape
<1>6. Unrecorded'
  <2>1. \A v \in Units : phase'[v] = "open" => phase[v] = "open"
      BY <1>2 DEF Workers
  <2> QED
      BY <1>a, <1>4, <2>1 DEF Unrecorded, CreatedBefore, EventSet
<1>7. RunOrWaited' /\ PublishedMeansRun'
    BY <1>a, <1>2 DEF RunOrWaited, PublishedMeansRun
<1>8. SoleWorker'
    BY <1>a, <1>4 DEF SoleWorker
<1>9. EarlierFirst'
    BY <1>a DEF EarlierFirst, Settled, CreatedBefore
<1>10. FirstTime'
    BY <1>a, <1>2, <1>3, <1>4 DEF FirstTime
<1> QED
    BY <1>1, <1>5, <1>6, <1>7, <1>8, <1>9, <1>10

\* The relay takes a batch. What somebody has already becomes raced; what is
\* missing from the batch is settled, so that the order is kept.
LEMMA FetchStep == ASSUME IInv, NEW r \in Relays, FetchPending(r) PROVE IInv'
<1> USE DEF IInv
<1>a. /\ r \in Workers /\ phase[r] = "idle" /\ phase' = [phase EXCEPT ![r] = "next"]
      /\ row' = row /\ waiting' = waiting /\ allOk' = allOk /\ runs' = runs
      /\ crashes' = crashes /\ faults' = faults
    BY DEF FetchPending, Workers
<1>b. PICK n \in 1 .. FetchLimit : \E q \in [1 .. n -> Pending] :
        /\ Batch(q)
        /\ todo' = [todo EXCEPT ![r] = q]
        /\ raced' = raced \cup {e \in Events : /\ \E i \in 1 .. n : q[i] = e
                                               /\ \E w \in Workers : e \in InHand(w)}
    BY DEF FetchPending
<1>c. PICK q \in [1 .. n -> Pending] :
        /\ Batch(q)
        /\ todo' = [todo EXCEPT ![r] = q]
        /\ raced' = raced \cup {e \in Events : /\ \E i \in 1 .. n : q[i] = e
                                               /\ \E w \in Workers : e \in InHand(w)}
    BY <1>b
<1>n. n \in Nat /\ n > 0 /\ DOMAIN q = 1 .. n
    BY OutboxAssumption
<1>p. \A i \in 1 .. n : q[i] \in Events /\ row[q[i]] = "PENDING"
    BY DEF Pending
<1>q. q \in Seq(Events) /\ q # <<>>
  <2>1. q \in [1 .. n -> Events]
      BY <1>p
  <2>2. q \in Seq(Events)
      BY <1>n, <2>1, SeqDef
  <2>3. 1 \in DOMAIN q
      BY <1>n
  <2> QED
      BY <2>2, <2>3
<1>1. TypeOK'
    BY <1>a, <1>c, <1>q DEF TypeOK, Phases
<1>2. /\ todo'[r] = q /\ phase'[r] = "next"
      /\ \A w \in Workers \ {r} : todo'[w] = todo[w] /\ phase'[w] = phase[w]
    BY <1>a, <1>c DEF TypeOK
<1>3. \A e : \A w \in Workers : Holds(w, e)' <=>
             IF w = r THEN \E i \in 1 .. n : q[i] = e ELSE Holds(w, e)
    BY <1>2, <1>n DEF Holds
<1>4. todo[r] = <<>> /\ waiting[r] = {} /\ \A e : ~Holds(r, e)
    BY <1>a, EmptyHolds DEF WorkerShape
<1>5. /\ raced \subseteq raced'
      /\ \A e \in Events : (\E i \in 1 .. n : q[i] = e) /\ (\E w \in Workers : Holds(w, e))
                             => e \in raced'
    BY <1>c DEF InHand, Holds
<1>6. WorkerShape'
    BY <1>a, <1>2, <1>4, <1>q, <1>c DEF WorkerShape, Batch, Injective
<1>7. Unrecorded'
  <2>1. \A v \in Units : phase'[v] = "open" => phase[v] = "open"
      BY <1>2 DEF Workers
  <2>2. \A e \in Events : row[e] = "none" => \A w \in Workers : ~Holds(w, e)'
      BY <1>3, <1>p DEF Unrecorded
  <2> QED
      BY <1>a, <2>1, <2>2 DEF Unrecorded, CreatedBefore, EventSet
<1>8. RunOrWaited' /\ PublishedMeansRun'
    BY <1>a, <1>2 DEF RunOrWaited, PublishedMeansRun
<1>9. SoleWorker'
  <2> SUFFICES ASSUME NEW e \in Events \ raced', NEW w \in Workers, Holds(w, e)'
               PROVE  row[e] = "PENDING" /\ \A v \in Workers : Holds(v, e)' => v = w
      BY <1>a DEF SoleWorker
  <2>1. CASE \E i \in 1 .. n : q[i] = e
    <3>1. \A v \in Workers : ~Holds(v, e)
        BY <2>1, <1>5
    <3>2. \A v \in Workers : Holds(v, e)' => v = r
        BY <1>3, <3>1
    <3> QED
        BY <2>1, <1>p, <3>2
  <2>2. CASE ~\E i \in 1 .. n : q[i] = e
    <3>1. \A v \in Workers : Holds(v, e)' => Holds(v, e)
        BY <2>2, <1>3
    <3> QED
        BY <3>1, <1>5 DEF SoleWorker
  <2> QED
      BY <2>1, <2>2
<1>10. EarlierFirst'
  <2>1. ASSUME NEW w \in Workers, NEW i \in DOMAIN todo'[w], NEW d \in Events,
               CreatedBefore(d, todo'[w][i])
        PROVE  Settled(d) \/ \E k \in 1 .. (i - 1) : todo'[w][k] = d
    <3>1. CASE w = r
      <4>1. i \in 1 .. n /\ CreatedBefore(d, q[i])
          BY <3>1, <2>1, <1>2, <1>n
      <4>2. CASE row[d] = "PENDING"
        <5>1. d \in Pending
            BY <4>2 DEF Pending
        <5> QED
            BY <5>1, <4>1, <3>1, <1>2, <1>c, <1>n DEF Batch
      <4>3. CASE row[d] # "PENDING"
        <5>1. row[d] # "none"
            BY <4>1, <1>p DEF Unrecorded
        <5> QED
            BY <5>1, <4>3 DEF TypeOK, Statuses, Settled
      <4> QED
          BY <4>2, <4>3
    <3>2. CASE w # r
        BY <3>2, <2>1, <1>2 DEF EarlierFirst
    <3> QED
        BY <3>1, <3>2
  <2> QED
      BY <2>1, <1>a DEF EarlierFirst, Settled, CreatedBefore
<1>11. FirstTime'
  <2> SUFFICES ASSUME crashes = 0, faults = 0, NEW e \in Events \ raced'
               PROVE  /\ row[e] = "PENDING" => \E w \in Workers : Holds(w, e)'
                      /\ \A s \in Subscribers : runs[e][s] <= 1
                      /\ \A w \in Workers : Holds(w, e)' =>
                            \A s \in Subscribers :
                               ~(phase'[w] = "running" /\ Head(todo'[w]) = e) \/ s \in waiting[w]
                                 => runs[e][s] = 0
      BY <1>a DEF FirstTime
  <2>1. e \in Events \ raced
      BY <1>5
  <2>2. ~\E i \in 1 .. n : q[i] = e
    <3>1. row[e] = "PENDING" => \E w \in Workers : Holds(w, e)
        BY <2>1 DEF FirstTime
    <3> QED
        BY <3>1, <1>5, <1>p
  <2>3. \A w \in Workers : Holds(w, e)' <=> Holds(w, e) /\ w # r
      BY <2>2, <1>3, <1>4
  <2>4. \A w \in Workers : Holds(w, e) => w # r
      BY <1>4
  <2> QED
      BY <2>1, <2>3, <2>4, <1>2 DEF FirstTime
<1> QED
    BY <1>1, <1>6, <1>7, <1>8, <1>9, <1>10, <1>11

\* A publish starts: the worker now waits for all subscribers of its event.
LEMMA BeginStep == ASSUME IInv, NEW w \in Workers, BeginPublish(w) PROVE IInv'
<1> USE DEF IInv
<1>a. /\ phase[w] = "next" /\ phase' = [phase EXCEPT ![w] = "running"]
      /\ waiting' = [waiting EXCEPT ![w] = Subscribed[Head(todo[w])]]
      /\ row' = row /\ todo' = todo /\ allOk' = allOk /\ runs' = runs
      /\ raced' = raced /\ crashes' = crashes /\ faults' = faults
    BY DEF BeginPublish
<1>h. Head(todo[w]) \in Events /\ todo[w] # <<>> /\ Holds(w, Head(todo[w]))
    BY <1>a, InHandFacts
<1>s. Subscribed[Head(todo[w])] \subseteq Subscribers
    BY <1>h, OutboxAssumption
<1>1. TypeOK'
    BY <1>a, <1>s DEF TypeOK, Phases
<1>2. /\ phase'[w] = "running" /\ waiting'[w] = Subscribed[Head(todo[w])]
      /\ \A v \in Workers \ {w} : phase'[v] = phase[v] /\ waiting'[v] = waiting[v]
    BY <1>a DEF TypeOK
<1>3. \A v \in Workers : \A e : Holds(v, e)' <=> Holds(v, e)
    BY <1>a DEF Holds
<1>4. WorkerShape'
    BY <1>a, <1>2, <1>h DEF WorkerShape
<1>5. Unrecorded'
  <2>1. \A v \in Units : phase'[v] = "open" => phase[v] = "open"
      BY <1>2 DEF Workers
  <2> QED
      BY <1>a, <1>3, <2>1 DEF Unrecorded, CreatedBefore, EventSet
<1>6. RunOrWaited' /\ PublishedMeansRun'
    BY <1>a, <1>2 DEF RunOrWaited, PublishedMeansRun
<1>7. SoleWorker'
    BY <1>a, <1>3 DEF SoleWorker
<1>8. EarlierFirst'
    BY <1>a DEF EarlierFirst, Settled, CreatedBefore
<1>9. FirstTime'
    BY <1>a, <1>2, <1>3 DEF FirstTime
<1> QED
    BY <1>1, <1>4, <1>5, <1>6, <1>7, <1>8, <1>9

\* A subscriber ends: it has now run for the event in hand, for which it had
\* not run before unless somebody recovered or raced.
LEMMA SubscriberStep ==
    ASSUME IInv, NEW w \in Workers, NEW s \in Subscribers, SubscriberEnds(w, s) PROVE IInv'
<1> USE DEF IInv
<1> DEFINE h == Head(todo[w])
<1>a. /\ phase[w] = "running" /\ s \in waiting[w] /\ phase' = phase
      /\ waiting' = [waiting EXCEPT ![w] = @ \ {s}]
      /\ runs' = [runs EXCEPT ![h][s] = @ + 1]
      /\ row' = row /\ todo' = todo /\ raced' = raced /\ crashes' = crashes /\ faults' = faults
    BY DEF SubscriberEnds
<1>b. allOk' \in [Workers -> BOOLEAN]
    BY DEF SubscriberEnds, TypeOK
<1>h. h \in Events /\ h = todo[w][1] /\ 1 \in DOMAIN todo[w] /\ Holds(w, h)
    BY <1>a, InHandFacts
<1>s. s \in Subscribed[h]
    BY <1>a DEF WorkerShape
<1> HIDE DEF h
<1>1. /\ \A e \in Events : \A x \in Subscribers :
            runs'[e][x] = IF e = h /\ x = s THEN runs[e][x] + 1 ELSE runs[e][x]
      /\ \A e \in Events : \A x \in Subscribers : runs[e][x] \in Nat
    BY <1>a, <1>h DEF TypeOK
<1>2. TypeOK'
  <2>1. /\ [runs[h] EXCEPT ![s] = runs[h][s] + 1] \in [Subscribers -> Nat]
        /\ runs' = [runs EXCEPT ![h] = [runs[h] EXCEPT ![s] = runs[h][s] + 1]]
      BY <1>a, <1>h DEF TypeOK
  <2>2. runs' \in [Events -> [Subscribers -> Nat]]
      BY <2>1, <1>h DEF TypeOK
  <2>3. waiting' \in [Workers -> SUBSET Subscribers]
      BY <1>a DEF TypeOK
  <2> QED
      BY <2>2, <2>3, <1>a, <1>b DEF TypeOK
<1>3. /\ waiting'[w] = waiting[w] \ {s} /\ \A v \in Workers \ {w} : waiting'[v] = waiting[v]
    BY <1>a DEF TypeOK
<1>4. \A v \in Workers : \A e : Holds(v, e)' <=> Holds(v, e)
    BY <1>a DEF Holds
<1>5. WorkerShape'
    BY <1>a, <1>3 DEF WorkerShape
<1>6. row[h] # "none"
    BY <1>h DEF Unrecorded
<1>7. Unrecorded'
    BY <1>a, <1>1, <1>4, <1>6 DEF Unrecorded, CreatedBefore, EventSet
<1>8. \A e \in Events : \A x \in Subscribers : runs[e][x] > 0 => runs'[e][x] > 0
    BY <1>1
<1>9. RunOrWaited'
  <2>1. ASSUME NEW v \in Workers, phase'[v] = "running",
               NEW x \in Subscribed[Head(todo'[v])] \ waiting'[v]
        PROVE  runs'[Head(todo'[v])][x] > 0
    <3>1. /\ phase[v] = "running" /\ Head(todo[v]) \in Events /\ todo'[v] = todo[v]
          /\ x \in Subscribers
        BY <2>1, <1>a, InHandFacts, OutboxAssumption
    <3>2. CASE x \in waiting[v]
      <4>1. v = w /\ x = s
          BY <3>2, <2>1, <1>3
      <4> QED
          BY <4>1, <3>1, <1>1, <1>h DEF h
    <3>3. CASE x \notin waiting[v]
        BY <3>1, <3>3, <2>1, <1>8 DEF RunOrWaited
    <3> QED
        BY <3>2, <3>3
  <2>2. ASSUME NEW e \in Events, NEW x \in Subscribers, runs'[e][x] > 0
        PROVE  x \in Subscribed[e]
      BY <2>2, <1>1, <1>s DEF RunOrWaited
  <2> QED
      BY <2>1, <2>2 DEF RunOrWaited
<1>10. PublishedMeansRun'
    BY <1>a, <1>8, OutboxAssumption DEF PublishedMeansRun
<1>11. SoleWorker'
    BY <1>a, <1>4 DEF SoleWorker
<1>12. EarlierFirst'
  <2>1. ASSUME NEW d \in Events, NEW e \in Events, CreatedBefore(d, e),
               NEW x \in Subscribers, runs'[e][x] > 0
        PROVE  Settled(d)
    <3>1. CASE e = h
      <4>1. Settled(d) \/ \E k \in 1 .. (1 - 1) : todo[w][k] = d
          BY <3>1, <2>1, <1>h DEF EarlierFirst
      <4> QED
          BY <4>1
    <3>2. CASE e # h
        BY <3>2, <2>1, <1>1 DEF EarlierFirst
    <3> QED
        BY <3>1, <3>2
  <2> QED
      BY <2>1, <1>a DEF EarlierFirst, Settled, CreatedBefore
<1>13. FirstTime'
  <2> SUFFICES ASSUME crashes = 0, faults = 0, NEW e \in Events \ raced
               PROVE  /\ row[e] = "PENDING" => \E v \in Workers : Holds(v, e)'
                      /\ \A x \in Subscribers : runs'[e][x] <= 1
                      /\ \A v \in Workers : Holds(v, e)' =>
                            \A x \in Subscribers :
                               ~(phase[v] = "running" /\ Head(todo[v]) = e) \/ x \in waiting'[v]
                                 => runs'[e][x] = 0
      BY <1>a DEF FirstTime
  <2>1. row[e] = "PENDING" => \E v \in Workers : Holds(v, e)'
      BY <1>4 DEF FirstTime
  <2>2. CASE e = h
    <3>1. /\ \A v \in Workers : Holds(v, e) => v = w
          /\ runs[e][s] = 0
        BY <2>2, <1>h, <1>a DEF SoleWorker, FirstTime
    <3>2. \A x \in Subscribers : runs'[e][x] <= 1
        BY <3>1, <2>2, <1>1 DEF FirstTime
    <3>3. \A x \in Subscribers : x \in waiting'[w] => runs'[e][x] = 0
        BY <2>2, <1>1, <1>3, <1>h DEF FirstTime
    <3>4. phase[w] = "running" /\ Head(todo[w]) = e
        BY <2>2, <1>a DEF h
    <3> QED
        BY <2>1, <3>1, <3>2, <3>3, <3>4, <1>4
  <2>3. CASE e # h
    <3>1. \A x \in Subscribers : runs'[e][x] = runs[e][x]
        BY <2>3, <1>1
    <3>2. \A v \in Workers : waiting'[v] \subseteq waiting[v]
        BY <1>3
    <3> QED
        BY <2>1, <3>1, <3>2, <1>4 DEF FirstTime
  <2> QED
      BY <2>2, <2>3
<1> QED
    BY <1>2, <1>5, <1>7, <1>9, <1>10, <1>11, <1>12, <1>13

\* A mark takes exactly the event in hand off the queue of its worker.
LEMMA TailHolds ==
    ASSUME TypeOK, WorkerShape, NEW w \in Workers, phase[w] \in {"next", "running"},
           todo' = [todo EXCEPT ![w] = Tail(@)]
    PROVE  /\ todo'[w] = Tail(todo[w]) /\ \A v \in Workers \ {w} : todo'[v] = todo[v]
           /\ \A v \in Workers : \A e : Holds(v, e)' <=> Holds(v, e) /\ ~(v = w /\ e = Head(todo[w]))
           /\ Injective(todo'[w])
<1> DEFINE q == todo[w]
           m == Len(todo[w])
<1>1. todo'[w] = Tail(q) /\ \A v \in Workers \ {w} : todo'[v] = todo[v]
    BY DEF TypeOK
<1>2. /\ Head(q) = q[1] /\ m \in Nat /\ DOMAIN q = 1 .. m
      /\ DOMAIN Tail(q) = 1 .. (m - 1) /\ \A i \in 1 .. (m - 1) : Tail(q)[i] = q[i + 1]
      /\ 1 \in DOMAIN q
    BY InHandFacts, QueueFacts
<1>3. \A i, j \in 1 .. m : i # j => q[i] # q[j]
    BY <1>2 DEF WorkerShape, Injective
<1> HIDE DEF q, m
<1>4. ASSUME NEW e PROVE (\E i \in 1 .. (m - 1) : Tail(q)[i] = e) <=> (\E i \in 1 .. m : q[i] = e) /\ e # q[1]
  <2>1. ASSUME NEW i \in 1 .. (m - 1), Tail(q)[i] = e PROVE (\E k \in 1 .. m : q[k] = e) /\ e # q[1]
    <3>1. i + 1 \in 1 .. m /\ i + 1 # 1 /\ 1 \in 1 .. m
        BY <1>2
    <3> QED
        BY <3>1, <2>1, <1>2, <1>3
  <2>2. ASSUME NEW i \in 1 .. m, q[i] = e, e # q[1] PROVE \E k \in 1 .. (m - 1) : Tail(q)[k] = e
    <3>1. i - 1 \in 1 .. (m - 1) /\ (i - 1) + 1 = i
        BY <2>2, <1>2
    <3> QED
        BY <3>1, <2>2, <1>2
  <2> QED
      BY <2>1, <2>2
<1>5. ASSUME NEW v \in Workers, NEW e
      PROVE  Holds(v, e)' <=> Holds(v, e) /\ ~(v = w /\ e = Head(q))
  <2>1. CASE v = w
    <3>1. /\ Holds(v, e)' <=> \E i \in DOMAIN Tail(q) : Tail(q)[i] = e
          /\ Holds(v, e) <=> \E i \in DOMAIN q : q[i] = e
        BY <2>1, <1>1 DEF Holds, q
    <3> QED
        BY <3>1, <2>1, <1>2, <1>4
  <2>2. CASE v # w
      BY <2>2, <1>1 DEF Holds
  <2> QED
      BY <2>1, <2>2
<1>6. Injective(Tail(q))
  <2> SUFFICES ASSUME NEW i \in 1 .. (m - 1), NEW j \in 1 .. (m - 1), i # j
               PROVE  Tail(q)[i] # Tail(q)[j]
      BY <1>2 DEF Injective
  <2>1. i + 1 \in 1 .. m /\ j + 1 \in 1 .. m /\ i + 1 # j + 1
      BY <1>2
  <2> QED
      BY <2>1, <1>2, <1>3
<1> QED
    BY <1>1, <1>5, <1>6 DEF q

\* A worker marks the row in hand. The subscribers of a row that is marked
\* PUBLISHED have been waited for; the events behind it move up by one.
LEMMA MarkStep ==
    ASSUME IInv, NEW w \in Workers, NEW st \in {"PUBLISHED", "FAILED"}, Marking(w, st)
    PROVE  IInv'
<1> USE DEF IInv
<1>m. /\ phase[w] \in {"next", "running"} /\ waiting[w] = {}
      /\ st = "PUBLISHED" => phase[w] = "running"
      /\ Mark(w, st) /\ faults' \in 0 .. MaxFaults /\ faults' >= faults
    BY DEF Marking
<1> USE <1>m
<1> DEFINE h == Head(todo[w])
<1>a. /\ row' = [row EXCEPT ![h] = st]
      /\ todo' = [todo EXCEPT ![w] = Tail(@)]
      /\ phase' = [phase EXCEPT ![w] = IF Len(todo[w]) = 1 THEN Rest(w) ELSE "next"]
      /\ allOk' = [allOk EXCEPT ![w] = TRUE]
      /\ waiting' = waiting /\ runs' = runs /\ raced' = raced /\ crashes' = crashes
    BY <1>m DEF Mark
<1>b. waiting' = waiting /\ runs' = runs /\ raced' = raced /\ crashes' = crashes
    BY <1>a
<1>h. /\ h \in Events /\ h = todo[w][1] /\ 1 \in DOMAIN todo[w] /\ Holds(w, h)
      /\ todo[w] \in Seq(Events) /\ todo[w] # <<>>
    BY InHandFacts
<1>q. /\ Tail(todo[w]) \in Seq(Events) /\ (Tail(todo[w]) = <<>> <=> Len(todo[w]) = 1)
    BY <1>h, QueueFacts
<1>t. /\ todo'[w] = Tail(todo[w]) /\ \A v \in Workers \ {w} : todo'[v] = todo[v]
      /\ \A v \in Workers : \A e : Holds(v, e)' <=> Holds(v, e) /\ ~(v = w /\ e = h)
      /\ Injective(todo'[w])
    BY <1>a, TailHolds
<1>p. /\ phase'[w] \in {"next", "done", "idle"}
      /\ (phase'[w] = "next" <=> todo'[w] # <<>>)
      /\ \A v \in Workers \ {w} : phase'[v] = phase[v]
    BY <1>a, <1>q, <1>t, RestType DEF TypeOK
<1> HIDE DEF h
<1>r. /\ row'[h] = st /\ \A e \in Events \ {h} : row'[e] = row[e]
      /\ row[h] # "none"
    BY <1>a, <1>h DEF TypeOK, Unrecorded
<1>1. TypeOK'
  <2>1. row' \in [Events -> Statuses \cup {"none"}] /\ phase' \in [Workers -> Phases]
      BY <1>a, <1>h, RestType DEF TypeOK, Statuses, Phases
  <2>2. todo' \in [Workers -> Seq(Events)]
      BY <1>a, <1>q DEF TypeOK
  <2> QED
      BY <2>1, <2>2, <1>a DEF TypeOK
<1>2. WorkerShape'
    BY <1>a, <1>t, <1>p DEF WorkerShape, Injective
<1>3. Unrecorded'
  <2>1. ASSUME NEW u \in Units, phase'[u] = "open", NEW e \in EventSet(u) PROVE row'[e] = "none"
    <3>1. u \in Workers /\ phase[u] = "open" /\ e \in Events
        BY <2>1, <1>p, EventsOfUnit DEF Workers
    <3> QED
        BY <3>1, <1>r DEF Unrecorded
  <2>2. \A e \in Events : row'[e] = "none" <=> row[e] = "none"
      BY <1>r
  <2> QED
      BY <2>1, <2>2, <1>a, <1>t DEF Unrecorded, CreatedBefore, EventSet
<1>4. RunOrWaited'
  <2>1. \A v \in Workers : phase'[v] = "running" => v # w /\ phase[v] = "running" /\ todo'[v] = todo[v]
      BY <1>p, <1>t
  <2> QED
      BY <2>1, <1>a DEF RunOrWaited
<1>5. PublishedMeansRun'
  <2>1. st = "PUBLISHED" => \A s \in Subscribed[h] : runs[h][s] > 0
      BY <1>h DEF RunOrWaited, h
  <2> QED
      BY <2>1, <1>a, <1>r DEF PublishedMeansRun
<1>6. \A e \in Events \ raced : \A v \in Workers : Holds(v, e)' => e # h
    BY <1>t, <1>h DEF SoleWorker
<1>7. SoleWorker'
    BY <1>a, <1>r, <1>t, <1>6 DEF SoleWorker
<1>8. \A d \in Events : Settled(d) => Settled(d)'
    BY <1>r DEF Settled
<1>9. \A d \in Events : d = h => Settled(d)'
    BY <1>r DEF Settled
<1>10. EarlierFirst'
  <2>1. ASSUME NEW v \in Workers, NEW i \in DOMAIN todo'[v], NEW d \in Events,
               CreatedBefore(d, todo'[v][i])
        PROVE  Settled(d)' \/ \E k \in 1 .. (i - 1) : todo'[v][k] = d
    <3>1. CASE v = w
      <4> DEFINE q == todo[w]
                 m == Len(todo[w])
      <4>1. /\ m \in Nat /\ DOMAIN q = 1 .. m
            /\ DOMAIN Tail(q) = 1 .. (m - 1) /\ \A k \in 1 .. (m - 1) : Tail(q)[k] = q[k + 1]
          BY <1>h, QueueFacts
      <4>2. \A k \in 1 .. m : CreatedBefore(d, q[k]) => Settled(d) \/ \E j \in 1 .. (k - 1) : q[j] = d
          BY <4>1 DEF EarlierFirst
      <4>3. todo'[w] = Tail(q) /\ h = q[1]
          BY <1>t, <1>h
      <4> HIDE DEF q, m
      <4>4. i \in 1 .. (m - 1) /\ i + 1 \in 1 .. m /\ CreatedBefore(d, q[i + 1])
          BY <2>1, <3>1, <4>1, <4>3
      <4>5. Settled(d) \/ \E j \in 1 .. i : q[j] = d
          BY <4>2, <4>4
      <4>6. ASSUME NEW j \in 1 .. i, q[j] = d
            PROVE  Settled(d)' \/ \E k \in 1 .. (i - 1) : Tail(q)[k] = d
        <5>1. CASE j = 1
            BY <5>1, <4>6, <4>3, <1>9
        <5>2. CASE j # 1
          <6>1. j - 1 \in 1 .. (i - 1) /\ j - 1 \in 1 .. (m - 1) /\ (j - 1) + 1 = j
              BY <5>2, <4>4, <4>1
          <6> QED
              BY <6>1, <4>1, <4>6
        <5> QED
            BY <5>1, <5>2
      <4> QED
          BY <4>5, <4>6, <4>3, <3>1, <1>8
    <3>2. CASE v # w
        BY <3>2, <2>1, <1>t, <1>8 DEF EarlierFirst
    <3> QED
        BY <3>1, <3>2
  <2>2. \A d, e \in Events : CreatedBefore(d, e) =>
            ((\E s \in Subscribers : runs'[e][s] > 0) => Settled(d)')
      BY <1>a, <1>8 DEF EarlierFirst
  <2> QED
      BY <2>1, <2>2 DEF EarlierFirst, CreatedBefore
<1>11. FirstTime'
  <2> SUFFICES ASSUME crashes = 0, faults' = 0, NEW e \in Events \ raced
               PROVE  /\ row'[e] = "PENDING" => \E v \in Workers : Holds(v, e)'
                      /\ \A s \in Subscribers : runs[e][s] <= 1
                      /\ \A v \in Workers : Holds(v, e)' =>
                            \A s \in Subscribers :
                               ~(phase'[v] = "running" /\ Head(todo'[v]) = e) \/ s \in waiting[v]
                                 => runs[e][s] = 0
      BY <1>b DEF FirstTime
  <2>1. faults = 0
      BY DEF TypeOK
  <2>2. row'[e] = "PENDING" => \E v \in Workers : Holds(v, e)'
    <3>1. row'[e] = "PENDING" => e # h /\ row[e] = "PENDING"
        BY <1>r
    <3> QED
        BY <3>1, <2>1, <1>t DEF FirstTime
  <2>3. ASSUME NEW v \in Workers, Holds(v, e)', NEW s \in Subscribers,
               ~(phase'[v] = "running" /\ Head(todo'[v]) = e) \/ s \in waiting[v]
        PROVE  runs[e][s] = 0
    <3>1. e # h /\ Holds(v, e)
        BY <2>3, <1>6, <1>t
    <3>2. ~(phase[v] = "running" /\ Head(todo[v]) = e) \/ s \in waiting[v]
        BY <2>3, <3>1, <1>p, <1>t DEF h
    <3> QED
        BY <3>1, <3>2, <2>1 DEF FirstTime
  <2> QED
      BY <2>1, <2>2, <2>3 DEF FirstTime
<1> QED
    BY <1>1, <1>2, <1>3, <1>4, <1>5, <1>7, <1>10, <1>11

\* Workers that drop what they have keep everything else: the rows stay PENDING
\* for the relay, and FirstTime no longer claims anything.
LEMMA DropStep ==
    ASSUME IInv, Dropping PROVE  IInv'
<1> USE DEF IInv, Dropping
<1>1. \A w \in Workers : \A e : Holds(w, e)' => Holds(w, e) /\ todo'[w] = todo[w]
    BY DEF Holds
<1>2. WorkerShape'
    BY DEF WorkerShape, Injective
<1>3. Unrecorded'
  <2>1. \A u \in Units : phase'[u] = "open" => phase[u] = "open"
      BY DEF Workers
  <2> QED
      BY <2>1, <1>1 DEF Unrecorded, CreatedBefore, EventSet
<1>4. RunOrWaited' /\ PublishedMeansRun'
  <2>1. \A w \in Workers : phase'[w] = "running" =>
            phase[w] = "running" /\ todo'[w] = todo[w] /\ waiting'[w] = waiting[w]
      OBVIOUS
  <2> QED
      BY <2>1 DEF RunOrWaited, PublishedMeansRun
<1>5. SoleWorker'
    BY <1>1 DEF SoleWorker
<1>6. EarlierFirst'
    BY DEF EarlierFirst, Settled, CreatedBefore
<1>7. FirstTime'
    BY DEF FirstTime, TypeOK
<1> QED
    BY <1>2, <1>3, <1>4, <1>5, <1>6, <1>7
--------------------------------------------------------------------------------
\* Every step is one of eight kinds.
LEMMA StepKinds ==
    ASSUME IInv, [Next]_vars
    PROVE  \/ \E u \in Units : CommitUnit(u) \/ LeaveUncommitted(u)
           \/ \E r \in Relays : FetchPending(r)
           \/ \E w \in Workers : BeginPublish(w) \/ \E s \in Subscribers : SubscriberEnds(w, s)
           \/ \E w \in Workers : \E st \in {"PUBLISHED", "FAILED"} : Marking(w, st)
           \/ Dropping
           \/ UNCHANGED vars
<1> USE DEF IInv
<1>w. Units \subseteq Workers /\ Relays \subseteq Workers
    BY DEF Workers
<1>n. /\ crashes \in Nat /\ faults \in Nat /\ faults \in 0 .. MaxFaults
      /\ MaxCrashes \in Nat /\ MaxFaults \in Nat
    BY OutboxAssumption DEF TypeOK
<1>1. ASSUME NEW w \in Workers, GiveUp(w), faults < MaxFaults, faults' = faults + 1,
             waiting[w] = {}
      PROVE  Dropping
  <2>1. /\ todo' = [todo EXCEPT ![w] = <<>>] /\ phase' = [phase EXCEPT ![w] = Rest(w)]
        /\ allOk' = [allOk EXCEPT ![w] = TRUE]
        /\ row' = row /\ waiting' = waiting /\ runs' = runs /\ raced' = raced /\ crashes' = crashes
      BY <1>1 DEF GiveUp
  <2>2. TypeOK'
    <3>1. <<>> \in Seq(Events)
        BY EmptySeq
    <3>2. todo' \in [Workers -> Seq(Events)]
        BY <2>1, <3>1 DEF TypeOK
    <3>3. phase' \in [Workers -> Phases]
        BY <2>1, RestType DEF TypeOK, Phases
    <3>4. faults' \in 0 .. MaxFaults
        BY <1>1, <1>n
    <3> QED
        BY <3>2, <3>3, <3>4, <2>1 DEF TypeOK
  <2>3. \A v \in Workers : IF v = w THEN todo'[v] = <<>> /\ phase'[v] = Rest(w)
                           ELSE todo'[v] = todo[v] /\ phase'[v] = phase[v]
      BY <2>1 DEF TypeOK
  <2>4. crashes' + faults' > 0
      BY <2>1, <1>1, <1>n
  <2> QED
      BY <2>1, <2>2, <2>3, <2>4, <1>1, RestType DEF Dropping
<1>2. ASSUME Crash PROVE Dropping
  <2>1. /\ todo' = [w \in Workers |-> <<>>] /\ phase' = [w \in Workers |-> Rest(w)]
        /\ waiting' = [w \in Workers |-> {}] /\ allOk' = [w \in Workers |-> TRUE]
        /\ row' = row /\ runs' = runs /\ raced' = raced /\ faults' = faults
        /\ crashes < MaxCrashes /\ crashes' = crashes + 1
      BY <1>2 DEF Crash
  <2>2. TypeOK'
    <3>1. <<>> \in Seq(Events)
        BY EmptySeq
    <3>2. todo' \in [Workers -> Seq(Events)]
        BY <2>1, <3>1
    <3>3. phase' \in [Workers -> Phases]
        BY <2>1, RestType DEF Phases
    <3>4. crashes' \in 0 .. MaxCrashes
        BY <2>1, <1>n
    <3> QED
        BY <3>2, <3>3, <3>4, <2>1 DEF TypeOK
  <2>3. \A v \in Workers : todo'[v] = <<>> /\ waiting'[v] = {} /\ phase'[v] = Rest(v)
      BY <2>1
  <2>4. crashes' + faults' > 0
      BY <2>1, <1>n
  <2> QED
      BY <2>1, <2>2, <2>3, <2>4, RestType DEF Dropping
<1>3. ASSUME NEW w \in Workers, phase[w] = "next" PROVE waiting[w] = {}
    BY <1>3 DEF WorkerShape
<1>4. ASSUME NEW u \in Units, UnitStep(u) PROVE
        CommitUnit(u) \/ LeaveUncommitted(u) \/ \E st \in {"PUBLISHED", "FAILED"} : Marking(u, st)
    BY <1>4, <1>n DEF UnitStep, UnitMarks, Published, Marking
<1>5. ASSUME NEW r \in Relays, RelayStep(r) PROVE
        FetchPending(r) \/ \E st \in {"PUBLISHED", "FAILED"} : Marking(r, st)
  <2>1. CASE RelayMarks(r)
      BY <2>1, <1>n DEF RelayMarks, Published, Marking
  <2>2. CASE RelayRefuses(r)
      BY <2>2, <1>n, <1>w, <1>3 DEF RelayRefuses, Marking
  <2> QED
      BY <1>5, <2>1, <2>2 DEF RelayStep
<1>6. ASSUME NEW w \in Workers, MarkRaises(w) PROVE
        Dropping \/ \E st \in {"PUBLISHED", "FAILED"} : Marking(w, st)
  <2>1. faults < MaxFaults /\ faults' = faults + 1
      BY <1>6 DEF MarkRaises
  <2>2. CASE Published(w) /\ Mark(w, "FAILED")
      BY <2>1, <2>2, <1>n DEF Published, Marking
  <2>3. CASE GiveUp(w) /\ (Published(w) \/ phase[w] = "next")
      BY <2>1, <2>3, <1>1, <1>3 DEF Published
  <2> QED
      BY <1>6, <2>2, <2>3 DEF MarkRaises
<1>7. CASE UNCHANGED vars
    BY <1>7
<1>8. CASE Next
    BY <1>8, <1>2, <1>4, <1>5, <1>6, <1>w DEF Next, Publish
<1> QED
    BY <1>7, <1>8

\* The invariant is inductive.
LEMMA StepPreserves == ASSUME IInv, [Next]_vars PROVE IInv'
<1>1. CASE UNCHANGED vars
    BY <1>1 DEF vars, IInv, TypeOK, WorkerShape, Unrecorded, RunOrWaited, PublishedMeansRun,
       SoleWorker, EarlierFirst, FirstTime, Holds, Settled, CreatedBefore, EventSet, Injective
<1> QED
    BY <1>1, StepKinds, CommitStep, LeaveStep, FetchStep, BeginStep, SubscriberStep,
       MarkStep, DropStep

\* It holds before anything is committed.
LEMMA InitEstablishes == ASSUME Init PROVE IInv
<1>1. <<>> \in Seq(Events) /\ DOMAIN <<>> = {}
    BY EmptySeq
<1>2. /\ row = [e \in Events |-> "none"]
      /\ phase = [w \in Workers |-> IF w \in Units THEN "open" ELSE "idle"]
      /\ todo = [w \in Workers |-> <<>>] /\ waiting = [w \in Workers |-> {}]
      /\ allOk = [w \in Workers |-> TRUE]
      /\ runs = [e \in Events |-> [s \in Subscribers |-> 0]]
      /\ raced = {} /\ crashes = 0 /\ faults = 0
    BY DEF Init
<1>3. TypeOK
    BY <1>1, <1>2, OutboxAssumption DEF TypeOK, Phases, Statuses
<1>4. \A w \in Workers : /\ todo[w] = <<>> /\ waiting[w] = {} /\ phase[w] \in {"open", "idle"}
                         /\ \A e : ~Holds(w, e)
    BY <1>2, EmptyHolds
<1>5. \A e \in Events : row[e] = "none" /\ \A s \in Subscribers : runs[e][s] = 0
    BY <1>2
<1>6. WorkerShape
    BY <1>1, <1>4 DEF WorkerShape, Injective
<1>7. Unrecorded
    BY <1>4, <1>5, EventsOfUnit DEF Unrecorded
<1>8. RunOrWaited /\ PublishedMeansRun /\ SoleWorker /\ FirstTime
    BY <1>4, <1>5 DEF RunOrWaited, PublishedMeansRun, SoleWorker, FirstTime
<1>9. EarlierFirst
    BY <1>1, <1>4, <1>5 DEF EarlierFirst
<1> QED
    BY <1>3, <1>6, <1>7, <1>8, <1>9 DEF IInv

\* The inductive invariant holds in every reachable state.
LEMMA InvariantHolds == Spec => []IInv
<1>1. Init => IInv
    BY InitEstablishes
<1>2. IInv /\ [Next]_vars => IInv'
    BY StepPreserves
<1> QED
    BY <1>1, <1>2, PTL DEF Spec
--------------------------------------------------------------------------------
\* Every variable of unit, relay and bus keeps its type.
THEOREM TypesHold == Spec => []TypeOK
<1>1. IInv => TypeOK
    BY DEF IInv
<1> QED
    BY <1>1, InvariantHolds, PTL

\* For any units, relays, subscribers, batch limit and number of crashes and
\* failed marks: a row marked PUBLISHED has been seen by every subscriber.
THEOREM PublishedAreRun == Spec => []PublishedMeansRun
<1>1. IInv => PublishedMeansRun
    BY DEF IInv
<1> QED
    BY <1>1, InvariantHolds, PTL

\* A subscriber sees an event again only after a crash, a failed mark, or a fetch
\* of a row that somebody still had.
THEOREM SeenOnce == Spec => []OnceUnlessRecovered
<1>1. IInv => OnceUnlessRecovered
  <2> SUFFICES ASSUME IInv, NEW e \in Events, NEW s \in Subscribers, runs[e][s] > 1,
                      ~(crashes > 0), ~(faults > 0)
               PROVE  e \in raced
      BY DEF OnceUnlessRecovered
  <2>1. crashes = 0 /\ faults = 0 /\ runs[e][s] \in Nat
      BY OutboxAssumption DEF IInv, TypeOK
  <2>2. e \notin raced => runs[e][s] <= 1
      BY <2>1 DEF IInv, FirstTime
  <2> QED
      BY <2>1, <2>2
<1> QED
    BY <1>1, InvariantHolds, PTL

\* The events of a unit reach a subscriber in the order they were recorded,
\* whichever of unit and relays delivers each of them.
THEOREM OrderKept == Spec => []RecordedOrder
<1>1. IInv => RecordedOrder
  <2> SUFFICES ASSUME IInv, NEW d \in Events, NEW e \in Events, CreatedBefore(d, e),
                      NEW s \in Subscribed[d] \cap Subscribed[e], runs[e][s] > 0
               PROVE  runs[d][s] > 0 \/ row[d] = "FAILED"
      BY DEF RecordedOrder
  <2>1. s \in Subscribers
      BY OutboxAssumption
  <2>2. Settled(d)
      BY <2>1 DEF IInv, EarlierFirst
  <2> QED
      BY <2>2 DEF IInv, PublishedMeansRun, Settled
<1> QED
    BY <1>1, InvariantHolds, PTL

\* Only an event that two workers had at a time changes its mark, and no marked
\* row becomes PENDING again.
THEOREM MarksFinal == Spec => MarksAreFinal
<1> DEFINE Final ==
        \A e \in Events :
          /\ row[e] = "PUBLISHED" /\ row'[e] # row[e] => row'[e] = "FAILED" /\ e \in raced
          /\ row[e] = "FAILED" /\ row'[e] # row[e] => row'[e] = "PUBLISHED" /\ e \in raced
<1>1. ASSUME IInv, [Next]_vars PROVE Final
  <2>1. ASSUME NEW u \in Units, CommitUnit(u) PROVE Final
    <3>1. \A e \in EventSet(u) : row[e] = "none"
        BY <1>1, <2>1 DEF IInv, Unrecorded, CommitUnit
    <3>2. \A e \in Events \ EventSet(u) : row'[e] = row[e]
        BY <2>1 DEF CommitUnit
    <3> QED
        BY <3>1, <3>2
  <2>2. ASSUME NEW w \in Workers, NEW st \in {"PUBLISHED", "FAILED"}, Marking(w, st) PROVE Final
    <3> DEFINE h == Head(todo[w])
    <3>1. h \in Events /\ Holds(w, h)
        BY <1>1, <2>2, InHandFacts DEF Marking, IInv
    <3>2. row' = [row EXCEPT ![h] = st]
        BY <2>2 DEF Marking, Mark
    <3> HIDE DEF h
    <3>3. row'[h] = st /\ \A e \in Events \ {h} : row'[e] = row[e]
        BY <3>1, <3>2, <1>1 DEF IInv, TypeOK
    <3>4. h \in raced \/ row[h] = "PENDING"
        BY <3>1, <1>1, <2>2 DEF IInv, SoleWorker
    <3> QED
        BY <3>3, <3>4
  <2>3. row' = row => Final
      OBVIOUS
  <2>4. ASSUME \/ \E u \in Units : LeaveUncommitted(u)
               \/ \E r \in Relays : FetchPending(r)
               \/ \E w \in Workers : BeginPublish(w) \/ \E s \in Subscribers : SubscriberEnds(w, s)
               \/ Dropping
               \/ UNCHANGED vars
        PROVE  row' = row
      BY <2>4 DEF LeaveUncommitted, FetchPending, BeginPublish, SubscriberEnds, Dropping, vars
  <2> HIDE DEF Final
  <2> QED
      BY <1>1, <2>1, <2>2, <2>3, <2>4, StepKinds
<1>2. IInv /\ [Next]_vars => [Final]_vars
    BY <1>1
<1> QED
    BY <1>2, InvariantHolds, PTL DEF Spec, MarksAreFinal

\* The mapped state: what the rows and the run counts say of delivery.
Committed == {e \in Events : row[e] # "none"}
Ran == {x \in Events \X Subscribers : runs[x[1]][x[2]] > 0}
SettledSet == {e \in Events : row[e] \in {"PUBLISHED", "FAILED"}}

\* A commit makes the events of its unit deliverable, all at once.
LEMMA CommitMaps ==
    ASSUME IInv, NEW u \in Units, CommitUnit(u) PROVE Delivery!CommitUnit(u)
<1>1. \A e \in EventSet(u) : row[e] = "none"
    BY DEF IInv, Unrecorded, CommitUnit
<1>2. /\ EventSet(u) \subseteq Events /\ runs' = runs
      /\ row' = [e \in Events |-> IF e \in EventSet(u) THEN "PENDING" ELSE row[e]]
    BY EventsOfUnit DEF CommitUnit
<1>3. /\ EventSet(u) \cap Committed = {} /\ Committed' = Committed \cup EventSet(u)
      /\ Ran' = Ran /\ SettledSet' = SettledSet
    BY <1>1, <1>2 DEF Committed, Ran, SettledSet
<1> QED
    BY <1>3 DEF Delivery!CommitUnit, Committed, Ran, SettledSet

\* A subscriber that ends runs a committed event it has subscribed to.
LEMMA RunMaps ==
    ASSUME IInv, NEW w \in Workers, NEW s \in Subscribers, SubscriberEnds(w, s)
    PROVE  \E e \in DOMAIN Subscribed : \E x \in Subscribed[e] : Delivery!Run(e, x)
<1> DEFINE h == Head(todo[w])
<1>1. phase[w] = "running" /\ s \in waiting[w] /\ row' = row /\ runs' = [runs EXCEPT ![h][s] = @ + 1]
    BY DEF SubscriberEnds
<1>2. h \in Events /\ Holds(w, h) /\ s \in Subscribed[h] /\ DOMAIN Subscribed = Events
    BY <1>1, InHandFacts, OutboxAssumption DEF IInv, WorkerShape
<1> HIDE DEF h
<1>3. row[h] # "none"
    BY <1>2 DEF IInv, Unrecorded
<1>4. /\ \A e \in Events : \A x \in Subscribers :
            runs'[e][x] = IF e = h /\ x = s THEN runs[e][x] + 1 ELSE runs[e][x]
      /\ \A e \in Events : \A x \in Subscribers : runs[e][x] \in Nat
    BY <1>1, <1>2 DEF IInv, TypeOK
<1>5. Ran' = Ran \cup {<<h, s>>}
  <2>1. \A e \in Events, x \in Subscribers : runs'[e][x] > 0 <=> runs[e][x] > 0 \/ (e = h /\ x = s)
      BY <1>4
  <2> QED
      BY <2>1, <1>2 DEF Ran
<1>6. h \in Committed /\ Committed' = Committed /\ SettledSet' = SettledSet
    BY <1>1, <1>2, <1>3 DEF Committed, SettledSet
<1>7. \A e \in Events : e = h => Delivery!Run(e, s)
    BY <1>2, <1>5, <1>6 DEF Delivery!Run, Committed, Ran, SettledSet
<1> QED
    BY <1>2, <1>7

\* A mark settles an event whose subscribers have run or that cannot be rebuilt.
LEMMA SettleMaps ==
    ASSUME IInv, NEW w \in Workers, NEW st \in {"PUBLISHED", "FAILED"}, Marking(w, st)
    PROVE  \E e \in DOMAIN Subscribed : Delivery!Settle(e)
<1> DEFINE h == Head(todo[w])
<1>1. /\ row' = [row EXCEPT ![h] = st] /\ runs' = runs
      /\ waiting[w] = {} /\ phase[w] \in {"next", "running"}
      /\ phase[w] = "running" \/ h \notin Rebuildable
    BY DEF Marking, Mark
<1>2. h \in Events /\ Holds(w, h) /\ DOMAIN Subscribed = Events /\ Subscribed[h] \subseteq Subscribers
    BY <1>1, InHandFacts, OutboxAssumption DEF IInv
<1>3. row[h] # "none"
    BY <1>2 DEF IInv, Unrecorded
<1>4. h \in Rebuildable => \A s \in Subscribed[h] : runs[h][s] > 0
    BY <1>1 DEF IInv, RunOrWaited
<1> HIDE DEF h
<1>5. row'[h] = st /\ \A e \in Events \ {h} : row'[e] = row[e]
    BY <1>1, <1>2 DEF IInv, TypeOK
<1>6. /\ h \in Committed /\ Committed' = Committed /\ Ran' = Ran
      /\ SettledSet' = SettledSet \cup {h}
      /\ h \in Rebuildable => \A s \in Subscribed[h] : <<h, s>> \in Ran
    BY <1>1, <1>2, <1>3, <1>4, <1>5 DEF Committed, Ran, SettledSet
<1>7. \A e \in Events : e = h => Delivery!Settle(e)
    BY <1>6 DEF Delivery!Settle, Committed, Ran, SettledSet
<1> QED
    BY <1>2, <1>7

\* Unit of work, relays and event bus together implement EventDelivery: every
\* step commits one unit, runs one subscriber, settles one event, or stutters.
THEOREM KeepsThePromise == Spec => ImplementsDelivery
<1>1. ASSUME Init PROVE Delivery!DInit
  <2>1. Committed = {} /\ Ran = {} /\ SettledSet = {}
      BY <1>1 DEF Init, Committed, Ran, SettledSet
  <2> QED
      BY <2>1 DEF Delivery!DInit, Committed, Ran, SettledSet
<1>2. ASSUME IInv, [Next]_vars PROVE [Delivery!DNext]_(Delivery!dvars)
  <2>1. ASSUME row' = row, runs' = runs PROVE UNCHANGED Delivery!dvars
      BY <2>1 DEF Delivery!dvars
  <2>2. ASSUME \/ \E u \in Units : LeaveUncommitted(u)
               \/ \E r \in Relays : FetchPending(r)
               \/ \E w \in Workers : BeginPublish(w)
               \/ Dropping
               \/ UNCHANGED vars
        PROVE  row' = row /\ runs' = runs
      BY <2>2 DEF LeaveUncommitted, FetchPending, BeginPublish, Dropping, vars
  <2>3. ASSUME \/ \E u \in Units : CommitUnit(u)
               \/ \E w \in Workers : \E s \in Subscribers : SubscriberEnds(w, s)
               \/ \E w \in Workers : \E st \in {"PUBLISHED", "FAILED"} : Marking(w, st)
        PROVE  Delivery!DNext
      BY <1>2, <2>3, CommitMaps, RunMaps, SettleMaps DEF Delivery!DNext
  <2> QED
      BY <1>2, <2>1, <2>2, <2>3, StepKinds
<1> QED
    BY <1>1, <1>2, InvariantHolds, PTL DEF Spec, ImplementsDelivery, Delivery!DSpec
================================================================================
