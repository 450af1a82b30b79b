------------------------------ MODULE PageCalls ------------------------------
(* The HTTP calls of a page. A page is a record u whose field calls has one    *)
(* slot per call under way: which call it is, the thing it is about, how far   *)
(* it is, what was answered (nothing, or one value), and whether the dialog    *)
(* that made it is still open. Answers come in any order, and a call that took *)
(* effect may still fail at the page: the client gives up after 15 s.          *)
EXTENDS Naturals, FiniteSets

CONSTANT MaxCalls   \* calls under way at the same time

Idle == [op |-> "idle", id |-> "none", at |-> "idle", got |-> {}, mine |-> FALSE]
NoCalls == [i \in 1..MaxCalls |-> Idle]

call(op, id) == [op |-> op, id |-> id, at |-> "sent", got |-> {}, mine |-> FALSE]
dialogCall(op, id) == [call(op, id) EXCEPT !.mine = TRUE]

CallsOK(calls, ops, ids, gots) ==
    calls \in [1..MaxCalls -> {Idle} \cup [op : ops, id : ids, at : {"sent", "ok", "err"},
                                          got : SUBSET gots, mine : BOOLEAN]]

Under(u, op) == {i \in DOMAIN u.calls : u.calls[i].op = op}
Quiet(u) == \A i \in DOMAIN u.calls : u.calls[i] = Idle

\* A new call takes any free slot.
Slot(u) == CHOOSE i \in Under(u, "idle") : TRUE
CanSend(u, n) == Cardinality(Under(u, "idle")) >= n
Send(u, c) == [u EXCEPT !.calls[Slot(u)] = c]
End(u, i) == [u EXCEPT !.calls[i] = Idle]

\* The handler of call i goes on to call c.
Follow(u, i, c) == [u EXCEPT !.calls[i] = [c EXCEPT !.mine = u.calls[i].mine]]

\* A dialog closes: what it asked for goes on without it.
Orphan(u, ops) ==
    [u EXCEPT !.calls = [i \in DOMAIN u.calls |->
        IF u.calls[i].op \in ops THEN [u.calls[i] EXCEPT !.mine = FALSE] ELSE u.calls[i]]]

Reply(u, i) == CHOOSE x \in u.calls[i].got : TRUE
Answered(u, i, op) == u.calls[i].op = op /\ u.calls[i].at \in {"ok", "err"}

\* What the backend may do with call i: refuse or lose it, serve it and lose
\* the answer, serve it and answer.
Outcomes(u, i, Possible(_, _), Effect(_, _), Got(_, _)) ==
    LET c == u.calls[i]
        served == [Effect(u, c) EXCEPT !.calls[i].got = Got(u, c)]
    IN  IF c.at # "sent" THEN {}
        ELSE {[u EXCEPT !.calls[i].at = "err"]}
             \cup (IF Possible(u, c)
                   THEN {[served EXCEPT !.calls[i].at = at] : at \in {"ok", "err"}} ELSE {})
================================================================================
