-------------------------------- MODULE MCOutbox -------------------------------
(* Two units, one with two events; the event of the other has a type the relay *)
(* does not know.  One subscriber takes all events, another only the first.    *)
EXTENDS Outbox
CONSTANTS u1, u2, r1, r2, e1, e2, e3, s1, s2
TwoUnits == {u1, u2}
OneRelay == {r1}
ThreeEvents == {e1, e2, e3}
TwoSubscribers == {s1, s2}
Recorded == [u \in TwoUnits |-> IF u = u1 THEN <<e1, e2>> ELSE <<e3>>]
Subscriptions == [e \in ThreeEvents |-> IF e = e1 THEN {s1, s2} ELSE {s1}]
Known == {e1, e2}
Parsing == {e1, e2, e3}
================================================================================
