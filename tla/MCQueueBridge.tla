--------------------------- MODULE MCQueueBridge ---------------------------
(* Small instances of QueueBridge: two callers wait on one server; one dequeuer is on the *)
(* same server and has a timeout, the other one is elsewhere and has none.                *)
EXTENDS QueueBridge

CONSTANTS m1, m2, d1, d2

MCMembers == {m1, m2}
MCDequeuers == {d1, d2}
MCImpatient == {d1}
MCLeavers == {m1}
MCLossy == {d2}
MCServer == [c \in Members \cup Dequeuers |-> IF c = d2 THEN "there" ELSE "here"]
============================================================================
