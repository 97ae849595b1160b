---------------------------- MODULE MemberQueue ----------------------------
(***************************************************************************)
(* What callers in a queue may rely on: a member leaves it by giving up or *)
(* by being taken by one dequeuer, who takes nobody else; nobody is taken  *)
(* twice, and nobody is taken who is not queued.                           *)
(***************************************************************************)
CONSTANTS Members, Dequeuers, Nobody

VARIABLES queued,  \* the members in the queue
          taken    \* the member each dequeuer took, or Nobody

Init == queued = {} /\ taken = [d \in Dequeuers |-> Nobody]

Join(m) ==
  /\ m \notin queued /\ \A d \in Dequeuers : taken[d] # m
  /\ queued' = queued \cup {m} /\ UNCHANGED taken

GiveUp(m) ==
  /\ m \in queued
  /\ queued' = queued \ {m} /\ UNCHANGED taken

Take(d, m) ==
  /\ m \in queued /\ taken[d] = Nobody
  /\ queued' = queued \ {m} /\ taken' = [taken EXCEPT ![d] = m]

Next == \E m \in Members : Join(m) \/ GiveUp(m) \/ \E d \in Dequeuers : Take(d, m)

Spec == Init /\ [][Next]_<<queued, taken>>
============================================================================
