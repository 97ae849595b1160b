------------------------- MODULE QueueBridgeProofs -------------------------
(***************************************************************************)
(* Safety of QueueBridge for any callers, dequeuers and servers: the       *)
(* inductive invariant QueueInv, what follows from it, and the refinement  *)
(* of MemberQueue.                                                         *)
(***************************************************************************)
EXTENDS QueueBridge, TLAPS

Asked == {"partner", "done"}

\* What a dequeuer popped is nobody else's and in the queue no more.
TakenOnce ==
  \A d \in Dequeuers : got[d] # Nobody =>
    /\ got[d] \notin queue /\ mpc[got[d]] # "idle"
    /\ \A e \in Dequeuers : got[e] = got[d] => e = d

\* How the loop that pops, the verb, its timer and its bridge go together.
DequeuerInv ==
  \A d \in Dequeuers :
    /\ (dpc[d] = "idle" \/ seek[d] \in {"first", "sleep"}) => got[d] = Nobody
    /\ dpc[d] = "idle" => seek[d] = "off"
    /\ seek[d] # "off" => (dpc[d] = "search" \/ (dpc[d] = "done" /\ timer[d] = "fired"))
    /\ timer[d] = "set" => dpc[d] = "search"
    /\ dpc[d] = "partner" => got[d] # Nobody
    /\ ready[d] # "no" => (dpc[d] = "done" \/ (dpc[d] = "partner" /\ ~dkilled[d]))

\* Requests are exchanged between a dequeuer and the member it popped; some tell that the
\* dequeuer's verb has ended or will.
PostInv ==
  \A p \in posts :
    /\ got[p.d] = p.m /\ dpc[p.d] \in Asked
    /\ p.kind = "notReady" => (dpc[p.d] = "done" \/ dkilled[p.d] \/ p.d \in cut)
    /\ p.kind = "byeMember" => dpc[p.d] = "done"

PartnerInv ==
  \A m \in Members :
    /\ partner[m] # Nobody => got[partner[m]] = m /\ dpc[partner[m]] \in Asked
    /\ mpc[m] \in {"moving", "bridging", "late"} => partner[m] # Nobody

\* The member is in the bridge, has gone on after leaving, or the news that it hung up is
\* on its way.
HasMember(d, m) ==
  \/ mpc[m] \in {"bridging", "late", "away"} /\ partner[m] = d
  \/ Post("byeDequeuer", d, m) \in posts

BridgeInv ==
  /\ \A p \in posts : p.kind = "ready" =>
       (HasMember(p.d, p.m) \/ dpc[p.d] = "done" \/ dkilled[p.d] \/ p.d \in cut)
  /\ \A d \in Dequeuers \ cut :
       (ready[d] \in {"bridging", "bridged"} /\ dpc[d] = "partner") => HasMember(d, got[d])

\* Also while its listeners are still to be installed.
ReachInv ==
  \A m \in Members :
    mpc[m] \in {"listed", "waiting"} /\ ~mkilled[m] =>
      m \in queue \/ InHand(m) \/ Dropped(m) \/ m \in unheard

QueueInv ==
  /\ TypeOK /\ EntriesAreCallers /\ TakenOnce /\ DequeuerInv /\ PostInv /\ PartnerInv
  /\ BridgeInv /\ ReachInv
----------------------------------------------------------------------------
(* The inductive invariant *)

\* A request is a record of its kind and of the two calls it goes between.
LEMMA PostFields ==
  \A k, d, m : Post(k, d, m).kind = k /\ Post(k, d, m).d = d /\ Post(k, d, m).m = m
BY DEF Post

\* ... and one that can be on the network.
LEMMA PostType ==
  ASSUME NEW k \in Kinds, NEW d \in Dequeuers, NEW m \in Members
  PROVE  Post(k, d, m) \in [kind : Kinds, d : Dequeuers, m : Members]
BY DEF Post

\* Whatever callers, servers, redis and FreeSWITCH do next, QueueInv stays true.
LEMMA Steps == QueueInv /\ [Next]_vars => QueueInv'
<1> SUFFICES ASSUME QueueInv, [Next]_vars PROVE QueueInv'
  OBVIOUS
<1>1. TypeOK
  BY DEF QueueInv
<1>2. EntriesAreCallers
  BY DEF QueueInv
<1>3. TakenOnce
  BY DEF QueueInv
<1>4. DequeuerInv
  BY DEF QueueInv
<1>5. PostInv
  BY DEF QueueInv
<1>6. PartnerInv
  BY DEF QueueInv
<1>7. BridgeInv
  BY DEF QueueInv
<1>8. ReachInv
  BY DEF QueueInv
<1>9. ASSUME NEW m \in Members, Enqueue(m) PROVE QueueInv'
  <2>1. TypeOK'
    BY <1>1, <1>9 DEF TypeOK, Enqueue, Goto, dequeuerVars
  <2>2. EntriesAreCallers'
    BY <1>1, <1>2, <1>9 DEF TypeOK, EntriesAreCallers, Enqueue, Goto, dequeuerVars
  <2>3. TakenOnce'
    BY <1>1, <1>3, <1>9 DEF TypeOK, TakenOnce, Enqueue, Goto, dequeuerVars
  <2>4. DequeuerInv'
    BY <1>4, <1>9 DEF DequeuerInv, Enqueue, Goto, dequeuerVars
  <2>5. PostInv'
    BY <1>5, <1>9 DEF PostInv, Enqueue, Goto, dequeuerVars
  <2>6. PartnerInv'
    BY <1>1, <1>6, <1>9 DEF TypeOK, PartnerInv, Asked, Enqueue, Goto, dequeuerVars
  <2>7. BridgeInv'
    BY <1>1, <1>7, <1>9 DEF TypeOK, BridgeInv, HasMember, Enqueue, Goto, dequeuerVars
  <2>8. ReachInv'
    BY <1>1, <1>8, <1>9 DEF TypeOK, ReachInv, InHand, Dropped, Enqueue, Goto, dequeuerVars
  <2> QED
    BY <2>1, <2>2, <2>3, <2>4, <2>5, <2>6, <2>7, <2>8 DEF QueueInv
<1>10. ASSUME NEW m \in Members, KillMember(m) PROVE QueueInv'
  <2>1. TypeOK'
    BY <1>1, <1>6, <1>10, PostType DEF TypeOK, PartnerInv, KillMember, Killed, TellDequeuer,
       Enqueued,
      dequeuerVars, Kinds
  <2>2. EntriesAreCallers'
    BY <1>1, <1>2, <1>10, PostFields DEF TypeOK, EntriesAreCallers, KillMember, Killed,
       TellDequeuer, Enqueued,
      dequeuerVars
  <2>3. TakenOnce'
    BY <1>1, <1>3, <1>10, PostFields DEF TypeOK, TakenOnce, KillMember, Killed, TellDequeuer,
       Enqueued,
      dequeuerVars
  <2>4. DequeuerInv'
    BY <1>4, <1>10 DEF DequeuerInv, KillMember, Killed, TellDequeuer, Enqueued, dequeuerVars
  <2>5. PostInv'
    BY <1>1, <1>5, <1>6, <1>10, PostFields DEF TypeOK, PostInv, PartnerInv, Asked,
      KillMember, Killed, TellDequeuer, Enqueued, dequeuerVars
  <2>6. PartnerInv'
    BY <1>1, <1>6, <1>10, PostFields DEF TypeOK, PartnerInv, Asked, KillMember, Killed,
       TellDequeuer, Enqueued,
      dequeuerVars
  <2>7. BridgeInv'
    BY <1>1, <1>7, <1>10, PostFields DEF TypeOK, BridgeInv, HasMember, KillMember, Killed,
       TellDequeuer, Enqueued,
      dequeuerVars
  <2>8. ReachInv'
    BY <1>1, <1>8, <1>10, PostFields DEF TypeOK, ReachInv, InHand, Dropped, KillMember,
       Killed, TellDequeuer,
      Enqueued, dequeuerVars
  <2> QED
    BY <2>1, <2>2, <2>3, <2>4, <2>5, <2>6, <2>7, <2>8 DEF QueueInv
<1>11. ASSUME NEW m \in Members, Leave(m) PROVE QueueInv'
  <2>1. TypeOK'
    BY <1>1, <1>6, <1>11, PostType DEF TypeOK, PartnerInv, Leave, Killed, TellDequeuer,
       dequeuerVars, Kinds
  <2>2. EntriesAreCallers'
    BY <1>1, <1>2, <1>11, PostFields DEF TypeOK, EntriesAreCallers, Leave, Killed,
       TellDequeuer, dequeuerVars
  <2>3. TakenOnce'
    BY <1>1, <1>3, <1>11 DEF TypeOK, TakenOnce, Leave, Killed, TellDequeuer, dequeuerVars
  <2>4. DequeuerInv'
    BY <1>4, <1>11 DEF DequeuerInv, Leave, Killed, TellDequeuer, dequeuerVars
  <2>5. PostInv'
    BY <1>1, <1>5, <1>6, <1>11, PostFields DEF TypeOK, PostInv, PartnerInv, Asked, Leave,
       Killed, TellDequeuer, dequeuerVars
  <2>6. PartnerInv'
    BY <1>1, <1>6, <1>11 DEF TypeOK, PartnerInv, Asked, Leave, Killed, TellDequeuer, dequeuerVars
  <2>7. BridgeInv'
    BY <1>1, <1>7, <1>11, PostFields DEF TypeOK, BridgeInv, HasMember, Leave, Killed,
       TellDequeuer, dequeuerVars
  <2>8. ReachInv'
    BY <1>1, <1>8, <1>11, PostFields DEF TypeOK, ReachInv, InHand, Dropped, Leave, Killed,
       TellDequeuer, dequeuerVars
  <2> QED
    BY <2>1, <2>2, <2>3, <2>4, <2>5, <2>6, <2>7, <2>8 DEF QueueInv
<1>12. ASSUME NEW d \in Dequeuers, Dequeue(d) PROVE QueueInv'
  <2>1. TypeOK'
    BY <1>1, <1>12 DEF TypeOK, Dequeue, memberVars
  <2>2. EntriesAreCallers'
    BY <1>2, <1>12 DEF EntriesAreCallers, Dequeue, memberVars
  <2>3. TakenOnce'
    BY <1>3, <1>12 DEF TakenOnce, Dequeue, memberVars
  <2>4. DequeuerInv'
    BY <1>1, <1>4, <1>12 DEF TypeOK, DequeuerInv, Dequeue, memberVars
  <2>5. PostInv'
    BY <1>1, <1>5, <1>12 DEF TypeOK, PostInv, Asked, Dequeue, memberVars
  <2>6. PartnerInv'
    BY <1>1, <1>6, <1>12 DEF TypeOK, PartnerInv, Asked, Dequeue, memberVars
  <2>7. BridgeInv'
    BY <1>1, <1>7, <1>12 DEF TypeOK, BridgeInv, HasMember, Dequeue, memberVars
  <2>8. ReachInv'
    BY <1>1, <1>4, <1>8, <1>12, QueueAssumption DEF QueueAssumption, TypeOK, DequeuerInv,
      ReachInv, InHand, Dropped, Dequeue, memberVars
  <2> QED
    BY <2>1, <2>2, <2>3, <2>4, <2>5, <2>6, <2>7, <2>8 DEF QueueInv
<1>13. ASSUME NEW d \in Dequeuers, KillDequeuer(d) PROVE QueueInv'
  <2>1. TypeOK'
    BY <1>1, <1>4, <1>13, PostType DEF TypeOK, DequeuerInv, KillDequeuer, Dequeuing,
      memberVars, Kinds
  <2>2. EntriesAreCallers'
    BY <1>2, <1>13 DEF EntriesAreCallers, KillDequeuer, Dequeuing, memberVars
  <2>3. TakenOnce'
    BY <1>3, <1>13 DEF TakenOnce, KillDequeuer, Dequeuing, memberVars
  <2>4. DequeuerInv'
    BY <1>1, <1>4, <1>13, PostFields DEF TypeOK, DequeuerInv, KillDequeuer, Dequeuing,
      memberVars
  <2>5. PostInv'
    BY <1>1, <1>4, <1>5, <1>13, PostFields DEF TypeOK, DequeuerInv, PostInv, Asked,
      KillDequeuer, Dequeuing, memberVars
  <2>6. PartnerInv'
    BY <1>1, <1>6, <1>13, PostFields DEF TypeOK, PartnerInv, Asked, KillDequeuer, Dequeuing,
      memberVars
  <2>7. BridgeInv'
    BY <1>1, <1>7, <1>13, PostFields DEF TypeOK, BridgeInv, HasMember, KillDequeuer,
      Dequeuing, memberVars
  <2>8. ReachInv'
    BY <1>1, <1>8, <1>13, PostFields DEF TypeOK, ReachInv, InHand, Dropped, KillDequeuer,
      Dequeuing, memberVars
  <2> QED
    BY <2>1, <2>2, <2>3, <2>4, <2>5, <2>6, <2>7, <2>8 DEF QueueInv
<1>14. ASSUME NEW d \in Dequeuers, SearchTimeout(d) PROVE QueueInv'
  <2>1. TypeOK'
    BY <1>1, <1>14 DEF TypeOK, SearchTimeout, memberVars
  <2>2. EntriesAreCallers'
    BY <1>2, <1>14 DEF EntriesAreCallers, SearchTimeout, memberVars
  <2>3. TakenOnce'
    BY <1>3, <1>14 DEF TakenOnce, SearchTimeout, memberVars
  <2>4. DequeuerInv'
    BY <1>1, <1>4, <1>14 DEF TypeOK, DequeuerInv, SearchTimeout, memberVars
  <2>5. PostInv'
    BY <1>1, <1>5, <1>14 DEF TypeOK, PostInv, Asked, SearchTimeout, memberVars
  <2>6. PartnerInv'
    BY <1>1, <1>6, <1>14 DEF TypeOK, PartnerInv, Asked, SearchTimeout, memberVars
  <2>7. BridgeInv'
    BY <1>1, <1>7, <1>14 DEF TypeOK, BridgeInv, HasMember, SearchTimeout, memberVars
  <2>8. ReachInv'
    BY <1>1, <1>8, <1>14 DEF TypeOK, ReachInv, InHand, Dropped, SearchTimeout, memberVars
  <2> QED
    BY <2>1, <2>2, <2>3, <2>4, <2>5, <2>6, <2>7, <2>8 DEF QueueInv
<1>15. ASSUME NEW m \in Members, Listen(m) PROVE QueueInv'
  <2>1. TypeOK'
    BY <1>1, <1>15 DEF TypeOK, Listen, Goto, dequeuerVars
  <2>2. EntriesAreCallers'
    BY <1>1, <1>2, <1>15 DEF TypeOK, EntriesAreCallers, Listen, Goto, dequeuerVars
  <2>3. TakenOnce'
    BY <1>1, <1>3, <1>15 DEF TypeOK, TakenOnce, Listen, Goto, dequeuerVars
  <2>4. DequeuerInv'
    BY <1>4, <1>15 DEF DequeuerInv, Listen, Goto, dequeuerVars
  <2>5. PostInv'
    BY <1>5, <1>15 DEF PostInv, Listen, Goto, dequeuerVars
  <2>6. PartnerInv'
    BY <1>1, <1>6, <1>15 DEF TypeOK, PartnerInv, Asked, Listen, Goto, dequeuerVars
  <2>7. BridgeInv'
    BY <1>1, <1>7, <1>15 DEF TypeOK, BridgeInv, HasMember, Listen, Goto, dequeuerVars
  <2>8. ReachInv'
    BY <1>1, <1>8, <1>15 DEF TypeOK, ReachInv, InHand, Dropped, Listen, Goto, dequeuerVars
  <2> QED
    BY <2>1, <2>2, <2>3, <2>4, <2>5, <2>6, <2>7, <2>8 DEF QueueInv
<1>16. ASSUME NEW m \in Members, Moved(m) PROVE QueueInv'
  <2>1. TypeOK'
    BY <1>1, <1>6, <1>16, PostType DEF TypeOK, PartnerInv, Moved, Goto, dequeuerVars, Kinds
  <2>2. EntriesAreCallers'
    BY <1>1, <1>2, <1>16, PostFields DEF TypeOK, EntriesAreCallers, Moved, Goto,
      dequeuerVars
  <2>3. TakenOnce'
    BY <1>1, <1>3, <1>16, PostFields DEF TypeOK, TakenOnce, Moved, Goto, dequeuerVars
  <2>4. DequeuerInv'
    BY <1>4, <1>16 DEF DequeuerInv, Moved, Goto, dequeuerVars
  <2>5. PostInv'
    BY <1>1, <1>5, <1>6, <1>16, PostFields DEF TypeOK, PostInv, PartnerInv, Asked, Moved,
      Goto, dequeuerVars
  <2>6. PartnerInv'
    BY <1>1, <1>6, <1>16, PostFields DEF TypeOK, PartnerInv, Asked, Moved, Goto,
      dequeuerVars
  <2>7. BridgeInv'
    BY <1>1, <1>7, <1>16, PostFields DEF TypeOK, BridgeInv, HasMember, Moved, Goto,
      dequeuerVars
  <2>8. ReachInv'
    BY <1>1, <1>8, <1>16, PostFields DEF TypeOK, ReachInv, InHand, Dropped, Moved, Goto,
      dequeuerVars
  <2> QED
    BY <2>1, <2>2, <2>3, <2>4, <2>5, <2>6, <2>7, <2>8 DEF QueueInv
<1>17. ASSUME NEW m \in Members, MoveFails(m) PROVE QueueInv'
  <2>1. TypeOK'
    BY <1>1, <1>17 DEF TypeOK, MoveFails, Goto, dequeuerVars
  <2>2. EntriesAreCallers'
    BY <1>1, <1>2, <1>17 DEF TypeOK, EntriesAreCallers, MoveFails, Goto, dequeuerVars
  <2>3. TakenOnce'
    BY <1>1, <1>3, <1>17 DEF TypeOK, TakenOnce, MoveFails, Goto, dequeuerVars
  <2>4. DequeuerInv'
    BY <1>4, <1>17 DEF DequeuerInv, MoveFails, Goto, dequeuerVars
  <2>5. PostInv'
    BY <1>5, <1>17 DEF PostInv, MoveFails, Goto, dequeuerVars
  <2>6. PartnerInv'
    BY <1>1, <1>6, <1>17 DEF TypeOK, PartnerInv, Asked, MoveFails, Goto, dequeuerVars
  <2>7. BridgeInv'
    BY <1>1, <1>7, <1>17 DEF TypeOK, BridgeInv, HasMember, MoveFails, Goto, dequeuerVars
  <2>8. ReachInv'
    BY <1>1, <1>8, <1>17 DEF TypeOK, ReachInv, InHand, Dropped, MoveFails, Goto,
      dequeuerVars
  <2> QED
    BY <2>1, <2>2, <2>3, <2>4, <2>5, <2>6, <2>7, <2>8 DEF QueueInv
<1>18. ASSUME NEW m \in Members, Left(m) PROVE QueueInv'
  <2>1. TypeOK'
    BY <1>1, <1>18 DEF TypeOK, Left, Goto, dequeuerVars
  <2>2. EntriesAreCallers'
    BY <1>1, <1>2, <1>18 DEF TypeOK, EntriesAreCallers, Left, Goto, dequeuerVars
  <2>3. TakenOnce'
    BY <1>1, <1>3, <1>18 DEF TypeOK, TakenOnce, Left, Goto, dequeuerVars
  <2>4. DequeuerInv'
    BY <1>4, <1>18 DEF DequeuerInv, Left, Goto, dequeuerVars
  <2>5. PostInv'
    BY <1>5, <1>18 DEF PostInv, Left, Goto, dequeuerVars
  <2>6. PartnerInv'
    BY <1>1, <1>6, <1>18 DEF TypeOK, PartnerInv, Asked, Left, Goto, dequeuerVars
  <2>7. BridgeInv'
    BY <1>1, <1>7, <1>18 DEF TypeOK, BridgeInv, HasMember, Left, Goto, dequeuerVars
  <2>8. ReachInv'
    BY <1>1, <1>8, <1>18 DEF TypeOK, ReachInv, InHand, Dropped, Left, Goto, dequeuerVars
  <2> QED
    BY <2>1, <2>2, <2>3, <2>4, <2>5, <2>6, <2>7, <2>8 DEF QueueInv
<1>19. ASSUME NEW m \in Members, NEW d \in Dequeuers, AskedToDequeue(m, d) PROVE QueueInv'
  <2>1. TypeOK'
    BY <1>1, <1>19, PostType DEF TypeOK, AskedToDequeue, DoBridge, Goto, Enqueued,
      dequeuerVars, Kinds
  <2>2. EntriesAreCallers'
    BY <1>1, <1>2, <1>3, <1>5, <1>19, QueueAssumption, PostFields DEF QueueAssumption,
      TypeOK, EntriesAreCallers, TakenOnce, PostInv, Asked, AskedToDequeue, DoBridge, Goto,
      Enqueued, dequeuerVars
  <2>3. TakenOnce'
    BY <1>1, <1>3, <1>19, PostFields DEF TypeOK, TakenOnce, AskedToDequeue, DoBridge, Goto,
      Enqueued, dequeuerVars
  <2>4. DequeuerInv'
    BY <1>1, <1>4, <1>19, PostFields DEF TypeOK, DequeuerInv, AskedToDequeue, DoBridge,
      Goto, Enqueued, dequeuerVars
  <2>5. PostInv'
    BY <1>1, <1>5, <1>19, PostFields DEF TypeOK, PostInv, Asked, AskedToDequeue, DoBridge,
      Goto, Enqueued, dequeuerVars
  <2>6. PartnerInv'
    BY <1>1, <1>5, <1>6, <1>19, QueueAssumption, PostFields DEF QueueAssumption, TypeOK,
      PostInv, PartnerInv, Asked, AskedToDequeue, DoBridge, Goto, Enqueued, dequeuerVars
  <2>7. BridgeInv'
    BY <1>1, <1>4, <1>7, <1>19, PostFields DEF TypeOK, DequeuerInv, BridgeInv, HasMember,
      AskedToDequeue, DoBridge, Goto, Enqueued, dequeuerVars
  <2>8. ReachInv'
    BY <1>1, <1>8, <1>19, PostFields DEF TypeOK, ReachInv, InHand, Dropped, AskedToDequeue,
      DoBridge, Goto, Enqueued, dequeuerVars
  <2> QED
    BY <2>1, <2>2, <2>3, <2>4, <2>5, <2>6, <2>7, <2>8 DEF QueueInv
<1>20. ASSUME NEW m \in Members, NEW d \in Dequeuers, NotReady(m, d) PROVE QueueInv'
  <2>1. TypeOK'
    BY <1>1, <1>20, PostType DEF TypeOK, NotReady, dequeuerVars, Kinds
  <2>2. EntriesAreCallers'
    BY <1>1, <1>2, <1>20, PostFields DEF TypeOK, EntriesAreCallers, NotReady, dequeuerVars
  <2>3. TakenOnce'
    BY <1>1, <1>3, <1>20, PostFields DEF TypeOK, TakenOnce, NotReady, dequeuerVars
  <2>4. DequeuerInv'
    BY <1>4, <1>20 DEF DequeuerInv, NotReady, dequeuerVars
  <2>5. PostInv'
    BY <1>1, <1>5, <1>20, PostFields DEF TypeOK, PostInv, Asked, NotReady, dequeuerVars
  <2>6. PartnerInv'
    BY <1>1, <1>6, <1>20, PostFields DEF TypeOK, PartnerInv, Asked, NotReady, dequeuerVars
  <2>7. BridgeInv'
    BY <1>1, <1>3, <1>4, <1>5, <1>7, <1>20, PostFields DEF TypeOK, TakenOnce, DequeuerInv,
      PostInv, BridgeInv, HasMember, Asked, NotReady, dequeuerVars
  <2>8. ReachInv'
    BY <1>1, <1>8, <1>20, PostFields DEF TypeOK, ReachInv, InHand, Dropped, NotReady,
      dequeuerVars
  <2> QED
    BY <2>1, <2>2, <2>3, <2>4, <2>5, <2>6, <2>7, <2>8 DEF QueueInv
<1>21. ASSUME NEW m \in Members, NEW d \in Dequeuers, DequeuerHungUp(m, d) PROVE QueueInv'
  <2>1. TypeOK'
    BY <1>1, <1>21, PostType DEF TypeOK, DequeuerHungUp, dequeuerVars, Kinds
  <2>2. EntriesAreCallers'
    BY <1>1, <1>2, <1>21, PostFields DEF TypeOK, EntriesAreCallers, DequeuerHungUp,
      dequeuerVars
  <2>3. TakenOnce'
    BY <1>1, <1>3, <1>21, PostFields DEF TypeOK, TakenOnce, DequeuerHungUp, dequeuerVars
  <2>4. DequeuerInv'
    BY <1>4, <1>21 DEF DequeuerInv, DequeuerHungUp, dequeuerVars
  <2>5. PostInv'
    BY <1>1, <1>5, <1>21, PostFields DEF TypeOK, PostInv, Asked, DequeuerHungUp,
      dequeuerVars
  <2>6. PartnerInv'
    BY <1>1, <1>6, <1>21, PostFields DEF TypeOK, PartnerInv, Asked, DequeuerHungUp,
      dequeuerVars
  <2>7. BridgeInv'
    BY <1>1, <1>3, <1>4, <1>5, <1>7, <1>21, PostFields DEF TypeOK, TakenOnce, DequeuerInv,
      PostInv, BridgeInv, HasMember, Asked, DequeuerHungUp, dequeuerVars
  <2>8. ReachInv'
    BY <1>1, <1>8, <1>21, PostFields DEF TypeOK, ReachInv, InHand, Dropped, DequeuerHungUp,
      dequeuerVars
  <2> QED
    BY <2>1, <2>2, <2>3, <2>4, <2>5, <2>6, <2>7, <2>8 DEF QueueInv
<1>22. ASSUME NEW d \in Dequeuers, Pop(d) PROVE QueueInv'
  <2>1. TypeOK'
    BY <1>1, <1>22 DEF TypeOK, Pop, memberVars
  <2>2. EntriesAreCallers'
    BY <1>1, <1>2, <1>22 DEF TypeOK, EntriesAreCallers, Pop, memberVars
  <2>3. TakenOnce'
    BY <1>1, <1>2, <1>3, <1>22 DEF TypeOK, EntriesAreCallers, TakenOnce, Pop, memberVars
  <2>4. DequeuerInv'
    BY <1>1, <1>4, <1>22 DEF TypeOK, DequeuerInv, Pop, memberVars
  <2>5. PostInv'
    BY <1>1, <1>4, <1>5, <1>22, QueueAssumption DEF QueueAssumption, TypeOK, DequeuerInv,
      PostInv, Asked, Pop, memberVars
  <2>6. PartnerInv'
    BY <1>1, <1>4, <1>6, <1>22, QueueAssumption DEF QueueAssumption, TypeOK, DequeuerInv,
      PartnerInv, Asked, Pop, memberVars
  <2>7. BridgeInv'
    BY <1>1, <1>4, <1>7, <1>22 DEF TypeOK, DequeuerInv, BridgeInv, HasMember, Pop,
      memberVars
  <2>8. ReachInv'
    BY <1>1, <1>4, <1>8, <1>22, QueueAssumption DEF QueueAssumption, TypeOK, DequeuerInv,
      ReachInv, InHand, Dropped, Pop, memberVars
  <2> QED
    BY <2>1, <2>2, <2>3, <2>4, <2>5, <2>6, <2>7, <2>8 DEF QueueInv
<1>23. ASSUME NEW d \in Dequeuers, PopAnswered(d) PROVE QueueInv'
  <2>1. TypeOK'
    BY <1>1, <1>23, PostType DEF TypeOK, PopAnswered, memberVars, Kinds
  <2>2. EntriesAreCallers'
    BY <1>2, <1>23 DEF EntriesAreCallers, PopAnswered, memberVars
  <2>3. TakenOnce'
    BY <1>3, <1>23 DEF TakenOnce, PopAnswered, memberVars
  <2>4. DequeuerInv'
    BY <1>1, <1>4, <1>23, PostFields DEF TypeOK, DequeuerInv, PopAnswered, memberVars
  <2>5. PostInv'
    BY <1>1, <1>5, <1>23, PostFields DEF TypeOK, PostInv, Asked, PopAnswered, memberVars
  <2>6. PartnerInv'
    BY <1>1, <1>6, <1>23, PostFields DEF TypeOK, PartnerInv, Asked, PopAnswered, memberVars
  <2>7. BridgeInv'
    BY <1>1, <1>4, <1>7, <1>23, PostFields DEF TypeOK, DequeuerInv, BridgeInv, HasMember,
      PopAnswered, memberVars
  <2>8. ReachInv'
    BY <1>1, <1>4, <1>8, <1>23, QueueAssumption, PostFields DEF QueueAssumption, TypeOK,
      DequeuerInv, ReachInv, InHand, Dropped, PopAnswered, memberVars
  <2> QED
    BY <2>1, <2>2, <2>3, <2>4, <2>5, <2>6, <2>7, <2>8 DEF QueueInv
<1>24. ASSUME NEW d \in Dequeuers, SeekEnds(d) PROVE QueueInv'
  <2>1. TypeOK'
    BY <1>1, <1>24 DEF TypeOK, SeekEnds, memberVars
  <2>2. EntriesAreCallers'
    BY <1>2, <1>24 DEF EntriesAreCallers, SeekEnds, memberVars
  <2>3. TakenOnce'
    BY <1>3, <1>24 DEF TakenOnce, SeekEnds, memberVars
  <2>4. DequeuerInv'
    BY <1>1, <1>4, <1>24 DEF TypeOK, DequeuerInv, SeekEnds, memberVars
  <2>5. PostInv'
    BY <1>5, <1>24 DEF PostInv, SeekEnds, memberVars
  <2>6. PartnerInv'
    BY <1>6, <1>24 DEF PartnerInv, SeekEnds, memberVars
  <2>7. BridgeInv'
    BY <1>7, <1>24 DEF BridgeInv, HasMember, SeekEnds, memberVars
  <2>8. ReachInv'
    BY <1>1, <1>8, <1>24 DEF TypeOK, ReachInv, InHand, Dropped, SeekEnds, memberVars
  <2> QED
    BY <2>1, <2>2, <2>3, <2>4, <2>5, <2>6, <2>7, <2>8 DEF QueueInv
<1>25. ASSUME NEW d \in Dequeuers, BridgeTimeout(d) PROVE QueueInv'
  <2>1. TypeOK'
    BY <1>1, <1>25 DEF TypeOK, BridgeTimeout, Finish, memberVars
  <2>2. EntriesAreCallers'
    BY <1>2, <1>25 DEF EntriesAreCallers, BridgeTimeout, Finish, memberVars
  <2>3. TakenOnce'
    BY <1>3, <1>25 DEF TakenOnce, BridgeTimeout, Finish, memberVars
  <2>4. DequeuerInv'
    BY <1>1, <1>4, <1>25 DEF TypeOK, DequeuerInv, BridgeTimeout, Finish, memberVars
  <2>5. PostInv'
    BY <1>1, <1>5, <1>25 DEF TypeOK, PostInv, Asked, BridgeTimeout, Finish, memberVars
  <2>6. PartnerInv'
    BY <1>1, <1>6, <1>25 DEF TypeOK, PartnerInv, Asked, BridgeTimeout, Finish, memberVars
  <2>7. BridgeInv'
    BY <1>1, <1>7, <1>25 DEF TypeOK, BridgeInv, HasMember, BridgeTimeout, Finish, memberVars
  <2>8. ReachInv'
    BY <1>8, <1>25 DEF ReachInv, InHand, Dropped, BridgeTimeout, Finish, memberVars
  <2> QED
    BY <2>1, <2>2, <2>3, <2>4, <2>5, <2>6, <2>7, <2>8 DEF QueueInv
<1>26. ASSUME NEW d \in Dequeuers, BridgeDone(d) PROVE QueueInv'
  <2>1. TypeOK'
    BY <1>1, <1>26 DEF TypeOK, BridgeDone, memberVars
  <2>2. EntriesAreCallers'
    BY <1>2, <1>26 DEF EntriesAreCallers, BridgeDone, memberVars
  <2>3. TakenOnce'
    BY <1>3, <1>26 DEF TakenOnce, BridgeDone, memberVars
  <2>4. DequeuerInv'
    BY <1>1, <1>4, <1>26 DEF TypeOK, DequeuerInv, BridgeDone, memberVars
  <2>5. PostInv'
    BY <1>5, <1>26 DEF PostInv, BridgeDone, memberVars
  <2>6. PartnerInv'
    BY <1>6, <1>26 DEF PartnerInv, BridgeDone, memberVars
  <2>7. BridgeInv'
    BY <1>1, <1>7, <1>26 DEF TypeOK, BridgeInv, HasMember, BridgeDone, memberVars
  <2>8. ReachInv'
    BY <1>8, <1>26 DEF ReachInv, InHand, Dropped, BridgeDone, memberVars
  <2> QED
    BY <2>1, <2>2, <2>3, <2>4, <2>5, <2>6, <2>7, <2>8 DEF QueueInv
<1>27. ASSUME NEW d \in Dequeuers, BridgeFails(d) PROVE QueueInv'
  <2>1. TypeOK'
    BY <1>1, <1>27 DEF TypeOK, BridgeFails, memberVars
  <2>2. EntriesAreCallers'
    BY <1>2, <1>27 DEF EntriesAreCallers, BridgeFails, memberVars
  <2>3. TakenOnce'
    BY <1>3, <1>27 DEF TakenOnce, BridgeFails, memberVars
  <2>4. DequeuerInv'
    BY <1>1, <1>4, <1>27 DEF TypeOK, DequeuerInv, BridgeFails, memberVars
  <2>5. PostInv'
    BY <1>5, <1>27 DEF PostInv, BridgeFails, memberVars
  <2>6. PartnerInv'
    BY <1>6, <1>27 DEF PartnerInv, BridgeFails, memberVars
  <2>7. BridgeInv'
    BY <1>1, <1>7, <1>27 DEF TypeOK, BridgeInv, HasMember, BridgeFails, memberVars
  <2>8. ReachInv'
    BY <1>8, <1>27 DEF ReachInv, InHand, Dropped, BridgeFails, memberVars
  <2> QED
    BY <2>1, <2>2, <2>3, <2>4, <2>5, <2>6, <2>7, <2>8 DEF QueueInv
<1>28. ASSUME NEW d \in Dequeuers, NEW m \in Members, Accepted(d, m) PROVE QueueInv'
  <2>1. TypeOK'
    BY <1>1, <1>28, PostType DEF TypeOK, Accepted, memberVars, Kinds
  <2>2. EntriesAreCallers'
    BY <1>2, <1>28 DEF EntriesAreCallers, Accepted, memberVars
  <2>3. TakenOnce'
    BY <1>3, <1>28 DEF TakenOnce, Accepted, memberVars
  <2>4. DequeuerInv'
    BY <1>4, <1>28 DEF DequeuerInv, Accepted, memberVars
  <2>5. PostInv'
    BY <1>1, <1>5, <1>28, PostFields DEF TypeOK, PostInv, Asked, Accepted, memberVars
  <2>6. PartnerInv'
    BY <1>6, <1>28 DEF PartnerInv, Accepted, memberVars
  <2>7. BridgeInv'
    BY <1>1, <1>7, <1>28, PostFields DEF TypeOK, BridgeInv, HasMember, Accepted, memberVars
  <2>8. ReachInv'
    BY <1>1, <1>8, <1>28, PostFields DEF TypeOK, ReachInv, InHand, Dropped, Accepted,
      memberVars
  <2> QED
    BY <2>1, <2>2, <2>3, <2>4, <2>5, <2>6, <2>7, <2>8 DEF QueueInv
<1>29. ASSUME NEW d \in Dequeuers, NEW m \in Members, Refused(d, m) PROVE QueueInv'
  <2>1. TypeOK'
    BY <1>1, <1>29, PostType DEF TypeOK, Refused, Finish, memberVars, Kinds
  <2>2. EntriesAreCallers'
    BY <1>2, <1>29 DEF EntriesAreCallers, Refused, Finish, memberVars
  <2>3. TakenOnce'
    BY <1>3, <1>29 DEF TakenOnce, Refused, Finish, memberVars
  <2>4. DequeuerInv'
    BY <1>1, <1>4, <1>29, PostFields DEF TypeOK, DequeuerInv, Refused, Finish, memberVars
  <2>5. PostInv'
    BY <1>1, <1>5, <1>29, PostFields DEF TypeOK, PostInv, Asked, Refused, Finish, memberVars
  <2>6. PartnerInv'
    BY <1>1, <1>6, <1>29, PostFields DEF TypeOK, PartnerInv, Asked, Refused, Finish,
      memberVars
  <2>7. BridgeInv'
    BY <1>1, <1>7, <1>29, PostFields DEF TypeOK, BridgeInv, HasMember, Refused, Finish,
      memberVars
  <2>8. ReachInv'
    BY <1>1, <1>8, <1>29, PostFields DEF TypeOK, ReachInv, InHand, Dropped, Refused, Finish,
      memberVars
  <2> QED
    BY <2>1, <2>2, <2>3, <2>4, <2>5, <2>6, <2>7, <2>8 DEF QueueInv
<1>30. ASSUME NEW d \in Dequeuers, NEW m \in Members, MemberReady(d, m) PROVE QueueInv'
  <2>1. TypeOK'
    BY <1>1, <1>30, PostType DEF TypeOK, MemberReady, Dequeuing, memberVars, Kinds
  <2>2. EntriesAreCallers'
    BY <1>2, <1>30 DEF EntriesAreCallers, MemberReady, Dequeuing, memberVars
  <2>3. TakenOnce'
    BY <1>3, <1>30 DEF TakenOnce, MemberReady, Dequeuing, memberVars
  <2>4. DequeuerInv'
    BY <1>1, <1>4, <1>5, <1>30, PostFields DEF TypeOK, DequeuerInv, PostInv, Asked,
      MemberReady, Dequeuing, memberVars
  <2>5. PostInv'
    BY <1>1, <1>5, <1>30, PostFields DEF TypeOK, PostInv, Asked, MemberReady, Dequeuing,
      memberVars
  <2>6. PartnerInv'
    BY <1>6, <1>30 DEF PartnerInv, MemberReady, Dequeuing, memberVars
  <2>7. BridgeInv'
    BY <1>1, <1>5, <1>7, <1>30, PostFields DEF TypeOK, PostInv, BridgeInv, HasMember, Asked,
      MemberReady, Dequeuing, memberVars
  <2>8. ReachInv'
    BY <1>1, <1>8, <1>30, PostFields DEF TypeOK, ReachInv, InHand, Dropped, MemberReady,
      Dequeuing, memberVars
  <2> QED
    BY <2>1, <2>2, <2>3, <2>4, <2>5, <2>6, <2>7, <2>8 DEF QueueInv
<1>31. ASSUME NEW d \in Dequeuers, NEW m \in Members, MemberHungUp(d, m) PROVE QueueInv'
  <2>1. TypeOK'
    BY <1>1, <1>31, PostType DEF TypeOK, MemberHungUp, Finish, Dequeuing, memberVars, Kinds
  <2>2. EntriesAreCallers'
    BY <1>2, <1>31 DEF EntriesAreCallers, MemberHungUp, Finish, Dequeuing, memberVars
  <2>3. TakenOnce'
    BY <1>3, <1>31 DEF TakenOnce, MemberHungUp, Finish, Dequeuing, memberVars
  <2>4. DequeuerInv'
    BY <1>1, <1>4, <1>31, PostFields DEF TypeOK, DequeuerInv, MemberHungUp, Finish,
      Dequeuing, memberVars
  <2>5. PostInv'
    BY <1>1, <1>5, <1>31, PostFields DEF TypeOK, PostInv, Asked, MemberHungUp, Finish,
      Dequeuing, memberVars
  <2>6. PartnerInv'
    BY <1>1, <1>6, <1>31, PostFields DEF TypeOK, PartnerInv, Asked, MemberHungUp, Finish,
      Dequeuing, memberVars
  <2>7. BridgeInv'
    BY <1>1, <1>4, <1>5, <1>7, <1>31, PostFields DEF TypeOK, DequeuerInv, PostInv,
      BridgeInv, HasMember, Asked, MemberHungUp, Finish, Dequeuing, memberVars
  <2>8. ReachInv'
    BY <1>1, <1>8, <1>31, PostFields DEF TypeOK, ReachInv, InHand, Dropped, MemberHungUp,
      Finish, Dequeuing, memberVars
  <2> QED
    BY <2>1, <2>2, <2>3, <2>4, <2>5, <2>6, <2>7, <2>8 DEF QueueInv
<1>32. ASSUME NEW m \in Members, ActionDone(m) PROVE QueueInv'
  <2>1. TypeOK'
    BY <1>1, <1>32 DEF TypeOK, ActionDone, Goto, dequeuerVars
  <2>2. EntriesAreCallers'
    BY <1>1, <1>2, <1>32 DEF TypeOK, EntriesAreCallers, ActionDone, Goto, dequeuerVars
  <2>3. TakenOnce'
    BY <1>1, <1>3, <1>32 DEF TypeOK, TakenOnce, ActionDone, Goto, dequeuerVars
  <2>4. DequeuerInv'
    BY <1>1, <1>4, <1>32 DEF TypeOK, DequeuerInv, ActionDone, Goto, dequeuerVars
  <2>5. PostInv'
    BY <1>1, <1>5, <1>32 DEF TypeOK, PostInv, Asked, ActionDone, Goto, dequeuerVars
  <2>6. PartnerInv'
    BY <1>1, <1>6, <1>32 DEF TypeOK, PartnerInv, Asked, ActionDone, Goto, dequeuerVars
  <2>7. BridgeInv'
    BY <1>1, <1>7, <1>32 DEF TypeOK, BridgeInv, HasMember, ActionDone, Goto, dequeuerVars
  <2>8. ReachInv'
    BY <1>1, <1>8, <1>32 DEF TypeOK, ReachInv, InHand, Dropped, ActionDone, Goto, dequeuerVars
  <2> QED
    BY <2>1, <2>2, <2>3, <2>4, <2>5, <2>6, <2>7, <2>8 DEF QueueInv
<1>33. ASSUME NEW p \in posts, Lost(p) PROVE QueueInv'
  <2>1. TypeOK'
    BY <1>1, <1>5, <1>33, PostType, PostFields DEF TypeOK, PostInv, Asked, Lost, Kinds
  <2>2. EntriesAreCallers'
    BY <1>1, <1>2, <1>5, <1>33, PostType, PostFields DEF TypeOK, EntriesAreCallers, PostInv,
       Asked, Lost
  <2>3. TakenOnce'
    BY <1>1, <1>3, <1>5, <1>33, PostType, PostFields DEF TypeOK, TakenOnce, PostInv, Asked, Lost
  <2>4. DequeuerInv'
    BY <1>1, <1>4, <1>5, <1>33, PostType, PostFields DEF TypeOK, DequeuerInv, PostInv, Asked, Lost
  <2>5. PostInv'
    BY <1>1, <1>5, <1>33, PostType, PostFields DEF TypeOK, PostInv, Asked, Lost
  <2>6. PartnerInv'
    BY <1>1, <1>5, <1>6, <1>33, PostType, PostFields DEF TypeOK, PartnerInv, PostInv, Asked, Lost
  <2>7. BridgeInv'
    BY <1>1, <1>5, <1>7, <1>33, PostType, PostFields DEF TypeOK, BridgeInv, PostInv,
       HasMember, Asked, Lost
  <2>8. ReachInv'
    BY <1>1, <1>5, <1>8, <1>33, PostType, PostFields DEF TypeOK, ReachInv, PostInv, InHand,
       Dropped, Asked, Lost
  <2> QED
    BY <2>1, <2>2, <2>3, <2>4, <2>5, <2>6, <2>7, <2>8 DEF QueueInv
<1>34. CASE UNCHANGED vars
  BY <1>1, <1>2, <1>3, <1>4, <1>5, <1>6, <1>7, <1>8, <1>34 DEF QueueInv, vars, TypeOK,
     EntriesAreCallers, TakenOnce, DequeuerInv, PostInv, PartnerInv, BridgeInv, ReachInv,
     HasMember, InHand, Dropped, Asked
<1> QED
  BY <1>9, <1>10, <1>11, <1>12, <1>13, <1>14, <1>15, <1>16, <1>17, <1>18, <1>19, <1>20,
    <1>21, <1>22, <1>23, <1>24, <1>25, <1>26, <1>27, <1>28, <1>29, <1>30, <1>31, <1>32,
    <1>33, <1>34 DEF
    Next, Callers, MemberSystem, DequeuerSystem

\* Before the first call nobody is queued and nothing was sent.
LEMMA Initially == Init => QueueInv
<1> SUFFICES ASSUME Init PROVE QueueInv
  OBVIOUS
<1>1. TypeOK
  BY DEF Init, TypeOK
<1>2. EntriesAreCallers /\ TakenOnce /\ DequeuerInv
  BY DEF Init, EntriesAreCallers, TakenOnce, DequeuerInv
<1>3. PostInv /\ PartnerInv
  BY DEF Init, PostInv, PartnerInv
<1>4. BridgeInv /\ ReachInv
  BY DEF Init, BridgeInv, ReachInv
<1> QED
  BY <1>1, <1>2, <1>3, <1>4 DEF QueueInv

\* The invariant holds in every state of every execution.
THEOREM Invariance == Spec => []QueueInv
BY Initially, Steps, PTL DEF Spec

\* TypeOK holds for any calls: every variable stays in its range (enqueue.js, dequeue.js).
THEOREM QueueTypes == Spec => []TypeOK
<1>1. QueueInv => TypeOK
  BY DEF QueueInv
<1> QED
  BY <1>1, Invariance, PTL

\* A caller that waits in the queue's music can be reached: he is queued, in the hands of
\* a dequeuer, or was dropped in one of the three known gaps (_getMemberFromQueue,
\* _dequeueUrl, _doWait).
THEOREM WaitingSafe == Spec => []WaitingIsReachable
<1>1. QueueInv => WaitingIsReachable
  BY DEF QueueInv, ReachInv, WaitingIsReachable
<1> QED
  BY <1>1, Invariance, PTL

\* A dequeuer that is bridged, none of whose messages was lost, has its member in the
\* bridge, hears soon that it hung up, or asked it when it had left (_bridgeLocal,
\* notifyQueueEvent of both verbs, and the kill of both).
THEOREM BridgedSafe == Spec => []BridgedHasMember
<1>1. QueueInv => BridgedHasMember
  <2> SUFFICES ASSUME QueueInv, NEW d \in Dequeuers \ cut, dpc[d] = "partner",
                      ready[d] = "bridged"
               PROVE  \E m \in Members : got[d] = m /\ HasMember(d, m)
    BY DEF BridgedHasMember, HasMember
  <2>1. got[d] \in Members
    BY DEF QueueInv, TypeOK, DequeuerInv
  <2>2. HasMember(d, got[d])
    BY DEF QueueInv, BridgeInv
  <2> QED
    BY <2>1, <2>2
<1> QED
  BY <1>1, Invariance, PTL
----------------------------------------------------------------------------
(* The refinement of MemberQueue *)

\* A step of the two verbs lets a caller join the queue or give up, lets a dequeuer take
\* one, or does not touch the queue.
LEMMA QueueSteps == QueueInv /\ [Next]_vars => [Queue!Next]_<<queue, got>>
<1> SUFFICES ASSUME QueueInv, [Next]_vars
             PROVE  Queue!Next \/ UNCHANGED <<queue, got>>
  OBVIOUS
<1>1. TypeOK /\ EntriesAreCallers /\ TakenOnce /\ DequeuerInv
  BY DEF QueueInv
<1>2. ASSUME NEW m \in Members, Enqueue(m) PROVE Queue!Next
  <2>1. m \notin queue
    BY <1>1, <1>2 DEF Enqueue, EntriesAreCallers
  <2>2. \A d \in Dequeuers : got[d] # m
    BY <1>1, <1>2, QueueAssumption DEF Enqueue, TakenOnce, QueueAssumption
  <2>3. Queue!Join(m)
    BY <1>2, <2>1, <2>2 DEF Enqueue, dequeuerVars, Queue!Join
  <2> QED
    BY <2>3 DEF Queue!Next
<1>3. ASSUME NEW m \in Members, Left(m) PROVE Queue!Next \/ UNCHANGED <<queue, got>>
  <2>1. CASE m \in queue
    BY <1>3, <2>1 DEF Left, dequeuerVars, Queue!Next, Queue!GiveUp
  <2>2. CASE m \notin queue
    BY <1>3, <2>2 DEF Left, dequeuerVars
  <2> QED
    BY <2>1, <2>2
<1>4. ASSUME NEW d \in Dequeuers, Pop(d) PROVE Queue!Next \/ UNCHANGED <<queue, got>>
  <2>1. CASE queue = {}
    BY <1>4, <2>1 DEF Pop
  <2>2. CASE queue # {}
    <3>1. PICK m \in queue : got' = [got EXCEPT ![d] = m] /\ queue' = queue \ {m}
      BY <1>4, <2>2 DEF Pop
    <3>2. got[d] = Nobody
      BY <1>1, <1>4 DEF Pop, DequeuerInv
    <3>3. m \in Members
      BY <1>1 DEF TypeOK
    <3>4. Queue!Take(d, m)
      BY <3>1, <3>2 DEF Queue!Take
    <3> QED
      BY <3>3, <3>4 DEF Queue!Next
  <2> QED
    BY <2>1, <2>2
<1>5. ASSUME NEW m \in Members,
             \/ Listen(m) \/ Moved(m) \/ MoveFails(m) \/ KillMember(m) \/ Leave(m)
             \/ ActionDone(m)
             \/ \E d \in Dequeuers :
                  AskedToDequeue(m, d) \/ NotReady(m, d) \/ DequeuerHungUp(m, d)
      PROVE  UNCHANGED <<queue, got>>
  BY <1>5 DEF Listen, Moved, MoveFails, KillMember, Leave, ActionDone, AskedToDequeue,
    NotReady, DequeuerHungUp, dequeuerVars
<1>6. ASSUME NEW d \in Dequeuers,
             \/ Dequeue(d) \/ KillDequeuer(d) \/ SearchTimeout(d) \/ PopAnswered(d)
             \/ SeekEnds(d) \/ BridgeTimeout(d) \/ BridgeDone(d) \/ BridgeFails(d)
      PROVE  UNCHANGED <<queue, got>>
  BY <1>6 DEF Dequeue, KillDequeuer, SearchTimeout, PopAnswered, SeekEnds, BridgeTimeout,
    BridgeDone, BridgeFails
<1>7. ASSUME NEW d \in Dequeuers, NEW m \in Members,
             Accepted(d, m) \/ Refused(d, m) \/ MemberReady(d, m) \/ MemberHungUp(d, m)
      PROVE  UNCHANGED <<queue, got>>
  BY <1>7 DEF Accepted, Refused, MemberReady, MemberHungUp
<1>8. ASSUME NEW p \in posts, Lost(p) PROVE UNCHANGED <<queue, got>>
  BY <1>8 DEF Lost
<1>9. CASE UNCHANGED vars
  BY <1>9 DEF vars
<1> QED
  BY <1>2, <1>3, <1>4, <1>5, <1>6, <1>7, <1>8, <1>9
    DEF Next, Callers, MemberSystem, DequeuerSystem

\* The two verbs and their messages implement the abstract queue: members leave it by
\* giving up or by being taken, by one dequeuer that takes nobody else.
THEOREM Refinement == Spec => QueueIsMemberQueue
<1>1. Init => Queue!Init
  BY DEF Init, Queue!Init
<1> QED
  BY <1>1, Invariance, QueueSteps, PTL DEF Spec, QueueIsMemberQueue, Queue!Spec
============================================================================
