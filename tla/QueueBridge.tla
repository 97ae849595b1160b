---------------------------- MODULE QueueBridge ----------------------------
(***************************************************************************)
(* Callers in a queue and the calls that dequeue them                      *)
(* (jambonz-feature-server/lib/tasks/enqueue.js and dequeue.js, with the   *)
(* routes http-routes/api/enqueue.js and dequeue.js).                      *)
(*                                                                         *)
(* The queue is a sorted set in redis; the two verbs, on the same or on    *)
(* different servers, talk by POST requests to each other's url, which     *)
(* fail when that call is not in its verb any more, or on the way.         *)
(***************************************************************************)
EXTENDS Naturals, FiniteSets

CONSTANTS Members,    \* the callers that run enqueue
          Dequeuers,  \* the calls that run dequeue
          Impatient,  \* the dequeuers whose verb has a timeout
          Leavers,    \* the members whose wait hook may return a leave verb
  Lossy,      \* the dequeuers whose messages may get lost
  Server,     \* the feature server of each call (localSipAddress)
          Nobody

ASSUME QueueAssumption ==
  /\ Nobody \notin Members \cup Dequeuers
  /\ Impatient \subseteq Dequeuers /\ Lossy \subseteq Dequeuers
  /\ Leavers \subseteq Members
  /\ DOMAIN Server = Members \cup Dequeuers

VARIABLES
  queue,     \* the sorted set in redis: the urls of members
  mpc,       \* where the enqueue verb of a member is
  mkilled,   \* it was killed by its session (hangup or a new application)
  partner,   \* bridgeDetails: the dequeuer that asked for it
  dpc,       \* where the dequeue verb is
  seek,      \* where its loop in _getMemberFromQueue is, which may outlive the promise
  got,       \* the member the loop popped
  timer,     \* the timer of the verb's timeout property
  ready,     \* bridging to the member that is ready
  btimer,    \* bridgeTimer
  dkilled,
  posts,     \* requests and answers on the network
  unheard,   \* members asked before their listeners were installed
  cut        \* dequeuers with a request or an answer that was lost on the way

vars == <<queue, mpc, mkilled, partner, dpc, seek, got, timer, ready, btimer, dkilled,
          posts, unheard, cut>>

memberVars   == <<mpc, mkilled, partner, unheard, cut>>
dequeuerVars == <<dpc, seek, got, timer, ready, btimer, dkilled, cut>>

Kinds == {"dequeue", "accepted", "refused", "ready", "notReady", "byeMember", "byeDequeuer"}
Post(kind, d, m) == [kind |-> kind, d |-> d, m |-> m]

TypeOK ==
  /\ queue \subseteq Members
  /\ mpc \in [Members -> {"idle", "listed", "waiting", "leaving", "left", "moving",
                          "bridging", "late", "done", "away"}]
  /\ mkilled \in [Members -> BOOLEAN]
  /\ partner \in [Members -> Dequeuers \cup {Nobody}]
  /\ dpc \in [Dequeuers -> {"idle", "search", "partner", "done"}]
  /\ seek \in [Dequeuers -> {"off", "first", "answer", "sleep"}]
  /\ got \in [Dequeuers -> Members \cup {Nobody}]
  /\ timer \in [Dequeuers -> {"none", "set", "fired"}]
  /\ ready \in [Dequeuers -> {"no", "bridging", "bridged", "failed"}]
  /\ btimer \in [Dequeuers -> BOOLEAN] /\ dkilled \in [Dequeuers -> BOOLEAN]
  /\ posts \subseteq [kind : Kinds, d : Dequeuers, m : Members]
  /\ unheard \subseteq Members /\ cut \subseteq Dequeuers

Init ==
  /\ queue = {} /\ posts = {} /\ unheard = {} /\ cut = {}
  /\ mpc = [m \in Members |-> "idle"] /\ mkilled = [m \in Members |-> FALSE]
  /\ partner = [m \in Members |-> Nobody]
  /\ dpc = [d \in Dequeuers |-> "idle"] /\ seek = [d \in Dequeuers |-> "off"]
  /\ got = [d \in Dequeuers |-> Nobody] /\ timer = [d \in Dequeuers |-> "none"]
  /\ ready = [d \in Dequeuers |-> "no"] /\ btimer = [d \in Dequeuers |-> FALSE]
  /\ dkilled = [d \in Dequeuers |-> FALSE]

\* The routes find a verb only while it is the current task of its session.
Enqueued(m)  == mpc[m] \notin {"idle", "done", "away"} /\ ~mkilled[m]
Dequeuing(d) == dpc[d] \notin {"idle", "done"} /\ ~dkilled[d]

Goto(m, pc) == mpc' = [mpc EXCEPT ![m] = pc]
----------------------------------------------------------------------------
(* The enqueue verb *)

\* _addToQueue: in the queue at once; the listeners come after one more answer.
Enqueue(m) ==
  /\ mpc[m] = "idle" /\ Goto(m, "listed")
  /\ queue' = queue \cup {m}
  /\ UNCHANGED <<mkilled, partner, unheard, posts>> /\ UNCHANGED dequeuerVars

\* _doWait installs its listeners, even when the verb was killed.
Listen(m) ==
  /\ mpc[m] = "listed" /\ Goto(m, "waiting")
  /\ UNCHANGED <<queue, mkilled, partner, unheard, posts>>
  /\ UNCHANGED dequeuerVars

\* _doBridge: here, or after moving to the server of the dequeuer. The verb of a member
\* that has left does not wait for the bridge.
DoBridge(m, d, others) ==
  IF Server[m] = Server[d]
  THEN /\ Goto(m, IF mpc[m] = "left" THEN "late" ELSE "bridging")
       /\ posts' = others \cup {Post("ready", d, m)}
  ELSE Goto(m, "moving") /\ posts' = others

\* notifyQueueEvent, event dequeue: heard by the listener of _doWait only, which stays
\* when the member leaves.
AskedToDequeue(m, d) ==
  LET others == posts \ {Post("dequeue", d, m)}
  IN  /\ Post("dequeue", d, m) \in posts
      /\ IF ~Enqueued(m)
         THEN /\ posts' = others \cup {Post("refused", d, m)}
              /\ UNCHANGED <<mpc, partner, unheard>>
         ELSE IF mpc[m] \in {"waiting", "leaving", "left"}
         THEN /\ partner' = [partner EXCEPT ![m] = d]
              /\ DoBridge(m, d, others \cup {Post("accepted", d, m)})
              /\ UNCHANGED unheard
         ELSE /\ posts' = others \cup {Post("accepted", d, m)}
              /\ unheard' = unheard \cup {m}
              /\ UNCHANGED <<mpc, partner>>
      /\ UNCHANGED <<queue, mkilled>> /\ UNCHANGED dequeuerVars

\* The REFER took the call to the other server, which runs enqueue with bridgeNow.
Moved(m) ==
  /\ mpc[m] = "moving" /\ ~mkilled[m] /\ Goto(m, "bridging")
  /\ posts' = posts \cup {Post("ready", partner[m], m)}
  /\ UNCHANGED <<queue, mkilled, partner, unheard>> /\ UNCHANGED dequeuerVars

MoveFails(m) ==
  /\ mpc[m] = "moving" /\ Goto(m, "done")
  /\ UNCHANGED <<queue, mkilled, partner, unheard, posts>>
  /\ UNCHANGED dequeuerVars

Killed(m) ==
  mpc' = [mpc EXCEPT ![m] = CASE @ = "waiting" -> "leaving"
                              [] @ \in {"left", "bridging", "late"} -> "done"
                              [] OTHER -> @]

\* Mutant: the partner is not told.
KillMemberSilently(m) ==
  /\ Enqueued(m)
  /\ mkilled' = [mkilled EXCEPT ![m] = TRUE]
  /\ Killed(m)
  /\ UNCHANGED <<queue, partner, unheard, posts>> /\ UNCHANGED dequeuerVars

\* What the listeners do: leave the queue, or end the bridge and tell the partner (again,
\* which changes nothing, until the action hook has answered).
TellDequeuer(m) ==
  posts' = IF mpc[m] \in {"bridging", "late"}
           THEN posts \cup {Post("byeDequeuer", partner[m], m)} ELSE posts

\* kill, by the session: a hangup or a new application.
KillMember(m) ==
  /\ Enqueued(m)
  /\ mkilled' = [mkilled EXCEPT ![m] = TRUE]
  /\ Killed(m) /\ TellDequeuer(m)
  /\ UNCHANGED <<queue, partner, unheard>> /\ UNCHANGED dequeuerVars

\* The wait hook returned a leave verb: the verb kills itself and stays the current task.
\* The answer of the hook may come when the member is in the bridge already (one that
\* comes while the call moves changes nothing).
Leave(m) ==
  /\ m \in Leavers /\ ~mkilled[m]
  /\ mpc[m] = "waiting" \/ (mpc[m] = "bridging" /\ Server[m] = Server[partner[m]])
  /\ Killed(m) /\ TellDequeuer(m)
  /\ UNCHANGED <<queue, mkilled, partner, unheard>> /\ UNCHANGED dequeuerVars

\* _removeFromQueue has answered; the action hook is called.
Left(m) ==
  /\ mpc[m] = "leaving" /\ Goto(m, IF mkilled[m] THEN "done" ELSE "left")
  /\ queue' = queue \ {m}
  /\ UNCHANGED <<mkilled, partner, unheard, posts>> /\ UNCHANGED dequeuerVars

\* performAction has returned: the verb ends, whoever is about to bridge to the member.
ActionDone(m) ==
  /\ mpc[m] \in {"left", "late"}
  /\ Goto(m, IF mpc[m] = "late" THEN "away" ELSE "done")
  /\ UNCHANGED <<queue, mkilled, partner, unheard, posts>> /\ UNCHANGED dequeuerVars

\* _bridgeLocal: the ready event was refused.
NotReady(m, d) ==
  /\ Post("notReady", d, m) \in posts
  /\ posts' = posts \ {Post("notReady", d, m)}
  /\ mpc' = [mpc EXCEPT ![m] = IF @ = "bridging" THEN "done" ELSE @]
  /\ UNCHANGED <<queue, mkilled, partner, unheard>> /\ UNCHANGED dequeuerVars

\* notifyQueueEvent, event hangup.
DequeuerHungUp(m, d) ==
  /\ Post("byeMember", d, m) \in posts
  /\ posts' = posts \ {Post("byeMember", d, m)}
  /\ mpc' = [mpc EXCEPT ![m] = IF @ \in {"bridging", "late"} /\ ~mkilled[m] THEN "done"
                                 ELSE @]
  /\ UNCHANGED <<queue, mkilled, partner, unheard>> /\ UNCHANGED dequeuerVars
----------------------------------------------------------------------------
(* The dequeue verb *)

Dequeue(d) ==
  /\ dpc[d] = "idle"
  /\ dpc' = [dpc EXCEPT ![d] = "search"] /\ seek' = [seek EXCEPT ![d] = "first"]
  /\ timer' = [timer EXCEPT ![d] = IF d \in Impatient THEN "set" ELSE "none"]
  /\ UNCHANGED <<queue, got, ready, btimer, dkilled, posts>> /\ UNCHANGED memberVars

\* Mutant: the entry is read and not removed.
PopLeavesEntry(d) ==
  /\ seek[d] = "first" \/ (seek[d] = "sleep" /\ ~dkilled[d] /\ timer[d] # "fired")
  /\ seek' = [seek EXCEPT ![d] = "answer"]
  /\ IF queue = {} THEN UNCHANGED got
     ELSE \E m \in queue : got' = [got EXCEPT ![d] = m]
  /\ UNCHANGED <<queue, dpc, timer, ready, btimer, dkilled, posts>>
  /\ UNCHANGED memberVars

\* One round of the loop: the first is made without looking whether the verb was killed.
\* Which member is next depends on priorities and on the callSid asked for.
Pop(d) ==
  /\ seek[d] = "first" \/ (seek[d] = "sleep" /\ ~dkilled[d] /\ timer[d] # "fired")
  /\ seek' = [seek EXCEPT ![d] = "answer"]
  /\ IF queue = {} THEN UNCHANGED <<queue, got>>
     ELSE \E m \in queue : got' = [got EXCEPT ![d] = m] /\ queue' = queue \ {m}
  /\ UNCHANGED <<dpc, timer, ready, btimer, dkilled, posts>> /\ UNCHANGED memberVars

\* Mutant: a killed verb does not ask the member it popped.
PopAnsweredUnlessKilled(d) ==
  /\ seek[d] = "answer"
  /\ seek' = [seek EXCEPT ![d] = IF got[d] = Nobody THEN "sleep" ELSE "off"]
  /\ IF got[d] # Nobody /\ dpc[d] = "search" /\ ~dkilled[d]
     THEN /\ dpc' = [dpc EXCEPT ![d] = "partner"]
          /\ posts' = posts \cup {Post("dequeue", d, got[d])}
          /\ timer' = [timer EXCEPT ![d] = "none"]
     ELSE UNCHANGED <<dpc, posts, timer>>
  /\ UNCHANGED <<queue, got, ready, btimer, dkilled>> /\ UNCHANGED memberVars

\* The popped member is asked, unless the promise was settled by the timer.
PopAnswered(d) ==
  /\ seek[d] = "answer"
  /\ seek' = [seek EXCEPT ![d] = IF got[d] = Nobody THEN "sleep" ELSE "off"]
  /\ IF got[d] # Nobody /\ dpc[d] = "search"
     THEN /\ dpc' = [dpc EXCEPT ![d] = "partner"]
          /\ posts' = posts \cup {Post("dequeue", d, got[d])}
          /\ timer' = [timer EXCEPT ![d] = "none"]
     ELSE UNCHANGED <<dpc, posts, timer>>
  /\ UNCHANGED <<queue, got, ready, btimer, dkilled>> /\ UNCHANGED memberVars

SeekEnds(d) ==
  /\ seek[d] = "sleep" /\ (dkilled[d] \/ timer[d] = "fired")
  /\ seek' = [seek EXCEPT ![d] = "off"]
  /\ UNCHANGED <<queue, dpc, got, timer, ready, btimer, dkilled, posts>>
  /\ UNCHANGED memberVars

SearchTimeout(d) ==
  /\ timer[d] = "set" /\ timer' = [timer EXCEPT ![d] = "fired"]
  /\ dpc' = [dpc EXCEPT ![d] = "done"]
  /\ UNCHANGED <<queue, seek, got, ready, btimer, dkilled, posts>>
  /\ UNCHANGED memberVars

\* Mutant: the member is not told.
KillDequeuerSilently(d) ==
  /\ Dequeuing(d)
  /\ dkilled' = [dkilled EXCEPT ![d] = TRUE]
  /\ dpc' = [dpc EXCEPT ![d] = IF @ = "partner" THEN "done" ELSE @]
  /\ UNCHANGED <<queue, seek, got, timer, ready, btimer, posts>> /\ UNCHANGED memberVars

\* kill: tells the member only when bridged, and settles nothing before it was asked.
KillDequeuer(d) ==
  /\ Dequeuing(d)
  /\ dkilled' = [dkilled EXCEPT ![d] = TRUE]
  /\ dpc' = [dpc EXCEPT ![d] = IF @ = "partner" THEN "done" ELSE @]
  /\ posts' = IF ready[d] = "bridged" THEN posts \cup {Post("byeMember", d, got[d])} ELSE posts
  /\ UNCHANGED <<queue, seek, got, timer, ready, btimer>> /\ UNCHANGED memberVars

Finish(d) == dpc' = [dpc EXCEPT ![d] = IF @ = "partner" THEN "done" ELSE @]

\* Mutant: no timer for the bridge.
AcceptedWithoutTimer(d, m) ==
  /\ Post("accepted", d, m) \in posts
  /\ posts' = posts \ {Post("accepted", d, m)}
  /\ UNCHANGED <<queue, dpc, btimer, seek, got, timer, ready, dkilled>>
  /\ UNCHANGED memberVars

\* bridgeTimer is set when the request was accepted, even if the bridge is already there
\* (one set after the end is of no effect).
Accepted(d, m) ==
  /\ Post("accepted", d, m) \in posts
  /\ posts' = posts \ {Post("accepted", d, m)}
  /\ btimer' = [btimer EXCEPT ![d] = (dpc[d] = "partner")]
  /\ UNCHANGED <<queue, dpc, seek, got, timer, ready, dkilled>>
  /\ UNCHANGED memberVars

Refused(d, m) ==
  /\ Post("refused", d, m) \in posts
  /\ posts' = posts \ {Post("refused", d, m)}
  /\ Finish(d)
  /\ UNCHANGED <<queue, seek, got, timer, ready, btimer, dkilled>>
  /\ UNCHANGED memberVars

BridgeTimeout(d) ==
  /\ btimer[d] /\ btimer' = [btimer EXCEPT ![d] = FALSE]
  /\ Finish(d)
  /\ UNCHANGED <<queue, seek, got, timer, ready, dkilled, posts>>
  /\ UNCHANGED memberVars

\* notifyQueueEvent, event ready: a beep, perhaps, then the bridge.
MemberReady(d, m) ==
  /\ Post("ready", d, m) \in posts
  /\ IF Dequeuing(d)
     THEN ready' = [ready EXCEPT ![d] = "bridging"] /\ posts' = posts \ {Post("ready", d, m)}
     ELSE /\ posts' = (posts \ {Post("ready", d, m)}) \cup {Post("notReady", d, m)}
          /\ UNCHANGED ready
  /\ UNCHANGED <<queue, dpc, seek, got, timer, btimer, dkilled>>
  /\ UNCHANGED memberVars

\* FreeSWITCH has bridged the two, too late if the verb has ended.
BridgeDone(d) ==
  /\ ready[d] = "bridging"
  /\ ready' = [ready EXCEPT ![d] = IF dpc[d] = "partner" THEN "bridged" ELSE "failed"]
  /\ btimer' = [btimer EXCEPT ![d] = FALSE]
  /\ UNCHANGED <<queue, dpc, seek, got, timer, dkilled, posts>>
  /\ UNCHANGED memberVars

BridgeFails(d) ==
  /\ ready[d] = "bridging" /\ ready' = [ready EXCEPT ![d] = "failed"]
  /\ UNCHANGED <<queue, dpc, seek, got, timer, btimer, dkilled, posts>>
  /\ UNCHANGED memberVars

\* notifyQueueEvent, event hangup.
MemberHungUp(d, m) ==
  /\ Post("byeDequeuer", d, m) \in posts
  /\ posts' = posts \ {Post("byeDequeuer", d, m)}
  /\ IF Dequeuing(d) THEN Finish(d) ELSE UNCHANGED dpc
  /\ UNCHANGED <<queue, seek, got, timer, ready, btimer, dkilled>>
  /\ UNCHANGED memberVars
----------------------------------------------------------------------------
(* The network *)

\* A request or an answer is lost: the sender of a request learns that it failed, though a
\* ready event may have arrived; nobody learns that a hangup event was lost.
Lost(p) ==
  LET others == posts \ {p}
  IN  /\ p.d \in Lossy
      /\ CASE p.kind \in {"dequeue", "accepted"} ->
                posts' = others \cup {Post("refused", p.d, p.m)}
            [] p.kind = "ready" ->
                \/ posts' = others \cup {Post("notReady", p.d, p.m)}
                \/ posts' = posts \cup {Post("notReady", p.d, p.m)}
            [] p.kind \in {"byeMember", "byeDequeuer"} -> posts' = others
            [] OTHER -> FALSE
      /\ cut' = cut \cup {p.d}
      /\ UNCHANGED <<queue, mpc, mkilled, partner, unheard>>
      /\ UNCHANGED <<dpc, seek, got, timer, ready, btimer, dkilled>>
----------------------------------------------------------------------------
\* What the servers, redis and FreeSWITCH do by themselves.
MemberSystem(m) ==
  \/ Listen(m) \/ Moved(m) \/ MoveFails(m) \/ Left(m) \/ ActionDone(m)
  \/ \E d \in Dequeuers : AskedToDequeue(m, d) \/ NotReady(m, d) \/ DequeuerHungUp(m, d)

DequeuerSystem(d) ==
  \/ Pop(d) \/ PopAnswered(d) \/ SeekEnds(d)
  \/ BridgeTimeout(d) \/ BridgeDone(d) \/ BridgeFails(d)
  \/ \E m \in Members : Accepted(d, m) \/ Refused(d, m) \/ MemberReady(d, m) \/ MemberHungUp(d, m)

Callers ==
  \/ \E m \in Members : Enqueue(m) \/ KillMember(m) \/ Leave(m)
  \/ \E d \in Dequeuers : Dequeue(d) \/ KillDequeuer(d) \/ SearchTimeout(d)

Next ==
  \/ Callers
  \/ \E m \in Members : MemberSystem(m)
  \/ \E d \in Dequeuers : DequeuerSystem(d)
  \/ \E p \in posts : Lost(p)

Fairness ==
  /\ \A m \in Members : WF_vars(MemberSystem(m))
  /\ \A d \in Dequeuers : WF_vars(DequeuerSystem(d))

Spec == Init /\ [][Next]_vars /\ Fairness
----------------------------------------------------------------------------
(* Properties *)

\* Nobody is popped twice, no dequeuer takes two members and no entry outlives its member
\* (addToSortedSet, retrieveFromSortedSet, _removeFromQueue).
Queue == INSTANCE MemberQueue WITH queued <- queue, taken <- got
QueueIsMemberQueue == Queue!Spec

\* A url in the queue belongs to a caller that is still in the verb (_removeFromQueue).
EntriesAreCallers == \A m \in queue : mpc[m] \in {"listed", "waiting", "leaving"}

\* A caller that waits is in the queue or in the hands of a dequeuer; known gaps are a pop
\* whose promise was settled, a request that was lost and one before the listeners.
InHand(m) ==
  \E d \in Dequeuers : got[d] = m /\ (seek[d] = "answer" \/ Post("dequeue", d, m) \in posts)
Dropped(m) ==
  \E d \in Dequeuers : got[d] = m /\ ((seek[d] = "off" /\ timer[d] = "fired") \/ d \in cut)
WaitingIsReachable ==
  \A m \in Members :
    mpc[m] = "waiting" /\ ~mkilled[m] =>
      m \in queue \/ InHand(m) \/ Dropped(m) \/ m \in unheard

\* A dequeuer that is bridged has its member in the verb with it, or the news that it hung
\* up is on its way (_bridgeLocal and notifyQueueEvent, both ends). Known gaps are a member
\* that was asked after it had left and has gone on, and a message that was lost.
BridgedHasMember ==
  \A d \in Dequeuers \ cut : (dpc[d] = "partner" /\ ready[d] = "bridged") =>
    \E m \in Members :
      /\ got[d] = m
      /\ \/ mpc[m] \in {"bridging", "late", "away"} /\ partner[m] = d
         \/ Post("byeDequeuer", d, m) \in posts

\* A dequeuer that asked for a member gets a bridge or goes on: nobody asks for good
\* (bridgeTimer, refusals).
AskingEnds ==
  <>[](\A d \in Dequeuers : dpc[d] = "partner" => ready[d] = "bridged")

\* Whoever hangs up in a bridge ends both verbs, unless the hangup event is lost.
HangupEndsBoth ==
  <>[](\A d \in Dequeuers \ cut : \A m \in Members :
         ready[d] = "bridged" /\ got[d] = m /\ (dkilled[d] \/ mkilled[m])
           => dpc[d] = "done" /\ mpc[m] \in {"done", "away"})
============================================================================
