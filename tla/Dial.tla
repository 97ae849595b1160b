------------------------------- MODULE Dial -------------------------------
(***************************************************************************)
(* The dial verb and the calls it places                                   *)
(* (jambonz-feature-server/lib/tasks/dial.js, utils/place-outdial.js).     *)
(*                                                                         *)
(* Several targets are called at once, each by a SingleDialer that reports *)
(* to the verb with events.  The first callee to accept is connected, the  *)
(* others are swept away.  Lookups, media, SIP requests and the sweeps     *)
(* themselves are awaited, so that events arrive in the midst of each.     *)
(***************************************************************************)
EXTENDS Naturals, FiniteSets

CONSTANTS
  Targets,
  Confirmed,       \* targets whose callee has to get through an application first
  AnswerOnBridge,  \* the caller is answered once a callee has accepted
  Nobody

ASSUME DialAssumption ==
  Confirmed \subseteq Targets /\ AnswerOnBridge \in BOOLEAN /\ Nobody \notin Targets

VARIABLES
  pc,        \* where the verb's exec() is
  killed,    \* the verb was killed
  notified,  \* notifyTaskDone
  ringTimer,
  dials,     \* the map of calls not yet accepted
  sd,        \* the accepted call
  heard,     \* calls whose events the verb listens to
  watched,   \* callees whose hang-up the verb listens to
  winning,   \* accepted calls whose _selectSingleDial awaits propagateAnswer
  sweeps,    \* the _killOutdials under way
  leg,       \* where each SingleDialer is
  cut,       \* SingleDialers that were killed
  up,        \* callees that are connected
  stray,     \* history: calls the verb lost track of
  late       \* history: calls placed when another was accepted already

verbVars == <<pc, notified, sd, watched, winning>>
sweepVars == <<killed, ringTimer, dials, sweeps>>
legVars == <<leg, cut, up, stray, late>>
vars == <<verbVars, sweepVars, legVars, heard>>

Sweep == [by : {"kill", "timer", "winner"}, rest : SUBSET Targets,
          cur : Targets \cup {Nobody}]

TypeOK ==
  /\ pc \in {"prepare", "lookup", "await", "done"}
  /\ killed \in BOOLEAN /\ notified \in BOOLEAN /\ ringTimer \in BOOLEAN
  /\ sd \in Targets \cup {Nobody}
  /\ dials \subseteq Targets /\ heard \subseteq Targets /\ watched \subseteq Targets
  /\ winning \subseteq Targets /\ cut \subseteq Targets /\ up \subseteq Targets
  /\ stray \subseteq Targets /\ late \subseteq Targets
  /\ leg \in [Targets -> {"idle", "lookup", "endpoint", "inviting", "ringing", "answering",
                          "confirming", "answered", "over"}]
  /\ sweeps \subseteq Sweep

Init ==
  /\ pc = "prepare" /\ killed = FALSE /\ notified = FALSE /\ ringTimer = FALSE
  /\ sd = Nobody
  /\ dials = {} /\ heard = {} /\ watched = {} /\ winning = {} /\ sweeps = {}
  /\ leg = [t \in Targets |-> "idle"] /\ cut = {} /\ up = {} /\ stray = {} /\ late = {}

Goto(t, label) == leg' = [leg EXCEPT ![t] = label]

NewSweep(by, legs) == [by |-> by, rest |-> legs, cur |-> Nobody]

\* The verb's kill() up to its first await.
KillVerb(legs) ==
  /\ killed' = TRUE /\ ringTimer' = FALSE
  /\ sweeps' = sweeps \cup {NewSweep("kill", legs)}

\* Mutant: the verb never gives up.
LoseOnly(t, timer) ==
  /\ dials' = dials \ {t}
  /\ ringTimer' = timer /\ UNCHANGED <<killed, sweeps>>

\* A call is off the map; with the last one goes the verb.
Lose(t, timer) ==
  /\ dials' = dials \ {t}
  /\ IF dials' = {} /\ sd = Nobody THEN KillVerb({})
     ELSE ringTimer' = timer /\ UNCHANGED <<killed, sweeps>>
----------------------------------------------------------------------------
(* The verb *)

\* exec(): up to _attemptCalls, which a killed verb skips.
Prepared ==
  /\ pc = "prepare" /\ pc' = IF killed THEN "await" ELSE "lookup"
  /\ UNCHANGED <<notified, sd, watched, winning, heard>>
  /\ UNCHANGED sweepVars /\ UNCHANGED legVars

\* _attemptCalls: the timer is set and every target is started, whoever killed the verb
\* meanwhile.
Attempt ==
  /\ pc = "lookup" /\ pc' = "await"
  /\ ringTimer' = TRUE /\ leg' = [t \in Targets |-> "lookup"]
  /\ UNCHANGED <<notified, sd, watched, winning, heard, killed, dials, sweeps>>
  /\ UNCHANGED <<cut, up, stray, late>>

AttemptFails ==
  /\ pc = "lookup" /\ pc' = "done"
  /\ KillVerb(dials)
  /\ UNCHANGED <<notified, sd, watched, winning, heard, dials>> /\ UNCHANGED legVars

\* The caller hangs up, the application is replaced, or the call has lasted too long.
Kill ==
  /\ ~killed /\ pc # "done"
  /\ KillVerb(dials)
  /\ UNCHANGED <<heard, dials>> /\ UNCHANGED verbVars /\ UNCHANGED legVars

RingTimeout ==
  /\ ringTimer /\ ringTimer' = FALSE
  /\ sweeps' = sweeps \cup {NewSweep("timer", dials)}
  /\ UNCHANGED <<heard, killed, dials>> /\ UNCHANGED verbVars /\ UNCHANGED legVars

TaskEnds ==
  /\ pc = "await" /\ notified /\ pc' = "done"
  /\ UNCHANGED <<notified, sd, watched, winning, heard>>
  /\ UNCHANGED sweepVars /\ UNCHANGED legVars
----------------------------------------------------------------------------
(* One target: the verb's setup and the SingleDialer's exec *)

PlaceCall(t) ==
  /\ leg[t] = "lookup"
  /\ IF killed THEN Goto(t, "over") /\ UNCHANGED <<dials, heard>>
     ELSE Goto(t, "endpoint") /\ dials' = dials \cup {t} /\ heard' = heard \cup {t}
  /\ late' = IF sd # Nobody THEN late \cup {t} ELSE late
  /\ UNCHANGED <<cut, up, stray, killed, ringTimer, sweeps>> /\ UNCHANGED verbVars

SetupFails(t) ==
  /\ leg[t] = "lookup" /\ Goto(t, "over")
  /\ UNCHANGED <<cut, up, stray, late, heard>> /\ UNCHANGED verbVars /\ UNCHANGED sweepVars

\* Killed "whilst we were off getting an endpoint".
EndpointMade(t) ==
  /\ leg[t] = "endpoint" /\ Goto(t, IF t \in cut THEN "over" ELSE "inviting")
  /\ UNCHANGED <<cut, up, stray, late, heard>> /\ UNCHANGED verbVars /\ UNCHANGED sweepVars

\* cbRequest: from here on kill() finds an invite to cancel.
InviteSent(t) ==
  /\ leg[t] = "inviting" /\ Goto(t, "ringing")
  /\ UNCHANGED <<cut, up, stray, late, heard>> /\ UNCHANGED verbVars /\ UNCHANGED sweepVars

\* callCreateFail, or decline.
Refuse(t) ==
  /\ Goto(t, "over")
  /\ IF t \in heard THEN Lose(t, FALSE) /\ heard' = heard \ {t}
     ELSE UNCHANGED sweepVars /\ UNCHANGED heard

CreateFails(t) ==
  /\ leg[t] = "inviting" /\ Refuse(t)
  /\ UNCHANGED <<cut, up, stray, late>> /\ UNCHANGED verbVars

\* A call fails before its INVITE is sent: the handler wants its callInfo and throws, the
\* call stays on the map.
FailUnsent(t) ==
  /\ leg[t] = "endpoint" /\ t \in heard /\ Goto(t, "over")
  /\ UNCHANGED <<cut, up, stray, late, heard>> /\ UNCHANGED verbVars /\ UNCHANGED sweepVars

\* The results need nothing of it if another call was NoAnswer or Completed before.
Reported(t) == \E u \in Targets \ {t} : leg[u] \in {"confirming", "answered", "over"}

\* callStatusChange with Failed, Busy or NoAnswer; the dialog of a callee whose media
\* could not be connected stays.
Fail(t) ==
  /\ \/ leg[t] \in {"ringing", "answering"}
     \/ leg[t] = "endpoint" /\ (t \notin heard \/ Reported(t))
  /\ Goto(t, "over")
  /\ IF t \in heard THEN Lose(t, ringTimer) ELSE UNCHANGED sweepVars
  /\ stray' = IF t \in up THEN stray \cup {t} ELSE stray
  /\ UNCHANGED <<cut, up, late, heard>> /\ UNCHANGED verbVars

\* The callee answers, maybe while the CANCEL is on its way.
Answer(t) ==
  /\ leg[t] = "ringing" /\ Goto(t, "answering")
  /\ up' = up \cup {t}
  /\ stray' = IF t \in cut THEN stray \cup {t} ELSE stray
  /\ UNCHANGED <<cut, late, heard>> /\ UNCHANGED verbVars /\ UNCHANGED sweepVars

\* Mutant: the calls still ringing are left alone.
SelectedOnly(winner, losers) ==
  /\ watched' = watched \cup {winner}
  /\ UNCHANGED sweeps

\* _selectSingleDial once the caller is answered; whoever is sd by now gets the listener.
Selected(winner, losers) ==
  /\ watched' = watched \cup {winner}
  /\ sweeps' = sweeps \cup {NewSweep("winner", losers)}

\* Mutant: the winner stays among the calls to be swept.
AcceptAndSweep(t) ==
  /\ sd' = t /\ UNCHANGED dials /\ UNCHANGED killed
  /\ stray' = IF sd \in Targets THEN stray \cup {sd} ELSE stray
  /\ IF AnswerOnBridge THEN winning' = winning \cup {t} /\ UNCHANGED <<watched, sweeps>>
     ELSE Selected(t, dials) /\ UNCHANGED winning

\* accept: the call becomes sd, and the one that was sd already is forgotten.
Accept(t) ==
  /\ sd' = t /\ dials' = dials \ {t} /\ UNCHANGED killed
  /\ stray' = IF sd \in Targets THEN stray \cup {sd} ELSE stray
  /\ IF AnswerOnBridge THEN winning' = winning \cup {t} /\ UNCHANGED <<watched, sweeps>>
     ELSE Selected(t, dials \ {t}) /\ UNCHANGED winning

NotAccepted == UNCHANGED <<sd, dials, killed, sweeps, stray, winning, watched>>

\* The media is connected: killed "just as call was answered", an application to run
\* first, or accepted.
Connected(t) ==
  /\ leg[t] = "answering"
  /\ ringTimer' = IF t \in heard THEN FALSE ELSE ringTimer
  /\ Goto(t, IF t \in cut THEN "over" ELSE IF t \in Confirmed THEN "confirming"
             ELSE "answered")
  /\ IF t \in heard \ (cut \cup Confirmed) THEN Accept(t) ELSE NotAccepted
  /\ UNCHANGED <<cut, up, late, heard, pc, notified>>

\* _executeApp is through and the callee is still there.
Confirm(t) ==
  /\ leg[t] = "confirming" /\ t \in up /\ Goto(t, "answered")
  /\ ringTimer' = IF t \in heard THEN FALSE ELSE ringTimer
  /\ IF t \in heard THEN Accept(t) ELSE NotAccepted
  /\ UNCHANGED <<cut, up, late, heard, pc, notified>>

\* The callee has gone, or the application fails and its callee is hung up.
Decline(t) ==
  /\ leg[t] = "confirming" /\ Refuse(t)
  /\ up' = up \ {t}
  /\ UNCHANGED <<cut, stray, late>> /\ UNCHANGED verbVars

CalleeHangsUp(t) ==
  /\ t \in up /\ up' = up \ {t}
  /\ IF t \in watched /\ sd # Nobody THEN KillVerb(dials)
     ELSE UNCHANGED <<killed, ringTimer, sweeps>>
  /\ UNCHANGED <<leg, cut, stray, late, dials, heard>> /\ UNCHANGED verbVars

\* propagateAnswer has returned; there is no dialog to listen to if the verb was killed.
Propagated(t) ==
  /\ t \in winning /\ winning' = winning \ {t}
  /\ IF sd = Nobody
     THEN KillVerb(dials) /\ heard' = heard \ {t} /\ UNCHANGED watched
     ELSE Selected(sd, dials) /\ UNCHANGED <<killed, ringTimer, heard>>
  /\ UNCHANGED <<pc, notified, sd, dials>> /\ UNCHANGED legVars

\* The caller could not be answered.
PropagateFails(t) ==
  /\ t \in winning /\ winning' = winning \ {t}
  /\ KillVerb(dials) /\ heard' = heard \ {t}
  /\ UNCHANGED <<pc, notified, sd, dials, watched>> /\ UNCHANGED legVars
----------------------------------------------------------------------------
(* _killOutdials *)

\* SingleDialer.kill: an invite in progress is cancelled, a dialog is ended.
Hangup(t) ==
  /\ cut' = cut \cup {t}
  /\ up' = IF leg[t] = "answering" THEN up ELSE up \ {t}
  /\ stray' = IF leg[t] = "answering" THEN stray \cup {t} ELSE stray

\* The loop goes on to the next call and awaits its end, or is through with one.
OnTo(s, t) == [s EXCEPT !.rest = @ \ {t}, !.cur = t]
Resumed(s) == [s EXCEPT !.cur = Nobody]

SweepNext(s, t) ==
  /\ s.cur = Nobody /\ t \in s.rest
  /\ Hangup(t)
  /\ sweeps' = (sweeps \ {s}) \cup {OnTo(s, t)}
  /\ UNCHANGED <<leg, late, killed, ringTimer, dials, heard>> /\ UNCHANGED verbVars

\* _removeHandlers
Swept(s) ==
  /\ s.cur # Nobody
  /\ heard' = heard \ {s.cur}
  /\ sweeps' = (sweeps \ {s}) \cup {Resumed(s)}
  /\ UNCHANGED <<killed, ringTimer, dials>> /\ UNCHANGED verbVars /\ UNCHANGED legVars

Through(s) == s \in sweeps /\ s.cur = Nobody /\ s.rest = {}

\* dials.clear() forgets a call that was placed during the sweep.
Forgotten == dials \ cut

WinnerSwept(s) ==
  /\ s.by = "winner" /\ Through(s)
  /\ dials' = {} /\ stray' = stray \cup Forgotten
  /\ sweeps' = sweeps \ {s}
  /\ UNCHANGED <<leg, cut, up, late, killed, ringTimer, heard>> /\ UNCHANGED verbVars

TimerSwept(s) ==
  /\ s.by = "timer" /\ Through(s)
  /\ dials' = {} /\ stray' = stray \cup Forgotten
  /\ killed' = TRUE /\ ringTimer' = FALSE
  /\ sweeps' = (sweeps \ {s}) \cup {NewSweep("kill", {})}
  /\ UNCHANGED <<leg, cut, up, late, heard>> /\ UNCHANGED verbVars

\* Mutant: kill() leaves the accepted call alone.
KillSweptOnly(s) ==
  /\ s.by = "kill" /\ Through(s)
  /\ dials' = {} /\ sweeps' = sweeps \ {s}
  /\ stray' = stray \cup Forgotten
  /\ notified' = TRUE /\ sd' = Nobody
  /\ UNCHANGED <<leg, cut, up, late, heard, pc, watched, winning, killed, ringTimer>>

\* Mutant: the task is done only if somebody had accepted.
KillNotifiesAccepted(s) ==
  /\ s.by = "kill" /\ Through(s)
  /\ dials' = {} /\ sweeps' = sweeps \ {s}
  /\ stray' = stray \cup Forgotten
  /\ cut' = cut \cup ({sd} \ {Nobody}) /\ up' = up \ {sd} /\ heard' = heard \ {sd}
  /\ notified' = (notified \/ sd # Nobody) /\ sd' = Nobody
  /\ UNCHANGED <<leg, late, pc, watched, winning, killed, ringTimer>>

\* The rest of kill(): the accepted call is hung up and exec() may end.
KillSwept(s) ==
  /\ s.by = "kill" /\ Through(s)
  /\ dials' = {} /\ sweeps' = sweeps \ {s}
  /\ stray' = stray \cup Forgotten
  /\ cut' = cut \cup ({sd} \ {Nobody}) /\ up' = up \ {sd} /\ heard' = heard \ {sd}
  /\ notified' = TRUE /\ sd' = Nobody
  /\ UNCHANGED <<leg, late, pc, watched, winning, killed, ringTimer>>
----------------------------------------------------------------------------
Setup(t) == PlaceCall(t) \/ SetupFails(t)

Proceed(t) ==
  \/ EndpointMade(t) \/ InviteSent(t) \/ CreateFails(t) \/ FailUnsent(t) \/ Fail(t)
  \/ Answer(t) \/ Connected(t) \/ Confirm(t) \/ Decline(t)

Sweeping == \E s \in sweeps :
  \/ \E t \in Targets : SweepNext(s, t)
  \/ Swept(s) \/ WinnerSwept(s) \/ TimerSwept(s) \/ KillSwept(s)

Verb == Prepared \/ Attempt \/ AttemptFails \/ TaskEnds

Next ==
  \/ Verb \/ Kill \/ RingTimeout \/ Sweeping
  \/ \E t \in Targets : \/ Setup(t) \/ Proceed(t) \/ CalleeHangsUp(t)
                        \/ Propagated(t) \/ PropagateFails(t)

\* Lookups, media and SIP transactions end, timers fire; nobody has to hang up.
Fairness ==
  /\ WF_vars(Verb) /\ WF_vars(RingTimeout) /\ WF_vars(Sweeping)
  /\ \A t \in Targets :
       /\ WF_vars(Setup(t)) /\ WF_vars(Proceed(t))
       /\ WF_vars(Propagated(t) \/ PropagateFails(t))

Spec == Init /\ [][Next]_vars /\ Fairness
----------------------------------------------------------------------------
(* Properties *)

\* Whoever is connected can still be hung up: he is the accepted call, on the map, or in a
\* sweep, unless the verb lost track of him: his call was answered although it had been
\* killed, its media could not be connected, a second callee accepted too, or his call was
\* placed while the map was swept (_connectSingleDial, _killOutdials, kill).
CalleesAreKnown ==
  \A t \in up \ stray : t = sd \/ t \in dials \/ \E s \in sweeps : t \in s.rest

\* The accepted call is hung up only by a verb that ends, or by the sweep of a callee who
\* accepted before it (_connectSingleDial: "order is important").
WinnerIsKept ==
  sd \in cut => killed \/ stray # {} \/ \E s \in sweeps : s.by = "timer"

\* "hangup any simrings in progress": who was called before a callee was selected is hung
\* up, even if he accepts during the sweep (_selectSingleDial, _killOutdials).
Outdone(t) == t \in dials \ late /\ sd \notin {t, Nobody} /\ winning = {}
LosersAreReleased ==
  \A t \in Targets : Outdone(t) ~> (t \in stray \/ t \notin dials \cup up)

\* A verb that was killed ends, in whatever sweep, call or answer it was (kill).
KilledDialEnds == killed ~> pc = "done"

\* The verb ends once no call is left and nobody has accepted: the last failure kills it,
\* and the timer does when none was ever placed (callStatusChange, decline), unless it
\* missed a failure and another call has cleared the timer.
Missed == {t \in dials \ cut : leg[t] = "over"}
LastFailureEnds ==
  (/\ pc = "await" /\ sd = Nobody /\ \A t \in Targets : leg[t] = "over"
   /\ Missed = {} \/ ringTimer) ~> pc = "done"

\* "kill the call in progress or the stable dialog, whichever we have": no callee stays
\* connected once the verb is done (SingleDialer.kill).
CalleesAreReleased == (pc = "done") ~> (up = {})
============================================================================
