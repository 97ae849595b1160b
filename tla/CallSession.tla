---------------------------- MODULE CallSession ----------------------------
(***************************************************************************)
(* The verb loop of one inbound call session of the feature server         *)
(* (jambonz-feature-server/lib/session/call-session.js with its subclass   *)
(* inbound-call-session.js and utils/action-hook-delay.js).                *)
(*                                                                         *)
(* One asynchronous loop shifts verbs off `tasks`, prepares them and runs  *)
(* them; commands of the application, the caller, timers and the REST API  *)
(* interrupt it at its await points.  JavaScript runs to completion: a     *)
(* resolved promise is resumed before the next event is handled, so no     *)
(* event fires while the loop is runnable (see Settled).                   *)
(***************************************************************************)
EXTENDS Naturals, Sequences

CONSTANTS
  WebSockets,     \* the application talks over a websocket (appIsUsingWebsockets)
  BotMode,        \* a background gather with barge-in runs (enableBotMode)
  AhdEnabled,     \* actionHookDelayAction is configured
  GiveUp,         \* what it may do when it gives up: hang up, run giveUpActions
  AhdMayFail,     \* the say or play of the action hook delay may fail
  MaxRetries,     \* actionHookDelayAction.retries
  Scripts,        \* the verb lists the application can send: sequences of kinds
  MaxCommands,    \* bound: verb lists received after the first one
  MaxQueue        \* bound: verbs queued at a time

Kinds == {"config", "bargeoff", "play", "early", "hangup", "decline"}

ASSUME CallSessionAssumption ==
  /\ WebSockets \in BOOLEAN /\ BotMode \in BOOLEAN /\ AhdEnabled \in BOOLEAN
  /\ GiveUp \subseteq {"hangup", "actions"} /\ AhdMayFail \in BOOLEAN
  /\ MaxRetries \in Nat /\ MaxCommands \in Nat /\ MaxQueue \in Nat
  /\ Scripts \subseteq Seq(Kinds) /\ <<>> \notin Scripts

VARIABLES
  tasks,       \* this.tasks, the verbs still to run
  stackIdx,    \* this.stackIdx, how many applications replaced the first one
  pc,          \* where the loop of exec() is
  task,        \* the verb the loop shifted last (local variable of exec())
  current,     \* this.currentTask is set (it is then `task`)
  killed,      \* task.kill() was called
  missed,      \* an interruption found currentTask unset while `task` was prepared
  wakeup,      \* this.wakeupResolver is set
  woken,       \* why the awaited promise was resolved, or "no"
  callGone,    \* this.callGone
  ep,          \* this.ep is set
  dlg,         \* this.dlg and whether it is connected
  res,         \* the final response of the INVITE, as the caller sees it
  declining,   \* the callback of the decline verb's res.send is outstanding
  status,      \* callInfo.callStatus, the last status reported
  notifiedComplete,
  completions, \* how often "completed" was reported
  answered,    \* the call was answered at some time
  appClosed,   \* requestor.closedGracefully: the application closed its socket
  ahd,         \* the action hook delay processor
  received     \* bounds the verb lists received

vars == <<tasks, stackIdx, pc, task, current, killed, missed, wakeup, woken,
          callGone, ep, dlg, res, declining, status, notifiedComplete,
          completions, answered, appClosed, ahd, received>>

sipVars    == <<ep, dlg, res, declining, answered, appClosed>>
statusVars == <<status, notifiedComplete, completions>>

Task == [kind : Kinds, app : Nat]
Reasons == {"released", "replaced", "command"}
Statuses == {"trying", "in-progress", "completed", "no-answer", "failed"}
Waiters == {"none", "command", "clear", "other"}
Preparing == {"alloc", "answer", "reanswer"}

\* The action hook delay processor: whether the session still holds it, its _active
\* flag, its two timers, its say or play, who waits in stop(), and its retry count.
AhdType == [on : BOOLEAN, active : BOOLEAN, timer : BOOLEAN, giveup : BOOLEAN,
            playing : BOOLEAN, waiter : Waiters, tries : Nat]

TypeOK ==
  /\ tasks \in Seq(Task) /\ stackIdx \in Nat
  /\ pc \in {"top", "exec", "await", "clear", "done"} \cup Preparing
  /\ task \in Task
  /\ current \in BOOLEAN /\ killed \in BOOLEAN /\ missed \in BOOLEAN
  /\ wakeup \in BOOLEAN /\ woken \in Reasons \cup {"no"}
  /\ callGone \in BOOLEAN /\ ep \in BOOLEAN
  /\ dlg \in {"null", "up", "closing", "down"}
  /\ res \in {"pending", "cancelled", "200", "failure"}
  /\ declining \in BOOLEAN
  /\ status \in Statuses /\ notifiedComplete \in BOOLEAN /\ completions \in Nat
  /\ answered \in BOOLEAN /\ appClosed \in BOOLEAN
  /\ ahd \in AhdType
  /\ received \in Nat

----------------------------------------------------------------------------
(* Helpers *)

MakeTasks(script, app) == [i \in 1..Len(script) |-> [kind |-> script[i], app |-> app]]

\* res.finalResponseSent: the application sent a final response itself
FinalResponseSent == res \in {"200", "failure"}

\* No event is handled while the loop is runnable; hangup and decline run at once.
Settled ==
  /\ pc \notin {"top", "done"} /\ woken = "no"
  /\ ~(pc = "exec" /\ task.kind \in {"hangup", "decline"})

AhdStart(a) ==
  IF ~a.on \/ a.active THEN a
  ELSE [a EXCEPT !.active = TRUE, !.tries = 0, !.timer = TRUE, !.giveup = TRUE]

\* Mutant: the give-up timer keeps running.
AhdStopKeepsGiveUp(a, w) ==
  IF ~a.on THEN a
  ELSE [a EXCEPT !.active = FALSE, !.timer = FALSE,
                 !.waiter = IF a.playing THEN w ELSE @,
                 !.on = a.playing \/ w # "clear"]

\* Mutant: the caller that waits for the prompt is not remembered.
AhdStopForgetsWaiter(a, w) ==
  IF ~a.on THEN a
  ELSE [a EXCEPT !.active = FALSE, !.timer = FALSE, !.giveup = FALSE,
                 !.on = a.playing \/ w # "clear"]

\* stop() clears the timers; when a say or play is under way the caller w waits
\* for it, and takes the place of a caller already waiting (_sayResolver).
AhdStop(a, w) ==
  IF ~a.on THEN a
  ELSE [a EXCEPT !.active = FALSE, !.timer = FALSE, !.giveup = FALSE,
                 !.waiter = IF a.playing THEN w ELSE @,
                 !.on = a.playing \/ w # "clear"]

\* replaceApplication, kill and _callReleased all stop the running verb this way:
\* one that is still being prepared is not this.currentTask and is missed.
Interrupt ==
  /\ killed' = (killed \/ current)
  /\ current' = FALSE
  /\ missed' = (missed \/ pc \in Preparing)

Wake(reason) ==
  /\ woken' = IF wakeup THEN reason ELSE woken
  /\ wakeup' = FALSE

\* Mutant: the resolver is dropped instead of called.
CallReleasedDropsResolver ==
  callGone' = TRUE /\ Interrupt /\ wakeup' = FALSE /\ UNCHANGED woken

\* Mutant: a waiting loop is not woken.
CallReleasedOnlyKills ==
  callGone' = TRUE /\ Interrupt /\ UNCHANGED <<wakeup, woken>>

\* Mutant: a running verb is not killed.
CallReleasedOnlyWakes ==
  callGone' = TRUE /\ Wake("released") /\ UNCHANGED <<current, killed, missed>>

CallReleased ==
  /\ callGone' = TRUE
  /\ Interrupt
  /\ Wake("released")

NotifyCompleted ==
  IF notifiedComplete THEN UNCHANGED statusVars
  ELSE /\ status' = "completed"
       /\ notifiedComplete' = TRUE
       /\ completions' = completions + 1

Notify(s) == status' = s /\ UNCHANGED <<notifiedComplete, completions>>

\* Mutant: completed is reported without a dialog, too.
DestroyDialogAlwaysReports ==
  dlg' = (IF dlg = "up" THEN "closing" ELSE dlg) /\ NotifyCompleted

\* dlg.destroy as wrapped by wrapDialog: report, then send the BYE.
DestroyDialog ==
  IF dlg = "up" THEN dlg' = "closing" /\ NotifyCompleted
                ELSE UNCHANGED dlg /\ UNCHANGED statusVars

\* Mutant: what is left of the old application is kept.
ReplaceApplicationAppends(script) ==
  IF callGone
  THEN UNCHANGED <<tasks, stackIdx, current, killed, missed, wakeup, woken>>
  ELSE /\ tasks' = tasks \o MakeTasks(script, stackIdx + 1)
       /\ stackIdx' = stackIdx + 1
       /\ Interrupt
       /\ IF current THEN UNCHANGED <<wakeup, woken>> ELSE Wake("replaced")

\* replaceApplication; nothing happens once the call is gone.
ReplaceApplication(script) ==
  IF callGone
  THEN UNCHANGED <<tasks, stackIdx, current, killed, missed, wakeup, woken>>
  ELSE /\ tasks' = MakeTasks(script, stackIdx + 1)
       /\ stackIdx' = stackIdx + 1
       /\ Interrupt
       /\ IF current THEN UNCHANGED <<wakeup, woken>> ELSE Wake("replaced")

\* After a verb: wait for commands when none is left and the application can send some.
AwaitOrLoop(queue, gone) ==
  IF queue = <<>> /\ WebSockets /\ ~appClosed /\ ~gone
  THEN pc' = "await" /\ wakeup' = TRUE /\ ahd' = AhdStart(ahd)
  ELSE pc' = "top" /\ UNCHANGED <<wakeup, ahd>>

\* Mutant: a pending INVITE gets no answer.
LeaveLoopSilently ==
  pc' = "clear" /\ UNCHANGED res /\ DestroyDialog

\* The loop is left: _onTasksDone answers a pending INVITE, _clearResources hangs up.
LeaveLoop ==
  /\ pc' = "clear"
  /\ res' = IF res = "pending" THEN "failure" ELSE res
  /\ DestroyDialog

Receive(script) ==
  /\ received < MaxCommands
  /\ Len(tasks) + Len(script) <= MaxQueue
  /\ received' = received + 1
----------------------------------------------------------------------------
(* The constructor; the INVITE may have been cancelled already. *)

Init ==
  /\ \E script \in Scripts :
       /\ Len(script) <= MaxQueue
       /\ tasks = MakeTasks(script, 0)
       /\ task = MakeTasks(script, 0)[1]
  /\ stackIdx = 0 /\ pc = "top"
  /\ current = FALSE /\ killed = FALSE /\ missed = FALSE
  /\ wakeup = FALSE /\ woken = "no"
  /\ res \in {"pending", "cancelled"}
  /\ callGone = (res = "cancelled")
  /\ ep = FALSE /\ dlg = "null" /\ declining = FALSE
  /\ status = "trying" /\ notifiedComplete = FALSE /\ completions = 0
  /\ answered = FALSE /\ appClosed = FALSE
  /\ ahd = [on |-> AhdEnabled, active |-> FALSE, timer |-> FALSE, giveup |-> FALSE,
            playing |-> FALSE, waiter |-> "none", tries |-> 0]
  /\ received = 0
----------------------------------------------------------------------------
(* The loop *)

Shift ==
  /\ pc = "top" /\ tasks # <<>> /\ ~callGone
  /\ task' = Head(tasks) /\ tasks' = Tail(tasks)
  /\ killed' = FALSE /\ missed' = FALSE

\* Preconditions that hold at once: the verb starts.
Ready(t) ==
  \/ t.kind \in {"config", "bargeoff"}
  \/ t.kind = "early" /\ ep
  \/ t.kind = "play" /\ ep /\ dlg # "null"
  \/ t.kind = "hangup" /\ dlg # "null"
  \/ t.kind = "decline" /\ ~FinalResponseSent

StartVerb ==
  /\ Shift /\ Ready(Head(tasks))
  /\ pc' = "exec" /\ current' = TRUE
  /\ UNCHANGED <<stackIdx, wakeup, woken, callGone, ahd, received>>
  /\ UNCHANGED sipVars /\ UNCHANGED statusVars

\* Preconditions that fail at once: the verb is skipped.
SkipVerb ==
  /\ Shift
  /\ \/ Head(tasks).kind = "hangup" /\ dlg = "null"
     \/ Head(tasks).kind = "decline" /\ FinalResponseSent
  /\ current' = FALSE
  /\ AwaitOrLoop(Tail(tasks), FALSE)
  /\ UNCHANGED <<stackIdx, woken, callGone, received>>
  /\ UNCHANGED sipVars /\ UNCHANGED statusVars

\* An endpoint is requested from FreeSWITCH.
AllocateEndpoint ==
  /\ Shift /\ Head(tasks).kind \in {"play", "early"} /\ ~ep
  /\ pc' = "alloc"
  /\ UNCHANGED <<stackIdx, current, wakeup, woken, callGone, ahd, received>>
  /\ UNCHANGED sipVars /\ UNCHANGED statusVars

\* propagateAnswer: srf.createUAS sends the 200 unless a final response is out.
SendAnswer == res' = IF res = "pending" THEN "200" ELSE res

\* Going from early media to an answered call.
AnswerEarlyMedia ==
  /\ Shift /\ Head(tasks).kind = "play" /\ ep /\ dlg = "null"
  /\ pc' = "reanswer"
  /\ SendAnswer
  /\ UNCHANGED <<stackIdx, current, wakeup, woken, callGone, ahd, received>>
  /\ UNCHANGED <<ep, dlg, declining, answered, appClosed>> /\ UNCHANGED statusVars

EndpointAllocated ==
  /\ pc = "alloc"
  /\ ep' = TRUE
  /\ IF task.kind = "early"
     THEN pc' = "exec" /\ current' = TRUE /\ UNCHANGED res
     ELSE pc' = "answer" /\ SendAnswer /\ UNCHANGED current
  /\ UNCHANGED <<tasks, stackIdx, task, killed, missed, wakeup, woken, callGone, ahd,
                 received, dlg, declining, answered, appClosed>>
  /\ UNCHANGED statusVars

\* No endpoint: a SIP error is relayed to the caller, then the verb is skipped.
AllocationFailed(sipError) ==
  /\ pc = "alloc"
  /\ IF sipError /\ ~FinalResponseSent
     THEN /\ res' = IF res = "pending" THEN "failure" ELSE res
          /\ Notify("failed")
          /\ callGone' = TRUE
          /\ AwaitOrLoop(tasks, TRUE)
     ELSE /\ UNCHANGED <<res, callGone>> /\ UNCHANGED statusVars
          /\ AwaitOrLoop(tasks, callGone)
  /\ current' = FALSE
  /\ UNCHANGED <<tasks, stackIdx, task, killed, missed, woken, ep, dlg, declining,
                 answered, appClosed, received>>

Answered ==
  /\ pc \in {"answer", "reanswer"} /\ res = "200"
  /\ dlg' = "up" /\ answered' = TRUE
  /\ Notify("in-progress")
  /\ pc' = "exec" /\ current' = TRUE
  /\ UNCHANGED <<tasks, stackIdx, task, killed, missed, wakeup, woken, callGone, ep,
                 res, declining, appClosed, ahd, received>>

\* The 200 could not be sent: reported as no-answer when the endpoint is new; either
\* way the loop is left with an error.
AnswerRejected ==
  /\ pc \in {"answer", "reanswer"} /\ res # "200"
  /\ IF pc = "answer" THEN Notify("no-answer") /\ callGone' = TRUE
                      ELSE UNCHANGED callGone /\ UNCHANGED statusVars
  /\ pc' = "clear" /\ current' = FALSE
  /\ UNCHANGED <<tasks, stackIdx, task, killed, missed, wakeup, woken, ep, dlg, res,
                 declining, answered, appClosed, ahd, received>>
----------------------------------------------------------------------------
(* A running verb *)

VerbEnds ==
  /\ pc = "exec" /\ task.kind \notin {"hangup", "decline"}
  /\ current' = FALSE
  /\ AwaitOrLoop(tasks, callGone)
  /\ UNCHANGED <<tasks, stackIdx, task, killed, missed, woken, callGone, received>>
  /\ UNCHANGED sipVars /\ UNCHANGED statusVars

VerbFails ==
  /\ pc = "exec" /\ task.kind \notin {"hangup", "decline"}
  /\ current' = FALSE
  /\ LeaveLoop
  /\ UNCHANGED <<tasks, stackIdx, task, killed, missed, wakeup, woken, callGone, ahd,
                 received, ep, declining, answered, appClosed>>

\* The hangup verb: dlg.destroy, then _callReleased, in one go.
HangupVerb ==
  /\ pc = "exec" /\ task.kind = "hangup"
  /\ DestroyDialog /\ CallReleased
  /\ pc' = "top"
  /\ UNCHANGED <<tasks, stackIdx, task, ahd, received, ep, res, declining, answered,
                 appClosed>>

\* The decline verb: respond and report; _callReleased follows in the callback.
DeclineVerb ==
  /\ pc = "exec" /\ task.kind = "decline"
  /\ res' = "failure" /\ declining' = TRUE
  /\ Notify("failed")
  /\ current' = FALSE
  /\ AwaitOrLoop(tasks, callGone)
  /\ UNCHANGED <<tasks, stackIdx, task, killed, missed, woken, callGone, received, ep,
                 dlg, answered, appClosed>>

DeclineSent ==
  /\ Settled /\ declining
  /\ declining' = FALSE
  /\ CallReleased
  /\ UNCHANGED <<tasks, stackIdx, pc, task, ahd, received, ep, dlg, res, answered,
                 appClosed>>
  /\ UNCHANGED statusVars

\* The action hook of the running verb returns verbs (Task.performAction).
HookReturnsVerbs(script) ==
  /\ pc = "exec" /\ task.kind \in {"play", "early"} /\ Receive(script)
  /\ ReplaceApplication(script)
  /\ UNCHANGED <<pc, task, callGone, ahd>>
  /\ UNCHANGED sipVars /\ UNCHANGED statusVars
----------------------------------------------------------------------------
(* Waiting for commands, and the end of the session *)

Resume ==
  /\ pc = "await" /\ woken # "no"
  /\ woken' = "no"
  /\ IF callGone THEN LeaveLoop
                 ELSE pc' = "top" /\ UNCHANGED <<res, dlg>> /\ UNCHANGED statusVars
  /\ UNCHANGED <<tasks, stackIdx, task, current, killed, missed, wakeup, callGone, ahd,
                 received, ep, declining, answered, appClosed>>

LoopEnds ==
  /\ pc = "top" /\ (tasks = <<>> \/ callGone)
  /\ LeaveLoop
  /\ UNCHANGED <<tasks, stackIdx, task, current, killed, missed, wakeup, woken,
                 callGone, ahd, received, ep, declining, answered, appClosed>>

\* _clearResources has destroyed dialog and endpoint; the session is removed.
Cleared ==
  /\ pc = "clear"
  /\ pc' = "done" /\ ep' = FALSE /\ dlg' = "null"
  /\ ahd' = AhdStop(ahd, "other")
  /\ UNCHANGED <<tasks, stackIdx, task, current, killed, missed, wakeup, woken,
                 callGone, received, res, declining, answered, appClosed>>
  /\ UNCHANGED statusVars
----------------------------------------------------------------------------
(* The caller *)

CallerCancels ==
  /\ Settled /\ pc # "clear" /\ res = "pending"
  /\ res' = "cancelled"
  /\ Notify("no-answer")
  /\ CallReleased
  /\ UNCHANGED <<tasks, stackIdx, pc, task, ahd, received, ep, dlg, declining, answered,
                 appClosed>>

\* A BYE; it may cross ours.
CallerHangsUp ==
  /\ Settled /\ dlg \in {"up", "closing"}
  /\ dlg' = "down"
  /\ NotifyCompleted
  /\ CallReleased
  /\ UNCHANGED <<tasks, stackIdx, pc, task, ahd, received, ep, res, declining, answered,
                 appClosed>>
----------------------------------------------------------------------------
(* The application and the REST API *)

\* Hangup by the API, the call duration limit, a media timeout (all need a dialog) or
\* a websocket that could not be reconnected.
JambonzHangup ==
  /\ Settled
  /\ dlg # "null" \/ (WebSockets /\ ~appClosed)
  /\ DestroyDialog /\ CallReleased
  /\ UNCHANGED <<tasks, stackIdx, pc, task, ahd, received, ep, res, declining, answered,
                 appClosed>>

\* REST: call_status no-answer.
LccNoAnswer ==
  /\ Settled /\ ~FinalResponseSent
  /\ res' = IF res = "pending" THEN "failure" ELSE res
  /\ CallReleased
  /\ UNCHANGED <<tasks, stackIdx, pc, task, ahd, received, ep, dlg, declining, answered,
                 appClosed>>
  /\ UNCHANGED statusVars

\* REST: a new call_hook has answered with verbs.
LccCallHook(script) ==
  /\ Settled /\ Receive(script)
  /\ ReplaceApplication(script)
  /\ ahd' = AhdStop(ahd, "other")
  /\ UNCHANGED <<pc, task, callGone>>
  /\ UNCHANGED sipVars /\ UNCHANGED statusVars

\* Websocket: a redirect that replaces the application.
RedirectCommand(script) ==
  /\ Settled /\ WebSockets /\ ~appClosed /\ Receive(script)
  /\ ReplaceApplication(script)
  /\ ahd' = AhdStop(ahd, "command")
  /\ UNCHANGED <<pc, task, callGone>>
  /\ UNCHANGED sipVars /\ UNCHANGED statusVars

\* Websocket: a redirect that appends to the verbs in the queue, then wakes the loop --
\* unless a say or play of the action hook delay has to finish first.
QueueCommand(script) ==
  /\ Settled /\ WebSockets /\ ~appClosed /\ Receive(script)
  /\ tasks' = tasks \o MakeTasks(script, stackIdx)
  /\ ahd' = AhdStop(ahd, "command")
  /\ IF ahd.on /\ ahd.playing THEN UNCHANGED <<wakeup, woken>> ELSE Wake("command")
  /\ UNCHANGED <<stackIdx, pc, task, current, killed, missed, callGone>>
  /\ UNCHANGED sipVars /\ UNCHANGED statusVars

AppClosesSocket ==
  /\ Settled /\ WebSockets /\ ~appClosed
  /\ appClosed' = TRUE
  /\ UNCHANGED <<tasks, stackIdx, pc, task, current, killed, missed, wakeup, woken,
                 callGone, ahd, received, ep, dlg, res, declining, answered>>
  /\ UNCHANGED statusVars

\* kill(true): the caller barges in; the queue is cleared up to a config verb that
\* disables barge-in, whose flag is removed.
BargeInStop(q) ==
  {i \in 1..Len(q) : q[i].kind = "bargeoff" /\ \A j \in 1..(i - 1) : q[j].kind # "bargeoff"}

AfterBargeIn(q) ==
  IF BargeInStop(q) = {} THEN <<>>
  ELSE LET i == CHOOSE k \in BargeInStop(q) : TRUE
       IN  <<[kind |-> "config", app |-> q[i].app]>> \o SubSeq(q, i + 1, Len(q))

BargeIn ==
  /\ BotMode /\ Settled /\ pc # "clear" /\ dlg = "up"
  /\ Interrupt
  /\ tasks' = AfterBargeIn(tasks)
  /\ UNCHANGED <<stackIdx, pc, task, wakeup, woken, callGone, ahd, received>>
  /\ UNCHANGED sipVars /\ UNCHANGED statusVars
----------------------------------------------------------------------------
(* The action hook delay processor *)

AhdUnchanged ==
  /\ UNCHANGED <<tasks, stackIdx, pc, task, current, killed, missed, callGone, received>>
  /\ UNCHANGED sipVars /\ UNCHANGED statusVars

\* _onNoResponseTimer: play the next action.
AhdNoResponse ==
  /\ Settled /\ ahd.timer
  /\ ahd' = IF ep THEN [ahd EXCEPT !.timer = FALSE, !.playing = TRUE, !.tries = @ + 1]
                  ELSE [ahd EXCEPT !.timer = FALSE, !.active = FALSE]
  /\ UNCHANGED <<wakeup, woken>> /\ AhdUnchanged

\* playback-stop: resume whoever waits in stop(), or else perhaps try again.
AhdPlaybackStop ==
  /\ Settled /\ ahd.playing
  /\ IF ahd.waiter # "none"
     THEN /\ ahd' = [ahd EXCEPT !.playing = FALSE, !.waiter = "none",
                                !.on = @ /\ ahd.waiter # "clear"]
          /\ IF ahd.waiter = "command" THEN Wake("command") ELSE UNCHANGED <<wakeup, woken>>
     ELSE /\ ahd' = [ahd EXCEPT !.playing = FALSE,
                                !.timer = @ \/ (ahd.active /\ ahd.tries < MaxRetries)]
          /\ UNCHANGED <<wakeup, woken>>
  /\ AhdUnchanged

\* The say or play fails; its listeners are removed, a waiter is left waiting.
AhdFails ==
  /\ Settled /\ AhdMayFail /\ ahd.playing
  /\ ahd' = [ahd EXCEPT !.playing = FALSE]
  /\ UNCHANGED <<wakeup, woken>> /\ AhdUnchanged

\* Give up without giveUpActions: hang up.
AhdGivesUp ==
  /\ Settled /\ ahd.giveup /\ "hangup" \in GiveUp
  /\ ahd' = AhdStop(ahd, "other")
  /\ DestroyDialog /\ CallReleased
  /\ UNCHANGED <<tasks, stackIdx, pc, task, received, ep, res, declining, answered,
                 appClosed>>

\* Give up with giveUpActions: clear the processor and run them instead.
AhdGivesUpWithTasks(script) ==
  /\ Settled /\ ahd.giveup /\ "actions" \in GiveUp /\ ahd.on /\ Receive(script)
  /\ ahd' = AhdStop(ahd, "clear")
  /\ ReplaceApplication(script)
  /\ UNCHANGED <<pc, task, callGone>>
  /\ UNCHANGED sipVars /\ UNCHANGED statusVars

\* The timer of a cleared processor, whose listeners are gone.
AhdGiveUpUnheard ==
  /\ Settled /\ ahd.giveup /\ ~ahd.on
  /\ ahd' = [ahd EXCEPT !.active = FALSE, !.giveup = FALSE]
  /\ UNCHANGED <<wakeup, woken>> /\ AhdUnchanged
----------------------------------------------------------------------------
Terminated == pc = "done" /\ UNCHANGED vars

Loop ==
  \/ StartVerb \/ SkipVerb \/ AllocateEndpoint \/ AnswerEarlyMedia
  \/ EndpointAllocated \/ (\E e \in BOOLEAN : AllocationFailed(e))
  \/ Answered \/ AnswerRejected \/ Resume \/ LoopEnds \/ Cleared

Verb ==
  \/ VerbEnds \/ VerbFails \/ HangupVerb \/ DeclineVerb \/ DeclineSent
  \/ \E s \in Scripts : HookReturnsVerbs(s)

Caller == CallerCancels \/ CallerHangsUp

Application ==
  \/ JambonzHangup \/ LccNoAnswer \/ AppClosesSocket \/ BargeIn
  \/ \E s \in Scripts : LccCallHook(s) \/ RedirectCommand(s) \/ QueueCommand(s)

Ahd ==
  \/ AhdNoResponse \/ AhdPlaybackStop \/ AhdFails \/ AhdGivesUp \/ AhdGiveUpUnheard
  \/ \E s \in Scripts : AhdGivesUpWithTasks(s)

Next == Loop \/ Verb \/ Caller \/ Application \/ Ahd \/ Terminated

\* The loop is scheduled, FreeSWITCH and drachtio answer, a verb that was killed ends
\* and a prompt that plays stops; nothing else is owed.
KilledVerbEnds == killed /\ VerbEnds
InstantVerb == HangupVerb \/ DeclineVerb

Fairness == WF_vars(Loop \/ InstantVerb) /\ WF_vars(KilledVerbEnds) /\ WF_vars(AhdPlaybackStop)

Spec == Init /\ [][Next]_vars /\ Fairness
----------------------------------------------------------------------------
(* Properties *)

\* A session that waits for commands can always be woken: it waits exactly while
\* wakeupResolver is set or its promise is already resolved (_awaitCommandsOrHangup,
\* and every handler that calls the resolver and clears it).
WaiterCanBeWoken ==
  /\ (pc = "await") <=> (wakeup \/ woken # "no")
  /\ ~(wakeup /\ woken # "no")

\* A hangup or a new application stops the running verb (_callReleased,
\* replaceApplication), except when it came while that verb was being prepared.
InterruptsReachVerb ==
  (pc = "exec" /\ ~missed /\ (callGone \/ task.app < stackIdx)) => killed

\* The queue holds verbs of the newest application only: "any tasks in the current stack
\* that have not been executed are flushed" (replaceApplication), whatever was appended.
QueueIsCurrentApp == \A i \in 1..Len(tasks) : tasks[i].app = stackIdx

\* An answered call is reported completed exactly once by the time its session is
\* removed, whoever hangs up first, and an unanswered one never (wrapDialog, _hangup,
\* _clearResources and the notifiedComplete guard).
CompletedOnceIfAnswered ==
  /\ completions <= 1
  /\ pc = "done" => (completions = 1 <=> answered)

\* No session ends with its INVITE unanswered, and a 200 always leads to a dialog
\* (_onTasksDone, propagateAnswer).
InviteGetsFinalResponse ==
  pc \in {"clear", "done"} => (res # "pending" /\ (res = "200" <=> answered))

\* A live call is not given up on, nor a delay prompt started, once the application has
\* answered and its verbs run: on every path from the wait to a verb the processor was
\* stopped ("clear all delay action hook timeout", _lccCallHook, giveupWithTasks), and a
\* prompt that ends late does not set the timer again.  A processor that was cleared while
\* its prompt played, and started meanwhile, is beyond reach (~ahd.on).
GivesUpOnlyOnWaiting ==
  (ahd.on /\ (ahd.timer \/ ahd.giveup) /\ ~callGone) => pc \notin {"exec"} \cup Preparing

\* The statuses reported to the application follow the life of a call.
CallStatus == INSTANCE CallStatus WITH status <- status
ReportsCallStatus == CallStatus!Spec

\* Once the call is gone the session ends, unless the hangup missed a verb being
\* prepared (_callReleased kills the verb or wakes the loop).
ReleasedSessionEnds == callGone ~> (pc = "done" \/ (missed /\ ~killed))

\* Verbs queued while the session waits are run: the wake-up that follows the end of a
\* delay prompt ("we were waiting for the play to finish before continuing to next
\* task") is not lost, unless the prompt failed.
PromptFailed == ahd.waiter = "command" /\ ~ahd.playing
QueuedVerbsRun ==
  (pc = "await" /\ tasks # <<>>) ~> (pc # "await" \/ tasks = <<>> \/ PromptFailed)

\* The comments of exec(), "executed in sequence until they complete, or the caller hangs
\* up", and of replaceApplication, "any tasks in the current stack that have not been
\* executed are flushed": a verb that lost its caller or its application does not run on.
NoStaleVerb == (pc = "exec" /\ (callGone \/ task.app < stackIdx)) => killed
============================================================================
