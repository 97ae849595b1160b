---------------------------- MODULE WsRequestor ----------------------------
(***************************************************************************)
(* The websocket between one inbound call session and its application      *)
(* (jambonz-feature-server/lib/utils/ws-requestor.js).                     *)
(*                                                                         *)
(* session:new opens the connection.  When it drops, a timer or the next   *)
(* request opens another, on which session:reconnect is sent; what the     *)
(* session asks in the meantime is queued until that is acknowledged.      *)
(* Sockets that are being opened are anonymous: only the latest _connect   *)
(* has listeners for `ready` and `not-ready`.  A socket that is refused     *)
(* with an HTTP status stays half open: its handshake timer may still      *)
(* report an error and a close, which the handlers take for those of the   *)
(* socket that is being opened, or of the connection.                      *)
(***************************************************************************)
EXTENDS Naturals, FiniteSets

CONSTANTS
  Hooks,          \* requests of the session that want an ack (verb:hook ...)
  Notes,          \* ... and those that do not (call:status ...)
  RetryHttp,      \* the retry policy (rp) includes 4xx and 5xx, not only ct
  MaxReconnects,  \* maxReconnects
  MaxDrops,       \* bound: connections lost
  MaxFailures     \* bound: attempts to connect that fail

Msgs == {"new"} \cup Hooks \cup Notes
Owners == Msgs \cup {"timer"}

ASSUME WsAssumption ==
  /\ RetryHttp \in BOOLEAN /\ MaxReconnects \in Nat \ {0}
  /\ MaxDrops \in Nat /\ MaxFailures \in Nat
  /\ Hooks \cap Notes = {} /\ {"new", "timer", "nobody"} \cap (Hooks \cup Notes) = {}

VARIABLES
  ws,           \* this.ws
  inProgress,   \* this.connectInProgress
  opening,      \* how many sockets are being opened
  hears,        \* whose _connect has the listeners for ready and not-ready
  loop,         \* where the requests that connect are, and the reconnection of the timer
  retries,      \* retryCount of each
  timers,       \* the timers of _scheduleReconnect that run
  connections,  \* this.connections
  held,         \* _reconnectPromise: none, awaited by a send callback, or set and not awaited
  rc, oldRc,    \* session:reconnect in flight; earlier ones whose timers still run
  initMsg,      \* _initMsgId is set
  closed,       \* closedGracefully
  st,           \* what became of each request
  refused,      \* sockets refused with an HTTP status that may still report an error
  orphans,      \* connections that are open and have their listeners, but are not this.ws
  mistaken,     \* ... and one of those errors was taken for that of a later socket
  early,        \* a connection dropped before session:new was acknowledged
  broken,       \* reconnect-error was emitted
  crashed,      \* an assertion failed in an event handler: the process exits
  drops, failures   \* how many there were

vars == <<ws, inProgress, opening, hears, loop, retries, timers, connections, held, rc,
          oldRc, initMsg, closed, st, refused, orphans, mistaken, early, broken, crashed,
          drops, failures>>

tryVars == <<inProgress, opening, hears, loop, retries, timers>>
ackVars == <<held, rc, oldRc, initMsg, broken>>
lateVars == <<refused, orphans, mistaken>>
otherVars == <<refused, orphans, mistaken, early, crashed, drops, failures>>

InFlight == {"flight", "lost"}   \* lost: its connection is gone, its timer runs
Final == {"resolved", "rejected", "discarded", "sent"}
Status == {"unsent", "connecting", "queued", "moved"} \cup InFlight \cup Final

TypeOK ==
  /\ ws \in {"null", "up"} /\ inProgress \in BOOLEAN /\ opening \in Nat
  /\ hears \in Owners \cup {"nobody"}
  /\ loop \in [Owners -> {"none", "connect", "backoff"}]
  /\ retries \in [Owners -> Nat] /\ timers \in Nat /\ connections \in Nat
  /\ held \in {"none", "awaited", "set"} /\ rc \in BOOLEAN /\ oldRc \in Nat
  /\ initMsg \in BOOLEAN /\ closed \in BOOLEAN
  /\ st \in [Msgs -> Status]
  /\ refused \in Nat /\ orphans \in Nat /\ mistaken \in BOOLEAN
  /\ early \in BOOLEAN /\ broken \in BOOLEAN /\ crashed \in BOOLEAN
  /\ drops \in Nat /\ failures \in Nat

Init ==
  /\ ws = "null" /\ inProgress = FALSE /\ opening = 0 /\ hears = "nobody"
  /\ loop = [o \in Owners |-> "none"] /\ retries = [o \in Owners |-> 0]
  /\ timers = 0 /\ connections = 0
  /\ held = "none" /\ rc = FALSE /\ oldRc = 0 /\ initMsg = FALSE /\ closed = FALSE
  /\ st = [m \in Msgs |-> "unsent"]
  /\ refused = 0 /\ orphans = 0 /\ mistaken = FALSE
  /\ early = FALSE /\ broken = FALSE /\ crashed = FALSE /\ drops = 0 /\ failures = 0
----------------------------------------------------------------------------
(* Helpers *)

Up == IF ws = "up" THEN 1 ELSE 0

\* The requests whose status is in S get status v.
Turn(s, S, v) == [m \in Msgs |-> IF s[m] \in S THEN v ELSE s[m]]

\* request(), once there is a connection: only some requests want an ack.
Sent(m) == IF m \in Notes THEN "sent" ELSE "flight"

\* sendQueuedMsgs; after close() they are discarded.
SendQueued(s, gone) ==
  [m \in Msgs |-> IF s[m] # "queued" THEN s[m] ELSE IF gone THEN "discarded" ELSE Sent(m)]

\* rejectQueuedMsgs; a notification has no promise to reject.
RejectQueued(s) ==
  [m \in Msgs |-> IF s[m] # "queued" THEN s[m]
                  ELSE IF m \in Notes THEN "discarded" ELSE "rejected"]

\* Mutant: what was held back is not rejected.
FailReconnectKeepsQueue(s) ==
  /\ held' = IF held = "awaited" THEN "none" ELSE held
  /\ broken' = (broken \/ held = "awaited")
  /\ st' = s

\* session:reconnect fails: its send callback, if any, rejects what was held back.
FailReconnect(s) ==
  /\ held' = IF held = "awaited" THEN "none" ELSE held
  /\ broken' = (broken \/ held = "awaited")
  /\ st' = IF held = "awaited" THEN RejectQueued(s) ELSE s

\* session:reconnect is acknowledged: what was held back is sent.
ResolveReconnect(s) ==
  /\ held' = IF held = "awaited" THEN "none" ELSE held
  /\ st' = IF held = "awaited" THEN SendQueued(s, closed) ELSE s

\* Mutant: what is in flight is forgotten, timers included, and nobody is told.
ClearPendingForgets(s) ==
  /\ rc' = FALSE /\ oldRc' = 0
  /\ st' = Turn(s, InFlight, "moved")
  /\ UNCHANGED <<held, broken>>

\* _clearPendingMessages: what is in flight fails.
ClearPending(s) ==
  rc' = FALSE /\ oldRc' = 0 /\ FailReconnect(Turn(s, InFlight, "rejected"))

\* What is in flight stays in messagesInFlight, where only its timer finds it.
LosePending(s) ==
  /\ st' = Turn(s, {"flight"}, "lost")
  /\ rc' = FALSE /\ oldRc' = oldRc + (IF rc THEN 1 ELSE 0)
  /\ UNCHANGED <<held, broken>>

\* Whether _onSocketClosed schedules a reconnection.
Reconnects == connections > 0 /\ connections < MaxReconnects /\ ~closed

ScheduleReconnect == timers' = timers + (IF Reconnects THEN 1 ELSE 0)

\* _onClose and _onSocketClosed, for a connection that was not closed by the far end.
SocketClosed(s) ==
  /\ ws' = "null"
  /\ ScheduleReconnect
  /\ IF Reconnects /\ ~initMsg THEN ClearPending(s) ELSE LosePending(s)

\* _connect
Connect(o) ==
  /\ opening' = opening + 1 /\ hears' = o
  /\ loop' = [loop EXCEPT ![o] = "connect"]
----------------------------------------------------------------------------
(* Requests of the session *)

\* session:new comes first; all else is asked by the session that its ack starts.
MayAsk(m) ==
  ~crashed /\ st[m] = "unsent" /\ (m # "new" => st["new"] = "resolved")

\* Mutant: what is asked while the reconnection is unacknowledged is sent at once.
RequestIsNotHeld(m) ==
  /\ MayAsk(m)
  /\ IF closed THEN st' = [st EXCEPT ![m] = "discarded"] /\ UNCHANGED tryVars
     ELSE IF ws = "null" /\ inProgress
     THEN st' = [st EXCEPT ![m] = "queued"] /\ UNCHANGED tryVars
     ELSE IF ws = "null"
     THEN /\ st' = [st EXCEPT ![m] = "connecting"]
          /\ inProgress' = TRUE /\ Connect(m) /\ UNCHANGED <<retries, timers>>
     ELSE st' = [st EXCEPT ![m] = Sent(m)] /\ UNCHANGED tryVars
  /\ UNCHANGED <<ws, connections, closed>> /\ UNCHANGED ackVars /\ UNCHANGED otherVars

Request(m) ==
  /\ MayAsk(m)
  /\ \/ /\ closed
        /\ st' = [st EXCEPT ![m] = "discarded"] /\ UNCHANGED tryVars
     \/ /\ ~closed /\ ws = "null" /\ ~inProgress
        /\ st' = [st EXCEPT ![m] = "connecting"]
        /\ inProgress' = TRUE /\ Connect(m) /\ UNCHANGED <<retries, timers>>
     \/ /\ ~closed /\ IF ws = "null" THEN inProgress ELSE held # "none"
        /\ st' = [st EXCEPT ![m] = "queued"] /\ UNCHANGED tryVars
     \/ /\ ~closed /\ ws = "up" /\ held = "none"
        /\ st' = [st EXCEPT ![m] = Sent(m)] /\ UNCHANGED tryVars
  /\ UNCHANGED <<ws, connections, closed>> /\ UNCHANGED ackVars /\ UNCHANGED otherVars

\* close(): the connection and what is in flight, but neither timers nor the queue.
CloseEffect(s) == closed' = TRUE /\ ws' = "null" /\ ClearPending(s)

\* The session ends.
Close ==
  /\ ~crashed /\ ~closed /\ st["new"] = "resolved"
  /\ CloseEffect(st)
  /\ UNCHANGED <<connections, initMsg>> /\ UNCHANGED tryVars /\ UNCHANGED otherVars
----------------------------------------------------------------------------
(* Connecting *)

\* The request whose _connect succeeded goes on, on a connection that is not resumed.
Proceed(o) ==
  /\ UNCHANGED <<rc, oldRc, held, broken>>
  /\ initMsg' = (initMsg \/ o = "new")
  /\ st' = IF o = "timer" THEN st
           ELSE IF held # "none" THEN [st EXCEPT ![o] = "queued"]
           ELSE SendQueued([st EXCEPT ![o] = Sent(o)], closed)

\* session:reconnect is sent; when session:new is still in flight it stands in for it,
\* wants no ack of its own, and the timer of session:new no longer finds it.
Resume(o) ==
  /\ UNCHANGED <<initMsg, oldRc, broken>>
  /\ held' = IF initMsg THEN "set" ELSE "awaited"
  /\ rc' = ~initMsg
  /\ st' = LET s == IF o = "timer" THEN st ELSE [st EXCEPT ![o] = "queued"]
           IN  IF initMsg THEN Turn(s, InFlight, "moved") ELSE s

\* _onOpen, which first asserts that there is no connection, and the `ready` listener.
Open ==
  /\ ~crashed /\ opening > 0 /\ opening' = opening - 1
  /\ IF ws = "up"
     THEN /\ crashed' = TRUE
          /\ UNCHANGED <<ws, inProgress, hears, loop, connections, st>> /\ UNCHANGED ackVars
     ELSE /\ ws' = "up" /\ inProgress' = FALSE /\ connections' = connections + 1
          /\ hears' = "nobody"
          /\ IF hears = "nobody" THEN UNCHANGED <<loop, st>> /\ UNCHANGED ackVars
             ELSE /\ loop' = [loop EXCEPT ![hears] = "none"]
                  /\ IF connections > 0 /\ ~closed THEN Resume(hears) ELSE Proceed(hears)
          /\ UNCHANGED crashed
  /\ UNCHANGED <<retries, timers, closed, early, drops, failures>> /\ UNCHANGED lateVars

\* The request that hears of the failure may try again.
Again(retry) == hears # "timer" /\ retry /\ retries[hears] < MaxReconnects

\* not-ready: it waits, or gives up and is rejected.
NotReady(retry) ==
  /\ hears' = "nobody"
  /\ loop' = [loop EXCEPT ![hears] = IF Again(retry) THEN "backoff" ELSE "none"]
  /\ retries' = [retries EXCEPT ![hears] = IF Again(retry) THEN @ + 1 ELSE 0]

Rejected(retry) ==
  IF hears = "timer" \/ Again(retry) THEN st ELSE [st EXCEPT ![hears] = "rejected"]

\* A call whose session:new fails ends: invokeWebCallback closes the requestor.
NewFails(s) == s["new"] = "rejected" /\ st["new"] # "rejected"

\* A socket reports an error and, in the same tick, a close: _onError and _onClose, which do
\* not ask whose they are.  A connection that is up is forgotten but keeps its listeners.
SocketFails(retry) ==
  /\ IF hears # "nobody" /\ (inProgress \/ connections = 0)
     THEN /\ NotReady(retry)
          /\ inProgress' = (Again(retry) /\ inProgress)
          /\ IF NewFails(Rejected(retry))
             THEN ScheduleReconnect /\ CloseEffect(Rejected(retry))
             ELSE SocketClosed(Rejected(retry)) /\ UNCHANGED closed
     ELSE SocketClosed(st) /\ UNCHANGED <<hears, loop, retries, inProgress, closed>>
  /\ orphans' = orphans + Up
  /\ early' = (early \/ (ws = "up" /\ initMsg))
  /\ UNCHANGED <<connections, initMsg, crashed, drops>>

\* A network error.  Under ct, a handshake that times out is not retried, a refused or
\* reset connection is.
ConnectFails(retry) ==
  /\ ~crashed /\ opening > 0 /\ failures < MaxFailures
  /\ opening' = opening - 1 /\ failures' = failures + 1
  /\ SocketFails(retry)
  /\ UNCHANGED <<refused, mistaken>>

\* An HTTP error: _onUnexpectedResponse clears connectInProgress, though the request
\* may try again.  ws leaves the socket as it is, with its listeners and its timer.
ConnectRefused ==
  /\ ~crashed /\ opening > 0 /\ failures < MaxFailures
  /\ opening' = opening - 1 /\ failures' = failures + 1
  /\ crashed' = (ws = "up") /\ refused' = refused + 1
  /\ inProgress' = (ws = "up" /\ inProgress)
  /\ IF ws = "up" \/ hears = "nobody"
     THEN UNCHANGED <<hears, loop, retries, ws, st, rc, oldRc, held, broken, closed>>
     ELSE /\ NotReady(RetryHttp)
          /\ IF NewFails(Rejected(RetryHttp)) THEN CloseEffect(Rejected(RetryHttp))
             ELSE /\ st' = Rejected(RetryHttp)
                  /\ UNCHANGED <<ws, rc, oldRc, held, broken, closed>>
  /\ UNCHANGED <<timers, connections, initMsg, orphans, mistaken, early, drops>>

\* The handshake timer of a refused socket, unless the far end has dropped it before.
\* Whoever connects now is told that it failed; only the policy `all` retries it.
RefusedFails(retry) ==
  /\ ~crashed /\ refused > 0 /\ refused' = refused - 1
  /\ retry => RetryHttp
  /\ SocketFails(retry)
  /\ mistaken' = (mistaken \/ opening > 0 \/ ws = "up")
  /\ UNCHANGED <<opening, failures>>

\* A request tries again; a connection made meanwhile is dropped without closing it.
BackoffEnds(m) ==
  /\ ~crashed /\ loop[m] = "backoff"
  /\ ws' = "null"
  /\ Connect(m)
  /\ UNCHANGED <<inProgress, retries, timers, connections, closed, st>>
  /\ UNCHANGED ackVars /\ UNCHANGED otherVars

\* Mutant: the timer does not look whether a request is connecting.
ReconnectTimerAlways ==
  /\ ~crashed /\ timers > 0 /\ timers' = timers - 1
  /\ IF ws = "null" THEN inProgress' = TRUE /\ Connect("timer")
     ELSE UNCHANGED <<inProgress, opening, hears, loop>>
  /\ UNCHANGED <<ws, retries, connections, closed, st>>
  /\ UNCHANGED ackVars /\ UNCHANGED otherVars

\* _scheduleReconnect
ReconnectTimer ==
  /\ ~crashed /\ timers > 0 /\ timers' = timers - 1
  /\ IF ws = "null" /\ ~inProgress THEN inProgress' = TRUE /\ Connect("timer")
     ELSE UNCHANGED <<inProgress, opening, hears, loop>>
  /\ UNCHANGED <<ws, retries, connections, closed, st>>
  /\ UNCHANGED ackVars /\ UNCHANGED otherVars
----------------------------------------------------------------------------
(* The far end *)

Drop ==
  /\ ~crashed /\ ws = "up" /\ drops < MaxDrops /\ drops' = drops + 1
  /\ SocketClosed(st)
  /\ early' = (early \/ initMsg)
  /\ UNCHANGED <<inProgress, opening, hears, loop, retries, connections, initMsg, closed,
                 crashed, failures>> /\ UNCHANGED lateVars

\* The application closes the connection (code 1000).
FarEndCloses ==
  /\ ~crashed /\ ws = "up" /\ drops < MaxDrops /\ drops' = drops + 1
  /\ closed' = TRUE /\ ws' = "null"
  /\ LosePending(st)
  /\ UNCHANGED <<connections, initMsg, early, crashed, failures>> /\ UNCHANGED tryVars
  /\ UNCHANGED lateVars

\* A forgotten connection drops or is closed: to the handlers it is this.ws that is gone.
OrphanCloses ==
  /\ ~crashed /\ orphans > 0 /\ drops < MaxDrops /\ drops' = drops + 1
  /\ \/ SocketClosed(st) /\ orphans' = orphans - 1 + Up /\ UNCHANGED closed
     \/ /\ closed' = TRUE /\ ws' = "null" /\ orphans' = orphans - 1
        /\ LosePending(st) /\ UNCHANGED timers
  /\ early' = (early \/ initMsg)
  /\ UNCHANGED <<inProgress, opening, hears, loop, retries, connections, initMsg, refused,
                 mistaken, crashed, failures>>

\* An ack comes on the connection, or on a forgotten one.
Ack(m) ==
  /\ ~crashed /\ \/ ws = "up" /\ st[m] \in {"flight", "moved"}
                 \/ orphans > 0 /\ st[m] \in {"flight", "moved", "lost"}
  /\ ResolveReconnect([st EXCEPT ![m] = "resolved"])
  /\ initMsg' = FALSE
  /\ UNCHANGED <<ws, connections, closed, rc, oldRc, broken>>
  /\ UNCHANGED tryVars /\ UNCHANGED otherVars

AckReconnect ==
  /\ ~crashed /\ \/ (ws = "up" \/ orphans > 0) /\ rc /\ rc' = FALSE /\ UNCHANGED oldRc
                 \/ orphans > 0 /\ oldRc > 0 /\ oldRc' = oldRc - 1 /\ UNCHANGED rc
  /\ initMsg' = FALSE
  /\ ResolveReconnect(st)
  /\ UNCHANGED <<ws, connections, closed, broken>>
  /\ UNCHANGED tryVars /\ UNCHANGED otherVars

\* No ack in RESPONSE_TIMEOUT_MS.
Timeout(m) ==
  /\ ~crashed /\ st[m] \in InFlight
  /\ LET s == [st EXCEPT ![m] = "rejected"]
     IN  IF m = "new" THEN CloseEffect(s)
         ELSE FailReconnect(s) /\ UNCHANGED <<ws, closed, rc, oldRc>>
  /\ UNCHANGED <<connections, initMsg>> /\ UNCHANGED tryVars /\ UNCHANGED otherVars

\* The same for session:reconnect; that of an earlier connection fails the latest.
TimeoutReconnect ==
  /\ ~crashed
  /\ \/ rc /\ rc' = FALSE /\ UNCHANGED oldRc
     \/ oldRc > 0 /\ oldRc' = oldRc - 1 /\ UNCHANGED rc
  /\ FailReconnect(st)
  /\ UNCHANGED <<ws, connections, closed, initMsg>> /\ UNCHANGED tryVars
  /\ UNCHANGED otherVars
----------------------------------------------------------------------------
Attempt == Open \/ ConnectRefused \/ \E retry \in BOOLEAN : ConnectFails(retry)

Next ==
  \/ \E m \in Msgs : Request(m) \/ BackoffEnds(m) \/ Ack(m) \/ Timeout(m)
  \/ Attempt \/ ReconnectTimer \/ Close \/ \E retry \in BOOLEAN : RefusedFails(retry)
  \/ Drop \/ FarEndCloses \/ OrphanCloses \/ AckReconnect \/ TimeoutReconnect

\* Timers fire and an attempt to connect ends; the far end need not answer.
Fairness ==
  /\ \A m \in Msgs : WF_vars(Timeout(m)) /\ WF_vars(BackoffEnds(m))
  /\ WF_vars(TimeoutReconnect) /\ WF_vars(ReconnectTimer) /\ WF_vars(Attempt)

Spec == Init /\ [][Next]_vars /\ Fairness
----------------------------------------------------------------------------
(* Properties *)

\* Requests, retries and reconnection timers, those that the late close of a refused socket
\* starts included, never make two connections at once: assert(!this.ws) would then fail
\* (_connect, _onOpen).  Not so once a late failure was taken for that of a later socket.
OneConnection == (~RetryHttp /\ ~mistaken) => opening + Up + orphans <= 1

\* On a connection that was re-established nothing is sent before the application has
\* resumed the session, unless reconnect-error was reported (request, _reconnectPromise) or
\* a late failure silenced the one who would have asked to resume.
SendsOnlyWhenResumed ==
  [][\A m \in Msgs :
       (st[m] \in {"unsent", "connecting", "queued"} /\ st'[m] \in {"flight", "sent"})
         => ((~rc' /\ st'["new"] # "moved") \/ broken \/ mistaken)]_vars

\* A request that was sent is answered or fails, whatever happens to the connection, and
\* whichever socket a late failure is taken for.
SentRequestsSettle ==
  \A m \in Msgs : (st[m] \in InFlight) ~> (st[m] \in Final \/ early \/ crashed)

\* What is held back for a session:reconnect does not wait for an ack that never comes,
\* unless a late failure silenced the one who would have asked for it.
HeldMessagesAreReleased ==
  \A m \in Msgs : (st[m] = "queued" /\ ws = "up" /\ ~closed)
                     ~> (st[m] # "queued" \/ ws = "null" \/ early \/ crashed \/ mistaken)
=============================================================================
