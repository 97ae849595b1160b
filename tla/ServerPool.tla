---------------------------- MODULE ServerPool ----------------------------
(***************************************************************************)
(* The pool of feature servers that inbound calls are sent to              *)
(* (jambonz-feature-server/app.js, lib/utils/sbc-pinger.js,                *)
(* lib/utils/aws-sns-lifecycle.js, lib/session/session-tracker.js,         *)
(* sbc-sip-sidecar/lib/options.js, sbc-inbound/lib/fs-tracking.js).        *)
(*                                                                         *)
(* Feature servers ping every sidecar with their status.  A sidecar keeps  *)
(* a map of when it last heard of whom, and all of them write one set in   *)
(* redis, from which the SBCs choose.  Every call to redis is awaited, so  *)
(* that pings, expiry and the reload after a restart interleave.           *)
(***************************************************************************)
EXTENDS Naturals, FiniteSets

CONSTANTS
  Servers,
  Sidecars,
  Scaling,     \* servers in an AWS group that notifies them of a scale-in
  MaxCalls,    \* bound: calls at a server
  MaxHandlers, \* bound: pings a sidecar handles at a time
  MaxFaults    \* bound: crashes of sidecars and failures of redis

ASSUME ServerPoolAssumption ==
  /\ Scaling \subseteq Servers
  /\ MaxCalls \in Nat /\ MaxHandlers \in Nat \ {0} /\ MaxFaults \in Nat

VARIABLES
  life,      \* a server is open, drying up (dryUpCalls) or down
  scaleIn,   \* how far its scale-in is
  told,      \* the emitters whose operationalState is ScaleIn
  calls,     \* sessionTracker.count
  ping,      \* the latest OPTIONS on its way to each sidecar
  drained,   \* servers drained by the operator
  active,    \* the set in redis
  running,   \* whether a sidecar is up, and how far its _init is
  known,     \* its map: who checked in, lately or long ago
  handling,  \* the pings it handles
  sweep,     \* what its expiry sweep has yet to look at, and is removing
  read,      \* what its _init has read
  stranded,  \* history: listed by a sidecar that does not watch them
  faults

serverVars == <<life, scaleIn, told, calls, ping>>
sidecarVars == <<running, known, handling, sweep, read>>
setVars == <<drained, active, stranded>>
vars == <<serverVars, sidecarVars, setVars, faults>>

Ping == [fs : Servers, at : {"drained", "check", "add", "remove"}]

Heard == {"none", "fresh", "old"}

TypeOK ==
  /\ life \in [Servers -> {"open", "drying", "down"}]
  /\ scaleIn \in [Servers -> {"no", "noticed", "busy", "complete"}]
  /\ told \in [Servers -> SUBSET {"locals", "notifier"}]
  /\ calls \in [Servers -> 0..MaxCalls]
  /\ ping \in [Servers \X Sidecars -> {"none", "open", "closed"}]
  /\ drained \subseteq Servers /\ active \subseteq Servers /\ stranded \subseteq Servers
  /\ running \in [Sidecars -> {"down", "reading", "setting", "up"}]
  /\ known \in [Sidecars -> [Servers -> Heard]]
  /\ handling \in [Sidecars -> SUBSET Ping]
  /\ sweep \in [Sidecars -> [todo : SUBSET Servers, removing : SUBSET Servers]]
  /\ read \in [Sidecars -> SUBSET Servers]
  /\ faults \in 0..MaxFaults

Forgetful == [f \in Servers |-> "none"]
Idle == [todo |-> {}, removing |-> {}]

Init ==
  /\ life = [f \in Servers |-> "down"] /\ scaleIn = [f \in Servers |-> "no"]
  /\ told = [f \in Servers |-> {}] /\ calls = [f \in Servers |-> 0]
  /\ ping = [p \in Servers \X Sidecars |-> "none"]
  /\ drained = {} /\ active = {} /\ stranded = {}
  /\ running = [s \in Sidecars |-> "down"] /\ known = [s \in Sidecars |-> Forgetful]
  /\ handling = [s \in Sidecars |-> {}] /\ sweep = [s \in Sidecars |-> Idle]
  /\ read = [s \in Sidecars |-> {}]
  /\ faults = 0
----------------------------------------------------------------------------
(* The feature server *)

\* pingProxies
PingAll(f, status) ==
  ping' = [p \in Servers \X Sidecars |-> IF p[1] = f THEN status ELSE ping[p]]

Start(f) ==
  /\ life[f] = "down" /\ life' = [life EXCEPT ![f] = "open"]
  /\ scaleIn' = [scaleIn EXCEPT ![f] = "no"] /\ told' = [told EXCEPT ![f] = {}]
  /\ PingAll(f, "open")
  /\ UNCHANGED <<faults, calls, drained, active, stranded>> /\ UNCHANGED sidecarVars

\* Every OPTIONS_PING_INTERVAL.
PingAgain(f) ==
  /\ life[f] # "down"
  /\ PingAll(f, IF life[f] = "open" THEN "open" ELSE "closed")
  /\ UNCHANGED <<faults, life, scaleIn, told, calls, drained, active, stranded>>
  /\ UNCHANGED sidecarVars

\* Standby, or SIGUSR1 where there is no AWS group.
StandbyEnter(f) ==
  /\ life[f] = "open" /\ life' = [life EXCEPT ![f] = "drying"] /\ PingAll(f, "closed")
  /\ UNCHANGED <<faults, scaleIn, told, calls, drained, active, stranded>> /\ UNCHANGED sidecarVars

StandbyExit(f) ==
  /\ f \in Scaling /\ life[f] = "drying" /\ scaleIn[f] = "no"
  /\ life' = [life EXCEPT ![f] = "open"] /\ PingAll(f, "open")
  /\ UNCHANGED <<faults, scaleIn, told, calls, drained, active, stranded>> /\ UNCHANGED sidecarVars

\* The notice that the instance will terminate; the notifier is an emitter of its own.
ScaleIn(f) ==
  /\ f \in Scaling /\ life[f] # "down" /\ scaleIn[f] = "no"
  /\ scaleIn' = [scaleIn EXCEPT ![f] = "noticed"]
  /\ life' = [life EXCEPT ![f] = "drying"] /\ PingAll(f, "closed")
  /\ told' = [told EXCEPT ![f] = {"notifier"}]
  /\ UNCHANGED <<faults, calls, drained, active, stranded>> /\ UNCHANGED sidecarVars

\* Five seconds later: completeScaleIn, or "scale-in will complete when they are done".
ScaleInCheck(f) ==
  /\ scaleIn[f] = "noticed" /\ life[f] # "down"
  /\ scaleIn' = [scaleIn EXCEPT ![f] = IF calls[f] = 0 THEN "complete" ELSE "busy"]
  /\ UNCHANGED <<faults, life, told, calls, ping, drained, active, stranded>>
  /\ UNCHANGED sidecarVars

\* An SBC chose the server from the set (getFeatureServer).
CallArrives(f) ==
  /\ f \in active /\ life[f] # "down" /\ calls[f] < MaxCalls
  /\ calls' = [calls EXCEPT ![f] = @ + 1]
  /\ UNCHANGED <<faults, life, scaleIn, told, ping, drained, active, stranded>>
  /\ UNCHANGED sidecarVars

\* The tracker's idle event looks at the emitter in srf.locals, the one that the notifier
\* took the place of.
CallEnds(f) ==
  /\ calls[f] > 0 /\ calls' = [calls EXCEPT ![f] = @ - 1]
  /\ scaleIn' = IF calls[f] = 1 /\ "locals" \in told[f]
                THEN [scaleIn EXCEPT ![f] = "complete"] ELSE scaleIn
  /\ UNCHANGED <<faults, life, told, ping, drained, active, stranded>> /\ UNCHANGED sidecarVars

\* The process dies, or the instance is terminated.  SIGTERM and SIGINT are no different:
\* the monitor's handler was installed first and exits before app.js could unlist the server.
Crash(f) ==
  /\ life[f] # "down"
  /\ life' = [life EXCEPT ![f] = "down"] /\ calls' = [calls EXCEPT ![f] = 0]
  /\ UNCHANGED <<faults, scaleIn, told, ping, drained, active, stranded>> /\ UNCHANGED sidecarVars

Drain(f) ==
  /\ drained' = IF f \in drained THEN drained \ {f} ELSE drained \cup {f}
  /\ UNCHANGED <<faults, active, stranded>> /\ UNCHANGED serverVars /\ UNCHANGED sidecarVars
----------------------------------------------------------------------------
(* A sidecar handles a ping *)

Handles(s, old, new) == handling' = [handling EXCEPT ![s] = (@ \ old) \cup new]

Know(s, f, when) == known' = [known EXCEPT ![s][f] = when]

\* Those of some servers that a sidecar's map does not have.
Unwatched(s, some) == {f \in some : known[s][f] = "none"}

\* The handler of a ping awaits a call to redis.
At(f, call) == [fs |-> f, at |-> call]

\* _addToCache up to its first await.
CacheOpen(s, p) ==
  /\ Know(s, p.fs, "fresh")
  /\ Handles(s, {p}, {At(p.fs, "check")})

\* Mutant: a server that is not known need not be removed.
CacheClosedIfKnown(s, p) ==
  /\ Know(s, p.fs, "none")
  /\ Handles(s, {p}, IF known[s][p.fs] = "none" THEN {}
                     ELSE {At(p.fs, "remove")})

CacheClosed(s, p) ==
  /\ Know(s, p.fs, "none")
  /\ Handles(s, {p}, {At(p.fs, "remove")})

Receive(s, f) ==
  /\ running[s] # "down" /\ ping[<<f, s>>] # "none"
  /\ Cardinality(handling[s]) < MaxHandlers
  /\ ping' = [ping EXCEPT ![<<f, s>>] = "none"]
  /\ IF ping[<<f, s>>] = "open" THEN Handles(s, {}, {At(f, "drained")}) /\ UNCHANGED known
     ELSE CacheClosed(s, At(f, "drained"))
  /\ UNCHANGED <<faults, life, scaleIn, told, calls, drained, active, stranded>>
  /\ UNCHANGED <<running, sweep, read>>

Lost(s, f) ==
  /\ ping[<<f, s>>] # "none" /\ ping' = [ping EXCEPT ![<<f, s>>] = "none"]
  /\ UNCHANGED <<faults, life, scaleIn, told, calls, drained, active, stranded>>
  /\ UNCHANGED sidecarVars

\* isDrained: "If feature server is drained, force status to closed".
DrainChecked(s, p) ==
  /\ p.at = "drained"
  /\ IF p.fs \in drained THEN CacheClosed(s, p) ELSE CacheOpen(s, p)
  /\ stranded' = IF p.fs \in drained THEN stranded ELSE stranded \ {p.fs}
  /\ UNCHANGED <<faults, drained, active, running, sweep, read>> /\ UNCHANGED serverVars

\* Mutant: the set is believed to hold whom the map knows.
MemberAssumed(s, p) ==
  /\ p.at = "check"
  /\ Handles(s, {p}, IF known[s][p.fs] = "old" THEN {At(p.fs, "add")} ELSE {})
  /\ UNCHANGED <<faults, drained, active, stranded, running, known, sweep, read>>
  /\ UNCHANGED serverVars

\* isMemberOfSet
MemberChecked(s, p) ==
  /\ p.at = "check"
  /\ Handles(s, {p}, IF p.fs \in active THEN {} ELSE {At(p.fs, "add")})
  /\ UNCHANGED <<faults, drained, active, stranded, running, known, sweep, read>>
  /\ UNCHANGED serverVars

\* addToSet, whatever has become of the entry in the map meanwhile.
Added(s, p) ==
  /\ p.at = "add" /\ Handles(s, {p}, {})
  /\ active' = active \cup {p.fs}
  /\ stranded' = (stranded \ {p.fs}) \cup Unwatched(s, {p.fs})
  /\ UNCHANGED <<faults, drained, running, known, sweep, read>> /\ UNCHANGED serverVars

Removed(s, p) ==
  /\ p.at = "remove" /\ Handles(s, {p}, {})
  /\ active' = active \ {p.fs}
  /\ UNCHANGED <<faults, drained, stranded, running, known, sweep, read>> /\ UNCHANGED serverVars

\* redis fails and the answer is 503; a closed server is out of the map already.
Unanswered(s, p) ==
  /\ faults < MaxFaults /\ faults' = faults + 1
  /\ p.at # "drained" /\ Handles(s, {p}, {})
  /\ stranded' = IF p.at = "remove" THEN stranded \cup Unwatched(s, {p.fs}) ELSE stranded
  /\ UNCHANGED <<drained, active, running, known, sweep, read>> /\ UNCHANGED serverVars
----------------------------------------------------------------------------
(* Expiry, crash and restart of a sidecar *)

\* More than EXPIRES_INTERVAL without a check-in.
Age(s, f) ==
  /\ known[s][f] = "fresh" /\ Know(s, f, "old")
  /\ UNCHANGED <<faults, drained, active, stranded, running, handling, sweep, read>>
  /\ UNCHANGED serverVars

\* The sweep's list, and the entry it deleted and is removing from the set.
Sweeps(s, todo, removing) ==
  sweep' = [sweep EXCEPT ![s] = [todo |-> todo, removing |-> removing]]

SweepStart(s) ==
  /\ sweep[s] = Idle
  /\ LET old == {f \in Servers : known[s][f] = "old"}
     IN old # {} /\ Sweeps(s, old, {})
  /\ UNCHANGED <<faults, drained, active, stranded, running, known, handling, read>>
  /\ UNCHANGED serverVars

\* The next one that has not checked in since is deleted from the map.
Expire(s, f) ==
  /\ f \in sweep[s].todo /\ sweep[s].removing = {}
  /\ IF known[s][f] = "old"
     THEN Know(s, f, "none") /\ Sweeps(s, sweep[s].todo \ {f}, {f})
     ELSE Sweeps(s, sweep[s].todo \ {f}, {}) /\ UNCHANGED known
  /\ UNCHANGED <<faults, drained, active, stranded, running, handling, read>>
  /\ UNCHANGED serverVars

Expired(s) ==
  /\ sweep[s].removing # {}
  /\ active' = active \ sweep[s].removing
  /\ Sweeps(s, sweep[s].todo, {})
  /\ UNCHANGED <<faults, drained, stranded, running, known, handling, read>>
  /\ UNCHANGED serverVars

\* The removal fails, or the reading of the set after it, and with it the rest of the
\* sweep.  Where the rejection ends the process too, that is SidecarCrash.
ExpireFails(s) ==
  /\ faults < MaxFaults /\ faults' = faults + 1
  /\ sweep[s].removing # {} /\ Sweeps(s, {}, {})
  /\ \/ active' = active \ sweep[s].removing /\ UNCHANGED stranded
     \/ active' = active /\ stranded' = stranded \cup Unwatched(s, sweep[s].removing)
  /\ UNCHANGED <<drained, running, known, handling, read>> /\ UNCHANGED serverVars

SidecarCrash(s) ==
  /\ faults < MaxFaults /\ faults' = faults + 1
  /\ running[s] # "down" /\ running' = [running EXCEPT ![s] = "down"]
  /\ known' = [known EXCEPT ![s] = Forgetful] /\ handling' = [handling EXCEPT ![s] = {}]
  /\ sweep' = [sweep EXCEPT ![s] = Idle] /\ read' = [read EXCEPT ![s] = {}]
  /\ UNCHANGED <<drained, active, stranded>> /\ UNCHANGED serverVars

SidecarStart(s) ==
  /\ running[s] = "down" /\ running' = [running EXCEPT ![s] = "reading"]
  /\ UNCHANGED <<faults, drained, active, stranded, known, handling, sweep, read>>
  /\ UNCHANGED serverVars

\* _init: "retrieve the initial list of servers, if any, so we can watch them as well".
InitRead(s) ==
  /\ running[s] = "reading" /\ running' = [running EXCEPT ![s] = "setting"]
  /\ read' = [read EXCEPT ![s] = active]
  /\ UNCHANGED <<faults, drained, active, stranded, known, handling, sweep>>
  /\ UNCHANGED serverVars

\* "error initializing from redis", in any of its three reads: logged, and the sidecar runs.
InitFails(s) ==
  /\ faults < MaxFaults /\ faults' = faults + 1
  /\ running[s] \in {"reading", "setting"} /\ running' = [running EXCEPT ![s] = "up"]
  /\ read' = [read EXCEPT ![s] = {}]
  /\ stranded' = stranded \cup Unwatched(s, active)
  /\ UNCHANGED <<drained, active, known, handling, sweep>> /\ UNCHANGED serverVars

\* Mutant: a restarted sidecar watches nobody until he checks in.
InitForgotten(s) ==
  /\ running[s] = "setting" /\ running' = [running EXCEPT ![s] = "up"]
  /\ read' = [read EXCEPT ![s] = {}]
  /\ UNCHANGED <<faults, drained, active, stranded, known, handling, sweep>>
  /\ UNCHANGED serverVars

InitSet(s) ==
  /\ running[s] = "setting" /\ running' = [running EXCEPT ![s] = "up"]
  /\ known' = [known EXCEPT ![s] = [f \in Servers |-> IF f \in read[s] THEN "fresh" ELSE @[f]]]
  /\ read' = [read EXCEPT ![s] = {}] /\ stranded' = stranded \ read[s]
  /\ UNCHANGED <<faults, drained, active, handling, sweep>> /\ UNCHANGED serverVars
----------------------------------------------------------------------------
Check(s) == \E p \in handling[s] : DrainChecked(s, p)
Look(s) == \E p \in handling[s] : MemberChecked(s, p)
Write(s) == \E p \in handling[s] : Added(s, p) \/ Removed(s, p)

Watch(s) == SweepStart(s) \/ (\E f \in Servers : Expire(s, f)) \/ Expired(s)

Load(s) == SidecarStart(s) \/ InitRead(s) \/ InitSet(s)

\* A call to redis fails outside the handlers of pings.
Fails(s) == ExpireFails(s) \/ InitFails(s)

Server(f) ==
  \/ Start(f) \/ PingAgain(f) \/ StandbyEnter(f) \/ StandbyExit(f) \/ ScaleIn(f)
  \/ ScaleInCheck(f) \/ CallArrives(f) \/ CallEnds(f) \/ Crash(f) \/ Drain(f)

Sidecar(s) ==
  \/ Check(s) \/ Look(s) \/ Write(s) \/ Watch(s) \/ Load(s) \/ SidecarCrash(s) \/ Fails(s)
  \/ \E p \in handling[s] : Unanswered(s, p)
  \/ \E f \in Servers : Receive(s, f) \/ Lost(s, f) \/ Age(s, f)

Next == (\E f \in Servers : Server(f)) \/ (\E s \in Sidecars : Sidecar(s))

\* Pings are repeated and some arrive, redis answers, time passes, sidecars are restarted,
\* calls end.
Fairness ==
  /\ \A f \in Servers : WF_vars(PingAgain(f)) /\ WF_vars(ScaleInCheck(f)) /\ WF_vars(CallEnds(f))
  /\ \A s \in Sidecars :
       /\ WF_vars(Check(s)) /\ WF_vars(Look(s)) /\ WF_vars(Write(s))
       /\ WF_vars(Watch(s)) /\ WF_vars(Load(s))
       /\ \A f \in Servers : SF_vars(Receive(s, f)) /\ SF_vars(Age(s, f))

Spec == Init /\ [][Next]_vars /\ Fairness
----------------------------------------------------------------------------
(* Properties *)

\* Somebody watches every server on the list, so that he will notice when it is gone:
\* a map has it, or is being loaded, or the server is being removed; except for one added
\* after its entry was deleted, or that redis failed to remove or to hand out to a sidecar
\* that starts (_addToCache, the expiry interval, _init).
Watches(s, f) ==
  \/ known[s][f] # "none" \/ f \in sweep[s].removing \/ f \in read[s]
  \/ running[s] \in {"down", "reading"}
  \/ \E p \in handling[s] : p.fs = f /\ p.at = "remove"
ListedIsWatched == \A f \in active \ stranded : \E s \in Sidecars : Watches(s, f)

\* A server that stays open gets on the list again and again, whoever removed it meanwhile.
Stays(f) == life[f] = "open" /\ f \notin drained
OpenIsListed == \A f \in Servers : <>[]Stays(f) => []<>(f \in active)

\* A server that dries up or is drained for good leaves the list for good, although pings
\* of before are still handled.
DriesUp(f) == <>[](life[f] = "drying") \/ <>[](f \in drained /\ life[f] # "down")
DryIsUnlisted == \A f \in Servers : DriesUp(f) => <>[](f \notin active)

\* A server that is gone for good leaves the list, unless it was left on it unwatched.
GoneIsUnlisted ==
  \A f \in Servers : <>[](life[f] = "down") => <>[](f \notin active \/ f \in stranded)

\* "calls in progress; scale-in will complete when they are done" (sbc-pinger).
ScaleInCompletes ==
  \A f \in Servers : (scaleIn[f] = "busy") ~> (scaleIn[f] = "complete" \/ life[f] = "down")
============================================================================
