--------------------------- MODULE RegbotElection ---------------------------
(***************************************************************************)
(* Which instance of the SIP sidecar registers the trunks                  *)
(* (sbc-sip-sidecar/lib/sip-trunk-register.js and regbot.js).              *)
(*                                                                         *)
(* The instances share a key in redis that expires 70 seconds after it was *)
(* set.  Whoever holds it renews it every 60 seconds, follows the carriers *)
(* in the database and runs one registration bot per outbound gateway.     *)
(***************************************************************************)
EXTENDS Naturals

CONSTANTS
  Nodes,       \* the instances; a restarted one has a new token
  Gateways,    \* the outbound gateways that can be registered
  Slow,        \* updateCarrierRegbots may take longer than the check interval
  MaxUpdates,  \* bound: overlapping updateCarrierRegbots of an instance
  MaxFaults,   \* bound: checks that are late or fail, lookups that fail
  MaxChanges,  \* bound: changes of the database
  MaxCrashes   \* bound: crashes

ASSUME RegbotAssumption ==
  /\ Slow \in BOOLEAN /\ MaxUpdates \in Nat \ {0}
  /\ MaxFaults \in Nat /\ MaxChanges \in Nat /\ MaxCrashes \in Nat
  /\ "none" \notin Nodes /\ "gone" \notin Nodes

VARIABLES
  key,       \* regbotKey in redis: a token, that of a crashed process, or none
  active,    \* srf.locals.regbot.active
  check,     \* the redis command that the start-up or checkStatus awaits
  seen,      \* the module's carriers and gateways, as of the last change
  updates,   \* the runs of updateCarrierRegbots: what each awaits, what it has to start
  regbots,   \* the gateways of the regbots array
  asking,    \* ... whose REGISTER is unanswered
  stopped,   \* gateways of stopped bots whose REGISTER is unanswered
  zombies,   \* gateways of stopped bots that go on registering
  config,    \* the gateways in the database
  faults, changes, crashes   \* how many there were

vars == <<key, active, check, seen, updates, regbots, asking, stopped, zombies, config,
          faults, changes, crashes>>
botVars == <<regbots, asking, stopped, zombies>>

Slots == 1..MaxUpdates
Update == [pc : {"idle", "lookup", "start"}, todo : SUBSET Gateways]
Idle == [pc |-> "idle", todo |-> {}]

TypeOK ==
  /\ key \in Nodes \cup {"none", "gone"}
  /\ active \in [Nodes -> BOOLEAN]
  /\ check \in [Nodes -> {"claim", "idle", "renew", "grab"}]
  /\ seen \in [Nodes -> SUBSET Gateways]
  /\ updates \in [Nodes -> [Slots -> Update]]
  /\ regbots \in [Nodes -> SUBSET Gateways]
  /\ asking \in [Nodes -> SUBSET Gateways]
  /\ stopped \in [Nodes -> SUBSET Gateways]
  /\ zombies \in [Nodes -> SUBSET Gateways]
  /\ config \in SUBSET Gateways
  /\ faults \in Nat /\ changes \in Nat /\ crashes \in Nat

Quiet(n) == \A s \in Slots : updates[n][s] = Idle

Init ==
  /\ key = "none"
  /\ active = [n \in Nodes |-> FALSE]
  /\ check = [n \in Nodes |-> "claim"]
  /\ seen = [n \in Nodes |-> {}]
  /\ updates = [n \in Nodes |-> [s \in Slots |-> Idle]]
  /\ regbots = [n \in Nodes |-> {}] /\ asking = [n \in Nodes |-> {}]
  /\ stopped = [n \in Nodes |-> {}] /\ zombies = [n \in Nodes |-> {}]
  /\ config \in SUBSET Gateways
  /\ faults = 0 /\ changes = 0 /\ crashes = 0
----------------------------------------------------------------------------
(* Helpers *)

Fault == faults < MaxFaults /\ faults' = faults + 1

\* regbots.forEach(stop): the timers are cleared, requests under way are not.
StopRegbots(n) ==
  /\ regbots' = [regbots EXCEPT ![n] = {}]
  /\ asking' = [asking EXCEPT ![n] = {}]
  /\ stopped' = [stopped EXCEPT ![n] = @ \cup asking[n]]
  /\ UNCHANGED zombies

\* updateCarrierRegbots is called and awaits the database.
BeginUpdate(n) ==
  \E s \in Slots :
    /\ updates[n][s] = Idle
    /\ updates' = [updates EXCEPT ![n][s] = [pc |-> "lookup", todo |-> {}]]

\* Mutant: the key is set whether or not it exists.
GrabOverwrites(n) ==
  /\ check' = [check EXCEPT ![n] = "idle"]
  /\ key' = n
  /\ active' = [active EXCEPT ![n] = TRUE]
  /\ BeginUpdate(n)

\* addKeyNx has been answered.
Grab(n) ==
  /\ check' = [check EXCEPT ![n] = "idle"]
  /\ IF key = "none"
     THEN /\ key' = n
          /\ active' = [active EXCEPT ![n] = TRUE]
          /\ BeginUpdate(n)
     ELSE /\ active' = [active EXCEPT ![n] = FALSE]
          /\ UNCHANGED <<key, updates>>
----------------------------------------------------------------------------
(* The role *)

\* At start-up, after a random delay.
Claim(n) ==
  /\ check[n] = "claim" /\ Grab(n)
  /\ UNCHANGED <<seen, config, faults, changes, crashes>> /\ UNCHANGED botVars

\* Mutant: an instance whose role was taken does not stand down.
CheckStatusIgnoresOther(n) ==
  /\ check[n] = "idle" /\ Quiet(n)
  /\ \/ /\ active[n] /\ key = n
        /\ check' = [check EXCEPT ![n] = "renew"]
        /\ UNCHANGED botVars
     \/ /\ active[n] /\ key = "none"
        /\ StopRegbots(n)
        /\ check' = [check EXCEPT ![n] = "grab"]
     \/ /\ ~active[n] /\ key = "none"
        /\ check' = [check EXCEPT ![n] = "grab"]
        /\ UNCHANGED botVars
  /\ UNCHANGED <<key, active, seen, updates, config, faults, changes, crashes>>

\* checkStatus, up to the next redis command: continue, stand down, or try to grab a
\* vacant role.  Unless Slow, the last update has ended.
CheckStatus(n) ==
  /\ check[n] = "idle"
  /\ IF Slow THEN \E s \in Slots : updates[n][s] = Idle ELSE Quiet(n)
  /\ \/ /\ active[n] /\ key = n
        /\ check' = [check EXCEPT ![n] = "renew"]
        /\ UNCHANGED botVars
     \/ /\ active[n] /\ key \notin {n, "none"} /\ regbots[n] # {}
        /\ StopRegbots(n)
        /\ UNCHANGED check
     \/ /\ active[n] /\ key = "none"
        /\ StopRegbots(n)
        /\ check' = [check EXCEPT ![n] = "grab"]
     \/ /\ ~active[n] /\ key = "none"
        /\ check' = [check EXCEPT ![n] = "grab"]
        /\ UNCHANGED botVars
  /\ UNCHANGED <<key, active, seen, updates, config, faults, changes, crashes>>

\* Mutant: the holder renews but does not look at the database again.
RenewOnly(n) ==
  /\ check[n] = "renew"
  /\ key' = n
  /\ check' = [check EXCEPT ![n] = "idle"]
  /\ UNCHANGED <<active, seen, updates, config, faults, changes, crashes>>
  /\ UNCHANGED botVars

\* The holder sets the key again, whoever holds it by now.
Renew(n) ==
  /\ check[n] = "renew"
  /\ key' = n
  /\ check' = [check EXCEPT ![n] = "idle"]
  /\ BeginUpdate(n)
  /\ UNCHANGED <<active, seen, config, faults, changes, crashes>> /\ UNCHANGED botVars

GrabVacant(n) ==
  /\ check[n] = "grab" /\ Grab(n)
  /\ UNCHANGED <<seen, config, faults, changes, crashes>> /\ UNCHANGED botVars

\* The key is lost 70 seconds after it was set, unless a check renews it in time.
KeyExpires ==
  /\ \/ key = "gone" /\ UNCHANGED faults
     \/ key \in Nodes /\ Fault
  /\ key' = "none"
  /\ UNCHANGED <<active, check, seen, updates, config, changes, crashes>>
  /\ UNCHANGED botVars

\* A redis command fails; the next check tries again.
CommandFails(n) ==
  /\ check[n] \in {"renew", "grab"} /\ Fault
  /\ check' = [check EXCEPT ![n] = "idle"]
  /\ UNCHANGED <<key, active, seen, updates, config, changes, crashes>>
  /\ UNCHANGED botVars
----------------------------------------------------------------------------
(* updateCarrierRegbots *)

\* A run that still has to start bots for the gateways `todo`, if any.
Starting(todo) == IF todo = {} THEN Idle ELSE [pc |-> "start", todo |-> todo]

\* Mutant: the old bots are not stopped.
LookUpKeepsBots(n, s, found) ==
  /\ updates[n][s].pc = "lookup"
  /\ found = config
  /\ seen' = [seen EXCEPT ![n] = found]
  /\ updates' = [updates EXCEPT ![n][s] =
                   Starting(IF found = seen[n] THEN {} ELSE found)]
  /\ UNCHANGED <<key, active, check, config, faults, changes, crashes>> /\ UNCHANGED botVars

\* The database has answered, though perhaps not for every carrier; when anything
\* changed, old bots stop and new ones start.
LookUp(n, s, found) ==
  /\ updates[n][s].pc = "lookup"
  /\ \/ found = config /\ UNCHANGED faults
     \/ found \subseteq config /\ found # config /\ Fault
  /\ IF found = seen[n]
     THEN /\ updates' = [updates EXCEPT ![n][s] = Idle]
          /\ UNCHANGED seen /\ UNCHANGED botVars
     ELSE /\ seen' = [seen EXCEPT ![n] = found]
          /\ StopRegbots(n)
          /\ updates' = [updates EXCEPT ![n][s] = Starting(found)]
  /\ UNCHANGED <<key, active, check, config, changes, crashes>>

\* The list of carriers cannot be read, or the account of a gateway whose bot comes next:
\* bots that were not started are missing from then on, since `seen` is set already.
UpdateFails(n, s) ==
  /\ updates[n][s].pc \in {"lookup", "start"} /\ Fault
  /\ updates' = [updates EXCEPT ![n][s] = Idle]
  /\ UNCHANGED <<key, active, check, seen, config, changes, crashes>>
  /\ UNCHANGED botVars

\* The next bot is created and sends its REGISTER; there may be an await before each.
StartRegbot(n, s, g) ==
  /\ updates[n][s].pc = "start" /\ g \in updates[n][s].todo
  /\ regbots' = [regbots EXCEPT ![n] = @ \cup {g}]
  /\ asking' = [asking EXCEPT ![n] = @ \cup {g}]
  /\ updates' = [updates EXCEPT ![n][s] = Starting(updates[n][s].todo \ {g})]
  /\ UNCHANGED <<key, active, check, seen, stopped, zombies, config, faults, changes, crashes>>
----------------------------------------------------------------------------
(* A registration bot *)

\* Success or failure: either way a timer is set for the next REGISTER.
Response(n, g) ==
  /\ g \in asking[n]
  /\ asking' = [asking EXCEPT ![n] = @ \ {g}]
  /\ UNCHANGED <<key, active, check, seen, updates, regbots, stopped, zombies, config,
                 faults, changes, crashes>>

\* ... also by a bot that was stopped in the meantime.
ResponseAfterStop(n, g) ==
  /\ g \in stopped[n]
  /\ stopped' = [stopped EXCEPT ![n] = @ \ {g}]
  /\ zombies' = [zombies EXCEPT ![n] = @ \cup {g}]
  /\ UNCHANGED <<key, active, check, seen, updates, regbots, asking, config, faults, changes,
                 crashes>>

Register(n, g) ==
  /\ g \in regbots[n] \ asking[n]
  /\ asking' = [asking EXCEPT ![n] = @ \cup {g}]
  /\ UNCHANGED <<key, active, check, seen, updates, regbots, stopped, zombies, config,
                 faults, changes, crashes>>
----------------------------------------------------------------------------
(* The environment *)

\* The administrator changes carriers or gateways.
ConfigChanges ==
  /\ changes < MaxChanges
  /\ changes' = changes + 1
  /\ config' \in (SUBSET Gateways) \ {config}
  /\ UNCHANGED <<key, active, check, seen, updates, faults, crashes>> /\ UNCHANGED botVars

\* The process dies and is restarted by its supervisor.
Crash(n) ==
  /\ crashes < MaxCrashes
  /\ crashes' = crashes + 1
  /\ key' = IF key = n THEN "gone" ELSE key
  /\ active' = [active EXCEPT ![n] = FALSE]
  /\ check' = [check EXCEPT ![n] = "claim"]
  /\ seen' = [seen EXCEPT ![n] = {}]
  /\ updates' = [updates EXCEPT ![n] = [s \in Slots |-> Idle]]
  /\ regbots' = [regbots EXCEPT ![n] = {}]
  /\ asking' = [asking EXCEPT ![n] = {}]
  /\ stopped' = [stopped EXCEPT ![n] = {}]
  /\ zombies' = [zombies EXCEPT ![n] = {}]
  /\ UNCHANGED <<config, faults, changes>>
----------------------------------------------------------------------------
Role(n) == Claim(n) \/ CheckStatus(n) \/ Renew(n) \/ GrabVacant(n) \/ CommandFails(n)

UpdateStep(n) ==
  \E s \in Slots :
    \/ \E found \in SUBSET Gateways : LookUp(n, s, found)
    \/ UpdateFails(n, s)
    \/ \E g \in Gateways : StartRegbot(n, s, g)

Bot(n) ==
  \E g \in Gateways : Response(n, g) \/ ResponseAfterStop(n, g) \/ Register(n, g)

Next ==
  \/ \E n \in Nodes : Role(n) \/ UpdateStep(n) \/ Bot(n) \/ Crash(n)
  \/ KeyExpires \/ ConfigChanges

\* Timers fire, redis and the database answer, an abandoned key expires.
Fairness ==
  /\ \A n \in Nodes : WF_vars(Role(n)) /\ WF_vars(UpdateStep(n))
  /\ WF_vars(key = "gone" /\ KeyExpires)

Spec == Init /\ [][Next]_vars /\ Fairness
----------------------------------------------------------------------------
(* Properties *)

Registers(n) == regbots[n] \cup stopped[n] \cup zombies[n]

\* As long as no check is late, trunks are registered by one instance at a time, the one
\* whose token is in redis: a second one would take over the binding (checkStatus).
OneRegistrar ==
  faults = 0 =>
    \A n \in Nodes : Registers(n) # {} => (key = n /\ \A m \in Nodes \ {n} : Registers(m) = {})

\* As long as no check is late, the role is never taken from a live instance: its token
\* disappears only when it crashes (addKeyNx, and the unconditional addKey of the holder).
RoleIsNotTaken ==
  [][faults' = 0 /\ key' # key => ("none" \in {key, key'} \/ key' = "gone")]_<<key, faults>>

\* The holder, once its updates have ended, runs a bot for each gateway it found: no bot
\* of an earlier configuration is left, none is missing (updateCarrierRegbots).
HoldersBots(n) ==
  (key = n /\ active[n] /\ check[n] = "idle" /\ Quiet(n)) => regbots[n] = seen[n]
HolderRegisters == faults = 0 => \A n \in Nodes : HoldersBots(n)

\* Some instance registers exactly the gateways of the database, again and again as they
\* change and instances crash (checkStatus, updateCarrierRegbots).
Follows == \E n \in Nodes : key = n /\ regbots[n] = config
ConfigIsFollowed ==
  \A c \in SUBSET Gateways : (config = c) ~> (config # c \/ faults > 0 \/ Follows)

\* Whatever faults occur, an instance that lost the role while it was not looking stops
\* its bots ("I need to stand down").
DeposedStops ==
  \A n \in Nodes : (regbots[n] # {} /\ key # n) ~> (regbots[n] = {} \/ key = n)
=============================================================================
