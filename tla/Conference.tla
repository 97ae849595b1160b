----------------------------- MODULE Conference -----------------------------
(***************************************************************************)
(* Callers in one conference                                               *)
(* (jambonz-feature-server/lib/tasks/conference.js and the route           *)
(* http-routes/api/conference.js).                                         *)
(*                                                                         *)
(* The conference itself lives in the FreeSWITCH of one feature server; a  *)
(* record in redis says which, and a set in redis lists who waits for it   *)
(* to start.  Every call to redis, to FreeSWITCH and to another server is  *)
(* awaited, and kill() runs beside an exec() that is still awaiting.       *)
(***************************************************************************)
EXTENDS Naturals, FiniteSets

CONSTANTS
  Starters,  \* callers whose verb may start the conference
  Guests,    \* callers with startConferenceOnEnter false
  Enders,    \* callers with endConferenceOnExit
  Server,    \* the feature server each call arrives at
  Nowhere

Callers == Starters \cup Guests
Servers == {Server[p] : p \in Callers}

ASSUME ConferenceAssumption ==
  /\ Starters \cap Guests = {} /\ Enders \subseteq Callers
  /\ Server \in [Callers -> Servers] /\ Nowhere \notin Servers

VARIABLES
  record,    \* the hash in redis: the server of the conference
  waitlist,  \* the set in redis of those who wait
  inside,    \* the members of the conference in each FreeSWITCH
  pc,        \* where exec() is
  home,      \* the server a call is on
  dest,      \* joinDetails.conferenceSipAddress
  moved,     \* isTransferredCall
  starting,  \* action START
  joined,    \* memberId is set
  todo,      \* the waiting callers a starter has yet to notify
  killed,
  bye,       \* where kill() is
  wiped,     \* history: the record was deleted while others were inside or coming
  uncounted  \* history: somebody left whom no count will miss, or the count failed

vars == <<record, waitlist, inside, pc, home, dest, moved, starting, joined, todo,
          killed, bye, wiped, uncounted>>

placeVars == <<home, dest, moved>>
redisVars == <<record, waitlist, wiped>>
leaveVars == <<killed, bye, uncounted>>

OnTheWay == {"init", "create", "reread", "entering"}

TypeOK ==
  /\ record \in Servers \cup {Nowhere} /\ waitlist \subseteq Callers
  /\ inside \in [Servers -> SUBSET Callers]
  /\ pc \in [Callers -> {"idle", "listing", "listed", "waiting", "moving", "reading",
                         "telling", "in", "done"} \cup OnTheWay]
  /\ home \in [Callers -> Servers] /\ dest \in [Callers -> Servers \cup {Nowhere}]
  /\ moved \subseteq Callers /\ starting \subseteq Callers /\ joined \subseteq Callers
  /\ todo \in [Callers -> SUBSET Callers]
  /\ killed \subseteq Callers
  /\ bye \in [Callers -> {"no", "count", "delete", "kick", "over"}]
  /\ wiped \in BOOLEAN /\ uncounted \in BOOLEAN

Init ==
  /\ record = Nowhere /\ waitlist = {} /\ inside = [s \in Servers |-> {}]
  /\ pc = [p \in Callers |-> "idle"]
  /\ home = Server /\ dest = [p \in Callers |-> Nowhere]
  /\ moved = {} /\ starting = {} /\ joined = {}
  /\ todo = [p \in Callers |-> {}]
  /\ killed = {} /\ bye = [p \in Callers |-> "no"]
  /\ wiped = FALSE /\ uncounted = FALSE

Goto(p, label) == pc' = [pc EXCEPT ![p] = label]

\* exec() has nothing to wait for any more once kill() is through.
Settle(p) == Goto(p, IF bye[p] = "over" THEN "done" ELSE "in")
----------------------------------------------------------------------------
(* exec *)

Arrive(p) ==
  /\ pc[p] = "idle" /\ Goto(p, "init")
  /\ UNCHANGED <<inside, starting, joined, todo>>
  /\ UNCHANGED placeVars /\ UNCHANGED redisVars /\ UNCHANGED leaveVars

\* _doJoin: here, or at the server of the conference, to which a call moves only once.
DoJoin(p, server) ==
  /\ dest' = [dest EXCEPT ![p] = server]
  /\ Goto(p, IF server = home[p] \/ p \in moved THEN "entering" ELSE "moving")

\* _init: is the conference in progress?
Look(p) ==
  /\ pc[p] = "init"
  /\ IF record # Nowhere THEN DoJoin(p, record)
     ELSE Goto(p, IF p \in Guests THEN "listing" ELSE "create") /\ UNCHANGED dest
  /\ UNCHANGED <<home, moved, inside, starting, joined, todo>>
  /\ UNCHANGED redisVars /\ UNCHANGED leaveVars

\* Mutant: a starter who was beaten to it starts the conference all the same.
ProvisionAnyway(p) ==
  /\ pc[p] = "create"
  /\ record' = home[p] /\ Goto(p, "entering") /\ starting' = starting \cup {p}
  /\ UNCHANGED <<waitlist, wiped, inside, joined, todo>>
  /\ UNCHANGED placeVars /\ UNCHANGED leaveVars

\* createHash succeeds for one.
Provision(p) ==
  /\ pc[p] = "create"
  /\ IF record = Nowhere
     THEN record' = home[p] /\ Goto(p, "entering") /\ starting' = starting \cup {p}
     ELSE Goto(p, "reread") /\ UNCHANGED <<record, starting>>
  /\ UNCHANGED <<waitlist, wiped, inside, joined, todo>>
  /\ UNCHANGED placeVars /\ UNCHANGED leaveVars

\* "someone beat me to it?"; the verb fails when the record is gone again.
LookAgain(p) ==
  /\ pc[p] = "reread"
  /\ IF record # Nowhere THEN DoJoin(p, record) ELSE Goto(p, "done") /\ UNCHANGED dest
  /\ UNCHANGED <<home, moved, inside, starting, joined, todo>>
  /\ UNCHANGED redisVars /\ UNCHANGED leaveVars

\* _addToWaitList: redis has him on the list.
Listed(p) ==
  /\ pc[p] = "listing" /\ Goto(p, "listed")
  /\ waitlist' = waitlist \cup {p}
  /\ UNCHANGED <<record, wiped, inside, starting, joined, todo>>
  /\ UNCHANGED placeVars /\ UNCHANGED leaveVars

\* Its answer arrives; only then the listeners are installed, even for one who was killed.
Listens(p) ==
  /\ pc[p] = "listed" /\ Goto(p, "waiting")
  /\ UNCHANGED <<inside, starting, joined, todo>>
  /\ UNCHANGED placeVars /\ UNCHANGED redisVars /\ UNCHANGED leaveVars

\* redis fails, or has him on the list already: "error in conference".
ExecFails(p) ==
  /\ pc[p] \in {"init", "create", "reread", "listing"} /\ Goto(p, "done")
  /\ UNCHANGED <<inside, starting, joined, todo>>
  /\ UNCHANGED placeVars /\ UNCHANGED redisVars /\ UNCHANGED leaveVars

\* The REFER took the call to the other server, which runs the verb from its beginning.
Moved(p) ==
  /\ pc[p] = "moving" /\ p \notin killed /\ Goto(p, "init")
  /\ home' = [home EXCEPT ![p] = dest[p]] /\ moved' = moved \cup {p}
  /\ UNCHANGED <<dest, inside, starting, joined, todo>>
  /\ UNCHANGED redisVars /\ UNCHANGED leaveVars

MoveFails(p) ==
  /\ pc[p] = "moving" /\ Goto(p, "done")
  /\ UNCHANGED <<inside, starting, joined, todo>>
  /\ UNCHANGED placeVars /\ UNCHANGED redisVars /\ UNCHANGED leaveVars

AfterEntering(p) == IF p \in starting THEN Goto(p, "reading") ELSE Settle(p)

\* _joinConference: FreeSWITCH has made him a member.
Entered(p) ==
  /\ pc[p] = "entering"
  /\ inside' = [inside EXCEPT ![home[p]] = @ \cup {p}]
  /\ joined' = joined \cup {p}
  /\ AfterEntering(p)
  /\ UNCHANGED <<starting, todo>>
  /\ UNCHANGED placeVars /\ UNCHANGED redisVars /\ UNCHANGED leaveVars

\* He hung up during the entry prompt.
NotEntered(p) ==
  /\ pc[p] = "entering" /\ p \in killed
  /\ AfterEntering(p)
  /\ UNCHANGED <<inside, starting, joined, todo>>
  /\ UNCHANGED placeVars /\ UNCHANGED redisVars /\ UNCHANGED leaveVars

EnterFails(p) ==
  /\ pc[p] = "entering" /\ Goto(p, "done")
  /\ uncounted' = TRUE
  /\ UNCHANGED <<inside, starting, joined, todo, killed, bye>>
  /\ UNCHANGED placeVars /\ UNCHANGED redisVars
----------------------------------------------------------------------------
(* Notifying those who wait (_doStart) *)

ReadWaitlist(p) ==
  /\ pc[p] = "reading"
  /\ todo' = [todo EXCEPT ![p] = waitlist]
  /\ IF waitlist = {} THEN Settle(p) ELSE Goto(p, "telling")
  /\ UNCHANGED <<inside, starting, joined>>
  /\ UNCHANGED placeVars /\ UNCHANGED redisVars /\ UNCHANGED leaveVars

\* The route finds the verb while it is the current task; the event is heard by the
\* listeners of _doWait only.
Waits(g) == pc[g] = "waiting" /\ g \notin killed


Tell(p, g) ==
  /\ pc[p] = "telling" /\ g \in todo[p]
  /\ todo' = [todo EXCEPT ![p] = @ \ {g}]
  /\ IF Waits(g) THEN DoJoin(g, home[p]) ELSE UNCHANGED <<pc, dest>>
  /\ UNCHANGED <<home, moved, inside, starting, joined>>
  /\ UNCHANGED redisVars /\ UNCHANGED leaveVars

\* "now clear the waiting list"
ClearWaitlist(p) ==
  /\ pc[p] = "telling" /\ todo[p] = {} /\ Settle(p)
  /\ waitlist' = {}
  /\ UNCHANGED <<record, wiped, inside, starting, joined, todo>>
  /\ UNCHANGED placeVars /\ UNCHANGED leaveVars
----------------------------------------------------------------------------
(* kill *)

\* Mutant: somebody who never joined is forgotten by kill().
KillOnlyMembers(p) ==
  /\ pc[p] \notin {"idle", "done"} /\ p \notin killed
  /\ killed' = killed \cup {p}
  /\ bye' = [bye EXCEPT ![p] = IF p \in joined THEN "count" ELSE @]
  /\ waitlist' = IF pc[p] = "waiting" THEN waitlist \ {p} ELSE waitlist
  /\ UNCHANGED pc
  /\ uncounted' = (uncounted \/ (p \notin joined /\ pc[p] \in OnTheWay))
  /\ UNCHANGED <<record, wiped, inside, starting, joined, todo>> /\ UNCHANGED placeVars

\* The caller hangs up or gets another application: who waits leaves the list, a member
\* goes through _doFinalMemberCheck, and whoever never joined is through at once.
Kill(p) ==
  /\ pc[p] \notin {"idle", "done"} /\ p \notin killed
  /\ killed' = killed \cup {p}
  /\ bye' = [bye EXCEPT ![p] = IF p \in joined THEN "count" ELSE "over"]
  /\ waitlist' = IF pc[p] = "waiting" THEN waitlist \ {p} ELSE waitlist
  /\ IF pc[p] = "waiting" THEN Goto(p, "done") ELSE UNCHANGED pc
  /\ uncounted' = (uncounted \/ (p \notin joined /\ pc[p] \in OnTheWay))
  /\ UNCHANGED <<record, wiped, inside, starting, joined, todo>> /\ UNCHANGED placeVars

\* FreeSWITCH has ended the conference under a member (_kicked, _onDelMember); he gets
\* another endpoint and ends his verb.
Dropped(p) ==
  /\ p \in joined \ inside[home[p]] /\ bye[p] = "no"
  /\ killed' = killed \cup {p} /\ bye' = [bye EXCEPT ![p] = "count"]
  /\ UNCHANGED <<uncounted, inside, pc, starting, joined, todo>>
  /\ UNCHANGED placeVars /\ UNCHANGED redisVars

Present(p) == inside[home[p]]

\* Mutant: a member forgets to leave himself out of the count.
CountedWithSelf(p) ==
  /\ bye[p] = "count"
  /\ bye' = [bye EXCEPT ![p] = IF Present(p) = {} \/ p \in Enders THEN "delete" ELSE "kick"]
  /\ uncounted' = (uncounted \/ \E q \in Present(p) \ {p} : q \in killed)
  /\ UNCHANGED <<killed, inside, pc, starting, joined, todo>>
  /\ UNCHANGED placeVars /\ UNCHANGED redisVars

\* _doFinalMemberCheck: the count less oneself, or nothing if there is no conference.
Counted(p) ==
  /\ bye[p] = "count"
  /\ bye' = [bye EXCEPT ![p] = IF Cardinality(Present(p)) <= 1 \/ p \in Enders
                               THEN "delete" ELSE "kick"]
  /\ uncounted' = (uncounted \/ \E q \in Present(p) \ {p} : q \in killed)
  /\ UNCHANGED <<killed, inside, pc, starting, joined, todo>>
  /\ UNCHANGED placeVars /\ UNCHANGED redisVars

\* "error retrieving count (we were probably kicked": the size of the conference as of its
\* last event, whatever that was, decides.
CountFails(p) ==
  /\ bye[p] = "count"
  /\ \E next \in {"delete", "kick"} :
       /\ p \in Enders => next = "delete"
       /\ bye' = [bye EXCEPT ![p] = next]
       /\ uncounted' = (uncounted \/ next = "kick")
  /\ UNCHANGED <<killed, inside, pc, starting, joined, todo>>
  /\ UNCHANGED placeVars /\ UNCHANGED redisVars

\* Who is inside to stay, is coming, or will bring others in.
Coming(q) == pc[q] \in OnTheWay \cup {"moving"} \/ (q \in joined /\ q \notin killed)
Telling(q) == pc[q] \in {"reading", "telling"}

\* The record is deleted, whoever's it is.
Deprovision(p) ==
  /\ bye[p] = "delete"
  /\ record' = Nowhere
  /\ wiped' = (wiped \/ \E q \in Callers : Telling(q) \/ (q # p /\ Coming(q)))
  /\ bye' = [bye EXCEPT ![p] = "kick"]
  /\ UNCHANGED <<waitlist, killed, uncounted, inside, pc, starting, joined, todo>>
  /\ UNCHANGED placeVars

\* "Error deprovisioning conference"
DeprovisionFails(p) ==
  /\ bye[p] = "delete"
  /\ bye' = [bye EXCEPT ![p] = "kick"] /\ uncounted' = TRUE
  /\ UNCHANGED <<killed, inside, pc, starting, joined, todo>>
  /\ UNCHANGED placeVars /\ UNCHANGED redisVars

\* The member is kicked out and exec() may end; with an ender goes the conference.
Leaves(p) == [inside EXCEPT ![home[p]] = IF p \in @ /\ p \in Enders THEN {} ELSE @ \ {p}]

KickedOut(p) ==
  /\ bye[p] = "kick"
  /\ inside' = Leaves(p) /\ bye' = [bye EXCEPT ![p] = "over"]
  /\ IF pc[p] = "in" THEN Goto(p, "done") ELSE UNCHANGED pc
  /\ UNCHANGED <<killed, uncounted, starting, joined, todo>>
  /\ UNCHANGED placeVars /\ UNCHANGED redisVars

\* A member made after kill() leaves when his call ends.
CallEnds(p) ==
  /\ pc[p] = "done" /\ p \in inside[home[p]]
  /\ inside' = Leaves(p)
  /\ UNCHANGED <<pc, starting, joined, todo>>
  /\ UNCHANGED placeVars /\ UNCHANGED redisVars /\ UNCHANGED leaveVars
----------------------------------------------------------------------------
Exec(p) ==
  \/ Look(p) \/ Provision(p) \/ LookAgain(p) \/ Listed(p) \/ Listens(p)
  \/ Moved(p) \/ MoveFails(p)
  \/ Entered(p) \/ NotEntered(p) \/ EnterFails(p)
  \/ ReadWaitlist(p) \/ (\E g \in Callers : Tell(p, g)) \/ ClearWaitlist(p)

Leave(p) == Dropped(p) \/ Counted(p) \/ Deprovision(p) \/ KickedOut(p) \/ CallEnds(p)

RedisFails(p) == ExecFails(p) \/ CountFails(p) \/ DeprovisionFails(p)

Next == \E p \in Callers : Arrive(p) \/ Kill(p) \/ Exec(p) \/ Leave(p) \/ RedisFails(p)

\* Servers, redis and FreeSWITCH answer; no caller has to come or to go.
Fairness == \A p \in Callers : WF_vars(Exec(p)) /\ WF_vars(Leave(p))

Spec == Init /\ [][Next]_vars /\ Fairness
----------------------------------------------------------------------------
(* Properties *)

\* A record has somebody who will remove it: its starter on his way in or a member that
\* was not counted yet ("turn out the lights", _doFinalMemberCheck), as long as nobody
\* leaves uncounted and redis and FreeSWITCH do not fail.
Responsible(p) ==
  \/ pc[p] = "entering" /\ p \in starting
  \/ p \in joined /\ bye[p] \in {"no", "count", "delete"}
RecordIsRemoved == record = Nowhere \/ uncounted \/ \E p \in Callers : Responsible(p)

\* Everybody is in the same room, on the server the record names, until a record is
\* deleted while somebody is inside or coming (_init, _doJoin).
OneRoom ==
  wiped \/ \A s \in Servers : s = record \/ inside[s] \subseteq killed


\* A verb that is killed ends, unless it was still putting itself on the list: its
\* listeners come too late to hear of it (kill, notifyTaskDone).
Deaf(p) == pc[p] = "waiting" /\ p \in killed
KilledVerbEnds == \A p \in Callers : (p \in killed) ~> (pc[p] = "done" \/ Deaf(p))
============================================================================
