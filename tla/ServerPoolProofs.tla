-------------------------- MODULE ServerPoolProofs --------------------------
(***************************************************************************)
(* That every server on the list is watched, for any number of servers,    *)
(* sidecars and pings, whatever crashes and whatever redis fails to do.    *)
(***************************************************************************)
EXTENDS ServerPool, TLAPS

PoolInv == TypeOK /\ ListedIsWatched

SweepRec == [todo : SUBSET Servers, removing : SUBSET Servers]

\* What the properties need of the sidecars' state to keep its type.
SidecarTypes ==
  /\ running \in [Sidecars -> {"down", "reading", "setting", "up"}]
  /\ known \in [Sidecars -> [Servers -> Heard]]
  /\ handling \in [Sidecars -> SUBSET Ping]
  /\ sweep \in [Sidecars -> SweepRec]
  /\ read \in [Sidecars -> SUBSET Servers]

\* Nobody stops watching anybody.
WatchKept == \A t \in Sidecars, g \in Servers : Watches(t, g) => Watches(t, g)'
----------------------------------------------------------------------------
(* The parts of a sidecar's state *)

\* A ping comes from a server.
LEMMA PingFields ==
  ASSUME NEW p \in Ping
  PROVE  p.fs \in Servers
BY DEF Ping

\* A handler keeps the server and the call it awaits.
LEMMA AtFields ==
  ASSUME NEW f \in Servers, NEW call \in {"drained", "check", "add", "remove"}
  PROVE  At(f, call) \in Ping /\ At(f, call).fs = f /\ At(f, call).at = call
BY DEF Ping, At

\* A handler that goes on disturbs no other, of this sidecar or of another.
LEMMA HandlesFields ==
  ASSUME NEW s \in Sidecars, NEW old, NEW new \in SUBSET Ping,
         handling \in [Sidecars -> SUBSET Ping], Handles(s, old, new)
  PROVE  /\ handling' \in [Sidecars -> SUBSET Ping]
         /\ handling'[s] = (handling[s] \ old) \cup new
         /\ \A t \in Sidecars \ {s} : handling'[t] = handling[t]
BY DEF Handles

\* One entry of one map changes.
LEMMA KnowFields ==
  ASSUME NEW s \in Sidecars, NEW f \in Servers, NEW when \in Heard,
         known \in [Sidecars -> [Servers -> Heard]], Know(s, f, when)
  PROVE  /\ known' \in [Sidecars -> [Servers -> Heard]]
         /\ known'[s][f] = when
         /\ \A t \in Sidecars, g \in Servers : t # s \/ g # f => known'[t][g] = known[t][g]
<1> DEFINE mine == [known[s] EXCEPT ![f] = when]
<1>1. mine \in [Servers -> Heard] /\ mine[f] = when /\ \A g \in Servers \ {f} : mine[g] = known[s][g]
  OBVIOUS
<1>2. known' = [known EXCEPT ![s] = mine]
  BY DEF Know
<1> HIDE DEF mine
<1> QED
  BY <1>1, <1>2

\* One sweep goes on.
LEMMA SweepsFields ==
  ASSUME NEW s \in Sidecars, NEW todo \in SUBSET Servers, NEW removing \in SUBSET Servers,
         sweep \in [Sidecars -> SweepRec], Sweeps(s, todo, removing)
  PROVE  /\ sweep' \in [Sidecars -> SweepRec]
         /\ sweep'[s].todo = todo /\ sweep'[s].removing = removing
         /\ \A t \in Sidecars \ {s} : sweep'[t] = sweep[t]
BY DEF Sweeps, SweepRec

\* Types are the servers', the sidecars' and those of what they share.
LEMMA TypesSplit == TypeOK => SidecarTypes
BY DEF TypeOK, SidecarTypes, SweepRec

LEMMA TypesJoin ==
  ASSUME TypeOK, SidecarTypes', UNCHANGED <<life, scaleIn, told, calls>>,
         ping' \in [Servers \X Sidecars -> {"none", "open", "closed"}],
         drained' \subseteq Servers, active' \subseteq Servers, stranded' \subseteq Servers,
         faults' \in 0..MaxFaults
  PROVE  TypeOK'
BY DEF TypeOK, SidecarTypes, SweepRec

\* The list is watched still when nobody stops watching and every server put on it, or no
\* longer counted as stranded, is watched.
LEMMA ListedKept ==
  ASSUME TypeOK, ListedIsWatched, WatchKept, active' \subseteq Servers,
         \A g \in active' \ stranded' :
           g \in active \ stranded \/ \E t \in Sidecars : Watches(t, g)'
  PROVE  ListedIsWatched'
BY DEF ListedIsWatched, WatchKept
----------------------------------------------------------------------------
(* The feature servers *)

\* Nothing a server does, nor its calls or the operator, changes its types, the sidecars or
\* whom they watch.
LEMMA ServerStep ==
  ASSUME PoolInv, NEW f \in Servers, Server(f)
  PROVE  PoolInv'
<1> USE ServerPoolAssumption DEF ServerPoolAssumption
<1>1. TypeOK /\ ListedIsWatched
  BY DEF PoolInv
<1>2. TypeOK'
  <2>1. CASE Start(f)
    BY <1>1, <2>1 DEF TypeOK, Start, PingAll, sidecarVars
  <2>2. CASE PingAgain(f)
    BY <1>1, <2>2 DEF TypeOK, PingAgain, PingAll, sidecarVars
  <2>3. CASE StandbyEnter(f)
    BY <1>1, <2>3 DEF TypeOK, StandbyEnter, PingAll, sidecarVars
  <2>4. CASE StandbyExit(f)
    BY <1>1, <2>4 DEF TypeOK, StandbyExit, PingAll, sidecarVars
  <2>5. CASE ScaleIn(f)
    BY <1>1, <2>5 DEF TypeOK, ScaleIn, PingAll, sidecarVars
  <2>6. CASE ScaleInCheck(f)
    BY <1>1, <2>6 DEF TypeOK, ScaleInCheck, sidecarVars
  <2>7. CASE CallArrives(f)
    BY <1>1, <2>7 DEF TypeOK, CallArrives, sidecarVars
  <2>8. CASE CallEnds(f)
    BY <1>1, <2>8 DEF TypeOK, CallEnds, sidecarVars
  <2>9. CASE Crash(f)
    BY <1>1, <2>9 DEF TypeOK, Crash, sidecarVars
  <2>10. CASE Drain(f)
    BY <1>1, <2>10 DEF TypeOK, Drain, sidecarVars, serverVars
  <2> QED
    BY <2>1, <2>2, <2>3, <2>4, <2>5, <2>6, <2>7, <2>8, <2>9, <2>10 DEF Server
<1>3. UNCHANGED sidecarVars /\ UNCHANGED stranded /\ active' \subseteq active
  BY DEF Server, Start, PingAgain, StandbyEnter, StandbyExit, ScaleIn, ScaleInCheck,
    CallArrives, CallEnds, Crash, Drain
<1>4. WatchKept
  BY <1>3 DEF WatchKept, Watches, sidecarVars
<1>5. ListedIsWatched'
  BY <1>1, <1>3, <1>4, ListedKept DEF TypeOK
<1> QED
  BY <1>2, <1>5 DEF PoolInv
----------------------------------------------------------------------------
(* The sidecars *)

\* A server that pings that it is closed is watched until it is removed.
LEMMA ClosedStep ==
  ASSUME SidecarTypes, NEW s \in Sidecars, NEW p \in Ping, p.at = "drained",
         CacheClosed(s, p), UNCHANGED <<running, sweep, read>>
  PROVE  SidecarTypes' /\ WatchKept
<1>1. p.fs \in Servers
  BY PingFields
<1>2. At(p.fs, "remove") \in Ping /\ At(p.fs, "remove").fs = p.fs /\ At(p.fs, "remove").at = "remove"
  BY <1>1, AtFields
<1>3. /\ handling' \in [Sidecars -> SUBSET Ping]
      /\ handling'[s] = (handling[s] \ {p}) \cup {At(p.fs, "remove")}
      /\ \A t \in Sidecars \ {s} : handling'[t] = handling[t]
  BY <1>2, HandlesFields DEF CacheClosed, SidecarTypes
<1>4. /\ known' \in [Sidecars -> [Servers -> Heard]]
      /\ \A t \in Sidecars, g \in Servers :
           t # s \/ g # p.fs => known'[t][g] = known[t][g]
  BY <1>1, KnowFields DEF CacheClosed, SidecarTypes, Heard
<1>5. WatchKept
  BY <1>2, <1>3, <1>4 DEF WatchKept, Watches
<1> QED
  BY <1>3, <1>4, <1>5 DEF SidecarTypes

\* A handler that does not await a removal may go on to any other call.
LEMMA HandlerStep ==
  ASSUME SidecarTypes, NEW s \in Sidecars, NEW p \in Ping, p.at # "remove",
         NEW new \in SUBSET Ping, Handles(s, {p}, new),
         UNCHANGED <<running, known, sweep, read>>
  PROVE  SidecarTypes' /\ WatchKept
<1>1. /\ handling' \in [Sidecars -> SUBSET Ping]
      /\ handling'[s] = (handling[s] \ {p}) \cup new
      /\ \A t \in Sidecars \ {s} : handling'[t] = handling[t]
  BY HandlesFields DEF SidecarTypes
<1>2. WatchKept
  BY <1>1 DEF WatchKept, Watches
<1> QED
  BY <1>1, <1>2 DEF SidecarTypes

\* Whoever was not on the list, or is stranded, need not be watched any more when the
\* handler of its removal ends.
LEMMA RemovalStep ==
  ASSUME SidecarTypes, NEW s \in Sidecars, NEW p \in Ping, Handles(s, {p}, {}),
         UNCHANGED <<running, known, sweep, read>>
  PROVE  /\ SidecarTypes'
         /\ \A t \in Sidecars, g \in Servers \ {p.fs} : Watches(t, g) => Watches(t, g)'
<1>1. /\ handling' \in [Sidecars -> SUBSET Ping]
      /\ handling'[s] = (handling[s] \ {p}) \cup {}
      /\ \A t \in Sidecars \ {s} : handling'[t] = handling[t]
  BY HandlesFields DEF SidecarTypes
<1>2. \A t \in Sidecars, g \in Servers \ {p.fs} : Watches(t, g) => Watches(t, g)'
  BY <1>1 DEF Watches
<1> QED
  BY <1>1, <1>2 DEF SidecarTypes

\* Whatever redis answers to a handler.
LEMMA HandlingStep ==
  ASSUME PoolInv, NEW s \in Sidecars, NEW p \in handling[s],
         \/ DrainChecked(s, p) \/ MemberChecked(s, p) \/ Added(s, p) \/ Removed(s, p)
         \/ Unanswered(s, p)
  PROVE  PoolInv'
<1>1. TypeOK /\ ListedIsWatched /\ SidecarTypes
  BY TypesSplit DEF PoolInv
<1>2. p \in Ping /\ p.fs \in Servers
  BY <1>1, PingFields DEF SidecarTypes
<1>3. UNCHANGED serverVars /\ drained' = drained /\ active' \subseteq Servers
      /\ stranded' \subseteq Servers /\ faults' \in 0..MaxFaults
  BY <1>1, <1>2, ServerPoolAssumption
    DEF TypeOK, DrainChecked, MemberChecked, Added, Removed, Unanswered, Unwatched,
      ServerPoolAssumption
<1>4. SidecarTypes' => TypeOK'
  BY <1>1, <1>3, TypesJoin DEF TypeOK, serverVars
<1>5. CASE DrainChecked(s, p)
  <2>1. CASE p.fs \in drained
    <3>1. SidecarTypes' /\ WatchKept
      BY <1>1, <1>2, <1>5, <2>1, ClosedStep DEF DrainChecked
    <3>2. ListedIsWatched'
      BY <1>1, <1>3, <1>5, <2>1, <3>1, ListedKept DEF DrainChecked
    <3> QED
      BY <1>4, <3>1, <3>2 DEF PoolInv
  <2>2. CASE p.fs \notin drained
    <3>1. Know(s, p.fs, "fresh") /\ Handles(s, {p}, {At(p.fs, "check")})
      BY <1>5, <2>2 DEF DrainChecked, CacheOpen
    <3>2. At(p.fs, "check") \in Ping
      BY <1>2, AtFields
    <3>3. /\ handling' \in [Sidecars -> SUBSET Ping]
          /\ handling'[s] = (handling[s] \ {p}) \cup {At(p.fs, "check")}
          /\ \A t \in Sidecars \ {s} : handling'[t] = handling[t]
      BY <1>1, <3>1, <3>2, HandlesFields DEF SidecarTypes
    <3>4. /\ known' \in [Sidecars -> [Servers -> Heard]] /\ known'[s][p.fs] = "fresh"
          /\ \A t \in Sidecars, g \in Servers :
               t # s \/ g # p.fs => known'[t][g] = known[t][g]
      BY <1>1, <1>2, <3>1, KnowFields DEF SidecarTypes, Heard
    <3>5. SidecarTypes'
      BY <1>1, <1>5, <3>3, <3>4 DEF DrainChecked, SidecarTypes
    <3>6. WatchKept
      BY <1>5, <3>3, <3>4 DEF DrainChecked, WatchKept, Watches
    <3>7. Watches(s, p.fs)'
      BY <3>4 DEF Watches
    <3>8. ListedIsWatched'
      BY <1>1, <1>3, <1>5, <2>2, <3>6, <3>7, ListedKept DEF DrainChecked
    <3> QED
      BY <1>4, <3>5, <3>8 DEF PoolInv
  <2> QED
    BY <2>1, <2>2
<1>6. CASE MemberChecked(s, p)
  <2>1. At(p.fs, "add") \in Ping
    BY <1>2, AtFields
  <2>2. SidecarTypes' /\ WatchKept
    <3>1. CASE p.fs \in active
      BY <1>1, <1>2, <1>6, <3>1, HandlerStep DEF MemberChecked
    <3>2. CASE p.fs \notin active
      BY <1>1, <1>2, <1>6, <2>1, <3>2, HandlerStep DEF MemberChecked
    <3> QED
      BY <3>1, <3>2
  <2>3. ListedIsWatched'
    BY <1>1, <1>3, <1>6, <2>2, ListedKept DEF MemberChecked
  <2> QED
    BY <1>4, <2>2, <2>3 DEF PoolInv
<1>7. CASE Added(s, p)
  <2>1. SidecarTypes' /\ WatchKept
    BY <1>1, <1>2, <1>7, HandlerStep DEF Added
  <2>2. known[s][p.fs] # "none" => Watches(s, p.fs)'
    BY <1>7 DEF Added, Watches
  <2>3. ListedIsWatched'
    BY <1>1, <1>2, <1>3, <1>7, <2>1, <2>2, ListedKept DEF Added, Unwatched
  <2> QED
    BY <1>4, <2>1, <2>3 DEF PoolInv
<1>8. CASE Removed(s, p)
  <2>1. SidecarTypes' /\ \A t \in Sidecars, g \in Servers \ {p.fs} : Watches(t, g) => Watches(t, g)'
    BY <1>1, <1>2, <1>8, RemovalStep DEF Removed
  <2>2. ListedIsWatched'
    BY <1>1, <1>3, <1>8, <2>1 DEF Removed, ListedIsWatched
  <2> QED
    BY <1>4, <2>1, <2>2 DEF PoolInv
<1>9. CASE Unanswered(s, p)
  <2>1. CASE p.at = "remove"
    <3>1. SidecarTypes' /\ \A t \in Sidecars, g \in Servers \ {p.fs} : Watches(t, g) => Watches(t, g)'
      BY <1>1, <1>2, <1>9, RemovalStep DEF Unanswered
    <3>2. known[s][p.fs] # "none" => Watches(s, p.fs)'
      BY <1>9 DEF Unanswered, Watches
    <3>3. active' = active /\ stranded \subseteq stranded'
          /\ (p.fs \notin stranded' => Watches(s, p.fs)')
      BY <1>2, <1>9, <2>1, <3>2 DEF Unanswered, Unwatched
    <3>4. ListedIsWatched'
      BY <1>1, <3>1, <3>3 DEF ListedIsWatched, TypeOK
    <3> QED
      BY <1>4, <3>1, <3>4 DEF PoolInv
  <2>2. CASE p.at # "remove"
    <3>1. SidecarTypes' /\ WatchKept
      BY <1>1, <1>2, <1>9, <2>2, HandlerStep DEF Unanswered
    <3>2. ListedIsWatched'
      BY <1>1, <1>3, <1>9, <2>2, <3>1, ListedKept DEF Unanswered
    <3> QED
      BY <1>4, <3>1, <3>2 DEF PoolInv
  <2> QED
    BY <2>1, <2>2
<1> QED
  BY <1>5, <1>6, <1>7, <1>8, <1>9

\* A ping arrives, gets lost, or comes no more.
LEMMA PingStep ==
  ASSUME PoolInv, NEW s \in Sidecars, NEW f \in Servers,
         Receive(s, f) \/ Lost(s, f) \/ Age(s, f)
  PROVE  PoolInv'
<1>1. TypeOK /\ ListedIsWatched /\ SidecarTypes
  BY TypesSplit DEF PoolInv
<1>2. UNCHANGED <<life, scaleIn, told, calls, drained, active, stranded, faults>>
  BY DEF Receive, Lost, Age, sidecarVars, serverVars
<1>3. ping' \in [Servers \X Sidecars -> {"none", "open", "closed"}]
  BY <1>1 DEF TypeOK, Receive, Lost, Age, serverVars
<1>4. SidecarTypes' => TypeOK'
  BY <1>1, <1>2, <1>3, TypesJoin DEF TypeOK
<1>5. SidecarTypes' /\ WatchKept
  <2>1. CASE Receive(s, f)
    <3>1. At(f, "drained") \in Ping /\ At(f, "drained").fs = f /\ At(f, "drained").at = "drained"
      BY AtFields
    <3>2. CASE ping[<<f, s>>] = "open"
      <4>1. /\ handling' \in [Sidecars -> SUBSET Ping]
            /\ handling'[s] = (handling[s] \ {}) \cup {At(f, "drained")}
            /\ \A t \in Sidecars \ {s} : handling'[t] = handling[t]
        BY <1>1, <2>1, <3>1, <3>2, HandlesFields DEF Receive, SidecarTypes
      <4>2. UNCHANGED <<running, known, sweep, read>>
        BY <2>1, <3>2 DEF Receive
      <4> QED
        BY <1>1, <4>1, <4>2 DEF SidecarTypes, WatchKept, Watches
    <3>3. CASE ping[<<f, s>>] # "open"
      BY <1>1, <2>1, <3>1, <3>3, ClosedStep DEF Receive
    <3> QED
      BY <3>2, <3>3
  <2>2. CASE Lost(s, f)
    BY <1>1, <2>2 DEF Lost, sidecarVars, SidecarTypes, WatchKept, Watches
  <2>3. CASE Age(s, f)
    <3>1. /\ known' \in [Sidecars -> [Servers -> Heard]] /\ known'[s][f] = "old"
          /\ \A t \in Sidecars, g \in Servers : t # s \/ g # f => known'[t][g] = known[t][g]
      BY <1>1, <2>3, KnowFields DEF Age, SidecarTypes, Heard
    <3> QED
      BY <1>1, <2>3, <3>1 DEF Age, SidecarTypes, WatchKept, Watches
  <2> QED
    BY <2>1, <2>2, <2>3
<1>6. ListedIsWatched'
  BY <1>1, <1>2, <1>5, ListedKept DEF TypeOK
<1> QED
  BY <1>4, <1>5, <1>6 DEF PoolInv

\* The expiry sweep: who is off the map is watched until he is off the list.
LEMMA WatchStep ==
  ASSUME PoolInv, NEW s \in Sidecars, Watch(s)
  PROVE  PoolInv'
<1>1. TypeOK /\ ListedIsWatched /\ SidecarTypes
  BY TypesSplit DEF PoolInv
<1>2. UNCHANGED serverVars /\ UNCHANGED <<drained, stranded, faults>> /\ active' \subseteq active
  BY DEF Watch, SweepStart, Expire, Expired
<1>3. SidecarTypes' => TypeOK'
  BY <1>1, <1>2, TypesJoin DEF TypeOK, serverVars
<1>4. sweep[s].todo \in SUBSET Servers /\ sweep[s].removing \in SUBSET Servers
  BY <1>1 DEF SidecarTypes, SweepRec
<1>5. CASE SweepStart(s)
  <2>1. PICK old \in SUBSET Servers : Sweeps(s, old, {})
    BY <1>5 DEF SweepStart
  <2>2. /\ sweep' \in [Sidecars -> SweepRec]
        /\ \A t \in Sidecars \ {s} : sweep'[t] = sweep[t]
    BY <1>1, <2>1, SweepsFields DEF SidecarTypes
  <2>3. sweep[s].removing = {}
    BY <1>5 DEF SweepStart, Idle
  <2>4. WatchKept
    BY <1>5, <2>2, <2>3 DEF SweepStart, WatchKept, Watches
  <2>5. SidecarTypes'
    BY <1>1, <1>5, <2>2 DEF SweepStart, SidecarTypes
  <2> QED
    BY <1>1, <1>2, <1>3, <2>4, <2>5, ListedKept DEF PoolInv, TypeOK
<1>6. ASSUME NEW f \in Servers, Expire(s, f) PROVE PoolInv'
  <2>1. CASE known[s][f] = "old"
    <3>1. /\ sweep' \in [Sidecars -> SweepRec] /\ sweep'[s].removing = {f}
          /\ \A t \in Sidecars \ {s} : sweep'[t] = sweep[t]
      <4>1. Sweeps(s, sweep[s].todo \ {f}, {f})
        BY <1>6, <2>1 DEF Expire
      <4>2. sweep[s].todo \ {f} \in SUBSET Servers /\ {f} \in SUBSET Servers
        BY <1>4
      <4> QED
        BY <1>1, <4>1, <4>2, SweepsFields DEF SidecarTypes
    <3>2. /\ known' \in [Sidecars -> [Servers -> Heard]]
          /\ \A t \in Sidecars, g \in Servers : t # s \/ g # f => known'[t][g] = known[t][g]
      BY <1>1, <1>6, <2>1, KnowFields DEF Expire, SidecarTypes, Heard
    <3>3. WatchKept
      BY <1>6, <3>1, <3>2 DEF Expire, WatchKept, Watches
    <3>4. SidecarTypes'
      BY <1>1, <1>6, <3>1, <3>2 DEF Expire, SidecarTypes
    <3> QED
      BY <1>1, <1>2, <1>3, <3>3, <3>4, ListedKept DEF PoolInv, TypeOK
  <2>2. CASE known[s][f] # "old"
    <3>1. /\ sweep' \in [Sidecars -> SweepRec] /\ sweep'[s].removing = {}
          /\ \A t \in Sidecars \ {s} : sweep'[t] = sweep[t]
      <4>1. Sweeps(s, sweep[s].todo \ {f}, {})
        BY <1>6, <2>2 DEF Expire
      <4>2. sweep[s].todo \ {f} \in SUBSET Servers /\ {} \in SUBSET Servers
        BY <1>4
      <4> QED
        BY <1>1, <4>1, <4>2, SweepsFields DEF SidecarTypes
    <3>2. WatchKept
      BY <1>6, <2>2, <3>1 DEF Expire, WatchKept, Watches
    <3>3. SidecarTypes'
      BY <1>1, <1>6, <2>2, <3>1 DEF Expire, SidecarTypes
    <3> QED
      BY <1>1, <1>2, <1>3, <3>2, <3>3, ListedKept DEF PoolInv, TypeOK
  <2> QED
    BY <2>1, <2>2
<1>7. CASE Expired(s)
  <2>1. /\ sweep' \in [Sidecars -> SweepRec]
        /\ \A t \in Sidecars \ {s} : sweep'[t] = sweep[t]
    <3>1. Sweeps(s, sweep[s].todo, {}) /\ {} \in SUBSET Servers
      BY <1>7 DEF Expired
    <3> QED
      BY <1>1, <1>4, <3>1, SweepsFields DEF SidecarTypes
  <2>2. \A t \in Sidecars, g \in Servers \ sweep[s].removing : Watches(t, g) => Watches(t, g)'
    BY <1>7, <2>1 DEF Expired, Watches
  <2>3. ListedIsWatched'
    BY <1>1, <1>7, <2>2 DEF Expired, ListedIsWatched, TypeOK
  <2>4. SidecarTypes'
    BY <1>1, <1>7, <2>1 DEF Expired, SidecarTypes
  <2> QED
    BY <1>3, <2>3, <2>4 DEF PoolInv
<1> QED
  BY <1>5, <1>6, <1>7 DEF Watch

\* A sidecar crashes, starts and loads the list: it counts as watching until it has.
LEMMA LoadStep ==
  ASSUME PoolInv, NEW s \in Sidecars, Load(s) \/ SidecarCrash(s)
  PROVE  PoolInv'
<1>1. TypeOK /\ ListedIsWatched /\ SidecarTypes
  BY TypesSplit DEF PoolInv
<1>2. UNCHANGED serverVars /\ UNCHANGED <<drained, active>> /\ stranded' \subseteq stranded
  BY DEF Load, SidecarStart, InitRead, InitSet, SidecarCrash
<1>3. faults' \in 0..MaxFaults
  BY <1>1, ServerPoolAssumption
    DEF TypeOK, Load, SidecarStart, InitRead, InitSet, SidecarCrash, ServerPoolAssumption
<1>4. SidecarTypes' => TypeOK'
  BY <1>1, <1>2, <1>3, TypesJoin DEF TypeOK, serverVars
<1>5. CASE SidecarStart(s)
  <2>1. SidecarTypes' /\ WatchKept
    BY <1>1, <1>5 DEF SidecarStart, SidecarTypes, WatchKept, Watches
  <2>2. stranded' = stranded
    BY <1>5 DEF SidecarStart
  <2> QED
    BY <1>1, <1>2, <1>4, <2>1, <2>2, ListedKept DEF PoolInv, TypeOK
<1>6. CASE InitRead(s)
  <2>1. SidecarTypes'
    BY <1>1, <1>6 DEF InitRead, SidecarTypes, TypeOK
  <2>2. read'[s] = active /\ running'[s] = "setting" /\ UNCHANGED <<known, handling, sweep>>
        /\ \A t \in Sidecars \ {s} : read'[t] = read[t] /\ running'[t] = running[t]
    BY <1>1, <1>6 DEF InitRead, SidecarTypes
  <2>3. \A t \in Sidecars, g \in active : Watches(t, g) => Watches(t, g)'
    BY <2>2 DEF Watches
  <2>4. ListedIsWatched'
    BY <1>1, <1>2, <1>6, <2>3 DEF ListedIsWatched, InitRead
  <2> QED
    BY <1>4, <2>1, <2>4 DEF PoolInv
<1>7. CASE InitSet(s)
  <2> DEFINE mine == [f \in Servers |-> IF f \in read[s] THEN "fresh" ELSE known[s][f]]
  <2>1. known' = [known EXCEPT ![s] = mine]
    BY <1>1, <1>7 DEF InitSet, SidecarTypes
  <2>2. mine \in [Servers -> Heard]
    BY <1>1 DEF SidecarTypes, Heard
  <2>3. \A g \in Servers : (g \in read[s] \/ known[s][g] # "none") => mine[g] # "none"
    OBVIOUS
  <2> HIDE DEF mine
  <2>4. /\ known' \in [Sidecars -> [Servers -> Heard]] /\ known'[s] = mine
        /\ \A t \in Sidecars \ {s} : known'[t] = known[t]
    BY <1>1, <2>1, <2>2 DEF SidecarTypes
  <2>5. SidecarTypes'
    BY <1>1, <1>7, <2>4 DEF InitSet, SidecarTypes
  <2>6. running[s] = "setting" /\ UNCHANGED <<handling, sweep>>
        /\ \A t \in Sidecars \ {s} : read'[t] = read[t] /\ running'[t] = running[t]
    BY <1>1, <1>7 DEF InitSet, SidecarTypes
  <2>7. WatchKept
    BY <2>3, <2>4, <2>6 DEF WatchKept, Watches
  <2>8. \A g \in active' \ stranded' : g \in active \ stranded \/ Watches(s, g)'
    BY <1>1, <1>2, <1>7, <2>3, <2>4 DEF InitSet, Watches, TypeOK
  <2> QED
    BY <1>1, <1>2, <1>4, <2>5, <2>7, <2>8, ListedKept DEF PoolInv, TypeOK
<1>8. CASE SidecarCrash(s)
  <2>1. SidecarTypes'
    BY <1>1, <1>8 DEF SidecarCrash, SidecarTypes, Forgetful, Heard, Idle, SweepRec
  <2>2. running'[s] = "down"
        /\ \A t \in Sidecars \ {s} :
             /\ running'[t] = running[t] /\ known'[t] = known[t] /\ handling'[t] = handling[t]
             /\ sweep'[t] = sweep[t] /\ read'[t] = read[t]
    BY <1>1, <1>8 DEF SidecarCrash, SidecarTypes
  <2>3. WatchKept
    BY <2>2 DEF WatchKept, Watches
  <2>4. stranded' = stranded
    BY <1>8 DEF SidecarCrash
  <2> QED
    BY <1>1, <1>2, <1>4, <2>1, <2>3, <2>4, ListedKept DEF PoolInv, TypeOK
<1> QED
  BY <1>5, <1>6, <1>7, <1>8 DEF Load

\* When redis fails to remove somebody who was off the map, or to hand out the list, who is
\* not on the map of this sidecar is stranded.
LEMMA FailStep ==
  ASSUME PoolInv, NEW s \in Sidecars, Fails(s)
  PROVE  PoolInv'
<1>1. TypeOK /\ ListedIsWatched /\ SidecarTypes
  BY TypesSplit DEF PoolInv
<1>2. UNCHANGED serverVars /\ UNCHANGED <<drained, known, handling>> /\ active' \subseteq active
      /\ stranded \subseteq stranded'
  BY DEF Fails, ExpireFails, InitFails
<1>3. sweep[s].removing \in SUBSET Servers
  BY <1>1 DEF SidecarTypes, SweepRec
<1>4. stranded' \subseteq Servers /\ faults' \in 0..MaxFaults
  BY <1>1, <1>3, ServerPoolAssumption
    DEF TypeOK, Fails, ExpireFails, InitFails, Unwatched, ServerPoolAssumption
<1>5. SidecarTypes' => TypeOK'
  BY <1>1, <1>2, <1>4, TypesJoin DEF TypeOK, serverVars
<1>6. CASE ExpireFails(s)
  <2>1. /\ sweep' \in [Sidecars -> SweepRec]
        /\ \A t \in Sidecars \ {s} : sweep'[t] = sweep[t]
    <3>1. Sweeps(s, {}, {}) /\ {} \in SUBSET Servers
      BY <1>6 DEF ExpireFails
    <3> QED
      BY <1>1, <3>1, SweepsFields DEF SidecarTypes
  <2>2. \A t \in Sidecars, g \in Servers \ sweep[s].removing : Watches(t, g) => Watches(t, g)'
    BY <1>6, <2>1 DEF ExpireFails, Watches
  <2>3. \A g \in sweep[s].removing : known[s][g] # "none" => Watches(s, g)'
    BY <1>6 DEF ExpireFails, Watches
  <2>4. ListedIsWatched'
    BY <1>1, <1>3, <1>6, <2>2, <2>3 DEF ExpireFails, Unwatched, ListedIsWatched, TypeOK
  <2>5. SidecarTypes'
    BY <1>1, <1>6, <2>1 DEF ExpireFails, SidecarTypes
  <2> QED
    BY <1>5, <2>4, <2>5 DEF PoolInv
<1>7. CASE InitFails(s)
  <2>1. SidecarTypes'
    BY <1>1, <1>7 DEF InitFails, SidecarTypes
  <2>2. UNCHANGED sweep /\ \A t \in Sidecars \ {s} : read'[t] = read[t] /\ running'[t] = running[t]
    BY <1>1, <1>7 DEF InitFails, SidecarTypes
  <2>3. \A t \in Sidecars \ {s}, g \in Servers : Watches(t, g) => Watches(t, g)'
    BY <1>2, <2>2 DEF Watches
  <2>4. \A g \in Servers : known[s][g] # "none" => Watches(s, g)'
    BY <1>2 DEF Watches
  <2>5. ListedIsWatched'
    BY <1>1, <1>7, <2>3, <2>4 DEF InitFails, Unwatched, ListedIsWatched, TypeOK
  <2> QED
    BY <1>5, <2>1, <2>5 DEF PoolInv
<1> QED
  BY <1>6, <1>7 DEF Fails
----------------------------------------------------------------------------
\* Whatever servers, sidecars and redis do next, the types and the watch are kept.
LEMMA Steps == PoolInv /\ [Next]_vars => PoolInv'
<1> SUFFICES ASSUME PoolInv, [Next]_vars PROVE PoolInv'
  OBVIOUS
<1>1. ASSUME NEW f \in Servers, Server(f) PROVE PoolInv'
  BY <1>1, ServerStep
<1>2. ASSUME NEW s \in Sidecars, Sidecar(s) PROVE PoolInv'
  BY <1>2, HandlingStep, PingStep, WatchStep, LoadStep, FailStep DEF Sidecar, Check, Look, Write
<1>3. CASE UNCHANGED vars
  BY <1>3 DEF vars, serverVars, sidecarVars, setVars, PoolInv, TypeOK, ListedIsWatched, Watches
<1> QED
  BY <1>1, <1>2, <1>3 DEF Next

\* No server is up and nobody is on the list at first.
LEMMA Initially == Init => PoolInv
BY ServerPoolAssumption DEF Init, PoolInv, TypeOK, ListedIsWatched, Forgetful, Idle, Heard,
  ServerPoolAssumption

\* The types and the watch hold in every state.
THEOREM Invariance == Spec => []PoolInv
BY Initially, Steps, PTL DEF Spec

\* TypeOK for any servers, sidecars and bounds.
THEOREM PoolTypes == Spec => []TypeOK
<1>1. PoolInv => TypeOK
  BY DEF PoolInv
<1> QED
  BY <1>1, Invariance, PTL

\* Every server that calls are sent to is watched by some sidecar, across lost pings,
\* expiry, restarts and failures of redis, unless it was stranded: added after its entry was
\* deleted, or not removed or not handed out by redis (options.js: _addToCache, _init, the
\* expiry interval).
THEOREM ListedSafe == Spec => []ListedIsWatched
<1>1. PoolInv => ListedIsWatched
  BY DEF PoolInv
<1> QED
  BY <1>1, Invariance, PTL
============================================================================
