-------------------------- MODULE ConferenceProofs --------------------------
(***************************************************************************)
(* Safety of Conference for any callers and servers: a record has somebody *)
(* who will remove it, everybody is in the same room, and a verb that was  *)
(* killed is on its way out.                                               *)
(***************************************************************************)
EXTENDS Conference, FiniteSetTheorems, TLAPS

\* Members have joined; nobody has before FreeSWITCH made him a member.
JoinedInv ==
  /\ \A s \in Servers : inside[s] \subseteq joined
  /\ \A p \in joined : pc[p] \in {"reading", "telling", "in", "done"}

\* Who has not called yet, and who is about to move.
PlaceInv ==
  \A p \in Callers :
    /\ pc[p] = "idle" => p \notin killed \cup moved
    /\ pc[p] = "moving" => dest[p] \in Servers

\* kill() is under way for those who were killed, and counts only those who joined; who
\* was killed on the way in is not counted.
ByeInv ==
  \A p \in Callers :
    /\ bye[p] # "no" => p \in killed
    /\ bye[p] \in {"count", "delete", "kick"} => p \in joined
    /\ p \in killed /\ pc[p] \in OnTheWay => uncounted

\* Until a record is deleted too early, whoever comes goes where it says, and whoever moved
\* or brings others in is there.
RoomInv ==
  ~wiped => \A p \in Callers :
    /\ pc[p] = "moving" => dest[p] = record
    /\ pc[p] \in {"entering", "reading", "telling"} => home[p] = record
    /\ p \in moved => pc[p] \notin {"create", "listing", "listed", "waiting"}
    /\ p \in moved /\ pc[p] \in {"init", "reread"} => home[p] = record

ConferenceInv ==
  /\ TypeOK /\ JoinedInv /\ PlaceInv /\ ByeInv /\ RoomInv /\ RecordIsRemoved /\ OneRoom
----------------------------------------------------------------------------
(* The inductive invariant *)

\* Where the count is above one there is somebody else (_doFinalMemberCheck).
LEMMA Company ==
  ASSUME NEW S, NEW p, ~(Cardinality(S) <= 1)
  PROVE  \E q \in S : q # p
<1> SUFFICES ASSUME \A q \in S : q = p PROVE FALSE
  OBVIOUS
<1>1. S = {} \/ S = {p}
  OBVIOUS
<1>2. Cardinality({}) = 0 /\ Cardinality({p}) = 1
  BY FS_EmptySet, FS_Singleton
<1> QED
  BY <1>1, <1>2

\* Whatever callers, redis, FreeSWITCH and the other servers do next, ConferenceInv stays
\* true.
LEMMA Steps == ConferenceInv /\ [Next]_vars => ConferenceInv'
<1> SUFFICES ASSUME ConferenceInv, [Next]_vars PROVE ConferenceInv'
  OBVIOUS
<1>1. TypeOK
  BY DEF ConferenceInv
<1>2. JoinedInv
  BY DEF ConferenceInv
<1>3. PlaceInv
  BY DEF ConferenceInv
<1>4. ByeInv
  BY DEF ConferenceInv
<1>5. RoomInv
  BY DEF ConferenceInv
<1>6. RecordIsRemoved
  BY DEF ConferenceInv
<1>7. OneRoom
  BY DEF ConferenceInv
<1>8. ASSUME NEW p \in Callers, Arrive(p) PROVE ConferenceInv'
  <2>1. TypeOK'
    BY <1>1, <1>8 DEF TypeOK, OnTheWay, Arrive, Goto, placeVars, redisVars, leaveVars
  <2>2. JoinedInv'
    BY <1>2, <1>8 DEF JoinedInv, Arrive, Goto, placeVars, redisVars, leaveVars
  <2>3. PlaceInv'
    BY <1>3, <1>8 DEF PlaceInv, Arrive, Goto, placeVars, redisVars, leaveVars
  <2>4. ByeInv'
    BY <1>3, <1>4, <1>8 DEF PlaceInv, ByeInv, OnTheWay, Arrive, Goto, placeVars, redisVars,
      leaveVars
  <2>5. RoomInv'
    BY <1>3, <1>5, <1>8 DEF PlaceInv, RoomInv, Arrive, Goto, placeVars, redisVars, leaveVars
  <2>6. RecordIsRemoved'
    BY <1>6, <1>8 DEF RecordIsRemoved, Responsible, Arrive, Goto, placeVars, redisVars,
      leaveVars
  <2>7. OneRoom'
    BY <1>7, <1>8 DEF OneRoom, Arrive, Goto, placeVars, redisVars, leaveVars
  <2> QED
    BY <2>1, <2>2, <2>3, <2>4, <2>5, <2>6, <2>7 DEF ConferenceInv
<1>9. ASSUME NEW p \in Callers, Kill(p) PROVE ConferenceInv'
  <2>1. TypeOK'
    BY <1>1, <1>9 DEF TypeOK, OnTheWay, Kill, Goto, placeVars, redisVars, leaveVars
  <2>2. JoinedInv'
    BY <1>1, <1>2, <1>9 DEF TypeOK, JoinedInv, OnTheWay, Kill, Goto, placeVars, redisVars,
      leaveVars
  <2>3. PlaceInv'
    BY <1>1, <1>3, <1>9 DEF TypeOK, PlaceInv, OnTheWay, Kill, Goto, placeVars, redisVars,
      leaveVars
  <2>4. ByeInv'
    BY <1>1, <1>2, <1>4, <1>9 DEF TypeOK, JoinedInv, ByeInv, OnTheWay, Kill, Goto,
      placeVars, redisVars, leaveVars
  <2>5. RoomInv'
    BY <1>1, <1>5, <1>9 DEF TypeOK, RoomInv, OnTheWay, Kill, Goto, placeVars, redisVars,
      leaveVars
  <2>6. RecordIsRemoved'
    BY <1>1, <1>6, <1>9 DEF TypeOK, RecordIsRemoved, OnTheWay, Responsible, Kill, Goto,
      placeVars, redisVars, leaveVars
  <2>7. OneRoom'
    BY <1>7, <1>9 DEF OneRoom, Kill, Goto, placeVars, redisVars, leaveVars
  <2> QED
    BY <2>1, <2>2, <2>3, <2>4, <2>5, <2>6, <2>7 DEF ConferenceInv
<1>10. ASSUME NEW p \in Callers, Look(p) PROVE ConferenceInv'
  <2>1. TypeOK'
    BY <1>1, <1>10 DEF TypeOK, OnTheWay, Look, Goto, DoJoin, redisVars, leaveVars
  <2>2. JoinedInv'
    BY <1>1, <1>2, <1>10 DEF TypeOK, JoinedInv, OnTheWay, Look, Goto, DoJoin, redisVars,
      leaveVars
  <2>3. PlaceInv'
    BY <1>1, <1>3, <1>10 DEF TypeOK, PlaceInv, OnTheWay, Look, Goto, DoJoin, redisVars,
      leaveVars
  <2>4. ByeInv'
    BY <1>1, <1>4, <1>10 DEF TypeOK, ByeInv, OnTheWay, Look, Goto, DoJoin, redisVars,
      leaveVars
  <2>5. RoomInv'
    BY <1>1, <1>5, <1>10, ConferenceAssumption DEF ConferenceAssumption, TypeOK, RoomInv,
      OnTheWay, Look, Goto, DoJoin, redisVars, leaveVars
  <2>6. RecordIsRemoved'
    BY <1>1, <1>6, <1>10 DEF TypeOK, RecordIsRemoved, OnTheWay, Responsible, Look, Goto,
      DoJoin, redisVars, leaveVars
  <2>7. OneRoom'
    BY <1>7, <1>10 DEF OneRoom, Look, Goto, DoJoin, redisVars, leaveVars
  <2> QED
    BY <2>1, <2>2, <2>3, <2>4, <2>5, <2>6, <2>7 DEF ConferenceInv
<1>11. ASSUME NEW p \in Callers, Provision(p) PROVE ConferenceInv'
  <2>1. TypeOK'
    BY <1>1, <1>11 DEF TypeOK, OnTheWay, Provision, Goto, placeVars, redisVars, leaveVars
  <2>2. JoinedInv'
    BY <1>1, <1>2, <1>11 DEF TypeOK, JoinedInv, OnTheWay, Provision, Goto, placeVars,
      redisVars, leaveVars
  <2>3. PlaceInv'
    BY <1>1, <1>3, <1>11 DEF TypeOK, PlaceInv, OnTheWay, Provision, Goto, placeVars,
      redisVars, leaveVars
  <2>4. ByeInv'
    BY <1>1, <1>4, <1>11 DEF TypeOK, ByeInv, OnTheWay, Provision, Goto, placeVars,
      redisVars, leaveVars
  <2>5. RoomInv'
    BY <1>1, <1>3, <1>5, <1>11, ConferenceAssumption DEF ConferenceAssumption, TypeOK,
      PlaceInv, RoomInv, OnTheWay, Provision, Goto, placeVars, redisVars, leaveVars
  <2>6. RecordIsRemoved'
    BY <1>1, <1>6, <1>11 DEF TypeOK, RecordIsRemoved, OnTheWay, Responsible, Provision,
      Goto, placeVars, redisVars, leaveVars
  <2>7. OneRoom'
    BY <1>7, <1>11, ConferenceAssumption DEF ConferenceAssumption, OneRoom, Provision, Goto,
      placeVars, redisVars, leaveVars
  <2> QED
    BY <2>1, <2>2, <2>3, <2>4, <2>5, <2>6, <2>7 DEF ConferenceInv
<1>12. ASSUME NEW p \in Callers, LookAgain(p) PROVE ConferenceInv'
  <2>1. TypeOK'
    BY <1>1, <1>12 DEF TypeOK, OnTheWay, LookAgain, Goto, DoJoin, redisVars, leaveVars
  <2>2. JoinedInv'
    BY <1>1, <1>2, <1>12 DEF TypeOK, JoinedInv, OnTheWay, LookAgain, Goto, DoJoin,
      redisVars, leaveVars
  <2>3. PlaceInv'
    BY <1>1, <1>3, <1>12 DEF TypeOK, PlaceInv, OnTheWay, LookAgain, Goto, DoJoin, redisVars,
      leaveVars
  <2>4. ByeInv'
    BY <1>1, <1>4, <1>12 DEF TypeOK, ByeInv, OnTheWay, LookAgain, Goto, DoJoin, redisVars,
      leaveVars
  <2>5. RoomInv'
    BY <1>1, <1>5, <1>12 DEF TypeOK, RoomInv, OnTheWay, LookAgain, Goto, DoJoin, redisVars,
      leaveVars
  <2>6. RecordIsRemoved'
    BY <1>1, <1>6, <1>12 DEF TypeOK, RecordIsRemoved, OnTheWay, Responsible, LookAgain,
      Goto, DoJoin, redisVars, leaveVars
  <2>7. OneRoom'
    BY <1>7, <1>12 DEF OneRoom, LookAgain, Goto, DoJoin, redisVars, leaveVars
  <2> QED
    BY <2>1, <2>2, <2>3, <2>4, <2>5, <2>6, <2>7 DEF ConferenceInv
<1>13. ASSUME NEW p \in Callers, Listed(p) PROVE ConferenceInv'
  <2>1. TypeOK'
    BY <1>1, <1>13 DEF TypeOK, OnTheWay, Listed, Goto, placeVars, redisVars, leaveVars
  <2>2. JoinedInv'
    BY <1>2, <1>13 DEF JoinedInv, Listed, Goto, placeVars, redisVars, leaveVars
  <2>3. PlaceInv'
    BY <1>3, <1>13 DEF PlaceInv, Listed, Goto, placeVars, redisVars, leaveVars
  <2>4. ByeInv'
    BY <1>4, <1>13 DEF ByeInv, OnTheWay, Listed, Goto, placeVars, redisVars, leaveVars
  <2>5. RoomInv'
    BY <1>5, <1>13 DEF RoomInv, Listed, Goto, placeVars, redisVars, leaveVars
  <2>6. RecordIsRemoved'
    BY <1>6, <1>13 DEF RecordIsRemoved, Responsible, Listed, Goto, placeVars, redisVars,
      leaveVars
  <2>7. OneRoom'
    BY <1>7, <1>13 DEF OneRoom, Listed, Goto, placeVars, redisVars, leaveVars
  <2> QED
    BY <2>1, <2>2, <2>3, <2>4, <2>5, <2>6, <2>7 DEF ConferenceInv
<1>14. ASSUME NEW p \in Callers, Moved(p) PROVE ConferenceInv'
  <2>1. TypeOK'
    BY <1>1, <1>3, <1>14 DEF TypeOK, PlaceInv, OnTheWay, Moved, Goto, redisVars, leaveVars
  <2>2. JoinedInv'
    BY <1>2, <1>14 DEF JoinedInv, Moved, Goto, redisVars, leaveVars
  <2>3. PlaceInv'
    BY <1>3, <1>14 DEF PlaceInv, Moved, Goto, redisVars, leaveVars
  <2>4. ByeInv'
    BY <1>4, <1>14 DEF ByeInv, OnTheWay, Moved, Goto, redisVars, leaveVars
  <2>5. RoomInv'
    BY <1>1, <1>5, <1>14 DEF TypeOK, RoomInv, OnTheWay, Moved, Goto, redisVars, leaveVars
  <2>6. RecordIsRemoved'
    BY <1>6, <1>14 DEF RecordIsRemoved, Responsible, Moved, Goto, redisVars, leaveVars
  <2>7. OneRoom'
    BY <1>7, <1>14 DEF OneRoom, Moved, Goto, redisVars, leaveVars
  <2> QED
    BY <2>1, <2>2, <2>3, <2>4, <2>5, <2>6, <2>7 DEF ConferenceInv
<1>15. ASSUME NEW p \in Callers, MoveFails(p) PROVE ConferenceInv'
  <2>1. TypeOK'
    BY <1>1, <1>15 DEF TypeOK, OnTheWay, MoveFails, Goto, placeVars, redisVars, leaveVars
  <2>2. JoinedInv'
    BY <1>2, <1>15 DEF JoinedInv, MoveFails, Goto, placeVars, redisVars, leaveVars
  <2>3. PlaceInv'
    BY <1>3, <1>15 DEF PlaceInv, MoveFails, Goto, placeVars, redisVars, leaveVars
  <2>4. ByeInv'
    BY <1>4, <1>15 DEF ByeInv, OnTheWay, MoveFails, Goto, placeVars, redisVars, leaveVars
  <2>5. RoomInv'
    BY <1>5, <1>15 DEF RoomInv, MoveFails, Goto, placeVars, redisVars, leaveVars
  <2>6. RecordIsRemoved'
    BY <1>6, <1>15 DEF RecordIsRemoved, Responsible, MoveFails, Goto, placeVars, redisVars,
      leaveVars
  <2>7. OneRoom'
    BY <1>7, <1>15 DEF OneRoom, MoveFails, Goto, placeVars, redisVars, leaveVars
  <2> QED
    BY <2>1, <2>2, <2>3, <2>4, <2>5, <2>6, <2>7 DEF ConferenceInv
<1>16. ASSUME NEW p \in Callers, Entered(p) PROVE ConferenceInv'
  <2>1. TypeOK'
    BY <1>1, <1>16 DEF TypeOK, OnTheWay, Entered, AfterEntering, Goto, Settle, placeVars,
      redisVars, leaveVars
  <2>2. JoinedInv'
    BY <1>1, <1>2, <1>16 DEF TypeOK, JoinedInv, OnTheWay, Entered, AfterEntering, Goto,
      Settle, placeVars, redisVars, leaveVars
  <2>3. PlaceInv'
    BY <1>1, <1>3, <1>16 DEF TypeOK, PlaceInv, OnTheWay, Entered, AfterEntering, Goto,
      Settle, placeVars, redisVars, leaveVars
  <2>4. ByeInv'
    BY <1>1, <1>4, <1>16 DEF TypeOK, ByeInv, OnTheWay, Entered, AfterEntering, Goto, Settle,
      placeVars, redisVars, leaveVars
  <2>5. RoomInv'
    BY <1>1, <1>5, <1>16 DEF TypeOK, RoomInv, OnTheWay, Entered, AfterEntering, Goto,
      Settle, placeVars, redisVars, leaveVars
  <2>6. RecordIsRemoved'
    BY <1>4, <1>6, <1>16 DEF ByeInv, RecordIsRemoved, OnTheWay, Responsible, Entered,
      AfterEntering, Goto, Settle, placeVars, redisVars, leaveVars
  <2>7. OneRoom'
    BY <1>5, <1>7, <1>16 DEF RoomInv, OneRoom, Entered, AfterEntering, Goto, Settle,
      placeVars, redisVars, leaveVars
  <2> QED
    BY <2>1, <2>2, <2>3, <2>4, <2>5, <2>6, <2>7 DEF ConferenceInv
<1>17. ASSUME NEW p \in Callers, NotEntered(p) PROVE ConferenceInv'
  <2>1. TypeOK'
    BY <1>1, <1>17 DEF TypeOK, OnTheWay, NotEntered, AfterEntering, Goto, Settle, placeVars,
      redisVars, leaveVars
  <2>2. JoinedInv'
    BY <1>1, <1>2, <1>17 DEF TypeOK, JoinedInv, OnTheWay, NotEntered, AfterEntering, Goto,
      Settle, placeVars, redisVars, leaveVars
  <2>3. PlaceInv'
    BY <1>1, <1>3, <1>17 DEF TypeOK, PlaceInv, OnTheWay, NotEntered, AfterEntering, Goto,
      Settle, placeVars, redisVars, leaveVars
  <2>4. ByeInv'
    BY <1>4, <1>17 DEF ByeInv, OnTheWay, NotEntered, AfterEntering, Goto, Settle, placeVars,
      redisVars, leaveVars
  <2>5. RoomInv'
    BY <1>1, <1>5, <1>17 DEF TypeOK, RoomInv, OnTheWay, NotEntered, AfterEntering, Goto,
      Settle, placeVars, redisVars, leaveVars
  <2>6. RecordIsRemoved'
    BY <1>4, <1>6, <1>17 DEF ByeInv, RecordIsRemoved, OnTheWay, Responsible, NotEntered,
      AfterEntering, Goto, Settle, placeVars, redisVars, leaveVars
  <2>7. OneRoom'
    BY <1>7, <1>17 DEF OneRoom, NotEntered, AfterEntering, Goto, Settle, placeVars,
      redisVars, leaveVars
  <2> QED
    BY <2>1, <2>2, <2>3, <2>4, <2>5, <2>6, <2>7 DEF ConferenceInv
<1>18. ASSUME NEW p \in Callers, EnterFails(p) PROVE ConferenceInv'
  <2>1. TypeOK'
    BY <1>1, <1>18 DEF TypeOK, OnTheWay, EnterFails, Goto, placeVars, redisVars, leaveVars
  <2>2. JoinedInv'
    BY <1>2, <1>18 DEF JoinedInv, EnterFails, Goto, placeVars, redisVars, leaveVars
  <2>3. PlaceInv'
    BY <1>3, <1>18 DEF PlaceInv, EnterFails, Goto, placeVars, redisVars, leaveVars
  <2>4. ByeInv'
    BY <1>4, <1>18 DEF ByeInv, OnTheWay, EnterFails, Goto, placeVars, redisVars, leaveVars
  <2>5. RoomInv'
    BY <1>5, <1>18 DEF RoomInv, EnterFails, Goto, placeVars, redisVars, leaveVars
  <2>6. RecordIsRemoved'
    BY <1>6, <1>18 DEF RecordIsRemoved, Responsible, EnterFails, Goto, placeVars, redisVars,
      leaveVars
  <2>7. OneRoom'
    BY <1>7, <1>18 DEF OneRoom, EnterFails, Goto, placeVars, redisVars, leaveVars
  <2> QED
    BY <2>1, <2>2, <2>3, <2>4, <2>5, <2>6, <2>7 DEF ConferenceInv
<1>19. ASSUME NEW p \in Callers, ReadWaitlist(p) PROVE ConferenceInv'
  <2>1. TypeOK'
    BY <1>1, <1>19 DEF TypeOK, OnTheWay, ReadWaitlist, Goto, Settle, placeVars, redisVars,
      leaveVars
  <2>2. JoinedInv'
    BY <1>1, <1>2, <1>19 DEF TypeOK, JoinedInv, OnTheWay, ReadWaitlist, Goto, Settle,
      placeVars, redisVars, leaveVars
  <2>3. PlaceInv'
    BY <1>1, <1>3, <1>19 DEF TypeOK, PlaceInv, OnTheWay, ReadWaitlist, Goto, Settle,
      placeVars, redisVars, leaveVars
  <2>4. ByeInv'
    BY <1>1, <1>4, <1>19 DEF TypeOK, ByeInv, OnTheWay, ReadWaitlist, Goto, Settle,
      placeVars, redisVars, leaveVars
  <2>5. RoomInv'
    BY <1>1, <1>5, <1>19 DEF TypeOK, RoomInv, OnTheWay, ReadWaitlist, Goto, Settle,
      placeVars, redisVars, leaveVars
  <2>6. RecordIsRemoved'
    BY <1>1, <1>6, <1>19 DEF TypeOK, RecordIsRemoved, OnTheWay, Responsible, ReadWaitlist,
      Goto, Settle, placeVars, redisVars, leaveVars
  <2>7. OneRoom'
    BY <1>7, <1>19 DEF OneRoom, ReadWaitlist, Goto, Settle, placeVars, redisVars, leaveVars
  <2> QED
    BY <2>1, <2>2, <2>3, <2>4, <2>5, <2>6, <2>7 DEF ConferenceInv
<1>20. ASSUME NEW p \in Callers, NEW g \in Callers, Tell(p, g) PROVE ConferenceInv'
  <2>1. TypeOK'
    BY <1>1, <1>20 DEF TypeOK, OnTheWay, Tell, DoJoin, Goto, Waits, redisVars, leaveVars
  <2>2. JoinedInv'
    BY <1>1, <1>2, <1>20 DEF TypeOK, JoinedInv, OnTheWay, Tell, DoJoin, Goto, Waits,
      redisVars, leaveVars
  <2>3. PlaceInv'
    BY <1>1, <1>3, <1>20 DEF TypeOK, PlaceInv, OnTheWay, Tell, DoJoin, Goto, Waits,
      redisVars, leaveVars
  <2>4. ByeInv'
    BY <1>1, <1>4, <1>20 DEF TypeOK, ByeInv, OnTheWay, Tell, DoJoin, Goto, Waits, redisVars,
      leaveVars
  <2>5. RoomInv'
    BY <1>1, <1>5, <1>20 DEF TypeOK, RoomInv, OnTheWay, Tell, DoJoin, Goto, Waits,
      redisVars, leaveVars
  <2>6. RecordIsRemoved'
    BY <1>1, <1>6, <1>20 DEF TypeOK, RecordIsRemoved, OnTheWay, Responsible, Tell, DoJoin,
      Goto, Waits, redisVars, leaveVars
  <2>7. OneRoom'
    BY <1>7, <1>20 DEF OneRoom, Tell, DoJoin, Goto, Waits, redisVars, leaveVars
  <2> QED
    BY <2>1, <2>2, <2>3, <2>4, <2>5, <2>6, <2>7 DEF ConferenceInv
<1>21. ASSUME NEW p \in Callers, ClearWaitlist(p) PROVE ConferenceInv'
  <2>1. TypeOK'
    BY <1>1, <1>21 DEF TypeOK, OnTheWay, ClearWaitlist, Settle, Goto, placeVars, redisVars,
      leaveVars
  <2>2. JoinedInv'
    BY <1>2, <1>21 DEF JoinedInv, ClearWaitlist, Settle, Goto, placeVars, redisVars,
      leaveVars
  <2>3. PlaceInv'
    BY <1>3, <1>21 DEF PlaceInv, ClearWaitlist, Settle, Goto, placeVars, redisVars,
      leaveVars
  <2>4. ByeInv'
    BY <1>4, <1>21 DEF ByeInv, OnTheWay, ClearWaitlist, Settle, Goto, placeVars, redisVars,
      leaveVars
  <2>5. RoomInv'
    BY <1>5, <1>21 DEF RoomInv, ClearWaitlist, Settle, Goto, placeVars, redisVars, leaveVars
  <2>6. RecordIsRemoved'
    BY <1>6, <1>21 DEF RecordIsRemoved, Responsible, ClearWaitlist, Settle, Goto, placeVars,
      redisVars, leaveVars
  <2>7. OneRoom'
    BY <1>7, <1>21 DEF OneRoom, ClearWaitlist, Settle, Goto, placeVars, redisVars, leaveVars
  <2> QED
    BY <2>1, <2>2, <2>3, <2>4, <2>5, <2>6, <2>7 DEF ConferenceInv
<1>22. ASSUME NEW p \in Callers, Dropped(p) PROVE ConferenceInv'
  <2>1. TypeOK'
    BY <1>1, <1>22 DEF TypeOK, OnTheWay, Dropped, placeVars, redisVars, leaveVars
  <2>2. JoinedInv'
    BY <1>2, <1>22 DEF JoinedInv, Dropped, placeVars, redisVars, leaveVars
  <2>3. PlaceInv'
    BY <1>2, <1>3, <1>22 DEF JoinedInv, PlaceInv, Dropped, placeVars, redisVars, leaveVars
  <2>4. ByeInv'
    BY <1>2, <1>4, <1>22 DEF JoinedInv, ByeInv, OnTheWay, Dropped, placeVars, redisVars,
      leaveVars
  <2>5. RoomInv'
    BY <1>5, <1>22 DEF RoomInv, Dropped, placeVars, redisVars, leaveVars
  <2>6. RecordIsRemoved'
    BY <1>6, <1>22 DEF RecordIsRemoved, Responsible, Dropped, placeVars, redisVars,
      leaveVars
  <2>7. OneRoom'
    BY <1>7, <1>22 DEF OneRoom, Dropped, placeVars, redisVars, leaveVars
  <2> QED
    BY <2>1, <2>2, <2>3, <2>4, <2>5, <2>6, <2>7 DEF ConferenceInv
<1>23. ASSUME NEW p \in Callers, Counted(p) PROVE ConferenceInv'
  <2>1. TypeOK'
    BY <1>1, <1>23 DEF TypeOK, OnTheWay, Counted, Present, placeVars, redisVars, leaveVars
  <2>2. JoinedInv'
    BY <1>2, <1>23 DEF JoinedInv, Counted, Present, placeVars, redisVars, leaveVars
  <2>3. PlaceInv'
    BY <1>3, <1>23 DEF PlaceInv, Counted, Present, placeVars, redisVars, leaveVars
  <2>4. ByeInv'
    BY <1>1, <1>4, <1>23 DEF TypeOK, ByeInv, OnTheWay, Counted, Present, placeVars,
      redisVars, leaveVars
  <2>5. RoomInv'
    BY <1>5, <1>23 DEF RoomInv, Counted, Present, placeVars, redisVars, leaveVars
  <2>6. RecordIsRemoved'
    <3> DEFINE last == Cardinality(Present(p)) <= 1
    <3>1. bye' = [bye EXCEPT ![p] = IF last \/ p \in Enders THEN "delete" ELSE "kick"]
      BY <1>23 DEF Counted
    <3>2. ~last => \E q \in Present(p) : q # p
      BY Company
    <3> HIDE DEF last
    <3>3. CASE last \/ p \in Enders
      BY <1>1, <1>6, <1>23, <3>1, <3>3 DEF TypeOK, RecordIsRemoved, Responsible, Counted,
        placeVars, redisVars
    <3>4. CASE ~last /\ p \notin Enders
      <4>1. PICK q \in Present(p) : q # p
        BY <3>2, <3>4
      <4>2. q \in joined /\ q \in Callers
        BY <1>1, <1>2, <4>1 DEF TypeOK, JoinedInv, Present
      <4>3. CASE q \in killed
        BY <1>23, <4>1, <4>3 DEF RecordIsRemoved, Counted
      <4>4. CASE q \notin killed
        BY <1>1, <1>4, <1>23, <3>1, <4>1, <4>2, <4>4 DEF TypeOK, ByeInv, RecordIsRemoved,
          Responsible, Counted
      <4> QED
        BY <4>3, <4>4
    <3> QED
      BY <3>3, <3>4
  <2>7. OneRoom'
    BY <1>7, <1>23 DEF OneRoom, Counted, Present, placeVars, redisVars, leaveVars
  <2> QED
    BY <2>1, <2>2, <2>3, <2>4, <2>5, <2>6, <2>7 DEF ConferenceInv
<1>24. ASSUME NEW p \in Callers, Deprovision(p) PROVE ConferenceInv'
  <2>1. TypeOK'
    BY <1>1, <1>24 DEF TypeOK, OnTheWay, Deprovision, Coming, Telling, placeVars, redisVars,
      leaveVars
  <2>2. JoinedInv'
    BY <1>2, <1>24 DEF JoinedInv, Deprovision, Coming, Telling, placeVars, redisVars,
      leaveVars
  <2>3. PlaceInv'
    BY <1>3, <1>24 DEF PlaceInv, Deprovision, Coming, Telling, placeVars, redisVars,
      leaveVars
  <2>4. ByeInv'
    BY <1>4, <1>24 DEF ByeInv, OnTheWay, Deprovision, Coming, Telling, placeVars, redisVars,
      leaveVars
  <2>5. RoomInv'
    BY <1>2, <1>4, <1>5, <1>24 DEF JoinedInv, ByeInv, RoomInv, OnTheWay, Deprovision,
      Coming, Telling, placeVars, redisVars, leaveVars
  <2>6. RecordIsRemoved'
    BY <1>6, <1>24 DEF RecordIsRemoved, Responsible, Deprovision, Coming, Telling,
      placeVars, redisVars, leaveVars
  <2>7. OneRoom'
    BY <1>1, <1>2, <1>4, <1>7, <1>24 DEF TypeOK, JoinedInv, ByeInv, OneRoom, OnTheWay,
      Deprovision, Coming, Telling, placeVars, redisVars, leaveVars
  <2> QED
    BY <2>1, <2>2, <2>3, <2>4, <2>5, <2>6, <2>7 DEF ConferenceInv
<1>25. ASSUME NEW p \in Callers, KickedOut(p) PROVE ConferenceInv'
  <2>1. TypeOK'
    BY <1>1, <1>25 DEF TypeOK, OnTheWay, KickedOut, Goto, Leaves, placeVars, redisVars,
      leaveVars
  <2>2. JoinedInv'
    BY <1>1, <1>2, <1>25 DEF TypeOK, JoinedInv, OnTheWay, KickedOut, Goto, Leaves,
      placeVars, redisVars, leaveVars
  <2>3. PlaceInv'
    BY <1>1, <1>3, <1>25 DEF TypeOK, PlaceInv, OnTheWay, KickedOut, Goto, Leaves, placeVars,
      redisVars, leaveVars
  <2>4. ByeInv'
    BY <1>1, <1>4, <1>25 DEF TypeOK, ByeInv, OnTheWay, KickedOut, Goto, Leaves, placeVars,
      redisVars, leaveVars
  <2>5. RoomInv'
    BY <1>1, <1>5, <1>25 DEF TypeOK, RoomInv, OnTheWay, KickedOut, Goto, Leaves, placeVars,
      redisVars, leaveVars
  <2>6. RecordIsRemoved'
    BY <1>1, <1>6, <1>25 DEF TypeOK, RecordIsRemoved, OnTheWay, Responsible, KickedOut,
      Goto, Leaves, placeVars, redisVars, leaveVars
  <2>7. OneRoom'
    BY <1>7, <1>25 DEF OneRoom, KickedOut, Goto, Leaves, placeVars, redisVars, leaveVars
  <2> QED
    BY <2>1, <2>2, <2>3, <2>4, <2>5, <2>6, <2>7 DEF ConferenceInv
<1>26. ASSUME NEW p \in Callers, CallEnds(p) PROVE ConferenceInv'
  <2>1. TypeOK'
    BY <1>1, <1>26 DEF TypeOK, OnTheWay, CallEnds, Leaves, placeVars, redisVars, leaveVars
  <2>2. JoinedInv'
    BY <1>2, <1>26 DEF JoinedInv, CallEnds, Leaves, placeVars, redisVars, leaveVars
  <2>3. PlaceInv'
    BY <1>3, <1>26 DEF PlaceInv, CallEnds, Leaves, placeVars, redisVars, leaveVars
  <2>4. ByeInv'
    BY <1>4, <1>26 DEF ByeInv, OnTheWay, CallEnds, Leaves, placeVars, redisVars, leaveVars
  <2>5. RoomInv'
    BY <1>5, <1>26 DEF RoomInv, CallEnds, Leaves, placeVars, redisVars, leaveVars
  <2>6. RecordIsRemoved'
    BY <1>6, <1>26 DEF RecordIsRemoved, Responsible, CallEnds, Leaves, placeVars, redisVars,
      leaveVars
  <2>7. OneRoom'
    BY <1>7, <1>26 DEF OneRoom, CallEnds, Leaves, placeVars, redisVars, leaveVars
  <2> QED
    BY <2>1, <2>2, <2>3, <2>4, <2>5, <2>6, <2>7 DEF ConferenceInv
<1>27. ASSUME NEW p \in Callers, Listens(p) PROVE ConferenceInv'
  <2>1. TypeOK'
    BY <1>1, <1>27 DEF TypeOK, OnTheWay, Listens, Goto, placeVars, redisVars, leaveVars
  <2>2. JoinedInv'
    BY <1>1, <1>2, <1>27 DEF TypeOK, JoinedInv, OnTheWay, Listens, Goto, placeVars,
       redisVars, leaveVars
  <2>3. PlaceInv'
    BY <1>1, <1>3, <1>27 DEF TypeOK, PlaceInv, OnTheWay, Listens, Goto, placeVars, redisVars,
       leaveVars
  <2>4. ByeInv'
    BY <1>1, <1>4, <1>27 DEF TypeOK, ByeInv, OnTheWay, Listens, Goto, placeVars, redisVars,
       leaveVars
  <2>5. RoomInv'
    BY <1>1, <1>5, <1>27 DEF TypeOK, RoomInv, OnTheWay, Listens, Goto, placeVars, redisVars,
       leaveVars
  <2>6. RecordIsRemoved'
    BY <1>1, <1>6, <1>27 DEF TypeOK, RecordIsRemoved, Responsible, Listens, Goto, placeVars,
       redisVars, leaveVars
  <2>7. OneRoom'
    BY <1>1, <1>7, <1>27 DEF TypeOK, OneRoom, OnTheWay, Listens, Goto, placeVars, redisVars,
       leaveVars
  <2> QED
    BY <2>1, <2>2, <2>3, <2>4, <2>5, <2>6, <2>7 DEF ConferenceInv
<1>28. ASSUME NEW p \in Callers, ExecFails(p) PROVE ConferenceInv'
  <2>1. TypeOK'
    BY <1>1, <1>28 DEF TypeOK, OnTheWay, ExecFails, Goto, placeVars, redisVars, leaveVars
  <2>2. JoinedInv'
    BY <1>1, <1>2, <1>28 DEF TypeOK, JoinedInv, OnTheWay, ExecFails, Goto, placeVars,
       redisVars, leaveVars
  <2>3. PlaceInv'
    BY <1>1, <1>3, <1>28 DEF TypeOK, PlaceInv, OnTheWay, ExecFails, Goto, placeVars,
       redisVars, leaveVars
  <2>4. ByeInv'
    BY <1>1, <1>4, <1>28 DEF TypeOK, ByeInv, OnTheWay, ExecFails, Goto, placeVars, redisVars,
       leaveVars
  <2>5. RoomInv'
    BY <1>1, <1>5, <1>28 DEF TypeOK, RoomInv, OnTheWay, ExecFails, Goto, placeVars,
       redisVars, leaveVars
  <2>6. RecordIsRemoved'
    BY <1>1, <1>6, <1>28 DEF TypeOK, RecordIsRemoved, Responsible, ExecFails, Goto,
       placeVars, redisVars, leaveVars
  <2>7. OneRoom'
    BY <1>1, <1>7, <1>28 DEF TypeOK, OneRoom, OnTheWay, ExecFails, Goto, placeVars,
       redisVars, leaveVars
  <2> QED
    BY <2>1, <2>2, <2>3, <2>4, <2>5, <2>6, <2>7 DEF ConferenceInv
<1>29. ASSUME NEW p \in Callers, CountFails(p) PROVE ConferenceInv'
  <2>1. TypeOK'
    BY <1>1, <1>29 DEF TypeOK, OnTheWay, CountFails, Goto, placeVars, redisVars, leaveVars
  <2>2. JoinedInv'
    BY <1>1, <1>2, <1>29 DEF TypeOK, JoinedInv, OnTheWay, CountFails, Goto, placeVars,
       redisVars, leaveVars
  <2>3. PlaceInv'
    BY <1>1, <1>3, <1>29 DEF TypeOK, PlaceInv, OnTheWay, CountFails, Goto, placeVars,
       redisVars, leaveVars
  <2>4. ByeInv'
    BY <1>1, <1>4, <1>29 DEF TypeOK, ByeInv, OnTheWay, CountFails, Goto, placeVars,
       redisVars, leaveVars
  <2>5. RoomInv'
    BY <1>1, <1>5, <1>29 DEF TypeOK, RoomInv, OnTheWay, CountFails, Goto, placeVars,
       redisVars, leaveVars
  <2>6. RecordIsRemoved'
    BY <1>1, <1>6, <1>29 DEF TypeOK, RecordIsRemoved, Responsible, CountFails, Goto,
       placeVars, redisVars, leaveVars
  <2>7. OneRoom'
    BY <1>1, <1>7, <1>29 DEF TypeOK, OneRoom, OnTheWay, CountFails, Goto, placeVars,
       redisVars, leaveVars
  <2> QED
    BY <2>1, <2>2, <2>3, <2>4, <2>5, <2>6, <2>7 DEF ConferenceInv
<1>30. ASSUME NEW p \in Callers, DeprovisionFails(p) PROVE ConferenceInv'
  <2>1. TypeOK'
    BY <1>1, <1>30 DEF TypeOK, OnTheWay, DeprovisionFails, Goto, placeVars, redisVars, leaveVars
  <2>2. JoinedInv'
    BY <1>1, <1>2, <1>30 DEF TypeOK, JoinedInv, OnTheWay, DeprovisionFails, Goto, placeVars,
       redisVars, leaveVars
  <2>3. PlaceInv'
    BY <1>1, <1>3, <1>30 DEF TypeOK, PlaceInv, OnTheWay, DeprovisionFails, Goto, placeVars,
       redisVars, leaveVars
  <2>4. ByeInv'
    BY <1>1, <1>4, <1>30 DEF TypeOK, ByeInv, OnTheWay, DeprovisionFails, Goto, placeVars,
       redisVars, leaveVars
  <2>5. RoomInv'
    BY <1>1, <1>5, <1>30 DEF TypeOK, RoomInv, OnTheWay, DeprovisionFails, Goto, placeVars,
       redisVars, leaveVars
  <2>6. RecordIsRemoved'
    BY <1>1, <1>6, <1>30 DEF TypeOK, RecordIsRemoved, Responsible, DeprovisionFails, Goto,
       placeVars, redisVars, leaveVars
  <2>7. OneRoom'
    BY <1>1, <1>7, <1>30 DEF TypeOK, OneRoom, OnTheWay, DeprovisionFails, Goto, placeVars,
       redisVars, leaveVars
  <2> QED
    BY <2>1, <2>2, <2>3, <2>4, <2>5, <2>6, <2>7 DEF ConferenceInv
<1>31. CASE UNCHANGED vars
  BY <1>1, <1>2, <1>3, <1>4, <1>5, <1>6, <1>7, <1>31 DEF ConferenceInv, vars, TypeOK,
    JoinedInv, PlaceInv, ByeInv, RoomInv, RecordIsRemoved, OneRoom, OnTheWay, Responsible
<1> QED
  BY <1>8, <1>9, <1>10, <1>11, <1>12, <1>13, <1>14, <1>15, <1>16, <1>17, <1>18, <1>19,
    <1>20, <1>21, <1>22, <1>23, <1>24, <1>25, <1>26, <1>27, <1>28, <1>29, <1>30, <1>31
    DEF Next, Exec, Leave, RedisFails

\* Nobody has called at first.
LEMMA Initially == Init => ConferenceInv
<1> SUFFICES ASSUME Init PROVE ConferenceInv
  OBVIOUS
<1>1. TypeOK
  BY ConferenceAssumption DEF Init, TypeOK
<1>2. JoinedInv /\ PlaceInv /\ ByeInv /\ RoomInv
  BY DEF Init, JoinedInv, PlaceInv, ByeInv, RoomInv, OnTheWay
<1>3. RecordIsRemoved /\ OneRoom
  BY DEF Init, RecordIsRemoved, OneRoom
<1> QED
  BY <1>1, <1>2, <1>3 DEF ConferenceInv

\* The invariant holds in every state of every execution.
THEOREM Invariance == Spec => []ConferenceInv
BY Initially, Steps, PTL DEF Spec

\* TypeOK for any callers and servers (conference.js).
THEOREM ConferenceTypes == Spec => []TypeOK
<1>1. ConferenceInv => TypeOK
  BY DEF ConferenceInv
<1> QED
  BY <1>1, Invariance, PTL

\* However many callers start, join, move and leave at once, a record has somebody who will
\* remove it, until somebody leaves uncounted or the count or the removal fails (_init,
\* _doFinalMemberCheck).
THEOREM RecordSafe == Spec => []RecordIsRemoved
<1>1. ConferenceInv => RecordIsRemoved
  BY DEF ConferenceInv
<1> QED
  BY <1>1, Invariance, PTL

\* Everybody is in the room the record names, on whatever servers they call, until a record
\* is deleted while somebody is inside or coming (_init, _doJoin).
THEOREM RoomSafe == Spec => []OneRoom
<1>1. ConferenceInv => OneRoom
  BY DEF ConferenceInv
<1> QED
  BY <1>1, Invariance, PTL

\* kill() is under way for whoever was killed, exec() does not wait once it is over, and
\* who is through joining is a member unless he was killed on the way.
OutInv ==
  \A p \in Callers :
    /\ p \in killed => bye[p] # "no"
    /\ pc[p] = "in" => bye[p] # "over"
    /\ pc[p] \in {"reading", "telling", "in"} => p \in joined \cup killed

\* A killed verb that waits in the conference is one that kill() will end ...
KilledIsLeaving ==
  \A p \in Callers : (p \in killed /\ pc[p] = "in") => bye[p] \in {"count", "delete", "kick"}

\* ... also when kill() has come and gone before exec() was done joining (kill,
\* _doFinalMemberCheck, _joinConference).
THEOREM NobodyIsLeftInside == Spec => []KilledIsLeaving
<1>1. Init => OutInv
  BY DEF Init, OutInv
<1>2. TypeOK /\ OutInv /\ [Next]_vars => OutInv'
  <2> SUFFICES ASSUME TypeOK, OutInv, [Next]_vars PROVE OutInv'
    OBVIOUS
  <2>1. ASSUME NEW p \in Callers, UNCHANGED leaveVars, joined \subseteq joined',
               \/ UNCHANGED pc
               \/ \E l : Goto(p, l) /\ l # "in" /\ (l \in {"reading", "telling"} =>
                         pc[p] \in {"reading", "telling"} \/ p \in joined' \cup killed)
        PROVE  OutInv'
    BY <2>1 DEF TypeOK, OutInv, leaveVars, Goto
  <2>2. ASSUME NEW p \in Callers, UNCHANGED leaveVars, Settle(p), joined \subseteq joined',
               pc[p] \in {"reading", "telling"} \/ p \in joined' \cup killed
        PROVE  OutInv'
    BY <2>2 DEF TypeOK, OutInv, leaveVars, Settle, Goto
  <2>3. ASSUME NEW p \in Callers, NEW s, UNCHANGED leaveVars, UNCHANGED joined, DoJoin(p, s)
        PROVE  OutInv'
    BY <2>1, <2>3 DEF DoJoin
  <2>4. ASSUME NEW p \in Callers, Arrive(p) \/ Provision(p) \/ Listed(p) \/ Listens(p)
                                  \/ ExecFails(p) \/ Moved(p) \/ MoveFails(p) \/ CallEnds(p)
        PROVE  OutInv'
    BY <2>1, <2>4 DEF Arrive, Provision, Listed, Listens, ExecFails, Moved, MoveFails, CallEnds
  <2>5. ASSUME NEW p \in Callers, Look(p) \/ LookAgain(p) PROVE OutInv'
    BY <2>1, <2>3, <2>5 DEF Look, LookAgain
  <2>6. ASSUME NEW p \in Callers, Entered(p) \/ NotEntered(p) PROVE OutInv'
    BY <2>1, <2>2, <2>6 DEF Entered, NotEntered, AfterEntering
  <2>7. ASSUME NEW p \in Callers, EnterFails(p) PROVE OutInv'
    BY <2>7 DEF TypeOK, OutInv, EnterFails, Goto
  <2>8. ASSUME NEW p \in Callers, ReadWaitlist(p) \/ ClearWaitlist(p) PROVE OutInv'
    BY <2>1, <2>2, <2>8 DEF ReadWaitlist, ClearWaitlist
  <2>9. ASSUME NEW p \in Callers, NEW g \in Callers, Tell(p, g) PROVE OutInv'
    BY <2>1, <2>3, <2>9 DEF Tell
  <2>10. ASSUME NEW p \in Callers, Kill(p) PROVE OutInv'
    BY <2>10 DEF TypeOK, OutInv, Kill, Goto
  <2>11. ASSUME NEW p \in Callers, Dropped(p) PROVE OutInv'
    BY <2>11 DEF TypeOK, OutInv, Dropped
  <2>12. ASSUME NEW p \in Callers,
                Counted(p) \/ CountFails(p) \/ Deprovision(p) \/ DeprovisionFails(p)
         PROVE  OutInv'
    BY <2>12 DEF TypeOK, OutInv, Counted, CountFails, Deprovision, DeprovisionFails
  <2>13. ASSUME NEW p \in Callers, KickedOut(p) PROVE OutInv'
    BY <2>13 DEF TypeOK, OutInv, KickedOut, Goto
  <2>14. CASE UNCHANGED vars
    BY <2>14 DEF OutInv, vars
  <2>15. QED
    BY <2>4, <2>5, <2>6, <2>7, <2>8, <2>9, <2>10, <2>11, <2>12, <2>13, <2>14
    DEF Next, Exec, Leave, RedisFails
<1>3. TypeOK /\ OutInv => KilledIsLeaving
  BY DEF TypeOK, OutInv, KilledIsLeaving
<1>4. QED
  BY <1>1, <1>2, <1>3, ConferenceTypes, PTL DEF Spec
============================================================================
