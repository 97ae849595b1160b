---------------------------- MODULE DialProofs ----------------------------
(***************************************************************************)
(* Safety of Dial for any targets: nobody is connected unknown to the      *)
(* verb, the accepted call is not swept away, and a verb that was killed,  *)
(* or that waits for an answer, has somebody who will end it.              *)
(***************************************************************************)
EXTENDS Dial, TLAPS

Known(t) == t = sd \/ t \in dials \/ \E s \in sweeps : t \in s.rest

Before == {"idle", "lookup", "endpoint", "inviting", "ringing"}

\* How far a call is: before its answer nobody is connected, the accepted one is answered
\* and off the map, and no call is placed before the verb attempts it.
LegInv ==
  /\ \A t \in Targets : leg[t] \in Before => t \notin up
  /\ sd # Nobody => leg[sd] = "answered"
  /\ sd \notin dials
  /\ pc \in {"prepare", "lookup"} => \A t \in Targets : leg[t] = "idle"

\* Before its callee answers, too, a call can be hung up, or was.
KnownInv ==
  \A t \in Targets :
    leg[t] \notin {"idle", "lookup", "over"} => Known(t) \/ t \in cut \/ t \in stray

\* A call that was killed and answered nevertheless counts as stray.
CutInv == up \cap cut \subseteq stray

\* What a sweep tells about the verb.
SweepInv ==
  \A s \in sweeps :
    /\ s.by = "kill" => killed
    /\ s.by = "winner" => (sd # Nobody \/ killed \/ stray # {})
    /\ (s.by = "winner" /\ sd \in s.rest) => (killed \/ stray # {})

DialInv ==
  /\ TypeOK /\ LegInv /\ KnownInv /\ CutInv /\ SweepInv /\ CalleesAreKnown /\ WinnerIsKept
----------------------------------------------------------------------------
(* Sweeps *)

\* What a sweep starts with.
LEMMA NewSweepFields ==
  \A by, legs : /\ NewSweep(by, legs).by = by /\ NewSweep(by, legs).rest = legs
                /\ NewSweep(by, legs).cur = Nobody
BY DEF NewSweep

\* It may be under way.
LEMMA NewSweepType ==
  ASSUME NEW by \in {"kill", "timer", "winner"}, NEW legs \in SUBSET Targets
  PROVE  NewSweep(by, legs) \in Sweep
BY DEF NewSweep, Sweep

\* Every sweep has somebody who began it and calls left to hang up.
LEMMA SweepFields ==
  ASSUME NEW s \in Sweep
  PROVE  /\ s.by \in {"kill", "timer", "winner"} /\ s.rest \in SUBSET Targets
         /\ s.cur \in Targets \cup {Nobody}
BY DEF Sweep

\* Going on to the next call changes only who is left.
LEMMA OnToFields ==
  ASSUME NEW s \in Sweep, NEW t \in Targets
  PROVE  /\ OnTo(s, t) \in Sweep
         /\ OnTo(s, t).by = s.by /\ OnTo(s, t).rest = s.rest \ {t}
BY DEF Sweep, OnTo

\* Being through with one leaves the others.
LEMMA ResumedFields ==
  ASSUME NEW s \in Sweep
  PROVE  /\ Resumed(s) \in Sweep
         /\ Resumed(s).by = s.by /\ Resumed(s).rest = s.rest
BY DEF Sweep, Resumed

----------------------------------------------------------------------------
(* The inductive invariant *)

\* Whatever the verb, its calls, sweeps and callees do next, DialInv stays true.
LEMMA Steps == DialInv /\ [Next]_vars => DialInv'
<1> SUFFICES ASSUME DialInv, [Next]_vars PROVE DialInv'
  OBVIOUS
<1>1. TypeOK
  BY DEF DialInv
<1>2. LegInv
  BY DEF DialInv
<1>3. KnownInv
  BY DEF DialInv
<1>4. CutInv
  BY DEF DialInv
<1>5. SweepInv
  BY DEF DialInv
<1>6. CalleesAreKnown
  BY DEF DialInv
<1>7. WinnerIsKept
  BY DEF DialInv
<1>8. ASSUME Prepared PROVE DialInv'
  <2>1. TypeOK'
    BY <1>1, <1>8 DEF TypeOK, Prepared, sweepVars, verbVars, legVars
  <2>2. LegInv'
    BY <1>2, <1>8 DEF LegInv, Before, Prepared, sweepVars, verbVars, legVars
  <2>3. KnownInv'
    BY <1>3, <1>8 DEF KnownInv, Known, Prepared, sweepVars, verbVars, legVars
  <2>4. CutInv'
    BY <1>4, <1>8 DEF CutInv, Prepared, sweepVars, verbVars, legVars
  <2>5. SweepInv'
    BY <1>5, <1>8 DEF SweepInv, Prepared, sweepVars, verbVars, legVars
  <2>6. CalleesAreKnown'
    BY <1>6, <1>8 DEF CalleesAreKnown, Prepared, sweepVars, verbVars, legVars
  <2>7. WinnerIsKept'
    BY <1>7, <1>8 DEF WinnerIsKept, Prepared, sweepVars, verbVars, legVars
  <2> QED
    BY <2>1, <2>2, <2>3, <2>4, <2>5, <2>6, <2>7 DEF DialInv
<1>9. ASSUME Attempt PROVE DialInv'
  <2>1. TypeOK'
    BY <1>1, <1>9 DEF TypeOK, Attempt
  <2>2. LegInv'
    BY <1>1, <1>2, <1>9 DEF TypeOK, LegInv, Before, Attempt
  <2>3. KnownInv'
    BY <1>3, <1>9 DEF KnownInv, Known, Attempt
  <2>4. CutInv'
    BY <1>4, <1>9 DEF CutInv, Attempt
  <2>5. SweepInv'
    BY <1>5, <1>9 DEF SweepInv, Attempt
  <2>6. CalleesAreKnown'
    BY <1>6, <1>9 DEF CalleesAreKnown, Attempt
  <2>7. WinnerIsKept'
    BY <1>7, <1>9 DEF WinnerIsKept, Attempt
  <2> QED
    BY <2>1, <2>2, <2>3, <2>4, <2>5, <2>6, <2>7 DEF DialInv
<1>10. ASSUME AttemptFails PROVE DialInv'
  <2>1. TypeOK'
    BY <1>1, <1>10, NewSweepType DEF TypeOK, AttemptFails, KillVerb, legVars, verbVars,
      sweepVars
  <2>2. LegInv'
    BY <1>2, <1>10 DEF LegInv, Before, AttemptFails, KillVerb, legVars, verbVars, sweepVars
  <2>3. KnownInv'
    BY <1>3, <1>10 DEF KnownInv, Known, AttemptFails, KillVerb, legVars, verbVars, sweepVars
  <2>4. CutInv'
    BY <1>4, <1>10 DEF CutInv, AttemptFails, KillVerb, legVars, verbVars, sweepVars
  <2>5. SweepInv'
    BY <1>5, <1>10 DEF SweepInv, AttemptFails, KillVerb, legVars, verbVars, sweepVars
  <2>6. CalleesAreKnown'
    BY <1>6, <1>10 DEF CalleesAreKnown, AttemptFails, KillVerb, legVars, verbVars, sweepVars
  <2>7. WinnerIsKept'
    BY <1>7, <1>10 DEF WinnerIsKept, AttemptFails, KillVerb, legVars, verbVars, sweepVars
  <2> QED
    BY <2>1, <2>2, <2>3, <2>4, <2>5, <2>6, <2>7 DEF DialInv
<1>11. ASSUME TaskEnds PROVE DialInv'
  <2>1. TypeOK'
    BY <1>1, <1>11 DEF TypeOK, TaskEnds, sweepVars, verbVars, legVars
  <2>2. LegInv'
    BY <1>2, <1>11 DEF LegInv, Before, TaskEnds, sweepVars, verbVars, legVars
  <2>3. KnownInv'
    BY <1>3, <1>11 DEF KnownInv, Known, TaskEnds, sweepVars, verbVars, legVars
  <2>4. CutInv'
    BY <1>4, <1>11 DEF CutInv, TaskEnds, sweepVars, verbVars, legVars
  <2>5. SweepInv'
    BY <1>5, <1>11 DEF SweepInv, TaskEnds, sweepVars, verbVars, legVars
  <2>6. CalleesAreKnown'
    BY <1>6, <1>11 DEF CalleesAreKnown, TaskEnds, sweepVars, verbVars, legVars
  <2>7. WinnerIsKept'
    BY <1>7, <1>11 DEF WinnerIsKept, TaskEnds, sweepVars, verbVars, legVars
  <2> QED
    BY <2>1, <2>2, <2>3, <2>4, <2>5, <2>6, <2>7 DEF DialInv
<1>12. ASSUME Kill PROVE DialInv'
  <2>1. TypeOK'
    BY <1>1, <1>12, NewSweepType DEF TypeOK, Kill, KillVerb, verbVars, sweepVars, legVars
  <2>2. LegInv'
    BY <1>2, <1>12 DEF LegInv, Before, Kill, KillVerb, verbVars, sweepVars, legVars
  <2>3. KnownInv'
    BY <1>3, <1>12 DEF KnownInv, Known, Kill, KillVerb, verbVars, sweepVars, legVars
  <2>4. CutInv'
    BY <1>4, <1>12 DEF CutInv, Kill, KillVerb, verbVars, sweepVars, legVars
  <2>5. SweepInv'
    BY <1>5, <1>12 DEF SweepInv, Kill, KillVerb, verbVars, sweepVars, legVars
  <2>6. CalleesAreKnown'
    BY <1>6, <1>12 DEF CalleesAreKnown, Kill, KillVerb, verbVars, sweepVars, legVars
  <2>7. WinnerIsKept'
    BY <1>7, <1>12 DEF WinnerIsKept, Kill, KillVerb, verbVars, sweepVars, legVars
  <2> QED
    BY <2>1, <2>2, <2>3, <2>4, <2>5, <2>6, <2>7 DEF DialInv
<1>13. ASSUME RingTimeout PROVE DialInv'
  <2>1. TypeOK'
    BY <1>1, <1>13, NewSweepType DEF TypeOK, RingTimeout, verbVars, sweepVars, legVars
  <2>2. LegInv'
    BY <1>2, <1>13 DEF LegInv, Before, RingTimeout, verbVars, sweepVars, legVars
  <2>3. KnownInv'
    BY <1>3, <1>13 DEF KnownInv, Known, RingTimeout, verbVars, sweepVars, legVars
  <2>4. CutInv'
    BY <1>4, <1>13 DEF CutInv, RingTimeout, verbVars, sweepVars, legVars
  <2>5. SweepInv'
    BY <1>5, <1>13, NewSweepFields DEF SweepInv, RingTimeout, verbVars, sweepVars, legVars
  <2>6. CalleesAreKnown'
    BY <1>6, <1>13 DEF CalleesAreKnown, RingTimeout, verbVars, sweepVars, legVars
  <2>7. WinnerIsKept'
    BY <1>7, <1>13 DEF WinnerIsKept, RingTimeout, verbVars, sweepVars, legVars
  <2> QED
    BY <2>1, <2>2, <2>3, <2>4, <2>5, <2>6, <2>7 DEF DialInv
<1>14. ASSUME NEW t \in Targets, PlaceCall(t) PROVE DialInv'
  <2>1. TypeOK'
    BY <1>1, <1>14 DEF TypeOK, PlaceCall, Goto, verbVars, sweepVars, legVars
  <2>2. LegInv'
    BY <1>1, <1>2, <1>14, DialAssumption DEF DialAssumption, TypeOK, LegInv, Before,
      PlaceCall, Goto, verbVars, sweepVars, legVars
  <2>3. KnownInv'
    BY <1>1, <1>3, <1>14 DEF TypeOK, KnownInv, Known, PlaceCall, Goto, verbVars, sweepVars,
      legVars
  <2>4. CutInv'
    BY <1>4, <1>14 DEF CutInv, PlaceCall, Goto, verbVars, sweepVars, legVars
  <2>5. SweepInv'
    BY <1>5, <1>14 DEF SweepInv, PlaceCall, Goto, verbVars, sweepVars, legVars
  <2>6. CalleesAreKnown'
    BY <1>6, <1>14 DEF CalleesAreKnown, PlaceCall, Goto, verbVars, sweepVars, legVars
  <2>7. WinnerIsKept'
    BY <1>7, <1>14 DEF WinnerIsKept, PlaceCall, Goto, verbVars, sweepVars, legVars
  <2> QED
    BY <2>1, <2>2, <2>3, <2>4, <2>5, <2>6, <2>7 DEF DialInv
<1>15. ASSUME NEW t \in Targets, SetupFails(t) PROVE DialInv'
  <2>1. TypeOK'
    BY <1>1, <1>15 DEF TypeOK, SetupFails, Goto, verbVars, sweepVars, legVars
  <2>2. LegInv'
    BY <1>2, <1>15 DEF LegInv, Before, SetupFails, Goto, verbVars, sweepVars, legVars
  <2>3. KnownInv'
    BY <1>3, <1>15 DEF KnownInv, Known, SetupFails, Goto, verbVars, sweepVars, legVars
  <2>4. CutInv'
    BY <1>4, <1>15 DEF CutInv, SetupFails, Goto, verbVars, sweepVars, legVars
  <2>5. SweepInv'
    BY <1>5, <1>15 DEF SweepInv, SetupFails, Goto, verbVars, sweepVars, legVars
  <2>6. CalleesAreKnown'
    BY <1>6, <1>15 DEF CalleesAreKnown, SetupFails, Goto, verbVars, sweepVars, legVars
  <2>7. WinnerIsKept'
    BY <1>7, <1>15 DEF WinnerIsKept, SetupFails, Goto, verbVars, sweepVars, legVars
  <2> QED
    BY <2>1, <2>2, <2>3, <2>4, <2>5, <2>6, <2>7 DEF DialInv
<1>16. ASSUME NEW t \in Targets, EndpointMade(t) PROVE DialInv'
  <2>1. TypeOK'
    BY <1>1, <1>16 DEF TypeOK, EndpointMade, Goto, verbVars, sweepVars, legVars
  <2>2. LegInv'
    BY <1>2, <1>16 DEF LegInv, Before, EndpointMade, Goto, verbVars, sweepVars, legVars
  <2>3. KnownInv'
    BY <1>3, <1>16 DEF KnownInv, Known, EndpointMade, Goto, verbVars, sweepVars, legVars
  <2>4. CutInv'
    BY <1>4, <1>16 DEF CutInv, EndpointMade, Goto, verbVars, sweepVars, legVars
  <2>5. SweepInv'
    BY <1>5, <1>16 DEF SweepInv, EndpointMade, Goto, verbVars, sweepVars, legVars
  <2>6. CalleesAreKnown'
    BY <1>6, <1>16 DEF CalleesAreKnown, EndpointMade, Goto, verbVars, sweepVars, legVars
  <2>7. WinnerIsKept'
    BY <1>7, <1>16 DEF WinnerIsKept, EndpointMade, Goto, verbVars, sweepVars, legVars
  <2> QED
    BY <2>1, <2>2, <2>3, <2>4, <2>5, <2>6, <2>7 DEF DialInv
<1>17. ASSUME NEW t \in Targets, InviteSent(t) PROVE DialInv'
  <2>1. TypeOK'
    BY <1>1, <1>17 DEF TypeOK, InviteSent, Goto, verbVars, sweepVars, legVars
  <2>2. LegInv'
    BY <1>2, <1>17 DEF LegInv, Before, InviteSent, Goto, verbVars, sweepVars, legVars
  <2>3. KnownInv'
    BY <1>3, <1>17 DEF KnownInv, Known, InviteSent, Goto, verbVars, sweepVars, legVars
  <2>4. CutInv'
    BY <1>4, <1>17 DEF CutInv, InviteSent, Goto, verbVars, sweepVars, legVars
  <2>5. SweepInv'
    BY <1>5, <1>17 DEF SweepInv, InviteSent, Goto, verbVars, sweepVars, legVars
  <2>6. CalleesAreKnown'
    BY <1>6, <1>17 DEF CalleesAreKnown, InviteSent, Goto, verbVars, sweepVars, legVars
  <2>7. WinnerIsKept'
    BY <1>7, <1>17 DEF WinnerIsKept, InviteSent, Goto, verbVars, sweepVars, legVars
  <2> QED
    BY <2>1, <2>2, <2>3, <2>4, <2>5, <2>6, <2>7 DEF DialInv
<1>18. ASSUME NEW t \in Targets, CreateFails(t) PROVE DialInv'
  <2>1. TypeOK'
    BY <1>1, <1>18, DialAssumption, NewSweepType DEF DialAssumption, TypeOK, CreateFails,
      Refuse, Lose, KillVerb, Goto, sweepVars, verbVars, legVars
  <2>2. LegInv'
    BY <1>2, <1>18 DEF LegInv, Before, CreateFails, Refuse, Lose, KillVerb, Goto, sweepVars,
      verbVars, legVars
  <2>3. KnownInv'
    BY <1>1, <1>3, <1>18 DEF TypeOK, KnownInv, Known, CreateFails, Refuse, Lose, KillVerb,
      Goto, sweepVars, verbVars, legVars
  <2>4. CutInv'
    BY <1>4, <1>18 DEF CutInv, CreateFails, Refuse, Lose, KillVerb, Goto, sweepVars,
      verbVars, legVars
  <2>5. SweepInv'
    BY <1>5, <1>18 DEF SweepInv, CreateFails, Refuse, Lose, KillVerb, Goto, sweepVars,
      verbVars, legVars
  <2>6. CalleesAreKnown'
    BY <1>2, <1>6, <1>18 DEF LegInv, CalleesAreKnown, Before, CreateFails, Refuse, Lose,
      KillVerb, Goto, sweepVars, verbVars, legVars
  <2>7. WinnerIsKept'
    BY <1>7, <1>18 DEF WinnerIsKept, CreateFails, Refuse, Lose, KillVerb, Goto, sweepVars,
      verbVars, legVars
  <2> QED
    BY <2>1, <2>2, <2>3, <2>4, <2>5, <2>6, <2>7 DEF DialInv
<1>40. ASSUME NEW t \in Targets, FailUnsent(t) PROVE DialInv'
  <2>1. TypeOK'
    BY <1>1, <1>40 DEF TypeOK, FailUnsent, Goto, verbVars, sweepVars
  <2>2. LegInv'
    BY <1>1, <1>2, <1>40 DEF TypeOK, LegInv, Before, FailUnsent, Goto, verbVars, sweepVars
  <2>3. KnownInv'
    BY <1>1, <1>3, <1>40 DEF TypeOK, KnownInv, Known, FailUnsent, Goto, verbVars, sweepVars
  <2>4. CutInv' /\ SweepInv'
    BY <1>4, <1>5, <1>40 DEF CutInv, SweepInv, FailUnsent, verbVars, sweepVars
  <2>5. CalleesAreKnown' /\ WinnerIsKept'
    BY <1>6, <1>7, <1>40 DEF CalleesAreKnown, WinnerIsKept, FailUnsent, verbVars, sweepVars
  <2> QED
    BY <2>1, <2>2, <2>3, <2>4, <2>5 DEF DialInv
<1>19. ASSUME NEW t \in Targets, Fail(t) PROVE DialInv'
  <2>1. TypeOK'
    BY <1>1, <1>19, DialAssumption, NewSweepType DEF DialAssumption, TypeOK, Fail, Lose,
      KillVerb, Goto, verbVars, sweepVars, legVars
  <2>2. LegInv'
    BY <1>2, <1>19 DEF LegInv, Before, Fail, Lose, KillVerb, Goto, verbVars, sweepVars,
      legVars
  <2>3. KnownInv'
    BY <1>1, <1>3, <1>19 DEF TypeOK, KnownInv, Known, Fail, Lose, KillVerb, Goto, verbVars,
      sweepVars, legVars
  <2>4. CutInv'
    BY <1>4, <1>19 DEF CutInv, Fail, Lose, KillVerb, Goto, verbVars, sweepVars, legVars
  <2>5. SweepInv'
    BY <1>5, <1>19 DEF SweepInv, Fail, Lose, KillVerb, Goto, verbVars, sweepVars, legVars
  <2>6. CalleesAreKnown'
    BY <1>6, <1>19 DEF CalleesAreKnown, Fail, Lose, KillVerb, Goto, verbVars, sweepVars,
      legVars
  <2>7. WinnerIsKept'
    BY <1>7, <1>19 DEF WinnerIsKept, Fail, Lose, KillVerb, Goto, verbVars, sweepVars,
      legVars
  <2> QED
    BY <2>1, <2>2, <2>3, <2>4, <2>5, <2>6, <2>7 DEF DialInv
<1>20. ASSUME NEW t \in Targets, Answer(t) PROVE DialInv'
  <2>1. TypeOK'
    BY <1>1, <1>20 DEF TypeOK, Answer, Goto, verbVars, sweepVars, legVars
  <2>2. LegInv'
    BY <1>1, <1>2, <1>20 DEF TypeOK, LegInv, Before, Answer, Goto, verbVars, sweepVars,
      legVars
  <2>3. KnownInv'
    BY <1>3, <1>20 DEF KnownInv, Known, Answer, Goto, verbVars, sweepVars, legVars
  <2>4. CutInv'
    BY <1>4, <1>20 DEF CutInv, Answer, Goto, verbVars, sweepVars, legVars
  <2>5. SweepInv'
    BY <1>5, <1>20 DEF SweepInv, Answer, Goto, verbVars, sweepVars, legVars
  <2>6. CalleesAreKnown'
    BY <1>3, <1>6, <1>20 DEF KnownInv, CalleesAreKnown, Known, Answer, Goto, verbVars,
      sweepVars, legVars
  <2>7. WinnerIsKept'
    BY <1>7, <1>20 DEF WinnerIsKept, Answer, Goto, verbVars, sweepVars, legVars
  <2> QED
    BY <2>1, <2>2, <2>3, <2>4, <2>5, <2>6, <2>7 DEF DialInv
<1>21. ASSUME NEW t \in Targets, Connected(t) PROVE DialInv'
  <2>1. TypeOK'
    <3>1. CASE t \in heard \ (cut \cup Confirmed)
      <4>1. NewSweep("winner", dials \ {t}) \in Sweep
        BY <1>1, NewSweepType DEF TypeOK
      <4> QED
        BY <1>1, <1>21, <3>1, <4>1 DEF TypeOK, Connected, Accept, Selected, Goto
    <3>2. CASE ~(t \in heard \ (cut \cup Confirmed))
      BY <1>1, <1>21, <3>2 DEF TypeOK, Connected, NotAccepted, Goto
    <3> QED
      BY <3>1, <3>2
  <2>2. LegInv'
    BY <1>1, <1>2, <1>21 DEF TypeOK, LegInv, Before, Connected, Accept, Selected,
      NotAccepted, Goto
  <2>3. KnownInv'
    BY <1>3, <1>21 DEF KnownInv, Known, Connected, Accept, Selected, NotAccepted, Goto
  <2>4. CutInv'
    BY <1>4, <1>21 DEF CutInv, Connected, Accept, Selected, NotAccepted, Goto
  <2>5. SweepInv'
    BY <1>1, <1>5, <1>21, NewSweepFields DEF TypeOK, SweepInv, Connected, Accept, Selected,
      NotAccepted, Goto
  <2>6. CalleesAreKnown'
    BY <1>1, <1>6, <1>21 DEF TypeOK, CalleesAreKnown, Connected, Accept, Selected,
      NotAccepted, Goto
  <2>7. WinnerIsKept'
    BY <1>7, <1>21 DEF WinnerIsKept, Connected, Accept, Selected, NotAccepted, Goto
  <2> QED
    BY <2>1, <2>2, <2>3, <2>4, <2>5, <2>6, <2>7 DEF DialInv
<1>22. ASSUME NEW t \in Targets, Confirm(t) PROVE DialInv'
  <2>1. TypeOK'
    <3>1. CASE t \in heard
      <4>1. NewSweep("winner", dials \ {t}) \in Sweep
        BY <1>1, NewSweepType DEF TypeOK
      <4> QED
        BY <1>1, <1>22, <3>1, <4>1 DEF TypeOK, Confirm, Accept, Selected, Goto
    <3>2. CASE t \notin heard
      BY <1>1, <1>22, <3>2 DEF TypeOK, Confirm, NotAccepted, Goto
    <3> QED
      BY <3>1, <3>2
  <2>2. LegInv'
    BY <1>1, <1>2, <1>22 DEF TypeOK, LegInv, Before, Confirm, Accept, Selected, NotAccepted,
      Goto
  <2>3. KnownInv'
    BY <1>3, <1>22 DEF KnownInv, Known, Confirm, Accept, Selected, NotAccepted, Goto
  <2>4. CutInv'
    BY <1>4, <1>22 DEF CutInv, Confirm, Accept, Selected, NotAccepted, Goto
  <2>5. SweepInv'
    BY <1>1, <1>5, <1>22, NewSweepFields DEF TypeOK, SweepInv, Confirm, Accept, Selected,
      NotAccepted, Goto
  <2>6. CalleesAreKnown'
    BY <1>1, <1>6, <1>22 DEF TypeOK, CalleesAreKnown, Confirm, Accept, Selected,
      NotAccepted, Goto
  <2>7. WinnerIsKept'
    BY <1>4, <1>7, <1>22 DEF CutInv, WinnerIsKept, Confirm, Accept, Selected, NotAccepted,
      Goto
  <2> QED
    BY <2>1, <2>2, <2>3, <2>4, <2>5, <2>6, <2>7 DEF DialInv
<1>23. ASSUME NEW t \in Targets, Decline(t) PROVE DialInv'
  <2>1. TypeOK'
    BY <1>1, <1>23, DialAssumption, NewSweepType DEF DialAssumption, TypeOK, Decline,
      Refuse, Lose, KillVerb, Goto, sweepVars, verbVars, legVars
  <2>2. LegInv'
    BY <1>2, <1>23 DEF LegInv, Before, Decline, Refuse, Lose, KillVerb, Goto, sweepVars,
      verbVars, legVars
  <2>3. KnownInv'
    BY <1>1, <1>3, <1>23 DEF TypeOK, KnownInv, Known, Decline, Refuse, Lose, KillVerb, Goto,
      sweepVars, verbVars, legVars
  <2>4. CutInv'
    BY <1>4, <1>23 DEF CutInv, Decline, Refuse, Lose, KillVerb, Goto, sweepVars, verbVars,
      legVars
  <2>5. SweepInv'
    BY <1>5, <1>23 DEF SweepInv, Decline, Refuse, Lose, KillVerb, Goto, sweepVars, verbVars,
      legVars
  <2>6. CalleesAreKnown'
    BY <1>6, <1>23 DEF CalleesAreKnown, Decline, Refuse, Lose, KillVerb, Goto, sweepVars,
      verbVars, legVars
  <2>7. WinnerIsKept'
    BY <1>7, <1>23 DEF WinnerIsKept, Decline, Refuse, Lose, KillVerb, Goto, sweepVars,
      verbVars, legVars
  <2> QED
    BY <2>1, <2>2, <2>3, <2>4, <2>5, <2>6, <2>7 DEF DialInv
<1>24. ASSUME NEW t \in Targets, CalleeHangsUp(t) PROVE DialInv'
  <2>1. TypeOK'
    <3>1. NewSweep("kill", dials) \in Sweep
      BY <1>1, NewSweepType DEF TypeOK
    <3> QED
      BY <1>1, <1>24, <3>1 DEF TypeOK, CalleeHangsUp, KillVerb, verbVars
  <2>2. LegInv'
    BY <1>2, <1>24 DEF LegInv, Before, CalleeHangsUp, KillVerb, verbVars, sweepVars, legVars
  <2>3. KnownInv'
    BY <1>3, <1>24 DEF KnownInv, Known, CalleeHangsUp, KillVerb, verbVars, sweepVars,
      legVars
  <2>4. CutInv'
    BY <1>4, <1>24 DEF CutInv, CalleeHangsUp, KillVerb, verbVars, sweepVars, legVars
  <2>5. SweepInv'
    BY <1>5, <1>24 DEF SweepInv, CalleeHangsUp, KillVerb, verbVars, sweepVars, legVars
  <2>6. CalleesAreKnown'
    BY <1>6, <1>24 DEF CalleesAreKnown, CalleeHangsUp, KillVerb, verbVars, sweepVars,
      legVars
  <2>7. WinnerIsKept'
    BY <1>7, <1>24 DEF WinnerIsKept, CalleeHangsUp, KillVerb, verbVars, sweepVars, legVars
  <2> QED
    BY <2>1, <2>2, <2>3, <2>4, <2>5, <2>6, <2>7 DEF DialInv
<1>25. ASSUME NEW t \in Targets, Propagated(t) PROVE DialInv'
  <2>1. TypeOK'
    <3>1. NewSweep("kill", dials) \in Sweep /\ NewSweep("winner", dials) \in Sweep
      BY <1>1, NewSweepType DEF TypeOK
    <3> QED
      BY <1>1, <1>25, <3>1 DEF TypeOK, Propagated, KillVerb, Selected, legVars
  <2>2. LegInv'
    BY <1>2, <1>25 DEF LegInv, Before, Propagated, KillVerb, Selected, legVars, verbVars,
      sweepVars
  <2>3. KnownInv'
    BY <1>3, <1>25 DEF KnownInv, Known, Propagated, KillVerb, Selected, legVars, verbVars,
      sweepVars
  <2>4. CutInv'
    BY <1>4, <1>25 DEF CutInv, Propagated, KillVerb, Selected, legVars, verbVars, sweepVars
  <2>5. SweepInv'
    BY <1>2, <1>5, <1>25, NewSweepFields DEF LegInv, SweepInv, Before, Propagated, KillVerb,
      Selected, legVars, verbVars, sweepVars
  <2>6. CalleesAreKnown'
    BY <1>6, <1>25 DEF CalleesAreKnown, Propagated, KillVerb, Selected, legVars, verbVars,
      sweepVars
  <2>7. WinnerIsKept'
    BY <1>7, <1>25 DEF WinnerIsKept, Propagated, KillVerb, Selected, legVars, verbVars,
      sweepVars
  <2> QED
    BY <2>1, <2>2, <2>3, <2>4, <2>5, <2>6, <2>7 DEF DialInv
<1>26. ASSUME NEW t \in Targets, PropagateFails(t) PROVE DialInv'
  <2>1. TypeOK'
    BY <1>1, <1>26, NewSweepType DEF TypeOK, PropagateFails, KillVerb, legVars, verbVars,
      sweepVars
  <2>2. LegInv'
    BY <1>2, <1>26 DEF LegInv, Before, PropagateFails, KillVerb, legVars, verbVars,
      sweepVars
  <2>3. KnownInv'
    BY <1>3, <1>26 DEF KnownInv, Known, PropagateFails, KillVerb, legVars, verbVars,
      sweepVars
  <2>4. CutInv'
    BY <1>4, <1>26 DEF CutInv, PropagateFails, KillVerb, legVars, verbVars, sweepVars
  <2>5. SweepInv'
    BY <1>5, <1>26 DEF SweepInv, PropagateFails, KillVerb, legVars, verbVars, sweepVars
  <2>6. CalleesAreKnown'
    BY <1>6, <1>26 DEF CalleesAreKnown, PropagateFails, KillVerb, legVars, verbVars,
      sweepVars
  <2>7. WinnerIsKept'
    BY <1>7, <1>26 DEF WinnerIsKept, PropagateFails, KillVerb, legVars, verbVars, sweepVars
  <2> QED
    BY <2>1, <2>2, <2>3, <2>4, <2>5, <2>6, <2>7 DEF DialInv
<1>27. ASSUME NEW s \in sweeps, NEW t \in Targets, SweepNext(s, t) PROVE DialInv'
  <2>1. TypeOK'
    BY <1>1, <1>27, SweepFields, OnToFields DEF TypeOK, SweepNext, Hangup, verbVars,
      sweepVars, legVars
  <2>2. LegInv'
    BY <1>2, <1>27, SweepFields, OnToFields DEF LegInv, Before, SweepNext, Hangup, verbVars,
      sweepVars, legVars
  <2>3. KnownInv'
    BY <1>1, <1>3, <1>27, SweepFields, OnToFields DEF TypeOK, KnownInv, Known, SweepNext,
      Hangup, verbVars, sweepVars, legVars
  <2>4. CutInv'
    BY <1>4, <1>27, SweepFields, OnToFields DEF CutInv, SweepNext, Hangup, verbVars,
      sweepVars, legVars
  <2>5. SweepInv'
    BY <1>1, <1>5, <1>27, SweepFields, OnToFields DEF TypeOK, SweepInv, SweepNext, Hangup,
      verbVars, sweepVars, legVars
  <2>6. CalleesAreKnown'
    BY <1>1, <1>6, <1>27, SweepFields, OnToFields DEF TypeOK, CalleesAreKnown, SweepNext,
      Hangup, verbVars, sweepVars, legVars
  <2>7. WinnerIsKept'
    BY <1>1, <1>5, <1>7, <1>27, SweepFields, OnToFields DEF TypeOK, SweepInv, WinnerIsKept,
      SweepNext, Hangup, verbVars, sweepVars, legVars
  <2> QED
    BY <2>1, <2>2, <2>3, <2>4, <2>5, <2>6, <2>7 DEF DialInv
<1>28. ASSUME NEW s \in sweeps, Swept(s) PROVE DialInv'
  <2>1. TypeOK'
    BY <1>1, <1>28, SweepFields, ResumedFields DEF TypeOK, Swept, verbVars, sweepVars,
      legVars
  <2>2. LegInv'
    BY <1>2, <1>28 DEF LegInv, Before, Swept, verbVars, sweepVars, legVars
  <2>3. KnownInv'
    BY <1>1, <1>3, <1>28, SweepFields, ResumedFields DEF TypeOK, KnownInv, Known, Swept,
      verbVars, sweepVars, legVars
  <2>4. CutInv'
    BY <1>4, <1>28 DEF CutInv, Swept, verbVars, sweepVars, legVars
  <2>5. SweepInv'
    BY <1>1, <1>5, <1>28, SweepFields, ResumedFields DEF TypeOK, SweepInv, Swept, verbVars,
      sweepVars, legVars
  <2>6. CalleesAreKnown'
    BY <1>1, <1>6, <1>28, SweepFields, ResumedFields DEF TypeOK, CalleesAreKnown, Swept,
      verbVars, sweepVars, legVars
  <2>7. WinnerIsKept'
    BY <1>1, <1>7, <1>28, SweepFields, ResumedFields DEF TypeOK, WinnerIsKept, Swept,
      verbVars, sweepVars, legVars
  <2> QED
    BY <2>1, <2>2, <2>3, <2>4, <2>5, <2>6, <2>7 DEF DialInv
<1>29. ASSUME NEW s \in sweeps, WinnerSwept(s) PROVE DialInv'
  <2>1. TypeOK'
    BY <1>1, <1>29 DEF TypeOK, WinnerSwept, Through, Forgotten, verbVars, sweepVars, legVars
  <2>2. LegInv'
    BY <1>2, <1>29 DEF LegInv, Before, WinnerSwept, Through, Forgotten, verbVars, sweepVars,
      legVars
  <2>3. KnownInv'
    BY <1>3, <1>29 DEF KnownInv, Known, WinnerSwept, Through, Forgotten, verbVars,
      sweepVars, legVars
  <2>4. CutInv'
    BY <1>4, <1>29 DEF CutInv, WinnerSwept, Through, Forgotten, verbVars, sweepVars, legVars
  <2>5. SweepInv'
    BY <1>5, <1>29 DEF SweepInv, WinnerSwept, Through, Forgotten, verbVars, sweepVars,
      legVars
  <2>6. CalleesAreKnown'
    BY <1>4, <1>6, <1>29 DEF CutInv, CalleesAreKnown, WinnerSwept, Through, Forgotten,
      verbVars, sweepVars, legVars
  <2>7. WinnerIsKept'
    BY <1>7, <1>29 DEF WinnerIsKept, WinnerSwept, Through, Forgotten, verbVars, sweepVars,
      legVars
  <2> QED
    BY <2>1, <2>2, <2>3, <2>4, <2>5, <2>6, <2>7 DEF DialInv
<1>30. ASSUME NEW s \in sweeps, TimerSwept(s) PROVE DialInv'
  <2>1. TypeOK'
    BY <1>1, <1>30, NewSweepType DEF TypeOK, TimerSwept, Through, Forgotten, verbVars,
      sweepVars, legVars
  <2>2. LegInv'
    BY <1>2, <1>30 DEF LegInv, Before, TimerSwept, Through, Forgotten, verbVars, sweepVars,
      legVars
  <2>3. KnownInv'
    BY <1>3, <1>30 DEF KnownInv, Known, TimerSwept, Through, Forgotten, verbVars, sweepVars,
      legVars
  <2>4. CutInv'
    BY <1>4, <1>30 DEF CutInv, TimerSwept, Through, Forgotten, verbVars, sweepVars, legVars
  <2>5. SweepInv'
    BY <1>5, <1>30 DEF SweepInv, TimerSwept, Through, Forgotten, verbVars, sweepVars,
      legVars
  <2>6. CalleesAreKnown'
    BY <1>4, <1>6, <1>30 DEF CutInv, CalleesAreKnown, TimerSwept, Through, Forgotten,
      verbVars, sweepVars, legVars
  <2>7. WinnerIsKept'
    BY <1>7, <1>30 DEF WinnerIsKept, TimerSwept, Through, Forgotten, verbVars, sweepVars,
      legVars
  <2> QED
    BY <2>1, <2>2, <2>3, <2>4, <2>5, <2>6, <2>7 DEF DialInv
<1>31. ASSUME NEW s \in sweeps, KillSwept(s) PROVE DialInv'
  <2>1. TypeOK'
    BY <1>1, <1>31 DEF TypeOK, KillSwept, Through, Forgotten
  <2>2. LegInv'
    BY <1>2, <1>31 DEF LegInv, Before, KillSwept, Through, Forgotten
  <2>3. KnownInv'
    BY <1>3, <1>31 DEF KnownInv, Known, KillSwept, Through, Forgotten
  <2>4. CutInv'
    BY <1>4, <1>31 DEF CutInv, KillSwept, Through, Forgotten
  <2>5. SweepInv'
    BY <1>5, <1>31 DEF SweepInv, KillSwept, Through, Forgotten
  <2>6. CalleesAreKnown'
    BY <1>4, <1>6, <1>31 DEF CutInv, CalleesAreKnown, KillSwept, Through, Forgotten
  <2>7. WinnerIsKept'
    BY <1>5, <1>7, <1>31 DEF SweepInv, WinnerIsKept, KillSwept, Through, Forgotten
  <2> QED
    BY <2>1, <2>2, <2>3, <2>4, <2>5, <2>6, <2>7 DEF DialInv
<1>32. CASE UNCHANGED vars
  BY <1>1, <1>2, <1>3, <1>4, <1>5, <1>6, <1>7, <1>32 DEF DialInv, vars, verbVars, sweepVars,
    legVars, TypeOK, LegInv, KnownInv, CutInv, SweepInv, CalleesAreKnown, WinnerIsKept,
    Before, Known
<1> QED
  BY <1>40, <1>8, <1>9, <1>10, <1>11, <1>12, <1>13, <1>14, <1>15, <1>16, <1>17, <1>18, <1>19,
    <1>20, <1>21, <1>22, <1>23, <1>24, <1>25, <1>26, <1>27, <1>28, <1>29, <1>30, <1>31, <1>32
    DEF Next, Verb, Sweeping, Setup, Proceed

\* No call is placed at first.
LEMMA Initially == Init => DialInv
<1> SUFFICES ASSUME Init PROVE DialInv
  OBVIOUS
<1>1. TypeOK
  BY DEF Init, TypeOK
<1>2. LegInv /\ KnownInv /\ CutInv
  BY DEF Init, LegInv, KnownInv, CutInv, Before
<1>3. SweepInv /\ CalleesAreKnown /\ WinnerIsKept
  BY DEF Init, SweepInv, CalleesAreKnown, WinnerIsKept
<1> QED
  BY <1>1, <1>2, <1>3 DEF DialInv

\* The invariant holds in every state of every execution.
THEOREM Invariance == Spec => []DialInv
BY Initially, Steps, PTL DEF Spec

\* TypeOK for any targets, with and without confirmation and answerOnBridge (dial.js).
THEOREM DialTypes == Spec => []TypeOK
<1>1. DialInv => TypeOK
  BY DEF DialInv
<1> QED
  BY <1>1, Invariance, PTL

\* However many targets are called at once, whoever is connected is the accepted call, on
\* the map or in a sweep, unless the verb lost track of him (_attemptCalls, _killOutdials).
THEOREM CalleesKnown == Spec => []CalleesAreKnown
<1>1. DialInv => CalleesAreKnown
  BY DEF DialInv
<1> QED
  BY <1>1, Invariance, PTL

\* The sweep of the losers spares the winner (_connectSingleDial: "order is important").
THEOREM WinnerKept == Spec => []WinnerIsKept
<1>1. DialInv => WinnerIsKept
  BY DEF DialInv
<1> QED
  BY <1>1, Invariance, PTL
----------------------------------------------------------------------------
(* The verb is never stuck *)

TimerSweeps == \E s \in sweeps : s.by = "timer"

\* While the verb goes on: a call that was not placed yet is in no sweep.
PlacedInv ==
  ~killed => \A t \in Targets : leg[t] \in {"idle", "lookup"} =>
               t \notin dials \cup cut /\ \A s \in sweeps : t \notin s.rest

\* A call on the map that the verb does not listen to was hung up.
MapInv ==
  ~killed => /\ \A s \in sweeps : s.cur # Nobody => s.cur \in cut
             /\ \A t \in dials : t \notin heard => t \in cut

\* Before somebody is accepted only the timer hangs up, and its sweep is not over yet; the
\* verb listens to no other call than those on the map.
RingInv ==
  (~killed /\ sd = Nobody) =>
    /\ \A s \in sweeps : s.by = "timer"
    /\ dials \cap cut # {} => TimerSweeps
    /\ \A t \in heard : t \in dials \/ leg[t] = "over"

\* A verb that was killed has notified exec() or will: a sweep of kill() is under way ...
KilledIsSwept == killed => notified \/ \E s \in sweeps : s.by = "kill"

\* ... and one that waits for somebody to accept has the timer, the sweep that it began, or
\* a call on the map: if it missed no failure, one that has not ended.
WaitingInv ==
  (pc = "await" /\ ~killed /\ sd = Nobody) => ringTimer \/ TimerSweeps \/ dials # {}

WaitingIsAlive ==
  (pc = "await" /\ ~killed /\ sd = Nobody /\ Missed = {})
    => ringTimer \/ TimerSweeps \/ \E t \in dials : leg[t] # "over"

AliveInv == PlacedInv /\ MapInv /\ RingInv /\ KilledIsSwept /\ WaitingInv

\* Of a verb that is killed only one thing is asked.
LEMMA KilledVerb ==
  ASSUME killed', KilledIsSwept'
  PROVE  AliveInv'
BY DEF AliveInv, PlacedInv, MapInv, RingInv, WaitingInv

\* What kill() begins with is a sweep of its own.
LEMMA KillBegins ==
  ASSUME NEW legs, KillVerb(legs)
  PROVE  AliveInv'
<1>1. killed' /\ NewSweep("kill", legs) \in sweeps' /\ NewSweep("kill", legs).by = "kill"
  BY DEF KillVerb, NewSweep
<1>2. KilledIsSwept'
  BY <1>1 DEF KilledIsSwept
<1>3. QED
  BY <1>1, <1>2, KilledVerb

\* A call ends, and with the last one goes the verb.
LEMMA CallEnds ==
  ASSUME TypeOK, AliveInv, NEW t \in Targets, NEW timer \in {FALSE, ringTimer},
         leg[t] \notin {"idle", "lookup"}, leg' = [leg EXCEPT ![t] = "over"],
         IF t \in heard THEN Lose(t, timer) ELSE UNCHANGED sweepVars,
         heard' = heard \/ heard' = heard \ {t}, UNCHANGED <<cut, pc, notified, sd>>
  PROVE  AliveInv'
<1>1. PlacedInv /\ MapInv /\ RingInv /\ KilledIsSwept /\ WaitingInv
  BY DEF AliveInv
<1>2. \A u \in Targets : leg'[u] = IF u = t THEN "over" ELSE leg[u]
  BY DEF TypeOK
<1>3. dials \subseteq Targets /\ heard \subseteq Targets
  BY DEF TypeOK
<1>4. CASE KillVerb({})
  BY <1>4, KillBegins
<1>5. CASE /\ t \in heard /\ dials' = dials \ {t} /\ (dials' # {} \/ sd # Nobody)
           /\ UNCHANGED <<killed, sweeps>> /\ ringTimer' = timer
  <2>1. PlacedInv'
    BY <1>1, <1>2, <1>5 DEF PlacedInv
  <2>2. MapInv'
    BY <1>1, <1>2, <1>3, <1>5 DEF MapInv
  <2>3. RingInv'
    BY <1>1, <1>2, <1>3, <1>5 DEF RingInv, TimerSweeps
  <2>4. KilledIsSwept'
    BY <1>1, <1>5 DEF KilledIsSwept
  <2>5. WaitingInv'
    BY <1>1, <1>2, <1>3, <1>5 DEF WaitingInv, MapInv, RingInv, TimerSweeps
  <2>6. QED
    BY <2>1, <2>2, <2>3, <2>4, <2>5 DEF AliveInv
<1>6. CASE t \notin heard /\ UNCHANGED sweepVars
  <2>1. heard' = heard
    BY <1>6
  <2>2. UNCHANGED <<killed, ringTimer, dials, sweeps>>
    BY <1>6 DEF sweepVars
  <2>3. PlacedInv'
    BY <1>1, <1>2, <2>2 DEF PlacedInv
  <2>4. MapInv'
    BY <1>1, <1>2, <1>3, <1>6, <2>1, <2>2 DEF MapInv
  <2>5. RingInv'
    BY <1>1, <1>2, <1>3, <2>1, <2>2 DEF RingInv, TimerSweeps
  <2>6. KilledIsSwept'
    BY <1>1, <2>2 DEF KilledIsSwept
  <2>7. WaitingInv'
    BY <1>1, <1>2, <1>3, <1>6, <2>2 DEF WaitingInv, MapInv, RingInv, TimerSweeps
  <2>8. QED
    BY <2>3, <2>4, <2>5, <2>6, <2>7 DEF AliveInv
<1>7. QED
  BY <1>4, <1>5, <1>6 DEF Lose

\* A callee who answers is accepted ...
LEMMA CallAccepted ==
  ASSUME TypeOK, AliveInv, NEW t \in Targets, leg[t] \notin {"idle", "lookup"},
         leg' = [leg EXCEPT ![t] = "answered"], Accept(t),
         UNCHANGED <<cut, heard, pc, notified>>
  PROVE  AliveInv'
<1>1. PlacedInv /\ MapInv /\ RingInv /\ KilledIsSwept /\ WaitingInv
  BY DEF AliveInv
<1>2. \A u \in Targets : leg'[u] = IF u = t THEN "answered" ELSE leg[u]
  BY DEF TypeOK
<1>3. sd' = t /\ dials' = dials \ {t} /\ UNCHANGED killed /\ t # Nobody
  BY DialAssumption DEF Accept, DialAssumption
<1>4. sweeps' = sweeps \/ sweeps' = sweeps \cup {NewSweep("winner", dials \ {t})}
  BY DEF Accept, Selected
<1>5. PlacedInv'
  BY <1>1, <1>2, <1>3, <1>4, NewSweepFields DEF PlacedInv
<1>6. MapInv'
  BY <1>1, <1>2, <1>3, <1>4, NewSweepFields DEF MapInv, TypeOK
<1>7. RingInv' /\ WaitingInv'
  BY <1>3 DEF RingInv, WaitingInv
<1>8. KilledIsSwept'
  BY <1>1, <1>3, <1>4 DEF KilledIsSwept
<1>9. QED
  BY <1>5, <1>6, <1>7, <1>8 DEF AliveInv

\* ... or, if the verb does not listen or there is an application to run first, is not.
LEMMA CallNotAccepted ==
  ASSUME TypeOK, AliveInv, NEW t \in Targets, leg[t] \notin {"idle", "lookup", "over"},
         NEW v \in {"over", "confirming", "answered"}, v = "over" => t \in cut,
         leg' = [leg EXCEPT ![t] = v], NotAccepted,
         ringTimer' = IF t \in heard THEN FALSE ELSE ringTimer,
         UNCHANGED <<cut, heard, pc, notified>>
  PROVE  AliveInv'
<1>1. PlacedInv /\ MapInv /\ RingInv /\ KilledIsSwept /\ WaitingInv
  BY DEF AliveInv
<1>2. \A u \in Targets : leg'[u] = IF u = t THEN v ELSE leg[u]
  BY DEF TypeOK
<1>3. UNCHANGED <<sd, dials, killed, sweeps>> /\ dials \subseteq Targets
  BY DEF NotAccepted, TypeOK
<1>4. PlacedInv'
  BY <1>1, <1>2, <1>3 DEF PlacedInv
<1>5. MapInv'
  BY <1>1, <1>2, <1>3 DEF MapInv
<1>6. RingInv'
  BY <1>1, <1>2, <1>3 DEF RingInv, TimerSweeps, TypeOK
<1>7. KilledIsSwept'
  BY <1>1, <1>3 DEF KilledIsSwept
<1>8. WaitingInv'
  BY <1>1, <1>2, <1>3 DEF WaitingInv, RingInv, TimerSweeps
<1>9. QED
  BY <1>4, <1>5, <1>6, <1>7, <1>8 DEF AliveInv

\* Whatever happens next, the verb is not stuck.
LEMMA AliveSteps ==
  ASSUME DialInv, AliveInv, Next
  PROVE  AliveInv'
<1>0. AliveInv
  OBVIOUS
<1>1. TypeOK /\ LegInv /\ SweepInv
  BY DEF DialInv
<1>2. PlacedInv /\ MapInv /\ RingInv /\ KilledIsSwept /\ WaitingInv
  BY DEF AliveInv
<1>3. CASE Prepared
  <2>1. PlacedInv'
    BY <1>2, <1>3 DEF PlacedInv, Prepared, sweepVars, legVars
  <2>2. MapInv'
    BY <1>2, <1>3 DEF MapInv, Prepared, sweepVars, legVars
  <2>3. RingInv'
    BY <1>2, <1>3 DEF RingInv, TimerSweeps, Prepared, sweepVars, legVars
  <2>4. KilledIsSwept'
    BY <1>2, <1>3 DEF KilledIsSwept, Prepared, sweepVars
  <2>5. WaitingInv'
    BY <1>3 DEF WaitingInv, Prepared, sweepVars
  <2> QED
    BY <2>1, <2>2, <2>3, <2>4, <2>5 DEF AliveInv
<1>4. CASE Attempt
  <2>1. PlacedInv'
    BY <1>1, <1>2, <1>4 DEF PlacedInv, Attempt, LegInv
  <2>2. MapInv'
    BY <1>1, <1>2, <1>4 DEF TypeOK, MapInv, Attempt
  <2>3. RingInv'
    BY <1>1, <1>2, <1>4 DEF TypeOK, RingInv, TimerSweeps, Attempt, LegInv
  <2>4. KilledIsSwept'
    BY <1>2, <1>4 DEF KilledIsSwept, Attempt
  <2>5. WaitingInv'
    BY <1>4 DEF WaitingInv, Attempt
  <2> QED
    BY <2>1, <2>2, <2>3, <2>4, <2>5 DEF AliveInv
<1>5. CASE AttemptFails \/ Kill
  BY <1>5, KillBegins DEF AttemptFails, Kill
<1>6. CASE TaskEnds
  <2>1. PlacedInv'
    BY <1>2, <1>6 DEF PlacedInv, TaskEnds, sweepVars, legVars
  <2>2. MapInv'
    BY <1>2, <1>6 DEF MapInv, TaskEnds, sweepVars, legVars
  <2>3. RingInv'
    BY <1>2, <1>6 DEF RingInv, TimerSweeps, TaskEnds, sweepVars, legVars
  <2>4. KilledIsSwept'
    BY <1>6 DEF KilledIsSwept, TaskEnds
  <2>5. WaitingInv'
    BY <1>6 DEF WaitingInv, TaskEnds
  <2> QED
    BY <2>1, <2>2, <2>3, <2>4, <2>5 DEF AliveInv
<1>7. CASE RingTimeout
  <2>1. PlacedInv'
    BY <1>2, <1>7, NewSweepFields DEF PlacedInv, RingTimeout, legVars
  <2>2. MapInv'
    BY <1>2, <1>7, NewSweepFields DEF MapInv, RingTimeout, legVars
  <2>3. RingInv'
    BY <1>2, <1>7, NewSweepFields DEF RingInv, TimerSweeps, RingTimeout, verbVars, legVars
  <2>4. KilledIsSwept'
    BY <1>2, <1>7 DEF KilledIsSwept, RingTimeout, verbVars
  <2>5. WaitingInv'
    BY <1>7, NewSweepFields DEF WaitingInv, TimerSweeps, RingTimeout
  <2> QED
    BY <2>1, <2>2, <2>3, <2>4, <2>5 DEF AliveInv
<1>8. ASSUME NEW t \in Targets, PlaceCall(t) PROVE AliveInv'
  <2>1. PlacedInv'
    BY <1>1, <1>2, <1>8 DEF TypeOK, PlacedInv, PlaceCall, Goto
  <2>2. MapInv'
    BY <1>1, <1>2, <1>8 DEF TypeOK, MapInv, PlaceCall, Goto
  <2>3. RingInv'
    BY <1>1, <1>2, <1>8 DEF TypeOK, RingInv, PlacedInv, TimerSweeps, PlaceCall, Goto,
      verbVars
  <2>4. KilledIsSwept'
    BY <1>2, <1>8 DEF KilledIsSwept, PlaceCall, verbVars
  <2>5. WaitingInv'
    BY <1>1, <1>8 DEF TypeOK, WaitingInv, PlaceCall, Goto
  <2> QED
    BY <2>1, <2>2, <2>3, <2>4, <2>5 DEF AliveInv
<1>9. ASSUME NEW t \in Targets, SetupFails(t) PROVE AliveInv'
  <2>1. PlacedInv'
    BY <1>2, <1>9 DEF PlacedInv, SetupFails, Goto, sweepVars
  <2>2. MapInv'
    BY <1>2, <1>9 DEF MapInv, PlacedInv, SetupFails, Goto, sweepVars
  <2>3. RingInv'
    BY <1>2, <1>9 DEF RingInv, TimerSweeps, SetupFails, Goto, verbVars, sweepVars
  <2>4. KilledIsSwept'
    BY <1>2, <1>9 DEF KilledIsSwept, SetupFails, verbVars, sweepVars
  <2>5. WaitingInv'
    BY <1>2, <1>9 DEF WaitingInv, PlacedInv, TimerSweeps, SetupFails, Goto, verbVars,
      sweepVars
  <2> QED
    BY <2>1, <2>2, <2>3, <2>4, <2>5 DEF AliveInv
<1>10. ASSUME NEW t \in Targets, EndpointMade(t) PROVE AliveInv'
  <2>1. PlacedInv'
    BY <1>2, <1>10 DEF PlacedInv, EndpointMade, Goto, sweepVars
  <2>2. MapInv'
    BY <1>2, <1>10 DEF MapInv, EndpointMade, Goto, sweepVars
  <2>3. RingInv'
    BY <1>2, <1>10 DEF RingInv, TimerSweeps, EndpointMade, Goto, verbVars, sweepVars
  <2>4. KilledIsSwept'
    BY <1>2, <1>10 DEF KilledIsSwept, EndpointMade, verbVars, sweepVars
  <2>5. WaitingInv'
    BY <1>2, <1>10 DEF WaitingInv, RingInv, TimerSweeps, EndpointMade, Goto, verbVars,
      sweepVars
  <2> QED
    BY <2>1, <2>2, <2>3, <2>4, <2>5 DEF AliveInv
<1>11. ASSUME NEW t \in Targets, InviteSent(t) PROVE AliveInv'
  <2>1. PlacedInv'
    BY <1>2, <1>11 DEF PlacedInv, InviteSent, Goto, sweepVars
  <2>2. MapInv'
    BY <1>2, <1>11 DEF MapInv, InviteSent, Goto, sweepVars
  <2>3. RingInv'
    BY <1>2, <1>11 DEF RingInv, TimerSweeps, InviteSent, Goto, verbVars, sweepVars
  <2>4. KilledIsSwept'
    BY <1>2, <1>11 DEF KilledIsSwept, InviteSent, verbVars, sweepVars
  <2>5. WaitingInv'
    BY <1>2, <1>11 DEF WaitingInv, TimerSweeps, InviteSent, Goto, verbVars, sweepVars
  <2> QED
    BY <2>1, <2>2, <2>3, <2>4, <2>5 DEF AliveInv
<1>12. ASSUME NEW t \in Targets, Answer(t) PROVE AliveInv'
  <2>1. PlacedInv'
    BY <1>2, <1>12 DEF PlacedInv, Answer, Goto, sweepVars
  <2>2. MapInv'
    BY <1>2, <1>12 DEF MapInv, Answer, Goto, sweepVars
  <2>3. RingInv'
    BY <1>2, <1>12 DEF RingInv, TimerSweeps, Answer, Goto, verbVars, sweepVars
  <2>4. KilledIsSwept'
    BY <1>2, <1>12 DEF KilledIsSwept, Answer, verbVars, sweepVars
  <2>5. WaitingInv'
    BY <1>2, <1>12 DEF WaitingInv, TimerSweeps, Answer, Goto, verbVars, sweepVars
  <2> QED
    BY <2>1, <2>2, <2>3, <2>4, <2>5 DEF AliveInv
<1>13. ASSUME NEW t \in Targets, CreateFails(t) \/ Decline(t) PROVE AliveInv'
  <2>1. /\ leg[t] \notin {"idle", "lookup"} /\ Refuse(t)
        /\ UNCHANGED <<cut, pc, notified, sd>>
    BY <1>13 DEF CreateFails, Decline, verbVars
  <2>2. leg' = [leg EXCEPT ![t] = "over"] /\ (heard' = heard \/ heard' = heard \ {t})
    BY <2>1 DEF Refuse, Goto
  <2>3. IF t \in heard THEN Lose(t, FALSE) ELSE UNCHANGED sweepVars
    BY <2>1 DEF Refuse
  <2> QED
    BY <1>1, <2>1, <2>2, <2>3, CallEnds
<1>40. ASSUME NEW t \in Targets, FailUnsent(t) PROVE AliveInv'
  <2>1. PlacedInv'
    BY <1>1, <1>2, <1>40 DEF TypeOK, PlacedInv, FailUnsent, Goto, sweepVars
  <2>2. MapInv'
    BY <1>2, <1>40 DEF MapInv, FailUnsent, sweepVars
  <2>3. RingInv'
    BY <1>1, <1>2, <1>40 DEF TypeOK, RingInv, TimerSweeps, FailUnsent, Goto, verbVars, sweepVars
  <2>4. KilledIsSwept'
    BY <1>2, <1>40 DEF KilledIsSwept, FailUnsent, verbVars, sweepVars
  <2>5. WaitingInv'
    BY <1>2, <1>40 DEF WaitingInv, TimerSweeps, FailUnsent, verbVars, sweepVars
  <2> QED
    BY <2>1, <2>2, <2>3, <2>4, <2>5 DEF AliveInv
<1>14. ASSUME NEW t \in Targets, Fail(t) PROVE AliveInv'
  <2>1. /\ leg[t] \notin {"idle", "lookup"} /\ leg' = [leg EXCEPT ![t] = "over"]
        /\ UNCHANGED <<cut, pc, notified, sd, heard>>
    BY <1>14 DEF Fail, Goto, verbVars
  <2>2. IF t \in heard THEN Lose(t, ringTimer) ELSE UNCHANGED sweepVars
    BY <1>14 DEF Fail
  <2> QED
    BY <1>1, <2>1, <2>2, CallEnds
<1>15. ASSUME NEW t \in Targets, Connected(t) PROVE AliveInv'
  <2>1. leg[t] \notin {"idle", "lookup", "over"} /\ UNCHANGED <<cut, heard, pc, notified>>
    BY <1>15 DEF Connected
  <2>2. CASE t \in heard \ (cut \cup Confirmed)
    <3>1. leg' = [leg EXCEPT ![t] = "answered"] /\ Accept(t)
      BY <1>15, <2>2 DEF Connected, Goto
    <3> QED
      BY <1>1, <2>1, <3>1, CallAccepted
  <2>3. CASE t \notin heard \ (cut \cup Confirmed)
    <3>1. /\ NotAccepted /\ ringTimer' = IF t \in heard THEN FALSE ELSE ringTimer
          /\ \E v \in {"over", "confirming", "answered"} :
               leg' = [leg EXCEPT ![t] = v] /\ (v = "over" => t \in cut)
      BY <1>15, <2>3 DEF Connected, Goto
    <3> QED
      BY <1>1, <2>1, <3>1, CallNotAccepted
  <2> QED
    BY <2>2, <2>3
<1>16. ASSUME NEW t \in Targets, Confirm(t) PROVE AliveInv'
  <2>1. /\ leg[t] \notin {"idle", "lookup", "over"} /\ UNCHANGED <<cut, heard, pc, notified>>
        /\ leg' = [leg EXCEPT ![t] = "answered"]
    BY <1>16 DEF Confirm, Goto
  <2>2. CASE t \in heard
    BY <1>1, <1>16, <2>1, <2>2, CallAccepted DEF Confirm
  <2>3. CASE t \notin heard
    <3>1. NotAccepted /\ ringTimer' = IF t \in heard THEN FALSE ELSE ringTimer
      BY <1>16, <2>3 DEF Confirm
    <3> QED
      BY <1>1, <2>1, <3>1, CallNotAccepted
  <2> QED
    BY <2>2, <2>3
<1>17. ASSUME NEW t \in Targets, CalleeHangsUp(t) PROVE AliveInv'
  <2>1. CASE KillVerb(dials)
    BY <2>1, KillBegins
  <2>2. CASE UNCHANGED <<killed, ringTimer, sweeps>>
    <3>1. UNCHANGED <<killed, ringTimer, sweeps, leg, cut, dials, heard, pc, notified, sd>>
      BY <1>17, <2>2 DEF CalleeHangsUp, verbVars
    <3> QED
      BY <3>1 DEF AliveInv, PlacedInv, MapInv, RingInv, KilledIsSwept, WaitingInv,
        TimerSweeps
  <2> QED
    BY <1>17, <2>1, <2>2 DEF CalleeHangsUp
<1>18. ASSUME NEW t \in Targets, Propagated(t) PROVE AliveInv'
  <2>1. CASE KillVerb(dials)
    BY <2>1, KillBegins
  <2>2. CASE sd # Nobody
    <3>1. /\ sweeps' = sweeps \cup {NewSweep("winner", dials)}
          /\ UNCHANGED <<killed, leg, cut, dials, heard, pc, notified, sd>>
      BY <1>18, <2>2 DEF Propagated, Selected, legVars
    <3>2. PlacedInv' /\ MapInv'
      BY <1>2, <3>1, NewSweepFields DEF PlacedInv, MapInv
    <3>3. RingInv' /\ WaitingInv'
      BY <2>2, <3>1 DEF RingInv, WaitingInv
    <3>4. KilledIsSwept'
      BY <1>2, <3>1 DEF KilledIsSwept
    <3> QED
      BY <3>2, <3>3, <3>4 DEF AliveInv
  <2> QED
    BY <1>18, <2>1, <2>2 DEF Propagated
<1>19. ASSUME NEW t \in Targets, PropagateFails(t) PROVE AliveInv'
  BY <1>19, KillBegins DEF PropagateFails
<1>20. ASSUME NEW s \in sweeps, NEW t \in Targets, SweepNext(s, t) PROVE AliveInv'
  <2>1. /\ s.cur = Nobody /\ t \in s.rest /\ cut' = cut \cup {t}
        /\ sweeps' = (sweeps \ {s}) \cup {OnTo(s, t)}
        /\ UNCHANGED <<leg, killed, ringTimer, dials, heard, pc, notified, sd>>
    BY <1>20 DEF SweepNext, Hangup, verbVars
  <2>2. OnTo(s, t).by = s.by /\ OnTo(s, t).rest = s.rest \ {t} /\ OnTo(s, t).cur = t
    BY DEF OnTo
  <2>3. PlacedInv'
    BY <1>2, <2>1, <2>2 DEF PlacedInv
  <2>4. MapInv'
    BY <1>2, <2>1, <2>2 DEF MapInv
  <2>5. TimerSweeps => TimerSweeps'
    BY <2>1, <2>2 DEF TimerSweeps
  <2>6. RingInv'
    BY <1>2, <2>1, <2>2 DEF RingInv, TimerSweeps
  <2>7. KilledIsSwept'
    BY <1>2, <2>1, <2>2 DEF KilledIsSwept
  <2>8. WaitingInv'
    BY <1>2, <2>1, <2>5 DEF WaitingInv
  <2> QED
    BY <2>3, <2>4, <2>6, <2>7, <2>8 DEF AliveInv
<1>21. ASSUME NEW s \in sweeps, Swept(s) PROVE AliveInv'
  <2>1. PlacedInv'
    BY <1>1, <1>2, <1>21, ResumedFields DEF TypeOK, PlacedInv, Swept, legVars, Sweep
  <2>2. MapInv'
    BY <1>1, <1>2, <1>21 DEF TypeOK, MapInv, Swept, legVars, Resumed, Sweep
  <2>3. RingInv'
    BY <1>1, <1>2, <1>21, ResumedFields DEF TypeOK, RingInv, TimerSweeps, Swept, verbVars,
      legVars
  <2>4. KilledIsSwept'
    BY <1>1, <1>2, <1>21, ResumedFields DEF TypeOK, KilledIsSwept, Swept, verbVars
  <2>5. WaitingInv'
    BY <1>1, <1>2, <1>21, ResumedFields DEF TypeOK, WaitingInv, TimerSweeps, Swept,
      verbVars, legVars, Sweep
  <2> QED
    BY <2>1, <2>2, <2>3, <2>4, <2>5 DEF AliveInv
<1>22. ASSUME NEW s \in sweeps, WinnerSwept(s) PROVE AliveInv'
  <2>1. PlacedInv'
    BY <1>2, <1>22 DEF PlacedInv, WinnerSwept
  <2>2. MapInv'
    BY <1>2, <1>22 DEF MapInv, WinnerSwept
  <2>3. RingInv'
    BY <1>2, <1>22 DEF RingInv, WinnerSwept, verbVars
  <2>4. KilledIsSwept'
    BY <1>2, <1>22 DEF KilledIsSwept, WinnerSwept, verbVars
  <2>5. WaitingInv'
    BY <1>2, <1>22 DEF WaitingInv, RingInv, WinnerSwept, verbVars
  <2> QED
    BY <2>1, <2>2, <2>3, <2>4, <2>5 DEF AliveInv
<1>23. ASSUME NEW s \in sweeps, TimerSwept(s) PROVE AliveInv'
  <2>1. PlacedInv'
    BY <1>23 DEF PlacedInv, TimerSwept
  <2>2. MapInv'
    BY <1>23 DEF MapInv, TimerSwept
  <2>3. RingInv'
    BY <1>23 DEF RingInv, TimerSwept
  <2>4. KilledIsSwept'
    BY <1>23, NewSweepFields DEF KilledIsSwept, TimerSwept
  <2>5. WaitingInv'
    BY <1>23 DEF WaitingInv, TimerSwept
  <2> QED
    BY <2>1, <2>2, <2>3, <2>4, <2>5 DEF AliveInv
<1>24. ASSUME NEW s \in sweeps, KillSwept(s) PROVE AliveInv'
  <2>1. PlacedInv'
    BY <1>1, <1>24 DEF PlacedInv, KillSwept, SweepInv
  <2>2. MapInv'
    BY <1>2, <1>24 DEF MapInv, KillSwept
  <2>3. RingInv'
    BY <1>1, <1>24 DEF RingInv, KillSwept, SweepInv
  <2>4. KilledIsSwept'
    BY <1>24 DEF KilledIsSwept, KillSwept
  <2>5. WaitingInv'
    BY <1>1, <1>24 DEF WaitingInv, KillSwept, SweepInv
  <2> QED
    BY <2>1, <2>2, <2>3, <2>4, <2>5 DEF AliveInv
<1> QED
  BY <1>40, <1>3, <1>4, <1>5, <1>6, <1>7, <1>8, <1>9, <1>10, <1>11, <1>12, <1>13, <1>14, <1>15,
    <1>16, <1>17, <1>18, <1>19, <1>20, <1>21, <1>22, <1>23, <1>24 DEF Next, Verb, Setup,
    Proceed, Sweeping

\* A verb that was killed has told exec() or has the sweep that will, and one that waits for
\* an answer has the timer, its sweep or a live call to kill it if none comes, whatever
\* calls, sweeps and hang-ups cross, unless it missed the failure of a call that was not
\* sent (kill, _killOutdials, _attemptCalls).
THEOREM VerbIsNeverStuck == Spec => [](KilledIsSwept /\ WaitingIsAlive)
<1>1. Init => AliveInv
  BY DEF Init, AliveInv, PlacedInv, MapInv, RingInv, KilledIsSwept, WaitingInv
<1>2. DialInv /\ AliveInv /\ [Next]_vars => AliveInv'
  <2>1. ASSUME AliveInv, UNCHANGED vars PROVE AliveInv'
    BY <2>1 DEF vars, verbVars, sweepVars, legVars, AliveInv, PlacedInv, MapInv, RingInv,
       KilledIsSwept, WaitingInv, TimerSweeps
  <2>2. QED
    BY <2>1, AliveSteps
<1>3. AliveInv => KilledIsSwept /\ WaitingIsAlive
  BY DEF AliveInv, RingInv, WaitingInv, WaitingIsAlive, Missed
<1>4. QED
  BY <1>1, <1>2, <1>3, Invariance, PTL DEF Spec
============================================================================
