------------------------- MODULE WsRequestorProofs -------------------------
(***************************************************************************)
(* That a requestor never has two connections, that on a connection that   *)
(* was re-established it sends nothing before the session is resumed, and  *)
(* that what it holds back till then waits for an answer under way, for    *)
(* any number of requests, reconnections, drops and failed attempts,       *)
(* unless HTTP errors are retried or the late failure of a refused socket  *)
(* was taken for that of a later one.                                      *)
(***************************************************************************)
EXTENDS WsRequestor, TLAPS

\* A socket is being opened exactly when someone hears of it; whoever connects or waits to
\* try again holds connectInProgress, alone, and there is no connection meanwhile.
ConnectingInv ==
  /\ orphans = 0
  /\ opening \in {0, 1}
  /\ opening = 1 <=> hears # "nobody"
  /\ hears # "nobody" => loop[hears] = "connect"
  /\ \A o \in Owners : loop[o] = "connect" => hears = o
  /\ \A o \in Owners : loop[o] # "none" => (inProgress /\ ws = "null")
  /\ \A o, p \in Owners : (loop[o] # "none" /\ loop[p] # "none") => o = p

\* HTTP errors are not retried, and no failure was taken for that of another socket.
Calm == ~RetryHttp /\ ~mistaken

IInv == TypeOK /\ (Calm => ConnectingInv)
----------------------------------------------------------------------------
(* Type correctness *)

ConnTypes ==
  /\ ws \in {"null", "up"} /\ inProgress \in BOOLEAN /\ opening \in Nat
  /\ hears \in Owners \cup {"nobody"}
  /\ loop \in [Owners -> {"none", "connect", "backoff"}]
  /\ retries \in [Owners -> Nat] /\ timers \in Nat /\ connections \in Nat
  /\ closed \in BOOLEAN

AckTypes ==
  /\ held \in {"none", "awaited", "set"} /\ rc \in BOOLEAN /\ oldRc \in Nat
  /\ st \in [Msgs -> Status] /\ broken \in BOOLEAN

GhostTypes ==
  /\ initMsg \in BOOLEAN
  /\ refused \in Nat /\ orphans \in Nat /\ mistaken \in BOOLEAN
  /\ early \in BOOLEAN /\ crashed \in BOOLEAN /\ drops \in Nat /\ failures \in Nat

LEMMA TypesSplit == TypeOK <=> (ConnTypes /\ AckTypes /\ GhostTypes)
BY DEF TypeOK, ConnTypes, AckTypes, GhostTypes

LEMMA OwnerFacts == /\ Msgs \subseteq Owners /\ "timer" \in Owners /\ "new" \in Msgs
                    /\ "nobody" \notin Owners /\ \A o \in Owners \ {"timer"} : o \in Msgs
BY WsAssumption DEF Msgs, Owners

LEMMA StatusFacts ==
  /\ {"unsent", "connecting", "queued", "moved", "flight", "lost", "resolved", "rejected",
      "discarded", "sent"} \subseteq Status
  /\ \A m \in Msgs : Sent(m) \in Status
BY DEF Status, InFlight, Final, Sent

LEMMA TurnTypes ==
  ASSUME NEW s \in [Msgs -> Status], NEW S, NEW v \in Status
  PROVE  Turn(s, S, v) \in [Msgs -> Status]
BY DEF Turn

LEMMA QueueTypes ==
  ASSUME NEW s \in [Msgs -> Status]
  PROVE  /\ \A gone \in BOOLEAN : SendQueued(s, gone) \in [Msgs -> Status]
         /\ RejectQueued(s) \in [Msgs -> Status]
BY StatusFacts DEF SendQueued, RejectQueued

LEMMA FailTypes ==
  ASSUME AckTypes, NEW s \in [Msgs -> Status], FailReconnect(s)
  PROVE  /\ held' \in {"none", "awaited", "set"} /\ broken' \in BOOLEAN
         /\ st' \in [Msgs -> Status]
BY QueueTypes DEF FailReconnect, AckTypes

LEMMA ResolveTypes ==
  ASSUME TypeOK, NEW s \in [Msgs -> Status], ResolveReconnect(s)
  PROVE  held' \in {"none", "awaited", "set"} /\ st' \in [Msgs -> Status]
BY QueueTypes DEF ResolveReconnect, TypeOK

LEMMA ClearTypes ==
  ASSUME AckTypes, NEW s \in [Msgs -> Status], ClearPending(s)
  PROVE  AckTypes'
<1>1. Turn(s, InFlight, "rejected") \in [Msgs -> Status]
  BY TurnTypes, StatusFacts
<1>2. FailReconnect(Turn(s, InFlight, "rejected")) /\ rc' = FALSE /\ oldRc' = 0
  BY DEF ClearPending
<1>3. QED
  BY <1>1, <1>2, FailTypes DEF AckTypes

LEMMA LoseTypes ==
  ASSUME AckTypes, NEW s \in [Msgs -> Status], LosePending(s)
  PROVE  AckTypes'
<1>1. Turn(s, {"flight"}, "lost") \in [Msgs -> Status]
  BY TurnTypes, StatusFacts
<1>2. rc' = FALSE /\ oldRc' = oldRc + (IF rc THEN 1 ELSE 0) /\ UNCHANGED <<held, broken>>
  BY DEF LosePending
<1>3. oldRc' \in Nat
  BY <1>2 DEF AckTypes
<1>4. st' \in [Msgs -> Status]
  BY <1>1 DEF LosePending
<1>5. QED
  BY <1>2, <1>3, <1>4 DEF AckTypes

LEMMA SocketClosedTypes ==
  ASSUME TypeOK, NEW s \in [Msgs -> Status], SocketClosed(s)
  PROVE  AckTypes' /\ ws' = "null" /\ timers' \in Nat
<1>1. AckTypes
  BY TypesSplit
<1>2. ClearPending(s) \/ LosePending(s)
  BY DEF SocketClosed
<1>3. ws' = "null" /\ timers' \in Nat
  BY DEF SocketClosed, ScheduleReconnect, TypeOK
<1>4. QED
  BY <1>1, <1>2, <1>3, ClearTypes, LoseTypes

LEMMA CloseTypes ==
  ASSUME TypeOK, NEW s \in [Msgs -> Status], CloseEffect(s)
  PROVE  AckTypes' /\ ws' = "null" /\ closed' = TRUE
BY TypesSplit, ClearTypes DEF CloseEffect

LEMMA ConnectTypes ==
  ASSUME TypeOK, NEW o \in Owners, Connect(o)
  PROVE  /\ opening' \in Nat /\ hears' \in Owners \cup {"nobody"}
         /\ loop' \in [Owners -> {"none", "connect", "backoff"}]
BY DEF Connect, TypeOK

LEMMA RequestTypes ==
  ASSUME TypeOK, NEW m \in Msgs, Request(m)
  PROVE  TypeOK'
<1>1. UNCHANGED <<ws, connections, closed, held, rc, oldRc, initMsg, broken, refused, orphans,
                  mistaken, early, crashed, drops, failures>>
  BY DEF Request, ackVars, otherVars
<1>2. st' \in [Msgs -> Status]
  BY StatusFacts DEF Request, TypeOK
<1>3. \/ UNCHANGED tryVars
      \/ inProgress' = TRUE /\ Connect(m) /\ UNCHANGED <<retries, timers>>
  BY DEF Request
<1>4. inProgress' \in BOOLEAN /\ opening' \in Nat /\ hears' \in Owners \cup {"nobody"}
      /\ loop' \in [Owners -> {"none", "connect", "backoff"}]
      /\ retries' \in [Owners -> Nat] /\ timers' \in Nat
  BY <1>3, ConnectTypes, OwnerFacts DEF tryVars, TypeOK
<1>5. QED
  BY <1>1, <1>2, <1>4 DEF TypeOK

LEMMA ProceedTypes ==
  ASSUME TypeOK, NEW o \in Owners, Proceed(o)
  PROVE  AckTypes' /\ initMsg' \in BOOLEAN
<1>1. initMsg' \in BOOLEAN /\ UNCHANGED <<rc, oldRc, held, broken>>
  BY DEF Proceed, TypeOK
<1>2. st \in [Msgs -> Status] /\ closed \in BOOLEAN
  BY DEF TypeOK
<1>3. CASE o = "timer"
  BY <1>1, <1>2, <1>3 DEF Proceed, AckTypes, TypeOK
<1>4. CASE o # "timer"
  <2>1. o \in Msgs
    BY <1>4, OwnerFacts
  <2>2. [st EXCEPT ![o] = Sent(o)] \in [Msgs -> Status] /\ [st EXCEPT ![o] = "queued"] \in [Msgs -> Status]
    BY <1>2, <2>1, StatusFacts
  <2>3. SendQueued([st EXCEPT ![o] = Sent(o)], closed) \in [Msgs -> Status]
    BY <1>2, <2>2, QueueTypes
  <2>4. st' \in [Msgs -> Status]
    BY <1>4, <2>2, <2>3 DEF Proceed
  <2>5. QED
    BY <1>1, <2>4 DEF AckTypes, TypeOK
<1>5. QED
  BY <1>3, <1>4

LEMMA ResumeTypes ==
  ASSUME TypeOK, NEW o \in Owners, Resume(o)
  PROVE  AckTypes' /\ initMsg' \in BOOLEAN
<1> DEFINE s == IF o = "timer" THEN st ELSE [st EXCEPT ![o] = "queued"]
<1>1. s \in [Msgs -> Status]
  BY StatusFacts, OwnerFacts DEF TypeOK
<1>2. Turn(s, InFlight, "moved") \in [Msgs -> Status]
  BY <1>1, TurnTypes, StatusFacts
<1>3. st' = IF initMsg THEN Turn(s, InFlight, "moved") ELSE s
  BY DEF Resume
<1>4. st' \in [Msgs -> Status]
  BY <1>1, <1>2, <1>3
<1>5. QED
  BY <1>4 DEF Resume, AckTypes, TypeOK

LEMMA OpenTypes ==
  ASSUME TypeOK, Open
  PROVE  TypeOK'
<1>1. /\ opening' \in Nat /\ UNCHANGED <<retries, timers, closed, early, drops, failures>>
      /\ UNCHANGED <<refused, orphans, mistaken>>
  BY DEF Open, TypeOK, lateVars
<1>2. CASE ws = "up"
  BY <1>1, <1>2 DEF Open, ackVars, TypeOK
<1>3. CASE ws # "up"
  <2>1. /\ ws' = "up" /\ inProgress' = FALSE /\ connections' = connections + 1
        /\ hears' = "nobody" /\ UNCHANGED crashed
    BY <1>3 DEF Open
  <2>2. AckTypes' /\ initMsg' \in BOOLEAN /\ loop' \in [Owners -> {"none", "connect", "backoff"}]
    <3>1. CASE hears = "nobody"
      BY <1>3, <3>1 DEF Open, ackVars, AckTypes, TypeOK
    <3>2. CASE hears # "nobody"
      <4>1. hears \in Owners
        BY <3>2 DEF TypeOK
      <4>2. loop' = [loop EXCEPT ![hears] = "none"] /\ (Resume(hears) \/ Proceed(hears))
        BY <1>3, <3>2 DEF Open
      <4>3. QED
        BY <4>1, <4>2, ResumeTypes, ProceedTypes DEF TypeOK
    <3>3. QED
      BY <3>1, <3>2
  <2>3. ConnTypes'
    <3>1. ConnTypes
      BY TypesSplit
    <3>2. connections' \in Nat /\ retries' \in [Owners -> Nat] /\ timers' \in Nat
      BY <1>1, <2>1, <3>1 DEF ConnTypes
    <3>3. closed' \in BOOLEAN
      BY <1>1, <3>1, Zenon DEF ConnTypes
    <3>4. ws' \in {"null", "up"} /\ inProgress' \in BOOLEAN /\ hears' \in Owners \cup {"nobody"}
      BY <2>1
    <3>5. QED
      BY <1>1, <2>2, <3>2, <3>3, <3>4, Zenon DEF ConnTypes
  <2>4. GhostTypes'
    <3>1. GhostTypes
      BY TypesSplit
    <3>2. /\ early' = early /\ crashed' = crashed /\ drops' = drops /\ failures' = failures
          /\ refused' = refused /\ orphans' = orphans /\ mistaken' = mistaken
      BY <1>1, <2>1
    <3>3. drops' \in Nat /\ failures' \in Nat /\ refused' \in Nat /\ orphans' \in Nat
      BY <3>1, <3>2 DEF GhostTypes
    <3>4. early' \in BOOLEAN /\ crashed' \in BOOLEAN /\ mistaken' \in BOOLEAN
      BY <3>1, <3>2, Zenon DEF GhostTypes
    <3>5. QED
      BY <2>2, <3>3, <3>4, Zenon DEF GhostTypes
  <2>5. QED
    BY <2>2, <2>3, <2>4 DEF ConnTypes, AckTypes, GhostTypes, TypeOK
<1>4. QED
  BY <1>2, <1>3

LEMMA RejectedTypes ==
  ASSUME TypeOK, hears # "nobody", NEW retry \in BOOLEAN
  PROVE  /\ Rejected(retry) \in [Msgs -> Status]
         /\ NotReady(retry) => /\ hears' \in Owners \cup {"nobody"}
                               /\ loop' \in [Owners -> {"none", "connect", "backoff"}]
                               /\ retries' \in [Owners -> Nat]
<1>1. hears \in Owners
  BY DEF TypeOK
<1>2. hears # "timer" => hears \in Msgs
  BY <1>1, OwnerFacts
<1>3. Rejected(retry) \in [Msgs -> Status]
  BY <1>2, StatusFacts DEF Rejected, TypeOK
<1>4. QED
  BY <1>1, <1>3 DEF NotReady, TypeOK

LEMMA SocketFailsTypes ==
  ASSUME TypeOK, NEW retry \in BOOLEAN, SocketFails(retry), opening' \in Nat,
         failures' \in Nat, refused' \in Nat, mistaken' \in BOOLEAN
  PROVE  TypeOK'
<1>1. orphans' \in Nat /\ early' \in BOOLEAN /\ UNCHANGED <<connections, initMsg, crashed, drops>>
  BY DEF SocketFails, TypeOK, Up
<1>2. CASE hears # "nobody" /\ (inProgress \/ connections = 0)
  <2>1. NotReady(retry) /\ inProgress' = (Again(retry) /\ inProgress)
    BY <1>2 DEF SocketFails
  <2>2. \/ CloseEffect(Rejected(retry)) /\ ScheduleReconnect
        \/ SocketClosed(Rejected(retry)) /\ UNCHANGED closed
    BY <1>2 DEF SocketFails
  <2>3. Rejected(retry) \in [Msgs -> Status] /\ hears' \in Owners \cup {"nobody"}
        /\ loop' \in [Owners -> {"none", "connect", "backoff"}] /\ retries' \in [Owners -> Nat]
    BY <1>2, <2>1, RejectedTypes
  <2>4. AckTypes' /\ ws' = "null" /\ timers' \in Nat /\ closed' \in BOOLEAN
    <3>1. CASE CloseEffect(Rejected(retry)) /\ ScheduleReconnect
      <4>1. timers' \in Nat
        BY <3>1 DEF TypeOK, ScheduleReconnect
      <4>2. QED
        BY <3>1, <4>1, <2>3, CloseTypes
    <3>2. CASE SocketClosed(Rejected(retry)) /\ UNCHANGED closed
      BY <3>2, <2>3, SocketClosedTypes DEF TypeOK
    <3>3. QED
      BY <2>2, <3>1, <3>2
  <2>5. inProgress' \in BOOLEAN
    BY <2>1 DEF Again
  <2>6. QED
    BY <1>1, <2>3, <2>4, <2>5 DEF TypeOK, AckTypes
<1>3. CASE ~(hears # "nobody" /\ (inProgress \/ connections = 0))
  <2>1. SocketClosed(st) /\ UNCHANGED <<hears, loop, retries, inProgress, closed>>
    BY <1>3 DEF SocketFails
  <2>2. AckTypes' /\ ws' = "null" /\ timers' \in Nat
    BY <2>1, SocketClosedTypes DEF TypeOK
  <2>3. QED
    BY <1>1, <2>1, <2>2 DEF TypeOK, AckTypes
<1>4. QED
  BY <1>2, <1>3

LEMMA FailsTypes ==
  ASSUME TypeOK, NEW retry \in BOOLEAN, ConnectFails(retry) \/ RefusedFails(retry)
  PROVE  TypeOK'
<1>1. SocketFails(retry) /\ opening' \in Nat /\ failures' \in Nat /\ refused' \in Nat
      /\ mistaken' \in BOOLEAN
  <2>1. SocketFails(retry) /\ opening' \in Nat /\ failures' \in Nat /\ refused' \in Nat
    BY DEF ConnectFails, RefusedFails, TypeOK
  <2>2. mistaken' \in BOOLEAN
    BY Zenon DEF ConnectFails, RefusedFails, TypeOK
  <2>3. QED
    BY <2>1, <2>2
<1>2. QED
  BY <1>1, SocketFailsTypes

\* OrphanCloses, like Drop or FarEndCloses for the connection.
LEMMA OrphanTypes ==
  ASSUME TypeOK, OrphanCloses
  PROVE  TypeOK'
<1>1. /\ UNCHANGED <<inProgress, opening, hears, loop, retries, connections, initMsg, refused,
                     mistaken, crashed, failures>>
      /\ drops' \in Nat /\ early' \in BOOLEAN /\ orphans' \in Nat
  BY DEF OrphanCloses, TypeOK, Up
<1>2. AckTypes' /\ ws' = "null" /\ timers' \in Nat /\ closed' \in BOOLEAN
  BY SocketClosedTypes, LoseTypes, TypesSplit DEF OrphanCloses, TypeOK
<1>3. QED
  BY <1>1, <1>2 DEF TypeOK, AckTypes

LEMMA RefusedTypes ==
  ASSUME TypeOK, ConnectRefused
  PROVE  TypeOK'
<1>1. opening' \in Nat /\ failures' \in Nat /\ crashed' \in BOOLEAN /\ inProgress' \in BOOLEAN
      /\ refused' \in Nat
      /\ UNCHANGED <<timers, connections, initMsg, orphans, mistaken, early, drops>>
  BY DEF ConnectRefused, TypeOK
<1>2. CASE ws = "up" \/ hears = "nobody"
  BY <1>1, <1>2 DEF ConnectRefused, TypeOK
<1>3. CASE ~(ws = "up" \/ hears = "nobody")
  <2>1. NotReady(RetryHttp)
    BY <1>3 DEF ConnectRefused
  <2>2. \/ CloseEffect(Rejected(RetryHttp))
        \/ st' = Rejected(RetryHttp) /\ UNCHANGED <<ws, rc, oldRc, held, broken, closed>>
    BY <1>3 DEF ConnectRefused
  <2>3. Rejected(RetryHttp) \in [Msgs -> Status] /\ hears' \in Owners \cup {"nobody"}
        /\ loop' \in [Owners -> {"none", "connect", "backoff"}] /\ retries' \in [Owners -> Nat]
    BY <1>3, <2>1, RejectedTypes, WsAssumption
  <2>4. AckTypes' /\ ws' \in {"null", "up"} /\ closed' \in BOOLEAN
    BY <2>2, <2>3, CloseTypes DEF TypeOK, AckTypes
  <2>5. QED
    BY <1>1, <2>3, <2>4 DEF TypeOK, AckTypes
<1>4. QED
  BY <1>2, <1>3

LEMMA InitTypes ==
  ASSUME Init
  PROVE  TypeOK
<1>1. ConnTypes
  BY DEF Init, ConnTypes
<1>2. AckTypes
  BY StatusFacts DEF Init, AckTypes
<1>3. GhostTypes
  BY DEF Init, GhostTypes
<1>4. QED
  BY <1>1, <1>2, <1>3, TypesSplit

\* Every variable keeps its type, whatever the retry policy and the bounds.
THEOREM WsTypes == Spec => []TypeOK
<1>1. Init => TypeOK
  BY InitTypes
<1>2. TypeOK /\ [Next]_vars => TypeOK'
  <2> SUFFICES ASSUME TypeOK, [Next]_vars PROVE TypeOK'
    OBVIOUS
  <2>1. ASSUME NEW m \in Msgs, Request(m) PROVE TypeOK'
    BY <2>1, RequestTypes
  <2>2. ASSUME NEW m \in Msgs, BackoffEnds(m) PROVE TypeOK'
    BY <2>2, ConnectTypes, OwnerFacts DEF BackoffEnds, TypeOK, ackVars, otherVars
  <2>3. ASSUME NEW m \in Msgs, Ack(m) PROVE TypeOK'
    <3>1. [st EXCEPT ![m] = "resolved"] \in [Msgs -> Status]
      BY StatusFacts DEF TypeOK
    <3>2. ResolveReconnect([st EXCEPT ![m] = "resolved"])
      BY <2>3 DEF Ack
    <3>3. held' \in {"none", "awaited", "set"} /\ st' \in [Msgs -> Status]
      BY <3>1, <3>2, ResolveTypes
    <3>4. QED
      BY <2>3, <3>3 DEF Ack, TypeOK, tryVars, otherVars
  <2>4. ASSUME NEW m \in Msgs, Timeout(m) PROVE TypeOK'
    <3> DEFINE s == [st EXCEPT ![m] = "rejected"]
    <3>1. s \in [Msgs -> Status]
      BY StatusFacts DEF TypeOK
    <3>2. CloseEffect(s) \/ (FailReconnect(s) /\ UNCHANGED <<ws, closed, rc, oldRc>>)
      BY <2>4 DEF Timeout
    <3> HIDE DEF s
    <3>3. AckTypes' /\ ws' \in {"null", "up"} /\ closed' \in BOOLEAN
      <4>1. CASE CloseEffect(s)
        BY <3>1, <4>1, CloseTypes
      <4>2. CASE FailReconnect(s) /\ UNCHANGED <<ws, closed, rc, oldRc>>
        BY <3>1, <4>2, FailTypes, TypesSplit DEF AckTypes, TypeOK
      <4>3. QED
        BY <3>2, <4>1, <4>2
    <3>4. QED
      BY <2>4, <3>3 DEF Timeout, AckTypes, TypeOK, tryVars, otherVars
  <2>5. CASE Open
    BY <2>5, OpenTypes
  <2>6. CASE ConnectRefused
    BY <2>6, RefusedTypes
  <2>7. ASSUME NEW retry \in BOOLEAN, ConnectFails(retry) \/ RefusedFails(retry) PROVE TypeOK'
    BY <2>7, FailsTypes
  <2>8. CASE ReconnectTimer
    <3>1. UNCHANGED <<ws, retries, connections, closed, st>> /\ UNCHANGED ackVars
          /\ UNCHANGED otherVars /\ timers' \in Nat
      BY <2>8 DEF ReconnectTimer, TypeOK
    <3>2. \/ inProgress' = TRUE /\ Connect("timer")
          \/ UNCHANGED <<inProgress, opening, hears, loop>>
      BY <2>8 DEF ReconnectTimer
    <3>3. inProgress' \in BOOLEAN /\ opening' \in Nat /\ hears' \in Owners \cup {"nobody"}
          /\ loop' \in [Owners -> {"none", "connect", "backoff"}]
      BY <3>2, ConnectTypes, OwnerFacts DEF TypeOK
    <3>4. QED
      BY <3>1, <3>3 DEF TypeOK, ackVars, otherVars
  <2>9. CASE Close
    <3>1. AckTypes' /\ ws' = "null" /\ closed' = TRUE
      BY <2>9, CloseTypes DEF Close, TypeOK
    <3>2. QED
      BY <2>9, <3>1 DEF Close, AckTypes, TypeOK, tryVars, otherVars
  <2>10. CASE Drop
    <3>1. AckTypes' /\ ws' = "null" /\ timers' \in Nat
      BY <2>10, SocketClosedTypes DEF Drop, TypeOK
    <3>2. QED
      BY <2>10, <3>1 DEF Drop, AckTypes, TypeOK, lateVars
  <2>11. CASE FarEndCloses
    <3>1. AckTypes'
      BY <2>11, LoseTypes, TypesSplit DEF FarEndCloses, TypeOK
    <3>2. QED
      BY <2>11, <3>1 DEF FarEndCloses, AckTypes, TypeOK, tryVars, lateVars
  <2>12. CASE AckReconnect
    <3>1. held' \in {"none", "awaited", "set"} /\ st' \in [Msgs -> Status]
      BY <2>12, ResolveTypes DEF AckReconnect, TypeOK
    <3>2. rc' \in BOOLEAN /\ oldRc' \in Nat
      <4>1. CASE rc' = FALSE /\ UNCHANGED oldRc
        BY <4>1 DEF TypeOK
      <4>2. CASE oldRc > 0 /\ oldRc' = oldRc - 1 /\ UNCHANGED rc
        <5>1. oldRc' \in Nat
          BY <4>2 DEF TypeOK
        <5>2. rc' \in BOOLEAN
          BY <4>2, Zenon DEF TypeOK
        <5>3. QED
          BY <5>1, <5>2
      <4>3. QED
        BY <2>12, <4>1, <4>2 DEF AckReconnect
    <3>3. initMsg' = FALSE /\ UNCHANGED <<ws, connections, closed, broken>>
          /\ UNCHANGED tryVars /\ UNCHANGED otherVars
      BY <2>12 DEF AckReconnect
    <3>4. QED
      BY <3>1, <3>2, <3>3 DEF TypeOK, tryVars, otherVars
  <2>13. CASE TimeoutReconnect
    <3>1. held' \in {"none", "awaited", "set"} /\ st' \in [Msgs -> Status] /\ broken' \in BOOLEAN
      BY <2>13, FailTypes, TypesSplit DEF TimeoutReconnect, TypeOK
    <3>2. rc' \in BOOLEAN /\ oldRc' \in Nat
      <4>1. CASE rc' = FALSE /\ UNCHANGED oldRc
        BY <4>1 DEF TypeOK
      <4>2. CASE oldRc > 0 /\ oldRc' = oldRc - 1 /\ UNCHANGED rc
        <5>1. oldRc' \in Nat
          BY <4>2 DEF TypeOK
        <5>2. rc' \in BOOLEAN
          BY <4>2, Zenon DEF TypeOK
        <5>3. QED
          BY <5>1, <5>2
      <4>3. QED
        BY <2>13, <4>1, <4>2 DEF TimeoutReconnect
    <3>3. UNCHANGED <<ws, connections, closed, initMsg>> /\ UNCHANGED tryVars
          /\ UNCHANGED otherVars
      BY <2>13 DEF TimeoutReconnect
    <3>4. QED
      BY <3>1, <3>2, <3>3 DEF TypeOK, tryVars, otherVars
  <2>14. CASE UNCHANGED vars
    BY <2>14 DEF vars, TypeOK
  <2>15. CASE OrphanCloses
    BY <2>15, OrphanTypes
  <2>16. QED
    BY <2>1, <2>2, <2>3, <2>4, <2>5, <2>6, <2>7, <2>8, <2>9, <2>10, <2>11, <2>12, <2>13,
       <2>14, <2>15 DEF Next, Attempt
<1>3. QED
  BY <1>1, <1>2, PTL DEF Spec
----------------------------------------------------------------------------
(* One connection *)

\* An attempt begins only when nobody connects.
LEMMA ConnectAlone ==
  ASSUME TypeOK, ConnectingInv, NEW o \in Owners, Connect(o), ws' = "null", orphans' = orphans,
         inProgress' = TRUE, \A p \in Owners \ {o} : loop[p] = "none", loop[o] # "connect"
  PROVE  ConnectingInv'
<1>1. hears = "nobody" /\ opening = 0
  BY DEF ConnectingInv, TypeOK
<1>2. opening' = 1 /\ hears' = o /\ loop' = [loop EXCEPT ![o] = "connect"]
  BY <1>1 DEF Connect
<1>3. \A p \in Owners : loop'[p] = IF p = o THEN "connect" ELSE "none"
  BY <1>2 DEF TypeOK
<1>4. o # "nobody"
  BY OwnerFacts
<1>5. QED
  BY <1>2, <1>3, <1>4 DEF ConnectingInv

\* Once whoever connects has been told, nobody connects.
LEMMA AttemptEnds ==
  ASSUME TypeOK, ConnectingInv, opening > 0, opening' = opening - 1, hears' = "nobody",
         orphans' = orphans,
         NEW v \in {"none", "backoff"}, loop' = [loop EXCEPT ![hears] = v],
         v = "backoff" => (inProgress' = TRUE /\ ws' = "null")
  PROVE  ConnectingInv'
<1>1. hears # "nobody" /\ opening = 1 /\ hears \in Owners /\ loop[hears] = "connect"
  BY DEF ConnectingInv, TypeOK
<1>2. \A p \in Owners \ {hears} : loop[p] = "none"
  BY <1>1 DEF ConnectingInv, TypeOK
<1>3. \A p \in Owners : loop'[p] = IF p = hears THEN v ELSE "none"
  BY <1>1, <1>2 DEF TypeOK
<1>4. opening' = 0
  BY <1>1
<1>5. QED
  BY <1>1, <1>3, <1>4 DEF ConnectingInv

\* A failure is not taken back.
LEMMA CalmBefore == ASSUME TypeOK, [Next]_vars, Calm' PROVE Calm
<1>1. mistaken' = mistaken \/ \E retry \in BOOLEAN : RefusedFails(retry)
  BY DEF Next, vars, Attempt, Request, BackoffEnds, Ack, Timeout, Open, ConnectRefused,
     ConnectFails, ReconnectTimer, Close, Drop, FarEndCloses, OrphanCloses, AckReconnect,
     TimeoutReconnect, otherVars, lateVars
<1>2. ASSUME NEW retry \in BOOLEAN, RefusedFails(retry) PROVE mistaken => mistaken'
  BY <1>2, Zenon DEF RefusedFails
<1>3. mistaken => mistaken'
  BY <1>1, <1>2, Zenon
<1>4. QED
  BY <1>3 DEF Calm

\* The late failure of a refused socket that is not taken for another's: nobody hears it,
\* and it does no more than a close would.
LEMMA QuietFailure ==
  ASSUME TypeOK, ConnectingInv, NEW retry \in BOOLEAN, RefusedFails(retry), Calm'
  PROVE  /\ ~crashed /\ ws = "null" /\ opening = 0 /\ SocketClosed(st)
         /\ UNCHANGED <<hears, loop, retries, inProgress, closed, opening, orphans, early>>
         /\ UNCHANGED <<connections, initMsg, crashed, drops, failures>>
<1>1. opening = 0 /\ ws = "null" /\ ~crashed /\ UNCHANGED <<opening, failures>>
  <2>1. ~(mistaken \/ opening > 0 \/ ws = "up")
    BY Zenon DEF RefusedFails, Calm
  <2>2. QED
    BY <2>1 DEF RefusedFails, TypeOK
<1>2. hears = "nobody" /\ SocketFails(retry)
  BY <1>1 DEF RefusedFails, ConnectingInv
<1>3. SocketClosed(st) /\ UNCHANGED <<hears, loop, retries, inProgress, closed>>
  BY <1>2 DEF SocketFails
<1>4. orphans' = orphans /\ early' = early /\ UNCHANGED <<connections, initMsg, crashed, drops>>
  BY <1>1, <1>2 DEF SocketFails, Up, TypeOK
<1>5. QED
  BY <1>1, <1>3, <1>4

\* The holder of connectInProgress is alone (unless HTTP errors are retried).
THEOREM ConnectingIsExclusive == Spec => []IInv
<1>1. Init => IInv
  <2>1. Init => ConnectingInv
    BY DEF Init, ConnectingInv
  <2>2. QED
    BY <2>1, InitTypes DEF IInv
<1>2. TypeOK /\ Calm' /\ ConnectingInv /\ [Next]_vars => ConnectingInv'
  <2> SUFFICES ASSUME TypeOK, Calm', ConnectingInv, [Next]_vars PROVE ConnectingInv'
    OBVIOUS
  <2>1. ASSUME UNCHANGED <<opening, hears, loop, inProgress, orphans>>, ws' = "null" \/ ws' = ws
        PROVE  ConnectingInv'
    BY <2>1 DEF ConnectingInv
  <2>2. ASSUME ~inProgress PROVE \A p \in Owners : loop[p] = "none"
    BY <2>2 DEF ConnectingInv
  <2>3. ASSUME NEW m \in Msgs, Request(m) PROVE ConnectingInv'
    <3>1. m \in Owners /\ UNCHANGED <<ws, orphans>>
      BY <2>3, OwnerFacts DEF Request, otherVars
    <3>2. CASE UNCHANGED tryVars
      BY <2>1, <3>1, <3>2 DEF tryVars
    <3>3. CASE ws = "null" /\ ~inProgress /\ inProgress' = TRUE /\ Connect(m)
      BY <2>2, <3>1, <3>3, ConnectAlone
    <3>4. QED
      BY <2>3, <3>2, <3>3 DEF Request
  <2>4. ASSUME NEW m \in Msgs, BackoffEnds(m) PROVE ConnectingInv'
    <3>1. m \in Owners /\ loop[m] = "backoff" /\ ws' = "null" /\ Connect(m)
          /\ UNCHANGED <<inProgress, orphans>>
      BY <2>4, OwnerFacts DEF BackoffEnds, otherVars
    <3>2. inProgress = TRUE /\ \A p \in Owners \ {m} : loop[p] = "none"
      BY <3>1 DEF ConnectingInv, TypeOK
    <3>3. QED
      BY <3>1, <3>2, ConnectAlone
  <2>5. ASSUME NEW m \in Msgs, Ack(m) \/ Timeout(m) PROVE ConnectingInv'
    BY <2>1, <2>5 DEF Ack, Timeout, CloseEffect, tryVars, otherVars
  <2>6. CASE Open
    <3>1. opening > 0 /\ opening' = opening - 1 /\ hears # "nobody" /\ hears \in Owners
      BY <2>6 DEF Open, ConnectingInv, TypeOK
    <3>2. ws = "null"
      BY <3>1 DEF ConnectingInv
    <3>3. hears' = "nobody" /\ loop' = [loop EXCEPT ![hears] = "none"] /\ orphans' = orphans
      BY <2>6, <3>1, <3>2 DEF Open, lateVars
    <3>4. QED
      BY <3>1, <3>3, AttemptEnds
  <2>7. ASSUME NEW retry \in BOOLEAN, ConnectFails(retry) PROVE ConnectingInv'
    <3>1. opening > 0 /\ opening' = opening - 1 /\ hears # "nobody" /\ inProgress
      BY <2>7 DEF ConnectFails, ConnectingInv, TypeOK
    <3>2. NotReady(retry) /\ inProgress' = (Again(retry) /\ inProgress)
      BY <2>7, <3>1 DEF ConnectFails, SocketFails
    <3>3. ws' = "null" /\ orphans' = orphans
      BY <2>7, <3>1 DEF ConnectFails, SocketFails, CloseEffect, SocketClosed, ConnectingInv,
         TypeOK, Up
    <3>4. QED
      BY <3>1, <3>2, <3>3, AttemptEnds DEF NotReady, Again
  <2>8. CASE ConnectRefused
    <3>1. opening > 0 /\ opening' = opening - 1 /\ hears # "nobody" /\ ws = "null"
      BY <2>8 DEF ConnectRefused, ConnectingInv, TypeOK
    <3>2. NotReady(RetryHttp) /\ ~RetryHttp /\ orphans' = orphans
      BY <2>8, <3>1 DEF ConnectRefused, Calm
    <3>3. hears' = "nobody" /\ loop' = [loop EXCEPT ![hears] = "none"]
      BY <3>2 DEF NotReady, Again
    <3>4. QED
      BY <3>1, <3>2, <3>3, AttemptEnds
  <2>9. CASE ReconnectTimer
    <3>1. CASE ws = "null" /\ ~inProgress
      BY <2>2, <2>9, <3>1, ConnectAlone, OwnerFacts DEF ReconnectTimer, otherVars
    <3>2. CASE ~(ws = "null" /\ ~inProgress)
      BY <2>1, <2>9, <3>2 DEF ReconnectTimer, otherVars
    <3>3. QED
      BY <3>1, <3>2
  <2>10. CASE Close \/ FarEndCloses \/ AckReconnect \/ TimeoutReconnect
    BY <2>1, <2>10 DEF Close, CloseEffect, FarEndCloses, AckReconnect, TimeoutReconnect, tryVars,
       otherVars, lateVars
  <2>11. CASE Drop
    BY <2>1, <2>11 DEF Drop, SocketClosed, lateVars
  <2>12. CASE UNCHANGED vars
    BY <2>1, <2>12 DEF vars
  <2>13. ASSUME NEW retry \in BOOLEAN, RefusedFails(retry) PROVE ConnectingInv'
    BY <2>1, <2>13, QuietFailure DEF SocketClosed
  <2>14. ~OrphanCloses
    BY DEF OrphanCloses, ConnectingInv
  <2>15. QED
    BY <2>3, <2>4, <2>5, <2>6, <2>7, <2>8, <2>9, <2>10, <2>11, <2>12, <2>13, <2>14
       DEF Next, Attempt
<1>3. IInv /\ [Next]_vars /\ TypeOK' => IInv'
  BY <1>2, CalmBefore DEF IInv
<1>4. QED
  BY <1>1, <1>3, WsTypes, PTL DEF Spec

\* OneConnection, for every value of the constants.
THEOREM ConnectionIsUnique == Spec => []OneConnection
<1>1. IInv => OneConnection
  <2> SUFFICES ASSUME IInv, Calm PROVE opening + Up + orphans <= 1
    BY DEF OneConnection, Calm
  <2>1. ws = "up" => opening = 0
    BY DEF IInv, ConnectingInv, TypeOK
  <2>2. QED
    BY <2>1 DEF IInv, ConnectingInv, Up
<1>2. QED
  BY <1>1, ConnectingIsExclusive, PTL
----------------------------------------------------------------------------
(* Held back until resumed *)

\* Until session:new is on its way there was no connection, and no timer to make one.
NewBefore ==
  /\ st["new"] \notin {"queued", "sent"}
  /\ st["new"] = "unsent" => (~inProgress /\ ws = "null")
  /\ st["new"] \in {"unsent", "connecting"} => (connections = 0 /\ timers = 0)
  /\ st["new"] = "connecting" => loop["new"] # "none"

\* Nothing else is asked before it is answered; if it fails, the requestor is closed.
NewFirst ==
  /\ st["new"] # "resolved" => \A m \in Msgs \ {"new"} : st[m] = "unsent"
  /\ st["new"] \in {"flight", "lost", "moved"} => initMsg
  /\ initMsg => st["new"] \in {"flight", "lost", "moved", "rejected"}
  /\ st["new"] \in {"rejected", "discarded"} => closed
  /\ \A m \in Msgs : loop[m] # "none" => st[m] = "connecting"

\* Nothing is in flight between connections, or while a session:reconnect is awaited, and
\* only session:new can be stood in for.
HeldInv ==
  /\ held # "none" => connections > 0
  /\ \A m \in Msgs : st[m] = "flight" => ws = "up" /\ held # "awaited"
  /\ \A m \in Msgs : st[m] = "moved" => m = "new" /\ held = "set"

\* A session:reconnect that can be acknowledged is one on this connection, and what is
\* asked is held back for it, unless an older one failed it.
ResumeInv ==
  /\ rc => ws = "up" /\ st["new"] = "resolved"
  /\ held = "none" => ~rc \/ broken

HoldInv == NewBefore /\ NewFirst /\ HeldInv /\ ResumeInv

LEMMA NewFacts ==
  "new" \in Msgs /\ "new" # "timer" /\ "timer" \notin Msgs /\ "new" \notin Hooks \cup Notes
BY WsAssumption DEF Msgs

\* HoldInv is inductive given that whoever connects is alone.
LEMMA HoldSteps ==
  ASSUME Calm', TypeOK, ConnectingInv, HoldInv, [Next]_vars
  PROVE  HoldInv'
<1>1. ASSUME NEW m \in Msgs, Request(m) PROVE HoldInv'
  <2>1. NewBefore'
    BY <1>1, OwnerFacts DEF TypeOK, HoldInv, NewBefore, Request, MayAsk, Connect
  <2>2. NewFirst'
    BY <1>1, OwnerFacts DEF TypeOK, HoldInv, NewBefore, NewFirst, Request, MayAsk,
       tryVars, ackVars, Connect
  <2>3. HeldInv'
    BY <1>1 DEF TypeOK, HoldInv, HeldInv, Request, Sent, ackVars
  <2>4. ResumeInv'
    BY <1>1, OwnerFacts DEF TypeOK, HoldInv, ResumeInv, Request, MayAsk, ackVars
  <2>5. QED
    BY <2>1, <2>2, <2>3, <2>4 DEF HoldInv
<1>2. ASSUME NEW m \in Msgs, BackoffEnds(m) PROVE HoldInv'
  <2>1. NewBefore'
    BY <1>2 DEF HoldInv, NewBefore, BackoffEnds, Connect
  <2>2. NewFirst'
    BY <1>2 DEF HoldInv, NewFirst, BackoffEnds, Connect, ackVars
  <2>3. HeldInv'
    BY <1>2, OwnerFacts DEF ConnectingInv, HoldInv, HeldInv, BackoffEnds, ackVars
  <2>4. ResumeInv'
    BY <1>2, OwnerFacts DEF ConnectingInv, HoldInv, ResumeInv, BackoffEnds, ackVars
  <2>5. QED
    BY <2>1, <2>2, <2>3, <2>4 DEF HoldInv
<1>3. ASSUME NEW m \in Msgs, Ack(m) PROVE HoldInv'
  <2>1. NewBefore'
    BY <1>3, OwnerFacts DEF HoldInv, NewBefore, Ack, ResolveReconnect, SendQueued, tryVars
  <2>2. NewFirst'
    BY <1>3, OwnerFacts DEF TypeOK, HoldInv, NewFirst, Ack, ResolveReconnect, SendQueued,
       tryVars
  <2>3. HeldInv'
    BY <1>3 DEF ConnectingInv, HoldInv, HeldInv, Ack, ResolveReconnect
  <2>4. ResumeInv'
    BY <1>3 DEF ConnectingInv, HoldInv, HeldInv, ResumeInv, Ack, ResolveReconnect
  <2>5. QED
    BY <2>1, <2>2, <2>3, <2>4 DEF HoldInv
<1>4. ASSUME NEW m \in Msgs, Timeout(m) PROVE HoldInv'
  <2>1. NewBefore'
    BY <1>4, OwnerFacts DEF TypeOK, HoldInv, NewBefore, Timeout, CloseEffect,
       ClearPending, FailReconnect, RejectQueued, Turn, tryVars
  <2>2. NewFirst'
    BY <1>4, OwnerFacts DEF TypeOK, HoldInv, NewFirst, Timeout, CloseEffect, ClearPending,
       FailReconnect, RejectQueued, Turn, InFlight, tryVars
  <2>3. HeldInv'
    BY <1>4 DEF TypeOK, HoldInv, HeldInv, Timeout, CloseEffect, ClearPending,
       FailReconnect, RejectQueued, Turn, InFlight
  <2>4. ResumeInv'
    BY <1>4, OwnerFacts DEF TypeOK, HoldInv, ResumeInv, Timeout, CloseEffect,
       ClearPending, FailReconnect, RejectQueued
  <2>5. QED
    BY <2>1, <2>2, <2>3, <2>4 DEF HoldInv
<1>5. CASE Open
  <2>1. NewBefore'
    BY <1>5, NewFacts, OwnerFacts DEF TypeOK, ConnectingInv, HoldInv, NewBefore, NewFirst,
       HeldInv, Open, Resume, Proceed, SendQueued, Sent, Turn
  <2>2. NewFirst'
    BY <1>5, NewFacts, OwnerFacts DEF TypeOK, ConnectingInv, HoldInv, NewBefore, NewFirst,
       HeldInv, Open, Resume, Proceed, SendQueued, Sent, Turn, InFlight
  <2>3. HeldInv'
    BY <1>5 DEF TypeOK, HoldInv, NewFirst, HeldInv, Open, Resume, Proceed, SendQueued,
       Sent, Turn, InFlight, ackVars
  <2>4. ResumeInv'
    BY <1>5, OwnerFacts DEF TypeOK, ConnectingInv, HoldInv, NewBefore, NewFirst,
       ResumeInv, Open, Status, Final, Resume, Proceed, InFlight
  <2>5. QED
    BY <2>1, <2>2, <2>3, <2>4 DEF HoldInv
<1>6. CASE ConnectRefused
  <2>1. NewBefore'
    BY <1>6, OwnerFacts DEF TypeOK, HoldInv, NewBefore, ConnectRefused, NotReady,
       Rejected, CloseEffect, ClearPending, FailReconnect, RejectQueued, Turn
  <2>2. NewFirst'
    BY <1>6, OwnerFacts DEF TypeOK, ConnectingInv, HoldInv, NewFirst, ConnectRefused,
       NotReady, Rejected, NewFails, CloseEffect, ClearPending, FailReconnect, RejectQueued,
       Turn, InFlight
  <2>3. HeldInv'
    BY <1>6 DEF TypeOK, HoldInv, HeldInv, ConnectRefused, Rejected, CloseEffect,
       ClearPending, FailReconnect, RejectQueued, Turn
  <2>4. ResumeInv'
    BY <1>6 DEF HoldInv, ResumeInv, ConnectRefused, CloseEffect, ClearPending
  <2>5. QED
    BY <2>1, <2>2, <2>3, <2>4 DEF HoldInv
<1>7. ASSUME NEW retry \in BOOLEAN, ConnectFails(retry) PROVE HoldInv'
  <2>1. NewBefore'
    BY <1>7, OwnerFacts DEF TypeOK, HoldInv, NewBefore, ConnectFails, SocketFails, NotReady,
       Rejected,
       CloseEffect, SocketClosed, ScheduleReconnect, Reconnects, ClearPending, LosePending,
       FailReconnect, RejectQueued,
       Turn
  <2>2. NewFirst'
    BY <1>7, OwnerFacts DEF TypeOK, ConnectingInv, HoldInv, NewBefore, NewFirst,
       ConnectFails, SocketFails, NotReady, Rejected, NewFails, CloseEffect, SocketClosed,
       ClearPending,
       LosePending, FailReconnect, RejectQueued, Turn, InFlight
  <2>3. HeldInv'
    BY <1>7 DEF HoldInv, HeldInv, ConnectFails, SocketFails, Rejected, CloseEffect, SocketClosed,
       ClearPending, LosePending, FailReconnect, RejectQueued, Turn, InFlight
  <2>4. ResumeInv'
    BY <1>7 DEF ResumeInv, ConnectFails, SocketFails, CloseEffect, SocketClosed, ClearPending,
       LosePending
  <2>5. QED
    BY <2>1, <2>2, <2>3, <2>4 DEF HoldInv
<1>8. CASE ReconnectTimer
  <2>1. NewBefore'
    BY <1>8 DEF HoldInv, NewBefore, ReconnectTimer
  <2>2. NewFirst'
    BY <1>8, NewFacts, OwnerFacts DEF TypeOK, HoldInv, NewFirst, ReconnectTimer, Connect,
       ackVars
  <2>3. HeldInv'
    BY <1>8 DEF HoldInv, HeldInv, ReconnectTimer, ackVars
  <2>4. ResumeInv'
    BY <1>8 DEF HoldInv, ResumeInv, ReconnectTimer, ackVars
  <2>5. QED
    BY <2>1, <2>2, <2>3, <2>4 DEF HoldInv
<1>9. CASE Close
  <2>1. NewBefore'
    BY <1>9, OwnerFacts DEF NewBefore, Close, CloseEffect, ClearPending, FailReconnect,
       RejectQueued, Turn
  <2>2. NewFirst'
    BY <1>9, OwnerFacts DEF HoldInv, NewFirst, Close, CloseEffect, ClearPending,
       FailReconnect, RejectQueued, Turn, InFlight, tryVars
  <2>3. HeldInv'
    BY <1>9 DEF HoldInv, HeldInv, Close, CloseEffect, ClearPending, FailReconnect,
       RejectQueued, Turn, InFlight
  <2>4. ResumeInv'
    BY <1>9 DEF ResumeInv, Close, CloseEffect, ClearPending
  <2>5. QED
    BY <2>1, <2>2, <2>3, <2>4 DEF HoldInv
<1>10. CASE Drop
  <2>1. NewBefore'
    BY <1>10, OwnerFacts DEF HoldInv, NewBefore, Drop, SocketClosed, ScheduleReconnect,
       Reconnects, ClearPending,
       LosePending, FailReconnect, RejectQueued, Turn
  <2>2. NewFirst'
    BY <1>10, OwnerFacts DEF HoldInv, NewBefore, NewFirst, Drop, SocketClosed,
       ScheduleReconnect, Reconnects,
       ClearPending, LosePending, FailReconnect, RejectQueued, Turn, InFlight
  <2>3. HeldInv'
    BY <1>10 DEF HoldInv, HeldInv, Drop, SocketClosed, ClearPending, LosePending,
       FailReconnect, RejectQueued, Turn, InFlight
  <2>4. ResumeInv'
    BY <1>10 DEF ResumeInv, Drop, SocketClosed, ClearPending, LosePending
  <2>5. QED
    BY <2>1, <2>2, <2>3, <2>4 DEF HoldInv
<1>11. CASE FarEndCloses
  <2>1. NewBefore'
    BY <1>11, OwnerFacts DEF HoldInv, NewBefore, FarEndCloses, LosePending, Turn, tryVars
  <2>2. NewFirst'
    BY <1>11, OwnerFacts DEF HoldInv, NewFirst, FarEndCloses, LosePending, Turn, tryVars
  <2>3. HeldInv'
    BY <1>11 DEF HoldInv, HeldInv, FarEndCloses, LosePending, Turn
  <2>4. ResumeInv'
    BY <1>11 DEF ResumeInv, FarEndCloses, LosePending
  <2>5. QED
    BY <2>1, <2>2, <2>3, <2>4 DEF HoldInv
<1>12. CASE AckReconnect
  <2>1. NewBefore'
    BY <1>12, OwnerFacts DEF HoldInv, NewBefore, AckReconnect, ResolveReconnect,
       SendQueued, tryVars
  <2>2. NewFirst'
    BY <1>12, OwnerFacts DEF ConnectingInv, HoldInv, NewFirst, ResumeInv, AckReconnect,
       ResolveReconnect,
       SendQueued, tryVars
  <2>3. HeldInv'
    BY <1>12 DEF ConnectingInv, HoldInv, HeldInv, AckReconnect, ResolveReconnect, SendQueued, Sent
  <2>4. ResumeInv'
    BY <1>12 DEF ConnectingInv, HoldInv, ResumeInv, AckReconnect
  <2>5. QED
    BY <2>1, <2>2, <2>3, <2>4 DEF HoldInv
<1>13. CASE TimeoutReconnect
  <2>1. NewBefore'
    BY <1>13, OwnerFacts DEF HoldInv, NewBefore, TimeoutReconnect, FailReconnect,
       RejectQueued, tryVars
  <2>2. NewFirst'
    BY <1>13, OwnerFacts DEF HoldInv, NewBefore, NewFirst, TimeoutReconnect,
       FailReconnect, RejectQueued, tryVars
  <2>3. HeldInv'
    BY <1>13 DEF HoldInv, HeldInv, TimeoutReconnect, FailReconnect, RejectQueued
  <2>4. ResumeInv'
    BY <1>13, OwnerFacts DEF TypeOK, HoldInv, ResumeInv, TimeoutReconnect, FailReconnect,
       RejectQueued
  <2>5. QED
    BY <2>1, <2>2, <2>3, <2>4 DEF HoldInv
<1>14. ASSUME NEW retry \in BOOLEAN, RefusedFails(retry) PROVE HoldInv'
  <2> /\ ws = "null" /\ SocketClosed(st)
      /\ UNCHANGED <<hears, loop, retries, inProgress, closed, connections, initMsg>>
    BY <1>14, QuietFailure
  <2>1. NewBefore'
    BY OwnerFacts DEF HoldInv, NewBefore, SocketClosed, ScheduleReconnect, Reconnects,
       ClearPending, LosePending, FailReconnect, RejectQueued, Turn
  <2>2. NewFirst'
    BY OwnerFacts DEF HoldInv, NewBefore, NewFirst, SocketClosed, ScheduleReconnect,
       Reconnects, ClearPending,
       LosePending, FailReconnect, RejectQueued, Turn, InFlight
  <2>3. HeldInv'
    BY DEF HoldInv, HeldInv, SocketClosed, ClearPending, LosePending, FailReconnect,
       RejectQueued, Turn, InFlight
  <2>4. ResumeInv'
    BY DEF ResumeInv, SocketClosed, ClearPending, LosePending
  <2>5. QED
    BY <2>1, <2>2, <2>3, <2>4 DEF HoldInv
<1>15. ~OrphanCloses
  BY DEF OrphanCloses, ConnectingInv
<1>16. CASE UNCHANGED vars
  BY <1>16 DEF vars, HoldInv, NewBefore, NewFirst, HeldInv, ResumeInv
<1>17. QED
  BY <1>1, <1>2, <1>3, <1>4, <1>5, <1>6, <1>7, <1>8, <1>9, <1>10, <1>11, <1>12, <1>13,
     <1>14, <1>15, <1>16 DEF Next, Attempt

\* What a step sends, it sends on a connection that is resumed.
LEMMA SendSteps ==
  ASSUME ~RetryHttp, ~mistaken, TypeOK, ConnectingInv, HoldInv, Next, NEW x \in Msgs,
         st[x] \in {"unsent", "connecting", "queued"}, st'[x] \in {"flight", "sent"}
  PROVE  (~rc' /\ st'["new"] # "moved") \/ broken
<1> DEFINE Resumed == (~rc' /\ st'["new"] # "moved") \/ broken
<1>1. ASSUME NEW m \in Msgs, Request(m) PROVE Resumed
  BY <1>1, OwnerFacts DEF TypeOK, HoldInv, ResumeInv, Request, MayAsk, ackVars
<1>2. ASSUME NEW m \in Msgs, BackoffEnds(m) PROVE Resumed
  BY <1>2 DEF BackoffEnds
<1>3. ASSUME NEW m \in Msgs, Ack(m) PROVE Resumed
  BY <1>3 DEF ConnectingInv, HoldInv, HeldInv, Ack, ResolveReconnect
<1>4. ASSUME NEW m \in Msgs, Timeout(m) PROVE Resumed
  BY <1>4 DEF TypeOK, Timeout, CloseEffect, ClearPending, FailReconnect, RejectQueued,
     Turn
<1>5. CASE Open
  BY <1>5, OwnerFacts DEF TypeOK, HoldInv, HeldInv, ResumeInv, Open, Resume, Proceed,
     SendQueued, Sent, Turn
<1>6. CASE ConnectRefused
  BY <1>6 DEF TypeOK, ConnectRefused, Rejected, CloseEffect, ClearPending, FailReconnect,
     RejectQueued, Turn
<1>7. ASSUME NEW retry \in BOOLEAN, ConnectFails(retry) PROVE Resumed
  BY <1>7 DEF ConnectFails, SocketFails, Rejected, CloseEffect, SocketClosed, ClearPending,
     LosePending, FailReconnect, RejectQueued, Turn
<1>8. CASE ReconnectTimer
  BY <1>8 DEF ReconnectTimer
<1>9. CASE Close
  BY <1>9 DEF Close, CloseEffect, ClearPending, FailReconnect, RejectQueued, Turn
<1>10. CASE Drop
  BY <1>10 DEF Drop, SocketClosed, ClearPending, LosePending, FailReconnect, RejectQueued,
     Turn
<1>11. CASE FarEndCloses
  BY <1>11 DEF FarEndCloses, LosePending, Turn
<1>12. CASE AckReconnect
  BY <1>12, OwnerFacts DEF ConnectingInv, HoldInv, ResumeInv, AckReconnect, ResolveReconnect,
     SendQueued
<1>13. CASE TimeoutReconnect
  BY <1>13 DEF TimeoutReconnect, FailReconnect, RejectQueued
<1>14. ASSUME NEW retry \in BOOLEAN, RefusedFails(retry) PROVE Resumed
  BY <1>14 DEF RefusedFails, SocketFails, Rejected, CloseEffect, SocketClosed, ClearPending,
     LosePending, FailReconnect, RejectQueued, Turn
<1>15. ~OrphanCloses
  BY DEF OrphanCloses, ConnectingInv
<1>16. QED
  BY <1>1, <1>2, <1>3, <1>4, <1>5, <1>6, <1>7, <1>8, <1>9, <1>10, <1>11, <1>12, <1>13, <1>14,
     <1>15 DEF Next, Attempt

\* With the default retry policy nothing is sent on a connection that was re-established
\* before the application resumed the session, unless reconnect-error was reported or a late
\* failure was taken for that of a later socket.
THEOREM ResumedFirst == ASSUME ~RetryHttp PROVE Spec => SendsOnlyWhenResumed
<1>1. Init => HoldInv
  BY NewFacts, OwnerFacts DEF Init, HoldInv, NewBefore, NewFirst, HeldInv, ResumeInv
<1>2. IInv /\ (Calm => HoldInv) /\ [Next]_vars => (Calm => HoldInv)'
  BY HoldSteps, CalmBefore DEF IInv
<1>3. IInv /\ (Calm => HoldInv) /\ [Next]_vars
        => [\A m \in Msgs :
              (st[m] \in {"unsent", "connecting", "queued"} /\ st'[m] \in {"flight", "sent"})
                => ((~rc' /\ st'["new"] # "moved") \/ broken \/ mistaken)]_vars
  BY SendSteps DEF IInv, Calm
<1>4. QED
  BY <1>1, <1>2, <1>3, ConnectingIsExclusive, PTL DEF Spec, SendsOnlyWhenResumed
----------------------------------------------------------------------------
(* What is held back is awaited *)

\* While nobody closed the requestor and no connection dropped before session:new was
\* acknowledged: every promise of a session:reconnect has its send callback, ...
PromiseInv == (~closed /\ ~early) => held # "set"

\* ... session:new awaits its answer on the connection it was sent on, ...
InitialInv == (~closed /\ ~early /\ initMsg) => ws = "up"

\* ... (the timer reconnects only what was connected once) ...
TimerInv == (timers > 0 \/ loop["timer"] # "none") => connections > 0

\* ... and that session:reconnect is in flight on the connection there is.
AwaitedInv == (held = "awaited" /\ ws = "up" /\ ~closed /\ ~early) => rc

\* Safety half of HeldMessagesAreReleased: what is held back on an open connection is held
\* back for a session:reconnect in flight on it, whose ack or timer releases it (request,
\* _reconnectPromise).
HeldBackIsAnswered ==
  \A m \in Msgs :
    (st[m] = "queued" /\ ws = "up" /\ ~closed /\ ~early /\ ~mistaken)
      => (held = "awaited" /\ rc)

QueueInv ==
  \A m \in Msgs :
    (st[m] = "queued" /\ ws = "up" /\ ~closed /\ ~early) => held = "awaited"

AwaitInv == PromiseInv /\ InitialInv /\ TimerInv /\ AwaitedInv /\ QueueInv

\* AwaitInv is inductive given that whoever connects is alone and the session began.
LEMMA AwaitSteps ==
  ASSUME Calm', TypeOK, ConnectingInv, HoldInv, AwaitInv, [Next]_vars
  PROVE  AwaitInv'
<1>1. ASSUME NEW m \in Msgs, Request(m) PROVE AwaitInv'
  <2>1. PromiseInv'
    BY <1>1 DEF AwaitInv, PromiseInv, ackVars, otherVars, Request
  <2>2. InitialInv'
    BY <1>1 DEF AwaitInv, InitialInv, ackVars, otherVars, Request
  <2>3. TimerInv'
    BY <1>1, NewFacts, OwnerFacts DEF TypeOK, AwaitInv, TimerInv, tryVars, Request, Connect
  <2>4. AwaitedInv'
    BY <1>1 DEF AwaitInv, AwaitedInv, ackVars, otherVars, Request
  <2>5. QueueInv'
    BY <1>1 DEF TypeOK, AwaitInv, PromiseInv, QueueInv, ackVars, otherVars, Request, Sent
  <2>6. QED
    BY <2>1, <2>2, <2>3, <2>4, <2>5 DEF AwaitInv
<1>2. ASSUME NEW m \in Msgs, BackoffEnds(m) PROVE AwaitInv'
  <2>1. PromiseInv'
    BY <1>2 DEF AwaitInv, PromiseInv, ackVars, otherVars, BackoffEnds
  <2>2. InitialInv'
    BY <1>2 DEF HoldInv, NewFirst, InitialInv, ackVars, BackoffEnds
  <2>3. TimerInv'
    BY <1>2 DEF AwaitInv, TimerInv, BackoffEnds, Connect
  <2>4. AwaitedInv'
    BY <1>2 DEF AwaitedInv, BackoffEnds
  <2>5. QueueInv'
    BY <1>2 DEF QueueInv, BackoffEnds
  <2>6. QED
    BY <2>1, <2>2, <2>3, <2>4, <2>5 DEF AwaitInv
<1>3. ASSUME NEW m \in Msgs, Ack(m) PROVE AwaitInv'
  <2>1. PromiseInv'
    BY <1>3 DEF AwaitInv, PromiseInv, otherVars, Ack, ResolveReconnect
  <2>2. InitialInv'
    BY <1>3 DEF InitialInv, Ack
  <2>3. TimerInv'
    BY <1>3 DEF AwaitInv, TimerInv, tryVars, Ack
  <2>4. AwaitedInv'
    BY <1>3 DEF AwaitedInv, Ack, ResolveReconnect
  <2>5. QueueInv'
    BY <1>3 DEF ConnectingInv, HoldInv, HeldInv, AwaitInv, QueueInv, otherVars, Ack,
       ResolveReconnect
  <2>6. QED
    BY <2>1, <2>2, <2>3, <2>4, <2>5 DEF AwaitInv
<1>4. ASSUME NEW m \in Msgs, Timeout(m) PROVE AwaitInv'
  <2>1. PromiseInv'
    BY <1>4 DEF AwaitInv, PromiseInv, otherVars, Timeout, CloseEffect, FailReconnect
  <2>2. InitialInv'
    BY <1>4 DEF AwaitInv, InitialInv, otherVars, Timeout, CloseEffect
  <2>3. TimerInv'
    BY <1>4 DEF AwaitInv, TimerInv, tryVars, Timeout
  <2>4. AwaitedInv'
    BY <1>4 DEF AwaitedInv, Timeout, CloseEffect, FailReconnect
  <2>5. QueueInv'
    BY <1>4 DEF TypeOK, AwaitInv, QueueInv, otherVars, Timeout, CloseEffect, FailReconnect,
      RejectQueued
  <2>6. QED
    BY <2>1, <2>2, <2>3, <2>4, <2>5 DEF AwaitInv
<1>5. CASE Open
  <2>1. PromiseInv'
    BY <1>5 DEF TypeOK, ConnectingInv, AwaitInv, PromiseInv, InitialInv, Open, Resume,
      Proceed
  <2>2. InitialInv'
    BY <1>5 DEF InitialInv, Open
  <2>3. TimerInv'
    BY <1>5 DEF TypeOK, ConnectingInv, TimerInv, Open
  <2>4. AwaitedInv'
    BY <1>5 DEF TypeOK, ConnectingInv, HoldInv, HeldInv, AwaitedInv, Open, Resume, Proceed
  <2>5. QueueInv'
    BY <1>5 DEF TypeOK, ConnectingInv, HoldInv, HeldInv, AwaitInv, InitialInv, TimerInv,
      QueueInv, Open, Resume, Proceed, SendQueued, Sent
  <2>6. QED
    BY <2>1, <2>2, <2>3, <2>4, <2>5 DEF AwaitInv
<1>6. CASE ConnectRefused
  <2>1. PromiseInv'
    BY <1>6 DEF AwaitInv, PromiseInv, ConnectRefused, CloseEffect
  <2>2. InitialInv'
    BY <1>6, NewFacts DEF ConnectingInv, HoldInv, NewFirst, AwaitInv, InitialInv,
      ConnectRefused, Rejected, NewFails
  <2>3. TimerInv'
    BY <1>6, OwnerFacts DEF TypeOK, ConnectingInv, AwaitInv, TimerInv, ConnectRefused,
      NotReady
  <2>4. AwaitedInv'
    BY <1>6 DEF TypeOK, ConnectingInv, AwaitedInv, ConnectRefused, CloseEffect
  <2>5. QueueInv'
    BY <1>6 DEF TypeOK, ConnectingInv, QueueInv, ConnectRefused, CloseEffect
  <2>6. QED
    BY <2>1, <2>2, <2>3, <2>4, <2>5 DEF AwaitInv
<1>7. ASSUME NEW retry \in BOOLEAN, ConnectFails(retry) PROVE AwaitInv'
  <2>1. PromiseInv'
    BY <1>7 DEF AwaitInv, PromiseInv, ConnectFails, SocketFails, SocketClosed, CloseEffect,
       ClearPending,
      FailReconnect, LosePending
  <2>2. InitialInv'
    BY <1>7 DEF TypeOK, ConnectingInv, HoldInv, NewFirst, AwaitInv, InitialInv,
      ConnectFails, SocketFails, Rejected, NewFails
  <2>3. TimerInv'
    BY <1>7, OwnerFacts DEF TypeOK, ConnectingInv, AwaitInv, TimerInv, ConnectFails, SocketFails,
      NotReady, SocketClosed, ScheduleReconnect, Reconnects
  <2>4. AwaitedInv'
    BY <1>7 DEF AwaitedInv, ConnectFails, SocketFails, SocketClosed, ScheduleReconnect,
       Reconnects, CloseEffect
  <2>5. QueueInv'
    BY <1>7 DEF QueueInv, ConnectFails, SocketFails, SocketClosed, CloseEffect
  <2>6. QED
    BY <2>1, <2>2, <2>3, <2>4, <2>5 DEF AwaitInv
<1>8. CASE ReconnectTimer
  <2>1. PromiseInv'
    BY <1>8 DEF AwaitInv, PromiseInv, ackVars, otherVars, ReconnectTimer
  <2>2. InitialInv'
    BY <1>8 DEF AwaitInv, InitialInv, ackVars, otherVars, ReconnectTimer
  <2>3. TimerInv'
    BY <1>8 DEF AwaitInv, TimerInv, ReconnectTimer
  <2>4. AwaitedInv'
    BY <1>8 DEF AwaitInv, AwaitedInv, ackVars, otherVars, ReconnectTimer
  <2>5. QueueInv'
    BY <1>8 DEF AwaitInv, QueueInv, ackVars, otherVars, ReconnectTimer
  <2>6. QED
    BY <2>1, <2>2, <2>3, <2>4, <2>5 DEF AwaitInv
<1>9. CASE Close
  <2>1. PromiseInv'
    BY <1>9 DEF PromiseInv, Close, CloseEffect
  <2>2. InitialInv'
    BY <1>9 DEF HoldInv, NewFirst, InitialInv, Close
  <2>3. TimerInv'
    BY <1>9 DEF AwaitInv, TimerInv, tryVars, Close
  <2>4. AwaitedInv'
    BY <1>9 DEF AwaitedInv, Close, CloseEffect
  <2>5. QueueInv'
    BY <1>9 DEF QueueInv, Close, CloseEffect
  <2>6. QED
    BY <2>1, <2>2, <2>3, <2>4, <2>5 DEF AwaitInv
<1>10. CASE Drop
  <2>1. PromiseInv'
    BY <1>10 DEF AwaitInv, PromiseInv, Drop, SocketClosed, ClearPending, FailReconnect,
      LosePending
  <2>2. InitialInv'
    BY <1>10 DEF InitialInv, Drop
  <2>3. TimerInv'
    BY <1>10 DEF TypeOK, AwaitInv, TimerInv, Drop, SocketClosed, ScheduleReconnect, Reconnects
  <2>4. AwaitedInv'
    BY <1>10 DEF AwaitedInv, Drop, SocketClosed
  <2>5. QueueInv'
    BY <1>10 DEF QueueInv, Drop, SocketClosed
  <2>6. QED
    BY <2>1, <2>2, <2>3, <2>4, <2>5 DEF AwaitInv
<1>11. CASE FarEndCloses
  <2>1. PromiseInv'
    BY <1>11 DEF PromiseInv, FarEndCloses
  <2>2. InitialInv'
    BY <1>11 DEF InitialInv, FarEndCloses
  <2>3. TimerInv'
    BY <1>11 DEF AwaitInv, TimerInv, tryVars, FarEndCloses
  <2>4. AwaitedInv'
    BY <1>11 DEF AwaitedInv, FarEndCloses
  <2>5. QueueInv'
    BY <1>11 DEF QueueInv, FarEndCloses
  <2>6. QED
    BY <2>1, <2>2, <2>3, <2>4, <2>5 DEF AwaitInv
<1>12. CASE AckReconnect
  <2>1. PromiseInv'
    BY <1>12 DEF AwaitInv, PromiseInv, otherVars, AckReconnect, ResolveReconnect
  <2>2. InitialInv'
    BY <1>12 DEF InitialInv, AckReconnect
  <2>3. TimerInv'
    BY <1>12 DEF AwaitInv, TimerInv, tryVars, AckReconnect
  <2>4. AwaitedInv'
    BY <1>12 DEF AwaitedInv, AckReconnect, ResolveReconnect
  <2>5. QueueInv'
    BY <1>12 DEF AwaitInv, QueueInv, otherVars, AckReconnect, ResolveReconnect, SendQueued,
      Sent
  <2>6. QED
    BY <2>1, <2>2, <2>3, <2>4, <2>5 DEF AwaitInv
<1>13. CASE TimeoutReconnect
  <2>1. PromiseInv'
    BY <1>13 DEF AwaitInv, PromiseInv, otherVars, TimeoutReconnect, FailReconnect
  <2>2. InitialInv'
    BY <1>13 DEF AwaitInv, InitialInv, otherVars, TimeoutReconnect
  <2>3. TimerInv'
    BY <1>13 DEF AwaitInv, TimerInv, tryVars, TimeoutReconnect
  <2>4. AwaitedInv'
    BY <1>13 DEF AwaitedInv, TimeoutReconnect, FailReconnect
  <2>5. QueueInv'
    BY <1>13 DEF AwaitInv, QueueInv, otherVars, TimeoutReconnect, FailReconnect,
      RejectQueued
  <2>6. QED
    BY <2>1, <2>2, <2>3, <2>4, <2>5 DEF AwaitInv
<1>14. ASSUME NEW retry \in BOOLEAN, RefusedFails(retry) PROVE AwaitInv'
  <2> /\ ws = "null" /\ SocketClosed(st)
      /\ UNCHANGED <<hears, loop, retries, inProgress, closed, connections, initMsg, early>>
    BY <1>14, QuietFailure
  <2>1. PromiseInv'
    BY DEF AwaitInv, PromiseInv, SocketClosed, ClearPending, FailReconnect, LosePending
  <2>2. InitialInv'
    BY DEF AwaitInv, InitialInv
  <2>3. TimerInv'
    BY DEF TypeOK, AwaitInv, TimerInv, SocketClosed, ScheduleReconnect, Reconnects
  <2>4. AwaitedInv'
    BY DEF AwaitedInv, SocketClosed
  <2>5. QueueInv'
    BY DEF QueueInv, SocketClosed
  <2>6. QED
    BY <2>1, <2>2, <2>3, <2>4, <2>5 DEF AwaitInv
<1>15. ~OrphanCloses
  BY DEF OrphanCloses, ConnectingInv
<1>16. CASE UNCHANGED vars
  BY <1>16 DEF vars, AwaitInv, PromiseInv, InitialInv, TimerInv, AwaitedInv, QueueInv
<1>17. QED
  BY <1>1, <1>2, <1>3, <1>4, <1>5, <1>6, <1>7, <1>8, <1>9, <1>10, <1>11, <1>12, <1>13, <1>14,
     <1>15, <1>16 DEF Next, Attempt

\* With the default retry policy no request waits for an ack that nobody awaits, on a
\* connection that stands, unless one dropped before session:new was acknowledged or a late
\* failure was taken for that of a later socket.
THEOREM HeldBackIsNotForgotten == ASSUME ~RetryHttp PROVE Spec => []HeldBackIsAnswered
<1>1. Init => HoldInv /\ AwaitInv
  BY NewFacts, OwnerFacts DEF Init, HoldInv, NewBefore, NewFirst, HeldInv, ResumeInv,
     AwaitInv, PromiseInv, InitialInv, TimerInv, AwaitedInv, QueueInv
<1>2. IInv /\ (Calm => (HoldInv /\ AwaitInv)) /\ [Next]_vars => (Calm => (HoldInv /\ AwaitInv))'
  BY HoldSteps, AwaitSteps, CalmBefore DEF IInv
<1>3. (Calm => (HoldInv /\ AwaitInv)) => HeldBackIsAnswered
  BY DEF AwaitInv, AwaitedInv, QueueInv, HeldBackIsAnswered, Calm
<1>4. QED
  BY <1>1, <1>2, <1>3, ConnectingIsExclusive, PTL DEF Spec
=============================================================================
