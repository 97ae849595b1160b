------------------------- MODULE CallSessionProofs -------------------------
(***************************************************************************)
(* Proofs about CallSession for every value of its constants: types, the   *)
(* safety invariants its runs check, and that the reported call status     *)
(* implements CallStatus.                                                  *)
(***************************************************************************)
EXTENDS CallSession, TLAPS, SequenceTheorems

\* What MakeTasks builds: as many verbs as the script has, all of one application.
LEMMA MakeTasksType ==
  ASSUME NEW script \in Scripts, NEW app \in Nat
  PROVE  /\ MakeTasks(script, app) \in Seq(Task)
         /\ Len(MakeTasks(script, app)) = Len(script)
         /\ Len(script) \in Nat \ {0}
         /\ \A i \in 1..Len(script) : MakeTasks(script, app)[i].app = app
<1>1. script \in Seq(Kinds) /\ script # <<>>
  BY CallSessionAssumption
<1>2. Len(script) \in Nat \ {0}
  BY <1>1, EmptySeq
<1>3. \A i \in 1..Len(script) : [kind |-> script[i], app |-> app] \in Task
  BY <1>1, ElementOfSeq DEF Task
<1>4. MakeTasks(script, app) \in [1..Len(script) -> Task]
  BY <1>3 DEF MakeTasks
<1>5. MakeTasks(script, app) \in Seq(Task)
  BY <1>2, <1>4
<1>6. Len(MakeTasks(script, app)) = Len(script)
  BY <1>2, <1>4, <1>5, LenProperties DEF MakeTasks
<1>7. QED
  BY <1>2, <1>5, <1>6 DEF MakeTasks

\* Replacing the first k elements of a queue by one verb.
LEMMA ReplacePrefix ==
  ASSUME NEW q \in Seq(Task), NEW k \in 1..Len(q), NEW h \in Task
  PROVE  LET r == <<h>> \o SubSeq(q, k + 1, Len(q))
         IN  /\ r \in Seq(Task)
             /\ \A i \in 1..Len(r) : r[i] = h \/ \E j \in 1..Len(q) : r[i] = q[j]
<1> DEFINE rest == SubSeq(q, k + 1, Len(q))
           r == <<h>> \o rest
<1>1. Len(q) \in Nat /\ k + 1 \in Int /\ Len(q) \in Int
  BY LenProperties
<1>2. \A i \in (k + 1)..Len(q) : q[i] \in Task
  BY <1>1, ElementOfSeq
<1>3. /\ rest \in Seq(Task)
      /\ Len(rest) = Len(q) - k
      /\ \A i \in 1..(Len(q) - (k + 1) + 1) : rest[i] = q[(k + 1) + i - 1]
  <2> HIDE DEF rest
  <2>1. SubSeq(q, k + 1, Len(q)) \in Seq(Task)
    BY <1>1, <1>2, SubSeqProperties
  <2>2. Len(SubSeq(q, k + 1, Len(q))) = Len(q) - k
    BY <1>1
  <2>3. \A i \in 1..(Len(q) - (k + 1) + 1) :
          SubSeq(q, k + 1, Len(q))[i] = q[(k + 1) + i - 1]
    BY <1>1
  <2>4. QED BY <2>1, <2>2, <2>3 DEF rest
<1>4. <<h>> \in Seq(Task) /\ Len(<<h>>) = 1 /\ <<h>>[1] = h
  OBVIOUS
<1> HIDE DEF rest
<1>5. Len(rest) = Len(q) - k /\ Len(rest) \in Nat
  BY <1>1, <1>3
<1>6. /\ r \in Seq(Task)
      /\ Len(r) = 1 + Len(rest)
      /\ \A i \in 1..(1 + Len(rest)) : r[i] = IF i <= 1 THEN h ELSE rest[i - 1]
  <2> DEFINE one == <<h>>
  <2>1. one \in Seq(Task) /\ Len(one) = 1 /\ one[1] = h
    BY <1>4
  <2> HIDE DEF one
  <2>2. /\ one \o rest \in Seq(Task)
        /\ Len(one \o rest) = Len(one) + Len(rest)
        /\ \A i \in 1..(Len(one) + Len(rest)) :
             (one \o rest)[i] = IF i <= Len(one) THEN one[i] ELSE rest[i - Len(one)]
    BY <1>3, <2>1, ConcatProperties
  <2>3. \A i \in 1..(1 + Len(rest)) : i <= 1 => i = 1
    BY <1>5
  <2>4. QED
    BY <2>1, <2>2, <2>3 DEF one
<1>7. ASSUME NEW i \in 1..Len(r), i # 1
      PROVE  \E j \in 1..Len(q) : r[i] = q[j]
  <2>1. i - 1 \in 1..(Len(q) - (k + 1) + 1) /\ (k + 1) + (i - 1) - 1 \in 1..Len(q)
    BY <1>1, <1>5, <1>6, <1>7
  <2>2. r[i] = rest[i - 1]
    BY <1>5, <1>6, <1>7
  <2>3. rest[i - 1] = q[(k + 1) + (i - 1) - 1]
    BY <1>3, <2>1
  <2>4. QED BY <2>1, <2>2, <2>3
<1>8. ASSUME NEW i \in 1..Len(r), i = 1
      PROVE  r[i] = h
  BY <1>5, <1>6, <1>8
<1>9. QED
  BY <1>6, <1>7, <1>8 DEF rest

\* What is left after a barge-in are verbs of applications that were in the queue.
LEMMA AfterBargeInType ==
  ASSUME NEW q \in Seq(Task)
  PROVE  /\ AfterBargeIn(q) \in Seq(Task)
         /\ \A i \in 1..Len(AfterBargeIn(q)) :
              \E j \in 1..Len(q) : AfterBargeIn(q)[i].app = q[j].app
<1>1. CASE BargeInStop(q) = {}
  BY <1>1, EmptySeq DEF AfterBargeIn
<1>2. CASE BargeInStop(q) # {}
  <2>1. PICK k \in BargeInStop(q) :
          AfterBargeIn(q) = <<[kind |-> "config", app |-> q[k].app]>>
                              \o SubSeq(q, k + 1, Len(q))
    BY <1>2 DEF AfterBargeIn
  <2> DEFINE h == [kind |-> "config", app |-> q[k].app]
             r == <<h>> \o SubSeq(q, k + 1, Len(q))
  <2>2. k \in 1..Len(q)
    BY DEF BargeInStop
  <2>3. q[k] \in Task
    BY <2>2, ElementOfSeq
  <2>4. h \in Task /\ h.app = q[k].app
    BY <2>3 DEF Task, Kinds
  <2> HIDE DEF h
  <2>5. r \in Seq(Task) /\ \A i \in 1..Len(r) : r[i] = h \/ \E j \in 1..Len(q) : r[i] = q[j]
    BY <2>2, <2>4, ReplacePrefix
  <2> HIDE DEF r
  <2>6. AfterBargeIn(q) = r
    BY <2>1 DEF r, h
  <2>7. \A i \in 1..Len(r) : \E j \in 1..Len(q) : r[i].app = q[j].app
    BY <2>2, <2>4, <2>5
  <2>8. QED
    BY <2>5, <2>6, <2>7
<1>3. QED BY <1>1, <1>2
----------------------------------------------------------------------------
(* The inductive invariant, in parts: control, application, signalling.       *)

\* Who holds the running verb and the resolver at each await point.
ControlInv ==
  /\ WaiterCanBeWoken
  /\ current => pc = "exec"
  /\ pc = "exec" => current \/ killed
  /\ pc \in Preparing => ~current /\ ~killed

\* A verb that no interruption missed belongs to the newest application of a live call.
FreshInv ==
  /\ task.app <= stackIdx
  /\ (pc \in Preparing /\ ~missed) => (~callGone /\ task.app = stackIdx)
  /\ InterruptsReachVerb

\* Dialog, INVITE transaction and reported status agree.
SipInv ==
  /\ completions = IF notifiedComplete THEN 1 ELSE 0
  /\ pc # "done" => /\ notifiedComplete <=> dlg \in {"closing", "down"}
                    /\ answered <=> dlg # "null"
                    /\ dlg # "null" => ep
  /\ pc = "done" => (notifiedComplete <=> answered)
  /\ pc = "clear" => dlg # "up"
  /\ pc \in Preparing => dlg = "null"
  /\ pc \in Preparing => (ep <=> pc # "alloc")
  /\ answered => res = "200"
  /\ res = "200" => (answered \/ pc \in {"answer", "reanswer"})
  /\ pc \in {"answer", "reanswer", "clear", "done"} => res # "pending"
  /\ pc \in Preparing => task.kind # "decline"
  /\ (pc = "exec" /\ task.kind = "decline") => ~FinalResponseSent
  /\ answered => status = IF notifiedComplete THEN "completed" ELSE "in-progress"
  /\ ~answered => \/ status = "trying"
                  \/ status \in {"no-answer", "failed"} /\ res \in {"cancelled", "failure"}

IInv == TypeOK /\ ControlInv /\ QueueIsCurrentApp /\ FreshInv /\ SipInv
\* Types of the helpers that the actions share.
LEMMA AhdTypes ==
  ASSUME NEW a \in AhdType, NEW w \in Waiters
  PROVE  AhdStart(a) \in AhdType /\ AhdStop(a, w) \in AhdType
<1>1. AhdStart(a) \in AhdType
  BY DEF AhdStart, AhdType
<1>2. CASE ~a.on
  BY <1>1, <1>2 DEF AhdStop
<1>3. CASE a.on /\ a.playing
  BY <1>1, <1>3 DEF AhdStop, AhdType
<1>4. CASE a.on /\ ~a.playing
  BY <1>1, <1>4 DEF AhdStop, AhdType
<1>5. QED
  BY <1>2, <1>3, <1>4 DEF AhdType

LEMMA ReleasedTypes ==
  ASSUME TypeOK
  PROVE  /\ Interrupt => current' \in BOOLEAN /\ killed' \in BOOLEAN /\ missed' \in BOOLEAN
         /\ \A r \in Reasons : Wake(r) => wakeup' \in BOOLEAN /\ woken' \in Reasons \cup {"no"}
         /\ CallReleased => /\ current' \in BOOLEAN /\ killed' \in BOOLEAN
                            /\ missed' \in BOOLEAN /\ callGone' \in BOOLEAN
                            /\ wakeup' \in BOOLEAN /\ woken' \in Reasons \cup {"no"}
<1>1. Interrupt => current' \in BOOLEAN /\ killed' \in BOOLEAN /\ missed' \in BOOLEAN
  BY DEF TypeOK, Interrupt
<1>2. \A r \in Reasons : Wake(r) => wakeup' \in BOOLEAN /\ woken' \in Reasons \cup {"no"}
  BY DEF TypeOK, Wake
<1>3. "released" \in Reasons
  BY DEF Reasons
<1>4. QED
  BY <1>1, <1>2, <1>3 DEF CallReleased

LEMMA ReportTypes ==
  ASSUME TypeOK
  PROVE  LET Typed == status' \in Statuses /\ notifiedComplete' \in BOOLEAN
                        /\ completions' \in Nat
         IN  /\ UNCHANGED statusVars => Typed
             /\ NotifyCompleted => Typed
             /\ \A s \in Statuses : Notify(s) => Typed
             /\ DestroyDialog => Typed /\ dlg' \in {"null", "up", "closing", "down"}
<1> DEFINE Typed == status' \in Statuses /\ notifiedComplete' \in BOOLEAN
                      /\ completions' \in Nat
<1>1. UNCHANGED statusVars => Typed
  BY DEF TypeOK, statusVars
<1>2. NotifyCompleted => Typed
  <2>1. CASE notifiedComplete
    BY <2>1, <1>1 DEF NotifyCompleted
  <2>2. CASE ~notifiedComplete
    BY <2>2 DEF NotifyCompleted, TypeOK, Statuses
  <2>3. QED BY <2>1, <2>2
<1>3. \A s \in Statuses : Notify(s) => Typed
  BY DEF TypeOK, Notify
<1>4. DestroyDialog => Typed /\ dlg' \in {"null", "up", "closing", "down"}
  BY <1>1, <1>2 DEF DestroyDialog, TypeOK
<1>5. QED
  BY <1>1, <1>2, <1>3, <1>4

LEMMA LoopTypes ==
  ASSUME TypeOK
  PROVE  /\ \A q, gone : AwaitOrLoop(q, gone) =>
              pc' \in {"top", "await"} /\ wakeup' \in BOOLEAN /\ ahd' \in AhdType
         /\ \A s \in Scripts : ReplaceApplication(s) =>
              /\ tasks' \in Seq(Task) /\ stackIdx' \in Nat
              /\ current' \in BOOLEAN /\ killed' \in BOOLEAN /\ missed' \in BOOLEAN
              /\ wakeup' \in BOOLEAN /\ woken' \in Reasons \cup {"no"}
         /\ Shift => /\ tasks' \in Seq(Task) /\ task' \in Task
                     /\ killed' \in BOOLEAN /\ missed' \in BOOLEAN
<1>1. ASSUME NEW q, NEW gone, AwaitOrLoop(q, gone)
      PROVE  pc' \in {"top", "await"} /\ wakeup' \in BOOLEAN /\ ahd' \in AhdType
  <2>1. "none" \in Waiters
    BY DEF Waiters
  <2>2. AhdStart(ahd) \in AhdType
    BY <2>1, AhdTypes DEF TypeOK
  <2>3. QED
    BY <1>1, <2>2 DEF AwaitOrLoop, TypeOK
<1>2. ASSUME NEW s \in Scripts, ReplaceApplication(s)
      PROVE  /\ tasks' \in Seq(Task) /\ stackIdx' \in Nat
             /\ current' \in BOOLEAN /\ killed' \in BOOLEAN /\ missed' \in BOOLEAN
             /\ wakeup' \in BOOLEAN /\ woken' \in Reasons \cup {"no"}
  <2>1. CASE callGone
    BY <1>2, <2>1 DEF ReplaceApplication, TypeOK
  <2>2. CASE ~callGone
    <3>1. stackIdx + 1 \in Nat
      BY DEF TypeOK
    <3>2. MakeTasks(s, stackIdx + 1) \in Seq(Task)
      BY <3>1, MakeTasksType
    <3>3. Interrupt /\ (UNCHANGED <<wakeup, woken>> \/ Wake("replaced"))
      BY <1>2, <2>2 DEF ReplaceApplication
    <3>4. "replaced" \in Reasons
      BY DEF Reasons
    <3>5. tasks' \in Seq(Task) /\ stackIdx' \in Nat
      BY <1>2, <2>2, <3>1, <3>2 DEF ReplaceApplication
    <3>6. QED
      BY <3>3, <3>4, <3>5, ReleasedTypes DEF TypeOK
  <2>3. QED BY <2>1, <2>2
<1>3. ASSUME Shift
      PROVE  /\ tasks' \in Seq(Task) /\ task' \in Task
             /\ killed' \in BOOLEAN /\ missed' \in BOOLEAN
  BY <1>3, HeadTailProperties DEF Shift, TypeOK
<1>4. QED
  BY <1>1, <1>2, <1>3

\* A variable an action leaves alone keeps its type.
LEMMA FrameTypes ==
  ASSUME TypeOK
  PROVE  /\ UNCHANGED tasks => tasks' \in Seq(Task)
         /\ UNCHANGED stackIdx => stackIdx' \in Nat
         /\ UNCHANGED task => task' \in Task
         /\ UNCHANGED current => current' \in BOOLEAN
         /\ UNCHANGED killed => killed' \in BOOLEAN
         /\ UNCHANGED missed => missed' \in BOOLEAN
         /\ UNCHANGED wakeup => wakeup' \in BOOLEAN
         /\ UNCHANGED woken => woken' \in Reasons \cup {"no"}
         /\ UNCHANGED callGone => callGone' \in BOOLEAN
         /\ UNCHANGED ep => ep' \in BOOLEAN
         /\ UNCHANGED dlg => dlg' \in {"null", "up", "closing", "down"}
         /\ UNCHANGED res => res' \in {"pending", "cancelled", "200", "failure"}
         /\ UNCHANGED declining => declining' \in BOOLEAN
         /\ UNCHANGED answered => answered' \in BOOLEAN
         /\ UNCHANGED appClosed => appClosed' \in BOOLEAN
         /\ UNCHANGED ahd => ahd' \in AhdType
         /\ UNCHANGED received => received' \in Nat
BY DEF TypeOK

\* Type correctness: every variable keeps its type, whatever the scripts are.
THEOREM TypeCorrect == Spec => []TypeOK
<1>1. Init => TypeOK
  <2> SUFFICES ASSUME Init PROVE TypeOK
    OBVIOUS
  <2>1. PICK script \in Scripts : /\ tasks = MakeTasks(script, 0)
                                  /\ task = MakeTasks(script, 0)[1]
    BY DEF Init
  <2>2. tasks \in Seq(Task) /\ 1 \in 1..Len(tasks)
    BY <2>1, MakeTasksType
  <2>3. task \in Task
    BY <2>1, <2>2, ElementOfSeq
  <2>4. QED
    BY <2>2, <2>3, CallSessionAssumption DEF Init, TypeOK, Waiters, Statuses, AhdType
<1>2. TypeOK /\ [Next]_vars => TypeOK'
  <2> SUFFICES ASSUME TypeOK, [Next]_vars PROVE TypeOK'
    OBVIOUS
  <2>1. CASE StartVerb
    BY <2>1, ReportTypes, LoopTypes
      DEF TypeOK, StartVerb, sipVars
  <2>2. CASE SkipVerb
    <3>1. pc' \in {"top", "await"} /\ wakeup' \in BOOLEAN /\ ahd' \in AhdType
      BY <2>2, LoopTypes DEF SkipVerb
    <3>2. /\ tasks' \in Seq(Task) /\ task' \in Task
          /\ killed' \in BOOLEAN /\ missed' \in BOOLEAN
      BY <2>2, LoopTypes DEF SkipVerb
    <3>3. status' \in Statuses /\ notifiedComplete' \in BOOLEAN /\ completions' \in Nat
      BY <2>2, ReportTypes DEF SkipVerb
    <3>4. /\ current' = FALSE
          /\ UNCHANGED <<stackIdx, woken, callGone, received, ep, dlg, res, declining,
                         answered, appClosed>>
      BY <2>2 DEF SkipVerb, sipVars
    <3>5. QED
      BY <3>1, <3>2, <3>3, <3>4, FrameTypes DEF TypeOK
  <2>3. CASE AllocateEndpoint
    BY <2>3, ReportTypes, LoopTypes
      DEF TypeOK, AllocateEndpoint, sipVars, Preparing
  <2>4. CASE AnswerEarlyMedia
    BY <2>4, ReportTypes, LoopTypes
      DEF TypeOK, AnswerEarlyMedia, SendAnswer, Preparing
  <2>5. CASE EndpointAllocated
    <3>1. res' \in {"pending", "cancelled", "200", "failure"} /\ current' \in BOOLEAN
      BY <2>5 DEF TypeOK, EndpointAllocated, SendAnswer
    <3>2. pc' \in {"exec", "answer"}
      BY <2>5 DEF EndpointAllocated
    <3>3. QED
      BY <2>5, <3>1, <3>2, ReportTypes DEF TypeOK, EndpointAllocated, Preparing
  <2>6. ASSUME NEW e \in BOOLEAN, AllocationFailed(e) PROVE TypeOK'
    <3>1. "failed" \in Statuses
      BY DEF Statuses
    <3>2. pc' \in {"top", "await"} /\ wakeup' \in BOOLEAN /\ ahd' \in AhdType
      BY <2>6, LoopTypes DEF AllocationFailed
    <3>3. /\ status' \in Statuses /\ notifiedComplete' \in BOOLEAN /\ completions' \in Nat
          /\ res' \in {"pending", "cancelled", "200", "failure"} /\ callGone' \in BOOLEAN
      BY <2>6, <3>1, ReportTypes DEF AllocationFailed, TypeOK
    <3>4. QED
      BY <2>6, <3>2, <3>3 DEF TypeOK, AllocationFailed
  <2>7. CASE Answered
    BY <2>7, ReportTypes
      DEF TypeOK, Answered, Statuses
  <2>8. CASE AnswerRejected
    <3>1. "no-answer" \in Statuses
      BY DEF Statuses
    <3>2. /\ status' \in Statuses /\ notifiedComplete' \in BOOLEAN /\ completions' \in Nat
          /\ callGone' \in BOOLEAN
      BY <2>8, <3>1, ReportTypes DEF AnswerRejected, TypeOK
    <3>3. /\ pc' = "clear" /\ current' = FALSE
          /\ UNCHANGED <<tasks, stackIdx, task, killed, missed, wakeup, woken, ep, dlg,
                         res, declining, answered, appClosed, ahd, received>>
      BY <2>8 DEF AnswerRejected
    <3>4. QED
      BY <3>2, <3>3, FrameTypes DEF TypeOK
  <2>9. CASE Resume
    BY <2>9, ReportTypes
      DEF TypeOK, Resume, LeaveLoop
  <2>10. CASE LoopEnds
    BY <2>10, ReportTypes
      DEF TypeOK, LoopEnds, LeaveLoop
  <2>11. CASE Cleared
    <3>1. "other" \in Waiters
      BY DEF Waiters
    <3>2. ahd' \in AhdType
      BY <2>11, <3>1, AhdTypes DEF Cleared, TypeOK
    <3>3. /\ pc' = "done" /\ ep' \in BOOLEAN
          /\ dlg' \in {"null", "up", "closing", "down"}
          /\ UNCHANGED <<tasks, stackIdx, task, current, killed, missed, wakeup, woken,
                         callGone, received, res, declining, answered, appClosed>>
      BY <2>11 DEF Cleared
    <3>4. status' \in Statuses /\ notifiedComplete' \in BOOLEAN /\ completions' \in Nat
      BY <2>11, ReportTypes DEF Cleared
    <3>5. QED
      BY <3>2, <3>3, <3>4, FrameTypes DEF TypeOK
  <2>12. CASE VerbEnds
    <3>1. pc' \in {"top", "await"} /\ wakeup' \in BOOLEAN /\ ahd' \in AhdType
      BY <2>12, LoopTypes DEF VerbEnds
    <3>2. status' \in Statuses /\ notifiedComplete' \in BOOLEAN /\ completions' \in Nat
      BY <2>12, ReportTypes DEF VerbEnds
    <3>3. /\ current' = FALSE
          /\ UNCHANGED <<tasks, stackIdx, task, killed, missed, woken, callGone, received,
                         ep, dlg, res, declining, answered, appClosed>>
      BY <2>12 DEF VerbEnds, sipVars
    <3>4. QED
      BY <3>1, <3>2, <3>3, FrameTypes DEF TypeOK
  <2>13. CASE VerbFails
    <3>1. /\ pc' = "clear" /\ current' = FALSE
          /\ res' \in {"pending", "cancelled", "200", "failure"}
      BY <2>13 DEF VerbFails, LeaveLoop, TypeOK
    <3>2. /\ status' \in Statuses /\ notifiedComplete' \in BOOLEAN /\ completions' \in Nat
          /\ dlg' \in {"null", "up", "closing", "down"}
      BY <2>13, ReportTypes DEF VerbFails, LeaveLoop
    <3>3. UNCHANGED <<tasks, stackIdx, task, killed, missed, wakeup, woken, callGone, ahd,
                      received, ep, declining, answered, appClosed>>
      BY <2>13 DEF VerbFails
    <3>4. QED
      BY <3>1, <3>2, <3>3, FrameTypes DEF TypeOK
  <2>14. CASE HangupVerb
    BY <2>14, ReleasedTypes, ReportTypes
      DEF TypeOK, HangupVerb
  <2>15. CASE DeclineVerb
    <3>1. "failed" \in Statuses
      BY DEF Statuses
    <3>2. pc' \in {"top", "await"} /\ wakeup' \in BOOLEAN /\ ahd' \in AhdType
      BY <2>15, LoopTypes DEF DeclineVerb
    <3>3. status' \in Statuses /\ notifiedComplete' \in BOOLEAN /\ completions' \in Nat
      BY <2>15, <3>1, ReportTypes DEF DeclineVerb
    <3>4. /\ res' = "failure" /\ declining' = TRUE /\ current' = FALSE
          /\ UNCHANGED <<tasks, stackIdx, task, killed, missed, woken, callGone, received,
                         ep, dlg, answered, appClosed>>
      BY <2>15 DEF DeclineVerb
    <3>5. QED
      BY <3>2, <3>3, <3>4, FrameTypes DEF TypeOK
  <2>16. CASE DeclineSent
    <3>1. /\ current' \in BOOLEAN /\ killed' \in BOOLEAN /\ missed' \in BOOLEAN
          /\ callGone' \in BOOLEAN /\ wakeup' \in BOOLEAN /\ woken' \in Reasons \cup {"no"}
      BY <2>16, ReleasedTypes DEF DeclineSent
    <3>2. status' \in Statuses /\ notifiedComplete' \in BOOLEAN /\ completions' \in Nat
      BY <2>16, ReportTypes DEF DeclineSent
    <3>3. /\ declining' = FALSE
          /\ UNCHANGED <<tasks, stackIdx, pc, task, ahd, received, ep, dlg, res, answered,
                         appClosed>>
      BY <2>16 DEF DeclineSent
    <3>4. QED
      BY <3>1, <3>2, <3>3, FrameTypes DEF TypeOK
  <2>17. ASSUME NEW s \in Scripts, HookReturnsVerbs(s) PROVE TypeOK'
    BY <2>17, ReportTypes, LoopTypes
      DEF TypeOK, HookReturnsVerbs, sipVars, Receive
  <2>18. CASE CallerCancels
    BY <2>18, ReleasedTypes, ReportTypes
      DEF TypeOK, CallerCancels, Statuses
  <2>19. CASE CallerHangsUp
    BY <2>19, ReleasedTypes, ReportTypes
      DEF TypeOK, CallerHangsUp
  <2>20. CASE JambonzHangup
    BY <2>20, ReleasedTypes, ReportTypes
      DEF TypeOK, JambonzHangup
  <2>21. CASE LccNoAnswer
    BY <2>21, ReleasedTypes, ReportTypes
      DEF TypeOK, LccNoAnswer
  <2>22. CASE AppClosesSocket
    BY <2>22, ReportTypes
      DEF TypeOK, AppClosesSocket
  <2>23. CASE BargeIn
    <3>1. AfterBargeIn(tasks) \in Seq(Task)
      BY AfterBargeInType DEF TypeOK
    <3>2. QED
      BY <2>23, <3>1, ReleasedTypes, ReportTypes DEF TypeOK, BargeIn, sipVars
  <2>24. ASSUME NEW s \in Scripts, LccCallHook(s) PROVE TypeOK'
    BY <2>24, ReportTypes, LoopTypes, AhdTypes
      DEF TypeOK, LccCallHook, sipVars, Receive, Waiters
  <2>25. ASSUME NEW s \in Scripts, RedirectCommand(s) PROVE TypeOK'
    BY <2>25, ReportTypes, LoopTypes, AhdTypes
      DEF TypeOK, RedirectCommand, sipVars, Receive, Waiters
  <2>26. ASSUME NEW s \in Scripts, QueueCommand(s) PROVE TypeOK'
    <3>1. MakeTasks(s, stackIdx) \in Seq(Task)
      BY MakeTasksType DEF TypeOK
    <3>2. tasks' \in Seq(Task)
      BY <2>26, <3>1, ConcatProperties DEF QueueCommand, TypeOK
    <3>3. ahd' \in AhdType
      BY <2>26, AhdTypes DEF QueueCommand, TypeOK, Waiters
    <3>4. "command" \in Reasons
      BY DEF Reasons
    <3>5. wakeup' \in BOOLEAN /\ woken' \in Reasons \cup {"no"}
      BY <2>26, <3>4, ReleasedTypes DEF QueueCommand, TypeOK
    <3>6. QED
      BY <2>26, <3>2, <3>3, <3>5, ReportTypes DEF TypeOK, QueueCommand, Receive, sipVars
  <2>27. CASE AhdNoResponse
    <3>1. ahd' \in AhdType
      <4>1. ahd.tries + 1 \in Nat
        BY DEF TypeOK, AhdType
      <4> DEFINE n == ahd.tries + 1
      <4> HIDE DEF n
      <4>2. [ahd EXCEPT !.timer = FALSE, !.playing = TRUE, !.tries = n] \in AhdType
        BY <4>1 DEF TypeOK, AhdType, n
      <4>3. [ahd EXCEPT !.timer = FALSE, !.active = FALSE] \in AhdType
        BY DEF TypeOK, AhdType
      <4>4. QED
        BY <2>27, <4>2, <4>3 DEF AhdNoResponse, n
    <3>2. QED
      BY <2>27, <3>1, ReportTypes DEF TypeOK, AhdNoResponse, AhdUnchanged, sipVars
  <2>28. CASE AhdPlaybackStop
    <3>1. ahd' \in AhdType
      <4>1. [ahd EXCEPT !.playing = FALSE, !.waiter = "none",
                        !.on = @ /\ ahd.waiter # "clear"] \in AhdType
        BY DEF TypeOK, AhdType, Waiters
      <4>2. [ahd EXCEPT !.playing = FALSE,
                        !.timer = @ \/ (ahd.active /\ ahd.tries < MaxRetries)] \in AhdType
        BY DEF TypeOK, AhdType
      <4>3. QED
        BY <2>28, <4>1, <4>2 DEF AhdPlaybackStop
    <3>2. "command" \in Reasons
      BY DEF Reasons
    <3>3. wakeup' \in BOOLEAN /\ woken' \in Reasons \cup {"no"}
      BY <2>28, <3>2, ReleasedTypes DEF AhdPlaybackStop, TypeOK
    <3>4. QED
      BY <2>28, <3>1, <3>3, ReportTypes DEF TypeOK, AhdPlaybackStop, AhdUnchanged, sipVars
  <2>29. CASE AhdFails
    <3>1. ahd' \in AhdType
      BY <2>29 DEF TypeOK, AhdType, AhdFails
    <3>2. QED
      BY <2>29, <3>1, ReportTypes DEF TypeOK, AhdFails, AhdUnchanged, sipVars
  <2>30. CASE AhdGivesUp
    <3>1. "other" \in Waiters
      BY DEF Waiters
    <3>2. ahd' \in AhdType
      BY <2>30, <3>1, AhdTypes DEF AhdGivesUp, TypeOK
    <3>3. QED
      BY <2>30, <3>2, ReleasedTypes, ReportTypes DEF TypeOK, AhdGivesUp
  <2>31. CASE AhdGiveUpUnheard
    <3>1. ahd' \in AhdType
      BY <2>31 DEF TypeOK, AhdType, AhdGiveUpUnheard
    <3>2. QED
      BY <2>31, <3>1, ReportTypes DEF TypeOK, AhdGiveUpUnheard, AhdUnchanged, sipVars
  <2>32. ASSUME NEW s \in Scripts, AhdGivesUpWithTasks(s) PROVE TypeOK'
    BY <2>32, ReportTypes, LoopTypes, AhdTypes
      DEF TypeOK, AhdGivesUpWithTasks, sipVars, Receive, Waiters
  <2>33. CASE UNCHANGED vars
    BY <2>33 DEF TypeOK, vars
  <2>34. QED
    BY <2>1, <2>2, <2>3, <2>4, <2>5, <2>6, <2>7, <2>8, <2>9, <2>10, <2>11, <2>12,
         <2>13, <2>14, <2>15, <2>16, <2>17, <2>18, <2>19, <2>20, <2>21, <2>22,
         <2>23, <2>24, <2>25, <2>26, <2>27, <2>28, <2>29, <2>30, <2>31, <2>32, <2>33
      DEF Next, Loop, Verb, Caller, Application, Ahd, Terminated
<1>3. QED
  BY <1>1, <1>2, PTL DEF Spec

\* Every step keeps control consistent.
LEMMA ControlStep ==
  ASSUME TypeOK, ControlInv, [Next]_vars
  PROVE  ControlInv'
<1>0. /\ current \in BOOLEAN /\ killed \in BOOLEAN /\ wakeup \in BOOLEAN
      /\ callGone \in BOOLEAN /\ "no" \notin Reasons
  BY DEF TypeOK, Reasons
<1>1. CASE StartVerb
  BY <1>1, <1>0
     DEF StartVerb, Shift, Ready, ControlInv, WaiterCanBeWoken, Preparing
<1>2. CASE SkipVerb
  BY <1>2, <1>0
     DEF SkipVerb, Shift, AwaitOrLoop, ControlInv, WaiterCanBeWoken, Preparing
<1>3. CASE AllocateEndpoint
  BY <1>3, <1>0
     DEF AllocateEndpoint, Shift, ControlInv, WaiterCanBeWoken, Preparing
<1>4. CASE AnswerEarlyMedia
  BY <1>4, <1>0
     DEF AnswerEarlyMedia, Shift, ControlInv, WaiterCanBeWoken, Preparing
<1>5. CASE EndpointAllocated
  BY <1>5, <1>0
     DEF EndpointAllocated, ControlInv, WaiterCanBeWoken, Preparing
<1>6. ASSUME NEW e \in BOOLEAN, AllocationFailed(e) PROVE ControlInv'
  BY <1>6, <1>0
     DEF AllocationFailed, AwaitOrLoop, ControlInv, WaiterCanBeWoken, Preparing
<1>7. CASE Answered
  BY <1>7, <1>0
     DEF Answered, ControlInv, WaiterCanBeWoken, Preparing
<1>8. CASE AnswerRejected
  BY <1>8, <1>0
     DEF AnswerRejected, ControlInv, WaiterCanBeWoken, Preparing
<1>9. CASE Resume
  BY <1>9, <1>0
     DEF Resume, LeaveLoop, ControlInv, WaiterCanBeWoken, Preparing
<1>10. CASE LoopEnds
  BY <1>10, <1>0
     DEF LoopEnds, LeaveLoop, ControlInv, WaiterCanBeWoken, Preparing
<1>11. CASE Cleared
  BY <1>11, <1>0
     DEF Cleared, ControlInv, WaiterCanBeWoken, Preparing
<1>12. CASE VerbEnds
  BY <1>12, <1>0
     DEF VerbEnds, AwaitOrLoop, ControlInv, WaiterCanBeWoken, Preparing
<1>13. CASE VerbFails
  BY <1>13, <1>0
     DEF VerbFails, LeaveLoop, ControlInv, WaiterCanBeWoken, Preparing
<1>14. CASE HangupVerb
  BY <1>14, <1>0
     DEF HangupVerb, CallReleased, Interrupt, Preparing, Wake, ControlInv,
          WaiterCanBeWoken
<1>15. CASE DeclineVerb
  BY <1>15, <1>0
     DEF DeclineVerb, AwaitOrLoop, ControlInv, WaiterCanBeWoken, Preparing
<1>16. CASE DeclineSent
  BY <1>16, <1>0
     DEF DeclineSent, Settled, CallReleased, Interrupt, Preparing, Wake, ControlInv,
          WaiterCanBeWoken
<1>17. ASSUME NEW s \in Scripts, HookReturnsVerbs(s) PROVE ControlInv'
  BY <1>17, <1>0
     DEF HookReturnsVerbs, ReplaceApplication, Interrupt, Preparing, Wake,
          ControlInv, WaiterCanBeWoken
<1>18. CASE CallerCancels
  BY <1>18, <1>0
     DEF CallerCancels, Settled, CallReleased, Interrupt, Preparing, Wake,
          ControlInv, WaiterCanBeWoken
<1>19. CASE CallerHangsUp
  BY <1>19, <1>0
     DEF CallerHangsUp, Settled, CallReleased, Interrupt, Preparing, Wake,
          ControlInv, WaiterCanBeWoken
<1>20. CASE JambonzHangup
  BY <1>20, <1>0
     DEF JambonzHangup, Settled, CallReleased, Interrupt, Preparing, Wake,
          ControlInv, WaiterCanBeWoken
<1>21. CASE LccNoAnswer
  BY <1>21, <1>0
     DEF LccNoAnswer, Settled, CallReleased, Interrupt, Preparing, Wake, ControlInv,
          WaiterCanBeWoken
<1>22. CASE AppClosesSocket
  BY <1>22, <1>0
     DEF AppClosesSocket, Settled, ControlInv, WaiterCanBeWoken, Preparing
<1>23. CASE BargeIn
  BY <1>23, <1>0
     DEF BargeIn, Settled, Interrupt, Preparing, ControlInv, WaiterCanBeWoken
<1>24. ASSUME NEW s \in Scripts, LccCallHook(s) PROVE ControlInv'
  BY <1>24, <1>0
     DEF LccCallHook, Settled, ReplaceApplication, Interrupt, Preparing, Wake,
          ControlInv, WaiterCanBeWoken
<1>25. ASSUME NEW s \in Scripts, RedirectCommand(s) PROVE ControlInv'
  BY <1>25, <1>0
     DEF RedirectCommand, Settled, ReplaceApplication, Interrupt, Preparing, Wake,
          ControlInv, WaiterCanBeWoken
<1>26. ASSUME NEW s \in Scripts, QueueCommand(s) PROVE ControlInv'
  BY <1>26, <1>0
     DEF QueueCommand, Settled, Wake, ControlInv, WaiterCanBeWoken, Preparing
<1>27. CASE AhdNoResponse
  BY <1>27, <1>0
     DEF AhdNoResponse, Settled, AhdUnchanged, ControlInv, WaiterCanBeWoken,
          Preparing
<1>28. CASE AhdPlaybackStop
  BY <1>28, <1>0
     DEF AhdPlaybackStop, Settled, Wake, AhdUnchanged, ControlInv, WaiterCanBeWoken,
          Preparing
<1>29. CASE AhdFails
  BY <1>29, <1>0
     DEF AhdFails, Settled, AhdUnchanged, ControlInv, WaiterCanBeWoken, Preparing
<1>30. CASE AhdGivesUp
  BY <1>30, <1>0
     DEF AhdGivesUp, Settled, CallReleased, Interrupt, Preparing, Wake, ControlInv,
          WaiterCanBeWoken
<1>31. CASE AhdGiveUpUnheard
  BY <1>31, <1>0
     DEF AhdGiveUpUnheard, Settled, AhdUnchanged, ControlInv, WaiterCanBeWoken,
          Preparing
<1>32. ASSUME NEW s \in Scripts, AhdGivesUpWithTasks(s) PROVE ControlInv'
  BY <1>32, <1>0
     DEF AhdGivesUpWithTasks, Settled, ReplaceApplication, Interrupt, Preparing,
          Wake, ControlInv, WaiterCanBeWoken
<1>33. CASE UNCHANGED vars
  BY <1>33 DEF vars, ControlInv, WaiterCanBeWoken, Preparing
<1>34. QED
  BY <1>1, <1>2, <1>3, <1>4, <1>5, <1>6, <1>7, <1>8, <1>9, <1>10, <1>11, <1>12,
       <1>13, <1>14, <1>15, <1>16, <1>17, <1>18, <1>19, <1>20, <1>21, <1>22, <1>23,
       <1>24, <1>25, <1>26, <1>27, <1>28, <1>29, <1>30, <1>31, <1>32, <1>33
    DEF Next, Loop, Verb, Caller, Application, Ahd, Terminated

\* Shifting a verb off the queue leaves a part of it.
LEMMA ShiftApp ==
  ASSUME TypeOK, QueueIsCurrentApp, Shift, UNCHANGED stackIdx
  PROVE  QueueIsCurrentApp' /\ task'.app = stackIdx
<1>1. tasks \in Seq(Task) /\ tasks # <<>>
  BY DEF TypeOK, Shift
<1>2. Len(tasks) \in Nat \ {0}
  BY <1>1, EmptySeq
<1>3. /\ Len(Tail(tasks)) = Len(tasks) - 1
      /\ \A i \in 1..Len(Tail(tasks)) : Tail(tasks)[i] = tasks[i + 1]
  BY <1>1, HeadTailProperties
<1>4. \A i \in 1..Len(Tail(tasks)) : i + 1 \in 1..Len(tasks)
  BY <1>2, <1>3
<1>5. QueueIsCurrentApp'
  BY <1>3, <1>4 DEF Shift, QueueIsCurrentApp
<1>6. task'.app = stackIdx
  BY <1>1, <1>2 DEF Shift, QueueIsCurrentApp
<1>7. QED BY <1>5, <1>6

\* A new application fills the queue by itself.
LEMMA ReplaceApp ==
  ASSUME TypeOK, QueueIsCurrentApp, NEW s \in Scripts, ReplaceApplication(s)
  PROVE  QueueIsCurrentApp'
<1>1. CASE callGone
  BY <1>1 DEF ReplaceApplication, QueueIsCurrentApp
<1>2. CASE ~callGone
  <2> DEFINE new == MakeTasks(s, stackIdx + 1)
  <2>1. stackIdx + 1 \in Nat
    BY DEF TypeOK
  <2>2. \A i \in 1..Len(new) : new[i].app = stackIdx + 1
    BY <2>1, MakeTasksType
  <2>3. tasks' = new /\ stackIdx' = stackIdx + 1
    BY <1>2 DEF ReplaceApplication
  <2> HIDE DEF new
  <2>4. QED
    BY <2>2, <2>3 DEF QueueIsCurrentApp
<1>3. QED BY <1>1, <1>2

\* What is appended belongs to the application whose verbs are in the queue.
LEMMA QueueApp ==
  ASSUME TypeOK, QueueIsCurrentApp, NEW s \in Scripts, QueueCommand(s)
  PROVE  QueueIsCurrentApp'
<1> DEFINE new == MakeTasks(s, stackIdx)
<1>1. /\ new \in Seq(Task) /\ Len(new) \in Nat
      /\ \A i \in 1..Len(new) : new[i].app = stackIdx
  BY MakeTasksType DEF TypeOK
<1>2. tasks \in Seq(Task) /\ Len(tasks) \in Nat
  BY LenProperties DEF TypeOK
<1>3. tasks' = tasks \o new /\ stackIdx' = stackIdx
  BY DEF QueueCommand
<1> HIDE DEF new
<1>4. /\ Len(tasks \o new) = Len(tasks) + Len(new)
      /\ \A i \in 1..(Len(tasks) + Len(new)) :
           (tasks \o new)[i] = IF i <= Len(tasks) THEN tasks[i] ELSE new[i - Len(tasks)]
  BY <1>1, <1>2, ConcatProperties
<1>5. \A i \in 1..(Len(tasks) + Len(new)) : (tasks \o new)[i].app = stackIdx
  <2>1. TAKE i \in 1..(Len(tasks) + Len(new))
  <2>2. CASE i <= Len(tasks)
    BY <1>2, <1>4, <2>2 DEF QueueIsCurrentApp
  <2>3. CASE i > Len(tasks)
    <3>1. i - Len(tasks) \in 1..Len(new)
      BY <1>1, <1>2, <2>3
    <3>2. (tasks \o new)[i] = new[i - Len(tasks)]
      BY <1>2, <1>4, <2>3
    <3>3. QED
      BY <1>1, <3>1, <3>2
  <2>4. QED BY <1>1, <1>2, <2>2, <2>3
<1>6. QED
  BY <1>3, <1>4, <1>5 DEF QueueIsCurrentApp

\* Every step keeps the verbs of one application in the queue: it is shifted, replaced
\* as a whole, appended to, or cleared by a barge-in.
LEMMA QueueStep ==
  ASSUME TypeOK, QueueIsCurrentApp, [Next]_vars
  PROVE  QueueIsCurrentApp'
<1>0. tasks \in Seq(Task) /\ stackIdx \in Nat
  BY DEF TypeOK
<1>1. CASE StartVerb
  BY <1>1, ShiftApp DEF StartVerb
<1>2. CASE SkipVerb
  BY <1>2, ShiftApp DEF SkipVerb
<1>3. CASE AllocateEndpoint
  BY <1>3, ShiftApp DEF AllocateEndpoint
<1>4. CASE AnswerEarlyMedia
  BY <1>4, ShiftApp DEF AnswerEarlyMedia
<1>5. CASE EndpointAllocated
  BY <1>5, <1>0
     DEF EndpointAllocated, QueueIsCurrentApp
<1>6. ASSUME NEW e \in BOOLEAN, AllocationFailed(e) PROVE QueueIsCurrentApp'
  BY <1>6, <1>0
     DEF AllocationFailed, QueueIsCurrentApp
<1>7. CASE Answered
  BY <1>7, <1>0
     DEF Answered, QueueIsCurrentApp
<1>8. CASE AnswerRejected
  BY <1>8, <1>0
     DEF AnswerRejected, QueueIsCurrentApp
<1>9. CASE Resume
  BY <1>9, <1>0
     DEF Resume, QueueIsCurrentApp
<1>10. CASE LoopEnds
  BY <1>10, <1>0
     DEF LoopEnds, QueueIsCurrentApp
<1>11. CASE Cleared
  BY <1>11, <1>0
     DEF Cleared, QueueIsCurrentApp
<1>12. CASE VerbEnds
  BY <1>12, <1>0
     DEF VerbEnds, QueueIsCurrentApp
<1>13. CASE VerbFails
  BY <1>13, <1>0
     DEF VerbFails, QueueIsCurrentApp
<1>14. CASE HangupVerb
  BY <1>14, <1>0
     DEF HangupVerb, QueueIsCurrentApp
<1>15. CASE DeclineVerb
  BY <1>15, <1>0
     DEF DeclineVerb, QueueIsCurrentApp
<1>16. CASE DeclineSent
  BY <1>16, <1>0
     DEF DeclineSent, QueueIsCurrentApp
<1>17. ASSUME NEW s \in Scripts, HookReturnsVerbs(s) PROVE QueueIsCurrentApp'
  BY <1>17, <1>0, ReplaceApp DEF HookReturnsVerbs, QueueIsCurrentApp
<1>18. CASE CallerCancels
  BY <1>18, <1>0
     DEF CallerCancels, QueueIsCurrentApp
<1>19. CASE CallerHangsUp
  BY <1>19, <1>0
     DEF CallerHangsUp, QueueIsCurrentApp
<1>20. CASE JambonzHangup
  BY <1>20, <1>0
     DEF JambonzHangup, QueueIsCurrentApp
<1>21. CASE LccNoAnswer
  BY <1>21, <1>0
     DEF LccNoAnswer, QueueIsCurrentApp
<1>22. CASE AppClosesSocket
  BY <1>22, <1>0
     DEF AppClosesSocket, QueueIsCurrentApp
<1>23. CASE BargeIn
  BY <1>23, <1>0, AfterBargeInType DEF BargeIn, QueueIsCurrentApp
<1>24. ASSUME NEW s \in Scripts, LccCallHook(s) PROVE QueueIsCurrentApp'
  BY <1>24, <1>0, ReplaceApp DEF LccCallHook, QueueIsCurrentApp
<1>25. ASSUME NEW s \in Scripts, RedirectCommand(s) PROVE QueueIsCurrentApp'
  BY <1>25, <1>0, ReplaceApp DEF RedirectCommand, QueueIsCurrentApp
<1>26. ASSUME NEW s \in Scripts, QueueCommand(s) PROVE QueueIsCurrentApp'
  BY <1>26, QueueApp
<1>27. CASE AhdNoResponse
  BY <1>27, <1>0
     DEF AhdNoResponse, AhdUnchanged, QueueIsCurrentApp
<1>28. CASE AhdPlaybackStop
  BY <1>28, <1>0
     DEF AhdPlaybackStop, AhdUnchanged, QueueIsCurrentApp
<1>29. CASE AhdFails
  BY <1>29, <1>0
     DEF AhdFails, AhdUnchanged, QueueIsCurrentApp
<1>30. CASE AhdGivesUp
  BY <1>30, <1>0
     DEF AhdGivesUp, QueueIsCurrentApp
<1>31. CASE AhdGiveUpUnheard
  BY <1>31, <1>0
     DEF AhdGiveUpUnheard, AhdUnchanged, QueueIsCurrentApp
<1>32. ASSUME NEW s \in Scripts, AhdGivesUpWithTasks(s) PROVE QueueIsCurrentApp'
  BY <1>32, <1>0, ReplaceApp DEF AhdGivesUpWithTasks, QueueIsCurrentApp
<1>33. CASE UNCHANGED vars
  BY <1>33 DEF vars, QueueIsCurrentApp
<1>34. QED
  BY <1>1, <1>2, <1>3, <1>4, <1>5, <1>6, <1>7, <1>8, <1>9, <1>10, <1>11, <1>12,
       <1>13, <1>14, <1>15, <1>16, <1>17, <1>18, <1>19, <1>20, <1>21, <1>22, <1>23,
       <1>24, <1>25, <1>26, <1>27, <1>28, <1>29, <1>30, <1>31, <1>32, <1>33
    DEF Next, Loop, Verb, Caller, Application, Ahd, Terminated

\* A new application finds the running verb, kills it, or has missed it.
LEMMA ReplaceFresh ==
  ASSUME TypeOK, ControlInv, FreshInv, NEW s \in Scripts, ReplaceApplication(s),
         UNCHANGED <<pc, task, callGone>>
  PROVE  FreshInv'
<1>1. CASE callGone
  BY <1>1 DEF ReplaceApplication, FreshInv, InterruptsReachVerb, Preparing
<1>2. CASE ~callGone
  <2>1. /\ killed' = (killed \/ current) /\ missed' = (missed \/ pc \in Preparing)
        /\ stackIdx' = stackIdx + 1
    BY <1>2 DEF ReplaceApplication, Interrupt
  <2>2. stackIdx \in Nat /\ task.app \in Nat
    BY DEF TypeOK, Task
  <2>3. pc = "exec" => killed'
    BY <2>1 DEF ControlInv
  <2>4. pc \in Preparing => missed'
    BY <2>1
  <2>5. task.app <= stackIdx'
    BY <2>1, <2>2 DEF FreshInv
  <2>6. QED
    BY <2>3, <2>4, <2>5 DEF FreshInv, InterruptsReachVerb
<1>3. QED BY <1>1, <1>2

\* Every step keeps a verb that was not missed fresh or killed.
LEMMA FreshStep ==
  ASSUME TypeOK, ControlInv, QueueIsCurrentApp, FreshInv, [Next]_vars
  PROVE  FreshInv'
<1>0. /\ current \in BOOLEAN /\ killed \in BOOLEAN /\ missed \in BOOLEAN
      /\ callGone \in BOOLEAN /\ stackIdx \in Nat /\ task.app \in Nat
  BY DEF TypeOK, Task
<1>1. CASE StartVerb
  <2>1. Shift /\ UNCHANGED <<stackIdx, callGone>>
    BY <1>1 DEF StartVerb
  <2>2. task'.app = stackIdx /\ ~callGone /\ killed' = FALSE /\ missed' = FALSE
    BY <2>1, ShiftApp DEF Shift
  <2>3. QED
    BY <1>0, <2>1, <2>2 DEF FreshInv, InterruptsReachVerb, Preparing
<1>2. CASE SkipVerb
  <2>1. Shift /\ UNCHANGED <<stackIdx, callGone>>
    BY <1>2 DEF SkipVerb
  <2>2. task'.app = stackIdx /\ ~callGone /\ killed' = FALSE /\ missed' = FALSE
    BY <2>1, ShiftApp DEF Shift
  <2>3. QED
    BY <1>0, <2>1, <2>2 DEF FreshInv, InterruptsReachVerb, Preparing
<1>3. CASE AllocateEndpoint
  <2>1. Shift /\ UNCHANGED <<stackIdx, callGone>>
    BY <1>3 DEF AllocateEndpoint
  <2>2. task'.app = stackIdx /\ ~callGone /\ killed' = FALSE /\ missed' = FALSE
    BY <2>1, ShiftApp DEF Shift
  <2>3. QED
    BY <1>0, <2>1, <2>2 DEF FreshInv, InterruptsReachVerb, Preparing
<1>4. CASE AnswerEarlyMedia
  <2>1. Shift /\ UNCHANGED <<stackIdx, callGone>>
    BY <1>4 DEF AnswerEarlyMedia
  <2>2. task'.app = stackIdx /\ ~callGone /\ killed' = FALSE /\ missed' = FALSE
    BY <2>1, ShiftApp DEF Shift
  <2>3. QED
    BY <1>0, <2>1, <2>2 DEF FreshInv, InterruptsReachVerb, Preparing
<1>5. CASE EndpointAllocated
  BY <1>5, <1>0
     DEF EndpointAllocated, FreshInv, InterruptsReachVerb, Preparing, ControlInv
<1>6. ASSUME NEW e \in BOOLEAN, AllocationFailed(e) PROVE FreshInv'
  BY <1>6, <1>0
     DEF AllocationFailed, AwaitOrLoop, FreshInv, InterruptsReachVerb, Preparing,
          ControlInv
<1>7. CASE Answered
  BY <1>7, <1>0
     DEF Answered, FreshInv, InterruptsReachVerb, Preparing, ControlInv
<1>8. CASE AnswerRejected
  BY <1>8, <1>0
     DEF AnswerRejected, FreshInv, InterruptsReachVerb, Preparing, ControlInv
<1>9. CASE Resume
  BY <1>9, <1>0
     DEF Resume, LeaveLoop, FreshInv, InterruptsReachVerb, Preparing, ControlInv
<1>10. CASE LoopEnds
  BY <1>10, <1>0
     DEF LoopEnds, LeaveLoop, FreshInv, InterruptsReachVerb, Preparing, ControlInv
<1>11. CASE Cleared
  BY <1>11, <1>0
     DEF Cleared, FreshInv, InterruptsReachVerb, Preparing, ControlInv
<1>12. CASE VerbEnds
  BY <1>12, <1>0
     DEF VerbEnds, AwaitOrLoop, FreshInv, InterruptsReachVerb, Preparing, ControlInv
<1>13. CASE VerbFails
  BY <1>13, <1>0
     DEF VerbFails, LeaveLoop, FreshInv, InterruptsReachVerb, Preparing, ControlInv
<1>14. CASE HangupVerb
  BY <1>14, <1>0
     DEF HangupVerb, CallReleased, Interrupt, Preparing, FreshInv,
          InterruptsReachVerb, ControlInv
<1>15. CASE DeclineVerb
  BY <1>15, <1>0
     DEF DeclineVerb, AwaitOrLoop, FreshInv, InterruptsReachVerb, Preparing,
          ControlInv
<1>16. CASE DeclineSent
  BY <1>16, <1>0
     DEF DeclineSent, Settled, CallReleased, Interrupt, Preparing, FreshInv,
          InterruptsReachVerb, ControlInv
<1>17. ASSUME NEW s \in Scripts, HookReturnsVerbs(s) PROVE FreshInv'
  BY <1>17, ReplaceFresh DEF HookReturnsVerbs
<1>18. CASE CallerCancels
  BY <1>18, <1>0
     DEF CallerCancels, Settled, CallReleased, Interrupt, Preparing, FreshInv,
          InterruptsReachVerb, ControlInv
<1>19. CASE CallerHangsUp
  BY <1>19, <1>0
     DEF CallerHangsUp, Settled, CallReleased, Interrupt, Preparing, FreshInv,
          InterruptsReachVerb, ControlInv
<1>20. CASE JambonzHangup
  BY <1>20, <1>0
     DEF JambonzHangup, Settled, CallReleased, Interrupt, Preparing, FreshInv,
          InterruptsReachVerb, ControlInv
<1>21. CASE LccNoAnswer
  BY <1>21, <1>0
     DEF LccNoAnswer, Settled, CallReleased, Interrupt, Preparing, FreshInv,
          InterruptsReachVerb, ControlInv
<1>22. CASE AppClosesSocket
  BY <1>22, <1>0
     DEF AppClosesSocket, Settled, FreshInv, InterruptsReachVerb, Preparing,
          ControlInv
<1>23. CASE BargeIn
  BY <1>23, <1>0
     DEF BargeIn, Settled, Interrupt, Preparing, FreshInv, InterruptsReachVerb,
          ControlInv
<1>24. ASSUME NEW s \in Scripts, LccCallHook(s) PROVE FreshInv'
  BY <1>24, ReplaceFresh DEF LccCallHook
<1>25. ASSUME NEW s \in Scripts, RedirectCommand(s) PROVE FreshInv'
  BY <1>25, ReplaceFresh DEF RedirectCommand
<1>26. ASSUME NEW s \in Scripts, QueueCommand(s) PROVE FreshInv'
  BY <1>26, <1>0
     DEF QueueCommand, Settled, FreshInv, InterruptsReachVerb, Preparing, ControlInv
<1>27. CASE AhdNoResponse
  BY <1>27, <1>0
     DEF AhdNoResponse, Settled, AhdUnchanged, FreshInv, InterruptsReachVerb,
          Preparing, ControlInv
<1>28. CASE AhdPlaybackStop
  BY <1>28, <1>0
     DEF AhdPlaybackStop, Settled, AhdUnchanged, FreshInv, InterruptsReachVerb,
          Preparing, ControlInv
<1>29. CASE AhdFails
  BY <1>29, <1>0
     DEF AhdFails, Settled, AhdUnchanged, FreshInv, InterruptsReachVerb, Preparing,
          ControlInv
<1>30. CASE AhdGivesUp
  BY <1>30, <1>0
     DEF AhdGivesUp, Settled, CallReleased, Interrupt, Preparing, FreshInv,
          InterruptsReachVerb, ControlInv
<1>31. CASE AhdGiveUpUnheard
  BY <1>31, <1>0
     DEF AhdGiveUpUnheard, Settled, AhdUnchanged, FreshInv, InterruptsReachVerb,
          Preparing, ControlInv
<1>32. ASSUME NEW s \in Scripts, AhdGivesUpWithTasks(s) PROVE FreshInv'
  BY <1>32, ReplaceFresh DEF AhdGivesUpWithTasks
<1>33. CASE UNCHANGED vars
  BY <1>33 DEF vars, FreshInv, InterruptsReachVerb, Preparing, ControlInv
<1>34. QED
  BY <1>1, <1>2, <1>3, <1>4, <1>5, <1>6, <1>7, <1>8, <1>9, <1>10, <1>11, <1>12,
       <1>13, <1>14, <1>15, <1>16, <1>17, <1>18, <1>19, <1>20, <1>21, <1>22, <1>23,
       <1>24, <1>25, <1>26, <1>27, <1>28, <1>29, <1>30, <1>31, <1>32, <1>33
    DEF Next, Loop, Verb, Caller, Application, Ahd, Terminated

\* Every step keeps dialog, INVITE transaction and reports in agreement.
LEMMA SipStep ==
  ASSUME TypeOK, ControlInv, SipInv, [Next]_vars
  PROVE  SipInv'
<1>0. /\ ep \in BOOLEAN /\ answered \in BOOLEAN /\ notifiedComplete \in BOOLEAN
      /\ dlg \in {"null", "up", "closing", "down"}
      /\ res \in {"pending", "cancelled", "200", "failure"}
      /\ pc \in {"top", "exec", "await", "clear", "done", "alloc", "answer", "reanswer"}
      /\ status \in Statuses /\ completions \in Nat
  BY DEF TypeOK, Preparing
<1>1. CASE StartVerb
  BY <1>1, <1>0
     DEF StartVerb, Shift, Ready, FinalResponseSent, sipVars, statusVars, SipInv,
          Preparing, Statuses
<1>2. CASE SkipVerb
  BY <1>2, <1>0
     DEF SkipVerb, Shift, FinalResponseSent, AwaitOrLoop, sipVars, statusVars,
          SipInv, Preparing, Statuses
<1>3. CASE AllocateEndpoint
  BY <1>3, <1>0
     DEF AllocateEndpoint, Shift, sipVars, statusVars, SipInv, Preparing, Statuses,
          FinalResponseSent
<1>4. CASE AnswerEarlyMedia
  BY <1>4, <1>0
     DEF AnswerEarlyMedia, Shift, SendAnswer, statusVars, SipInv, Preparing,
          Statuses, FinalResponseSent
<1>5. CASE EndpointAllocated
  BY <1>5, <1>0
     DEF EndpointAllocated, SendAnswer, statusVars, SipInv, Preparing, Statuses,
          FinalResponseSent
<1>6. ASSUME NEW e \in BOOLEAN, AllocationFailed(e) PROVE SipInv'
  BY <1>6, <1>0
     DEF AllocationFailed, FinalResponseSent, Notify, AwaitOrLoop, statusVars,
          SipInv, Preparing, Statuses
<1>7. CASE Answered
  <2>1. ~notifiedComplete /\ completions = 0 /\ ep
    BY <1>7, <1>0 DEF Answered, SipInv, Preparing
  <2>2. /\ dlg' = "up" /\ answered' = TRUE /\ pc' = "exec" /\ res' = "200" /\ ep'
        /\ status' = "in-progress" /\ ~notifiedComplete' /\ completions' = 0
    BY <1>7, <2>1 DEF Answered, Notify
  <2>3. QED
    BY <1>7, <2>2 DEF Answered, SipInv, Preparing, FinalResponseSent
<1>8. CASE AnswerRejected
  BY <1>8, <1>0
     DEF AnswerRejected, Notify, statusVars, SipInv, Preparing, Statuses,
          FinalResponseSent
<1>9. CASE Resume
  BY <1>9, <1>0
     DEF Resume, LeaveLoop, DestroyDialog, NotifyCompleted, statusVars, SipInv,
          Preparing, Statuses, FinalResponseSent
<1>10. CASE LoopEnds
  BY <1>10, <1>0
     DEF LoopEnds, LeaveLoop, DestroyDialog, NotifyCompleted, statusVars, SipInv,
          Preparing, Statuses, FinalResponseSent
<1>11. CASE Cleared
  BY <1>11, <1>0
     DEF Cleared, statusVars, SipInv, Preparing, Statuses, FinalResponseSent
<1>12. CASE VerbEnds
  BY <1>12, <1>0
     DEF VerbEnds, AwaitOrLoop, sipVars, statusVars, SipInv, Preparing, Statuses,
          FinalResponseSent
<1>13. CASE VerbFails
  BY <1>13, <1>0
     DEF VerbFails, LeaveLoop, DestroyDialog, NotifyCompleted, statusVars, SipInv,
          Preparing, Statuses, FinalResponseSent
<1>14. CASE HangupVerb
  BY <1>14, <1>0
     DEF HangupVerb, DestroyDialog, NotifyCompleted, statusVars, CallReleased,
          SipInv, Preparing, Statuses, FinalResponseSent
<1>15. CASE DeclineVerb
  BY <1>15, <1>0
     DEF DeclineVerb, Notify, AwaitOrLoop, SipInv, Preparing, Statuses,
          FinalResponseSent
<1>16. CASE DeclineSent
  BY <1>16, <1>0
     DEF DeclineSent, Settled, CallReleased, statusVars, SipInv, Preparing,
          Statuses, FinalResponseSent
<1>17. ASSUME NEW s \in Scripts, HookReturnsVerbs(s) PROVE SipInv'
  BY <1>17, <1>0
     DEF HookReturnsVerbs, sipVars, statusVars, SipInv, Preparing, Statuses,
          FinalResponseSent
<1>18. CASE CallerCancels
  BY <1>18, <1>0
     DEF CallerCancels, Settled, Notify, CallReleased, SipInv, Preparing, Statuses,
          FinalResponseSent
<1>19. CASE CallerHangsUp
  BY <1>19, <1>0
     DEF CallerHangsUp, Settled, NotifyCompleted, statusVars, CallReleased, SipInv,
          Preparing, Statuses, FinalResponseSent
<1>20. CASE JambonzHangup
  BY <1>20, <1>0
     DEF JambonzHangup, Settled, DestroyDialog, NotifyCompleted, statusVars,
          CallReleased, SipInv, Preparing, Statuses, FinalResponseSent
<1>21. CASE LccNoAnswer
  BY <1>21, <1>0
     DEF LccNoAnswer, Settled, FinalResponseSent, CallReleased, statusVars, SipInv,
          Preparing, Statuses
<1>22. CASE AppClosesSocket
  BY <1>22, <1>0
     DEF AppClosesSocket, Settled, statusVars, SipInv, Preparing, Statuses,
          FinalResponseSent
<1>23. CASE BargeIn
  BY <1>23, <1>0
     DEF BargeIn, Settled, sipVars, statusVars, SipInv, Preparing, Statuses,
          FinalResponseSent
<1>24. ASSUME NEW s \in Scripts, LccCallHook(s) PROVE SipInv'
  BY <1>24, <1>0
     DEF LccCallHook, Settled, sipVars, statusVars, SipInv, Preparing, Statuses,
          FinalResponseSent
<1>25. ASSUME NEW s \in Scripts, RedirectCommand(s) PROVE SipInv'
  BY <1>25, <1>0
     DEF RedirectCommand, Settled, sipVars, statusVars, SipInv, Preparing, Statuses,
          FinalResponseSent
<1>26. ASSUME NEW s \in Scripts, QueueCommand(s) PROVE SipInv'
  BY <1>26, <1>0
     DEF QueueCommand, Settled, sipVars, statusVars, SipInv, Preparing, Statuses,
          FinalResponseSent
<1>27. CASE AhdNoResponse
  BY <1>27, <1>0
     DEF AhdNoResponse, Settled, AhdUnchanged, sipVars, statusVars, SipInv,
          Preparing, Statuses, FinalResponseSent
<1>28. CASE AhdPlaybackStop
  BY <1>28, <1>0
     DEF AhdPlaybackStop, Settled, AhdUnchanged, sipVars, statusVars, SipInv,
          Preparing, Statuses, FinalResponseSent
<1>29. CASE AhdFails
  BY <1>29, <1>0
     DEF AhdFails, Settled, AhdUnchanged, sipVars, statusVars, SipInv, Preparing,
          Statuses, FinalResponseSent
<1>30. CASE AhdGivesUp
  BY <1>30, <1>0
     DEF AhdGivesUp, Settled, DestroyDialog, NotifyCompleted, statusVars,
          CallReleased, SipInv, Preparing, Statuses, FinalResponseSent
<1>31. CASE AhdGiveUpUnheard
  BY <1>31, <1>0
     DEF AhdGiveUpUnheard, Settled, AhdUnchanged, sipVars, statusVars, SipInv,
          Preparing, Statuses, FinalResponseSent
<1>32. ASSUME NEW s \in Scripts, AhdGivesUpWithTasks(s) PROVE SipInv'
  BY <1>32, <1>0
     DEF AhdGivesUpWithTasks, Settled, sipVars, statusVars, SipInv, Preparing,
          Statuses, FinalResponseSent
<1>33. CASE UNCHANGED vars
  BY <1>33 DEF vars, SipInv, Preparing, Statuses, FinalResponseSent
<1>34. QED
  BY <1>1, <1>2, <1>3, <1>4, <1>5, <1>6, <1>7, <1>8, <1>9, <1>10, <1>11, <1>12,
       <1>13, <1>14, <1>15, <1>16, <1>17, <1>18, <1>19, <1>20, <1>21, <1>22, <1>23,
       <1>24, <1>25, <1>26, <1>27, <1>28, <1>29, <1>30, <1>31, <1>32, <1>33
    DEF Next, Loop, Verb, Caller, Application, Ahd, Terminated

\* Control, application and signalling hold initially.
LEMMA InitInv ==
  ASSUME Init
  PROVE  ControlInv /\ QueueIsCurrentApp /\ FreshInv /\ SipInv
<1>1. PICK script \in Scripts : /\ tasks = MakeTasks(script, 0)
                                /\ task = MakeTasks(script, 0)[1]
  BY DEF Init
<1>2. QueueIsCurrentApp /\ task.app = 0
  BY <1>1, MakeTasksType DEF Init, QueueIsCurrentApp
<1>3. ControlInv
  BY DEF Init, ControlInv, WaiterCanBeWoken, Preparing
<1>4. FreshInv
  BY <1>2 DEF Init, FreshInv, InterruptsReachVerb, Preparing
<1>5. SipInv
  BY DEF Init, SipInv, Preparing
<1>6. QED BY <1>2, <1>3, <1>4, <1>5

\* The inductive invariant holds in every reachable state.
THEOREM Invariant == Spec => []IInv
<1>1. Init => ControlInv /\ QueueIsCurrentApp /\ FreshInv /\ SipInv
  BY InitInv
<1>2. TypeOK /\ (ControlInv /\ QueueIsCurrentApp /\ FreshInv /\ SipInv) /\ [Next]_vars
        => (ControlInv /\ QueueIsCurrentApp /\ FreshInv /\ SipInv)'
  BY ControlStep, QueueStep, FreshStep, SipStep
<1>3. QED
  BY <1>1, <1>2, TypeCorrect, PTL DEF Spec, IInv

\* A session that waits can be woken, always: no handler drops or keeps the resolver.
THEOREM WaiterSafe == Spec => []WaiterCanBeWoken
<1>1. IInv => WaiterCanBeWoken
  BY DEF IInv, ControlInv
<1>2. QED
  BY <1>1, Invariant, PTL

\* A hangup or a new application kills the verb that runs, unless it came while that verb
\* was being prepared.
THEOREM InterruptionSafe == Spec => []InterruptsReachVerb
<1>1. IInv => InterruptsReachVerb
  BY DEF IInv, FreshInv
<1>2. QED
  BY <1>1, Invariant, PTL

\* The queue never mixes verbs of two applications.
THEOREM QueueSafe == Spec => []QueueIsCurrentApp
<1>1. IInv => QueueIsCurrentApp
  BY DEF IInv
<1>2. QED
  BY <1>1, Invariant, PTL

\* An answered call is reported completed exactly once, an unanswered one never.
THEOREM CompletedSafe == Spec => []CompletedOnceIfAnswered
<1>1. IInv => CompletedOnceIfAnswered
  BY DEF IInv, TypeOK, SipInv, CompletedOnceIfAnswered
<1>2. QED
  BY <1>1, Invariant, PTL

\* The INVITE is answered before the session ends, with 200 only if there is a dialog.
THEOREM InviteSafe == Spec => []InviteGetsFinalResponse
<1>1. IInv => InviteGetsFinalResponse
  BY DEF IInv, TypeOK, SipInv, InviteGetsFinalResponse
<1>2. QED
  BY <1>1, Invariant, PTL

\* The processor may still start a prompt or give up.
Owing(a) == a.on /\ (a.active \/ a.timer \/ a.giveup)

\* It does so on behalf of a loop that waits, or that ends because its queue is empty.
OwingInv ==
  (Owing(ahd) /\ ~callGone) =>
    pc \in {"clear", "done"} \/ (pc \in {"await", "top"} /\ tasks = <<>>)

\* stop() leaves nothing owing, and the end of a prompt adds nothing.
LEMMA OwingSteps ==
  ASSUME ahd \in AhdType
  PROVE  /\ \A w \in Waiters : ~Owing(AhdStop(ahd, w))
         /\ AhdNoResponse \/ AhdPlaybackStop \/ AhdFails \/ AhdGiveUpUnheard
              => (Owing(ahd') => Owing(ahd))
<1>1. \A w \in Waiters : ~Owing(AhdStop(ahd, w))
  BY DEF AhdStop, AhdType, Owing
<1>2. AhdNoResponse => (Owing(ahd') => Owing(ahd))
  BY DEF AhdNoResponse, AhdType, Owing
<1>3. AhdPlaybackStop => (Owing(ahd') => Owing(ahd))
  BY DEF AhdPlaybackStop, AhdType, Owing
<1>4. AhdFails => (Owing(ahd') => Owing(ahd))
  BY DEF AhdFails, AhdType, Owing
<1>5. AhdGiveUpUnheard => (Owing(ahd') => Owing(ahd))
  BY DEF AhdGiveUpUnheard, AhdType, Owing
<1>6. QED
  BY <1>1, <1>2, <1>3, <1>4, <1>5

\* A barge-in adds nothing to an empty queue.
LEMMA NothingToClear == AfterBargeIn(<<>>) = <<>>
BY DEF AfterBargeIn, BargeInStop

\* After a verb the processor is started only by a loop that has nothing left to run.
LEMMA OwingAfterVerb ==
  ASSUME NEW q, NEW gone, AwaitOrLoop(q, gone), ~Owing(ahd)
  PROVE  ~Owing(ahd') \/ (pc' = "await" /\ q = <<>>)
BY DEF AwaitOrLoop

LEMMA OwingStep ==
  ASSUME TypeOK, OwingInv, [Next]_vars
  PROVE  OwingInv'
<1> SUFFICES ASSUME Owing(ahd)', ~callGone'
             PROVE  pc' \in {"clear", "done"} \/ (pc' \in {"await", "top"} /\ tasks' = <<>>)
  BY DEF OwingInv
<1>0. /\ Owing(ahd')
      /\ ahd \in AhdType
      /\ {"other", "command", "clear"} \subseteq Waiters
      /\ (ahd' = ahd /\ ~callGone) => pc \in {"clear", "done"} \/ (pc \in {"await",
         "top"} /\ tasks = <<>>)
  BY DEF TypeOK, Waiters, OwingInv, Owing
<1>1. CASE StartVerb
  BY <1>0, <1>1 DEF StartVerb, Shift
<1>2. CASE SkipVerb
  <2>1. ~callGone /\ tasks' = Tail(tasks) /\ AwaitOrLoop(Tail(tasks), FALSE)
    BY <1>2 DEF SkipVerb, Shift
  <2>2. ~Owing(ahd)
    BY <1>2, <2>1 DEF SkipVerb, Shift, OwingInv
  <2>3. QED
    BY <1>0, <2>1, <2>2, OwingAfterVerb
<1>3. CASE AllocateEndpoint
  BY <1>0, <1>3 DEF AllocateEndpoint, Shift
<1>4. CASE AnswerEarlyMedia
  BY <1>0, <1>4 DEF AnswerEarlyMedia, Shift
<1>5. CASE EndpointAllocated
  BY <1>0, <1>5 DEF EndpointAllocated, Preparing
<1>6. ASSUME NEW e \in BOOLEAN, AllocationFailed(e)
      PROVE  pc' \in {"clear", "done"} \/ (pc' \in {"await", "top"} /\ tasks' = <<>>)
  <2>1. ~callGone /\ tasks' = tasks /\ AwaitOrLoop(tasks, callGone)
    BY <1>6 DEF AllocationFailed
  <2>2. ~Owing(ahd)
    BY <1>6, <2>1 DEF AllocationFailed, OwingInv
  <2>3. QED
    BY <1>0, <2>1, <2>2, OwingAfterVerb
<1>7. CASE Answered
  BY <1>0, <1>7 DEF Answered
<1>8. CASE AnswerRejected
  BY <1>0, <1>8 DEF AnswerRejected
<1>9. CASE Resume
  BY <1>0, <1>9 DEF Resume, LeaveLoop
<1>10. CASE LoopEnds
  BY <1>0, <1>10 DEF LoopEnds, LeaveLoop
<1>11. CASE Cleared
  BY <1>0, <1>11 DEF Cleared
<1>12. CASE VerbEnds
  <2>1. ~callGone /\ tasks' = tasks /\ AwaitOrLoop(tasks, callGone)
    BY <1>12 DEF VerbEnds
  <2>2. ~Owing(ahd)
    BY <1>12, <2>1 DEF VerbEnds, OwingInv
  <2>3. QED
    BY <1>0, <2>1, <2>2, OwingAfterVerb
<1>13. CASE VerbFails
  BY <1>0, <1>13 DEF VerbFails, LeaveLoop
<1>14. CASE HangupVerb
  BY <1>0, <1>14 DEF HangupVerb, CallReleased
<1>15. CASE DeclineVerb
  <2>1. ~callGone /\ tasks' = tasks /\ AwaitOrLoop(tasks, callGone)
    BY <1>15 DEF DeclineVerb
  <2>2. ~Owing(ahd)
    BY <1>15, <2>1 DEF DeclineVerb, OwingInv
  <2>3. QED
    BY <1>0, <2>1, <2>2, OwingAfterVerb
<1>16. CASE DeclineSent
  BY <1>0, <1>16 DEF DeclineSent, CallReleased
<1>17. ASSUME NEW s \in Scripts, HookReturnsVerbs(s)
      PROVE  pc' \in {"clear", "done"} \/ (pc' \in {"await", "top"} /\ tasks' = <<>>)
  BY <1>0, <1>17 DEF HookReturnsVerbs
<1>18. CASE CallerCancels
  BY <1>0, <1>18 DEF CallerCancels, CallReleased
<1>19. CASE CallerHangsUp
  BY <1>0, <1>19 DEF CallerHangsUp, CallReleased
<1>20. CASE JambonzHangup
  BY <1>0, <1>20 DEF JambonzHangup, CallReleased
<1>21. CASE LccNoAnswer
  BY <1>0, <1>21 DEF LccNoAnswer, CallReleased
<1>22. CASE AppClosesSocket
  BY <1>0, <1>22 DEF AppClosesSocket
<1>23. CASE BargeIn
  BY <1>0, <1>23, NothingToClear DEF BargeIn
<1>24. ASSUME NEW s \in Scripts, LccCallHook(s)
      PROVE  pc' \in {"clear", "done"} \/ (pc' \in {"await", "top"} /\ tasks' = <<>>)
  BY <1>0, <1>24, OwingSteps DEF LccCallHook
<1>25. ASSUME NEW s \in Scripts, RedirectCommand(s)
      PROVE  pc' \in {"clear", "done"} \/ (pc' \in {"await", "top"} /\ tasks' = <<>>)
  BY <1>0, <1>25, OwingSteps DEF RedirectCommand
<1>26. ASSUME NEW s \in Scripts, QueueCommand(s)
      PROVE  pc' \in {"clear", "done"} \/ (pc' \in {"await", "top"} /\ tasks' = <<>>)
  BY <1>0, <1>26, OwingSteps DEF QueueCommand
<1>27. CASE AhdNoResponse
  BY <1>0, <1>27, OwingSteps DEF AhdNoResponse, AhdUnchanged, OwingInv
<1>28. CASE AhdPlaybackStop
  BY <1>0, <1>28, OwingSteps DEF AhdPlaybackStop, AhdUnchanged, OwingInv
<1>29. CASE AhdFails
  BY <1>0, <1>29, OwingSteps DEF AhdFails, AhdUnchanged, OwingInv
<1>30. CASE AhdGiveUpUnheard
  BY <1>0, <1>30, OwingSteps DEF AhdGiveUpUnheard, AhdUnchanged, OwingInv
<1>31. CASE AhdGivesUp
  BY <1>0, <1>31 DEF AhdGivesUp, CallReleased
<1>32. ASSUME NEW s \in Scripts, AhdGivesUpWithTasks(s)
      PROVE  pc' \in {"clear", "done"} \/ (pc' \in {"await", "top"} /\ tasks' = <<>>)
  BY <1>0, <1>32, OwingSteps DEF AhdGivesUpWithTasks
<1>33. CASE UNCHANGED vars \/ Terminated
  BY <1>0, <1>33 DEF vars, Terminated
<1>34. QED
  BY <1>1, <1>2, <1>3, <1>4, <1>5, <1>6, <1>7, <1>8, <1>9, <1>10, <1>11, <1>12, <1>13, <1>14,
     <1>15, <1>16, <1>17, <1>18, <1>19, <1>20, <1>21, <1>22, <1>23, <1>24, <1>25, <1>26,
     <1>27, <1>28, <1>29, <1>30, <1>31, <1>32, <1>33
     DEF Next, Loop, Verb, Caller, Application, Ahd

\* While the verbs of a live call are prepared and run, no timer of the action hook delay
\* hangs up on it or talks over it (call-session.js: _awaitCommandsOrHangup starts the
\* processor, every command stops it).
THEOREM GiveUpSafe == Spec => []GivesUpOnlyOnWaiting
<1>1. Init => OwingInv
  BY DEF Init, OwingInv, Owing
<1>2. OwingInv => GivesUpOnlyOnWaiting
  BY DEF OwingInv, Owing, GivesUpOnlyOnWaiting, Preparing
<1>3. TypeOK /\ OwingInv /\ [Next]_vars => OwingInv'
  BY OwingStep
<1>4. QED
  BY <1>1, <1>2, <1>3, TypeCorrect, PTL DEF Spec

\* Only an answered call that was not reported completed yet is reported completed.
LEMMA CompletedReport ==
  ASSUME IInv, pc # "done", DestroyDialog \/ (dlg # "null" /\ NotifyCompleted)
  PROVE  CallStatus!Next \/ UNCHANGED status
<1>1. UNCHANGED statusVars \/ (dlg # "null" /\ NotifyCompleted)
  BY DEF DestroyDialog
<1>2. CASE UNCHANGED statusVars
  BY <1>2 DEF statusVars
<1>3. CASE dlg # "null" /\ NotifyCompleted
  <2>1. answered /\ (~notifiedComplete => status = "in-progress")
    BY <1>3 DEF IInv, SipInv
  <2>2. CASE notifiedComplete
    BY <1>3, <2>2 DEF NotifyCompleted, statusVars
  <2>3. CASE ~notifiedComplete
    BY <1>3, <2>1, <2>3 DEF NotifyCompleted, CallStatus!Next, CallStatus!Complete
  <2>4. QED BY <2>2, <2>3
<1>4. QED BY <1>1, <1>2, <1>3

\* Every report is one that CallStatus allows.
LEMMA ReportStep ==
  ASSUME IInv, [Next]_vars
  PROVE  CallStatus!Next \/ UNCHANGED status
<1>0. /\ answered \in BOOLEAN /\ notifiedComplete \in BOOLEAN
      /\ dlg \in {"null", "up", "closing", "down"}
      /\ res \in {"pending", "cancelled", "200", "failure"}
      /\ SipInv
  BY DEF IInv, TypeOK
<1>1. CASE StartVerb
  BY <1>1 DEF StartVerb, statusVars
<1>2. CASE SkipVerb
  BY <1>2 DEF SkipVerb, statusVars
<1>3. CASE AllocateEndpoint
  BY <1>3 DEF AllocateEndpoint, statusVars
<1>4. CASE AnswerEarlyMedia
  BY <1>4 DEF AnswerEarlyMedia, statusVars
<1>5. CASE EndpointAllocated
  BY <1>5 DEF EndpointAllocated, statusVars
<1>6. ASSUME NEW e \in BOOLEAN, AllocationFailed(e) PROVE CallStatus!Next \/ UNCHANGED status
  BY <1>6, <1>0
     DEF AllocationFailed, Notify, SipInv, FinalResponseSent, statusVars,
         CallStatus!Next, CallStatus!Abandon, CallStatus!Unanswered
<1>7. CASE Answered
  <2>1. ~answered /\ res = "200"
    BY <1>7, <1>0 DEF Answered, SipInv, Preparing
  <2>2. status = "trying"
    BY <1>0, <2>1 DEF SipInv
  <2>3. QED
    BY <1>7, <2>2 DEF Answered, Notify, CallStatus!Next, CallStatus!Answer
<1>8. CASE AnswerRejected
  BY <1>8, <1>0
     DEF AnswerRejected, Notify, SipInv, Preparing, statusVars,
         CallStatus!Next, CallStatus!Abandon, CallStatus!Unanswered
<1>9. CASE Resume
  BY <1>9, CompletedReport DEF Resume, LeaveLoop, statusVars
<1>10. CASE LoopEnds
  BY <1>10, CompletedReport DEF LoopEnds, LeaveLoop
<1>11. CASE Cleared
  BY <1>11 DEF Cleared, statusVars
<1>12. CASE VerbEnds
  BY <1>12 DEF VerbEnds, statusVars
<1>13. CASE VerbFails
  BY <1>13, CompletedReport DEF VerbFails, LeaveLoop
<1>14. CASE HangupVerb
  BY <1>14, CompletedReport DEF HangupVerb
<1>15. CASE DeclineVerb
  BY <1>15, <1>0
     DEF DeclineVerb, Notify, SipInv, FinalResponseSent, CallStatus!Next, CallStatus!Abandon,
     CallStatus!Unanswered
<1>16. CASE DeclineSent
  BY <1>16 DEF DeclineSent, statusVars
<1>17. ASSUME NEW s \in Scripts, HookReturnsVerbs(s) PROVE CallStatus!Next \/ UNCHANGED status
  BY <1>17 DEF HookReturnsVerbs, statusVars
<1>18. CASE CallerCancels
  BY <1>18, <1>0 DEF CallerCancels, Notify, SipInv, CallStatus!Next, CallStatus!Abandon,
     CallStatus!Unanswered
<1>19. CASE CallerHangsUp
  BY <1>19, CompletedReport DEF CallerHangsUp, Settled
<1>20. CASE JambonzHangup
  BY <1>20, CompletedReport DEF JambonzHangup, Settled
<1>21. CASE LccNoAnswer
  BY <1>21 DEF LccNoAnswer, statusVars
<1>22. CASE AppClosesSocket
  BY <1>22 DEF AppClosesSocket, statusVars
<1>23. CASE BargeIn
  BY <1>23 DEF BargeIn, statusVars
<1>24. ASSUME NEW s \in Scripts, LccCallHook(s) PROVE CallStatus!Next \/ UNCHANGED status
  BY <1>24 DEF LccCallHook, statusVars
<1>25. ASSUME NEW s \in Scripts, RedirectCommand(s) PROVE CallStatus!Next \/ UNCHANGED status
  BY <1>25 DEF RedirectCommand, statusVars
<1>26. ASSUME NEW s \in Scripts, QueueCommand(s) PROVE CallStatus!Next \/ UNCHANGED status
  BY <1>26 DEF QueueCommand, statusVars
<1>27. CASE AhdNoResponse
  BY <1>27 DEF AhdNoResponse, AhdUnchanged, statusVars
<1>28. CASE AhdPlaybackStop
  BY <1>28 DEF AhdPlaybackStop, AhdUnchanged, statusVars
<1>29. CASE AhdFails
  BY <1>29 DEF AhdFails, AhdUnchanged, statusVars
<1>30. CASE AhdGivesUp
  BY <1>30, CompletedReport DEF AhdGivesUp, Settled
<1>31. CASE AhdGiveUpUnheard
  BY <1>31 DEF AhdGiveUpUnheard, AhdUnchanged, statusVars
<1>32. ASSUME NEW s \in Scripts, AhdGivesUpWithTasks(s) PROVE CallStatus!Next \/ UNCHANGED status
  BY <1>32 DEF AhdGivesUpWithTasks, statusVars
<1>33. CASE UNCHANGED vars
  BY <1>33 DEF vars
<1>34. QED
  BY <1>1, <1>2, <1>3, <1>4, <1>5, <1>6, <1>7, <1>8, <1>9, <1>10, <1>11, <1>12,
       <1>13, <1>14, <1>15, <1>16, <1>17, <1>18, <1>19, <1>20, <1>21, <1>22, <1>23,
       <1>24, <1>25, <1>26, <1>27, <1>28, <1>29, <1>30, <1>31, <1>32, <1>33
    DEF Next, Loop, Verb, Caller, Application, Ahd, Terminated

\* The session implements CallStatus: a report never contradicts an earlier one.
THEOREM StatusRefinement == Spec => ReportsCallStatus
<1>1. Init => CallStatus!Init
  BY DEF Init, CallStatus!Init
<1>2. IInv /\ [Next]_vars => [CallStatus!Next]_status
  BY ReportStep
<1>3. QED
  BY <1>1, <1>2, Invariant, PTL DEF Spec, ReportsCallStatus, CallStatus!Spec
=============================================================================
