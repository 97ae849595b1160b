----------------------------- MODULE CallStatus -----------------------------
(***************************************************************************)
(* What an application may rely on about the call status reports of one    *)
(* inbound call: a call that was answered is reported completed and        *)
(* nothing after that; a call reported no-answer or failed is never        *)
(* reported in-progress or completed.                                      *)
(***************************************************************************)
VARIABLE status

Unanswered == {"trying", "no-answer", "failed"}

Init == status = "trying"

Answer   == status = "trying" /\ status' = "in-progress"
Complete == status = "in-progress" /\ status' = "completed"
Abandon  == status \in Unanswered /\ status' \in Unanswered \ {"trying"}

Next == Answer \/ Complete \/ Abandon

Spec == Init /\ [][Next]_status
=============================================================================
