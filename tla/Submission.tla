------------------------------ MODULE Submission ------------------------------
(* What a run of lgtsend promises about the shipment it submits: it is          *)
(* submitted at most once, the portal decides on it at most once, and what the  *)
(* run tells its operator agrees with that decision.  "unknown" is all it may   *)
(* say when it heard nothing, and then the decision may still be to come.       *)
CONSTANT Callers

VARIABLES
  stage,    \* run -> "unsent", "sent", or the portal's decision
  verdict   \* run -> what the run said of its shipment, "none" before

vars == <<stage, verdict>>

(* Every result accepted, one of them refused, or an answer without results     *)
(* ("silent") or none that can be read ("garbled"): created or not.             *)
Decisions == {"accepted", "refused", "silent", "garbled"}

Init ==
  /\ stage = [r \in Callers |-> "unsent"]
  /\ verdict = [r \in Callers |-> "none"]

Submit(r) ==
  /\ stage[r] = "unsent"
  /\ verdict[r] = "none"
  /\ stage' = [stage EXCEPT ![r] = "sent"]
  /\ UNCHANGED verdict

Decide(r) ==
  /\ stage[r] = "sent"
  /\ \E d \in Decisions : stage' = [stage EXCEPT ![r] = d]
  /\ UNCHANGED verdict

(* A verdict that names a decision is told only once that decision was made.    *)
Tell(r) ==
  /\ verdict[r] = "none"
  /\ \E v \in {"unknown"} \cup ({stage[r]} \cap {"accepted", "refused", "silent"}) :
       verdict' = [verdict EXCEPT ![r] = v]
  /\ UNCHANGED stage

Next == \E r \in Callers : Submit(r) \/ Decide(r) \/ Tell(r)

Spec == Init /\ [][Next]_vars
===============================================================================
