----------------------------- MODULE AclSerial -----------------------------
(* AclModify seen as a SerialPlan, for any one of its clients: the         *)
(* operations are the categories, in their order, and then the read-back.  *)
EXTENDS AclModify

CONSTANT Observed  \* the client looked at, whatever the others do

ASSUME ObservedAssumption == Observed \in Clients

Phase ==
    CASE pc[Observed] = "read" -> "planning"
      [] pc[Observed] \in {"set", "verify"} -> "executing"
      [] pc[Observed] = "done" -> "ended"

Verdict ==
    IF pc[Observed] # "done" THEN "running"
    ELSE CASE exit[Observed] = 0 -> "done"
           [] exit[Observed] = 60 -> "broken"
           [] exit[Observed] = Killed -> "killed"
           [] exit[Observed] \notin {0, 60, Killed} -> "refused"

\* What the steps of the result say of the plan.  A step that is not there
\* has still to come, and after a failure has been left out; a category that
\* needed nothing is done with, and where none did there was no plan.
Planned == pc[Observed] \in {"set", "verify"}
Failed == pc[Observed] = "done" /\ exit[Observed] = 60
Succeeded ==
    /\ pc[Observed] = "done" /\ exit[Observed] = 0
    /\ report[Observed][VerifyStep] = "SUCCEEDED"
StatusOf(step) ==
    IF ~ (Planned \/ Failed \/ Succeeded) THEN "none"
    ELSE CASE report[Observed][step] = "none" ->
                  IF Planned THEN "PLANNED" ELSE "SKIPPED"
           [] report[Observed][step] \in {"SKIPPED", "SUCCEEDED"} -> "SUCCEEDED"
           [] OTHER -> report[Observed][step]
Report == [s \in Steps |-> StatusOf(s)]
Sent == {Category[i] : i \in wrote[Observed]}

Serial ==
    INSTANCE SerialPlan
    WITH Operations <- Steps,
         Order <- {pair \in Steps \X Steps : pair[1] < pair[2]},
         phase <- Phase, report <- Report, sent <- Sent, verdict <- Verdict

\* modify-share replaces permissions category by category, stops at the
\* first failure and never goes back: whatever others do to the folder, a
\* replacement is a run of the abstract plan of apply-config.
ReplacesSerially == Serial!Spec
=============================================================================
