---------------------------- MODULE ApplySerial ----------------------------
(* ApplyConfig seen as a SerialPlan: the refinement mapping. *)
EXTENDS ApplyConfig

\* The plan is being made, executed, or the run has ended.
Phase ==
    IF pc \in PlanPcs THEN "planning"
    ELSE IF pc = "execute" THEN "executing" ELSE "ended"

\* The exit codes, as the promise tells them apart: a run that ends during
\* the plan is refused, one that ends with 40 during an operation abandoned.
Verdict ==
    IF pc # "done" THEN "running"
    ELSE CASE exit = 0 -> "done"
           [] exit = 60 -> "broken"
           [] exit = Killed -> "killed"
           [] exit \notin {0, 60, Killed} ->
                 IF stage = "idle" THEN "refused" ELSE "abandoned"

\* The statuses of a run that is killed are lost with it.
Report ==
    IF pc = "done" /\ exit = Killed THEN [o \in Ops |-> "none"] ELSE status

Serial ==
    INSTANCE SerialPlan
    WITH Operations <- Ops,
         Order <- {pair \in Ops \X Ops : Before(pair[1], pair[2])},
         phase <- Phase, report <- Report, sent <- wrote, verdict <- Verdict

\* README, "applies serially": every run of apply-config is one of the
\* abstract plan.  Operations are executed one at a time and in order, none
\* is started after one that failed, and the report is the plan's.
ImplementsSerialPlan == Serial!Spec
=============================================================================
