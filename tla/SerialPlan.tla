---------------------------- MODULE SerialPlan ----------------------------
(***************************************************************************)
(* What a command promises that makes a plan of operations and carries it  *)
(* out, whatever the operations do: they run one at a time in their order, *)
(* each sends its mutations before the next one starts, the first that     *)
(* fails or whose outcome is unknown stops the plan, nothing is retried or *)
(* rolled back, and the report tells which operations ran.  ApplyConfig    *)
(* implements it (module ApplySerial), and so does the replacement of      *)
(* permissions, category by category (module AclSerial).                   *)
(***************************************************************************)
CONSTANTS
    Operations,  \* the operations a plan may hold
    Order        \* their order, a set of pairs

VARIABLES
    phase,    \* "planning", "executing" or "ended"
    report,   \* the status of every operation
    sent,     \* the operations that have sent a mutation
    verdict   \* how the run ended

serialVars == <<phase, report, sent, verdict>>

Pending == {o \in Operations : report[o] = "PLANNED"}
First(o) == o \in Pending /\ \A p \in Pending \ {o} : <<o, p>> \in Order
End(how) == phase' = "ended" /\ verdict' = how

Init ==
    /\ phase = "planning" /\ verdict = "running"
    /\ report = [o \in Operations |-> "none"]
    /\ sent = {}

\* Before there is a plan a run may give up; it has sent nothing.
Refuse == phase = "planning" /\ End("refused") /\ UNCHANGED <<report, sent>>

\* The plan, to be executed or only shown.
Propose ==
    /\ phase = "planning"
    /\ report' \in [Operations -> {"none", "PLANNED"}]
    /\ \/ phase' = "executing" /\ UNCHANGED verdict
       \/ End("done")
    /\ UNCHANGED sent

\* The first pending operation is the only one that may send anything, and
\* it may have sent something when it ends.  The run may end with the last.
MaySend(o) == sent' = sent \/ sent' = sent \cup {o}

Send(o) ==
    /\ phase = "executing" /\ First(o)
    /\ sent' = sent \cup {o}
    /\ UNCHANGED <<phase, report, verdict>>

Complete(o) ==
    /\ phase = "executing" /\ First(o)
    /\ report' = [report EXCEPT ![o] = "SUCCEEDED"]
    /\ MaySend(o)
    /\ \/ UNCHANGED <<phase, verdict>>
       \/ Pending = {o} /\ End("done")

\* It fails: the rest of the plan is skipped.
Break(o, how) ==
    /\ phase = "executing" /\ First(o)
    /\ report' = [p \in Operations |->
          IF p = o THEN how
          ELSE IF report[p] = "PLANNED" THEN "SKIPPED" ELSE report[p]]
    /\ MaySend(o)
    /\ End("broken")

\* The run ends without its report.
Abandon(o) ==
    /\ phase = "executing" /\ First(o)
    /\ End("abandoned")
    /\ UNCHANGED <<report, sent>>

Finish ==
    /\ phase = "executing" /\ Pending = {}
    /\ End("done")
    /\ UNCHANGED <<report, sent>>

\* The process is killed, between two calls or during one; it reports
\* nothing.
Die ==
    /\ phase # "ended"
    /\ \/ UNCHANGED sent
       \/ phase = "executing" /\ \E o \in Operations : First(o) /\ MaySend(o)
    /\ End("killed")
    /\ report' = [o \in Operations |-> "none"]

\* The command is run again.
Again ==
    /\ phase = "ended"
    /\ phase' = "planning" /\ verdict' = "running"
    /\ report' = [o \in Operations |-> "none"]
    /\ sent' = {}

Run(o) ==
    \/ Send(o) \/ Complete(o) \/ Abandon(o)
    \/ \E how \in {"FAILED", "UNKNOWN"} : Break(o, how)

Next ==
    \/ Refuse \/ Propose \/ Finish \/ Die \/ Again
    \/ \E o \in Operations : Run(o)

Spec == Init /\ [][Next]_serialVars
=============================================================================
